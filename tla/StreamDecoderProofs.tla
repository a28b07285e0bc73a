------------------------- MODULE StreamDecoderProofs -------------------------
(***************************************************************************)
(* Proofs about the streaming Decoder, for every value of the constants:   *)
(* type correctness and the bound on the decoder's buffer.                 *)
(***************************************************************************)
EXTENDS StreamDecoder, SequenceTheorems, WellFoundedInduction, TLAPS

(***************************************************************************)
(* Lemmas about the operators the model is built from                      *)
(***************************************************************************)

\* SubSeqType below for sequences of bytes, as a formula to cite where the
\* lemma is not instantiated.
SubSeqTypeFormula ==
  \A s \in Seq(Bytes), m, n \in Int :
    m >= 1 /\ n <= Len(s) =>
      /\ SubSeq(s, m, n) \in Seq(Bytes)
      /\ Len(SubSeq(s, m, n)) = IF m <= n THEN n - m + 1 ELSE 0

\* A SubSeq inside a sequence is a sequence of its elements, of the length
\* of its index range.
LEMMA SubSeqType ==
  ASSUME NEW S, NEW s \in Seq(S), NEW m \in Int, NEW n \in Int,
         m >= 1, n <= Len(s)
  PROVE  /\ SubSeq(s, m, n) \in Seq(S)
         /\ Len(SubSeq(s, m, n)) = IF m <= n THEN n - m + 1 ELSE 0
<1>1. \A i \in m..n : s[i] \in S
  BY ElementOfSeq
<1>2. QED
  BY <1>1, SubSeqProperties

\* A non-empty set of naturals has a least element.
LEMMA MinExists ==
  ASSUME NEW T \in SUBSET Nat, T # {}
  PROVE  \E x \in T : \A y \in T : x <= y
<1> DEFINE Less == OpToRel(<, Nat)
<1>1. IsWellFoundedOn(Less, Nat)
  BY NatLessThanWellFounded
<1>2. \E x \in T : \A y \in T : ~(<<y, x>> \in Less)
  BY <1>1, WFMin, Zenon
<1>3. Less = {ss \in Nat \X Nat : ss[1] < ss[2]}
  BY Zenon DEF OpToRel
<1>4. \A x, y \in Nat :
        <<y, x>> \notin {ss \in Nat \X Nat : ss[1] < ss[2]} => x <= y
  OBVIOUS
<1>5. QED
  BY <1>2, <1>3, <1>4, Zenon

\* Every check of Assemble fails with one of the errors of ErrorKinds.
LEMMA AssembleErrType ==
  ASSUME NEW h, NEW body, NEW sig
  PROVE  AssembleErr(h, body, sig) \in ErrorKinds
BY Zenon DEF AssembleErr, ErrorKinds

\* SubSeqType for sequences of bytes, stated as one formula.
LEMMA SubSeqBytes == SubSeqTypeFormula
BY SubSeqType DEF SubSeqTypeFormula

\* The results Decode returns are of ResultType, once start is a number.
LEMMA ResultTypeLemma ==
  ASSUME start \in Nat, NEW kind \in ResultKinds, NEW err \in ErrorKinds,
         NEW c \in Seq(Bytes), NEW b \in Seq(Bytes), NEW s \in Seq(Bytes)
  PROVE  /\ Result(kind, err, c, b, s) \in ResultType
         /\ ErrorResult(err) \in ResultType
<1>1. <<>> \in Seq(Bytes)
  BY EmptySeq
<1>2. QED
  BY <1>1 DEF Result, ErrorResult, ResultType, ResultKinds

\* What is left of a buffer after its first bytes are taken (readExact's
\* d.b.Discard, src 345).
LEMMA DropType ==
  ASSUME NEW B \in Seq(Bytes), NEW O \in Seq(Bytes), Len(O) <= Len(B)
  PROVE  /\ SubSeq(B, Len(O) + 1, Len(B)) \in Seq(Bytes)
         /\ Len(SubSeq(B, Len(O) + 1, Len(B))) = Len(B) - Len(O)
<1>1. Len(O) \in Nat /\ Len(B) \in Nat
  BY LenProperties
<1>2. QED
  BY <1>1, SubSeqBytes DEF SubSeqTypeFormula

\* An error result is a result.
LEMMA ErrorResultType ==
  ASSUME start \in Nat, NEW err \in ErrorKinds
  PROVE  ErrorResult(err) \in ResultType
<1>1. <<>> \in Seq(Bytes)
  BY EmptySeq
<1>2. QED
  BY <1>1 DEF Result, ErrorResult, ResultType, ResultKinds

(***************************************************************************)
(* peek                                                                    *)
(***************************************************************************)

\* The new buffer size of a peek is at least the old one and positive.
LEMMA PeekCapLemma ==
  ASSUME bcap \in Nat \ {0}, NEW n \in Int
  PROVE  PeekCap(n) \in Nat \ {0} /\ PeekCap(n) >= bcap
<1>1. CASE n > bcap
  <2>1. (n \div InitialBufSize + 1) * InitialBufSize \in Int
    BY SizesAssumption
  <2>2. BufSize((n \div InitialBufSize + 1) * InitialBufSize) >= n
    BY <1>1, SizesAssumption DEF BufSize, MaxOf
  <2>3. QED
    BY <1>1, <2>1, <2>2, SizesAssumption DEF PeekCap, BufSize, MaxOf
<1>2. CASE ~(n > bcap)
  BY <1>2 DEF PeekCap
<1>3. QED
  BY <1>1, <1>2

\* A peek moves k bytes of the reader into the buffer, returns a prefix of
\* the buffer and leaves d.err one of the reader's ends; the buffer stays
\* within the buffer size.
LEMMA PeekLemma ==
  ASSUME src \in Seq(Bytes), buf \in Seq(Bytes), bcap \in Nat \ {0},
         Len(buf) <= bcap, derr \in {"none", "EOF", "ERR"},
         source.end \in {"EOF", "ERR"},
         NEW n \in Int, NEW k \in FillCounts(n)
  PROVE  /\ k \in 0..Len(src)
         /\ Peek(n, k).buf \in Seq(Bytes)
         /\ Len(Peek(n, k).buf) = Len(buf) + k
         /\ Peek(n, k).out \in Seq(Bytes)
         /\ Len(Peek(n, k).out) <= Len(Peek(n, k).buf)
         /\ Peek(n, k).derr \in {"none", "EOF", "ERR"}
         /\ Peek(n, k).cap = PeekCap(n)
         /\ Len(Peek(n, k).buf) <= PeekCap(n)
         /\ SubSeq(src, k + 1, Len(src)) \in Seq(Bytes)
         /\ Len(SubSeq(src, k + 1, Len(src))) = Len(src) - k
<1> DEFINE nb == buf \o SubSeq(src, 1, k)
<1>1. k \in 0..Len(src) /\ Len(buf) + k <= PeekCap(n)
  <2>0. PeekCap(n) \in Nat /\ PeekCap(n) >= bcap /\ Len(src) \in Nat
    BY PeekCapLemma, LenProperties
  <2>1. CASE Len(buf) >= n
    <3>1. k = 0
      BY <2>1 DEF FillCounts
    <3>2. k \in 0..Len(src)
      BY <2>0, <3>1
    <3>3. Len(buf) + k <= PeekCap(n)
      BY <2>0, <3>1
    <3>4. QED
      BY <3>2, <3>3
  <2>2. CASE ~(Len(buf) >= n)
    BY <2>2 DEF FillCounts
  <2>3. QED
    BY <2>1, <2>2
<1>2. SubSeq(src, 1, k) \in Seq(Bytes) /\ Len(SubSeq(src, 1, k)) = k
  BY <1>1, SubSeqType
<1>3. nb \in Seq(Bytes) /\ Len(nb) = Len(buf) + k
  BY <1>2, ConcatProperties
<1>4. SubSeq(nb, 1, MinOf(n, Len(nb))) \in Seq(Bytes)
      /\ Len(SubSeq(nb, 1, MinOf(n, Len(nb)))) <= Len(nb)
  <2>1. MinOf(n, Len(nb)) \in Int /\ MinOf(n, Len(nb)) <= Len(nb)
    BY <1>3 DEF MinOf
  <2>2. QED
    BY <1>3, <2>1, SubSeqType
<1>5. SubSeq(src, k + 1, Len(src)) \in Seq(Bytes)
      /\ Len(SubSeq(src, k + 1, Len(src))) = Len(src) - k
  BY <1>1, SubSeqType
<1>6. Peek(n, k).derr \in {"none", "EOF", "ERR"}
  BY DEF Peek
<1>7. QED
  BY <1>1, <1>3, <1>4, <1>5, <1>6 DEF Peek

(***************************************************************************)
(* readUntil                                                               *)
(***************************************************************************)

\* One iteration of readUntil on a peek's result: what stays buffered is a
\* suffix of the buffer; a return gives bytes and one of its errors; a new
\* iteration has a size within the cap.
LEMMA IterLemma ==
  ASSUME last \in Nat, size \in Nat \ {0},
         NEW P, P.buf \in Seq(Bytes), P.out \in Seq(Bytes),
         Len(P.out) <= Len(P.buf), P.derr \in {"none", "EOF", "ERR"},
         NEW maxSize \in Int
  PROVE  LET r == ReadUntilIter(P, maxSize) IN
         /\ r.rest \in Seq(Bytes)
         /\ Len(r.rest) <= Len(P.buf)
         /\ r.done \in BOOLEAN
         /\ r.done => /\ r.ret \in Seq(Bytes)
                      /\ r.err \in {"none", "EOF", "ERR", "MaxSize"}
         /\ ~r.done => /\ r.last \in Nat
                       /\ r.size \in Nat \ {0}
                       /\ r.size <= maxSize
<1> DEFINE D == DelimAt(P.out, last + 1)
           i == CHOOSE j \in D : \A m \in D : j <= m
           rr == ReadUntilIter(P, maxSize)
<1> HIDE DEF rr
<1>1. CASE D # {}
  <2>1. D \subseteq (last + 1)..(Len(P.out) - 1)
    BY DEF DelimAt
  <2>2. i \in D
    <3>1. D \subseteq Nat
      BY <2>1
    <3>2. \E j \in D : \A m \in D : j <= m
      BY <1>1, <3>1, MinExists
    <3>3. QED
      BY <3>2
  <2>3. i \in 1..(Len(P.out) - 1)
    BY <2>1, <2>2
  <2>4. rr = [done |-> TRUE, ret |-> SubSeq(P.out, 1, i + 1), err |-> "none",
             rest |-> SubSeq(P.buf, i + 2, Len(P.buf))]
    BY <1>1 DEF rr, ReadUntilIter
  <2> HIDE DEF i
  <2>5. SubSeq(P.out, 1, i + 1) \in Seq(Bytes)
    <3>1. i + 1 \in Int /\ i + 1 <= Len(P.out)
      BY <2>3
    <3>2. QED
      BY <3>1, SubSeqBytes DEF SubSeqTypeFormula
  <2>6. SubSeq(P.buf, i + 2, Len(P.buf)) \in Seq(Bytes)
        /\ Len(SubSeq(P.buf, i + 2, Len(P.buf))) <= Len(P.buf)
    <3>1. Len(P.buf) \in Nat /\ i + 2 \in Int /\ i + 2 >= 1
      BY <2>3, LenProperties
    <3>2. QED
      BY <3>1, SubSeqBytes DEF SubSeqTypeFormula
  <2>7. QED
    BY <2>4, <2>5, <2>6 DEF rr
<1>2. CASE D = {} /\ ErrReported(P)
  <2>1. rr = [done |-> TRUE, ret |-> P.out, err |-> P.derr, rest |-> <<>>]
    BY <1>2 DEF rr, ReadUntilIter
  <2>2. P.derr \in {"EOF", "ERR"}
    BY <1>2 DEF ErrReported
  <2>3. QED
    BY <2>1, <2>2, EmptySeq, LenProperties DEF rr
<1>3. CASE D = {} /\ ~ErrReported(P) /\ OverMax(size, maxSize)
  <2>1. rr = [done |-> TRUE, ret |-> <<>>, err |-> "MaxSize", rest |-> P.buf]
    BY <1>3 DEF rr, ReadUntilIter
  <2>2. QED
    BY <2>1, EmptySeq, LenProperties DEF rr
<1>4. CASE D = {} /\ ~ErrReported(P) /\ ~OverMax(size, maxSize)
  <2>1. rr = [done |-> FALSE, last |-> size - 1, size |-> NextSize(size),
             rest |-> P.buf]
    BY <1>4 DEF rr, ReadUntilIter
  <2>2. NextSize(size) <= maxSize
    BY <1>4 DEF OverMax, NextSize
  <2>3. QED
    BY <2>1, <2>2 DEF NextSize, rr
<1>5. QED
  BY <1>1, <1>2, <1>3, <1>4

(***************************************************************************)
(* The buffer bound                                                        *)
(***************************************************************************)

\* peek's rounding, (size/initialBufSize+1)*initialBufSize, is monotonic.
LEMMA RoundUpMono ==
  ASSUME NEW a \in Nat, NEW b \in Nat, a <= b
  PROVE  (a \div InitialBufSize + 1) * InitialBufSize
           <= (b \div InitialBufSize + 1) * InitialBufSize
<1> DEFINE I == InitialBufSize
<1>1. I \in Nat \ {0}
  BY SizesAssumption
<1>2. a \div I <= b \div I /\ a \div I \in Int /\ b \div I \in Int
  BY <1>1
<1>3. QED
  BY <1>1, <1>2

\* A peek of a size within the caps, or of the initial size, never makes
\* the buffer larger than CapBound.
LEMMA PeekCapBound ==
  ASSUME bcap \in Nat \ {0}, bcap >= BufSize(InitialBufSize),
         bcap <= CapBound,
         NEW n \in Int, n = InitialBufSize \/ n <= MaxCap
  PROVE  PeekCap(n) <= CapBound /\ PeekCap(n) >= BufSize(InitialBufSize)
<1>1. InitialBufSize \in Nat \ {0} /\ MaxCap \in Nat
  BY SizesAssumption DEF MaxCap, MaxOf
<1>2. CASE n > bcap
  <2>1. n > InitialBufSize
    BY <1>1, <1>2, SizesAssumption DEF BufSize, MaxOf
  <2>2. n \in Nat /\ n <= MaxCap
    BY <1>1, <2>1
  <2>3. (n \div InitialBufSize + 1) * InitialBufSize
          <= (MaxCap \div InitialBufSize + 1) * InitialBufSize
    BY <1>1, <2>2, RoundUpMono
  <2>4. (n \div InitialBufSize + 1) * InitialBufSize \in Int
    BY <1>1
  <2>5. QED
    BY <1>2, <2>3, <2>4, <1>1, SizesAssumption DEF PeekCap, CapBound, BufSize, MaxOf
<1>3. CASE ~(n > bcap)
  BY <1>3 DEF PeekCap
<1>4. QED
  BY <1>2, <1>3

(***************************************************************************)
(* The inductive invariant.  TypeOK and BufferBounded are not inductive by *)
(* themselves: start is a count of consumed bytes only while src and buf  *)
(* together are no longer than the stream; contentBuf can be cut to the   *)
(* headers only while it holds them; and a peek stays within CapBound     *)
(* only while readUntil's size is the initial one or within its phase's   *)
(* cap, and readExact's length within the body cap.                       *)
(***************************************************************************)
PhaseCapOK ==
  /\ pc = "head" => size = InitialBufSize \/ size <= MaxHeadersSize
  /\ pc \in {"trailer", "sig"} => size = InitialBufSize \/ size <= MaxSigSize
  /\ pc = "body" => BodyLength(headAndSep) \in 1..MaxBodySize

IInv ==
  /\ TypeOK
  /\ source \in Sources
  /\ Len(src) + Len(buf) <= Len(StreamOf(source))
  /\ Len(headAndSep) <= Len(content)
  /\ BufferBounded
  /\ bcap >= BufSize(InitialBufSize)
  /\ PhaseCapOK

\* The initial state of the decoder satisfies the invariant.
LEMMA InitIInv == Init => IInv
<1> SUFFICES ASSUME Init PROVE IInv
  OBVIOUS
<1>1. InitialBufSize \in Nat \ {0} /\ MinReadBufferSize \in Nat \ {0}
      /\ MaxCap \in Nat
  BY SizesAssumption DEF MaxCap, MaxOf
<1>2. src \in Seq(Bytes) /\ Len(src) \in Nat
  BY SourcesAssumption, LenProperties DEF Init
<1>3. BufSize(InitialBufSize) \in Nat \ {0}
  BY <1>1 DEF BufSize, MaxOf
<1>4. BufSize(InitialBufSize) <= CapBound
  <2>1. InitialBufSize <= (MaxCap \div InitialBufSize + 1) * InitialBufSize
    BY <1>1
  <2>2. QED
    BY <1>1, <2>1 DEF CapBound, BufSize, MaxOf
<1>5. TypeOK
  BY <1>2, <1>3, <1>1, EmptySeq DEF Init, TypeOK, Phases
<1>6. QED
  BY <1>2, <1>3, <1>4, <1>5, EmptySeq
  DEF Init, IInv, BufferBounded, PhaseCapOK

\* The stream is a sequence of bytes.
LEMMA StreamType ==
  ASSUME source \in Sources
  PROVE  StreamOf(source) \in Seq(Bytes) /\ Len(StreamOf(source)) \in Nat
         /\ source.end \in {"EOF", "ERR"}
BY SourcesAssumption, LenProperties

\* A call of Decode starts reading the headers at the consumed offset.
LEMMA CallIInv == IInv /\ Call => IInv'
<1> SUFFICES ASSUME IInv, Call PROVE IInv'
  OBVIOUS
<1>1. Len(src) \in Nat /\ Len(buf) \in Nat
  BY LenProperties DEF IInv, TypeOK
<1>2. Consumed \in Nat
  BY <1>1, StreamType DEF IInv, Consumed
<1>3. InitialBufSize \in Nat \ {0}
  BY SizesAssumption
<1>4. TypeOK'
  BY <1>2, <1>3 DEF IInv, TypeOK, Call, StartRead, Phases
<1>5. QED
  BY <1>4 DEF IInv, Call, StartRead, BufferBounded, PhaseCapOK

\* One iteration of readUntil, for the headers, the trailer or the
\* signature with their caps, keeps the invariant.
LEMMA ReadUntilIInv ==
  ASSUME IInv, NEW phase, NEW maxSize,
         <<phase, maxSize>> \in {<<"head", MaxHeadersSize>>,
                                 <<"trailer", MaxSigSize>>,
                                 <<"sig", MaxSigSize>>},
         ReadUntil(phase, maxSize)
  PROVE  IInv'
<1>1. PICK k \in FillCounts(size) :
        LET p == Peek(size, k)
            r == ReadUntilIter(p, maxSize)
        IN  /\ PeekEffect(p, k)
            /\ buf' = r.rest
            /\ IF r.done
               THEN /\ pc' = AfterRead[phase]
                    /\ ret' = r.ret
                    /\ rerr' = r.err
                    /\ UNCHANGED <<last, size>>
               ELSE /\ last' = r.last
                    /\ size' = r.size
                    /\ UNCHANGED <<pc, ret, rerr>>
  BY DEF ReadUntil
<1> DEFINE p == Peek(size, k)
           r == ReadUntilIter(p, maxSize)
<1> HIDE DEF p, r
<1>12. /\ PeekEffect(p, k)
       /\ buf' = r.rest
       /\ r.done => /\ pc' = AfterRead[phase] /\ ret' = r.ret /\ rerr' = r.err
                    /\ UNCHANGED <<last, size>>
       /\ ~r.done => /\ last' = r.last /\ size' = r.size
                     /\ UNCHANGED <<pc, ret, rerr>>
  BY <1>1 DEF p, r
<1>0. /\ pc = phase
      /\ UNCHANGED <<source, start, headAndSep, content, results>>
  BY DEF ReadUntil
<1>2. /\ k \in 0..Len(src)
      /\ p.buf \in Seq(Bytes) /\ Len(p.buf) = Len(buf) + k
      /\ p.out \in Seq(Bytes) /\ Len(p.out) <= Len(p.buf)
      /\ p.derr \in {"none", "EOF", "ERR"}
      /\ p.cap = PeekCap(size) /\ Len(p.buf) <= PeekCap(size)
      /\ SubSeq(src, k + 1, Len(src)) \in Seq(Bytes)
      /\ Len(SubSeq(src, k + 1, Len(src))) = Len(src) - k
  BY PeekLemma, StreamType DEF IInv, TypeOK, BufferBounded, p
<1>3. /\ maxSize \in Nat \ {0} /\ maxSize <= MaxCap
      /\ \/ phase = "head" /\ maxSize = MaxHeadersSize
         \/ phase \in {"trailer", "sig"} /\ maxSize = MaxSigSize
  BY SizesAssumption DEF MaxCap, MaxOf
<1>4. size \in Nat \ {0} /\ (size = InitialBufSize \/ size <= maxSize)
  BY <1>0, <1>3 DEF IInv, PhaseCapOK, TypeOK
<1>5. PeekCap(size) \in Nat \ {0} /\ PeekCap(size) <= CapBound
      /\ PeekCap(size) >= BufSize(InitialBufSize)
  <2>0. MaxCap \in Nat
    BY SizesAssumption DEF MaxCap, MaxOf
  <2>1. size \in Int /\ (size = InitialBufSize \/ size <= MaxCap)
    <3>1. maxSize \in Int /\ maxSize <= MaxCap /\ size \in Int
      BY <1>3, <1>4
    <3>2. size = InitialBufSize \/ size <= maxSize
      BY <1>4
    <3>3. QED
      BY <2>0, <3>1, <3>2
  <2>2. bcap \in Nat \ {0} /\ bcap >= BufSize(InitialBufSize)
        /\ bcap <= CapBound
    BY DEF IInv, TypeOK, BufferBounded
  <2>3. QED
    BY <2>1, <2>2, PeekCapBound, PeekCapLemma
<1>6. /\ r.rest \in Seq(Bytes)
      /\ Len(r.rest) <= Len(p.buf)
      /\ r.done \in BOOLEAN
      /\ r.done => /\ r.ret \in Seq(Bytes)
                   /\ r.err \in {"none", "EOF", "ERR", "MaxSize"}
      /\ ~r.done => /\ r.last \in Nat
                    /\ r.size \in Nat \ {0}
                    /\ r.size <= maxSize
  BY <1>2, <1>3, IterLemma DEF IInv, TypeOK, r
<1>7. /\ src' = SubSeq(src, k + 1, Len(src))
      /\ bcap' = PeekCap(size)
      /\ derr' = p.derr
      /\ buf' = r.rest
  BY <1>12, <1>2 DEF PeekEffect
<1>8. Len(src') + Len(buf') <= Len(StreamOf(source'))
  <2>1. Len(src') = Len(src) - k /\ Len(buf') <= Len(buf) + k
    BY <1>2, <1>6, <1>7
  <2>2. Len(src) + Len(buf) <= Len(StreamOf(source)) /\ Len(buf) \in Nat
    BY LenProperties DEF IInv, TypeOK
  <2>3. StreamOf(source') = StreamOf(source)
    BY <1>0
  <2>4. k \in Nat /\ Len(src) \in Nat /\ Len(StreamOf(source)) \in Nat
    BY <1>2, StreamType DEF IInv, TypeOK
  <2>5. QED
    BY <2>1, <2>2, <2>3, <2>4
<1>9. CASE r.done
  <2>1. /\ pc' = AfterRead[phase] /\ ret' = r.ret /\ rerr' = r.err
        /\ UNCHANGED <<last, size>>
    BY <1>12, <1>9
  <2>2. pc' \in Phases \ {"head", "body", "trailer", "sig"}
    BY <2>1 DEF AfterRead, Phases
  <2>3. TypeOK'
    BY <1>0, <1>2, <1>5, <1>6, <1>7, <1>9, <2>1, <2>2 DEF IInv, TypeOK
  <2>4. BufferBounded'
    <3>1. Len(buf') <= Len(p.buf) /\ Len(p.buf) <= PeekCap(size)
      BY <1>2, <1>6, <1>7
    <3>2. QED
      BY <3>1, <1>5, <1>7, <1>2, <1>6 DEF BufferBounded
  <2>5. PhaseCapOK'
    BY <2>2 DEF PhaseCapOK
  <2>6. /\ source' \in Sources
        /\ Len(headAndSep') <= Len(content')
        /\ bcap' >= BufSize(InitialBufSize)
    BY <1>0, <1>5, <1>7 DEF IInv
  <2>7. QED
    BY <1>8, <2>3, <2>4, <2>5, <2>6 DEF IInv
<1>10. CASE ~r.done
  <2>1. /\ last' = r.last /\ size' = r.size /\ UNCHANGED <<pc, ret, rerr>>
    BY <1>12, <1>10
  <2>2. TypeOK'
    BY <1>0, <1>2, <1>5, <1>6, <1>7, <1>10, <2>1 DEF IInv, TypeOK
  <2>3. PhaseCapOK'
    BY <1>0, <1>6, <1>10, <2>1 DEF PhaseCapOK
  <2>4. BufferBounded'
    <3>1. Len(buf') <= Len(p.buf) /\ Len(p.buf) <= PeekCap(size)
      BY <1>2, <1>6, <1>7
    <3>2. QED
      BY <3>1, <1>5, <1>7, <1>2, <1>6 DEF BufferBounded
  <2>5. /\ source' \in Sources
        /\ Len(headAndSep') <= Len(content')
        /\ bcap' >= BufSize(InitialBufSize)
    BY <1>0, <1>5, <1>7 DEF IInv
  <2>6. QED
    BY <1>8, <2>2, <2>3, <2>4, <2>5 DEF IInv
<1>11. QED
  BY <1>6, <1>9, <1>10


\* Decode returning a result of the right type, with the reader and the
\* decoder's buffer left alone, keeps the invariant.
LEMMA ReturnIInv ==
  ASSUME IInv, NEW res \in ResultType, Return(res),
         UNCHANGED <<source, src, buf, bcap, derr, ret, rerr, start>>
  PROVE  IInv'
<1>1. results' \in Seq(ResultType)
  BY AppendProperties DEF IInv, TypeOK, Return
<1>2. TypeOK'
  BY <1>1 DEF IInv, TypeOK, Return, Phases
<1>3. PhaseCapOK'
  BY DEF Return, PhaseCapOK
<1>4. QED
  BY <1>2, <1>3 DEF IInv, Return, BufferBounded

\* An integer header that passed checkInteger has an integer value.
LEMMA IntOfType ==
  ASSUME NEW h, NEW n, IntOK(h, n)
  PROVE  IntOf(h, n) \in Int
BY DEF IntOK, IntOf, IntStrings, Atoi

\* Decode on the headers it read keeps the invariant.
LEMMA AfterHeadIInv == IInv /\ AfterHead => IInv'
<1> SUFFICES ASSUME IInv, AfterHead PROVE IInv'
  OBVIOUS
<1> DEFINE h == ret
<1>0. /\ pc = "afterHead"
      /\ UNCHANGED <<source, src, buf, bcap, derr, ret, rerr, start>>
  BY DEF AfterHead
<1>1. start \in Nat /\ ret \in Seq(Bytes)
  BY DEF IInv, TypeOK
<1>2. CASE rerr # "none"
  <2>1. CASE rerr = "EOF"
    <3>1. HeadEOFResult(h) \in ResultType
      BY <1>1, ResultTypeLemma DEF HeadEOFResult, ResultKinds, ErrorKinds
    <3>2. Return(HeadEOFResult(h))
      BY <1>2, <2>1 DEF AfterHead
    <3>3. QED
      BY <1>0, <3>1, <3>2, ReturnIInv
  <2>2. CASE rerr # "EOF"
    <3>0. rerr \in ErrorKinds
      BY DEF IInv, TypeOK, ErrorKinds
    <3>1. ErrorResult(rerr) \in ResultType
      BY <1>1, <3>0, ErrorResultType
    <3>2. Return(ErrorResult(rerr))
      BY <1>2, <2>2 DEF AfterHead
    <3>3. QED
      BY <1>0, <3>1, <3>2, ReturnIInv
  <2>3. QED
    BY <2>1, <2>2
<1>3. CASE rerr = "none" /\ ~ParseOK(SubSeq(h, 1, HeadLen(h)))
  <2>1. ErrorResult("BadHeaders") \in ResultType
    <3>1. "BadHeaders" \in ErrorKinds
      BY DEF ErrorKinds
    <3>2. QED
      BY <1>1, <3>1, ErrorResultType
  <2>2. Return(ErrorResult("BadHeaders"))
    BY <1>3 DEF AfterHead
  <2>3. QED
    BY <1>0, <2>1, <2>2, ReturnIInv
<1>4. CASE rerr = "none" /\ ParseOK(SubSeq(h, 1, HeadLen(h)))
           /\ ~IntOK(Headers(h), "body-length")
  <2>1. ErrorResult("BadInteger") \in ResultType
    <3>1. "BadInteger" \in ErrorKinds
      BY DEF ErrorKinds
    <3>2. QED
      BY <1>1, <3>1, ErrorResultType
  <2>2. Return(ErrorResult("BadInteger"))
    BY <1>4 DEF AfterHead
  <2>3. QED
    BY <1>0, <2>1, <2>2, ReturnIInv
<1>5. CASE rerr = "none" /\ ParseOK(SubSeq(h, 1, HeadLen(h)))
           /\ IntOK(Headers(h), "body-length") /\ BodyTooLarge(h)
  <2>1. ErrorResult("BodyTooLarge") \in ResultType
    <3>1. "BodyTooLarge" \in ErrorKinds
      BY DEF ErrorKinds
    <3>2. QED
      BY <1>1, <3>1, ErrorResultType
  <2>2. Return(ErrorResult("BodyTooLarge"))
    BY <1>5 DEF AfterHead
  <2>3. QED
    BY <1>0, <2>1, <2>2, ReturnIInv
<1>6. CASE rerr = "none" /\ ParseOK(SubSeq(h, 1, HeadLen(h)))
           /\ IntOK(Headers(h), "body-length") /\ ~BodyTooLarge(h)
           /\ WireLen(h) + BodyLength(h) < 0
  <2>1. pc' = "panic" /\ UNCHANGED <<last, size, headAndSep, content, results>>
    BY <1>6 DEF AfterHead
  <2>2. TypeOK'
    BY <1>0, <2>1 DEF IInv, TypeOK, Phases
  <2>3. QED
    BY <1>0, <2>1, <2>2 DEF IInv, BufferBounded, PhaseCapOK
<1>7. CASE rerr = "none" /\ ParseOK(SubSeq(h, 1, HeadLen(h)))
           /\ IntOK(Headers(h), "body-length") /\ ~BodyTooLarge(h)
           /\ ~(WireLen(h) + BodyLength(h) < 0)
  <2>1. /\ headAndSep' = h /\ content' = h
        /\ pc' = IF BodyLength(h) > 0 THEN "body" ELSE "trailer"
        /\ last' = 0 /\ size' = InitialBufSize /\ UNCHANGED results
    BY <1>7 DEF AfterHead, StartRead
  <2>2. BodyLength(h) \in Int /\ BodyLength(h) <= MaxBodySize
    <3>1. BodyLength(h) \in Int
      BY <1>7, IntOfType DEF BodyLength
    <3>2. QED
      BY <1>7, <3>1, SizesAssumption DEF BodyTooLarge
  <2>3. InitialBufSize \in Nat \ {0}
    BY SizesAssumption
  <2>4. TypeOK'
    BY <1>0, <1>1, <2>1, <2>3 DEF IInv, TypeOK, Phases
  <2>5. PhaseCapOK'
    BY <2>1, <2>2 DEF PhaseCapOK
  <2>6. QED
    BY <1>0, <2>1, <2>4, <2>5 DEF IInv, BufferBounded
<1>8. QED
  BY <1>2, <1>3, <1>4, <1>5, <1>6, <1>7


\* readExact of the body, within the body cap, keeps the invariant.
LEMMA ReadBodyIInv ==
  ASSUME IInv, ReadBody
  PROVE  IInv'
<1> DEFINE n == BodyLength(headAndSep)
<1>0. /\ pc = "body"
      /\ UNCHANGED <<source, start, ret, rerr>>
  BY DEF ReadBody
<1>1. PICK k \in FillCounts(n) :
        /\ PeekEffect(Peek(n, k), k)
        /\ buf' = SubSeq(Peek(n, k).buf, Len(Peek(n, k).out) + 1,
                         Len(Peek(n, k).buf))
        /\ IF Len(Peek(n, k).out) = n
           THEN /\ content' = content \o Peek(n, k).out
                /\ StartRead("trailer")
                /\ UNCHANGED headAndSep
           ELSE Return(ErrorResult(IF Peek(n, k).derr = "EOF"
                                   THEN "UnexpectedEOF"
                                   ELSE Peek(n, k).derr))
  BY <1>0 DEF ReadBody
<1>20. PICK PB, PO, PD : /\ PB = Peek(n, k).buf /\ PO = Peek(n, k).out
                        /\ PD = Peek(n, k).derr
  OBVIOUS
<1>2. n \in 1..MaxBodySize /\ n <= MaxCap
  <2>1. n \in 1..MaxBodySize
    BY <1>0 DEF IInv, PhaseCapOK
  <2>2. QED
    BY <2>1, SizesAssumption DEF MaxCap, MaxOf
<1> HIDE DEF n
<1>3. /\ k \in 0..Len(src)
      /\ PB \in Seq(Bytes) /\ Len(PB) = Len(buf) + k
      /\ PO \in Seq(Bytes) /\ Len(PO) <= Len(PB)
      /\ PD \in {"none", "EOF", "ERR"}
      /\ Len(PB) <= PeekCap(n)
      /\ src' = SubSeq(src, k + 1, Len(src))
      /\ SubSeq(src, k + 1, Len(src)) \in Seq(Bytes)
      /\ Len(SubSeq(src, k + 1, Len(src))) = Len(src) - k
      /\ bcap' = PeekCap(n) /\ derr' = PD
  <2>1. n \in Int
    BY <1>2
  <2>2. QED
    BY <1>1, <1>20, <2>1, PeekLemma, StreamType
    DEF IInv, TypeOK, BufferBounded, PeekEffect
<1>4. PeekCap(n) \in Nat \ {0} /\ PeekCap(n) <= CapBound
      /\ PeekCap(n) >= BufSize(InitialBufSize)
  <2>1. n \in Int /\ (n = InitialBufSize \/ n <= MaxCap)
    BY <1>2
  <2>2. bcap \in Nat \ {0} /\ bcap >= BufSize(InitialBufSize)
        /\ bcap <= CapBound
    BY DEF IInv, TypeOK, BufferBounded
  <2>3. QED
    BY <2>1, <2>2, PeekCapBound, PeekCapLemma
<1>5. /\ buf' \in Seq(Bytes)
      /\ Len(buf') = Len(PB) - Len(PO)
  <2>1. Len(PO) + 1 >= 1 /\ Len(PO) + 1 \in Int /\ Len(PB) \in Int
    BY <1>3, LenProperties
  <2>2. buf' = SubSeq(PB, Len(PO) + 1, Len(PB))
    BY <1>1, <1>20
  <2>3. QED
    BY <1>3, <2>2, DropType
<1>6. /\ BufferBounded'
      /\ Len(src') + Len(buf') <= Len(StreamOf(source'))
      /\ bcap' >= BufSize(InitialBufSize)
      /\ src' \in Seq(Bytes) /\ buf' \in Seq(Bytes)
      /\ bcap' \in Nat \ {0} /\ derr' \in {"none", "EOF", "ERR"}
  <2>1. Len(src) + Len(buf) <= Len(StreamOf(source)) /\ Len(buf) \in Nat
        /\ Len(PO) \in Nat /\ Len(src) \in Nat
    BY <1>3, LenProperties DEF IInv, TypeOK
  <2>2. StreamOf(source') = StreamOf(source)
    BY <1>0
  <2>3. Len(buf') <= Len(buf) + k /\ Len(buf') <= PeekCap(n)
    <3>1. Len(buf') <= Len(PB)
      BY <1>3, <1>5, <2>1
    <3>2. QED
      BY <3>1, <1>3, <1>4, <2>1
  <2>4. Len(src') = Len(src) - k /\ k \in Nat
    BY <1>3
  <2>5. Len(buf') \in Nat /\ Len(StreamOf(source)) \in Nat
    BY <1>5, LenProperties, StreamType DEF IInv
  <2>6. BufferBounded'
    BY <1>3, <1>4, <2>3, <2>5 DEF BufferBounded
  <2>7. Len(src') + Len(buf') <= Len(StreamOf(source'))
    BY <2>1, <2>2, <2>3, <2>4, <2>5
  <2>8. QED
    BY <1>3, <1>4, <1>5, <2>6, <2>7
<1>7. CASE Len(PO) = n
  <2>1. /\ content' = content \o PO
        /\ pc' = "trailer" /\ last' = 0 /\ size' = InitialBufSize
        /\ UNCHANGED <<headAndSep, results>>
    BY <1>1, <1>20, <1>7 DEF StartRead
  <2>2. content' \in Seq(Bytes) /\ Len(content') >= Len(content)
    BY <1>3, <2>1, ConcatProperties DEF IInv, TypeOK
  <2>3. TypeOK'
    BY <1>0, <1>6, <2>1, <2>2, SizesAssumption DEF IInv, TypeOK, Phases
  <2>4. PhaseCapOK'
    BY <2>1 DEF PhaseCapOK
  <2>5. Len(headAndSep') <= Len(content')
    BY <2>1, <2>2 DEF IInv
  <2>6. QED
    BY <1>0, <1>6, <2>3, <2>4, <2>5 DEF IInv
<1>8. CASE Len(PO) # n
  <2> DEFINE e == IF PD = "EOF" THEN "UnexpectedEOF" ELSE PD
  <2>1. Return(ErrorResult(e))
    BY <1>1, <1>20, <1>8
  <2>2. ErrorResult(e) \in ResultType
    <3>1. e \in ErrorKinds
      BY <1>3 DEF ErrorKinds
    <3>2. QED
      BY <3>1, ErrorResultType DEF IInv, TypeOK
  <2>3. results' \in Seq(ResultType)
    BY <2>1, <2>2, AppendProperties DEF IInv, TypeOK, Return
  <2>4. TypeOK'
    BY <1>0, <1>6, <2>1, <2>3 DEF IInv, TypeOK, Return, Phases
  <2>5. QED
    BY <1>0, <1>6, <2>1, <2>4 DEF IInv, Return, PhaseCapOK
<1>9. QED
  BY <1>7, <1>8


\* The rest of Decode once the signature is read returns a result of the
\* right type, so it keeps the invariant.
LEMMA FinishIInv ==
  ASSUME IInv, NEW sig \in Seq(Bytes), NEW cont \in Seq(Bytes),
         Finish(sig, cont),
         UNCHANGED <<source, src, buf, bcap, derr, ret, rerr, start>>
  PROVE  IInv'
<1> DEFINE sig1 == IF HasSuffix(sig, NLNL) THEN SubSeq(sig, 1, Len(sig) - 1)
                   ELSE sig
           body == IF BodyLength(headAndSep) > 0
                   THEN SubSeq(cont, HeadLen(headAndSep) + 3, Len(cont))
                   ELSE <<>>
           err  == AssembleErr(Headers(headAndSep), body, sig1)
           res  == IF err = "none" THEN Result("assertion", "none", cont, body, sig1)
                   ELSE ErrorResult(err)
<1>1. Return(res)
  BY DEF Finish
<1> HIDE DEF res
<1>2. Len(sig) \in Nat /\ Len(cont) \in Nat /\ Len(headAndSep) \in Nat
  BY LenProperties DEF IInv, TypeOK
<1>3. sig1 \in Seq(Bytes)
  BY <1>2, SubSeqBytes DEF SubSeqTypeFormula
<1>4. body \in Seq(Bytes)
  <2>1. HeadLen(headAndSep) + 3 \in Int /\ HeadLen(headAndSep) + 3 >= 1
    BY <1>2 DEF HeadLen
  <2>2. QED
    BY <1>2, <2>1, EmptySeq, SubSeqBytes DEF SubSeqTypeFormula
<1>5. err \in ErrorKinds
  BY AssembleErrType
<1>6. res \in ResultType
  <2>1. start \in Nat
    BY DEF IInv, TypeOK
  <2>2. "assertion" \in ResultKinds /\ "none" \in ErrorKinds
    BY DEF ResultKinds, ErrorKinds
  <2>3. QED
    BY <1>3, <1>4, <1>5, <2>1, <2>2, ResultTypeLemma, ErrorResultType DEF res
<1>7. QED
  BY <1>1, <1>6, ReturnIInv

\* Decode on what follows the body keeps the invariant.
LEMMA AfterTrailerIInv ==
  ASSUME IInv, AfterTrailer
  PROVE  IInv'
<1>0. /\ pc = "afterTrailer"
      /\ UNCHANGED <<source, src, buf, bcap, derr, ret, rerr, start>>
  BY DEF AfterTrailer
<1>1. start \in Nat /\ ret \in Seq(Bytes) /\ rerr \in ErrorKinds
  BY DEF IInv, TypeOK, ErrorKinds
<1>2. CASE rerr \notin {"none", "EOF"}
  <2>1. Return(ErrorResult(rerr))
    BY <1>2 DEF AfterTrailer
  <2>2. QED
    BY <1>0, <1>1, <2>1, ErrorResultType, ReturnIInv
<1>3. CASE rerr \in {"none", "EOF"} /\ ret = NLNL
  <2>1. /\ pc' = "sig" /\ last' = 0 /\ size' = InitialBufSize
        /\ UNCHANGED <<headAndSep, content, results>>
    BY <1>3 DEF AfterTrailer, StartRead
  <2>2. TypeOK'
    BY <1>0, <2>1, SizesAssumption DEF IInv, TypeOK, Phases
  <2>3. PhaseCapOK'
    BY <2>1 DEF PhaseCapOK
  <2>4. QED
    BY <1>0, <2>1, <2>2, <2>3 DEF IInv, BufferBounded
<1>4. CASE rerr \in {"none", "EOF"} /\ ret # NLNL
           /\ BodyLength(headAndSep) > 0
  <2>1. Return(ErrorResult("MissingSeparator"))
    BY <1>4 DEF AfterTrailer
  <2>2. "MissingSeparator" \in ErrorKinds
    BY DEF ErrorKinds
  <2>3. QED
    BY <1>0, <1>1, <2>1, <2>2, ErrorResultType, ReturnIInv
<1>5. CASE rerr \in {"none", "EOF"} /\ ret # NLNL
           /\ ~(BodyLength(headAndSep) > 0)
  <2>1. Finish(ret, SigOnlyContent)
    BY <1>5 DEF AfterTrailer
  <2>2. SigOnlyContent \in Seq(Bytes)
    <3>1. Len(headAndSep) \in Nat /\ Len(headAndSep) <= Len(content)
          /\ content \in Seq(Bytes)
      BY LenProperties DEF IInv, TypeOK
    <3>2. QED
      BY <3>1, SubSeqBytes DEF SubSeqTypeFormula, SigOnlyContent, HeadLen
  <2>3. QED
    BY <1>0, <1>1, <2>1, <2>2, FinishIInv
<1>6. QED
  BY <1>2, <1>3, <1>4, <1>5

\* Decode on the signature keeps the invariant.
LEMMA AfterSigIInv ==
  ASSUME IInv, AfterSig
  PROVE  IInv'
<1>0. /\ pc = "afterSig"
      /\ UNCHANGED <<source, src, buf, bcap, derr, ret, rerr, start>>
  BY DEF AfterSig
<1>1. /\ start \in Nat /\ ret \in Seq(Bytes) /\ rerr \in ErrorKinds
      /\ content \in Seq(Bytes)
  BY DEF IInv, TypeOK, ErrorKinds
<1>2. CASE rerr \notin {"none", "EOF"}
  <2>1. Return(ErrorResult(rerr))
    BY <1>2 DEF AfterSig
  <2>2. QED
    BY <1>0, <1>1, <2>1, ErrorResultType, ReturnIInv
<1>3. CASE rerr \in {"none", "EOF"}
  <2>1. Finish(ret, content)
    BY <1>3 DEF AfterSig
  <2>2. QED
    BY <1>0, <1>1, <2>1, FinishIInv
<1>4. QED
  BY <1>2, <1>3


(***************************************************************************)
(* The invariant                                                           *)
(***************************************************************************)

\* Every step of the client and of Decode, and every stutter, keeps IInv.
LEMMA NextIInv == IInv /\ [Next]_vars => IInv'
<1> SUFFICES ASSUME IInv, [Next]_vars PROVE IInv'
  OBVIOUS
<1>1. CASE Call
  BY <1>1, CallIInv
<1>2. CASE ReadHead
  BY <1>2, ReadUntilIInv DEF ReadHead
<1>3. CASE AfterHead
  BY <1>3, AfterHeadIInv
<1>4. CASE ReadBody
  BY <1>4, ReadBodyIInv
<1>5. CASE ReadTrailer
  BY <1>5, ReadUntilIInv DEF ReadTrailer
<1>6. CASE AfterTrailer
  BY <1>6, AfterTrailerIInv
<1>7. CASE ReadSig
  BY <1>7, ReadUntilIInv DEF ReadSig
<1>8. CASE AfterSig
  BY <1>8, AfterSigIInv
<1>9. CASE Terminated \/ UNCHANGED vars
  <2>1. UNCHANGED vars
    BY <1>9 DEF Terminated
  <2>2. QED
    BY <2>1 DEF vars, IInv, TypeOK, BufferBounded, PhaseCapOK
<1>10. QED
  BY <1>1, <1>2, <1>3, <1>4, <1>5, <1>6, <1>7, <1>8, <1>9
  DEF Next, DecodeStep

\* IInv holds in every state of every behaviour of the decoder.
THEOREM InvInductive == Spec => []IInv
BY InitIInv, NextIInv, PTL DEF Spec

\* Type correctness: the decoder's state and every result a call of
\* Decode returns keep their types, and d.err only ever holds an error of
\* the reader (src 322-337: bufio.ErrBufferFull is never kept).
THEOREM TypeCorrect == Spec => []TypeOK
<1>1. IInv => TypeOK
  BY DEF IInv
<1>2. QED
  BY InvInductive, <1>1, PTL

\* Peak memory: whatever the reader returns and whatever the stream
\* holds, the decoder's buffer never grows past the largest component cap
\* rounded up as peek rounds (src 330, 370, 401).
THEOREM BufferIsBounded == Spec => []BufferBounded
<1>1. IInv => BufferBounded
  BY DEF IInv
<1>2. QED
  BY InvInductive, <1>1, PTL

=============================================================================

----------------------- MODULE StreamDecoderCapsProofs -----------------------
(***************************************************************************)
(* Proof that the streaming Decoder respects its caps, for every value of  *)
(* the constants: no assertion Decode returns has headers over             *)
(* maxHeadersSize, a body over maxBodySize or a signature over maxSigSize. *)
(* The argument rests on IInv (StreamDecoderProofs) and on CInv below,     *)
(* which follows the lengths of what readUntil and readExact returned      *)
(* into contentBuf and into the result.                                    *)
(***************************************************************************)
EXTENDS StreamDecoderProofs

(***************************************************************************)
(* Lemmas on peek and readUntil's iteration                                *)
(***************************************************************************)

\* peek(n) returns at most n bytes (src 323: bufio's Peek).
LEMMA PeekOutLen ==
  ASSUME src \in Seq(Bytes), buf \in Seq(Bytes), bcap \in Nat \ {0},
         Len(buf) <= bcap, derr \in {"none", "EOF", "ERR"},
         source.end \in {"EOF", "ERR"},
         NEW n \in Nat, NEW k \in FillCounts(n)
  PROVE  Len(Peek(n, k).out) <= n
<1> DEFINE nb == buf \o SubSeq(src, 1, k)
<1>1. k \in 0..Len(src) /\ Peek(n, k).buf \in Seq(Bytes)
  BY PeekLemma
<1>2. nb \in Seq(Bytes) /\ Len(nb) \in Nat
  <2>1. SubSeq(src, 1, k) \in Seq(Bytes)
    BY <1>1, SubSeqBytes DEF SubSeqTypeFormula
  <2>2. QED
    BY <2>1, ConcatProperties, LenProperties
<1>3. MinOf(n, Len(nb)) \in Int /\ MinOf(n, Len(nb)) <= Len(nb)
      /\ MinOf(n, Len(nb)) <= n
  BY <1>2 DEF MinOf
<1>4. Len(SubSeq(nb, 1, MinOf(n, Len(nb)))) <= n
  BY <1>2, <1>3, SubSeqBytes DEF SubSeqTypeFormula
<1>5. QED
  BY <1>4 DEF Peek

\* What readUntil returns is no longer than what its last peek returned
\* (src 361, 366, 371).
LEMMA IterRetLen ==
  ASSUME last \in Nat,
         NEW P, P.buf \in Seq(Bytes), P.out \in Seq(Bytes),
         NEW maxSize \in Int, ReadUntilIter(P, maxSize).done
  PROVE  Len(ReadUntilIter(P, maxSize).ret) <= Len(P.out)
<1> DEFINE D == DelimAt(P.out, last + 1)
           i == CHOOSE j \in D : \A m \in D : j <= m
           rr == ReadUntilIter(P, maxSize)
<1> HIDE DEF rr
<1>0. Len(P.out) \in Nat
  BY LenProperties
<1>1. CASE D # {}
  <2>1. D \subseteq (last + 1)..(Len(P.out) - 1)
    BY DEF DelimAt
  <2>2. i \in D
    <3>1. \E j \in D : \A m \in D : j <= m
      BY <1>1, <2>1, MinExists
    <3>2. QED
      BY <3>1
  <2>3. i \in 1..(Len(P.out) - 1)
    BY <2>1, <2>2
  <2>4. rr.ret = SubSeq(P.out, 1, i + 1)
    BY <1>1 DEF rr, ReadUntilIter
  <2> HIDE DEF i
  <2>5. Len(SubSeq(P.out, 1, i + 1)) <= Len(P.out)
    BY <1>0, <2>3, SubSeqBytes DEF SubSeqTypeFormula
  <2>6. QED
    BY <2>4, <2>5 DEF rr
<1>2. CASE D = {} /\ ErrReported(P)
  BY <1>2 DEF rr, ReadUntilIter
<1>3. CASE D = {} /\ ~ErrReported(P)
  <2>1. rr.done => rr.ret = <<>>
    BY <1>3 DEF rr, ReadUntilIter
  <2>2. QED
    BY <1>0, <2>1 DEF rr
<1>4. QED
  BY <1>1, <1>2, <1>3

(***************************************************************************)
(* The invariant                                                           *)
(***************************************************************************)

\* An assertion Decode returns respects the three caps (CapsRespected for
\* one result).
ResultCapsOK(r) ==
  r.kind = "assertion" =>
    /\ Len(r.content) - (IF r.body # <<>> THEN Len(r.body) + 2 ELSE 0)
         <= MaxHeadersSize
    /\ Len(r.body) <= MaxBodySize
    /\ Len(r.sig) <= MaxSigSize

\* The phases after the body read
AfterBodyPhases == {"trailer", "sig", "afterTrailer", "afterSig"}

\* The length of the body Decode has read into contentBuf.
ReadBodyLen == IF BodyLength(headAndSep) > 0 THEN BodyLength(headAndSep) ELSE 0

CInv ==
  /\ CapsRespected
  /\ pc = "afterHead" => Len(ret) <= MaxHeadersSize
  /\ pc \in {"afterTrailer", "afterSig"} => Len(ret) <= MaxSigSize
  /\ pc \in {"body"} \cup AfterBodyPhases =>
       /\ Len(headAndSep) <= MaxHeadersSize
       /\ BodyLength(headAndSep) \in Int
       /\ BodyLength(headAndSep) <= MaxBodySize
  /\ pc = "body" => Len(content) = Len(headAndSep)
  /\ pc \in AfterBodyPhases => Len(content) = Len(headAndSep) + ReadBodyLen

\* Appending a result within the caps keeps CapsRespected.
LEMMA AppendCaps ==
  ASSUME results \in Seq(ResultType), CapsRespected,
         NEW r, ResultCapsOK(r), results' = Append(results, r)
  PROVE  CapsRespected'
<1>1. Len(results') = Len(results) + 1
      /\ \A i \in 1..Len(results) : results'[i] = results[i]
      /\ results'[Len(results) + 1] = r
  BY AppendProperties
<1>2. \A i \in 1..Len(results) : ResultCapsOK(results[i])
  BY DEF CapsRespected, ResultCapsOK
<1>3. \A i \in 1..Len(results') : ResultCapsOK(results'[i])
  BY <1>1, <1>2, LenProperties
<1>4. QED
  BY <1>3 DEF CapsRespected, ResultCapsOK

\* The initial state satisfies CInv.
LEMMA InitCInv == Init => CInv
BY DEF Init, CInv, CapsRespected, AfterBodyPhases

\* A call of Decode starts reading the headers.
LEMMA CallCInv == IInv /\ CInv /\ Call => CInv'
BY DEF Call, StartRead, CInv, CapsRespected, AfterBodyPhases

\* One iteration of readUntil returns no more than its cap.
LEMMA ReadUntilCInv ==
  ASSUME IInv, CInv, NEW phase, NEW maxSize,
         <<phase, maxSize>> \in {<<"head", MaxHeadersSize>>,
                                 <<"trailer", MaxSigSize>>,
                                 <<"sig", MaxSigSize>>},
         ReadUntil(phase, maxSize)
  PROVE  CInv'
<1>1. PICK k \in FillCounts(size) :
        LET p == Peek(size, k)
            r == ReadUntilIter(p, maxSize)
        IN  /\ IF r.done
               THEN /\ pc' = AfterRead[phase]
                    /\ ret' = r.ret
               ELSE UNCHANGED <<pc, ret>>
  BY DEF ReadUntil
<1> DEFINE p == Peek(size, k)
           r == ReadUntilIter(p, maxSize)
<1> HIDE DEF p, r
<1>0. /\ pc = phase
      /\ UNCHANGED <<headAndSep, content, results>>
  BY DEF ReadUntil
<1>2. size \in Nat \ {0} /\ size <= maxSize
  <2>1. size \in Nat \ {0} /\ (size = InitialBufSize \/ size <= maxSize)
    BY <1>0 DEF IInv, PhaseCapOK, TypeOK
  <2>2. InitialBufSize <= maxSize
    BY InitialSizeAssumption
  <2>3. QED
    BY <2>1, <2>2, SizesAssumption
<1>3. p.out \in Seq(Bytes) /\ p.buf \in Seq(Bytes) /\ Len(p.out) <= size
  <2>1. p.out \in Seq(Bytes) /\ p.buf \in Seq(Bytes)
    BY <1>2, PeekLemma, StreamType DEF IInv, TypeOK, BufferBounded, p
  <2>2. Len(p.out) <= size
    BY <1>2, PeekOutLen, StreamType DEF IInv, TypeOK, BufferBounded, p
  <2>3. QED
    BY <2>1, <2>2
<1>4. CASE r.done
  <2>1. pc' = AfterRead[phase] /\ ret' = r.ret
    BY <1>1, <1>4 DEF p, r
  <2>2. Len(r.ret) <= Len(p.out) /\ Len(r.ret) \in Nat
    <3>1. maxSize \in Int /\ last \in Nat /\ size \in Nat \ {0}
          /\ Len(p.out) <= Len(p.buf) /\ p.derr \in {"none", "EOF", "ERR"}
      BY <1>2, PeekLemma, StreamType, SizesAssumption
      DEF IInv, TypeOK, BufferBounded, p
    <3>2. r.ret \in Seq(Bytes)
      BY <1>3, <1>4, <3>1, IterLemma DEF r
    <3>3. Len(r.ret) <= Len(p.out)
      BY <1>3, <1>4, <3>1, IterRetLen DEF r
    <3>4. QED
      BY <3>2, <3>3, LenProperties
  <2>3. Len(ret') <= maxSize
    <3>1. Len(p.out) \in Nat /\ maxSize \in Int
      BY <1>3, LenProperties, SizesAssumption
    <3>2. QED
      BY <1>2, <1>3, <2>1, <2>2, <3>1
  <2>4. \/ phase = "head" /\ pc' = "afterHead" /\ maxSize = MaxHeadersSize
        \/ phase = "trailer" /\ pc' = "afterTrailer" /\ maxSize = MaxSigSize
        \/ phase = "sig" /\ pc' = "afterSig" /\ maxSize = MaxSigSize
    BY <2>1 DEF AfterRead
  <2>5. QED
    BY <1>0, <2>3, <2>4 DEF CInv, CapsRespected, AfterBodyPhases, ReadBodyLen
<1>5. CASE ~r.done
  <2>1. UNCHANGED <<pc, ret>>
    BY <1>1, <1>5 DEF p, r
  <2>2. QED
    BY <1>0, <2>1 DEF CInv, CapsRespected, AfterBodyPhases, ReadBodyLen
<1>6. QED
  BY <1>4, <1>5

\* Error and end-of-stream results are within the caps: they are not
\* assertions.
LEMMA NonAssertionCaps ==
  ASSUME NEW e
  PROVE  /\ ResultCapsOK(ErrorResult(e))
         /\ ResultCapsOK(Result("eof", "none", <<>>, <<>>, <<>>))
BY DEF ResultCapsOK, ErrorResult, Result

\* Decode returning a result within the caps keeps CInv.
LEMMA ReturnCInv ==
  ASSUME IInv, CInv, NEW res, ResultCapsOK(res), Return(res)
  PROVE  CInv'
<1>1. CapsRespected'
  BY AppendCaps DEF IInv, TypeOK, CInv, Return
<1>2. QED
  BY <1>1 DEF Return, CInv, AfterBodyPhases

\* Decode on the headers it read keeps CInv: the headers were read within
\* their cap, and the body length passed the body cap (src 401).
LEMMA AfterHeadCInv == IInv /\ CInv /\ AfterHead => CInv'
<1> SUFFICES ASSUME IInv, CInv, AfterHead PROVE CInv'
  OBVIOUS
<1> DEFINE h == ret
<1>0. pc = "afterHead" /\ Len(h) <= MaxHeadersSize
  BY DEF AfterHead, CInv
<1>1. CASE rerr # "none"
  <2>1. CASE rerr = "EOF"
    <3>1. ResultCapsOK(HeadEOFResult(h))
      BY NonAssertionCaps DEF HeadEOFResult
    <3>2. QED
      BY <1>1, <2>1, <3>1, ReturnCInv DEF AfterHead
  <2>2. CASE rerr # "EOF"
    BY <1>1, <2>2, NonAssertionCaps, ReturnCInv DEF AfterHead
  <2>3. QED
    BY <2>1, <2>2
<1>2. CASE rerr = "none" /\ ~ParseOK(SubSeq(h, 1, HeadLen(h)))
  BY <1>2, NonAssertionCaps, ReturnCInv DEF AfterHead
<1>3. CASE rerr = "none" /\ ParseOK(SubSeq(h, 1, HeadLen(h)))
           /\ ~IntOK(Headers(h), "body-length")
  BY <1>3, NonAssertionCaps, ReturnCInv DEF AfterHead
<1>4. CASE rerr = "none" /\ ParseOK(SubSeq(h, 1, HeadLen(h)))
           /\ IntOK(Headers(h), "body-length") /\ BodyTooLarge(h)
  BY <1>4, NonAssertionCaps, ReturnCInv DEF AfterHead
<1>5. CASE rerr = "none" /\ ParseOK(SubSeq(h, 1, HeadLen(h)))
           /\ IntOK(Headers(h), "body-length") /\ ~BodyTooLarge(h)
           /\ WireLen(h) + BodyLength(h) < 0
  <2>1. pc' = "panic" /\ UNCHANGED results
    BY <1>5 DEF AfterHead
  <2>2. QED
    BY <2>1 DEF CInv, CapsRespected, AfterBodyPhases
<1>6. CASE rerr = "none" /\ ParseOK(SubSeq(h, 1, HeadLen(h)))
           /\ IntOK(Headers(h), "body-length") /\ ~BodyTooLarge(h)
           /\ ~(WireLen(h) + BodyLength(h) < 0)
  <2>1. /\ headAndSep' = h /\ content' = h
        /\ pc' = IF BodyLength(h) > 0 THEN "body" ELSE "trailer"
        /\ UNCHANGED results
    BY <1>6 DEF AfterHead, StartRead
  <2>2. BodyLength(h) \in Int /\ BodyLength(h) <= MaxBodySize
    <3>1. BodyLength(h) \in Int
      BY <1>6, IntOfType DEF BodyLength
    <3>2. QED
      BY <1>6, <3>1, SizesAssumption DEF BodyTooLarge
  <2>3. Len(content') = Len(headAndSep') + ReadBodyLen'
        \/ pc' = "body"
    <3>1. h \in Seq(Bytes)
      BY DEF IInv, TypeOK
    <3>2. QED
      BY <2>1, <2>2, <3>1, LenProperties DEF ReadBodyLen
  <2>4. QED
    BY <1>0, <2>1, <2>2, <2>3 DEF CInv, CapsRespected, AfterBodyPhases
<1>7. QED
  BY <1>1, <1>2, <1>3, <1>4, <1>5, <1>6

\* readExact of the body adds exactly body-length bytes to contentBuf.
LEMMA ReadBodyCInv == IInv /\ CInv /\ ReadBody => CInv'
<1> SUFFICES ASSUME IInv, CInv, ReadBody PROVE CInv'
  OBVIOUS
<1> DEFINE n == BodyLength(headAndSep)
<1>0. pc = "body"
  BY DEF ReadBody
<1>1. PICK k \in FillCounts(n) :
        IF Len(Peek(n, k).out) = n
        THEN /\ content' = content \o Peek(n, k).out
             /\ StartRead("trailer")
             /\ UNCHANGED headAndSep
        ELSE Return(ErrorResult(IF Peek(n, k).derr = "EOF"
                                THEN "UnexpectedEOF"
                                ELSE Peek(n, k).derr))
  BY DEF ReadBody
<1>2. PICK PO : PO = Peek(n, k).out
  OBVIOUS
<1>3. /\ n \in 1..MaxBodySize /\ Len(headAndSep) <= MaxHeadersSize
      /\ Len(content) = Len(headAndSep)
  BY <1>0 DEF IInv, PhaseCapOK, CInv, AfterBodyPhases
<1> HIDE DEF n
<1>4. CASE Len(PO) = n
  <2>1. /\ content' = content \o PO /\ pc' = "trailer"
        /\ UNCHANGED <<headAndSep, results>>
    BY <1>1, <1>2, <1>4 DEF StartRead
  <2>2. PO \in Seq(Bytes)
    <3>1. n \in Int
      BY <1>3
    <3>2. QED
      BY <1>2, <3>1, PeekLemma, StreamType DEF IInv, TypeOK, BufferBounded
  <2>3. Len(content') = Len(headAndSep') + n
    BY <1>3, <1>4, <2>1, <2>2, ConcatProperties DEF IInv, TypeOK
  <2>4. ReadBodyLen' = n /\ BodyLength(headAndSep') = n
    BY <1>3, <2>1 DEF ReadBodyLen, n
  <2>5. CapsRespected'
    BY <2>1 DEF CInv, CapsRespected
  <2>6. (BodyLength(headAndSep) \in Int /\ BodyLength(headAndSep) <= MaxBodySize)'
    BY <1>3, <2>4 DEF n
  <2>7. QED
    BY <1>3, <2>1, <2>3, <2>4, <2>5, <2>6 DEF CInv, AfterBodyPhases
<1>5. CASE Len(PO) # n
  BY <1>1, <1>2, <1>5, NonAssertionCaps, ReturnCInv
<1>6. QED
  BY <1>4, <1>5

\* The rest of Decode once the signature is read (src 441-455) returns an
\* assertion within the caps: the signature read within its cap, only
\* shortened by the normalisation, the body of body-length bytes after
\* the headers and their separator, the headers within their cap.
LEMMA FinishCInv ==
  ASSUME IInv, CInv, NEW sig \in Seq(Bytes), NEW cont \in Seq(Bytes),
         Len(sig) <= MaxSigSize, Len(headAndSep) <= MaxHeadersSize,
         BodyLength(headAndSep) \in Int,
         BodyLength(headAndSep) <= MaxBodySize,
         BodyLength(headAndSep) > 0 =>
           Len(cont) = Len(headAndSep) + BodyLength(headAndSep),
         ~(BodyLength(headAndSep) > 0) => Len(cont) <= Len(headAndSep),
         Finish(sig, cont)
  PROVE  CInv'
<1> DEFINE L    == BodyLength(headAndSep)
           sig1 == IF HasSuffix(sig, NLNL) THEN SubSeq(sig, 1, Len(sig) - 1)
                   ELSE sig
           body == IF L > 0
                   THEN SubSeq(cont, HeadLen(headAndSep) + 3, Len(cont))
                   ELSE <<>>
           err  == AssembleErr(Headers(headAndSep), body, sig1)
           res  == IF err = "none" THEN Result("assertion", "none", cont, body, sig1)
                   ELSE ErrorResult(err)
<1>1. Return(res)
  BY DEF Finish
<1>0. /\ L > 0 => body = SubSeq(cont, HeadLen(headAndSep) + 3, Len(cont))
      /\ ~(L > 0) => body = <<>>
  OBVIOUS
<1> HIDE DEF res, L, body
<1>2. Len(sig) \in Nat /\ Len(cont) \in Nat /\ Len(headAndSep) \in Nat
      /\ MaxHeadersSize \in Nat /\ MaxBodySize \in Nat /\ MaxSigSize \in Nat
  BY LenProperties, SizesAssumption DEF IInv, TypeOK
<1>3. Len(sig1) <= MaxSigSize
  <2>1. CASE HasSuffix(sig, NLNL)
    <3>1. Len(sig) >= 2
      BY <2>1, LenProperties DEF HasSuffix, NLNL
    <3>2. Len(SubSeq(sig, 1, Len(sig) - 1)) = Len(sig) - 1
      BY <1>2, <3>1, SubSeqBytes DEF SubSeqTypeFormula
    <3>3. QED
      BY <1>2, <2>1, <3>2
  <2>2. CASE ~HasSuffix(sig, NLNL)
    BY <2>2
  <2>3. QED
    BY <2>1, <2>2
<1>4. CASE L > 0
  <2>1. HeadLen(headAndSep) + 3 = Len(headAndSep) + 1
    BY <1>2 DEF HeadLen
  <2>2. Len(cont) = Len(headAndSep) + L /\ L \in Nat \ {0} /\ L <= MaxBodySize
    BY <1>4 DEF L
  <2>3. Len(body) = L
    <3>1. body = SubSeq(cont, Len(headAndSep) + 1, Len(cont))
      BY <1>0, <1>4, <2>1
    <3>2. QED
      BY <1>2, <2>2, <3>1, SubSeqBytes DEF SubSeqTypeFormula
  <2>4. body # <<>>
    BY <2>2, <2>3
  <2>5. Len(cont) - (Len(body) + 2) <= MaxHeadersSize
    BY <1>2, <2>2, <2>3
  <2>6. ResultCapsOK(res)
    BY <1>3, <2>2, <2>3, <2>4, <2>5, NonAssertionCaps
    DEF ResultCapsOK, res, Result
  <2>7. QED
    BY <1>1, <2>6, ReturnCInv
<1>5. CASE ~(L > 0)
  <2>1. body = <<>> /\ Len(body) = 0 /\ Len(cont) <= Len(headAndSep)
    BY <1>0, <1>5 DEF L
  <2>2. Len(cont) - 0 <= MaxHeadersSize
    BY <1>2, <2>1
  <2>3. ResultCapsOK(res)
    BY <1>2, <1>3, <2>1, <2>2, NonAssertionCaps
    DEF ResultCapsOK, res, Result
  <2>4. QED
    BY <1>1, <2>3, ReturnCInv
<1>6. QED
  BY <1>4, <1>5

\* Decode on what follows the body keeps CInv; without a body, the
\* content is contentBuf truncated to the headers (src 438).
LEMMA AfterTrailerCInv == IInv /\ CInv /\ AfterTrailer => CInv'
<1> SUFFICES ASSUME IInv, CInv, AfterTrailer PROVE CInv'
  OBVIOUS
<1>0. /\ pc = "afterTrailer"
      /\ Len(ret) <= MaxSigSize /\ Len(headAndSep) <= MaxHeadersSize
      /\ BodyLength(headAndSep) \in Int
      /\ BodyLength(headAndSep) <= MaxBodySize
      /\ Len(content) = Len(headAndSep) + ReadBodyLen
      /\ ret \in Seq(Bytes) /\ content \in Seq(Bytes)
  BY DEF AfterTrailer, CInv, AfterBodyPhases, IInv, TypeOK
<1>1. CASE rerr \notin {"none", "EOF"}
  BY <1>1, NonAssertionCaps, ReturnCInv DEF AfterTrailer
<1>2. CASE rerr \in {"none", "EOF"} /\ ret = NLNL
  <2>1. pc' = "sig" /\ UNCHANGED <<headAndSep, content, results>>
    BY <1>2 DEF AfterTrailer, StartRead
  <2>2. QED
    BY <1>0, <2>1 DEF CInv, CapsRespected, AfterBodyPhases, ReadBodyLen
<1>3. CASE rerr \in {"none", "EOF"} /\ ret # NLNL
           /\ BodyLength(headAndSep) > 0
  BY <1>3, NonAssertionCaps, ReturnCInv DEF AfterTrailer
<1>4. CASE rerr \in {"none", "EOF"} /\ ret # NLNL
           /\ ~(BodyLength(headAndSep) > 0)
  <2>1. Finish(ret, SigOnlyContent)
    BY <1>4 DEF AfterTrailer
  <2>2. Len(content) = Len(headAndSep) /\ Len(headAndSep) \in Nat
    BY <1>0, <1>4, LenProperties DEF ReadBodyLen, IInv, TypeOK
  <2>3. SigOnlyContent \in Seq(Bytes)
        /\ Len(SigOnlyContent) <= Len(headAndSep)
    BY <1>0, <2>2, SubSeqBytes DEF SubSeqTypeFormula, SigOnlyContent, HeadLen
  <2>4. QED
    BY <1>0, <1>4, <2>1, <2>3, FinishCInv
<1>5. QED
  BY <1>1, <1>2, <1>3, <1>4

\* Decode on the signature keeps CInv.
LEMMA AfterSigCInv == IInv /\ CInv /\ AfterSig => CInv'
<1> SUFFICES ASSUME IInv, CInv, AfterSig PROVE CInv'
  OBVIOUS
<1>0. /\ pc = "afterSig"
      /\ Len(ret) <= MaxSigSize /\ Len(headAndSep) <= MaxHeadersSize
      /\ BodyLength(headAndSep) \in Int
      /\ BodyLength(headAndSep) <= MaxBodySize
      /\ Len(content) = Len(headAndSep) + ReadBodyLen
      /\ ret \in Seq(Bytes) /\ content \in Seq(Bytes)
  BY DEF AfterSig, CInv, AfterBodyPhases, IInv, TypeOK
<1>1. CASE rerr \notin {"none", "EOF"}
  BY <1>1, NonAssertionCaps, ReturnCInv DEF AfterSig
<1>2. CASE rerr \in {"none", "EOF"}
  <2>1. Finish(ret, content)
    BY <1>2 DEF AfterSig
  <2>2. /\ BodyLength(headAndSep) > 0 =>
           Len(content) = Len(headAndSep) + BodyLength(headAndSep)
        /\ ~(BodyLength(headAndSep) > 0) => Len(content) <= Len(headAndSep)
    BY <1>0 DEF ReadBodyLen
  <2>3. QED
    BY <1>0, <2>1, <2>2, FinishCInv
<1>3. QED
  BY <1>1, <1>2

\* Every step of the client and of Decode, and every stutter, keeps CInv.
LEMMA NextCInv == IInv /\ CInv /\ [Next]_vars => CInv'
<1> SUFFICES ASSUME IInv, CInv, [Next]_vars PROVE CInv'
  OBVIOUS
<1>1. CASE Call
  BY <1>1, CallCInv
<1>2. CASE ReadHead
  BY <1>2, ReadUntilCInv DEF ReadHead
<1>3. CASE AfterHead
  BY <1>3, AfterHeadCInv
<1>4. CASE ReadBody
  BY <1>4, ReadBodyCInv
<1>5. CASE ReadTrailer
  BY <1>5, ReadUntilCInv DEF ReadTrailer
<1>6. CASE AfterTrailer
  BY <1>6, AfterTrailerCInv
<1>7. CASE ReadSig
  BY <1>7, ReadUntilCInv DEF ReadSig
<1>8. CASE AfterSig
  BY <1>8, AfterSigCInv
<1>9. CASE Terminated \/ UNCHANGED vars
  <2>1. UNCHANGED vars
    BY <1>9 DEF Terminated
  <2>2. QED
    BY <2>1 DEF vars, CInv, CapsRespected, AfterBodyPhases, ReadBodyLen
<1>10. QED
  BY <1>1, <1>2, <1>3, <1>4, <1>5, <1>6, <1>7, <1>8, <1>9
  DEF Next, DecodeStep

(***************************************************************************)
(* The theorem                                                             *)
(***************************************************************************)

\* Caps: whatever the reader returns, no assertion Decode returns has a
\* header block over d.maxHeadersSize, a body over d.maxBodySize or a
\* signature over d.maxSigSize (src 380, 401, 420, 428), as long as the
\* decoder's first peek is within the caps (InitialSizeAssumption).
THEOREM CapsAreRespected == Spec => []CapsRespected
<1>1. Init => IInv /\ CInv
  BY InitIInv, InitCInv
<1>2. IInv /\ CInv /\ [Next]_vars => (IInv /\ CInv)'
  BY NextIInv, NextCInv
<1>3. IInv /\ CInv => CapsRespected
  BY DEF CInv
<1>4. QED
  BY <1>1, <1>2, <1>3, PTL DEF Spec

====

---------------------- MODULE StreamDecoderStreamProofs ----------------------
(***************************************************************************)
(* Proofs that the streaming Decoder reads the stream in order: every      *)
(* assertion Decode returns is the bytes of the stream where its call      *)
(* began, and io.EOF is reported only at the end of the reader's data.     *)
(* Both rest on an accounting of the bytes: what the call has read so far, *)
(* then the bytes buffered in d.b, then the bytes the reader has not       *)
(* handed out, are together the stream from the offset where the call      *)
(* began.                                                                  *)
(***************************************************************************)
EXTENDS StreamDecoderProofs

(***************************************************************************)
(* Lemmas on byte sequences                                                *)
(***************************************************************************)

\* A sequence is its first j bytes followed by the rest.
LEMMA SplitAt ==
  ASSUME NEW s \in Seq(Bytes), NEW j \in 0..Len(s)
  PROVE  SubSeq(s, 1, j) \o SubSeq(s, j + 1, Len(s)) = s
<1>1. /\ 1 \in 1..Len(s) + 1
      /\ j \in 1 - 1..Len(s)
      /\ Len(s) \in j..Len(s)
  BY LenProperties
<1>2. SubSeq(s, 1, j) \o SubSeq(s, j + 1, Len(s)) = SubSeq(s, 1, Len(s))
  BY <1>1, ConcatAdjacentSubSeq, Zenon
<1>3. SubSeq(s, 1, Len(s)) = s
  BY SubSeqFull, Zenon
<1>4. QED
  BY <1>2, <1>3

\* Concatenating byte sequences gives a byte sequence of the summed length.
LEMMA CatBytes ==
  ASSUME NEW s \in Seq(Bytes), NEW t \in Seq(Bytes)
  PROVE  /\ s \o t \in Seq(Bytes)
         /\ Len(s \o t) = Len(s) + Len(t)
BY ConcatProperties

\* Concatenation of byte sequences is associative.
LEMMA CatAssoc ==
  ASSUME NEW s \in Seq(Bytes), NEW t \in Seq(Bytes), NEW u \in Seq(Bytes)
  PROVE  (s \o t) \o u = s \o (t \o u)
BY ConcatAssociative

\* A sequence ends with what is concatenated last.
LEMMA SuffixOfCat ==
  ASSUME NEW x \in Seq(Bytes), NEW u \in Seq(Bytes)
  PROVE  HasSuffix(x \o u, u)
<1>1. Len(x) \in Nat /\ Len(u) \in Nat /\ x \o u \in Seq(Bytes)
      /\ Len(x \o u) = Len(x) + Len(u)
  BY CatBytes, LenProperties
<1>2. CASE u = <<>>
  <2>1. SubSeq(x \o u, Len(x) + 1, Len(x)) = <<>>
    BY <1>1, SubSeqEmpty
  <2>2. QED
    BY <1>1, <1>2, <2>1 DEF HasSuffix
<1>3. CASE u # <<>>
  <2>1. Len(u) >= 1
    BY <1>1, <1>3, EmptySeq
  <2>2. SubSeq(x \o u, Len(x) + 1, Len(x) + Len(u)) = SubSeq(u, 1, Len(u))
    BY <1>1, <2>1, SubSeqOfConcat2
  <2>3. QED
    BY <1>1, <2>2, SubSeqFull DEF HasSuffix
<1>4. QED
  BY <1>2, <1>3

\* A sequence that ends with t is its bytes before t, then t.
LEMMA SplitSuffix ==
  ASSUME NEW s \in Seq(Bytes), NEW t, HasSuffix(s, t)
  PROVE  s = SubSeq(s, 1, Len(s) - Len(t)) \o t
<1>1. Len(s) \in Nat /\ Len(t) \in Nat /\ Len(t) <= Len(s)
  <2>1. t = SubSeq(s, Len(s) - Len(t) + 1, Len(s))
    BY DEF HasSuffix
  <2>2. Len(s) \in Nat /\ Len(s) - Len(t) + 1 \in Int
    BY LenProperties, <2>1, SubSeqBytes DEF SubSeqTypeFormula, HasSuffix
  <2>3. QED
    BY <2>1, <2>2, SubSeqBytes DEF SubSeqTypeFormula, HasSuffix
<1>2. Len(s) - Len(t) \in 0..Len(s)
  BY <1>1
<1>3. SubSeq(s, 1, Len(s) - Len(t)) \o SubSeq(s, Len(s) - Len(t) + 1, Len(s)) = s
  BY <1>2, SplitAt, Zenon
<1>4. SubSeq(s, Len(s) - Len(t) + 1, Len(s)) = t
  BY DEF HasSuffix
<1>5. QED
  BY <1>3, <1>4, Zenon

\* Ending with a sequence that ends with u is ending with u.
LEMMA SuffixTrans ==
  ASSUME NEW s \in Seq(Bytes), NEW t \in Seq(Bytes), NEW u \in Seq(Bytes),
         HasSuffix(s, t), HasSuffix(t, u)
  PROVE  HasSuffix(s, u)
<1> DEFINE p == SubSeq(s, 1, Len(s) - Len(t))
           q == SubSeq(t, 1, Len(t) - Len(u))
<1>1. s = p \o t /\ t = q \o u
  BY SplitSuffix
<1>2. p \in Seq(Bytes) /\ q \in Seq(Bytes)
  BY LenProperties, SubSeqBytes DEF SubSeqTypeFormula, HasSuffix
<1>3. (p \o q) \o u = p \o (q \o u)
  BY <1>2, CatAssoc, Zenon
<1>4. s = (p \o q) \o u
  BY <1>1, <1>3, Zenon
<1>5. QED
  BY <1>2, <1>4, CatBytes, SuffixOfCat

\* The stream from an offset within it is an end of the stream.
LEMMA SuffixFrom ==
  ASSUME NEW s \in Seq(Bytes), NEW a \in 0..Len(s)
  PROVE  /\ HasSuffix(s, SubSeq(s, a + 1, Len(s)))
         /\ SubSeq(s, a + 1, Len(s)) \in Seq(Bytes)
         /\ Len(SubSeq(s, a + 1, Len(s))) = Len(s) - a
<1>1. SubSeq(s, 1, a) \o SubSeq(s, a + 1, Len(s)) = s
  BY SplitAt
<1>2. SubSeq(s, 1, a) \in Seq(Bytes) /\ SubSeq(s, a + 1, Len(s)) \in Seq(Bytes)
      /\ Len(SubSeq(s, a + 1, Len(s))) = Len(s) - a
  BY LenProperties, SubSeqBytes DEF SubSeqTypeFormula
<1>3. QED
  BY <1>1, <1>2, SuffixOfCat

\* A prefix of y after x is a prefix of x, y and anything after.
LEMMA PrefixOfFrame ==
  ASSUME NEW x \in Seq(Bytes), NEW y \in Seq(Bytes), NEW z \in Seq(Bytes),
         NEW j \in 0..Len(y)
  PROVE  IsPrefixOf(x \o SubSeq(y, 1, j), (x \o y) \o z)
<1> DEFINE l == x \o SubSeq(y, 1, j)
           w == (x \o y) \o z
<1>1. /\ SubSeq(y, 1, j) \in Seq(Bytes) /\ Len(SubSeq(y, 1, j)) = j
      /\ \A i \in 1..j : SubSeq(y, 1, j)[i] = y[i]
  BY SubSeqProperties
<1>2. /\ l \in Seq(Bytes) /\ Len(l) = Len(x) + j
      /\ w \in Seq(Bytes) /\ Len(w) = Len(x) + Len(y) + Len(z)
  BY <1>1, CatBytes
<1>3. Len(x) \in Nat /\ Len(y) \in Nat /\ Len(z) \in Nat
  BY LenProperties
<1>4. /\ SubSeq(w, 1, Len(l)) \in Seq(Bytes)
      /\ Len(SubSeq(w, 1, Len(l))) = Len(l)
      /\ \A i \in 1..Len(l) : SubSeq(w, 1, Len(l))[i] = w[i]
  BY <1>2, <1>3, SubSeqProperties
<1>5. \A i \in 1..Len(l) : w[i] = l[i]
  <2> TAKE i \in 1..Len(l)
  <2>1. w[i] = (x \o y)[i]
    BY <1>2, <1>3, ConcatProperties
  <2>2. CASE i <= Len(x)
    BY <1>1, <1>2, <1>3, <2>1, <2>2, ConcatProperties
  <2>3. CASE ~(i <= Len(x))
    BY <1>1, <1>2, <1>3, <2>1, <2>3, ConcatProperties
  <2>4. QED
    BY <2>2, <2>3
<1>6. SubSeq(w, 1, Len(l)) = l
  BY <1>2, <1>4, <1>5, SeqEqual
<1>7. QED
  BY <1>2, <1>3, <1>6 DEF IsPrefixOf

(***************************************************************************)
(* peek and one iteration of readUntil move bytes, never lose them        *)
(***************************************************************************)

\* A peek moves the reader's first k bytes to the end of the buffer and
\* returns a prefix of the buffer; an error is only kept once the reader
\* has handed out everything (bufio's fill loop reads until it has n bytes
\* or the reader ends, src 322-337).
LEMMA PeekSplit ==
  ASSUME src \in Seq(Bytes), buf \in Seq(Bytes), bcap \in Nat \ {0},
         Len(buf) <= bcap, derr \in {"none", "EOF", "ERR"},
         source.end \in {"EOF", "ERR"}, derr # "none" => src = <<>>,
         NEW n \in Nat, NEW k \in FillCounts(n)
  PROVE  /\ Peek(n, k).buf \o SubSeq(src, k + 1, Len(src)) = buf \o src
         /\ Peek(n, k).out = SubSeq(Peek(n, k).buf, 1, Len(Peek(n, k).out))
         /\ Peek(n, k).derr # "none" => SubSeq(src, k + 1, Len(src)) = <<>>
<1> DEFINE front == SubSeq(src, 1, k)
           rs == SubSeq(src, k + 1, Len(src))
           nb == buf \o front
<1>1. k \in 0..Len(src) /\ Len(src) \in Nat
  BY PeekLemma, LenProperties
<1>2. /\ front \in Seq(Bytes) /\ Len(front) = k
      /\ rs \in Seq(Bytes) /\ Len(rs) = Len(src) - k
  BY <1>1, SubSeqBytes DEF SubSeqTypeFormula
<1>3. Peek(n, k).buf = nb /\ nb \in Seq(Bytes) /\ Len(nb) = Len(buf) + k
  BY <1>2, CatBytes DEF Peek
<1>4. Peek(n, k).buf \o rs = buf \o src
  <2>1. nb \o rs = buf \o (front \o rs)
    BY <1>2, CatAssoc, Zenon
  <2>2. front \o rs = src
    BY <1>1, SplitAt, Zenon
  <2>3. QED
    BY <1>3, <2>1, <2>2
<1>5. Peek(n, k).out = SubSeq(Peek(n, k).buf, 1, Len(Peek(n, k).out))
  <2>1. Peek(n, k).out = SubSeq(nb, 1, MinOf(n, Len(nb)))
    BY DEF Peek
  <2>2. MinOf(n, Len(nb)) \in 0..Len(nb)
    BY <1>3 DEF MinOf
  <2>3. Len(SubSeq(nb, 1, MinOf(n, Len(nb)))) = MinOf(n, Len(nb))
    BY <1>3, <2>2, SubSeqBytes DEF SubSeqTypeFormula
  <2>4. QED
    BY <1>3, <2>1, <2>3
<1>6. Peek(n, k).derr # "none" => rs = <<>>
  <2> SUFFICES ASSUME Peek(n, k).derr # "none" PROVE rs = <<>>
    OBVIOUS
  <2>1. CASE derr # "none"
    <3>1. Len(src) = 0 /\ k = 0
      BY <1>1, <2>1, EmptySeq
    <3>2. QED
      BY <3>1, SubSeqEmpty
  <2>2. CASE derr = "none"
    <3>1. Len(nb) < n
      BY <2>2 DEF Peek
    <3>2. k = Len(src)
      BY <1>1, <1>3, <3>1 DEF FillCounts
    <3>3. QED
      BY <1>1, <3>2, SubSeqEmpty
  <2>3. QED
    BY <2>1, <2>2
<1>7. QED
  BY <1>4, <1>5, <1>6

\* One iteration of readUntil splits the peeked buffer into what it
\* returns and what stays buffered: bytes ending in "\n\n" for a nil
\* error, everything for a read error, nothing for the size cap (src
\* 354-374).
LEMMA IterSplit ==
  ASSUME last \in Nat,
         NEW P, P.buf \in Seq(Bytes), P.out \in Seq(Bytes),
         Len(P.out) <= Len(P.buf), P.out = SubSeq(P.buf, 1, Len(P.out)),
         NEW maxSize \in Int
  PROVE  /\ ReadUntilIter(P, maxSize).done =>
              /\ ReadUntilIter(P, maxSize).ret \o ReadUntilIter(P, maxSize).rest
                   = P.buf
              /\ ReadUntilIter(P, maxSize).err = "none" =>
                   HasSuffix(ReadUntilIter(P, maxSize).ret, NLNL)
              /\ ReadUntilIter(P, maxSize).err \notin {"none", "MaxSize"} =>
                   /\ ReadUntilIter(P, maxSize).rest = <<>>
                   /\ ReadUntilIter(P, maxSize).err = P.derr
         /\ ~ReadUntilIter(P, maxSize).done =>
              ReadUntilIter(P, maxSize).rest = P.buf
<1> DEFINE D == DelimAt(P.out, last + 1)
           i == CHOOSE j \in D : \A m \in D : j <= m
           rr == ReadUntilIter(P, maxSize)
<1> HIDE DEF rr
<1>0. Len(P.out) \in Nat /\ Len(P.buf) \in Nat
  BY LenProperties
<1>1. CASE D # {}
  <2>1. D \subseteq (last + 1)..(Len(P.out) - 1)
    BY DEF DelimAt
  <2>2. i \in D
    <3>1. D \subseteq Nat
      BY <2>1
    <3>2. \E j \in D : \A m \in D : j <= m
      BY <1>1, <3>1, MinExists
    <3>3. QED
      BY <3>2
  <2>3. i \in 1..(Len(P.out) - 1) /\ P.out[i] = NL /\ P.out[i + 1] = NL
    BY <2>1, <2>2 DEF DelimAt
  <2>4. rr = [done |-> TRUE, ret |-> SubSeq(P.out, 1, i + 1), err |-> "none",
             rest |-> SubSeq(P.buf, i + 2, Len(P.buf))]
    BY <1>1 DEF rr, ReadUntilIter
  <2> HIDE DEF i
  <2> DEFINE ret1 == SubSeq(P.out, 1, i + 1)
  <2>5. /\ ret1 \in Seq(Bytes) /\ Len(ret1) = i + 1
        /\ \A m \in 1..i + 1 : ret1[m] = P.out[m]
    BY <1>0, <2>3, SubSeqProperties
  <2>6. ret1 = SubSeq(P.buf, 1, i + 1)
    <3>1. /\ SubSeq(P.buf, 1, i + 1) \in Seq(Bytes)
          /\ Len(SubSeq(P.buf, 1, i + 1)) = i + 1
          /\ \A m \in 1..i + 1 : SubSeq(P.buf, 1, i + 1)[m] = P.buf[m]
      BY <1>0, <2>3, SubSeqProperties
    <3>2. \A m \in 1..Len(P.out) : P.out[m] = P.buf[m]
      <4>1. \A m \in 1..Len(P.out) : SubSeq(P.buf, 1, Len(P.out))[m] = P.buf[m]
        BY <1>0, SubSeqProperties
      <4>2. QED
        BY <4>1
    <3>3. QED
      BY <2>3, <2>5, <3>1, <3>2, SeqEqual
  <2>7. ret1 \o SubSeq(P.buf, i + 2, Len(P.buf)) = P.buf
    <3>1. i + 1 \in 0..Len(P.buf) /\ i + 1 + 1 = i + 2
      BY <1>0, <2>3
    <3>2. SubSeq(P.buf, 1, i + 1) \o SubSeq(P.buf, i + 1 + 1, Len(P.buf)) = P.buf
      BY <3>1, SplitAt, Zenon
    <3>3. QED
      BY <2>6, <3>1, <3>2
  <2>8. HasSuffix(ret1, NLNL)
    <3>1. SubSeq(ret1, i, i + 1) \in Seq(Bytes)
          /\ Len(SubSeq(ret1, i, i + 1)) = 2
          /\ SubSeq(ret1, i, i + 1)[1] = NL
          /\ SubSeq(ret1, i, i + 1)[2] = NL
      BY <2>3, <2>5, SubSeqProperties
    <3>2. NLNL \in Seq(Bytes) /\ Len(NLNL) = 2 /\ NLNL[1] = NL /\ NLNL[2] = NL
      BY DEF NLNL, Bytes
    <3>3. \A m \in 1..Len(SubSeq(ret1, i, i + 1)) : SubSeq(ret1, i, i + 1)[m] = NLNL[m]
      <4> TAKE m \in 1..Len(SubSeq(ret1, i, i + 1))
      <4>1. m = 1 \/ m = 2
        BY <3>1
      <4>2. QED
        BY <3>1, <3>2, <4>1
    <3>4. Len(SubSeq(ret1, i, i + 1)) = Len(NLNL)
      BY <3>1, <3>2
    <3>5. SubSeq(ret1, i, i + 1) = NLNL
      BY <3>1, <3>2, <3>3, <3>4, SeqEqual, Zenon
    <3>6. QED
      BY <2>3, <2>5, <3>2, <3>5 DEF HasSuffix
  <2>9. rr.done /\ rr.err = "none" /\ rr.ret = ret1
        /\ rr.rest = SubSeq(P.buf, i + 2, Len(P.buf))
    BY <2>4
  <2>10. QED
    BY <2>7, <2>8, <2>9 DEF rr
<1>2. CASE D = {} /\ ErrReported(P)
  <2>1. rr = [done |-> TRUE, ret |-> P.out, err |-> P.derr, rest |-> <<>>]
    BY <1>2 DEF rr, ReadUntilIter
  <2>2. P.out = P.buf
    <3>1. Len(P.out) = Len(P.buf)
      BY <1>2 DEF ErrReported
    <3>2. SubSeq(P.buf, 1, Len(P.buf)) = P.buf
      BY SubSeqFull, Zenon
    <3>3. QED
      BY <3>1, <3>2
  <2>3. P.out \o <<>> = P.out
    BY ConcatEmptySeq, Zenon
  <2>4. QED
    BY <1>2, <2>1, <2>2, <2>3 DEF rr, ErrReported
<1>3. CASE D = {} /\ ~ErrReported(P) /\ OverMax(size, maxSize)
  <2>1. rr = [done |-> TRUE, ret |-> <<>>, err |-> "MaxSize", rest |-> P.buf]
    BY <1>3 DEF rr, ReadUntilIter
  <2>2. <<>> \o P.buf = P.buf
    BY ConcatEmptySeq, Zenon
  <2>3. QED
    BY <2>1, <2>2 DEF rr
<1>4. CASE D = {} /\ ~ErrReported(P) /\ ~OverMax(size, maxSize)
  <2>1. rr = [done |-> FALSE, last |-> size - 1, size |-> NextSize(size),
             rest |-> P.buf]
    BY <1>4 DEF rr, ReadUntilIter
  <2>2. QED
    BY <2>1 DEF rr
<1>5. QED
  BY <1>1, <1>2, <1>3, <1>4

\* The reader's data, and the part of it from where the current call of
\* Decode began.
Stream == StreamOf(source)

Rest == SubSeq(Stream, start + 1, Len(Stream))

\* The bytes not consumed yet: buffered in d.b, then still in the reader.
Unread == buf \o src

\* One iteration of readUntil, in any phase: either the loop goes on and
\* the unread bytes are as they were, or readUntil returns bytes that were
\* the first unread ones.
LEMMA ReadUntilSplit ==
  ASSUME IInv, derr # "none" => src = <<>>,
         NEW phase, NEW maxSize \in Int, ReadUntil(phase, maxSize)
  PROVE  /\ derr' # "none" => src' = <<>>
         /\ UNCHANGED <<source, start, headAndSep, content, results>>
         /\ \/ /\ pc' = pc /\ ret' = ret /\ rerr' = rerr
               /\ Unread' = Unread
            \/ /\ pc' = AfterRead[phase]
               /\ ret' \o Unread' = Unread
               /\ rerr' = "none" => HasSuffix(ret', NLNL)
               /\ rerr' \in {"EOF", "ERR"} => buf' = <<>> /\ src' = <<>>
<1> DEFINE P(k) == Peek(size, k)
           R(k) == ReadUntilIter(P(k), maxSize)
<1>0. /\ src \in Seq(Bytes) /\ buf \in Seq(Bytes) /\ bcap \in Nat \ {0}
      /\ Len(buf) <= bcap /\ derr \in {"none", "EOF", "ERR"}
      /\ size \in Nat \ {0} /\ last \in Nat
      /\ source.end \in {"EOF", "ERR"}
  BY StreamType DEF IInv, TypeOK, BufferBounded
<1>1. PICK k \in FillCounts(size) :
        /\ PeekEffect(P(k), k)
        /\ buf' = R(k).rest
        /\ IF R(k).done
           THEN /\ pc' = AfterRead[phase]
                /\ ret' = R(k).ret
                /\ rerr' = R(k).err
           ELSE /\ UNCHANGED <<pc, ret, rerr>>
  BY DEF ReadUntil
<1>2. UNCHANGED <<source, start, headAndSep, content, results>>
  BY DEF ReadUntil
<1> DEFINE rs == SubSeq(src, k + 1, Len(src))
<1>3. /\ P(k).buf \o rs = buf \o src
      /\ P(k).out = SubSeq(P(k).buf, 1, Len(P(k).out))
      /\ P(k).derr # "none" => rs = <<>>
  BY <1>0, PeekSplit
<1>4. /\ P(k).buf \in Seq(Bytes) /\ P(k).out \in Seq(Bytes)
      /\ Len(P(k).out) <= Len(P(k).buf)
      /\ P(k).derr \in {"none", "EOF", "ERR"}
      /\ rs \in Seq(Bytes)
  BY <1>0, PeekLemma
<1>5. src' = rs /\ derr' = P(k).derr
  BY <1>1 DEF PeekEffect
<1>6. /\ R(k).done => /\ R(k).ret \o R(k).rest = P(k).buf
                      /\ R(k).err = "none" => HasSuffix(R(k).ret, NLNL)
                      /\ R(k).err \notin {"none", "MaxSize"} =>
                           R(k).rest = <<>> /\ R(k).err = P(k).derr
      /\ ~R(k).done => R(k).rest = P(k).buf
  BY <1>0, <1>3, <1>4, IterSplit
<1>7. /\ R(k).rest \in Seq(Bytes)
      /\ R(k).done \in BOOLEAN
      /\ R(k).done => R(k).ret \in Seq(Bytes)
  BY <1>0, <1>4, IterLemma
<1>8. derr' # "none" => src' = <<>>
  BY <1>3, <1>5
<1> HIDE DEF P, R, rs
<1>9. CASE R(k).done
  <2>1. pc' = AfterRead[phase] /\ ret' = R(k).ret /\ rerr' = R(k).err
    BY <1>1, <1>9
  <2>2. ret' \o Unread' = Unread
    <3>1. ret' \o Unread' = R(k).ret \o (R(k).rest \o rs)
      BY <1>1, <1>5, <2>1 DEF Unread
    <3>2. R(k).ret \o (R(k).rest \o rs) = (R(k).ret \o R(k).rest) \o rs
      BY <1>4, <1>7, <1>9, CatAssoc, Zenon
    <3>3. QED
      BY <1>3, <1>6, <1>9, <3>1, <3>2 DEF Unread
  <2>3. rerr' \in {"EOF", "ERR"} => buf' = <<>> /\ src' = <<>>
    BY <1>1, <1>3, <1>5, <1>6, <1>9, <2>1
  <2>4. QED
    BY <1>2, <1>6, <1>8, <1>9, <2>1, <2>2, <2>3
<1>10. CASE ~R(k).done
  <2>1. UNCHANGED <<pc, ret, rerr>>
    BY <1>1, <1>10
  <2>2. Unread' = Unread
    BY <1>1, <1>3, <1>5, <1>6, <1>10 DEF Unread
  <2>3. QED
    BY <1>2, <1>8, <2>1, <2>2
<1>11. QED
  BY <1>7, <1>9, <1>10

(***************************************************************************)
(* The accounting invariant.  Between calls the unread bytes are the end  *)
(* of the stream.  During a call, Rest is what the call has read (readUntil *)
(* and readExact results, contentBuf, and the "\n\n" AfterTrailer matched) *)
(* followed by the unread bytes.  d.err is only set once the reader is     *)
(* drained, readUntil's nil error comes with bytes ending in "\n\n", and   *)
(* its read error with nothing left.  The header block ends in "\n\n", and *)
(* without a body contentBuf is that block.                                *)
(***************************************************************************)
SInv ==
  /\ derr # "none" => src = <<>>
  /\ start \in 0..Len(Stream)
  /\ pc = "idle" => HasSuffix(Stream, Unread)
  /\ pc = "head" => Rest = Unread
  /\ pc = "afterHead" =>
       /\ Rest = ret \o Unread
       /\ rerr = "none" => HasSuffix(ret, NLNL)
       /\ rerr \in {"EOF", "ERR"} => buf = <<>> /\ src = <<>>
  /\ pc \in {"body", "trailer"} => Rest = content \o Unread
  /\ pc \in {"body", "trailer", "afterTrailer"} => HasSuffix(headAndSep, NLNL)
  /\ pc \in {"trailer", "afterTrailer"} /\ ~(BodyLength(headAndSep) > 0) =>
       content = headAndSep
  /\ pc = "afterTrailer" => Rest = (content \o ret) \o Unread
  /\ pc = "sig" => Rest = (content \o NLNL) \o Unread
  /\ pc = "afterSig" => Rest = ((content \o NLNL) \o ret) \o Unread
  /\ DecodedIsStreamSegment
  /\ CleanEOFAtBoundary

(***************************************************************************)
(* The invariant is inductive                                              *)
(***************************************************************************)

\* Before the first call the reader holds the whole stream.
LEMMA InitSInv == Init => SInv
<1> SUFFICES ASSUME Init PROVE SInv
  OBVIOUS
<1>1. Stream \in Seq(Bytes) /\ Len(Stream) \in Nat
  BY StreamType DEF Init, Stream
<1>2. Unread = Stream
  BY <1>1, ConcatEmptySeq, Zenon DEF Init, Unread, Stream
<1>3. HasSuffix(Stream, Unread)
  <2>1. HasSuffix(<<>> \o Stream, Stream)
    BY <1>1, EmptySeq, SuffixOfCat
  <2>2. <<>> \o Stream = Stream
    BY <1>1, ConcatEmptySeq, Zenon
  <2>3. QED
    BY <1>2, <2>1, <2>2
<1>4. QED
  BY <1>1, <1>3
  DEF Init, SInv, DecodedIsStreamSegment, CleanEOFAtBoundary

\* Decode returning r keeps the invariant, when the unread bytes are an
\* end of the stream and r, an assertion, is the stream where the call
\* began, or, io.EOF, comes at the end of the stream.
LEMMA ReturnSInv ==
  ASSUME IInv, SInv, NEW r, Return(r), UNCHANGED <<source, start>>,
         derr' # "none" => src' = <<>>,
         HasSuffix(Stream, Unread'),
         r.start = start,
         r.kind = "assertion" => IsPrefixOf(r.content \o NLNL \o r.sig, Rest),
         r.kind = "eof" => start = Len(Stream)
  PROVE  SInv'
<1>1. results \in Seq(ResultType) /\ pc' = "idle"
      /\ results' = Append(results, r)
  BY DEF IInv, TypeOK, Return
<1>2. /\ Len(results') = Len(results) + 1
      /\ \A i \in 1..Len(results) : results'[i] = results[i]
      /\ results'[Len(results) + 1] = r
  <2>1. results \in Seq(ResultType \cup {r})
    BY <1>1, SeqMonotonic, Zenon
  <2>2. r \in ResultType \cup {r}
    OBVIOUS
  <2>3. /\ Len(Append(results, r)) = Len(results) + 1
        /\ \A i \in 1..Len(results) : Append(results, r)[i] = results[i]
        /\ Append(results, r)[Len(results) + 1] = r
    BY <2>1, <2>2, AppendProperties
  <2>4. QED
    BY <1>1, <2>3
<1>3. Len(results) \in Nat
  BY <1>1, LenProperties
<1>4. Stream' = Stream /\ Rest' = Rest
  BY DEF Stream, Rest
<1>5. DecodedIsStreamSegment'
  <2> SUFFICES ASSUME NEW i \in 1..Len(results'), results'[i].kind = "assertion"
               PROVE  IsPrefixOf(results'[i].content \o NLNL \o results'[i].sig,
                                 SubSeq(StreamOf(source'), results'[i].start + 1,
                                        Len(StreamOf(source'))))
    BY DEF DecodedIsStreamSegment
  <2>1. CASE i \in 1..Len(results)
    BY <1>2, <2>1 DEF SInv, DecodedIsStreamSegment
  <2>2. CASE i = Len(results) + 1
    BY <1>2, <2>2 DEF Rest, Stream
  <2>3. QED
    BY <1>2, <1>3, <2>1, <2>2
<1>6. CleanEOFAtBoundary'
  <2> SUFFICES ASSUME NEW i \in 1..Len(results'), results'[i].kind = "eof"
               PROVE  results'[i].start = Len(StreamOf(source'))
    BY DEF CleanEOFAtBoundary
  <2>1. CASE i \in 1..Len(results)
    BY <1>2, <2>1 DEF SInv, CleanEOFAtBoundary
  <2>2. CASE i = Len(results) + 1
    BY <1>2, <2>2 DEF Stream
  <2>3. QED
    BY <1>2, <1>3, <2>1, <2>2
<1>7. QED
  BY <1>1, <1>4, <1>5, <1>6 DEF SInv

\* The client's call of Decode starts where the unread bytes start.
LEMMA CallSInv == IInv /\ SInv /\ Call => SInv'
<1> SUFFICES ASSUME IInv, SInv, Call PROVE SInv'
  OBVIOUS
<1>1. /\ Stream \in Seq(Bytes) /\ Len(Stream) \in Nat
      /\ Unread \in Seq(Bytes) /\ Len(Unread) = Len(buf) + Len(src)
  BY StreamType, CatBytes DEF IInv, TypeOK, Stream, Unread
<1>2. HasSuffix(Stream, Unread)
  BY DEF SInv, Call
<1>3. start' = Len(Stream) - Len(Unread)
  BY <1>1 DEF Call, Consumed, Stream
<1>4. start' \in 0..Len(Stream)
  BY <1>1, <1>2, <1>3, LenProperties DEF HasSuffix
<1>5. Rest' = Unread'
  <2>1. Rest' = SubSeq(Stream, Len(Stream) - Len(Unread) + 1, Len(Stream))
    BY <1>3 DEF Rest, Stream, Call
  <2>2. Unread' = Unread
    BY DEF Call, Unread
  <2>3. QED
    BY <1>2, <2>1, <2>2 DEF HasSuffix
<1>6. QED
  BY <1>4, <1>5
  DEF SInv, Call, StartRead, Stream, DecodedIsStreamSegment, CleanEOFAtBoundary

\* An iteration of readUntil for the headers, the content/signature
\* separator or the signature keeps the invariant: what it returns joins
\* what the call has read.
LEMMA ReadUntilSInv ==
  ASSUME IInv, IInv', SInv, NEW phase \in {"head", "trailer", "sig"},
         NEW maxSize \in Int, ReadUntil(phase, maxSize)
  PROVE  SInv'
<1>0. /\ pc = phase
      /\ content \in Seq(Bytes) /\ NLNL \in Seq(Bytes)
      /\ content \o NLNL \in Seq(Bytes)
      /\ ret' \in Seq(Bytes) /\ Unread' \in Seq(Bytes)
  <2>1. pc = phase
    BY DEF ReadUntil
  <2>2. NLNL \in Seq(Bytes)
    BY DEF NLNL, Bytes
  <2>3. QED
    BY <2>1, <2>2, CatBytes DEF IInv, TypeOK, Unread
<1>1. /\ derr' # "none" => src' = <<>>
      /\ UNCHANGED <<source, start, headAndSep, content, results>>
      /\ \/ /\ pc' = pc /\ ret' = ret /\ rerr' = rerr
            /\ Unread' = Unread
         \/ /\ pc' = AfterRead[phase]
            /\ ret' \o Unread' = Unread
            /\ rerr' = "none" => HasSuffix(ret', NLNL)
            /\ rerr' \in {"EOF", "ERR"} => buf' = <<>> /\ src' = <<>>
  BY ReadUntilSplit DEF SInv
<1>2. Stream' = Stream /\ Rest' = Rest
  BY <1>1 DEF Stream, Rest
<1>3. /\ start' \in 0..Len(Stream')
      /\ DecodedIsStreamSegment'
      /\ CleanEOFAtBoundary'
  BY <1>1, <1>2 DEF SInv, DecodedIsStreamSegment, CleanEOFAtBoundary, Stream
<1>4. CASE pc' = pc /\ ret' = ret /\ rerr' = rerr /\ Unread' = Unread
  BY <1>0, <1>1, <1>2, <1>3, <1>4 DEF SInv
<1>5. CASE /\ pc' = AfterRead[phase]
           /\ ret' \o Unread' = Unread
           /\ rerr' = "none" => HasSuffix(ret', NLNL)
           /\ rerr' \in {"EOF", "ERR"} => buf' = <<>> /\ src' = <<>>
  <2>1. CASE phase = "head"
    <3>1. pc' = "afterHead" /\ Rest = Unread
      BY <1>0, <1>5, <2>1 DEF AfterRead, SInv
    <3>2. QED
      BY <1>1, <1>2, <1>3, <1>5, <3>1 DEF SInv
  <2>2. CASE phase = "trailer"
    <3>1. pc' = "afterTrailer" /\ Rest = content \o Unread
      BY <1>0, <1>5, <2>2 DEF AfterRead, SInv
    <3>2. content \o (ret' \o Unread') = (content \o ret') \o Unread'
      BY <1>0, CatAssoc, Zenon
    <3>3. /\ HasSuffix(headAndSep, NLNL)
          /\ ~(BodyLength(headAndSep) > 0) => content = headAndSep
      BY <1>0, <2>2 DEF SInv
    <3>4. QED
      BY <1>1, <1>2, <1>3, <1>5, <3>1, <3>2, <3>3 DEF SInv
  <2>3. CASE phase = "sig"
    <3>1. pc' = "afterSig" /\ Rest = (content \o NLNL) \o Unread
      BY <1>0, <1>5, <2>3 DEF AfterRead, SInv
    <3>2. (content \o NLNL) \o (ret' \o Unread')
            = ((content \o NLNL) \o ret') \o Unread'
      BY <1>0, CatAssoc, Zenon
    <3>3. QED
      BY <1>1, <1>2, <1>3, <1>5, <3>1, <3>2 DEF SInv
  <2>4. QED
    BY <2>1, <2>2, <2>3
<1>6. QED
  BY <1>1, <1>4, <1>5

\* When the call has read x and u is what follows, u is an end of the
\* stream.
LEMMA UnreadIsSuffix ==
  ASSUME IInv, SInv, NEW x \in Seq(Bytes), NEW u \in Seq(Bytes), Rest = x \o u
  PROVE  HasSuffix(Stream, u)
<1>1. Stream \in Seq(Bytes) /\ start \in 0..Len(Stream)
  BY StreamType DEF IInv, SInv, Stream
<1>2. HasSuffix(Stream, Rest) /\ Rest \in Seq(Bytes)
  BY <1>1, SuffixFrom DEF Rest
<1>3. HasSuffix(Rest, u)
  BY SuffixOfCat
<1>4. QED
  BY <1>1, <1>2, <1>3, SuffixTrans

\* Decode returning an error, the reader and the buffer left alone, keeps
\* the invariant.
LEMMA ErrorReturnSInv ==
  ASSUME IInv, SInv, NEW e, Return(ErrorResult(e)),
         UNCHANGED <<source, start, src, buf, derr>>,
         HasSuffix(Stream, Unread)
  PROVE  SInv'
<1>1. ErrorResult(e).kind = "error" /\ ErrorResult(e).start = start
  BY DEF ErrorResult, Result
<1>2. Unread' = Unread /\ (derr' # "none" => src' = <<>>)
  BY DEF Unread, SInv
<1>3. QED
  BY <1>1, <1>2, ReturnSInv

\* Decode on the headers it read keeps the invariant: it returns io.EOF
\* only when nothing was read and nothing is left, and goes on with the
\* headers and their separator as contentBuf.
LEMMA AfterHeadSInv == IInv /\ SInv /\ AfterHead => SInv'
<1> SUFFICES ASSUME IInv, SInv, AfterHead PROVE SInv'
  OBVIOUS
<1>0. /\ pc = "afterHead"
      /\ UNCHANGED <<source, src, buf, bcap, derr, ret, rerr, start>>
      /\ ret \in Seq(Bytes)
      /\ Rest = ret \o Unread
      /\ rerr = "none" => HasSuffix(ret, NLNL)
      /\ rerr \in {"EOF", "ERR"} => buf = <<>> /\ src = <<>>
  BY DEF AfterHead, IInv, TypeOK, SInv
<1>1. HasSuffix(Stream, Unread)
  <2>1. Unread \in Seq(Bytes)
    BY CatBytes DEF IInv, TypeOK, Unread
  <2>2. QED
    BY <1>0, <2>1, UnreadIsSuffix
<1>2. CASE rerr # "none" /\ rerr = "EOF"
  <2>1. Return(HeadEOFResult(ret))
    BY <1>2 DEF AfterHead
  <2>2. HeadEOFResult(ret).start = start
        /\ HeadEOFResult(ret).kind # "assertion"
    BY DEF HeadEOFResult, ErrorResult, Result
  <2>3. HeadEOFResult(ret).kind = "eof" => start = Len(Stream)
    <3> SUFFICES ASSUME HeadEOFResult(ret).kind = "eof" PROVE start = Len(Stream)
      OBVIOUS
    <3>1. Len(ret) = 0
      BY DEF HeadEOFResult, ErrorResult, Result
    <3>2. Unread = <<>>
      <4>1. <<>> \in Seq(Bytes)
        BY EmptySeq
      <4>2. <<>> \o <<>> = <<>>
        BY <4>1, ConcatEmptySeq, Zenon
      <4>3. QED
        BY <1>0, <1>2, <4>2 DEF Unread
    <3>3. Len(Rest) = 0
      BY <1>0, <3>1, <3>2, EmptySeq, CatBytes
    <3>4. Stream \in Seq(Bytes) /\ start \in 0..Len(Stream)
      BY StreamType DEF SInv, IInv, Stream
    <3>5. Len(Rest) = Len(Stream) - start
      BY <3>4, SuffixFrom DEF Rest
    <3>6. QED
      BY <3>3, <3>4, <3>5
  <2>4. QED
    BY <1>0, <1>1, <2>1, <2>2, <2>3, ReturnSInv DEF SInv, Unread
<1>3. CASE rerr # "none" /\ rerr # "EOF"
  <2>1. Return(ErrorResult(rerr))
    BY <1>3 DEF AfterHead
  <2>2. QED
    BY <1>0, <1>1, <2>1, ErrorReturnSInv
<1>4. CASE rerr = "none" /\ \E e : Return(ErrorResult(e))
  BY <1>0, <1>1, <1>4, ErrorReturnSInv
<1>5. CASE rerr = "none" /\ pc' = "panic"
      /\ UNCHANGED <<last, size, headAndSep, content, results>>
  BY <1>0, <1>5
  DEF SInv, Stream, Rest, Unread, DecodedIsStreamSegment, CleanEOFAtBoundary
<1>6. CASE rerr = "none"
           /\ headAndSep' = ret /\ content' = ret
           /\ StartRead(IF BodyLength(ret) > 0 THEN "body" ELSE "trailer")
  <2>1. pc' \in {"body", "trailer"} /\ results' = results
    BY <1>6 DEF StartRead
  <2>2. Rest' = content' \o Unread'
    BY <1>0, <1>6 DEF Rest, Stream, Unread
  <2>3. QED
    BY <1>0, <1>6, <2>1, <2>2
    DEF SInv, Stream, DecodedIsStreamSegment, CleanEOFAtBoundary
<1>7. QED
  <2>1. \/ rerr # "none" /\ rerr = "EOF"
        \/ rerr # "none" /\ rerr # "EOF"
        \/ rerr = "none" /\ \E e : Return(ErrorResult(e))
        \/ /\ rerr = "none" /\ pc' = "panic"
           /\ UNCHANGED <<last, size, headAndSep, content, results>>
        \/ /\ rerr = "none"
           /\ headAndSep' = ret /\ content' = ret
           /\ StartRead(IF BodyLength(ret) > 0 THEN "body" ELSE "trailer")
    BY DEF AfterHead
  <2>2. QED
    BY <2>1, <1>2, <1>3, <1>4, <1>5, <1>6

\* readExact of the body keeps the invariant: the bytes it returns are the
\* first unread ones, and join contentBuf.
LEMMA ReadBodySInv == IInv /\ SInv /\ ReadBody => SInv'
<1> SUFFICES ASSUME IInv, SInv, ReadBody PROVE SInv'
  OBVIOUS
<1> DEFINE n == BodyLength(headAndSep)
           P(k) == Peek(n, k)
<1>0. /\ pc = "body"
      /\ UNCHANGED <<source, start, ret, rerr>>
      /\ n \in Nat
      /\ src \in Seq(Bytes) /\ buf \in Seq(Bytes) /\ bcap \in Nat \ {0}
      /\ Len(buf) <= bcap /\ derr \in {"none", "EOF", "ERR"}
      /\ source.end \in {"EOF", "ERR"}
      /\ derr # "none" => src = <<>>
      /\ content \in Seq(Bytes)
      /\ Rest = content \o Unread
      /\ HasSuffix(headAndSep, NLNL)
      /\ n > 0
  <2>1. /\ pc = "body"
        /\ UNCHANGED <<source, start, ret, rerr>>
        /\ n \in Nat /\ n > 0
    BY DEF ReadBody, IInv, PhaseCapOK
  <2>2. /\ src \in Seq(Bytes) /\ buf \in Seq(Bytes) /\ bcap \in Nat \ {0}
        /\ Len(buf) <= bcap /\ derr \in {"none", "EOF", "ERR"}
        /\ source.end \in {"EOF", "ERR"}
        /\ content \in Seq(Bytes)
    BY StreamType, SizesAssumption DEF IInv, TypeOK, BufferBounded
  <2>3. /\ derr # "none" => src = <<>>
        /\ Rest = content \o Unread
        /\ HasSuffix(headAndSep, NLNL)
    BY <2>1 DEF SInv
  <2>4. QED
    BY <2>1, <2>2, <2>3
<1>1. PICK k \in FillCounts(n) :
        /\ PeekEffect(P(k), k)
        /\ buf' = SubSeq(P(k).buf, Len(P(k).out) + 1, Len(P(k).buf))
        /\ IF Len(P(k).out) = n
           THEN /\ content' = content \o P(k).out
                /\ StartRead("trailer")
                /\ UNCHANGED headAndSep
           ELSE Return(ErrorResult(IF P(k).derr = "EOF" THEN "UnexpectedEOF"
                                   ELSE P(k).derr))
  BY DEF ReadBody
<1> DEFINE rs == SubSeq(src, k + 1, Len(src))
           o == P(k).out
           pb == P(k).buf
<1>2. /\ pb \o rs = buf \o src
      /\ o = SubSeq(pb, 1, Len(o))
      /\ P(k).derr # "none" => rs = <<>>
  BY <1>0, PeekSplit
<1>3. /\ pb \in Seq(Bytes) /\ o \in Seq(Bytes) /\ Len(o) <= Len(pb)
      /\ rs \in Seq(Bytes)
  BY <1>0, PeekLemma
<1>4. src' = rs /\ derr' = P(k).derr
  BY <1>1 DEF PeekEffect
<1>5. /\ buf' \in Seq(Bytes)
      /\ pb = o \o buf'
  <2>1. Len(o) \in 0..Len(pb)
    BY <1>3, LenProperties
  <2>2. SubSeq(pb, 1, Len(o)) \o SubSeq(pb, Len(o) + 1, Len(pb)) = pb
    BY <1>3, <2>1, SplitAt, Zenon
  <2>3. buf' = SubSeq(pb, Len(o) + 1, Len(pb))
    BY <1>1
  <2>4. buf' \in Seq(Bytes)
    <3>1. Len(o) + 1 \in Int /\ Len(o) + 1 >= 1 /\ Len(pb) \in Int
      BY <2>1, LenProperties, <1>3
    <3>2. QED
      BY <1>3, <2>3, <3>1, SubSeqBytes DEF SubSeqTypeFormula
  <2>5. QED
    BY <1>2, <2>2, <2>3, <2>4
<1>6. Unread' \in Seq(Bytes) /\ Rest = (content \o o) \o Unread'
  <2>1. Unread' = buf' \o rs
    BY <1>4 DEF Unread
  <2>2. Unread = (o \o buf') \o rs
    BY <1>2, <1>5 DEF Unread
  <2>3. (o \o buf') \o rs = o \o Unread'
    BY <1>3, <1>5, <2>1, CatAssoc, Zenon
  <2>4. Unread' \in Seq(Bytes)
    BY <1>3, <1>5, <2>1, CatBytes
  <2>5. content \o (o \o Unread') = (content \o o) \o Unread'
    BY <1>0, <1>3, <2>4, CatAssoc, Zenon
  <2>6. QED
    BY <1>0, <2>2, <2>3, <2>4, <2>5
<1>7. derr' # "none" => src' = <<>>
  BY <1>2, <1>4
<1>8. Rest' = Rest /\ Stream' = Stream
  BY <1>0 DEF Rest, Stream
<1>9. CASE Len(o) = n
  <2>1. /\ content' = content \o o /\ pc' = "trailer"
        /\ UNCHANGED <<headAndSep, results>>
    BY <1>1, <1>9 DEF StartRead, o, P
  <2>2. QED
    BY <1>0, <1>6, <1>7, <1>8, <2>1
    DEF SInv, Stream, DecodedIsStreamSegment, CleanEOFAtBoundary
<1>10. CASE Len(o) # n
  <2> DEFINE e == IF P(k).derr = "EOF" THEN "UnexpectedEOF" ELSE P(k).derr
  <2>1. Return(ErrorResult(e))
    BY <1>1, <1>10 DEF o, P
  <2>2. HasSuffix(Stream, Unread')
    BY <1>0, <1>3, <1>6, CatBytes, UnreadIsSuffix
  <2>3. ErrorResult(e).kind = "error" /\ ErrorResult(e).start = start
    BY DEF ErrorResult, Result
  <2>4. QED
    BY <1>0, <1>7, <2>1, <2>2, <2>3, ReturnSInv
<1>11. QED
  BY <1>9, <1>10

\* The rest of Decode once the signature is read keeps the invariant: the
\* assertion it returns, contentBuf, "\n\n" and the signature without the
\* '\n' that ends it when it was followed by "\n\n", is a prefix of what
\* the call read (src 441-455).
LEMMA FinishSInv ==
  ASSUME IInv, SInv, NEW cont \in Seq(Bytes),
         Rest = ((cont \o NLNL) \o ret) \o Unread,
         Finish(ret, cont),
         UNCHANGED <<source, start, src, buf, derr>>
  PROVE  SInv'
<1> DEFINE sig1 == IF HasSuffix(ret, NLNL) THEN SubSeq(ret, 1, Len(ret) - 1)
                   ELSE ret
           body == IF BodyLength(headAndSep) > 0
                   THEN SubSeq(cont, HeadLen(headAndSep) + 3, Len(cont))
                   ELSE <<>>
           err == AssembleErr(Headers(headAndSep), body, sig1)
           r == IF err = "none"
                THEN Result("assertion", "none", cont, body, sig1)
                ELSE ErrorResult(err)
<1>0. /\ ret \in Seq(Bytes) /\ Unread \in Seq(Bytes)
      /\ NLNL \in Seq(Bytes) /\ Len(NLNL) = 2
      /\ cont \o NLNL \in Seq(Bytes)
      /\ (cont \o NLNL) \o ret \in Seq(Bytes)
  <2>1. /\ ret \in Seq(Bytes) /\ Unread \in Seq(Bytes)
        /\ NLNL \in Seq(Bytes) /\ Len(NLNL) = 2
    BY CatBytes DEF IInv, TypeOK, Unread, NLNL, Bytes
  <2>2. cont \o NLNL \in Seq(Bytes)
    BY <2>1, CatBytes
  <2>3. QED
    BY <2>1, <2>2, CatBytes
<1>1. Return(r)
  BY DEF Finish
<1>2. \E j \in 0..Len(ret) : sig1 = SubSeq(ret, 1, j)
  <2>1. CASE HasSuffix(ret, NLNL)
    <3>1. Len(ret) - 1 \in 0..Len(ret)
      BY <1>0, <2>1, LenProperties DEF HasSuffix
    <3>2. QED
      BY <2>1, <3>1
  <2>2. CASE ~HasSuffix(ret, NLNL)
    <3>1. SubSeq(ret, 1, Len(ret)) = ret
      BY <1>0, SubSeqFull, Zenon
    <3>2. Len(ret) \in 0..Len(ret)
      BY <1>0, LenProperties
    <3>3. QED
      BY <2>2, <3>1, <3>2
  <2>3. QED
    BY <2>1, <2>2
<1>3. IsPrefixOf((cont \o NLNL) \o sig1, Rest)
  <2>1. PICK j \in 0..Len(ret) : sig1 = SubSeq(ret, 1, j)
    BY <1>2
  <2>2. IsPrefixOf((cont \o NLNL) \o SubSeq(ret, 1, j),
                   ((cont \o NLNL) \o ret) \o Unread)
    BY <1>0, PrefixOfFrame
  <2>3. QED
    BY <2>1, <2>2
<1>4. /\ r.start = start
      /\ r.kind # "eof"
      /\ r.kind = "assertion" => r.content = cont /\ r.sig = sig1
  BY DEF Result, ErrorResult
<1>5. HasSuffix(Stream, Unread)
  BY <1>0, UnreadIsSuffix
<1>6. Unread' = Unread /\ (derr' # "none" => src' = <<>>)
  BY DEF Unread, SInv
<1> HIDE DEF r
<1>7. QED
  BY <1>1, <1>3, <1>4, <1>5, <1>6, ReturnSInv

\* Decode on what follows the body keeps the invariant: "\n\n" goes on to
\* the signature, and without a body the bytes read are the signature.
LEMMA AfterTrailerSInv == IInv /\ SInv /\ AfterTrailer => SInv'
<1> SUFFICES ASSUME IInv, SInv, AfterTrailer PROVE SInv'
  OBVIOUS
<1>0. /\ pc = "afterTrailer"
      /\ UNCHANGED <<source, src, buf, bcap, derr, ret, rerr, start>>
      /\ ret \in Seq(Bytes) /\ content \in Seq(Bytes)
      /\ headAndSep \in Seq(Bytes)
      /\ content \o ret \in Seq(Bytes) /\ Unread \in Seq(Bytes)
      /\ Rest = (content \o ret) \o Unread
      /\ HasSuffix(headAndSep, NLNL)
      /\ ~(BodyLength(headAndSep) > 0) => content = headAndSep
  BY CatBytes DEF AfterTrailer, IInv, TypeOK, SInv, Unread
<1>1. HasSuffix(Stream, Unread)
  BY <1>0, UnreadIsSuffix
<1>2. CASE rerr \notin {"none", "EOF"}
  <2>1. Return(ErrorResult(rerr))
    BY <1>2 DEF AfterTrailer
  <2>2. QED
    BY <1>0, <1>1, <2>1, ErrorReturnSInv
<1>3. CASE rerr \in {"none", "EOF"} /\ ret = NLNL
  <2>1. pc' = "sig" /\ UNCHANGED <<headAndSep, content, results>>
    BY <1>3 DEF AfterTrailer, StartRead
  <2>2. Rest' = (content' \o NLNL) \o Unread'
    BY <1>0, <1>3, <2>1 DEF Rest, Stream, Unread
  <2>3. QED
    BY <1>0, <2>1, <2>2
    DEF SInv, Stream, DecodedIsStreamSegment, CleanEOFAtBoundary
<1>4. CASE rerr \in {"none", "EOF"} /\ ret # NLNL /\ BodyLength(headAndSep) > 0
  <2>1. Return(ErrorResult("MissingSeparator"))
    BY <1>4 DEF AfterTrailer
  <2>2. QED
    BY <1>0, <1>1, <2>1, ErrorReturnSInv
<1>5. CASE rerr \in {"none", "EOF"} /\ ret # NLNL /\ ~(BodyLength(headAndSep) > 0)
  <2>1. Finish(ret, SigOnlyContent)
    BY <1>5 DEF AfterTrailer
  <2>2. content = headAndSep
    BY <1>0, <1>5
  <2>3. /\ SigOnlyContent = SubSeq(headAndSep, 1, Len(headAndSep) - 2)
        /\ SigOnlyContent \in Seq(Bytes)
    <3>1. Len(headAndSep) >= 2 /\ Len(headAndSep) \in Nat
      BY <1>0, LenProperties DEF HasSuffix, NLNL
    <3>2. QED
      BY <1>0, <2>2, <3>1, SubSeqBytes DEF SigOnlyContent, HeadLen, SubSeqTypeFormula
  <2>4. content = SigOnlyContent \o NLNL
    <3>1. Len(NLNL) = 2
      BY DEF NLNL
    <3>2. headAndSep = SubSeq(headAndSep, 1, Len(headAndSep) - Len(NLNL)) \o NLNL
      BY <1>0, SplitSuffix
    <3>3. QED
      BY <2>2, <2>3, <3>1, <3>2
  <2>5. QED
    BY <1>0, <2>1, <2>3, <2>4, FinishSInv
<1>6. QED
  BY <1>2, <1>3, <1>4, <1>5

\* Decode on the signature keeps the invariant.
LEMMA AfterSigSInv == IInv /\ SInv /\ AfterSig => SInv'
<1> SUFFICES ASSUME IInv, SInv, AfterSig PROVE SInv'
  OBVIOUS
<1>0. /\ pc = "afterSig"
      /\ UNCHANGED <<source, src, buf, bcap, derr, ret, rerr, start>>
      /\ content \in Seq(Bytes)
      /\ (content \o NLNL) \o ret \in Seq(Bytes) /\ Unread \in Seq(Bytes)
      /\ Rest = ((content \o NLNL) \o ret) \o Unread
  <2>1. NLNL \in Seq(Bytes)
    BY DEF NLNL, Bytes
  <2>2. QED
    BY <2>1, CatBytes DEF AfterSig, IInv, TypeOK, SInv, Unread
<1>1. HasSuffix(Stream, Unread)
  BY <1>0, UnreadIsSuffix
<1>2. CASE rerr \notin {"none", "EOF"}
  <2>1. Return(ErrorResult(rerr))
    BY <1>2 DEF AfterSig
  <2>2. QED
    BY <1>0, <1>1, <2>1, ErrorReturnSInv
<1>3. CASE rerr \in {"none", "EOF"}
  <2>1. Finish(ret, content)
    BY <1>3 DEF AfterSig
  <2>2. QED
    BY <1>0, <2>1, FinishSInv
<1>4. QED
  BY <1>2, <1>3

\* Every step of the decoder, a call, an iteration of Decode or the end,
\* keeps the stream accounting.
LEMMA NextSInv == IInv /\ SInv /\ [Next]_vars => SInv'
<1> SUFFICES ASSUME IInv, SInv, [Next]_vars PROVE SInv'
  OBVIOUS
<1>0. IInv'
  BY NextIInv
<1>1. CASE Call
  BY <1>1, CallSInv
<1>2. CASE ReadHead
  <2>1. MaxHeadersSize \in Int
    BY SizesAssumption
  <2>2. QED
    BY <1>0, <1>2, <2>1, ReadUntilSInv DEF ReadHead
<1>3. CASE AfterHead
  BY <1>3, AfterHeadSInv
<1>4. CASE ReadBody
  BY <1>4, ReadBodySInv
<1>5. CASE ReadTrailer
  <2>1. MaxSigSize \in Int
    BY SizesAssumption
  <2>2. QED
    BY <1>0, <1>5, <2>1, ReadUntilSInv DEF ReadTrailer
<1>6. CASE AfterTrailer
  BY <1>6, AfterTrailerSInv
<1>7. CASE ReadSig
  <2>1. MaxSigSize \in Int
    BY SizesAssumption
  <2>2. QED
    BY <1>0, <1>7, <2>1, ReadUntilSInv DEF ReadSig
<1>8. CASE AfterSig
  BY <1>8, AfterSigSInv
<1>9. CASE Terminated \/ UNCHANGED vars
  <2>1. UNCHANGED vars
    BY <1>9 DEF Terminated
  <2>2. QED
    BY <2>1 DEF vars, SInv, Rest, Stream, Unread, DecodedIsStreamSegment,
                CleanEOFAtBoundary
<1>10. QED
  BY <1>1, <1>2, <1>3, <1>4, <1>5, <1>6, <1>7, <1>8, <1>9
  DEF Next, DecodeStep

\* The stream accounting holds in every state of every behaviour of the
\* decoder, together with IInv.
THEOREM StreamAccounting == Spec => [](IInv /\ SInv)
<1>1. Init => IInv /\ SInv
  BY InitIInv, InitSInv
<1>2. IInv /\ SInv /\ [Next]_vars => (IInv /\ SInv)'
  BY NextIInv, NextSInv
<1>3. QED
  BY <1>1, <1>2, PTL DEF Spec

\* Every assertion a call of Decode returns is the bytes content, "\n\n",
\* signature that the stream holds where the call began, whatever the
\* reader's chunking, the buffer regrowth of peek (src 322-337) and the
\* errors it ends in: Decode assembles contentBuf and the signature from
\* what readUntil and readExact consumed, in order (src 381-455).
THEOREM DecodedSegments == Spec => []DecodedIsStreamSegment
<1>1. SInv => DecodedIsStreamSegment
  BY DEF SInv
<1>2. QED
  BY StreamAccounting, <1>1, PTL

\* Decode reports io.EOF only when the call began at the end of the
\* stream: a readUntil of the headers that hits io.EOF after some bytes
\* returns io.ErrUnexpectedEOF (src 382-387).
THEOREM CleanEOF == Spec => []CleanEOFAtBoundary
<1>1. SInv => CleanEOFAtBoundary
  BY DEF SInv
<1>2. QED
  BY StreamAccounting, <1>1, PTL

=============================================================================

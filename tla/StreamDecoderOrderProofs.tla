----------------------- MODULE StreamDecoderOrderProofs -----------------------
(***************************************************************************)
(* Proof that the streaming Decoder hands out each byte of the stream at   *)
(* most once: the assertions successive calls of Decode return are         *)
(* disjoint segments of the stream, in the order of the calls.  The read   *)
(* position, the stream length less the bytes buffered or not yet handed   *)
(* out, only moves forward; a call begins at the read position; and the   *)
(* assertion a call returns ends at or before the read position when it   *)
(* returns.                                                                *)
(***************************************************************************)
EXTENDS StreamDecoderStreamProofs

\* Where the assertion r ends in the stream: content, "\n\n", signature.
FrameEnd(r) == r.start + Len(r.content) + 2 + Len(r.sig)

\* The read position: the bytes of the stream the decoder has consumed.
Pos == Len(Stream) - Len(Unread)

(***************************************************************************)
(* The inductive invariant.  Every assertion returned so far ends at or    *)
(* before the read position; during a call, at or before the offset where *)
(* the call began.                                                         *)
(***************************************************************************)
OInv ==
  /\ \A i \in 1..Len(results) :
       results[i].kind = "assertion" => FrameEnd(results[i]) <= Pos
  /\ pc # "idle" =>
       \A i \in 1..Len(results) :
         results[i].kind = "assertion" => FrameEnd(results[i]) <= start
  /\ DecodedInStreamOrder

(***************************************************************************)
(* Steps that return nothing, and steps that return                        *)
(***************************************************************************)

\* The stream, the unread bytes and the read position are what their
\* names say, and Decode's call starts at the read position.
LEMMA PosType ==
  ASSUME IInv
  PROVE  /\ Stream \in Seq(Bytes) /\ Unread \in Seq(Bytes)
         /\ Len(Stream) \in Nat /\ Len(Unread) \in Nat
         /\ Pos \in Int
         /\ Consumed = Pos
<1>1. Stream \in Seq(Bytes) /\ src \in Seq(Bytes) /\ buf \in Seq(Bytes)
  BY StreamType DEF IInv, TypeOK, Stream
<1>2. Unread \in Seq(Bytes) /\ Len(Unread) = Len(buf) + Len(src)
  BY <1>1, CatBytes DEF Unread
<1>3. QED
  BY <1>1, <1>2, LenProperties DEF Pos, Consumed, Stream

\* The end of an assertion of ResultType is a number.
LEMMA FrameEndType ==
  ASSUME NEW r \in ResultType
  PROVE  FrameEnd(r) \in Int
BY LenProperties DEF FrameEnd, ResultType

\* A step that returns nothing keeps OInv when the read position does not
\* move back and the step does not begin a call.
LEMMA KeepOInv ==
  ASSUME IInv, OInv, results' = results, start' = start, source' = source,
         Unread' \in Seq(Bytes), Len(Unread') <= Len(Unread),
         pc' # "idle" => pc # "idle"
  PROVE  OInv'
<1>1. /\ Stream' = Stream /\ Stream \in Seq(Bytes)
      /\ Unread \in Seq(Bytes) /\ Len(Unread) \in Nat
  BY PosType DEF Stream
<1>2. Pos' >= Pos /\ Pos \in Int /\ Pos' \in Int
  <2>1. Len(Unread') \in Nat /\ Len(Stream) \in Nat
    BY <1>1, LenProperties
  <2>2. QED
    BY <1>1, <2>1, PosType DEF Pos
<1>3. results \in Seq(ResultType)
  BY DEF IInv, TypeOK
<1>4. ASSUME NEW i \in 1..Len(results), results[i].kind = "assertion"
      PROVE  FrameEnd(results[i]) <= Pos'
  <2>1. FrameEnd(results[i]) \in Int /\ FrameEnd(results[i]) <= Pos
    BY <1>3, <1>4, FrameEndType DEF OInv
  <2>2. QED
    BY <1>2, <2>1
<1>5. QED
  BY <1>4 DEF OInv, DecodedInStreamOrder

\* A Return from a call keeps OInv when the result begins where the call
\* began and, if it is an assertion, ends at or before the read position,
\* and the read position does not move back.
LEMMA ReturnOInv ==
  ASSUME IInv, OInv, pc # "idle", NEW r, Return(r),
         r.start = start, start' = start, source' = source,
         Unread' \in Seq(Bytes), Len(Unread') <= Len(Unread),
         r.kind = "assertion" => FrameEnd(r) <= Pos'
  PROVE  OInv'
<1>1. /\ Len(results') = Len(results) + 1
      /\ \A i \in 1..Len(results) : results'[i] = results[i]
      /\ results'[Len(results) + 1] = r
      /\ Len(results) \in Nat
  <2>1. results \in Seq(ResultType) /\ results' = Append(results, r)
    BY DEF IInv, TypeOK, Return
  <2>2. results \in Seq(ResultType \cup {r})
    BY <2>1, SeqMonotonic, Zenon
  <2>3. r \in ResultType \cup {r}
    OBVIOUS
  <2>4. /\ Len(Append(results, r)) = Len(results) + 1
        /\ \A i \in 1..Len(results) : Append(results, r)[i] = results[i]
        /\ Append(results, r)[Len(results) + 1] = r
    BY <2>2, <2>3, AppendProperties
  <2>5. QED
    BY <2>1, <2>4, LenProperties
<1>2. Pos' >= Pos /\ Pos \in Int /\ Pos' \in Int
  <2>1. /\ Stream' = Stream /\ Len(Stream) \in Nat
        /\ Len(Unread') \in Nat /\ Len(Unread) \in Nat
    BY PosType, LenProperties DEF Stream
  <2>2. QED
    BY <2>1 DEF Pos
<1>3. \A i \in 1..Len(results') :
        results'[i].kind = "assertion" => FrameEnd(results'[i]) <= Pos'
  <2>1. SUFFICES ASSUME NEW i \in 1..Len(results'),
                        results'[i].kind = "assertion"
                 PROVE  FrameEnd(results'[i]) <= Pos'
    OBVIOUS
  <2>2. CASE i \in 1..Len(results)
    <3>1. results \in Seq(ResultType)
      BY DEF IInv, TypeOK
    <3>2. FrameEnd(results[i]) \in Int /\ FrameEnd(results[i]) <= Pos
      BY <1>1, <2>1, <2>2, <3>1, FrameEndType DEF OInv
    <3>3. QED
      BY <1>1, <1>2, <2>2, <3>2
  <2>3. CASE i = Len(results) + 1
    BY <1>1, <2>1, <2>3
  <2>4. QED
    BY <1>1, <2>2, <2>3
<1>4. pc' = "idle"
  BY DEF Return
<1>5. ASSUME NEW i \in 1..Len(results'), NEW j \in 1..Len(results'),
             i < j, results'[i].kind = "assertion"
      PROVE  results'[j].start >=
               results'[i].start + Len(results'[i].content) + 2
                                 + Len(results'[i].sig)
  <2>1. CASE j <= Len(results)
    BY <1>1, <1>5, <2>1 DEF OInv, DecodedInStreamOrder
  <2>2. CASE j = Len(results) + 1
    <3>1. i \in 1..Len(results) /\ results'[i] = results[i]
      BY <1>1, <1>5, <2>2
    <3>2. FrameEnd(results[i]) <= start
      BY <1>5, <3>1 DEF OInv
    <3>3. QED
      BY <1>1, <2>2, <3>1, <3>2 DEF FrameEnd
  <2>3. QED
    BY <1>1, <1>5, <2>1, <2>2
<1>6. QED
  BY <1>3, <1>4, <1>5 DEF OInv, DecodedInStreamOrder

\* A call of Decode begins at the read position, past every assertion
\* returned so far.
LEMMA CallOInv == IInv /\ OInv /\ Call => OInv'
<1> SUFFICES ASSUME IInv, OInv, Call PROVE OInv'
  OBVIOUS
<1>1. /\ start' = Pos /\ pc' = "head"
      /\ UNCHANGED <<source, src, buf, results>>
  BY PosType DEF Call, StartRead
<1>2. Pos' = Pos
  BY <1>1 DEF Pos, Stream, Unread
<1>3. QED
  BY <1>1, <1>2 DEF OInv, DecodedInStreamOrder

\* A Return of an error result keeps OInv.
LEMMA ErrorOInv ==
  ASSUME IInv, OInv, pc # "idle", NEW e, Return(ErrorResult(e)),
         UNCHANGED <<start, source, src, buf>>
  PROVE  OInv'
<1>1. /\ ErrorResult(e).start = start /\ ErrorResult(e).kind = "error"
  BY DEF ErrorResult, Result
<1>2. Unread' = Unread /\ Unread \in Seq(Bytes)
  BY PosType DEF Unread
<1>3. QED
  BY <1>1, <1>2, ReturnOInv

(***************************************************************************)
(* The invariant is inductive                                              *)
(***************************************************************************)

\* An iteration of readUntil hands out or keeps buffered what it took from
\* the reader: the bytes not yet handed out never grow.
LEMMA ReadUntilUnread ==
  ASSUME IInv, IInv', SInv, NEW phase \in {"head", "trailer", "sig"},
         NEW maxSize \in Int, ReadUntil(phase, maxSize)
  PROVE  /\ UNCHANGED <<source, start, results>>
         /\ Unread' \in Seq(Bytes) /\ Len(Unread') <= Len(Unread)
<1>1. /\ UNCHANGED <<source, start, results>>
      /\ \/ Unread' = Unread
         \/ ret' \o Unread' = Unread
  BY ReadUntilSplit DEF SInv
<1>2. /\ Unread' \in Seq(Bytes) /\ ret' \in Seq(Bytes)
      /\ Unread \in Seq(Bytes)
  <2>1. buf' \in Seq(Bytes) /\ src' \in Seq(Bytes) /\ ret' \in Seq(Bytes)
    BY DEF IInv, TypeOK
  <2>2. QED
    BY <2>1, CatBytes, PosType DEF Unread
<1>3. Len(Unread') <= Len(Unread)
  <2>1. Len(ret' \o Unread') = Len(ret') + Len(Unread')
        /\ Len(ret') \in Nat /\ Len(Unread') \in Nat
    BY <1>2, LenProperties
  <2>2. QED
    BY <1>1, <2>1
<1>4. QED
  BY <1>1, <1>2, <1>3

\* An iteration of readUntil returns nothing and moves the read position
\* forward by what it returns.
LEMMA ReadUntilOInv ==
  ASSUME IInv, IInv', SInv, OInv, NEW phase \in {"head", "trailer", "sig"},
         NEW maxSize \in Int, ReadUntil(phase, maxSize)
  PROVE  OInv'
<1>1. /\ UNCHANGED <<source, start, results>>
      /\ Unread' \in Seq(Bytes) /\ Len(Unread') <= Len(Unread)
  BY ReadUntilUnread
<1>2. pc = phase
  BY DEF ReadUntil
<1>3. QED
  BY <1>1, <1>2, KeepOInv

\* Decode on the headers returns no assertion, and reads nothing.
LEMMA AfterHeadOInv == IInv /\ OInv /\ AfterHead => OInv'
<1> SUFFICES ASSUME IInv, OInv, AfterHead PROVE OInv'
  OBVIOUS
<1>1. /\ pc = "afterHead" /\ UNCHANGED <<source, src, buf, start>>
      /\ Unread' = Unread /\ Unread \in Seq(Bytes)
  BY PosType DEF AfterHead, Unread
<1>2. \/ results' = results
      \/ \E e : Return(ErrorResult(e))
      \/ Return(Result("eof", "none", <<>>, <<>>, <<>>))
  BY Zenon DEF AfterHead, HeadEOFResult, StartRead
<1>3. CASE results' = results
  BY <1>1, <1>3, KeepOInv
<1>4. CASE \E e : Return(ErrorResult(e))
  BY <1>1, <1>4, ErrorOInv
<1>5. CASE Return(Result("eof", "none", <<>>, <<>>, <<>>))
  <2>1. Result("eof", "none", <<>>, <<>>, <<>>).start = start
        /\ Result("eof", "none", <<>>, <<>>, <<>>).kind = "eof"
    BY DEF Result
  <2>2. QED
    BY <1>1, <1>5, <2>1, ReturnOInv
<1>6. QED
  BY <1>2, <1>3, <1>4, <1>5

\* readExact of the body takes from the reader what it returns or keeps
\* buffered: the bytes not yet handed out never grow.
LEMMA ReadBodyUnread ==
  ASSUME IInv, ReadBody
  PROVE  Unread' \in Seq(Bytes) /\ Len(Unread') <= Len(Unread)
<1> DEFINE n == BodyLength(headAndSep)
           P(k) == Peek(n, k)
<1>0. /\ n \in Int
      /\ src \in Seq(Bytes) /\ buf \in Seq(Bytes) /\ bcap \in Nat \ {0}
      /\ Len(buf) <= bcap /\ derr \in {"none", "EOF", "ERR"}
      /\ source.end \in {"EOF", "ERR"}
  BY StreamType DEF ReadBody, IInv, TypeOK, BufferBounded, PhaseCapOK
<1>1. PICK k \in FillCounts(n) :
        /\ PeekEffect(P(k), k)
        /\ buf' = SubSeq(P(k).buf, Len(P(k).out) + 1, Len(P(k).buf))
  BY DEF ReadBody
<1>2. /\ k \in 0..Len(src)
      /\ P(k).buf \in Seq(Bytes) /\ Len(P(k).buf) = Len(buf) + k
      /\ P(k).out \in Seq(Bytes) /\ Len(P(k).out) <= Len(P(k).buf)
  BY <1>0, PeekLemma
<1>8. /\ buf' = SubSeq(P(k).buf, Len(P(k).out) + 1, Len(P(k).buf))
      /\ src' = SubSeq(src, k + 1, Len(src))
  BY <1>1 DEF PeekEffect
<1> HIDE DEF P
<1>3. /\ buf' \in Seq(Bytes)
      /\ Len(buf') = Len(buf) + k - Len(P(k).out)
  <2>1. /\ SubSeq(P(k).buf, Len(P(k).out) + 1, Len(P(k).buf)) \in Seq(Bytes)
        /\ Len(SubSeq(P(k).buf, Len(P(k).out) + 1, Len(P(k).buf)))
             = Len(P(k).buf) - Len(P(k).out)
    BY <1>2, DropType, Zenon
  <2>2. Len(buf) \in Nat /\ Len(P(k).buf) \in Nat /\ Len(P(k).out) \in Nat
    BY <1>0, <1>2, LenProperties
  <2>3. buf' \in Seq(Bytes)
    BY <1>8, <2>1, Zenon
  <2>4. Len(buf') = Len(P(k).buf) - Len(P(k).out)
    BY <1>8, <2>1, Zenon
  <2>5. k \in Nat /\ Len(P(k).buf) = Len(buf) + k
    BY <1>2
  <2>6. QED
    BY <2>2, <2>3, <2>4, <2>5
<1>4. /\ src' \in Seq(Bytes) /\ Len(src') = Len(src) - k
  <2>1. src' = SubSeq(src, k + 1, Len(src))
    BY <1>8
  <2>2. k + 1 \in Int /\ k + 1 >= 1 /\ Len(src) \in Int
    BY <1>2, LenProperties
  <2>3. QED
    BY <1>0, <1>2, <2>1, <2>2, SubSeqBytes DEF SubSeqTypeFormula
<1>5. Unread' \in Seq(Bytes) /\ Len(Unread') <= Len(Unread)
  <2>1. /\ Unread' \in Seq(Bytes) /\ Len(Unread') = Len(buf') + Len(src')
        /\ Len(Unread) = Len(buf) + Len(src)
    BY <1>0, <1>3, <1>4, CatBytes DEF Unread
  <2>2. Len(P(k).out) \in Nat /\ Len(buf) \in Nat /\ Len(src) \in Nat
    BY <1>0, <1>2, LenProperties
  <2>3. k \in Nat /\ k <= Len(src)
    BY <1>2
  <2>4. Len(Unread') = Len(buf) + Len(src) - Len(P(k).out)
    BY <1>3, <1>4, <2>1, <2>2, <2>3
  <2>5. QED
    BY <2>1, <2>2, <2>4
<1>6. QED
  BY <1>5

\* readExact of the body moves the read position forward by the bytes it
\* returns, and returns at most an error.
LEMMA ReadBodyOInv == IInv /\ OInv /\ ReadBody => OInv'
<1> SUFFICES ASSUME IInv, OInv, ReadBody PROVE OInv'
  OBVIOUS
<1> DEFINE n == BodyLength(headAndSep)
           P(k) == Peek(n, k)
<1>0. pc = "body" /\ UNCHANGED <<source, start>>
  BY DEF ReadBody
<1>1. PICK k \in FillCounts(n) :
        /\ PeekEffect(P(k), k)
        /\ buf' = SubSeq(P(k).buf, Len(P(k).out) + 1, Len(P(k).buf))
        /\ IF Len(P(k).out) = n
           THEN /\ content' = content \o P(k).out
                /\ StartRead("trailer")
                /\ UNCHANGED headAndSep
           ELSE Return(ErrorResult(IF P(k).derr = "EOF" THEN "UnexpectedEOF"
                                   ELSE P(k).derr))
  BY DEF ReadBody
<1>5. Unread' \in Seq(Bytes) /\ Len(Unread') <= Len(Unread)
  BY ReadBodyUnread
<1> HIDE DEF P
<1>6. CASE Len(P(k).out) = n
  <2>1. results' = results /\ pc' = "trailer"
    BY <1>1, <1>6 DEF StartRead, P
  <2>2. QED
    BY <1>0, <1>5, <2>1, KeepOInv
<1>7. CASE Len(P(k).out) # n
  <2> DEFINE e == IF P(k).derr = "EOF" THEN "UnexpectedEOF" ELSE P(k).derr
  <2>1. Return(ErrorResult(e))
    BY <1>1, <1>7 DEF P
  <2>2. ErrorResult(e).start = start /\ ErrorResult(e).kind = "error"
    BY DEF ErrorResult, Result
  <2>3. QED
    BY <1>0, <1>5, <2>1, <2>2, ReturnOInv
<1>9. QED
  BY <1>6, <1>7

\* When Finish runs, the bytes from the call's start to the read position
\* are exactly the content, the blank line and the signature read.
LEMMA FinishPos ==
  ASSUME NEW cont \in Seq(Bytes), ret \in Seq(Bytes), Unread \in Seq(Bytes),
         Stream \in Seq(Bytes), NLNL \in Seq(Bytes), Len(NLNL) = 2,
         start \in 0..Len(Stream),
         Rest = ((cont \o NLNL) \o ret) \o Unread
  PROVE  Pos = start + Len(cont) + 2 + Len(ret)
<1>1. Len(Rest) = Len(Stream) - start
  BY SuffixFrom DEF Rest
<1>2. Len(Rest) = Len(cont) + 2 + Len(ret) + Len(Unread)
  <2>1. cont \o NLNL \in Seq(Bytes) /\ (cont \o NLNL) \o ret \in Seq(Bytes)
    BY CatBytes
  <2>2. /\ Len(cont \o NLNL) = Len(cont) + 2
        /\ Len((cont \o NLNL) \o ret) = Len(cont \o NLNL) + Len(ret)
        /\ Len(((cont \o NLNL) \o ret) \o Unread)
             = Len((cont \o NLNL) \o ret) + Len(Unread)
    <3>1. Len(cont \o NLNL) = Len(cont) + Len(NLNL)
      BY ConcatProperties, Zenon
    <3>2. Len((cont \o NLNL) \o ret) = Len(cont \o NLNL) + Len(ret)
      BY <2>1, ConcatProperties, Zenon
    <3>3. Len(((cont \o NLNL) \o ret) \o Unread)
            = Len((cont \o NLNL) \o ret) + Len(Unread)
      BY <2>1, ConcatProperties, Zenon
    <3>4. QED
      BY <3>1, <3>2, <3>3
  <2>3. QED
    BY <2>2
<1>3. /\ Len(cont) \in Nat /\ Len(ret) \in Nat
      /\ Len(Unread) \in Nat /\ Len(Stream) \in Nat
  BY LenProperties
<1>4. start \in Int
  BY <1>3
<1>5. Len(Stream) = start + Len(cont) + 2 + Len(ret) + Len(Unread)
  <2> DEFINE lr == Len(Rest)  ls == Len(Stream)  lc == Len(cont)
             lt == Len(ret)   lu == Len(Unread)
  <2>1. /\ lr = ls - start /\ lr = lc + 2 + lt + lu
        /\ ls \in Nat /\ lc \in Nat /\ lt \in Nat /\ lu \in Nat /\ start \in Int
    BY <1>1, <1>2, <1>3, <1>4
  <2> HIDE DEF lr, ls, lc, lt, lu
  <2>2. ls = start + lc + 2 + lt + lu
    BY <2>1
  <2>3. QED
    BY <2>2 DEF ls, lc, lt, lu
<1>6. QED
  BY <1>3, <1>4, <1>5 DEF Pos

\* The assertion Finish returns ends at or before the read position: its
\* content, "\n\n" and signature are no longer than what the call read.
LEMMA FinishOInv ==
  ASSUME IInv, SInv, OInv, pc # "idle", NEW cont \in Seq(Bytes),
         Rest = ((cont \o NLNL) \o ret) \o Unread,
         Finish(ret, cont),
         UNCHANGED <<source, start, src, buf, derr>>
  PROVE  OInv'
<1> DEFINE sig1 == IF HasSuffix(ret, NLNL) THEN SubSeq(ret, 1, Len(ret) - 1)
                   ELSE ret
           body == IF BodyLength(headAndSep) > 0
                   THEN SubSeq(cont, HeadLen(headAndSep) + 3, Len(cont))
                   ELSE <<>>
           err == AssembleErr(Headers(headAndSep), body, sig1)
           r == IF err = "none"
                THEN Result("assertion", "none", cont, body, sig1)
                ELSE ErrorResult(err)
<1>0. /\ ret \in Seq(Bytes) /\ Unread \in Seq(Bytes) /\ Stream \in Seq(Bytes)
      /\ NLNL \in Seq(Bytes) /\ Len(NLNL) = 2
      /\ start \in 0..Len(Stream)
  BY PosType DEF IInv, TypeOK, SInv, NLNL, Bytes
<1>1. Return(r)
  BY DEF Finish
<1>2. Len(sig1) <= Len(ret)
  <2>1. CASE HasSuffix(ret, NLNL)
    <3>1. Len(ret) >= 2 /\ Len(ret) \in Nat
      BY <1>0, <2>1, LenProperties DEF HasSuffix
    <3>2. Len(SubSeq(ret, 1, Len(ret) - 1)) = Len(ret) - 1
      BY <1>0, <3>1, SubSeqBytes DEF SubSeqTypeFormula
    <3>3. QED
      BY <2>1, <3>1, <3>2
  <2>2. CASE ~HasSuffix(ret, NLNL)
    BY <2>2
  <2>3. QED
    BY <2>1, <2>2
<1>3. Pos = start + Len(cont) + 2 + Len(ret)
  BY <1>0, FinishPos
<1>4. /\ r.start = start
      /\ r.kind = "assertion" => r.content = cont /\ r.sig = sig1
  BY DEF Result, ErrorResult
<1>5. r.kind = "assertion" => FrameEnd(r) <= Pos'
  <2>1. Pos' = Pos
    BY DEF Pos, Stream, Unread
  <2>2. Len(cont) \in Nat /\ Len(ret) \in Nat /\ Len(sig1) \in Nat
    <3>1. sig1 \in Seq(Bytes)
      <4>1. Len(ret) - 1 \in Int
        BY <1>0, LenProperties
      <4>2. QED
        BY <1>0, <4>1, SubSeqBytes DEF SubSeqTypeFormula
    <3>2. QED
      BY <1>0, <3>1, LenProperties
  <2> HIDE DEF r, sig1
  <2>3. start \in Int
    BY <1>0, LenProperties
  <2>4. SUFFICES ASSUME r.kind = "assertion" PROVE FrameEnd(r) <= Pos'
    OBVIOUS
  <2>5. FrameEnd(r) = start + Len(cont) + 2 + Len(sig1)
    BY <1>4, <2>4 DEF FrameEnd
  <2>6. QED
    BY <1>2, <1>3, <2>1, <2>2, <2>3, <2>5
<1>6. Unread' = Unread
  BY DEF Unread
<1> HIDE DEF r
<1>7. QED
  BY <1>0, <1>1, <1>4, <1>5, <1>6, ReturnOInv

\* Without a body, the bytes AfterTrailer got are the signature, and the
\* content is the header block without its "\n\n" (src 435-438).
LEMMA SigOnlyFrame ==
  ASSUME IInv, SInv, pc = "afterTrailer", ~(BodyLength(headAndSep) > 0)
  PROVE  /\ SigOnlyContent \in Seq(Bytes)
         /\ Rest = ((SigOnlyContent \o NLNL) \o ret) \o Unread
<1>1. /\ content = headAndSep /\ headAndSep \in Seq(Bytes)
      /\ HasSuffix(headAndSep, NLNL)
      /\ Rest = (content \o ret) \o Unread
  BY DEF SInv, IInv, TypeOK
<1>2. /\ SigOnlyContent = SubSeq(headAndSep, 1, Len(headAndSep) - 2)
      /\ SigOnlyContent \in Seq(Bytes)
  <2>1. Len(headAndSep) >= 2 /\ Len(headAndSep) \in Nat
    BY <1>1, LenProperties DEF HasSuffix, NLNL
  <2>2. QED
    BY <1>1, <2>1, SubSeqBytes DEF SigOnlyContent, HeadLen, SubSeqTypeFormula
<1>3. content = SigOnlyContent \o NLNL
  <2>1. Len(NLNL) = 2 /\ NLNL \in Seq(Bytes)
    BY DEF NLNL, Bytes
  <2>2. headAndSep = SubSeq(headAndSep, 1, Len(headAndSep) - Len(NLNL)) \o NLNL
    BY <1>1, <2>1, SplitSuffix
  <2>3. QED
    BY <1>1, <1>2, <2>1, <2>2
<1>4. QED
  BY <1>1, <1>2, <1>3

\* Decode on what follows the body returns an error, goes on to the
\* signature, or returns the assertion Finish assembles.
LEMMA AfterTrailerOInv == IInv /\ SInv /\ OInv /\ AfterTrailer => OInv'
<1> SUFFICES ASSUME IInv, SInv, OInv, AfterTrailer PROVE OInv'
  OBVIOUS
<1>0. /\ pc = "afterTrailer"
      /\ UNCHANGED <<source, src, buf, derr, start>>
      /\ Unread' = Unread /\ Unread \in Seq(Bytes)
  BY PosType DEF AfterTrailer, Unread
<1>1. CASE rerr \notin {"none", "EOF"}
  BY <1>0, <1>1, ErrorOInv DEF AfterTrailer
<1>2. CASE rerr \in {"none", "EOF"} /\ ret = NLNL
  <2>1. results' = results /\ pc' = "sig"
    BY <1>2 DEF AfterTrailer, StartRead
  <2>2. QED
    BY <1>0, <2>1, KeepOInv
<1>3. CASE rerr \in {"none", "EOF"} /\ ret # NLNL /\ BodyLength(headAndSep) > 0
  BY <1>0, <1>3, ErrorOInv DEF AfterTrailer
<1>4. CASE rerr \in {"none", "EOF"} /\ ret # NLNL /\ ~(BodyLength(headAndSep) > 0)
  <2>1. Finish(ret, SigOnlyContent)
    BY <1>4 DEF AfterTrailer
  <2>2. QED
    BY <1>0, <1>4, <2>1, SigOnlyFrame, FinishOInv
<1>5. QED
  BY <1>1, <1>2, <1>3, <1>4

\* Decode on the signature returns an error or the assertion Finish
\* assembles.
LEMMA AfterSigOInv == IInv /\ SInv /\ OInv /\ AfterSig => OInv'
<1> SUFFICES ASSUME IInv, SInv, OInv, AfterSig PROVE OInv'
  OBVIOUS
<1>0. /\ pc = "afterSig"
      /\ UNCHANGED <<source, src, buf, derr, start>>
      /\ content \in Seq(Bytes)
      /\ Rest = ((content \o NLNL) \o ret) \o Unread
  BY DEF AfterSig, IInv, TypeOK, SInv
<1>1. CASE rerr \notin {"none", "EOF"}
  BY <1>0, <1>1, ErrorOInv DEF AfterSig
<1>2. CASE rerr \in {"none", "EOF"}
  <2>1. Finish(ret, content)
    BY <1>2 DEF AfterSig
  <2>2. QED
    BY <1>0, <2>1, FinishOInv
<1>3. QED
  BY <1>1, <1>2

\* No assertion has been returned in an initial state.
LEMMA InitOInv == Init => OInv
<1> SUFFICES ASSUME Init PROVE OInv
  OBVIOUS
<1>1. Len(results) = 0
  BY DEF Init
<1>2. 1..Len(results) = {}
  BY <1>1
<1>3. QED
  BY <1>2 DEF OInv, DecodedInStreamOrder

\* Every step of the decoder, and every stutter, keeps OInv.
LEMMA NextOInv == IInv /\ SInv /\ OInv /\ [Next]_vars => OInv'
<1> SUFFICES ASSUME IInv, SInv, OInv, [Next]_vars PROVE OInv'
  OBVIOUS
<1>0. IInv'
  BY NextIInv
<1>1. CASE Call
  BY <1>1, CallOInv
<1>2. CASE ReadHead
  <2>1. MaxHeadersSize \in Int
    BY SizesAssumption
  <2>2. QED
    BY <1>0, <1>2, <2>1, ReadUntilOInv DEF ReadHead
<1>3. CASE AfterHead
  BY <1>3, AfterHeadOInv
<1>4. CASE ReadBody
  BY <1>4, ReadBodyOInv
<1>5. CASE ReadTrailer
  <2>1. MaxSigSize \in Int
    BY SizesAssumption
  <2>2. QED
    BY <1>0, <1>5, <2>1, ReadUntilOInv DEF ReadTrailer
<1>6. CASE AfterTrailer
  BY <1>6, AfterTrailerOInv
<1>7. CASE ReadSig
  <2>1. MaxSigSize \in Int
    BY SizesAssumption
  <2>2. QED
    BY <1>0, <1>7, <2>1, ReadUntilOInv DEF ReadSig
<1>8. CASE AfterSig
  BY <1>8, AfterSigOInv
<1>9. CASE Terminated \/ UNCHANGED vars
  <2>1. UNCHANGED vars
    BY <1>9 DEF Terminated
  <2>2. QED
    BY <2>1 DEF vars, OInv, FrameEnd, Pos, Stream, Unread,
                DecodedInStreamOrder
<1>10. QED
  BY <1>1, <1>2, <1>3, <1>4, <1>5, <1>6, <1>7, <1>8, <1>9
  DEF Next, DecodeStep

\* The read position and the frames returned are accounted for in every
\* state of every behaviour, together with IInv and SInv.
THEOREM OrderAccounting == Spec => [](IInv /\ SInv /\ OInv)
<1>1. Init => IInv /\ SInv /\ OInv
  BY InitIInv, InitSInv, InitOInv
<1>2. IInv /\ SInv /\ OInv /\ [Next]_vars => (IInv /\ SInv /\ OInv)'
  BY NextIInv, NextSInv, NextOInv
<1>3. QED
  BY <1>1, <1>2, PTL DEF Spec

\* The assertions Decode returns are disjoint segments of the stream in
\* the order of the calls, whatever the reader's chunking and the errors
\* between them: a call reads on from where the last one stopped
\* (src 378), and readUntil and readExact discard exactly the bytes
\* they return (src 344, 360, 365).
THEOREM DecodedInOrder == Spec => []DecodedInStreamOrder
<1>1. OInv => DecodedInStreamOrder
  BY DEF OInv
<1>2. QED
  BY OrderAccounting, <1>1, PTL

=====

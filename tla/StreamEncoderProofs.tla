------------------------- MODULE StreamEncoderProofs -------------------------
(***************************************************************************)
(* TLAPS proofs about StreamEncoder: the Encoder, whose append writes an   *)
(* assertion in up to three Writes that may each fail, implements the      *)
(* abstract sink StreamSink, in which every call appends its whole frame   *)
(* or a prefix of it at once.                                              *)
(***************************************************************************)
EXTENDS StreamEncoder, SequenceTheorems, TLAPS

(***************************************************************************)
(* Lemmas on sequences                                                     *)
(***************************************************************************)

\* The first k bytes of s \o t, for k within s, are the first k of s: what
\* a Write that fails inside the separator leaves of the frame.
LEMMA PrefixOfConcat ==
  ASSUME NEW S, NEW s \in Seq(S), NEW t \in Seq(S), NEW k \in 0..Len(s)
  PROVE  SubSeq(s \o t, 1, k) = SubSeq(s, 1, k)
<1>1. /\ s \o t \in Seq(S)
      /\ Len(s \o t) = Len(s) + Len(t)
  BY ConcatProperties
<1>2. /\ SubSeq(s \o t, 1, k) \in Seq(S)
      /\ Len(SubSeq(s \o t, 1, k)) = k
      /\ SubSeq(s, 1, k) \in Seq(S)
      /\ Len(SubSeq(s, 1, k)) = k
  BY <1>1, SubSeqProperties
<1>3. \A i \in 1..k : SubSeq(s \o t, 1, k)[i] = SubSeq(s, 1, k)[i]
  BY <1>1, ConcatProperties, SubSeqProperties
<1>4. QED
  BY <1>2, <1>3, SeqEqual

\* The first Len(s) + k bytes of s \o t are s and the first k bytes of t:
\* what a Write that fails after the separator leaves of the frame.
LEMMA ConcatPrefix ==
  ASSUME NEW S, NEW s \in Seq(S), NEW t \in Seq(S), NEW k \in 0..Len(t)
  PROVE  SubSeq(s \o t, 1, Len(s) + k) = s \o SubSeq(t, 1, k)
<1>1. /\ s \o t \in Seq(S)
      /\ Len(s \o t) = Len(s) + Len(t)
  BY ConcatProperties
<1>2. /\ SubSeq(t, 1, k) \in Seq(S)
      /\ Len(SubSeq(t, 1, k)) = k
      /\ \A i \in 1..k : SubSeq(t, 1, k)[i] = t[i]
  BY SubSeqProperties
<1>3. /\ s \o SubSeq(t, 1, k) \in Seq(S)
      /\ Len(s \o SubSeq(t, 1, k)) = Len(s) + k
  BY <1>2, ConcatProperties
<1>4. /\ SubSeq(s \o t, 1, Len(s) + k) \in Seq(S)
      /\ Len(SubSeq(s \o t, 1, Len(s) + k)) = Len(s) + k
  BY <1>1, SubSeqProperties
<1>5. \A i \in 1..Len(s) + k :
         SubSeq(s \o t, 1, Len(s) + k)[i] = (s \o SubSeq(t, 1, k))[i]
  BY <1>1, <1>2, ConcatProperties, SubSeqProperties
<1>6. QED
  BY <1>3, <1>4, <1>5, SeqEqual

\* Concatenating byte sequences gives a byte sequence, of the summed length.
LEMMA ConcatBytes ==
  ASSUME NEW s \in Seq(Bytes), NEW t \in Seq(Bytes)
  PROVE  /\ s \o t \in Seq(Bytes)
         /\ Len(s \o t) = Len(s) + Len(t)
BY ConcatProperties

\* Concatenation of byte sequences is associative.
LEMMA AssocBytes ==
  ASSUME NEW s \in Seq(Bytes), NEW t \in Seq(Bytes), NEW u \in Seq(Bytes)
  PROVE  (s \o t) \o u = s \o (t \o u)
BY ConcatAssociative

\* The bytes a failing Write of p leaves: a prefix of p.
LEMMA WriteFailPick ==
  ASSUME NEW p \in Seq(Bytes), WriteFail(p)
  PROVE  \E k \in 0..Len(p) : written' = written \o SubSeq(p, 1, k)
<1>1. Len(p) \in Nat
  BY LenProperties
<1>2. QED
  BY <1>1, EncoderAssumption DEF WriteFail, FailCounts

(***************************************************************************)
(* The inductive invariant                                                 *)
(***************************************************************************)

\* Encode (src 630-638) of an assertion is a sequence of bytes that is not
\* empty.
LEMMA EncodeType ==
  ASSUME NEW a \in Assertions
  PROVE  /\ Encode(a) \in Seq(Bytes)
         /\ Len(Encode(a)) >= 1
<1> DEFINE c == a.content
          g == a.sig
<1>1. c \in Seq(Bytes) /\ g \in Seq(Bytes) /\ NLNL \in Seq(Bytes) /\ Len(NLNL) = 2
  BY EncoderAssumption DEF NLNL, Bytes
<1>2. Encode(a) = (c \o NLNL) \o g
  BY DEF Encode
<1> HIDE DEF Encode, c, g, NLNL
<1>3. c \o NLNL \in Seq(Bytes) /\ Len(c \o NLNL) = Len(c) + Len(NLNL)
  BY <1>1, ConcatProperties, Zenon
<1>4. /\ (c \o NLNL) \o g \in Seq(Bytes)
      /\ Len((c \o NLNL) \o g) = Len(c \o NLNL) + Len(g)
  BY <1>1, <1>3, ConcatProperties, Zenon
<1>5. Len(c) \in Nat /\ Len(g) \in Nat
  BY <1>1, LenProperties
<1>6. QED
  BY <1>1, <1>2, <1>3, <1>4, <1>5

\* In the middle of a call, the writer holds what it held when the call
\* began and the bytes of the Writes of append that succeeded so far.
EInv ==
  /\ todo \in Seq(Assertions)
  /\ pc \in {"idle", "sep", "enc", "nl"}
  /\ nextSep \in {<<>>, <<NL>>}
  /\ written \in Seq(Bytes)
  /\ base \in Seq(Bytes)
  /\ failures \in Nat
  /\ pc # "idle" => todo # <<>> /\ cur = Encode(Head(todo))
  /\ pc = "sep" => written = base
  /\ pc = "enc" => written = base \o nextSep
  /\ pc = "nl" => written = (base \o nextSep) \o cur /\ cur[Len(cur)] # NL

\* The bytes a Write puts out are bytes.
LEMMA WriteTypes ==
  ASSUME EInv, pc # "idle"
  PROVE  /\ cur \in Seq(Bytes) /\ Len(cur) >= 1
         /\ nextSep \in Seq(Bytes)
         /\ <<NL>> \in Seq(Bytes)
         /\ Head(todo) \in Assertions
<1>1. Head(todo) \in Assertions
  BY HeadTailProperties DEF EInv
<1>2. cur = Encode(Head(todo))
  BY DEF EInv
<1>3. Encode(Head(todo)) \in Seq(Bytes) /\ Len(Encode(Head(todo))) >= 1
  BY <1>1, EncodeType
<1>4. <<NL>> \in Seq(Bytes) /\ <<>> \in Seq(Bytes)
  BY DEF Bytes
<1>5. nextSep \in Seq(Bytes)
  BY <1>4 DEF EInv
<1>6. QED
  BY <1>1, <1>2, <1>3, <1>4, <1>5

\* A call that returns an error leaves the caller with a sequence of
\* assertions to encode.
LEMMA ReturnErrTodo ==
  ASSUME EInv, pc # "idle", ReturnErr
  PROVE  todo' \in Seq(Assertions) /\ failures' \in Nat
BY HeadTailProperties, EmptySeq, EncoderAssumption DEF EInv, ReturnErr

\* A Write that fails leaves the writer with a sequence of bytes.
LEMMA WriteFailType ==
  ASSUME written \in Seq(Bytes), NEW p \in Seq(Bytes), WriteFail(p)
  PROVE  written' \in Seq(Bytes)
<1>0. Len(p) \in Nat
  BY LenProperties
<1>1. PICK k \in 0..Len(p) : written' = written \o SubSeq(p, 1, k)
  BY <1>0, EncoderAssumption DEF WriteFail, FailCounts
<1>2. SubSeq(p, 1, k) \in Seq(Bytes)
  <2>1. \A i \in 1..k : p[i] \in Bytes
    BY <1>0, ElementOfSeq
  <2>2. 1 \in Int /\ k \in Int
    BY <1>0
  <2>3. QED
    BY <2>1, <2>2, SubSeqProperties, Zenon
<1>3. QED
  BY <1>1, <1>2, ConcatProperties, Zenon

\* A call that returns an error keeps EInv, whatever the failing Write left.
LEMMA ReturnErrEInv ==
  ASSUME EInv, pc # "idle", ReturnErr, written' \in Seq(Bytes),
         UNCHANGED <<cur, base>>
  PROVE  EInv'
BY ReturnErrTodo DEF ReturnErr, EInv

\* The Encoder starts idle, with nothing written: EInv holds.
LEMMA InitEInv == EInit => EInv
BY EncoderAssumption DEF EInit, EInv

\* Every Write of append, successful or not, and every decision of the
\* caller keeps EInv.
LEMMA NextEInv == EInv /\ [ENext]_evars => EInv'
<1> SUFFICES ASSUME EInv, [ENext]_evars PROVE EInv'
  OBVIOUS
<1>1. CASE Call
  <2>1. Head(todo) \in Assertions
    BY <1>1, HeadTailProperties DEF Call, EInv
  <2>2. QED
    BY <1>1 DEF Call, EInv
<1>2. CASE WriteSep
  <2> USE WriteTypes
  <2>1. CASE WriteOK(nextSep) /\ pc' = "enc" /\ UNCHANGED <<todo, nextSep, sent, failures>>
    BY <1>2, <2>1, ConcatProperties DEF WriteSep, WriteOK, EInv
  <2>2. CASE WriteFail(nextSep) /\ ReturnErr
    BY <1>2, <2>2, WriteTypes, WriteFailType, ReturnErrEInv DEF WriteSep, EInv
  <2>3. QED
    BY <1>2, <2>1, <2>2 DEF WriteSep
<1>3. CASE WriteEnc
  <2> USE WriteTypes
  <2>1. CASE WriteOK(cur) /\ cur[Len(cur)] # NL /\ pc' = "nl"
             /\ UNCHANGED <<todo, nextSep, sent, failures>>
    BY <1>3, <2>1, ConcatProperties DEF WriteEnc, WriteOK, EInv
  <2>2. CASE WriteOK(cur) /\ cur[Len(cur)] = NL /\ ReturnOK
    BY <1>3, <2>2, ConcatProperties, HeadTailProperties
    DEF WriteEnc, WriteOK, ReturnOK, EInv
  <2>3. CASE WriteFail(cur) /\ ReturnErr
    BY <1>3, <2>3, WriteTypes, WriteFailType, ReturnErrEInv DEF WriteEnc, EInv
  <2>4. QED
    BY <1>3, <2>1, <2>2, <2>3 DEF WriteEnc
<1>4. CASE WriteNL
  <2> USE WriteTypes
  <2>1. CASE WriteOK(<<NL>>) /\ ReturnOK
    BY <1>4, <2>1, ConcatProperties, HeadTailProperties
    DEF WriteNL, WriteOK, ReturnOK, EInv
  <2>2. CASE WriteFail(<<NL>>) /\ ReturnErr
    BY <1>4, <2>2, WriteTypes, WriteFailType, ReturnErrEInv DEF WriteNL, EInv
  <2>3. QED
    BY <1>4, <2>1, <2>2 DEF WriteNL
<1>5. CASE EDone \/ UNCHANGED evars
  BY <1>5 DEF EDone, evars, EInv
<1>6. QED
  BY <1>1, <1>2, <1>3, <1>4, <1>5 DEF ENext

(***************************************************************************)
(* Refinement                                                              *)
(***************************************************************************)

\* What the abstract sink sees of the call in progress: the encoded
\* assertion, and the '\n' append writes after one that does not end in
\* '\n' (src 668).
Trailer == IF cur[Len(cur)] # NL THEN <<NL>> ELSE <<>>

\* In the middle of a call, the frame of the abstract sink is the
\* separator, the encoded assertion and its trailer; cur is one of the
\* sink's encoded assertions.
LEMMA FrameOfCall ==
  ASSUME EInv, pc # "idle"
  PROVE  /\ Sink!Frame(nextSep = <<NL>>, cur) = nextSep \o (cur \o Trailer)
         /\ Sink!Frame(nextSep = <<NL>>, cur) = (nextSep \o cur) \o Trailer
         /\ cur \in {Encode(a) : a \in Assertions}
         /\ Trailer \in Seq(Bytes)
<1>1. /\ cur \in Seq(Bytes) /\ Len(cur) >= 1 /\ nextSep \in Seq(Bytes)
      /\ <<NL>> \in Seq(Bytes) /\ Head(todo) \in Assertions
  BY WriteTypes
<1>2. (IF nextSep = <<NL>> THEN <<NL>> ELSE <<>>) = nextSep
  BY DEF EInv
<1>3. Trailer \in Seq(Bytes)
  BY <1>1, EmptySeq DEF Trailer
<1>4. Sink!Frame(nextSep = <<NL>>, cur) = (nextSep \o cur) \o Trailer
  BY <1>2 DEF Sink!Frame, Trailer
<1>5. (nextSep \o cur) \o Trailer = nextSep \o (cur \o Trailer)
  BY <1>1, <1>3, AssocBytes
<1>6. cur \in {Encode(a) : a \in Assertions}
  BY <1>1 DEF EInv
<1>7. QED
  BY <1>3, <1>4, <1>5, <1>6

\* Every step of the Encoder and its caller is a step of the sink or leaves
\* what the sink sees unchanged.
LEMMA StepRefines == EInv /\ [ENext]_evars => [Sink!SNext]_Sink!svars
<1> SUFFICES ASSUME EInv, [ENext]_evars PROVE [Sink!SNext]_Sink!svars
  OBVIOUS
<1> DEFINE F == Sink!Frame(nextSep = <<NL>>, cur)
<1>1. CASE Call
  BY <1>1 DEF Call, Sink!svars, SinkOut
<1>2. CASE WriteSep
  <2>1. CASE WriteOK(nextSep) /\ pc' = "enc" /\ UNCHANGED <<todo, nextSep, sent, failures>>
    BY <1>2, <2>1 DEF WriteSep, Sink!svars, SinkOut
  <2>2. CASE WriteFail(nextSep) /\ ReturnErr
    <3>1. /\ pc # "idle" /\ written = base
          /\ F = nextSep \o (cur \o Trailer)
          /\ cur \in {Encode(a) : a \in Assertions}
      BY <1>2, FrameOfCall DEF WriteSep, EInv
    <3>2. Trailer \in Seq(Bytes) /\ cur \in Seq(Bytes) /\ nextSep \in Seq(Bytes)
      BY <3>1, FrameOfCall, WriteTypes
    <3>3. cur \o Trailer \in Seq(Bytes) /\ Len(nextSep) \in Nat
      BY <3>2, ConcatBytes, LenProperties
    <3>4. PICK k \in 0..Len(nextSep) : written' = written \o SubSeq(nextSep, 1, k)
      BY <2>2, <3>2, WriteFailPick
    <3>5. SubSeq(nextSep \o (cur \o Trailer), 1, k) = SubSeq(nextSep, 1, k)
      BY <3>2, <3>3, PrefixOfConcat
    <3>6. k \in 0..Len(F)
      BY <3>1, <3>2, <3>3, ConcatBytes, LenProperties
    <3>7. /\ SinkOut = written /\ SinkOut' = written'
          /\ (nextSep' = <<NL>>) = (nextSep = <<NL>>)
      BY <1>2, <2>2, <3>1 DEF WriteSep, ReturnErr, SinkOut
    <3>8. Sink!Fail(cur)
      BY <3>1, <3>4, <3>5, <3>6, <3>7 DEF Sink!Fail
    <3>9. QED
      BY <3>1, <3>8 DEF Sink!SNext
  <2>3. QED
    BY <1>2, <2>1, <2>2 DEF WriteSep
<1>3. CASE WriteEnc
  <2>1. /\ pc # "idle" /\ written = base \o nextSep /\ SinkOut = base
        /\ F = nextSep \o (cur \o Trailer) /\ F = (nextSep \o cur) \o Trailer
        /\ cur \in {Encode(a) : a \in Assertions}
    BY <1>3, FrameOfCall DEF WriteEnc, EInv, SinkOut
  <2>2. /\ Trailer \in Seq(Bytes) /\ cur \in Seq(Bytes) /\ nextSep \in Seq(Bytes)
        /\ base \in Seq(Bytes)
    BY <2>1, FrameOfCall, WriteTypes DEF EInv
  <2>3. CASE WriteOK(cur) /\ cur[Len(cur)] # NL /\ pc' = "nl"
             /\ UNCHANGED <<todo, nextSep, sent, failures>>
    BY <1>3, <2>3 DEF WriteEnc, Sink!svars, SinkOut
  <2>4. CASE WriteOK(cur) /\ cur[Len(cur)] = NL /\ ReturnOK
    <3>1. Trailer = <<>>
      BY <2>4 DEF Trailer
    <3>2. F = nextSep \o cur
      BY <2>1, <2>2, <3>1, ConcatBytes, ConcatEmptySeq
    <3>3. SinkOut' = (base \o nextSep) \o cur
      BY <2>1, <2>4 DEF WriteOK, ReturnOK, SinkOut
    <3>4. (base \o nextSep) \o cur = base \o (nextSep \o cur)
      BY <2>2, AssocBytes
    <3>5. Sink!Emit(cur)
      BY <2>1, <2>4, <3>2, <3>3, <3>4 DEF Sink!Emit, ReturnOK
    <3>6. QED
      BY <2>1, <3>5 DEF Sink!SNext
  <2>5. CASE WriteFail(cur) /\ ReturnErr
    <3>1. cur \o Trailer \in Seq(Bytes) /\ Len(nextSep) \in Nat /\ Len(cur) \in Nat
      BY <2>2, ConcatBytes, LenProperties
    <3>2. PICK k \in 0..Len(cur) : written' = written \o SubSeq(cur, 1, k)
      BY <2>2, <2>5, WriteFailPick
    <3>3. SubSeq(cur \o Trailer, 1, k) = SubSeq(cur, 1, k)
      BY <2>2, PrefixOfConcat
    <3>4. k \in 0..Len(cur \o Trailer)
      BY <2>2, <3>1, ConcatBytes, LenProperties
    <3>5. SubSeq(nextSep \o (cur \o Trailer), 1, Len(nextSep) + k)
            = nextSep \o SubSeq(cur \o Trailer, 1, k)
      BY <2>2, <3>1, <3>4, ConcatPrefix
    <3>6. SubSeq(cur, 1, k) \in Seq(Bytes)
      BY <2>2, <3>1, SubSeqProperties, ElementOfSeq
    <3>7. (base \o nextSep) \o SubSeq(cur, 1, k) = base \o (nextSep \o SubSeq(cur, 1, k))
      BY <2>2, <3>6, AssocBytes
    <3>8. Len(nextSep) + k \in 0..Len(F)
      BY <2>1, <2>2, <3>1, <3>4, ConcatBytes
    <3>9. /\ SinkOut' = written'
          /\ (nextSep' = <<NL>>) = (nextSep = <<NL>>)
      BY <1>3, <2>5 DEF ReturnErr, SinkOut
    <3>10. SubSeq(F, 1, Len(nextSep) + k) = nextSep \o SubSeq(cur, 1, k)
      BY <2>1, <3>3, <3>5
    <3>11. SinkOut' = SinkOut \o SubSeq(F, 1, Len(nextSep) + k)
      BY <2>1, <3>2, <3>7, <3>9, <3>10
    <3>12. Sink!Fail(cur)
      BY <3>8, <3>9, <3>11 DEF Sink!Fail
    <3>13. QED
      BY <2>1, <3>12 DEF Sink!SNext
  <2>6. QED
    BY <1>3, <2>3, <2>4, <2>5 DEF WriteEnc
<1>4. CASE WriteNL
  <2>1. /\ pc # "idle" /\ F = (nextSep \o cur) \o Trailer
        /\ cur \in {Encode(a) : a \in Assertions}
        /\ written = (base \o nextSep) \o cur /\ cur[Len(cur)] # NL
        /\ SinkOut = base
    BY <1>4, FrameOfCall DEF WriteNL, EInv, SinkOut
  <2>2. cur \in Seq(Bytes) /\ nextSep \in Seq(Bytes) /\ base \in Seq(Bytes)
        /\ <<NL>> \in Seq(Bytes)
    BY <2>1, WriteTypes DEF EInv
  <2>3. Trailer = <<NL>>
    BY <2>1 DEF Trailer
  <2>4. /\ nextSep \o cur \in Seq(Bytes)
        /\ Len(nextSep \o cur) \in Nat
        /\ base \o nextSep \in Seq(Bytes)
    BY <2>2, ConcatBytes, LenProperties
  <2>5. ASSUME NEW t \in Seq(Bytes)
        PROVE  ((base \o nextSep) \o cur) \o t = base \o ((nextSep \o cur) \o t)
    <3>1. (base \o nextSep) \o cur = base \o (nextSep \o cur)
      BY <2>2, AssocBytes
    <3>2. (base \o (nextSep \o cur)) \o t = base \o ((nextSep \o cur) \o t)
      BY <2>2, <2>4, AssocBytes
    <3>3. QED
      BY <3>1, <3>2
  <2>6. CASE WriteOK(<<NL>>) /\ ReturnOK
    <3>1. SinkOut' = ((base \o nextSep) \o cur) \o <<NL>>
      BY <2>1, <2>6 DEF WriteOK, ReturnOK, SinkOut
    <3>2. SinkOut' = SinkOut \o F
      BY <2>1, <2>2, <2>3, <2>5, <3>1
    <3>3. Sink!Emit(cur)
      BY <2>6, <3>2 DEF Sink!Emit, ReturnOK
    <3>4. QED
      BY <2>1, <3>3 DEF Sink!SNext
  <2>7. CASE WriteFail(<<NL>>) /\ ReturnErr
    <3>1. PICK k \in 0..Len(<<NL>>) : written' = written \o SubSeq(<<NL>>, 1, k)
      BY <2>2, <2>7, WriteFailPick
    <3>2. SubSeq(<<NL>>, 1, k) \in Seq(Bytes)
      BY <2>2, SubSeqProperties, ElementOfSeq
    <3>3. SubSeq((nextSep \o cur) \o <<NL>>, 1, Len(nextSep \o cur) + k)
            = (nextSep \o cur) \o SubSeq(<<NL>>, 1, k)
      BY <2>2, <2>4, ConcatPrefix
    <3>4. Len(nextSep \o cur) + k \in 0..Len(F)
      BY <2>1, <2>2, <2>3, <2>4, ConcatBytes
    <3>5. /\ SinkOut' = written'
          /\ (nextSep' = <<NL>>) = (nextSep = <<NL>>)
      BY <1>4, <2>7 DEF ReturnErr, SinkOut
    <3>6. SinkOut' = SinkOut \o SubSeq(F, 1, Len(nextSep \o cur) + k)
      BY <2>1, <2>3, <2>5, <3>1, <3>2, <3>3, <3>5
    <3>7. Sink!Fail(cur)
      BY <3>4, <3>5, <3>6 DEF Sink!Fail
    <3>8. QED
      BY <2>1, <3>7 DEF Sink!SNext
  <2>8. QED
    BY <1>4, <2>6, <2>7 DEF WriteNL
<1>5. CASE EDone \/ UNCHANGED evars
  BY <1>5 DEF EDone, evars, Sink!svars, SinkOut
<1>6. QED
  BY <1>1, <1>2, <1>3, <1>4, <1>5 DEF ENext

\* The initial state of the Encoder is the empty sink.
LEMMA InitRefines == EInit => Sink!SInit
<1> SUFFICES ASSUME EInit PROVE Sink!SInit
  OBVIOUS
<1>1. SinkOut = <<>>
  BY DEF EInit, SinkOut
<1>2. <<>> # <<NL>>
  OBVIOUS
<1>3. QED
  BY <1>1, <1>2 DEF EInit, Sink!SInit

\* The streaming Encoder implements the sink it promises (spec 4.8):
\* SinkRefinement, for every set of assertions, every caller that retries,
\* skips or stops after an error, and every writer whose failing Writes
\* write any prefix of their buffer.  Append's three Writes and its
\* setting nextSep only after the last of them (src 658-673) are what make
\* each call one step of the sink.
THEOREM EncoderImplementsSink == ESpec => SinkRefinement
<1>1. EInit => EInv
  BY InitEInv
<1>2. EInv /\ [ENext]_evars => EInv'
  BY NextEInv
<1>3. EInit => Sink!SInit
  BY InitRefines
<1>4. EInv /\ [ENext]_evars => [Sink!SNext]_Sink!svars
  BY StepRefines
<1>5. QED
  BY <1>1, <1>2, <1>3, <1>4, PTL DEF ESpec, SinkRefinement, Sink!SinkSpec

====

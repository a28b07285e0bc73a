---------------------------- MODULE StreamDecoder ----------------------------
(***************************************************************************)
(* The streaming Decoder of src/asserts/asserts.go (lines 291-456): a      *)
(* client calls Decode repeatedly on a Decoder over an io.Reader.  The     *)
(* decoder reads through a bufio.Reader with peek, readExact and readUntil *)
(* and keeps the first read error in d.err.                                *)
(*                                                                         *)
(* One step is one iteration of readUntil's loop, or one readExact, each   *)
(* one peek on the bufio.Reader, followed by the code of Decode up to its  *)
(* next read call or its return.  The reader's data is the source: the     *)
(* bytes an Encoder wrote for a sequence of assertions, cut after `cut`    *)
(* bytes, ending in io.EOF or in another read error.  How many bytes       *)
(* bufio's fill loop gets from the reader is chosen by the reader.         *)
(***************************************************************************)
EXTENDS AssertsWire

CONSTANTS
  InitialBufSize,  \* d.initialBufSize (defaultDecoderButSize)
  MaxHeadersSize,  \* d.maxHeadersSize
  MaxBodySize,     \* d.maxBodySize
  MaxSigSize,      \* d.maxSigSize
  Sources,         \* set of [as: Seq of assertions, cut: Nat, end: {"EOF", "ERR"}]
  MaxCalls,        \* how many times the client calls Decode
  MinReadBufferSize \* bufio's minReadBufferSize (16): no smaller buffer

ASSUME SizesAssumption ==
  /\ InitialBufSize \in Nat \ {0}
  /\ MaxHeadersSize \in Nat \ {0}
  /\ MaxBodySize \in Nat \ {0}
  /\ MaxSigSize \in Nat \ {0}
  /\ MaxCalls \in Nat
  /\ MinReadBufferSize \in Nat \ {0}

\* NewDecoder (src 312-320), the only constructor, sets initialBufSize to
\* defaultDecoderButSize (4096), within the header and signature caps
\* (128 KiB): the first peek of every readUntil is within its cap.
ASSUME InitialSizeAssumption ==
  InitialBufSize <= MaxHeadersSize /\ InitialBufSize <= MaxSigSize

VARIABLES
  source,      \* the reader's data and how it ends (fixed in a behaviour)
  src,         \* bytes the reader has not handed out yet
  buf,         \* bytes buffered in d.b and not discarded
  bcap,        \* size of d.b's buffer
  derr,        \* d.err: "none", "EOF" or "ERR"
  pc,          \* where Decode is: "idle" between calls, or its current read
  last,        \* readUntil's last
  size,        \* readUntil's size
  ret,         \* what the last readUntil returned: its bytes
  rerr,        \* and its error ("none" for nil)
  headAndSep,  \* the headers and their separator, read by this call
  content,     \* contentBuf
  start,       \* stream offset at which this call began (history)
  results      \* what the calls of Decode returned, in order

vars == <<source, src, buf, bcap, derr, pc, last, size, ret, rerr, headAndSep,
          content, start, results>>

StreamOf(s) == SubSeq(EncoderStream(s.as), 1, s.cut)

\* The reader's data are bytes, and it ends in io.EOF or another error.
ASSUME SourcesAssumption ==
  \A s \in Sources : StreamOf(s) \in Seq(Bytes) /\ s.end \in {"EOF", "ERR"}

\* Bytes consumed from the stream: handed out by the reader, not buffered.
Consumed == Len(StreamOf(source)) - Len(src) - Len(buf)

Result(kind, err, c, b, s) ==
  [kind |-> kind, err |-> err, content |-> c, body |-> b, sig |-> s,
   start |-> start]

ErrorResult(err) == Result("error", err, <<>>, <<>>, <<>>)

(***************************************************************************)
(* What the headers just read say: the header block, its parse and the    *)
(* declared body length (src 391-397).                                     *)
(***************************************************************************)
HeadLen(h) == Len(h) - 2

Headers(h) == ParseHeaders(SubSeq(h, 1, HeadLen(h)))

BodyLength(h) == IntOf(Headers(h), "body-length")

(***************************************************************************)
(* peek (src 322-337).  When size exceeds the buffer, the buffered bytes   *)
(* move to a new bufio.Reader of (size/initialBufSize+1)*initialBufSize    *)
(* bytes (at least minReadBufferSize) over the same reader.  bufio's fill loop reads until it holds     *)
(* size bytes, the buffer is full or the reader reports its end; a read    *)
(* may return more than was asked for, up to the free space.               *)
(***************************************************************************)
\* bufio.NewReaderSize: a buffer of at least minReadBufferSize bytes.
BufSize(n) == MaxOf(n, MinReadBufferSize)

PeekCap(n) ==
  IF n > bcap THEN BufSize((n \div InitialBufSize + 1) * InitialBufSize)
  ELSE bcap

FillCounts(n) ==
  IF Len(buf) >= n THEN {0}
  ELSE {k \in 0..Len(src) : /\ Len(buf) + k <= PeekCap(n)
                            /\ Len(buf) + k >= n \/ k = Len(src)}

\* Mutant: bufio's ErrBufferFull kept as the decoder's error, no regrowth.
PeekNoRegrowth(n, k) ==
  LET nb == buf \o SubSeq(src, 1, k)
      e  == IF n > bcap THEN "BufferFull"
            ELSE IF Len(nb) < n THEN source.end ELSE "none"
  IN  [cap |-> bcap, buf |-> nb, out |-> SubSeq(nb, 1, MinOf(n, Len(nb))),
       derr |-> IF derr = "none" THEN e ELSE derr]

\* peek(n) once k bytes came from the reader: new buffer size, buffered
\* bytes, the bytes returned and d.err (the first error is kept).
Peek(n, k) ==
  LET nb == buf \o SubSeq(src, 1, k)
      e  == IF Len(nb) < n THEN source.end ELSE "none"
  IN  [cap  |-> PeekCap(n),
       buf  |-> nb,
       out  |-> SubSeq(nb, 1, MinOf(n, Len(nb))),
       derr |-> IF derr = "none" THEN e ELSE derr]

\* The effect of a peek on the reader and on d.b's size and d.err.
PeekEffect(p, k) ==
  /\ src' = SubSeq(src, k + 1, Len(src))
  /\ bcap' = p.cap
  /\ derr' = p.derr

(***************************************************************************)
(* One iteration of readUntil(nlnl, maxSize) (src 354-374) on the result  *)
(* of its peek.  done: readUntil returns ret and err, leaving rest in d.b; *)
(* otherwise the loop goes on with the new last and size.                  *)
(***************************************************************************)
DelimAt(b, from) ==
  {i \in from..Len(b) - 1 : b[i] = NL /\ b[i + 1] = NL}

\* Mutant: the error reported with bytes still buffered.
ErrReportedEarly(p) == p.derr # "none"

\* "report errors only once we have consumed what is buffered" (src 363-364)
ErrReported(p) == p.derr # "none" /\ Len(p.out) = Len(p.buf)

\* Mutant: the size not doubled.
NextSizeStuck(s) == s

\* size *= 2 (src 369)
NextSize(s) == 2 * s

\* Mutant: no cap on the size.
OverMaxNever(s, maxSize) == FALSE

\* if size > maxSize, on the doubled size (src 370)
OverMax(s, maxSize) == NextSize(s) > maxSize

\* Mutant: d.b.Discard(last + i), the delimiter left in the buffer.
ReadUntilIterKeepDelim(p, maxSize) ==
  LET D == DelimAt(p.out, last + 1)
      i == CHOOSE j \in D : \A m \in D : j <= m
  IN  IF D # {}
      THEN [done |-> TRUE, ret |-> SubSeq(p.out, 1, i + 1), err |-> "none",
            rest |-> SubSeq(p.buf, i, Len(p.buf))]
      ELSE IF ErrReported(p)
      THEN [done |-> TRUE, ret |-> p.out, err |-> p.derr, rest |-> <<>>]
      ELSE IF OverMax(size, maxSize)
      THEN [done |-> TRUE, ret |-> <<>>, err |-> "MaxSize", rest |-> p.buf]
      ELSE [done |-> FALSE, last |-> size - 1, size |-> NextSize(size),
            rest |-> p.buf]

ReadUntilIter(p, maxSize) ==
  LET D == DelimAt(p.out, last + 1)
      i == CHOOSE j \in D : \A m \in D : j <= m
  IN  IF D # {}
      THEN [done |-> TRUE, ret |-> SubSeq(p.out, 1, i + 1), err |-> "none",
            rest |-> SubSeq(p.buf, i + 2, Len(p.buf))]
      ELSE IF ErrReported(p)
      THEN [done |-> TRUE, ret |-> p.out, err |-> p.derr, rest |-> <<>>]
      ELSE IF OverMax(size, maxSize)
      THEN [done |-> TRUE, ret |-> <<>>, err |-> "MaxSize", rest |-> p.buf]
      ELSE [done |-> FALSE, last |-> size - 1, size |-> NextSize(size),
            rest |-> p.buf]

(***************************************************************************)
(* Control of Decode.  Return ends the call with a result; StartRead      *)
(* begins the readUntil or readExact named by the new pc.                  *)
(***************************************************************************)
Return(r) ==
  /\ results' = Append(results, r)
  /\ pc' = "idle"
  /\ UNCHANGED <<last, size, headAndSep, content>>

StartRead(phase) ==
  /\ pc' = phase
  /\ last' = 0
  /\ size' = InitialBufSize
  /\ UNCHANGED results

\* The rest of Decode once the signature is read (src 441-455).
Finish(sig, cont) ==
  LET sig1 == IF HasSuffix(sig, NLNL) THEN SubSeq(sig, 1, Len(sig) - 1)
              ELSE sig
      body == IF BodyLength(headAndSep) > 0
              THEN SubSeq(cont, HeadLen(headAndSep) + 3, Len(cont))
              ELSE <<>>
      err  == AssembleErr(Headers(headAndSep), body, sig1)
  IN  Return(IF err = "none" THEN Result("assertion", "none", cont, body, sig1)
             ELSE ErrorResult(err))

(***************************************************************************)
(* Actions.  A readUntil runs in the phase "head", "trailer" or "sig", one *)
(* loop iteration per step; when it returns, pc names the code of Decode   *)
(* that runs on its result.                                                *)
(***************************************************************************)
AfterRead == [head |-> "afterHead", trailer |-> "afterTrailer",
              sig |-> "afterSig"]

\* The last call of Decode returned io.EOF.
GotEOF == results # <<>> /\ results[Len(results)].kind = "eof"

\* The client calls Decode, until it gets io.EOF.
Call ==
  /\ pc = "idle"
  /\ Len(results) < MaxCalls
  /\ ~GotEOF
  /\ start' = Consumed
  /\ StartRead("head")
  /\ UNCHANGED <<source, src, buf, bcap, derr, ret, rerr, headAndSep, content>>

\* One iteration of readUntil(nlnl, maxSize) (src 354-374), its peek
\* (src 322-337) included.
ReadUntil(phase, maxSize) ==
  /\ pc = phase
  /\ \E k \in FillCounts(size) :
       LET p == Peek(size, k)
           r == ReadUntilIter(p, maxSize)
       IN  /\ PeekEffect(p, k)
           /\ buf' = r.rest
           /\ IF r.done
              THEN /\ pc' = AfterRead[phase]
                   /\ ret' = r.ret
                   /\ rerr' = r.err
                   /\ UNCHANGED <<last, size>>
              ELSE /\ last' = r.last
                   /\ size' = r.size
                   /\ UNCHANGED <<pc, ret, rerr>>
  /\ UNCHANGED <<source, start, headAndSep, content, results>>

\* readUntil(nlnl, d.maxHeadersSize) for the headers (src 380)
ReadHead == ReadUntil("head", MaxHeadersSize)

\* Mutant: io.EOF whatever was read.
HeadEOFResultAlwaysEOF(h) == Result("eof", "none", <<>>, <<>>, <<>>)

\* readUntil of the headers ended in io.EOF (src 382-387)
HeadEOFResult(h) ==
  IF Len(h) # 0 THEN ErrorResult("UnexpectedEOF")
  ELSE Result("eof", "none", <<>>, <<>>, <<>>)

\* Mutant: no body cap.
BodyTooLargeNever(h) == FALSE

\* length > d.maxBodySize (src 401)
BodyTooLarge(h) == BodyLength(h) > MaxBodySize

\* Decode on the headers and their separator (src 381-417 up to the body
\* read).
AfterHead ==
  LET h == ret IN
  /\ pc = "afterHead"
  /\ IF rerr # "none"
     THEN IF rerr = "EOF"
          THEN Return(HeadEOFResult(h))
          ELSE Return(ErrorResult(rerr))
     ELSE IF ~ParseOK(SubSeq(h, 1, HeadLen(h)))
     THEN Return(ErrorResult("BadHeaders"))
     ELSE IF ~IntOK(Headers(h), "body-length")
     THEN Return(ErrorResult("BadInteger"))
     ELSE IF BodyTooLarge(h)
     THEN Return(ErrorResult("BodyTooLarge"))
     ELSE IF WireLen(h) + BodyLength(h) < 0
     THEN \* make([]byte, 0, len(headAndSep)+length) panics
          /\ pc' = "panic"
          /\ UNCHANGED <<last, size, headAndSep, content, results>>
     ELSE /\ headAndSep' = h
          /\ content' = h
          /\ StartRead(IF BodyLength(h) > 0 THEN "body" ELSE "trailer")
  /\ UNCHANGED <<source, src, buf, bcap, derr, ret, rerr, start>>

\* readExact(length) for the body (src 342-352, 410-417)
ReadBody ==
  LET n == BodyLength(headAndSep) IN
  /\ pc = "body"
  /\ \E k \in FillCounts(n) :
       LET p == Peek(n, k) IN
       /\ PeekEffect(p, k)
       /\ buf' = SubSeq(p.buf, Len(p.out) + 1, Len(p.buf))
       /\ IF Len(p.out) = n
          THEN /\ content' = content \o p.out
               /\ StartRead("trailer")
               /\ UNCHANGED headAndSep
          ELSE Return(ErrorResult(IF p.derr = "EOF" THEN "UnexpectedEOF"
                                  ELSE p.derr))
  /\ UNCHANGED <<source, start, ret, rerr>>

\* readUntil(nlnl, d.maxSigSize) for the content/signature separator
ReadTrailer == ReadUntil("trailer", MaxSigSize)

\* Mutant: contentBuf not truncated.
SigOnlyContentUntruncated == content

\* contentBuf.Truncate(headLen) (src 438): the content without separator
SigOnlyContent == SubSeq(content, 1, HeadLen(headAndSep))

\* Decode on what follows the body (src 419-439 but the signature read)
AfterTrailer ==
  /\ pc = "afterTrailer"
  /\ IF rerr \notin {"none", "EOF"} THEN Return(ErrorResult(rerr))
     ELSE IF ret = NLNL
     THEN StartRead("sig") /\ UNCHANGED <<headAndSep, content>>
     ELSE IF BodyLength(headAndSep) > 0
     THEN Return(ErrorResult("MissingSeparator"))
     ELSE Finish(ret, SigOnlyContent)
  /\ UNCHANGED <<source, src, buf, bcap, derr, ret, rerr, start>>

\* readUntil(nlnl, d.maxSigSize) for the signature (src 426)
ReadSig == ReadUntil("sig", MaxSigSize)

\* Decode on the signature (src 427-455)
AfterSig ==
  /\ pc = "afterSig"
  /\ IF rerr \notin {"none", "EOF"} THEN Return(ErrorResult(rerr))
     ELSE Finish(ret, content)
  /\ UNCHANGED <<source, src, buf, bcap, derr, ret, rerr, start>>

\* The client is done: it got io.EOF or made its calls, or Decode panicked.
Terminated ==
  /\ \/ pc = "idle" /\ Len(results) = MaxCalls
     \/ pc = "idle" /\ GotEOF
     \/ pc = "panic"
  /\ UNCHANGED vars

Init ==
  /\ source \in Sources
  /\ src = StreamOf(source)
  /\ buf = <<>>
  /\ bcap = BufSize(InitialBufSize)
  /\ derr = "none"
  /\ pc = "idle"
  /\ last = 0
  /\ size = InitialBufSize
  /\ ret = <<>>
  /\ rerr = "none"
  /\ headAndSep = <<>>
  /\ content = <<>>
  /\ start = 0
  /\ results = <<>>

DecodeStep == \/ ReadHead \/ AfterHead \/ ReadBody \/ ReadTrailer
              \/ AfterTrailer \/ ReadSig \/ AfterSig

Next == Call \/ DecodeStep \/ Terminated

\* Decode runs to its return once called: the reader's data is all there.
Spec == Init /\ [][Next]_vars /\ WF_vars(DecodeStep)

(***************************************************************************)
(* Properties                                                              *)
(***************************************************************************)
Phases == {"idle", "head", "afterHead", "body", "trailer", "afterTrailer",
           "sig", "afterSig", "panic"}

ResultKinds == {"assertion", "error", "eof"}

\* The errors a call of Decode returns, by kind: the reader's, readUntil's,
\* Decode's own and Assemble's; "none" for a nil error.
ErrorKinds ==
  {"none", "EOF", "ERR", "MaxSize", "UnexpectedEOF", "BadHeaders",
   "BadInteger", "BodyTooLarge", "MissingSeparator", "BodyLengthMismatch",
   "MissingHeader", "UnknownType", "BadPrimaryKey", "BadRevision",
   "EmptySignature"}

ResultType == [kind : ResultKinds, err : ErrorKinds, content : Seq(Bytes),
               body : Seq(Bytes), sig : Seq(Bytes), start : Nat]

\* Type invariant.  d.err only ever holds an error of the reader: peek
\* grows the buffer instead of keeping bufio.ErrBufferFull (src 324-332).
TypeOK ==
  /\ src \in Seq(Bytes)
  /\ buf \in Seq(Bytes)
  /\ bcap \in Nat \ {0}
  /\ derr \in {"none", "EOF", "ERR"}
  /\ pc \in Phases
  /\ last \in Nat
  /\ size \in Nat \ {0}
  /\ ret \in Seq(Bytes)
  /\ rerr \in {"none", "EOF", "ERR", "MaxSize"}
  /\ headAndSep \in Seq(Bytes)
  /\ content \in Seq(Bytes)
  /\ start \in Nat
  /\ results \in Seq(ResultType)

Project(r) ==
  [kind |-> r.kind, err |-> r.err, content |-> r.content, body |-> r.body,
   sig |-> r.sig]

\* The signature a decoder returns for an encoded one: Encoder.append
\* ends it with '\n', and Decode keeps one '\n' of the "\n\n" after it.
DecodedSig(sig) == IF sig # <<>> /\ sig[Len(sig)] = NL THEN sig ELSE sig \o <<NL>>

\* What the i-th call of Decode should return on the whole stream of the
\* assertions as: each of them, then io.EOF; when the reader ends in
\* another error, that error already for the last assertion, whose
\* signature the reader's end delimits.
ExpectedResult(as, end, i) ==
  LET good == IF end = "EOF" THEN Len(as) ELSE Len(as) - 1 IN
  IF i <= good
  THEN [kind |-> "assertion", err |-> "none", content |-> as[i].content,
        body |-> as[i].body, sig |-> DecodedSig(as[i].sig)]
  ELSE IF end = "EOF"
  THEN [kind |-> "eof", err |-> "none", content |-> <<>>, body |-> <<>>,
        sig |-> <<>>]
  ELSE [kind |-> "error", err |-> end, content |-> <<>>, body |-> <<>>,
        sig |-> <<>>]

Untruncated == source.cut = Len(EncoderStream(source.as))

\* Round trip of the stream codec: on the untruncated bytes the Encoder
\* wrote, the successive calls of Decoder.Decode return the encoded
\* assertions, in order and byte for byte, then io.EOF, whatever sizes
\* the reader's reads have.
RoundTrip ==
  Untruncated =>
    \A i \in 1..Len(results) :
      Project(results[i]) = ExpectedResult(source.as, source.end, i)

\* Peak memory: the decoder's buffer never grows past the largest
\* component cap, rounded up as peek rounds (src 330, 370, 401).
MaxCap == MaxOf(MaxHeadersSize, MaxOf(MaxBodySize, MaxSigSize))

CapBound == BufSize((MaxCap \div InitialBufSize + 1) * InitialBufSize)

BufferBounded == bcap <= CapBound /\ Len(buf) <= bcap

\* Every assertion Decode returns is the bytes content, "\n\n", signature
\* found in the stream where the call began: the decoder assembles its
\* content from the bytes it read, in order, across buffer regrowth.
DecodedIsStreamSegment ==
  \A i \in 1..Len(results) :
    results[i].kind = "assertion" =>
      IsPrefixOf(results[i].content \o NLNL \o results[i].sig,
                 SubSeq(StreamOf(source), results[i].start + 1,
                        Len(StreamOf(source))))

\* No decoded assertion has a component over its cap: headers (with the
\* separator) over d.maxHeadersSize, body over d.maxBodySize, signature
\* over d.maxSigSize.
CapsRespected ==
  \A i \in 1..Len(results) :
    LET r == results[i] IN
    r.kind = "assertion" =>
      /\ Len(r.content) - (IF r.body # <<>> THEN Len(r.body) + 2 ELSE 0)
           <= MaxHeadersSize
      /\ Len(r.body) <= MaxBodySize
      /\ Len(r.sig) <= MaxSigSize

\* Decode reports io.EOF only at the end of the reader's data: a stream
\* that ends inside an assertion gives io.ErrUnexpectedEOF, not a clean end
\* (spec 4.5 step 1, scenario 6; src 382-387).
CleanEOFAtBoundary ==
  \A i \in 1..Len(results) :
    results[i].kind = "eof" => results[i].start = Len(StreamOf(source))

\* Decode hands out each byte of the stream at most once: a call begins at
\* or after the end of every assertion an earlier call returned, so the
\* assertions are disjoint segments of the stream, in the order of the
\* calls.  It rests on readUntil and readExact discarding exactly the
\* bytes they return (src 344, 360, 365) and on nothing else moving the reader.
DecodedInStreamOrder ==
  \A i, j \in 1..Len(results) :
    i < j /\ results[i].kind = "assertion" =>
      results[j].start >=
        results[i].start + Len(results[i].content) + 2 + Len(results[i].sig)

\* Once Decode has reported an error, every later call reports the same
\* error (spec 7: "subsequent calls return the same error").
ErrorsSticky ==
  \A i, j \in 1..Len(results) :
    i < j /\ results[i].kind = "error" =>
      Project(results[j]) = Project(results[i])

\* Decode never panics (src 407: make with a negative capacity).
NoPanic == pc # "panic"

\* On a prefix of what the Encoder wrote, every assertion Decode returns is
\* one the Encoder wrote: a stream ending inside an assertion is not taken
\* for a complete one (spec 7, "unexpected end of stream").
NoTruncatedAssertion ==
  \A i \in 1..Len(results) :
    results[i].kind = "assertion" =>
      \E j \in 1..Len(source.as) :
        Project(results[i]) = ExpectedResult(source.as, "EOF", j)

\* Every call of Decode returns.
DecodeTerminates == (pc \in Phases \ {"idle", "panic"}) ~> (pc \in {"idle", "panic"})

=============================================================================

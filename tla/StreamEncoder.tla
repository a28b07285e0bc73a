---------------------------- MODULE StreamEncoder ----------------------------
(***************************************************************************)
(* The streaming Encoder (src 640-684) and its caller, against a writer    *)
(* whose Write may fail.  Encoder.Encode encodes the assertion (Encode,    *)
(* src 630-638) and append writes it in up to three Writes: the separator  *)
(* enc.nextSep, the encoded assertion, and a '\n' when the assertion does  *)
(* not end in one; only a call whose writes all succeed sets nextSep.      *)
(*                                                                         *)
(* A failing Write writes a prefix of its buffer and returns an error, as  *)
(* io.Writer allows (n < len(p) requires an error; an error may come with  *)
(* n = len(p)).  AtomicWriter restricts failures to writes of nothing.     *)
(* After an error the caller, as OnError allows, encodes the same          *)
(* assertion again, goes on with the next one, or stops.                   *)
(*                                                                         *)
(* append's check for an empty encoded assertion (src 653-656) never fires *)
(* here: Encode always writes the "\n\n" between content and signature.    *)
(***************************************************************************)
EXTENDS AssertsWire

CONSTANTS
  Assertions,    \* the assertions a caller may encode
  Batches,       \* the sequences of assertions a caller encodes, in order
  AtomicWriter,  \* TRUE: a failing Write writes nothing
  OnError,       \* what the caller does after an error: "retry", "skip", "stop"
  MaxFailures    \* bound on the failed calls of a behaviour

ASSUME EncoderAssumption ==
  /\ Assertions \subseteq [content : Seq(Bytes), sig : Seq(Bytes)]
  /\ Batches \subseteq Seq(Assertions)
  /\ AtomicWriter \in BOOLEAN
  /\ OnError \subseteq {"retry", "skip", "stop"}
  /\ MaxFailures \in Nat

VARIABLES
  todo,     \* the assertions the caller still has to encode
  cur,      \* append's encoded, during a call
  pc,       \* "idle", or the Write append is at: "sep", "enc", "nl"
  nextSep,  \* enc.nextSep: <<>> (nil) or <<NL>>
  written,  \* the bytes the writer holds
  sent,     \* history: the assertions whose Encode returned nil
  base,     \* history: the bytes the writer held when the call began
  failures  \* history: the calls that returned an error

evars == <<todo, cur, pc, nextSep, written, sent, base, failures>>

EInit ==
  /\ todo \in Batches
  /\ cur = <<>>
  /\ pc = "idle"
  /\ nextSep = <<>>
  /\ written = <<>>
  /\ sent = <<>>
  /\ base = <<>>
  /\ failures = 0

\* How many bytes of p a failing Write writes.
FailCounts(p) == IF AtomicWriter THEN {0} ELSE 0..Len(p)

\* wr.Write(p) returns a nil error, having written all of p.
WriteOK(p) == written' = written \o p

\* wr.Write(p) returns an error, having written a prefix of p.
WriteFail(p) == \E k \in FailCounts(p) : written' = written \o SubSeq(p, 1, k)

\* append returns nil (src 674-676): the separator is '\n' from now on,
\* and the caller goes on with its next assertion.
ReturnOK ==
  /\ nextSep' = <<NL>>
  /\ sent' = Append(sent, Head(todo))
  /\ todo' = Tail(todo)
  /\ pc' = "idle"
  /\ UNCHANGED failures

\* append returns the Write's error (src 660, 665, 671), nextSep as it
\* was; the caller retries the assertion, skips it or stops.
ReturnErr ==
  /\ failures < MaxFailures
  /\ failures' = failures + 1
  /\ \E c \in OnError :
       todo' = CASE c = "retry" -> todo
                 [] c = "skip"  -> Tail(todo)
                 [] c = "stop"  -> <<>>
  /\ pc' = "idle"
  /\ UNCHANGED <<nextSep, sent>>

\* Encoder.Encode (src 681-684): encoded := Encode(assert), then append.
Call ==
  /\ pc = "idle"
  /\ todo # <<>>
  /\ cur' = Encode(Head(todo))
  /\ base' = written
  /\ pc' = "sep"
  /\ UNCHANGED <<todo, nextSep, written, sent, failures>>

\* wr.Write(enc.nextSep) (src 658-661)
WriteSep ==
  /\ pc = "sep"
  /\ \/ /\ WriteOK(nextSep)
        /\ pc' = "enc"
        /\ UNCHANGED <<todo, nextSep, sent, failures>>
     \/ /\ WriteFail(nextSep)
        /\ ReturnErr
  /\ UNCHANGED <<cur, base>>

\* The Encoder with nextSep set as soon as the assertion is written, before
\* its trailing '\n'.
WriteEncSepFirst ==
  /\ pc = "enc"
  /\ \/ /\ WriteOK(cur)
        /\ cur[Len(cur)] # NL
        /\ pc' = "nl"
        /\ nextSep' = <<NL>>
        /\ UNCHANGED <<todo, sent, failures>>
     \/ /\ WriteOK(cur)
        /\ cur[Len(cur)] = NL
        /\ ReturnOK
     \/ /\ WriteFail(cur)
        /\ ReturnErr
  /\ UNCHANGED <<cur, base>>

\* wr.Write(encoded) (src 663-666), then the check of its last byte (668).
WriteEnc ==
  /\ pc = "enc"
  /\ \/ /\ WriteOK(cur)
        /\ cur[Len(cur)] # NL
        /\ pc' = "nl"
        /\ UNCHANGED <<todo, nextSep, sent, failures>>
     \/ /\ WriteOK(cur)
        /\ cur[Len(cur)] = NL
        /\ ReturnOK
     \/ /\ WriteFail(cur)
        /\ ReturnErr
  /\ UNCHANGED <<cur, base>>

\* wr.Write(nl) (src 669-673)
WriteNL ==
  /\ pc = "nl"
  /\ \/ /\ WriteOK(<<NL>>)
        /\ ReturnOK
     \/ /\ WriteFail(<<NL>>)
        /\ ReturnErr
  /\ UNCHANGED <<cur, base>>

\* The caller has encoded every assertion, or stopped.
EDone ==
  /\ pc = "idle"
  /\ todo = <<>>
  /\ UNCHANGED evars

ENext == Call \/ WriteSep \/ WriteEnc \/ WriteNL \/ EDone

ESpec == EInit /\ [][ENext]_evars

(***************************************************************************)
(* Properties                                                              *)
(***************************************************************************)

\* The stream the writer holds, as the abstract sink sees it: the bytes of
\* the calls that returned, and nothing of the call in progress.
SinkOut == IF pc = "idle" THEN written ELSE base

Sink == INSTANCE StreamSink
          WITH out <- SinkOut,
               started <- (nextSep = <<NL>>),
               Encoded <- {Encode(a) : a \in Assertions}

\* The Encoder implements the sink (spec 4.8): every Encode call appends
\* to the stream its whole frame when it returns nil, and a prefix of it
\* when a Write fails; a separator goes before an assertion exactly when an
\* earlier call returned nil.  nextSep is set only after the last Write of
\* append (src 674).
SinkRefinement == Sink!SinkSpec

\* Splitting a stream into the assertions the Encoder accepted and joining
\* them with '\n' gives the bytes the writer holds (spec 4.8, 8): after any
\* sequence of calls, also ones that failed and were retried or skipped,
\* the writer holds EncoderStream of the assertions Encode returned nil for.
StreamOfSent == pc = "idle" => written = EncoderStream(sent)

====

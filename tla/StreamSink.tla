----------------------------- MODULE StreamSink -----------------------------
(***************************************************************************)
(* What the streaming Encoder (src 640-684) promises its writer, as an     *)
(* abstract specification.  Each Encode call either appends the whole      *)
(* frame of its assertion to the stream (a '\n' before every assertion but *)
(* the first that went out, the encoded assertion, and a '\n' after one    *)
(* that does not end in '\n'), or fails having appended a prefix of that   *)
(* frame.  Only a call that succeeds makes later frames start with a       *)
(* separator.  StreamEncoder implements this specification.                *)
(***************************************************************************)
EXTENDS Integers, Sequences

CONSTANTS
  NL,       \* the byte '\n'
  Encoded   \* the encoded assertions a caller may hand to the Encoder

VARIABLES
  out,      \* the bytes the writer holds
  started   \* TRUE once an assertion went out completely

svars == <<out, started>>

\* The bytes the call for e writes when every write succeeds.
Frame(st, e) ==
  (IF st THEN <<NL>> ELSE <<>>) \o e \o (IF e[Len(e)] # NL THEN <<NL>> ELSE <<>>)

SInit ==
  /\ out = <<>>
  /\ started = FALSE

\* A call that returns nil.
Emit(e) ==
  /\ out' = out \o Frame(started, e)
  /\ started' = TRUE

\* A call that returns a write error, after the first k bytes of its frame.
Fail(e) ==
  /\ \E k \in 0..Len(Frame(started, e)) :
        out' = out \o SubSeq(Frame(started, e), 1, k)
  /\ UNCHANGED started

SNext == \E e \in Encoded : Emit(e) \/ Fail(e)

SinkSpec == SInit /\ [][SNext]_svars

====

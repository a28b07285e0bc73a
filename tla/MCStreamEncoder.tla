---------------------------- MODULE MCStreamEncoder ----------------------------
(***************************************************************************)
(* Small instances of StreamEncoder: assertions whose signature ends in    *)
(* '\n' (as assembleAndSign makes them) or not (as a decoder may return    *)
(* them after a stream cut inside the signature), two or three per batch.  *)
(***************************************************************************)
EXTENDS StreamEncoder

Content == <<HeaderLine("type", "account")>>

EncAssertions ==
  { [content |-> Content, sig |-> <<SigByte, NL>>],
    [content |-> Content, sig |-> <<SigByte>>] }

EncBatches ==
  UNION {[1..k -> EncAssertions] : k \in 2..3}
====

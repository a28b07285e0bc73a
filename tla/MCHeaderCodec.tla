---------------------------- MODULE MCHeaderCodec ----------------------------
(***************************************************************************)
(* Small instances of HeaderCodec.  Letters are two lower-case letters,   *)
(* LA and LB; values are every string of up to 3 bytes over a letter,      *)
(* '\n', ' ' and ':', so that single-line, multi-line, empty, blank and    *)
(* colon-holding values, and values ending in '\n', all occur.             *)
(***************************************************************************)
EXTENDS HeaderCodec

CONSTANTS LA, LB

Values == UNION {[1..k -> {LA, NL, SP, COLON}] : k \in 0..3}

\* "type", and two other names headerNameSanity accepts
TypeName == <<LA, LA>>
SaneNames == {<<LA, LB>>, <<LB, DASH, LA>>}

Block(n1, v1, n2, v2) == << <<TypeName, <<LB>> >>, <<n1, v1>>, <<n2, v2>> >>

SaneInputs ==
  {Block(<<LA, LB>>, v1, <<LB, DASH, LA>>, v2) : v1, v2 \in Values}

\* names assembleAndSign writes but headerNameSanity refuses: one letter,
\* a trailing '-', a byte outside [a-z0-9-]
InsaneInputs ==
  {Block(n, <<LA>>, <<LA, LB>>, <<LB>>) :
     n \in {<<LB>>, <<LB, DASH>>, <<LB, UPPER>>}}
====

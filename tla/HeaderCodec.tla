----------------------------- MODULE HeaderCodec -----------------------------
(***************************************************************************)
(* Header entries at the level of their characters.  assembleAndSign      *)
(* writes the header block of an assertion with writeHeader (src 520-532,  *)
(* 559-592); every decoder reads it back with parseHeaders (src 160-215).  *)
(* AssertsWire abstracts each entry to one HeaderLine token; this module   *)
(* spells the entries out, multi-line values included, to show what that   *)
(* abstraction rests on and where it fails.                                *)
(*                                                                         *)
(* Characters are model values: NL ('\n', from AssertsWire), SP (' '),     *)
(* COLON (':'), DASH ('-'), the lower-case letters of Letters and UPPER,   *)
(* a byte the header name regex refuses ('A', '_', ...).  All of them are  *)
(* ASCII, so parseHeaders' utf8.Valid check (src 161-163) always passes.   *)
(***************************************************************************)
EXTENDS AssertsWire, SequencesExt, TLC

CONSTANTS
  SP,       \* ' '
  COLON,    \* ':'
  DASH,     \* '-'
  UPPER,    \* a byte outside [a-z0-9-]
  Letters,  \* lower-case letters
  Inputs    \* header blocks to write: sequences of <<name, value>> pairs

(***************************************************************************)
(* The writer                                                              *)
(***************************************************************************)

\* A writer that puts a multi-line value's lines out as they are.
QuoteUnescaped(v) == v

\* strings.Replace(value, "\n", "\n ", -1) (src 527)
Quote(v) == FlattenSeq([i \in 1..Len(v) |-> IF v[i] = NL THEN <<NL, SP>> ELSE <<v[i]>>])

\* writeHeader (src 520-532): a multi-line value goes on 1-space indented
\* lines after "name:".
WriteHeaderC(name, value) ==
  <<NL>> \o name \o
    (IF Contains(value, NL) THEN <<COLON, NL, SP>> \o Quote(value)
     ELSE <<COLON, SP>> \o value)

\* The header block assembleAndSign writes (src 559-592): the first entry,
\* "type: " and the type's name, without a leading '\n', then writeHeader
\* for each other entry in order.
HeadBytes(es) ==
  es[1][1] \o <<COLON, SP>> \o es[1][2]
  \o FlattenSeq([i \in 1..Len(es) - 1 |->
                   WriteHeaderC(es[i + 1][1], es[i + 1][2])])

(***************************************************************************)
(* The parser                                                              *)
(***************************************************************************)

\* headerNameSanity (src 157): ^[a-z][a-z0-9-]*[a-z0-9]$
NameSane(n) ==
  /\ Len(n) >= 2
  /\ n[1] \in Letters /\ n[Len(n)] \in Letters
  /\ \A i \in 1..Len(n) : n[i] \in Letters \cup {DASH}

\* strings.Index(entry, ":") (src 169), 1-based; 0 when there is none
FirstColon(entry) == SelectInSeq(entry, LAMBDA ch : ch = COLON)

\* The end of the continuation lines from line i on (src 182-190): the
\* first line that is empty or does not start with ' ', or past the end.
ContEnd(L, i) ==
  LET J == {j \in i..Len(L) : Len(L[j]) = 0 \/ L[j][1] # SP}
  IN  IF J = {} THEN Len(L) + 1 ELSE Min(J)

\* size, the bytes of lines i..j-1 (src 188)
ContSize(L, i, j) == FoldLeft(+, 0, [m \in 1..j - i |-> Len(L[i + m - 1])])

\* The value of lines i..j-1 without their leading ' ', joined by '\n'
\* (src 195-204).
JoinCont(L, i, j) ==
  FlattenSeq([m \in 1..j - i |-> (IF m = 1 THEN <<>> ELSE <<NL>>)
                                 \o Tail(L[i + m - 1])])

ParseError(e) == [err |-> e, headers |-> <<>>]

\* The loop of parseHeaders from line i on, with the headers so far (src
\* 166-214); a later entry of a name overrides an earlier one.
RECURSIVE ParseFrom(_, _, _)
ParseFrom(L, i, hs) ==
  IF i > Len(L) THEN [err |-> "none", headers |-> hs]
  ELSE
  LET entry == L[i]
      c     == FirstColon(entry)
      name  == SubSeq(entry, 1, c - 1)
  IN  IF c = 0 THEN ParseError("MissingColon")
      ELSE IF ~NameSane(name) THEN ParseError("BadName")
      ELSE IF c = Len(entry)
      THEN LET j == ContEnd(L, i + 1) IN
           IF j = i + 1 THEN ParseError("EmptyMultiline")
           \* make([]byte, 0, size-1) (src 195) panics on a negative size
           ELSE IF ContSize(L, i + 1, j) - 1 < 0 THEN ParseError("Panic")
           ELSE ParseFrom(L, j, (name :> JoinCont(L, i + 1, j)) @@ hs)
      ELSE IF entry[c + 1] # SP THEN ParseError("NoSpace")
      ELSE ParseFrom(L, i + 1, (name :> SubSeq(entry, c + 2, Len(entry))) @@ hs)

\* parseHeaders (src 160-215)
ParseHeadersC(head) == ParseFrom(SplitLines(head), 1, <<>>)

(***************************************************************************)
(* A writer and a reader: assembleAndSign writes the header block of an    *)
(* assertion, a decoder later parses it.                                   *)
(***************************************************************************)
VARIABLES
  entries,  \* the headers given to assembleAndSign, in the order written
  wire,     \* the header block written, <<>> before it is
  parsed    \* what parseHeaders returned; err "pending" before it runs

hvars == <<entries, wire, parsed>>

HInit ==
  /\ entries \in Inputs
  /\ wire = <<>>
  /\ parsed = ParseError("pending")

\* assembleAndSign writes the header block.
Write ==
  /\ wire = <<>>
  /\ wire' = HeadBytes(entries)
  /\ UNCHANGED <<entries, parsed>>

\* A decoder parses it.
Parse ==
  /\ wire # <<>>
  /\ parsed.err = "pending"
  /\ parsed' = ParseHeadersC(wire)
  /\ UNCHANGED <<entries, wire>>

HDone ==
  /\ parsed.err # "pending"
  /\ UNCHANGED hvars

HNext == Write \/ Parse \/ HDone

HSpec == HInit /\ [][HNext]_hvars

(***************************************************************************)
(* Properties                                                              *)
(***************************************************************************)

\* The headers as a map from name to value.
MapOf(es) == [n \in {es[i][1] : i \in 1..Len(es)} |->
                (CHOOSE i \in 1..Len(es) : es[i][1] = n)]
EntryMap(es) == [n \in DOMAIN MapOf(es) |-> es[MapOf(es)[n]][2]]

\* Header round trip (spec 4.1, 8): parseHeaders reads back from what
\* writeHeader wrote exactly the headers given to assembleAndSign, every
\* value whatever '\n', ' ' and ':' it holds, multi-line values included.
HeaderRoundTrip ==
  parsed.err # "pending" => parsed = [err |-> "none", headers |-> EntryMap(entries)]

====

---------------------------- MODULE AssertsWire ----------------------------
(***************************************************************************)
(* The wire format of assertions (src/asserts/asserts.go), as pure         *)
(* operators over sequences of abstract bytes.                             *)
(*                                                                         *)
(* Data abstraction.  A stream is a sequence of tokens:                    *)
(*   NL        the byte '\n';                                              *)
(*   BodyByte  any other body byte (one that is neither ':' nor a byte of  *)
(*             a header name, so a line starting with it never parses);    *)
(*   SigByte   a byte of the signer's output (no '\n' in it);              *)
(*   HeaderLine(n, v), a record: the whole single-line header entry        *)
(*             "n: v", standing for the bytes of that line.                *)
(* Header names and values are strings; a value is never a multi-line     *)
(* value here (HeaderCodec models the characters of entries).            *)
(***************************************************************************)
EXTENDS Integers, Sequences, FiniteSets

CONSTANTS
  NL,        \* the byte '\n'
  BodyByte,  \* a body byte other than '\n'
  SigByte    \* a byte of a signature

NLNL == <<NL, NL>>

HeaderLine(n, v) == [name |-> n, value |-> v]

IsHeaderLine(t) == t \notin {NL, BodyByte, SigByte}

\* Every token of this module; header lines carry strings.
Bytes == {NL, BodyByte, SigByte} \cup [name : STRING, value : STRING]

MinOf(a, b) == IF a <= b THEN a ELSE b
MaxOf(a, b) == IF a >= b THEN a ELSE b

HasSuffix(s, t) == Len(s) >= Len(t) /\ SubSeq(s, Len(s) - Len(t) + 1, Len(s)) = t

IsPrefixOf(s, t) == Len(s) <= Len(t) /\ SubSeq(t, 1, Len(s)) = s

\* Concatenation of a sequence of sequences.
Concat(ss) ==
  LET cat[i \in 0..Len(ss)] == IF i = 0 THEN <<>> ELSE cat[i - 1] \o ss[i]
  IN  cat[Len(ss)]

\* The bytes a token stands for: a header line "n: v" is n, ": " and v.
TokenLen(t) == IF IsHeaderLine(t) THEN Len(t.name) + 2 + Len(t.value) ELSE 1

\* len() of the bytes a sequence of tokens stands for.
WireLen(s) ==
  LET n[i \in 0..Len(s)] == IF i = 0 THEN 0 ELSE n[i - 1] + TokenLen(s[i])
  IN  n[Len(s)]

(***************************************************************************)
(* Type registry (src 45-71): type name -> primary key header names.       *)
(***************************************************************************)
TypeNames == {"account", "account-key", "model", "serial",
              "snap-declaration", "snap-build", "snap-revision"}

PrimaryKey(t) ==
  CASE t = "account"          -> <<"account-id">>
    [] t = "account-key"      -> <<"account-id", "public-key-id">>
    [] t = "model"            -> <<"series", "brand-id", "model">>
    [] t = "serial"           -> <<"brand-id", "model", "serial">>
    [] t = "snap-declaration" -> <<"series", "snap-id">>
    [] t = "snap-build"       -> <<"series", "snap-id", "snap-digest">>
    [] t = "snap-revision"    -> <<"series", "snap-id", "snap-digest">>

(***************************************************************************)
(* Header values.  strconv.Atoi is defined on the values of IntStrings;    *)
(* SlashValues are the values containing '/'.  Garbled is the value of a   *)
(* line that runs on into further tokens: not an integer, not a type name, *)
(* not empty and without '/'.                                              *)
(***************************************************************************)
IntStrings == {"0", "1", "2", "3", "4", "-1", "-9", "-99"}

Atoi(v) ==
  CASE v = "0" -> 0 [] v = "1" -> 1 [] v = "2" -> 2 [] v = "3" -> 3
    [] v = "4" -> 4 [] v = "-1" -> -1 [] v = "-9" -> -9
    [] v = "-99" -> -99

Itoa(n) == CHOOSE v \in IntStrings : Atoi(v) = n

SlashValues == {"a/b"}

Garbled == "garbled"

(***************************************************************************)
(* parseHeaders (src 160-215) on single-line entries.  strings.Split on    *)
(* '\n' gives one more line than there are NLs; each line must be one      *)
(* header entry, and the last entry of a name wins.                        *)
(***************************************************************************)
SplitLines(s) ==
  LET P    == {i \in 1..Len(s) : s[i] = NL}
      n    == Cardinality(P)
      nlAt == [k \in 1..n |-> CHOOSE p \in P : Cardinality({q \in P : q < p}) = k - 1]
      from(k) == IF k = 1 THEN 1 ELSE nlAt[k - 1] + 1
      to(k)   == IF k = n + 1 THEN Len(s) ELSE nlAt[k] - 1
  IN  [k \in 1..n + 1 |-> SubSeq(s, from(k), to(k))]

\* A line parses when it starts with a header entry; bytes after the entry
\* run on into its value.
EntryOK(line) == Len(line) >= 1 /\ IsHeaderLine(line[1])

EntryValue(line) == IF Len(line) = 1 THEN line[1].value ELSE Garbled

ParseLines(L) ==
  LET names == {L[k][1].name : k \in 1..Len(L)}
      lastOf(n) == CHOOSE k \in 1..Len(L) :
                     /\ L[k][1].name = n
                     /\ \A j \in k + 1..Len(L) : L[j][1].name # n
  IN  [n \in names |-> EntryValue(L[lastOf(n)])]

ParseOK(head) ==
  LET L == SplitLines(head) IN \A k \in 1..Len(L) : EntryOK(L[k])

ParseHeaders(head) == ParseLines(SplitLines(head))

(***************************************************************************)
(* Header checks.  checkInteger, checkNotEmpty and checkPrimaryKey are not *)
(* in src/ (spec 4.3): an absent integer header takes its default, a       *)
(* present one must parse with Atoi; no sign check, which checkRevision    *)
(* adds itself (src 463).                                                  *)
(***************************************************************************)
IntOK(h, n) == n \notin DOMAIN h \/ h[n] \in IntStrings

IntOf(h, n) == IF n \in DOMAIN h THEN Atoi(h[n]) ELSE 0

NotEmpty(h, n) == n \in DOMAIN h /\ h[n] # ""

PrimaryKeyOK(h, n) == NotEmpty(h, n) /\ h[n] \notin SlashValues

\* checkRevision (src 458-467)
RevisionOK(h) == IntOK(h, "revision") /\ IntOf(h, "revision") >= 0

\* Assemble (src 470-518): the first failing check, or "none".
AssembleErr(h, body, sig) ==
  IF ~IntOK(h, "body-length") THEN "BadInteger"
  ELSE IF IntOf(h, "body-length") # Len(body) THEN "BodyLengthMismatch"
  ELSE IF ~NotEmpty(h, "authority-id") THEN "MissingHeader"
  ELSE IF ~NotEmpty(h, "type") THEN "MissingHeader"
  ELSE IF h["type"] \notin TypeNames THEN "UnknownType"
  ELSE IF \E i \in 1..Len(PrimaryKey(h["type"])) :
            ~PrimaryKeyOK(h, PrimaryKey(h["type"])[i]) THEN "BadPrimaryKey"
  ELSE IF ~RevisionOK(h) THEN "BadRevision"
  ELSE IF Len(sig) = 0 THEN "EmptySignature"
  ELSE "none"

(***************************************************************************)
(* The write path.  assembleAndSign (src 534-627) builds the content in    *)
(* canonical order: type, authority-id, revision when > 0, the primary     *)
(* key in the type's order, the other headers sorted by name, body-length  *)
(* and the body when the body is not empty.  NameOrder lists the header    *)
(* names this model uses in ASCII order, which sort.Strings follows.       *)
(***************************************************************************)
NameOrder == <<"account-id", "authority-id", "body-length", "brand-id",
               "model", "note", "public-key-id", "revision", "serial",
               "series", "snap-digest", "snap-id", "type">>

Rank(n) == CHOOSE i \in 1..Len(NameOrder) : NameOrder[i] = n

SortNames(S) ==
  [i \in 1..Cardinality(S) |->
     CHOOSE n \in S : Cardinality({m \in S : Rank(m) < Rank(n)}) = i - 1]

Bookkeeping == {"type", "authority-id", "revision", "body-length"}

\* writeHeader (src 520-532) for a single-line value
WriteHeader(h, n) == <<NL, HeaderLine(n, h[n])>>

WriteHeaders(h, ns) == Concat([i \in 1..Len(ns) |-> WriteHeader(h, ns[i])])

\* finalHeaders (src 540-548)
FinalHeaders(t, h, body) ==
  [n \in DOMAIN h \cup {"type", "body-length"} |->
     IF n = "type" THEN t
     ELSE IF n = "body-length" THEN Itoa(Len(body))
     ELSE h[n]]

OtherNames(t, fh) ==
  DOMAIN fh \ (Bookkeeping \cup {PrimaryKey(t)[i] : i \in 1..Len(PrimaryKey(t))})

\* The first failing check of assembleAndSign, or "none".
AssembleAndSignErr(t, h, body) ==
  LET fh == FinalHeaders(t, h, body) IN
  IF t \notin TypeNames THEN "UnknownType"
  ELSE IF ~NotEmpty(fh, "authority-id") THEN "MissingHeader"
  ELSE IF ~RevisionOK(fh) THEN "BadRevision"
  ELSE IF \E i \in 1..Len(PrimaryKey(t)) : ~PrimaryKeyOK(fh, PrimaryKey(t)[i])
       THEN "BadPrimaryKey"
  ELSE "none"

\* The signed content (src 559-607).
CanonicalContent(t, h, body) ==
  LET fh == FinalHeaders(t, h, body) IN
     <<HeaderLine("type", t)>>
  \o WriteHeader(fh, "authority-id")
  \o (IF IntOf(fh, "revision") > 0 THEN WriteHeader(fh, "revision") ELSE <<>>)
  \o WriteHeaders(fh, PrimaryKey(t))
  \o WriteHeaders(fh, SortNames(OtherNames(t, fh)))
  \o (IF Len(body) > 0 THEN WriteHeader(fh, "body-length") \o NLNL \o body
      ELSE <<>>)

\* An assertion as the decoders see it: content, body and signature.  The
\* signer's output gets a trailing '\n' (src 614).
AssembleAndSign(t, h, body, signed) ==
  [content |-> CanonicalContent(t, h, body), body |-> body,
   sig |-> signed \o <<NL>>]

\* Encode (src 630-638)
Encode(a) == a.content \o NLNL \o a.sig

\* The bytes Encoder.append (src 652-677) writes for a sequence of
\* assertions: a '\n' before every one but the first, and a '\n' after
\* one that does not end in '\n'.
EncoderStream(as) ==
  LET chunk(i) == LET e == Encode(as[i]) IN
                    (IF i = 1 THEN <<>> ELSE <<NL>>)
                    \o e \o (IF e[Len(e)] # NL THEN <<NL>> ELSE <<>>)
  IN  Concat([i \in 1..Len(as) |-> chunk(i)])

=============================================================================

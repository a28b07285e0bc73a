------------------------------ MODULE SingleShot ------------------------------
(***************************************************************************)
(* The single-shot codec: assembleAndSign (src 534-627) builds and signs   *)
(* an assertion, Encode (src 630-638) serializes it, and the one-shot      *)
(* Decode (src 253-282) splits a whole byte buffer back into content, body *)
(* and signature: the signature after the LAST "\n\n", the body after the  *)
(* FIRST "\n\n" of the content.  Bytes are AssertsWire's tokens.           *)
(***************************************************************************)
EXTENDS AssertsWire

CONSTANT Inputs  \* [type, headers, body, signed]: what assembleAndSign is given

\* The 1-based positions where "\n\n" starts in s.
NLNLAt(s) == {i \in 1..Len(s) - 1 : s[i] = NL /\ s[i + 1] = NL}

\* bytes.Index(content, nlnl) (src 264), 1-based; 0 when absent
IndexNLNL(s) ==
  IF NLNLAt(s) = {} THEN 0 ELSE CHOOSE i \in NLNLAt(s) : \A j \in NLNLAt(s) : i <= j

\* bytes.LastIndex(assertionSnapshot, nlnl) (src 257), 1-based; 0 when absent
LastIndexNLNL(s) ==
  IF NLNLAt(s) = {} THEN 0 ELSE CHOOSE i \in NLNLAt(s) : \A j \in NLNLAt(s) : j <= i

DecodeError(e) == [err |-> e, content |-> <<>>, body |-> <<>>, sig |-> <<>>]

\* Decode (src 253-282): the snapshot copy (255-256) leaves the bytes as
\* they are; a body of length 0 is nil (270-272); parseHeaders' and
\* Assemble's errors are returned.
DecodeOne(s) ==
  LET c         == LastIndexNLNL(s)
      content   == SubSeq(s, 1, c - 1)
      signature == SubSeq(s, c + 2, Len(s))
      b         == IndexNLNL(content)
      head      == IF b = 0 THEN content ELSE SubSeq(content, 1, b - 1)
      body      == IF b = 0 THEN <<>> ELSE SubSeq(content, b + 2, Len(content))
  IN  IF c = 0 THEN DecodeError("NoSeparator")
      ELSE IF ~ParseOK(head) THEN DecodeError("BadHeaders")
      ELSE IF AssembleErr(ParseHeaders(head), body, signature) # "none"
      THEN DecodeError(AssembleErr(ParseHeaders(head), body, signature))
      ELSE [err |-> "none", content |-> content, body |-> body, sig |-> signature]

VARIABLES
  input,    \* the arguments of assembleAndSign
  stage,    \* "init", "refused", "signed", "encoded" or "decoded"
  asrt,     \* the assertion assembleAndSign returned
  wire,     \* the bytes Encode returned
  decoded   \* what Decode returned

svars == <<input, stage, asrt, wire, decoded>>

SInit ==
  /\ input \in Inputs
  /\ stage = "init"
  /\ asrt = [content |-> <<>>, body |-> <<>>, sig |-> <<>>]
  /\ wire = <<>>
  /\ decoded = DecodeError("none")

\* assembleAndSign (src 534-627): refuses headers its checks reject, or
\* signs the canonical content.
Sign ==
  /\ stage = "init"
  /\ IF AssembleAndSignErr(input.type, input.headers, input.body) # "none"
     THEN stage' = "refused" /\ UNCHANGED asrt
     ELSE /\ stage' = "signed"
          /\ asrt' = AssembleAndSign(input.type, input.headers, input.body,
                                     input.signed)
  /\ UNCHANGED <<input, wire, decoded>>

\* Encode (src 630-638)
EncodeStep ==
  /\ stage = "signed"
  /\ stage' = "encoded"
  /\ wire' = Encode(asrt)
  /\ UNCHANGED <<input, asrt, decoded>>

\* Decode (src 253-282) of the encoded bytes
DecodeStep ==
  /\ stage = "encoded"
  /\ stage' = "decoded"
  /\ decoded' = DecodeOne(wire)
  /\ UNCHANGED <<input, asrt, wire>>

SDone ==
  /\ stage \in {"refused", "decoded"}
  /\ UNCHANGED svars

SNext == Sign \/ EncodeStep \/ DecodeStep \/ SDone

SSpec == SInit /\ [][SNext]_svars

\* Single-shot round trip (spec 8, 4.2): Decode of what Encode wrote gives
\* back the assertion assembleAndSign built, content, body and signature
\* byte for byte, whatever '\n's its body holds.
SingleShotRoundTrip ==
  stage = "decoded" =>
    decoded = [err |-> "none", content |-> asrt.content, body |-> asrt.body,
               sig |-> asrt.sig]
====

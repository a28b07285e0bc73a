--------------------------- MODULE MCStreamDecoder ---------------------------
(***************************************************************************)
(* Small instances of StreamDecoder: the assertions the reader's data is  *)
(* made of, built with assembleAndSign.                                    *)
(***************************************************************************)
EXTENDS StreamDecoder, TLC

\* account assertions: no body; a body holding "\n\n"; a body "\n"
AccountHeaders == ("authority-id" :> "canonical") @@ ("account-id" :> "alice")

ANoBody   == AssembleAndSign("account", AccountHeaders, <<>>, <<SigByte>>)
ANLNLBody == AssembleAndSign("account", AccountHeaders, <<NL, NL>>, <<SigByte>>)
ANLBody   == AssembleAndSign("account", AccountHeaders, <<NL>>,
                             <<SigByte, SigByte>>)

Whole(as, end) == [as |-> as, cut |-> Len(EncoderStream(as)), end |-> end]

RoundTripSources ==
  {Whole(as, end) : as \in {<<ANoBody, ANLNLBody>>, <<ANLBody, ANoBody>>,
                               <<ANoBody, ANLBody>>},
                    end \in {"EOF", "ERR"}}
(***************************************************************************)
(* Crafted frames an untrusted reader may send: content and signature as   *)
(* bytes, written with the Encoder's framing.                              *)
(***************************************************************************)
Frame(c, sig) == [content |-> c, body |-> <<>>, sig |-> sig]

HL(n, v) == HeaderLine(n, v)

\* body-length: -9, which passes the body-size check; the 31 bytes of the
\* header block keep the capacity of contentBuf positive
FNegLength == Frame(<<HL("type", "account"), NL, HL("body-length", "-9")>>,
                    <<SigByte>>)

\* body-length: -99, more negative than the 32 bytes of the header block
\* "type: account\nbody-length: -99\n\n" are long
FNegLengthBig == Frame(<<HL("type", "account"), NL, HL("body-length", "-99")>>,
                       <<SigByte>>)

\* a well-formed assertion with a body of 3 bytes, over a body cap of 2
FBigBody == AssembleAndSign("account", AccountHeaders,
                            <<BodyByte, BodyByte, BodyByte>>, <<SigByte>>)

\* body-length: 4 over a body cap of 2, and a body holding an assertion
FSmuggle == Frame(<<HL("type", "account"), NL, HL("body-length", "4"), NL, NL>>
                    \o ANoBody.content, ANoBody.sig)

\* a body one byte longer than body-length, so no separator follows it
FNoSep == Frame(<<HL("body-length", "1"), NL, NL, BodyByte, BodyByte>>,
                <<SigByte>>)

\* a first line that is not a header entry
FGarbled == Frame(<<BodyByte, NL, HL("type", "account")>>, <<SigByte>>)

\* a header block of 17 bytes and a signature of 5
FLongHead == Frame(<<HL("type", "account")>> \o
                     Concat([i \in 1..8 |-> <<NL, HL("note", "x")>>]),
                   <<SigByte>>)
FLongSig == Frame(<<HL("type", "account")>>, <<SigByte, SigByte, SigByte,
                                                  SigByte, NL>>)

Cut(as, n, end) == [as |-> as, cut |-> n, end |-> end]

AdversarialSources ==
  {Whole(<<f, ANoBody>>, "EOF") :
     f \in {FNegLength, FBigBody, FNoSep, FGarbled, FLongHead, FLongSig}}
  \cup {Cut(<<ANoBody, ANLBody>>, n, end) :
          n \in 0..Len(EncoderStream(<<ANoBody, ANLBody>>)), end \in {"EOF", "ERR"}}
\* Sources of the runs that find the code at odds with the spec
NegativeLengthSources == {Whole(<<FNegLengthBig, ANoBody>>, "EOF")}

SmuggleSources == {Whole(<<FSmuggle>>, "EOF")}

TruncatedSources ==
  {Cut(<<ANLBody>>, n, "EOF") : n \in 1..Len(EncoderStream(<<ANLBody>>))}
=============================================================================

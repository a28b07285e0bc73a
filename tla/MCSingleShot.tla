----------------------------- MODULE MCSingleShot -----------------------------
(***************************************************************************)
(* Small instances of SingleShot: account assertions with every body of up *)
(* to 3 bytes over '\n' and another byte, a revision or none, and headers  *)
(* assembleAndSign refuses.                                                *)
(***************************************************************************)
EXTENDS SingleShot, TLC

Bodies == UNION {[1..k -> {NL, BodyByte}] : k \in 0..3}

HeaderSets ==
  { ("authority-id" :> "canonical") @@ ("account-id" :> "alice"),
    ("authority-id" :> "canonical") @@ ("account-id" :> "alice")
      @@ ("revision" :> "2"),
    ("authority-id" :> "canonical") @@ ("account-id" :> "a/b") }

InputsOf(Signed) ==
  [type : {"account"}, headers : HeaderSets, body : Bodies, signed : Signed]

\* signer outputs with no '\n'
PlainInputs == InputsOf({<<SigByte>>, <<SigByte, SigByte>>})

\* a signer output that starts with '\n'
LeadingNLInputs == InputsOf({<<NL, SigByte>>})
====

-------------------------- MODULE MCSchemaResolver --------------------------
(* Small file trees: two packages, two names, two prefixes of which the     *)
(* second overlays one type of the first.                                   *)
EXTENDS SchemaResolver, TLC

CONSTANTS pkgP, pkgQ, nameA, nameB

PA == <<pkgP, nameA>>
PB == <<pkgP, nameB>>
QA == <<pkgQ, nameA>>
QB == <<pkgQ, nameB>>

F(form, t) == [form |-> form, type |-> t]

(* Texts that tell the naming rules apart: bare names, the two qualified    *)
(* forms, a built-in type and a name that is skipped.                       *)
OwnPackage == {<<>>, <<F("relative", PA)>>, <<F("relative", PB)>>,
               <<F("builtin", PA), F("relative", PB)>>}
OtherPackage == {<<F("package/Name", QA)>>, <<F("other", QB), F("package/msg/Name", QA)>>,
                 <<F("relative", PB), F("package/Name", QA)>>,
                 <<F("package/msg/Name", QA), F("relative", PB)>>}

(* The first prefix ships all types but possibly QB; the second, which may  *)
(* be missing or may not be listed, ships QA with another text; one file    *)
(* may be unreadable.                                                       *)
MCDisks ==
  {[share |-> (1 :> "listed") @@ (2 :> s),
    ships |-> (1 :> {PA, PB, QA} \cup more) @@ (2 :> {QA}),
    unreadable |-> (1 :> bad) @@ (2 :> {}),
    text |-> (1 :> (PA :> a @@ PB :> b @@ QA :> c @@ QB :> <<F("package/Name", PA)>>))
             @@ (2 :> [t \in MsgType |-> <<F("package/msg/Name", PB)>>])] :
     s \in {"listed", "absent", "denied"},
     more \in {{}, {QB}}, bad \in {{}, {PB}},
     a \in OwnPackage \cup OtherPackage, b \in OtherPackage,
     c \in OwnPackage}
=============================================================================

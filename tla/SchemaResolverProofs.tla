------------------------ MODULE SchemaResolverProofs ------------------------
(* Proofs about SchemaResolver for every set of prefixes, every file tree   *)
(* and every graph of definitions, cyclic ones included.                    *)
EXTENDS SchemaResolver, TLAPS

(* Facts about stacks. *)

LEMMA ReplaceTop ==
  ASSUME NEW S, NEW s \in Seq(S), s # <<>>, NEW e \in S
  PROVE  LET r == <<e>> \o Tail(s)
         IN  /\ r \in Seq(S) /\ Len(r) = Len(s) /\ r[1] = e
             /\ \A i \in 2 .. Len(s) : r[i] = s[i]
  OBVIOUS

LEMMA PushTop ==
  ASSUME NEW S, NEW s \in Seq(S), NEW e \in S
  PROVE  LET r == <<e>> \o s
         IN  /\ r \in Seq(S) /\ Len(r) = Len(s) + 1 /\ r[1] = e
             /\ \A i \in 1 .. Len(s) : r[i + 1] = s[i]
             /\ \A i \in 2 .. Len(s) + 1 : r[i] = s[i - 1]
  OBVIOUS

LEMMA PopTop ==
  ASSUME NEW S, NEW s \in Seq(S), s # <<>>
  PROVE  /\ Tail(s) \in Seq(S) /\ Len(Tail(s)) = Len(s) - 1
         /\ \A i \in 1 .. Len(s) - 1 : Tail(s)[i] = s[i + 1]
  OBVIOUS

LEMMA AppendOne ==
  ASSUME NEW S, NEW s \in Seq(S), NEW e \in S
  PROVE  LET r == Append(s, e)
         IN  /\ r \in Seq(S) /\ Len(r) = Len(s) + 1 /\ r[Len(s) + 1] = e
             /\ \A i \in 1 .. Len(s) : r[i] = s[i]
  OBVIOUS

LEMMA FrameStep ==
  ASSUME NEW f \in Frame
  PROVE  /\ [f EXCEPT !.next = @ + 1] \in Frame
         /\ [f EXCEPT !.next = @ + 1].type = f.type
         /\ [f EXCEPT !.next = @ + 1].next = f.next + 1
  BY DEF Frame

LEMMA FirstFrame ==
  ASSUME NEW t \in MsgType
  PROVE  [type |-> t, next |-> 1] \in Frame
  BY DEF Frame

(* A bare name and a qualified one both stand for a message type. *)
LEMMA NestedType ==
  ASSUME NEW f \in Field, NEW t \in MsgType
  PROVE  Nested(f, t[1]) \in MsgType
  BY DEF Field, MsgType, Nested

(* A registered type has a definition. *)
LEMMA DefinitionType ==
  ASSUME TypeOK, NEW t \in MsgType, Resolves(t)
  PROVE  Definition(t) \in Seq(Field)
<1>1. resolvedMap[t] \in Prefixes
  BY DEF TypeOK, Resolves
<1>2. disk.text \in [Prefixes -> [MsgType -> Seq(Field)]]
  BY DEF TypeOK, Disk
<1> QED
  BY <1>1, <1>2 DEF Definition

-----------------------------------------------------------------------------
(* The walk knows only types whose definitions resolve, and its root. *)

Walking == outcome \in {"running", "flattened"}

WalkInv == /\ outcome = "none" => visited = {} /\ flat = <<>>
           /\ outcome # "none" => root \in MsgType
           /\ Walking => root \in visited /\ \A t \in visited : Resolves(t)
           /\ \A i \in DOMAIN stack : stack[i].type \in visited

(* The state of the walk at a field of the innermost call. *)
LEMMA AtFieldFacts ==
  ASSUME TypeOK, WalkInv, AtField
  PROVE  /\ Top \in Frame /\ Top.type \in visited /\ Top.type \in MsgType
         /\ Resolves(Top.type) /\ Definition(Top.type) \in Seq(Field)
         /\ ThisField \in Field /\ ThisType \in MsgType
         /\ ThisType = Nested(ThisField, Top.type[1])
         /\ Advanced \in Seq(Frame) /\ Len(Advanced) = Len(stack)
         /\ Advanced[1].type = Top.type /\ Advanced[1].next = Top.next + 1
         /\ \A i \in 2 .. Len(stack) : Advanced[i] = stack[i]
         /\ Len(stack) \in Nat \ {0}
<1>1. stack \in Seq(Frame) /\ stack # <<>> /\ outcome = "running"
  BY DEF TypeOK, AtField
<1>2. Len(stack) \in Nat \ {0} /\ 1 \in DOMAIN stack
  BY <1>1
<1>3. Top \in Frame
  BY <1>1, <1>2 DEF Top
<1>4. Top.type \in MsgType
  BY <1>3 DEF Frame
<1>5. Top.type \in visited /\ Resolves(Top.type)
  BY <1>1, <1>2 DEF WalkInv, Walking, Top
<1>6. Definition(Top.type) \in Seq(Field)
  BY <1>4, <1>5, DefinitionType
<1>7. Top.next \in DOMAIN Definition(Top.type)
  BY DEF AtField
<1>8. ThisField \in Field
  BY <1>6, <1>7 DEF ThisField
<1>9. ThisType = Nested(ThisField, Top.type[1]) /\ ThisType \in MsgType
  BY <1>4, <1>8, NestedType DEF ThisType, CurrentPackage
<1>10. [Top EXCEPT !.next = @ + 1] \in Frame
       /\ [Top EXCEPT !.next = @ + 1].type = Top.type
       /\ [Top EXCEPT !.next = @ + 1].next = Top.next + 1
  BY <1>3, FrameStep
<1>11. /\ Advanced \in Seq(Frame) /\ Len(Advanced) = Len(stack)
       /\ Advanced[1] = [Top EXCEPT !.next = @ + 1]
       /\ \A i \in 2 .. Len(stack) : Advanced[i] = stack[i]
  BY <1>1, <1>10, ReplaceTop DEF Advanced
<1> QED
  BY <1>2, <1>3, <1>4, <1>5, <1>6, <1>8, <1>9, <1>10, <1>11

-----------------------------------------------------------------------------
(* Typing *)

LEMMA TypeInit == Init => TypeOK
  BY DisksAssumption DEF Init, TypeOK

LEMMA Typing == TypeOK /\ WalkInv /\ [Next]_vars => TypeOK'
<1> SUFFICES ASSUME TypeOK, WalkInv, [Next]_vars PROVE TypeOK'
  OBVIOUS
<1>1. ASSUME FirstGlobal PROVE TypeOK'
  BY <1>1 DEF FirstGlobal, TypeOK, walk
<1>2. ASSUME NEW p \in Prefixes, RegisterPrefix(p) PROVE TypeOK'
  <2>1. Registered(p) \in [MsgType -> Prefixes \cup {NotFound}]
    BY DEF Registered, TypeOK
  <2>2. resolvedMap' \in [MsgType -> Prefixes \cup {NotFound}]
    BY <1>2, <2>1 DEF RegisterPrefix, TypeOK
  <2> QED
    BY <1>2, <2>2 DEF RegisterPrefix, TypeOK, walk
<1>3. ASSUME GlobalDone PROVE TypeOK'
  BY <1>3 DEF GlobalDone, TypeOK, walk
<1>4. ASSUME NEW t \in MsgType, Flatten(t) PROVE TypeOK'
  <2>0. [type |-> t, next |-> 1] \in Frame
    BY FirstFrame
  <2>1. /\ <<[type |-> t, next |-> 1]>> \in Seq(Frame)
        /\ <<[type |-> t, next |-> 1]>> # <<>>
        /\ <<t>> \in Seq(MsgType) /\ {t} \in SUBSET MsgType
    BY <2>0
  <2>2. ASSUME Resolves(t) PROVE TypeOK'
    <3>1. /\ stack' = <<[type |-> t, next |-> 1]>> /\ flat' = <<t>> /\ visited' = {t}
          /\ root' = t /\ outcome' = "running" /\ UNCHANGED registry
          /\ once = "done" /\ globalInitErr = "nil"
      BY <1>4, <2>2 DEF Flatten
    <3>2. stack' \in Seq(Frame) /\ stack' # <<>> /\ flat' \in Seq(MsgType)
          /\ visited' \in SUBSET MsgType
      BY <3>1, <2>1
    <3> QED
      BY <3>1, <3>2 DEF TypeOK, registry
  <2>3. ASSUME ~Resolves(t) PROVE TypeOK'
    BY <1>4, <2>3 DEF Flatten, TypeOK, registry
  <2> QED
    BY <2>2, <2>3
<1>5. ASSUME SkipField PROVE TypeOK'
  <2>1. Advanced \in Seq(Frame) /\ Advanced # <<>>
    BY <1>5, AtFieldFacts DEF SkipField
  <2> QED
    BY <1>5, <2>1 DEF SkipField, AtField, TypeOK, registry
<1>6. ASSUME EnterField PROVE TypeOK'
  <2>1. Advanced \in Seq(Frame) /\ ThisType \in MsgType
    BY <1>6, AtFieldFacts DEF EnterField
  <2>2. stack' \in Seq(Frame) /\ stack' # <<>>
    BY <1>6, <2>1, FirstFrame DEF EnterField
  <2>3. flat' \in Seq(MsgType) /\ visited' \in SUBSET MsgType
    BY <1>6, <2>1 DEF EnterField, Entered, TypeOK
  <2> QED
    BY <1>6, <2>2, <2>3 DEF EnterField, AtField, TypeOK, registry
<1>7. ASSUME FailField PROVE TypeOK'
  <2>1. <<>> \in Seq(Frame)
    OBVIOUS
  <2> QED
    BY <1>7, <2>1 DEF FailField, AtField, TypeOK, registry
<1>8. ASSUME ReturnInner PROVE TypeOK'
  <2>1. Tail(stack) \in Seq(Frame)
    BY <1>8 DEF ReturnInner, TypeOK
  <2> QED
    BY <1>8, <2>1 DEF ReturnInner, TypeOK, registry
<1>9. ASSUME UNCHANGED vars PROVE TypeOK'
  BY <1>9 DEF TypeOK, vars, registry, walk
<1> QED
  BY <1>1, <1>2, <1>3, <1>4, <1>5, <1>6, <1>7, <1>8, <1>9 DEF Next

LEMMA WalkStep == TypeOK /\ WalkInv /\ [Next]_vars => WalkInv'
<1> SUFFICES ASSUME TypeOK, WalkInv, [Next]_vars PROVE WalkInv'
  OBVIOUS
<1>1. ASSUME FirstGlobal \/ GlobalDone \/ \E p \in Prefixes : RegisterPrefix(p)
      PROVE  WalkInv'
  <2>1. outcome = "none" /\ UNCHANGED walk
    BY <1>1 DEF FirstGlobal, GlobalDone, RegisterPrefix, TypeOK
  <2> QED
    BY <2>1 DEF WalkInv, Walking, walk
<1>2. ASSUME NEW t \in MsgType, Flatten(t) PROVE WalkInv'
  <2>1. \A u \in MsgType : Resolves(u)' = Resolves(u)
    BY <1>2 DEF Flatten, registry, Resolves
  <2> QED
    BY <1>2, <2>1 DEF Flatten, WalkInv, Walking
<1>3. ASSUME SkipField PROVE WalkInv'
  <2>0. /\ stack' = Advanced /\ Advanced \in Seq(Frame) /\ Len(Advanced) = Len(stack)
        /\ Advanced[1].type = Top.type /\ Top.type \in visited
        /\ \A i \in 2 .. Len(stack) : Advanced[i] = stack[i]
        /\ stack \in Seq(Frame)
    BY <1>3, AtFieldFacts DEF SkipField, TypeOK
  <2>1. \A i \in DOMAIN stack' : stack'[i].type \in visited
    BY <2>0 DEF WalkInv
  <2>2. UNCHANGED <<disk, resolvedMap, root, visited, flat, outcome>>
    BY <1>3 DEF SkipField, registry
  <2> QED
    BY <2>1, <2>2 DEF WalkInv, Walking, Resolves
<1>4. ASSUME EnterField PROVE WalkInv'
  <2>1. Advanced \in Seq(Frame) /\ ThisType \in MsgType /\ Top.type \in visited
        /\ Len(Advanced) = Len(stack) /\ Advanced[1].type = Top.type
        /\ \A i \in 2 .. Len(stack) : Advanced[i] = stack[i]
    BY <1>4, AtFieldFacts DEF EnterField
  <2>2. \A i \in DOMAIN Advanced : Advanced[i].type \in visited
    BY <2>1 DEF WalkInv, TypeOK
  <2>3. \A i \in DOMAIN stack' : stack'[i].type \in visited'
    BY <1>4, <2>1, <2>2, FirstFrame, PushTop DEF EnterField, Entered
  <2>4. UNCHANGED <<disk, resolvedMap, root, outcome>> /\ outcome = "running"
    BY <1>4 DEF EnterField, AtField, registry
  <2>5. visited' = visited \cup {ThisType} /\ Resolves(ThisType)
    BY <1>4 DEF EnterField, Entered
  <2>6. \A u \in visited' : Resolves(u)'
    BY <2>4, <2>5 DEF WalkInv, Walking, Resolves
  <2> QED
    BY <2>3, <2>4, <2>5, <2>6 DEF WalkInv, Walking
<1>5. ASSUME FailField PROVE WalkInv'
  BY <1>5 DEF FailField, AtField, WalkInv, Walking
<1>6. ASSUME ReturnInner PROVE WalkInv'
  <2>1. stack \in Seq(Frame) /\ stack # <<>> /\ outcome = "running"
    BY <1>6 DEF ReturnInner, TypeOK
  <2>2. \A i \in DOMAIN stack' : stack'[i].type \in visited
    BY <1>6, <2>1, PopTop DEF ReturnInner, WalkInv
  <2>3. UNCHANGED <<disk, resolvedMap, root, visited, flat>>
        /\ outcome' \in {"running", "flattened"}
    BY <1>6 DEF ReturnInner, registry
  <2> QED
    BY <2>1, <2>2, <2>3 DEF WalkInv, Walking, Resolves
<1>7. ASSUME UNCHANGED vars PROVE WalkInv'
  BY <1>7 DEF WalkInv, Walking, Resolves, vars, registry, walk
<1> QED
  BY <1>1, <1>2, <1>3, <1>4, <1>5, <1>6, <1>7 DEF Next

LEMMA WalkInit == Init => WalkInv
  BY DEF Init, WalkInv, Walking

\* The variables keep their ranges; a walk has a call on its stack exactly
\* while it runs, and runs only on a usable registry.
THEOREM TypeCorrect == Spec => []TypeOK
<1>1. Init => TypeOK /\ WalkInv
  BY TypeInit, WalkInit
<1>2. TypeOK /\ WalkInv /\ [Next]_vars => (TypeOK /\ WalkInv)'
  BY Typing, WalkStep
<1> QED
  BY <1>1, <1>2, PTL DEF Spec

-----------------------------------------------------------------------------
(* The registry *)

(* A prefix that is registered comes before every one that is not, and each *)
(* type has its file from the last registered prefix that ships it.         *)
LastOf(D) ==
  \A t \in MsgType :
    IF Shipping(t) \cap D = {} THEN resolvedMap[t] = NotFound
    ELSE /\ resolvedMap[t] \in Shipping(t) \cap D
         /\ \A p \in Shipping(t) \cap D : p <= resolvedMap[t]

RegistryInv ==
  /\ once = "no" => LastOf({})
  /\ once = "running" => /\ \A p \in env \ todo, q \in todo : p < q
                         /\ LastOf(env \ todo)
  /\ once = "done" /\ globalInitErr = "nil" => LastOf(env)

LEMMA RegistryInit == Init => RegistryInv
  BY DEF Init, RegistryInv, LastOf

(* Registering the next prefix puts it above all those registered before. *)
LEMMA RegisterOne ==
  ASSUME TypeOK, RegistryInv, NEW p \in Prefixes, RegisterPrefix(p),
         disk.share[p] # "denied"
  PROVE  /\ \A q \in env' \ todo', r \in todo' : q < r
         /\ LastOf(env \ todo)'
<1>1. /\ p \in todo /\ todo' = todo \ {p} /\ UNCHANGED <<disk, env>>
      /\ \A q \in todo : p <= q
      /\ todo \subseteq env /\ env \subseteq Prefixes
      /\ \A q \in env \ todo, r \in todo : q < r
      /\ LastOf(env \ todo)
  BY DEF RegisterPrefix, IsNext, RegistryInv, TypeOK
<1>2. env' \ todo' = (env \ todo) \cup {p}
  BY <1>1
<1>3. \A q \in todo' : p < q
  BY <1>1, PrefixesAssumption
<1>4. \A q \in env' \ todo', r \in todo' : q < r
  BY <1>1, <1>2, <1>3
<1>5. LastOf(env \ todo)'
  <2> SUFFICES ASSUME NEW t \in MsgType
               PROVE  IF Shipping(t)' \cap (env' \ todo') = {} THEN resolvedMap'[t] = NotFound
                      ELSE /\ resolvedMap'[t] \in Shipping(t)' \cap (env' \ todo')
                           /\ \A q \in Shipping(t)' \cap (env' \ todo') : q <= resolvedMap'[t]
    BY DEF LastOf
  <2>1. Shipping(t)' = Shipping(t)
    BY <1>1 DEF Shipping
  <2>2. CASE p \in Shipping(t)
    <3>1. resolvedMap'[t] = p
      BY <2>2 DEF RegisterPrefix, Registered, Shipping, TypeOK
    <3>2. \A q \in env \ todo : q <= p
      BY <1>1, PrefixesAssumption
    <3>3. p <= p
      BY PrefixesAssumption
    <3> QED
      BY <1>2, <2>1, <2>2, <3>1, <3>2, <3>3
  <2>3. CASE p \notin Shipping(t)
    <3>1. resolvedMap'[t] = resolvedMap[t]
      <4>1. disk.share[p] # "listed" \/ t \notin disk.ships[p]
        BY <2>3, <1>1 DEF Shipping
      <4> QED
        BY <4>1 DEF RegisterPrefix, Registered
    <3>2. Shipping(t)' \cap (env' \ todo') = Shipping(t) \cap (env \ todo)
      BY <1>2, <2>1, <2>3
    <3> QED
      BY <1>1, <3>1, <3>2 DEF LastOf
  <2> QED
    BY <2>2, <2>3
<1> QED
  BY <1>4, <1>5

LEMMA RegistryStep == TypeOK /\ RegistryInv /\ [Next]_vars => RegistryInv'
<1> SUFFICES ASSUME TypeOK, RegistryInv, [Next]_vars PROVE RegistryInv'
  OBVIOUS
<1>1. ASSUME FirstGlobal PROVE RegistryInv'
  BY <1>1 DEF FirstGlobal, RegistryInv, LastOf, Shipping
<1>2. ASSUME NEW p \in Prefixes, RegisterPrefix(p), disk.share[p] = "denied"
      PROVE  RegistryInv'
  BY <1>2 DEF RegisterPrefix, RegistryInv
<1>3. ASSUME NEW p \in Prefixes, RegisterPrefix(p), disk.share[p] # "denied"
      PROVE  RegistryInv'
  <2>1. once' = "running"
    BY <1>3 DEF RegisterPrefix
  <2> QED
    BY <1>3, <2>1, RegisterOne DEF RegistryInv
<1>4. ASSUME GlobalDone PROVE RegistryInv'
  <2>1. once' = "done" /\ LastOf(env) /\ UNCHANGED <<disk, env, resolvedMap>>
    BY <1>4 DEF GlobalDone, RegistryInv, LastOf
  <2> QED
    BY <2>1 DEF RegistryInv, LastOf, Shipping
<1>5. ASSUME \/ \E t \in MsgType : Flatten(t)
             \/ SkipField \/ EnterField \/ FailField \/ ReturnInner
             \/ UNCHANGED vars
      PROVE  RegistryInv'
  <2>1. UNCHANGED registry
    BY <1>5 DEF Flatten, SkipField, EnterField, FailField, ReturnInner, vars
  <2> QED
    BY <2>1 DEF registry, RegistryInv, LastOf, Shipping
<1> QED
  BY <1>1, <1>2, <1>3, <1>4, <1>5 DEF Next

\* Once the registry is usable, each type comes from the last prefix, in
\* sorted order, that ships it, whatever the order of AMENT_PREFIX_PATH.
THEOREM PathOrderIrrelevant == Spec => []LastPrefixWins
<1>1. Init => TypeOK /\ WalkInv /\ RegistryInv
  BY TypeInit, WalkInit, RegistryInit
<1>2. TypeOK /\ WalkInv /\ RegistryInv /\ [Next]_vars => (TypeOK /\ WalkInv /\ RegistryInv)'
  BY Typing, WalkStep, RegistryStep
<1>3. RegistryInv => LastPrefixWins
  <2> SUFFICES ASSUME LastOf(env), NEW t \in MsgType
               PROVE  IF Shipping(t) = {} THEN resolvedMap[t] = NotFound
                      ELSE /\ resolvedMap[t] \in Shipping(t)
                           /\ \A p \in Shipping(t) : p <= resolvedMap[t]
    BY DEF RegistryInv, LastPrefixWins
  <2>1. Shipping(t) \cap env = Shipping(t)
    BY DEF Shipping
  <2> QED
    BY <2>1 DEF LastOf
<1> QED
  BY <1>1, <1>2, <1>3, PTL DEF Spec

-----------------------------------------------------------------------------
(* The walk visits every reachable type exactly once. *)

(* The text of a type is appended exactly when its call begins. *)
FlatInv == /\ OncePerType
           /\ visited = {flat[i] : i \in DOMAIN flat}

(* Every field of a visited type is covered, or a call will still come to   *)
(* it: the type of the field is visited, or the type's own call is on the   *)
(* stack and has not passed the field.                                      *)
Pending(t, k) == \E i \in DOMAIN stack : stack[i].type = t /\ stack[i].next <= k

Covered(t, k) ==
  Custom(Definition(t)[k]) =>
    Nested(Definition(t)[k], t[1]) \in visited \/ Pending(t, k)

CoverInv == Walking => \A t \in visited : \A k \in DOMAIN Definition(t) : Covered(t, k)

ReachInv == outcome # "none" => visited \subseteq Reachable

SchemaInv == TypeOK /\ WalkInv /\ FlatInv /\ NoReentry /\ CoverInv /\ ReachInv /\ FailsForCause

(* The meaning of the definitions changes only with the registry. *)
LEMMA SameMeaning ==
  ASSUME UNCHANGED <<registry, root>>
  PROVE  /\ Reachable' = Reachable
         /\ \A t : Resolves(t)' = Resolves(t)
         /\ \A t : Definition(t)' = Definition(t)
  BY DEF registry, Reachable, Closed, Mentions, Resolves, Definition

LEMMA RootReachable == root \in MsgType => root \in Reachable
  BY DEF Reachable

(* A type that a reachable one mentions is reachable. *)
LEMMA ReachableNext ==
  ASSUME NEW t \in Reachable, Resolves(t), NEW k \in DOMAIN Definition(t),
         Custom(Definition(t)[k]), Nested(Definition(t)[k], t[1]) \in MsgType
  PROVE  Nested(Definition(t)[k], t[1]) \in Reachable
<1> DEFINE u == Nested(Definition(t)[k], t[1])
<1>1. u \in Mentions(t)
  BY DEF Mentions
<1>2. ASSUME NEW S \in SUBSET MsgType, root \in S, Closed(S) PROVE u \in S
  <2>1. t \in S
    BY <1>2 DEF Reachable
  <2> QED
    BY <1>1, <1>2, <2>1 DEF Closed
<1> QED
  BY <1>2 DEF Reachable

(* Before the first walk nothing but the registry changes. *)
LEMMA RegistrySteps ==
  ASSUME TypeOK,
         \/ FirstGlobal \/ GlobalDone
         \/ \E p \in Prefixes : RegisterPrefix(p)
  PROVE  outcome = "none" /\ UNCHANGED walk
  BY DEF FirstGlobal, GlobalDone, RegisterPrefix, TypeOK

LEMMA FlatStep == TypeOK /\ WalkInv /\ FlatInv /\ [Next]_vars => FlatInv'
<1> SUFFICES ASSUME TypeOK, WalkInv, FlatInv, [Next]_vars PROVE FlatInv'
  OBVIOUS
<1>1. ASSUME NEW t \in MsgType, Flatten(t) PROVE FlatInv'
  BY <1>1 DEF Flatten, FlatInv, OncePerType
<1>2. ASSUME EnterField PROVE FlatInv'
  <2>1. ThisType \in MsgType /\ ThisType \notin visited
    BY <1>2, AtFieldFacts DEF EnterField
  <2>2. /\ flat' \in Seq(MsgType) /\ Len(flat') = Len(flat) + 1
        /\ flat'[Len(flat) + 1] = ThisType
        /\ \A i \in 1 .. Len(flat) : flat'[i] = flat[i]
        /\ flat \in Seq(MsgType)
    BY <1>2, <2>1, AppendOne DEF EnterField, TypeOK
  <2>3. visited' = visited \cup {ThisType}
    BY <1>2 DEF EnterField, Entered
  <2>4. DOMAIN flat = 1 .. Len(flat) /\ DOMAIN flat' = 1 .. Len(flat) + 1
        /\ Len(flat) \in Nat
    BY <2>2
  <2>5. \A i \in DOMAIN flat : flat[i] # ThisType
    BY <2>1 DEF FlatInv
  <2>6. \A i \in DOMAIN flat' : i \in DOMAIN flat \/ i = Len(flat) + 1
    BY <2>4
  <2>7. OncePerType'
    BY <2>2, <2>4, <2>5, <2>6 DEF FlatInv, OncePerType
  <2>8. {flat'[i] : i \in DOMAIN flat'} = {flat[i] : i \in DOMAIN flat} \cup {ThisType}
    BY <2>2, <2>4, <2>6
  <2> QED
    BY <2>3, <2>7, <2>8 DEF FlatInv
<1>3. ASSUME \/ FirstGlobal \/ GlobalDone \/ \E p \in Prefixes : RegisterPrefix(p)
             \/ SkipField \/ FailField \/ ReturnInner \/ UNCHANGED vars
      PROVE  FlatInv'
  <2>1. UNCHANGED <<visited, flat>>
    BY <1>3, RegistrySteps DEF SkipField, FailField, ReturnInner, vars, walk
  <2> QED
    BY <2>1 DEF FlatInv, OncePerType
<1> QED
  BY <1>1, <1>2, <1>3 DEF Next

LEMMA NoReentryStep == TypeOK /\ WalkInv /\ NoReentry /\ [Next]_vars => NoReentry'
<1> SUFFICES ASSUME TypeOK, WalkInv, NoReentry, [Next]_vars PROVE NoReentry'
  OBVIOUS
<1> DEFINE Alone(s) == \A i, j \in DOMAIN s : s[i].type = s[j].type => i = j
<1>0. stack \in Seq(Frame) /\ Len(stack) \in Nat /\ Alone(stack)
      /\ DOMAIN stack = 1 .. Len(stack)
  BY DEF TypeOK, NoReentry
<1>1. ASSUME AtField PROVE Alone(Advanced)
  <2>1. /\ Advanced \in Seq(Frame) /\ Len(Advanced) = Len(stack)
        /\ Advanced[1].type = stack[1].type
        /\ \A i \in 2 .. Len(stack) : Advanced[i] = stack[i]
    BY <1>1, AtFieldFacts DEF Top
  <2>2. DOMAIN Advanced = DOMAIN stack
    BY <2>1, <1>0
  <2>3. \A i \in DOMAIN stack : Advanced[i].type = stack[i].type
    BY <2>1, <1>0
  <2> QED
    BY <2>2, <2>3, <1>0
<1>2. ASSUME NEW t \in MsgType, Flatten(t) PROVE NoReentry'
  <2>1. \/ stack' = <<>>
        \/ stack' = <<[type |-> t, next |-> 1]>>
    BY <1>2 DEF Flatten
  <2> QED
    BY <2>1 DEF NoReentry
<1>3. ASSUME SkipField PROVE NoReentry'
  BY <1>1, <1>3 DEF SkipField, NoReentry
<1>4. ASSUME EnterField PROVE NoReentry'
  <2>1. /\ Advanced \in Seq(Frame) /\ Len(Advanced) = Len(stack)
        /\ Advanced[1].type = stack[1].type
        /\ \A i \in 2 .. Len(stack) : Advanced[i] = stack[i]
        /\ ThisType \in MsgType /\ ThisType \notin visited
    BY <1>4, AtFieldFacts DEF EnterField, Top
  <2>2. \A i \in 1 .. Len(stack) : Advanced[i].type # ThisType
    BY <1>0, <2>1 DEF WalkInv
  <2> DEFINE f == [type |-> ThisType, next |-> 1]
  <2>3. f \in Frame
    BY <2>1, FirstFrame
  <2>4. f.type = ThisType /\ stack' = <<f>> \o Advanced
    BY <1>4 DEF EnterField
  <2> HIDE DEF f
  <2>5. /\ Len(stack') = Len(stack) + 1 /\ stack'[1] = f /\ stack' \in Seq(Frame)
        /\ \A i \in 2 .. Len(stack) + 1 : stack'[i] = Advanced[i - 1]
    BY <2>1, <2>3, <2>4, PushTop
  <2>6. DOMAIN stack' = 1 .. Len(stack) + 1
    BY <2>5, <1>0
  <2>7. ASSUME NEW i \in DOMAIN stack', NEW j \in DOMAIN stack',
               stack'[i].type = stack'[j].type
        PROVE  i = j
    <3>1. CASE i = 1 /\ j = 1
      BY <3>1
    <3>2. CASE i = 1 /\ j # 1
      <4>1. j - 1 \in 1 .. Len(stack) /\ stack'[j] = Advanced[j - 1] /\ stack'[1] = f
        BY <3>2, <2>5, <2>6, <1>0
      <4> QED
        BY <4>1, <3>2, <2>2, <2>4, <2>7
    <3>3. CASE i # 1 /\ j = 1
      <4>1. i - 1 \in 1 .. Len(stack) /\ stack'[i] = Advanced[i - 1] /\ stack'[1] = f
        BY <3>3, <2>5, <2>6, <1>0
      <4> QED
        BY <4>1, <3>3, <2>2, <2>4, <2>7
    <3>4. CASE i # 1 /\ j # 1
      <4>1. /\ i - 1 \in DOMAIN Advanced /\ stack'[i] = Advanced[i - 1]
            /\ j - 1 \in DOMAIN Advanced /\ stack'[j] = Advanced[j - 1]
        BY <3>4, <2>1, <2>5, <2>6, <1>0
      <4>2. Alone(Advanced)
        BY <1>1, <1>4 DEF EnterField
      <4>3. i - 1 = j - 1
        BY <4>1, <4>2, <2>7
      <4> QED
        BY <4>3, <2>6, <1>0
    <3> QED
      BY <3>1, <3>2, <3>3, <3>4
  <2> QED
    BY <2>7 DEF NoReentry
<1>5. ASSUME ReturnInner PROVE NoReentry'
  <2>1. stack # <<>> /\ stack' = Tail(stack)
    BY <1>5 DEF ReturnInner, TypeOK
  <2>2. /\ stack' \in Seq(Frame) /\ Len(stack') = Len(stack) - 1
        /\ \A i \in 1 .. Len(stack) - 1 : stack'[i] = stack[i + 1]
    BY <2>1, <1>0, PopTop
  <2>3. DOMAIN stack' = 1 .. Len(stack) - 1
    BY <2>2, <1>0
  <2>4. ASSUME NEW i \in DOMAIN stack', NEW j \in DOMAIN stack',
               stack'[i].type = stack'[j].type
        PROVE  i = j
    <3>1. i + 1 \in DOMAIN stack /\ j + 1 \in DOMAIN stack
      BY <2>3, <1>0
    <3>2. i + 1 = j + 1
      BY <3>1, <2>2, <2>3, <2>4, <1>0
    <3> QED
      BY <3>2, <2>3, <1>0
  <2> QED
    BY <2>4 DEF NoReentry
<1>6. ASSUME FailField PROVE NoReentry'
  BY <1>6 DEF FailField, NoReentry
<1>7. ASSUME \/ FirstGlobal \/ GlobalDone \/ \E p \in Prefixes : RegisterPrefix(p)
             \/ UNCHANGED vars
      PROVE  NoReentry'
  <2>1. UNCHANGED stack
    BY <1>7, RegistrySteps DEF vars, walk
  <2> QED
    BY <2>1 DEF NoReentry
<1> QED
  BY <1>2, <1>3, <1>4, <1>5, <1>6, <1>7 DEF Next

(* Advancing the innermost call passes its current field and no other. *)
LEMMA AdvancedPending ==
  ASSUME TypeOK, WalkInv, AtField, NEW t \in MsgType, NEW k \in Nat,
         Pending(t, k), ~(t = Top.type /\ k = Top.next)
  PROVE  \E i \in 1 .. Len(stack) : Advanced[i].type = t /\ Advanced[i].next <= k
<1>1. PICK i \in DOMAIN stack : stack[i].type = t /\ stack[i].next <= k
  BY DEF Pending
<1>2. /\ stack \in Seq(Frame) /\ Len(stack) \in Nat \ {0} /\ DOMAIN stack = 1 .. Len(stack)
      /\ Advanced[1].type = Top.type /\ Advanced[1].next = Top.next + 1
      /\ \A j \in 2 .. Len(stack) : Advanced[j] = stack[j]
      /\ Top \in Frame
  BY AtFieldFacts DEF TypeOK
<1>3. CASE i = 1
  <2>1. t = Top.type /\ Top.next <= k /\ Top.next # k
    BY <1>1, <1>3 DEF Top
  <2>2. Top.next + 1 <= k
    BY <1>2, <2>1 DEF Frame
  <2>3. 1 \in 1 .. Len(stack)
    BY <1>2
  <2> QED
    BY <1>2, <2>1, <2>2, <2>3
<1>4. CASE i # 1
  <2>1. i \in 2 .. Len(stack)
    BY <1>2, <1>4
  <2> QED
    BY <1>1, <1>2, <2>1
<1> QED
  BY <1>3, <1>4

LEMMA CoverStep == TypeOK /\ WalkInv /\ CoverInv /\ [Next]_vars => CoverInv'
<1> SUFFICES ASSUME TypeOK, WalkInv, CoverInv, [Next]_vars PROVE CoverInv'
  OBVIOUS
<1>0. stack \in Seq(Frame) /\ Len(stack) \in Nat /\ DOMAIN stack = 1 .. Len(stack)
      /\ visited \subseteq MsgType
  BY DEF TypeOK
<1>1. ASSUME NEW t \in MsgType, Flatten(t) PROVE CoverInv'
  <2>1. CASE ~Resolves(t)
    BY <1>1, <2>1 DEF Flatten, CoverInv, Walking
  <2>2. CASE Resolves(t)
    <3>1. /\ visited' = {t} /\ stack' = <<[type |-> t, next |-> 1]>>
          /\ UNCHANGED registry
      BY <1>1, <2>2 DEF Flatten
    <3>2. Definition(t)' \in Seq(Field)
      BY <3>1, <2>2, DefinitionType DEF registry, Definition
    <3>3. ASSUME NEW k \in DOMAIN Definition(t)' PROVE Pending(t, k)'
      <4>1. k \in Nat /\ 1 <= k
        BY <3>2, <3>3
      <4> QED
        BY <3>1, <4>1 DEF Pending
    <3> QED
      BY <3>1, <3>3 DEF CoverInv, Covered
  <2> QED
    BY <2>1, <2>2
<1>2. ASSUME SkipField PROVE CoverInv'
  <2>1. /\ AtField /\ outcome = "running" /\ stack' = Advanced
        /\ Custom(ThisField) => ThisType \in visited
        /\ UNCHANGED <<registry, root, visited>>
    BY <1>2 DEF SkipField, AtField
  <2>2. \A u : Definition(u)' = Definition(u)
    BY <2>1, SameMeaning
  <2>3. ASSUME NEW t \in visited, NEW k \in DOMAIN Definition(t), Custom(Definition(t)[k])
        PROVE  Nested(Definition(t)[k], t[1]) \in visited \/ Pending(t, k)'
    <3>0. t \in MsgType /\ k \in Nat
      <4>1. t \in MsgType /\ Resolves(t)
        BY <1>0, <2>1 DEF WalkInv, Walking
      <4> QED
        BY <4>1, DefinitionType
    <3>1. CASE t = Top.type /\ k = Top.next
      <4>1. Definition(t)[k] = ThisField /\ Nested(Definition(t)[k], t[1]) = ThisType
        BY <3>1 DEF ThisField, ThisType, CurrentPackage
      <4> QED
        BY <4>1, <2>1, <2>3
    <3>2. CASE ~(t = Top.type /\ k = Top.next) /\ Pending(t, k)
      <4>1. \E i \in 1 .. Len(stack) : Advanced[i].type = t /\ Advanced[i].next <= k
        BY <3>0, <3>2, <2>1, AdvancedPending
      <4>2. DOMAIN Advanced = 1 .. Len(stack)
        BY <2>1, AtFieldFacts
      <4> QED
        BY <4>1, <4>2, <2>1 DEF Pending
    <3>3. Nested(Definition(t)[k], t[1]) \in visited \/ Pending(t, k)
      BY <2>1, <2>3 DEF CoverInv, Walking, Covered
    <3> QED
      BY <3>1, <3>2, <3>3
  <2> QED
    BY <2>1, <2>2, <2>3 DEF CoverInv, Covered
<1>3. ASSUME EnterField PROVE CoverInv'
  <2>1. /\ AtField /\ outcome = "running" /\ Resolves(ThisType)
        /\ stack' = <<[type |-> ThisType, next |-> 1]>> \o Advanced
        /\ visited' = visited \cup {ThisType}
        /\ UNCHANGED <<registry, root>>
    BY <1>3 DEF EnterField, AtField, Entered
  <2>2. \A u : Definition(u)' = Definition(u)
    BY <2>1, SameMeaning
  <2>3. /\ ThisType \in MsgType /\ Advanced \in Seq(Frame) /\ Len(Advanced) = Len(stack)
    BY <2>1, AtFieldFacts
  <2> DEFINE f == [type |-> ThisType, next |-> 1]
  <2>4. f \in Frame /\ f.type = ThisType /\ f.next = 1
    BY <2>3, FirstFrame
  <2>5. stack' = <<f>> \o Advanced
    BY <2>1
  <2> HIDE DEF f
  <2>6. /\ Len(stack') = Len(stack) + 1 /\ stack'[1] = f /\ stack' \in Seq(Frame)
        /\ \A i \in 1 .. Len(stack) : stack'[i + 1] = Advanced[i]
    BY <2>3, <2>4, <2>5, PushTop
  <2>7. 1 \in DOMAIN stack' /\ \A i \in 1 .. Len(stack) : i + 1 \in DOMAIN stack'
    BY <2>6, <1>0
  <2>8. ASSUME NEW t \in visited, NEW k \in DOMAIN Definition(t), Custom(Definition(t)[k])
        PROVE  Nested(Definition(t)[k], t[1]) \in visited' \/ Pending(t, k)'
    <3>0. t \in MsgType /\ k \in Nat
      <4>1. t \in MsgType /\ Resolves(t)
        BY <1>0, <2>1 DEF WalkInv, Walking
      <4> QED
        BY <4>1, DefinitionType
    <3>1. CASE t = Top.type /\ k = Top.next
      <4>1. Nested(Definition(t)[k], t[1]) = ThisType
        BY <3>1 DEF ThisField, ThisType, CurrentPackage
      <4> QED
        BY <4>1, <2>1
    <3>2. CASE ~(t = Top.type /\ k = Top.next) /\ Pending(t, k)
      <4>1. PICK i \in 1 .. Len(stack) : Advanced[i].type = t /\ Advanced[i].next <= k
        BY <3>0, <3>2, <2>1, AdvancedPending
      <4>2. stack'[i + 1].type = t /\ stack'[i + 1].next <= k /\ i + 1 \in DOMAIN stack'
        BY <4>1, <2>6, <2>7
      <4> QED
        BY <4>2 DEF Pending
    <3>3. Nested(Definition(t)[k], t[1]) \in visited \/ Pending(t, k)
      BY <2>1, <2>8 DEF CoverInv, Walking, Covered
    <3> QED
      BY <3>1, <3>2, <3>3, <2>1
  <2>9. ASSUME NEW t \in visited', t = ThisType, NEW k \in DOMAIN Definition(t)
        PROVE  Pending(t, k)'
    <3>0. Definition(t) \in Seq(Field)
      BY <2>1, <2>3, <2>9, DefinitionType
    <3>1. k \in Nat /\ 1 <= k
      BY <3>0, <2>9
    <3> QED
      BY <3>1, <2>4, <2>6, <2>7, <2>9 DEF Pending
  <2> QED
    BY <2>1, <2>2, <2>8, <2>9 DEF CoverInv, Covered
<1>4. ASSUME ReturnInner PROVE CoverInv'
  <2>1. /\ outcome = "running" /\ stack' = Tail(stack) /\ stack # <<>>
        /\ Top.next \notin DOMAIN Definition(Top.type)
        /\ UNCHANGED <<registry, root, visited>>
    BY <1>4 DEF ReturnInner, TypeOK
  <2>2. \A u : Definition(u)' = Definition(u)
    BY <2>1, SameMeaning
  <2>3. /\ stack' \in Seq(Frame) /\ Len(stack') = Len(stack) - 1
        /\ \A i \in 1 .. Len(stack) - 1 : stack'[i] = stack[i + 1]
    BY <2>1, <1>0, PopTop
  <2>4. ASSUME NEW t \in visited, NEW k \in DOMAIN Definition(t), Pending(t, k)
        PROVE  Pending(t, k)'
    <3>1. PICK i \in DOMAIN stack : stack[i].type = t /\ stack[i].next <= k
      BY <2>4 DEF Pending
    <3>2. i # 1
      <4> SUFFICES ASSUME i = 1 PROVE FALSE
        OBVIOUS
      <4>0. stack[1] \in Frame
        BY <1>0, <3>1
      <4>1. t = Top.type /\ Top.next <= k /\ Top.next \in Nat \ {0}
        BY <4>0, <3>1 DEF Top, Frame
      <4>2. Definition(t) \in Seq(Field)
        BY <1>0, <2>1, DefinitionType DEF WalkInv, Walking
      <4>3. Top.next \in DOMAIN Definition(t)
        BY <4>1, <4>2, <2>4
      <4> QED
        BY <4>1, <4>3, <2>1
    <3>3. i - 1 \in DOMAIN stack' /\ i - 1 \in 1 .. Len(stack) - 1 /\ (i - 1) + 1 = i
      BY <1>0, <2>3, <3>1, <3>2
    <3>4. stack'[i - 1] = stack[i]
      BY <2>3, <3>3
    <3> QED
      BY <3>1, <3>3, <3>4 DEF Pending
  <2>5. \A t \in visited : \A k \in DOMAIN Definition(t) : Covered(t, k)
    BY <2>1 DEF CoverInv, Walking
  <2> QED
    BY <2>1, <2>2, <2>4, <2>5 DEF CoverInv, Covered
<1>5. ASSUME FailField PROVE CoverInv'
  BY <1>5 DEF FailField, CoverInv, Walking
<1>6. ASSUME FirstGlobal \/ GlobalDone \/ \E p \in Prefixes : RegisterPrefix(p)
      PROVE  CoverInv'
  <2>1. outcome' = "none"
    BY <1>6, RegistrySteps DEF walk
  <2> QED
    BY <2>1 DEF CoverInv, Walking
<1>7. ASSUME UNCHANGED vars PROVE CoverInv'
  <2>1. UNCHANGED <<registry, root, visited, stack, outcome>>
    BY <1>7 DEF vars, walk
  <2>2. \A u : Definition(u)' = Definition(u)
    BY <2>1, SameMeaning
  <2> QED
    BY <2>1, <2>2 DEF CoverInv, Walking, Covered, Pending
<1> QED
  BY <1>1, <1>2, <1>3, <1>4, <1>5, <1>6, <1>7 DEF Next

LEMMA ReachStep == TypeOK /\ WalkInv /\ ReachInv /\ [Next]_vars => ReachInv'
<1> SUFFICES ASSUME TypeOK, WalkInv, ReachInv, [Next]_vars PROVE ReachInv'
  OBVIOUS
<1>1. ASSUME NEW t \in MsgType, Flatten(t) PROVE ReachInv'
  <2>1. root' = t /\ visited' \subseteq {t}
    BY <1>1 DEF Flatten
  <2>2. t \in Reachable'
    BY <2>1 DEF Reachable
  <2> QED
    BY <2>1, <2>2 DEF ReachInv
<1>2. ASSUME EnterField PROVE ReachInv'
  <2>1. /\ AtField /\ outcome = "running" /\ Custom(ThisField)
        /\ visited' = visited \cup {ThisType}
        /\ UNCHANGED <<registry, root>>
    BY <1>2 DEF EnterField, AtField, Entered
  <2>2. Reachable' = Reachable
    BY <2>1, SameMeaning
  <2>3. /\ Top.type \in Reachable /\ Resolves(Top.type)
        /\ Top.next \in DOMAIN Definition(Top.type)
        /\ ThisType = Nested(ThisField, Top.type[1]) /\ ThisType \in MsgType
    BY <2>1, AtFieldFacts DEF ReachInv, AtField
  <2>4. ThisType \in Reachable
    BY <2>1, <2>3, ReachableNext DEF ThisField
  <2> QED
    BY <2>1, <2>2, <2>4 DEF ReachInv
<1>3. ASSUME \/ SkipField \/ FailField \/ ReturnInner \/ UNCHANGED vars
      PROVE  ReachInv'
  <2>1. UNCHANGED <<registry, root, visited>> /\ (outcome' # "none" => outcome # "none")
    BY <1>3 DEF SkipField, FailField, ReturnInner, AtField, vars, walk
  <2>2. Reachable' = Reachable
    BY <2>1, SameMeaning
  <2> QED
    BY <2>1, <2>2 DEF ReachInv
<1>4. ASSUME FirstGlobal \/ GlobalDone \/ \E p \in Prefixes : RegisterPrefix(p)
      PROVE  ReachInv'
  <2>1. outcome' = "none"
    BY <1>4, RegistrySteps DEF walk
  <2> QED
    BY <2>1 DEF ReachInv
<1> QED
  BY <1>1, <1>2, <1>3, <1>4 DEF Next

LEMMA FailStep ==
  TypeOK /\ WalkInv /\ ReachInv /\ FailsForCause /\ [Next]_vars => FailsForCause'
<1> SUFFICES ASSUME TypeOK, WalkInv, ReachInv, FailsForCause, [Next]_vars
             PROVE  FailsForCause'
  OBVIOUS
<1>1. ASSUME NEW t \in MsgType, Flatten(t) PROVE FailsForCause'
  <2>1. CASE Resolves(t)
    BY <1>1, <2>1 DEF Flatten, FailsForCause
  <2>2. CASE ~Resolves(t)
    <3>1. root' = t /\ ~Resolves(t)'
      BY <1>1, <2>2 DEF Flatten, registry, Resolves
    <3>2. t \in Reachable'
      BY <3>1 DEF Reachable
    <3> QED
      BY <3>1, <3>2 DEF FailsForCause
  <2> QED
    BY <2>1, <2>2
<1>2. ASSUME FailField PROVE FailsForCause'
  <2>1. /\ AtField /\ outcome = "running" /\ Custom(ThisField) /\ ~Resolves(ThisType)
        /\ UNCHANGED <<registry, root>>
    BY <1>2 DEF FailField, AtField
  <2>2. Reachable' = Reachable /\ \A u : Resolves(u)' = Resolves(u)
    BY <2>1, SameMeaning
  <2>3. /\ Top.type \in Reachable /\ Resolves(Top.type)
        /\ Top.next \in DOMAIN Definition(Top.type)
        /\ ThisType = Nested(ThisField, Top.type[1]) /\ ThisType \in MsgType
    BY <2>1, AtFieldFacts DEF ReachInv, AtField
  <2>4. ThisType \in Reachable
    BY <2>1, <2>3, ReachableNext DEF ThisField
  <2> QED
    BY <2>1, <2>2, <2>4 DEF FailsForCause
<1>3. ASSUME \/ SkipField \/ EnterField \/ ReturnInner
             \/ FirstGlobal \/ GlobalDone \/ \E p \in Prefixes : RegisterPrefix(p)
      PROVE  FailsForCause'
  <2>1. outcome' # "error"
    BY <1>3, RegistrySteps
       DEF SkipField, EnterField, ReturnInner, AtField, walk
  <2> QED
    BY <2>1 DEF FailsForCause
<1>4. ASSUME UNCHANGED vars PROVE FailsForCause'
  <2>1. UNCHANGED <<registry, root, outcome>>
    BY <1>4 DEF vars, walk
  <2>2. Reachable' = Reachable /\ \A u : Resolves(u)' = Resolves(u)
    BY <2>1, SameMeaning
  <2> QED
    BY <2>1, <2>2 DEF FailsForCause
<1> QED
  BY <1>1, <1>2, <1>3, <1>4 DEF Next

LEMMA SchemaInit == Init => SchemaInv
<1>1. Init => FlatInv /\ NoReentry /\ CoverInv /\ ReachInv /\ FailsForCause
  BY DEF Init, FlatInv, OncePerType, NoReentry, CoverInv, Walking, ReachInv, FailsForCause
<1> QED
  BY <1>1, TypeInit, WalkInit DEF SchemaInv

\* The inductive invariant of the walk.
THEOREM SchemaSafe == Spec => []SchemaInv
<1>1. SchemaInv /\ [Next]_vars => SchemaInv'
  BY Typing, WalkStep, FlatStep, NoReentryStep, CoverStep, ReachStep, FailStep
     DEF SchemaInv
<1> QED
  BY <1>1, SchemaInit, PTL DEF Spec

\* No type's text appears twice in a flattened definition.
THEOREM EachTypeOnce == Spec => []OncePerType
<1>1. SchemaInv => OncePerType
  BY DEF SchemaInv, FlatInv
<1> QED
  BY <1>1, SchemaSafe, PTL

\* Cyclic definitions do not recurse for ever: no call is re-entered.
THEOREM CyclesEnd == Spec => []NoReentry
<1>1. SchemaInv => NoReentry
  BY DEF SchemaInv
<1> QED
  BY <1>1, SchemaSafe, PTL

\* Flatten fails only for a definition it really needed.
THEOREM FailureHasCause == Spec => []FailsForCause
<1>1. SchemaInv => FailsForCause
  BY DEF SchemaInv
<1> QED
  BY <1>1, SchemaSafe, PTL

(* When the stack is empty every mentioned type is visited, so the visited  *)
(* types are a closed set that holds the root.                              *)
LEMMA WholeWalk == SchemaInv => Complete
<1> SUFFICES ASSUME SchemaInv, outcome = "flattened"
             PROVE  /\ {flat[i] : i \in DOMAIN flat} = Reachable
                    /\ \A t \in Reachable : Resolves(t)
  BY DEF Complete
<1>1. /\ TypeOK /\ WalkInv /\ visited \subseteq Reachable /\ root \in visited
      /\ visited = {flat[i] : i \in DOMAIN flat} /\ stack = <<>>
      /\ \A t \in visited : Resolves(t)
      /\ \A t \in visited : \A k \in DOMAIN Definition(t) : Covered(t, k)
      /\ visited \in SUBSET MsgType
  BY DEF SchemaInv, TypeOK, WalkInv, Walking, FlatInv, CoverInv, ReachInv
<1>2. \A t \in visited : \A k \in DOMAIN Definition(t) :
        Custom(Definition(t)[k]) => Nested(Definition(t)[k], t[1]) \in visited
  BY <1>1 DEF Covered, Pending
<1>3. Closed(visited)
  BY <1>1, <1>2 DEF Closed, Mentions
<1>4. Reachable \subseteq visited
  BY <1>1, <1>3 DEF Reachable
<1> QED
  BY <1>1, <1>4

\* A flattened definition holds exactly the types that its root refers to,
\* for every graph of definitions.
THEOREM FlattenComplete == Spec => []Complete
<1> QED
  BY WholeWalk, SchemaSafe, PTL
=============================================================================

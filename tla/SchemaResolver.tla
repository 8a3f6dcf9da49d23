--------------------------- MODULE SchemaResolver ---------------------------
(***************************************************************************)
(* The registry of ROS message definitions and the flattening of one type   *)
(* with everything it refers to                                              *)
(* (internal/infrastructure/mcap_schema_resolver/schema.go).                 *)
(*                                                                           *)
(* Global registers, once, every .msg file below the prefixes of             *)
(* AMENT_PREFIX_PATH, in the sorted order of the prefixes, a later file      *)
(* replacing an earlier one of the same type.  Flatten then walks from a     *)
(* root type through the fields of its definition, depth first, appending    *)
(* each type's text the first time a field mentions it.  The recursion of    *)
(* flattenInner is the stack of its calls: the type of each call and the     *)
(* next line of its definition.                                              *)
(*                                                                           *)
(* A type is a pair of a package and a name ("package/msg/Name"); a          *)
(* definition is the sequence of its fields; the text of a line is reduced   *)
(* to the way it names its type.  Prefixes are numbered in sorted order.     *)
(***************************************************************************)
EXTENDS Integers, Sequences

CONSTANTS
  Prefixes,     \* installation prefixes, as positive numbers in sorted order
  Packages,
  Names,
  Disks         \* the file trees the agent may find

MsgType == Packages \X Names

(* How a line names the type of its field; "other" is a name of three or    *)
(* more segments without "/msg/", which the code skips.                     *)
Forms == {"builtin", "relative", "package/Name", "package/msg/Name", "other"}

Field == [form : Forms, type : MsgType]

Disk == [share : [Prefixes -> {"absent", "denied", "listed"}],
         ships : [Prefixes -> SUBSET MsgType],
         unreadable : [Prefixes -> SUBSET MsgType],
         text : [Prefixes -> [MsgType -> Seq(Field)]]]

ASSUME PrefixesAssumption == Prefixes \subseteq Nat \ {0}
ASSUME DisksAssumption == Disks \subseteq Disk

NotFound == 0       \* a type that is not a key of ResolvedMap
NoRoot == <<>>      \* before the first Flatten
Frame == [type : MsgType, next : Nat \ {0}]

VARIABLES
  disk,           \* the file tree; it does not change
  env,            \* the prefixes in AMENT_PREFIX_PATH
  once,           \* globalOnce: "no", "running" or "done"
  globalInitErr,  \* "nil", "unset", "readdir" or "empty"
  todo,           \* prefixes not yet registered
  resolvedMap,    \* ResolvedMap: the prefix that a type's file is under
  root,           \* the argument of the current or last Flatten
  stack,          \* calls of flattenInner, innermost first
  visited,        \* types whose flattenInner has begun
  flat,           \* the types whose text has been appended
  outcome         \* "none", "running", "flattened" or "error"

registry == <<disk, env, once, globalInitErr, todo, resolvedMap>>
walk == <<root, stack, visited, flat, outcome>>
vars == <<registry, walk>>

-----------------------------------------------------------------------------
(* Registration *)

Init == /\ disk \in Disks
        /\ env \in SUBSET Prefixes
        /\ once = "no" /\ globalInitErr = "nil" /\ todo = {}
        /\ resolvedMap = [t \in MsgType |-> NotFound]
        /\ root = NoRoot
        /\ stack = <<>> /\ visited = {} /\ flat = <<>> /\ outcome = "none"

(* The first call of Global: an unset or blank path fails for good. *)
FirstGlobal ==
  /\ once = "no"
  /\ IF env = {}
     THEN /\ once' = "done" /\ globalInitErr' = "unset"
          /\ UNCHANGED todo
     ELSE /\ once' = "running" /\ todo' = env
          /\ UNCHANGED globalInitErr
  /\ UNCHANGED <<disk, env, resolvedMap, walk>>

(* Bug: the prefixes are taken in the order of the variable, as in          *)
(* RegisterRos2StandardPaths.                                               *)
IsNextAny(p) == TRUE

(* sort.Strings: the prefixes are taken in ascending order whatever their   *)
(* order in the variable.                                                   *)
IsNext(p) == \A q \in todo : p <= q

(* RegisterMsgDir: each file of the prefix sets its key. *)
Registered(p) == [t \in MsgType |-> IF t \in disk.ships[p] THEN p ELSE resolvedMap[t]]

(* A prefix without a share directory is skipped; one that cannot be listed *)
(* ends the registration with its error.                                    *)
RegisterPrefix(p) ==
  /\ once = "running" /\ p \in todo /\ IsNext(p)
  /\ \/ /\ disk.share[p] = "denied"
        /\ once' = "done" /\ globalInitErr' = "readdir"
        /\ UNCHANGED <<todo, resolvedMap>>
     \/ /\ disk.share[p] # "denied"
        /\ todo' = todo \ {p}
        /\ resolvedMap' = IF disk.share[p] = "listed" THEN Registered(p) ELSE resolvedMap
        /\ UNCHANGED <<once, globalInitErr>>
  /\ UNCHANGED <<disk, env, walk>>

GlobalDone ==
  /\ once = "running" /\ todo = {}
  /\ once' = "done"
  /\ globalInitErr' = IF \A t \in MsgType : resolvedMap[t] = NotFound THEN "empty" ELSE "nil"
  /\ UNCHANGED <<disk, env, todo, resolvedMap, walk>>

-----------------------------------------------------------------------------
(* Flattening *)

(* Resolve: the key is registered and its file can be read. *)
Resolves(t) == /\ resolvedMap[t] # NotFound
               /\ t \notin disk.unreadable[resolvedMap[t]]

Definition(t) == disk.text[resolvedMap[t]][t]

Custom(f) == f.form \in {"relative", "package/Name", "package/msg/Name"}

(* resolveCustomType: a bare name belongs to the current package. *)
Nested(f, currentPackage) ==
  IF f.form = "relative" THEN <<currentPackage, f.type[2]>> ELSE f.type

Flatten(t) ==
  /\ once = "done" /\ globalInitErr = "nil" /\ outcome # "running"
  /\ root' = t
  /\ IF Resolves(t)
     THEN /\ flat' = <<t>> /\ visited' = {t} /\ outcome' = "running"
          /\ stack' = <<[type |-> t, next |-> 1]>>
     ELSE /\ flat' = <<>> /\ visited' = {} /\ outcome' = "error" /\ stack' = <<>>
  /\ UNCHANGED registry

Top == stack[1]

(* Bug: the package of the type that was asked for.                         *)
CurrentPackageOfRoot == root[1]

CurrentPackage == Top.type[1]

AtField == /\ outcome = "running"
           /\ Top.next \in DOMAIN Definition(Top.type)

ThisField == Definition(Top.type)[Top.next]

ThisType == Nested(ThisField, CurrentPackage)

Advanced == <<[Top EXCEPT !.next = @ + 1]>> \o Tail(stack)

(* A built-in or skipped name, or a type that has been seen. *)
SkipField ==
  /\ AtField
  /\ Custom(ThisField) => ThisType \in visited
  /\ stack' = Advanced
  /\ UNCHANGED <<registry, root, visited, flat, outcome>>

(* Bug: a type is marked when the call returns.                             *)
EnteredLate(t) == visited

(* flattenInner marks its type before it looks at the fields.               *)
Entered(t) == visited \cup {t}

EnterField ==
  /\ AtField /\ Custom(ThisField)
  /\ ThisType \notin visited
  /\ Resolves(ThisType)
  /\ flat' = Append(flat, ThisType)
  /\ visited' = Entered(ThisType)
  /\ stack' = <<[type |-> ThisType, next |-> 1]>> \o Advanced
  /\ UNCHANGED <<registry, root, outcome>>

(* The error of Resolve leaves every call; Flatten returns no text. *)
FailField ==
  /\ AtField /\ Custom(ThisField)
  /\ ThisType \notin visited
  /\ ~Resolves(ThisType)
  /\ outcome' = "error" /\ stack' = <<>>
  /\ UNCHANGED <<registry, root, visited, flat>>

(* The loop over the lines is over: return to the calling flattenInner.     *)
ReturnInner ==
  /\ outcome = "running"
  /\ Top.next \notin DOMAIN Definition(Top.type)
  /\ stack' = Tail(stack)
  /\ outcome' = IF Tail(stack) = <<>> THEN "flattened" ELSE "running"
  /\ UNCHANGED <<registry, root, visited, flat>>

-----------------------------------------------------------------------------
Next == \/ FirstGlobal \/ GlobalDone
        \/ \E p \in Prefixes : RegisterPrefix(p)
        \/ \E t \in MsgType : Flatten(t)
        \/ SkipField \/ EnterField \/ FailField \/ ReturnInner

Spec == Init /\ [][Next]_vars

-----------------------------------------------------------------------------
(* Properties *)

TypeOK ==
  /\ disk \in Disk /\ env \in SUBSET Prefixes /\ todo \in SUBSET env
  /\ once \in {"no", "running", "done"}
  /\ globalInitErr \in {"nil", "unset", "readdir", "empty"}
  /\ resolvedMap \in [MsgType -> Prefixes \cup {NotFound}]
  /\ root \in MsgType \cup {NoRoot} /\ visited \in SUBSET MsgType /\ flat \in Seq(MsgType)
  /\ stack \in Seq(Frame)
  /\ outcome \in {"none", "running", "flattened", "error"}
  /\ (outcome = "running") = (stack # <<>>)
  /\ outcome # "none" => once = "done" /\ globalInitErr = "nil"

(* The prefixes of the path that ship the file of type t. *)
Shipping(t) == {p \in env : disk.share[p] = "listed" /\ t \in disk.ships[p]}

(* A usable registry does not depend on the order of the prefixes in the    *)
(* path: a type comes from the last prefix, in sorted order, that ships it. *)
LastPrefixWins ==
  once = "done" /\ globalInitErr = "nil" =>
    \A t \in MsgType :
      IF Shipping(t) = {} THEN resolvedMap[t] = NotFound
      ELSE /\ resolvedMap[t] \in Shipping(t)
           /\ \A p \in Shipping(t) : p <= resolvedMap[t]

(* What a definition means: a bare name is a type of the package that the   *)
(* definition itself belongs to.                                            *)
Mentions(t) ==
  IF Resolves(t)
  THEN {Nested(Definition(t)[i], t[1]) : i \in {j \in DOMAIN Definition(t) : Custom(Definition(t)[j])}}
  ELSE {}

Closed(S) == \A t \in S : Mentions(t) \subseteq S

(* The types that the root refers to, directly or not: those in every       *)
(* closed set that holds the root.                                          *)
Reachable == {t \in MsgType : \A S \in SUBSET MsgType : root \in S /\ Closed(S) => t \in S}

(* No type's text appears twice in the flattened definition, however many   *)
(* fields mention it and whatever cycles they form.                         *)
OncePerType == \A i, j \in DOMAIN flat : flat[i] = flat[j] => i = j

(* flattenInner never re-enters a type that it is still in, so cyclic       *)
(* definitions do not recurse for ever.                                     *)
NoReentry == \A i, j \in DOMAIN stack : stack[i].type = stack[j].type => i = j

(* A flattened definition holds exactly the types that the root refers to,  *)
(* each of them registered and readable.                                    *)
Complete ==
  outcome = "flattened" => /\ {flat[i] : i \in DOMAIN flat} = Reachable
                           /\ \A t \in Reachable : Resolves(t)

(* Flatten fails only if the root or a type it refers to has no readable    *)
(* definition.                                                              *)
FailsForCause == outcome = "error" => \E t \in Reachable : ~Resolves(t)
=============================================================================

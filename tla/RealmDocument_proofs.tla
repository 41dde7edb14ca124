-------------------------- MODULE RealmDocument_proofs --------------------------
(***************************************************************************)
(* The type invariant of RealmDocument, and what the two resources leave   *)
(* in the realm document, for any set of flows and any number of events.   *)
(***************************************************************************)
EXTENDS RealmDocument, TLAPS

-----------------------------------------------------------------------------
(* What is left of the programs, by what comes first.                      *)

GetsFirst == {<<"get", "put", "get", "record", "read">>, <<"get", "put", "read">>, <<"get", "put">>}
PutsNext == {<<"put", "get", "record", "read">>, <<"put", "read">>, <<"put">>}
NotWritten == GetsFirst \cup PutsNext

RealmTodo == {<<"check", "put">>, <<"put">>, <<>>}
BindingsTodo(o) ==
  CASE o = "create" -> {<<"get", "put", "get", "record", "read">>, <<"put", "get", "record", "read">>,
                        <<"get", "record", "read">>, <<"record", "read">>, <<"read">>, <<>>}
    [] o = "update" -> {<<"get", "put", "read">>, <<"put", "read">>, <<"read">>, <<>>}
    [] o = "delete" -> {<<"get", "put">>, <<"put">>, <<>>}
    [] o = "none" -> {<<>>}
BindingOps == {"none", "create", "update", "delete"}
Names == {"realm", "bindings"}

LEMMA ShortSequences ==
  ASSUME NEW a, NEW b, NEW c, NEW d, NEW e
  PROVE  /\ Head(<<a>>) = a /\ Tail(<<a>>) = <<>>
         /\ Head(<<a, b>>) = a /\ Tail(<<a, b>>) = <<b>>
         /\ Head(<<a, b, c>>) = a /\ Tail(<<a, b, c>>) = <<b, c>>
         /\ Head(<<a, b, c, d>>) = a /\ Tail(<<a, b, c, d>>) = <<b, c, d>>
         /\ Head(<<a, b, c, d, e>>) = a /\ Tail(<<a, b, c, d, e>>) = <<b, c, d, e>>
<1>1. Head(<<a>>) = a /\ Tail(<<a>>) = <<>> OBVIOUS
<1>2. Head(<<a, b>>) = a /\ Tail(<<a, b>>) = <<b>> OBVIOUS
<1>3. Head(<<a, b, c>>) = a /\ Tail(<<a, b, c>>) = <<b, c>> OBVIOUS
<1>4. Head(<<a, b, c, d>>) = a /\ Tail(<<a, b, c, d>>) = <<b, c, d>> OBVIOUS
<1>5. Head(<<a, b, c, d, e>>) = a /\ Tail(<<a, b, c, d, e>>) = <<b, c, d, e>> OBVIOUS
<1> QED BY <1>1, <1>2, <1>3, <1>4, <1>5

LEMMA RealmStep ==
  ASSUME NEW t \in RealmTodo, t # <<>>
  PROVE  Tail(t) \in RealmTodo /\ Head(t) \in {"check", "put"} /\ (Head(t) = "put" => Tail(t) = <<>>)
<1>1. CASE t = <<"check", "put">>
  BY <1>1, ShortSequences DEF RealmTodo
<1>2. CASE t = <<"put">>
  BY <1>2, ShortSequences DEF RealmTodo
<1> QED BY <1>1, <1>2 DEF RealmTodo

\* What one step of the bindings' program does to the rest of it.
StepsOn(o, t) ==
  /\ Tail(t) \in BindingsTodo(o)
  /\ Head(t) \in {"get", "put", "record", "read"}
  /\ Head(t) = "get" => Tail(t) # <<"read">> /\ (Tail(t) \in PutsNext <=> t \in GetsFirst)
                        /\ (Tail(t) \in NotWritten => t \in NotWritten)
                        /\ (t \in NotWritten => Tail(t) \in NotWritten) /\ Tail(t) # <<>>
  /\ Head(t) = "put" => t \in PutsNext /\ Tail(t) \notin NotWritten /\ (Tail(t) = <<"read">> => o = "update")
                        /\ (o # "delete" => Tail(t) # <<>>)
  /\ Head(t) = "record" => o = "create" /\ t \notin NotWritten /\ Tail(t) \notin NotWritten
  /\ Head(t) = "read" => t = <<"read">> /\ Tail(t) \notin NotWritten /\ o # "delete"

LEMMA BindingsStep ==
  ASSUME NEW o \in BindingOps, NEW t \in BindingsTodo(o), t # <<>>
  PROVE  StepsOn(o, t)
<1>1. CASE t = <<"get", "put", "get", "record", "read">>
  BY <1>1, ShortSequences, SMTT(60) DEF StepsOn, BindingOps, BindingsTodo, GetsFirst, PutsNext, NotWritten
<1>2. CASE t = <<"put", "get", "record", "read">>
  BY <1>2, ShortSequences, SMTT(60) DEF StepsOn, BindingOps, BindingsTodo, GetsFirst, PutsNext, NotWritten
<1>3. CASE t = <<"get", "record", "read">>
  BY <1>3, ShortSequences, SMTT(60) DEF StepsOn, BindingOps, BindingsTodo, GetsFirst, PutsNext, NotWritten
<1>4. CASE t = <<"record", "read">>
  BY <1>4, ShortSequences, SMTT(60) DEF StepsOn, BindingOps, BindingsTodo, GetsFirst, PutsNext, NotWritten
<1>5. CASE t = <<"read">>
  BY <1>5, ShortSequences, SMTT(60) DEF StepsOn, BindingOps, BindingsTodo, GetsFirst, PutsNext, NotWritten
<1>6. CASE t = <<"get", "put", "read">>
  BY <1>6, ShortSequences, SMTT(60) DEF StepsOn, BindingOps, BindingsTodo, GetsFirst, PutsNext, NotWritten
<1>7. CASE t = <<"put", "read">>
  BY <1>7, ShortSequences, SMTT(60) DEF StepsOn, BindingOps, BindingsTodo, GetsFirst, PutsNext, NotWritten
<1>8. CASE t = <<"get", "put">>
  BY <1>8, ShortSequences, SMTT(60) DEF StepsOn, BindingOps, BindingsTodo, GetsFirst, PutsNext, NotWritten
<1>9. CASE t = <<"put">>
  BY <1>9, ShortSequences, SMTT(60) DEF StepsOn, BindingOps, BindingsTodo, GetsFirst, PutsNext, NotWritten
<1> QED
  BY <1>1, <1>2, <1>3, <1>4, <1>5, <1>6, <1>7, <1>8, <1>9 DEF BindingOps, BindingsTodo

\* Nothing is left of a program that has come to its end.
LEMMA NothingLeft ==
  /\ \A o \in BindingOps : <<>> \in BindingsTodo(o)
  /\ <<>> \notin NotWritten /\ <<>> # <<"read">> /\ <<>> \in RealmTodo
BY DEF BindingOps, BindingsTodo, NotWritten, GetsFirst, PutsNext, RealmTodo

LEMMA WholeProgram ==
  ASSUME NEW o \in BindingOps
  PROVE  /\ Program[o] \in BindingsTodo(o) /\ Program[o] # <<"read">> /\ Program[o] \notin PutsNext
         /\ o = "none" => Program[o] = <<>>
         /\ o # "none" => Program[o] \in GetsFirst /\ Program[o] # <<>>
<1>1. CASE o = "create"
  BY <1>1 DEF Program, BindingsTodo, GetsFirst, PutsNext
<1>2. CASE o = "update"
  BY <1>2 DEF Program, BindingsTodo, GetsFirst, PutsNext
<1>3. CASE o = "delete"
  BY <1>3 DEF Program, BindingsTodo, GetsFirst, PutsNext
<1>4. CASE o = "none"
  BY <1>4 DEF Program, BindingsTodo, PutsNext
<1> QED BY <1>1, <1>2, <1>3, <1>4 DEF BindingOps

Labels == {"refresh", "check", "get", "put", "record", "read"}
LEMMA LabelsOnly ==
  /\ \A i \in DOMAIN <<>> : <<>>[i] \in Labels
  /\ \A i \in DOMAIN <<"refresh">> : <<"refresh">>[i] \in Labels
  /\ \A t \in RealmTodo : \A i \in DOMAIN t : t[i] \in Labels
  /\ \A o \in BindingOps : \A t \in BindingsTodo(o) : \A i \in DOMAIN t : t[i] \in Labels
<1>1. \A i \in DOMAIN <<>> : <<>>[i] \in Labels
  OBVIOUS
<1>2. \A i \in DOMAIN <<"refresh">> : <<"refresh">>[i] \in Labels
  BY DEF Labels
<1>3. \A t \in RealmTodo : \A i \in DOMAIN t : t[i] \in Labels
  BY DEF RealmTodo, Labels
<1>4. ASSUME NEW o \in BindingOps, NEW t \in BindingsTodo(o) PROVE \A i \in DOMAIN t : t[i] \in Labels
  <2>1. CASE o = "create"
    BY <1>4, <2>1 DEF BindingsTodo, Labels
  <2>2. CASE o = "update"
    BY <1>4, <2>2 DEF BindingsTodo, Labels
  <2>3. CASE o = "delete"
    BY <1>4, <2>3 DEF BindingsTodo, Labels
  <2>4. CASE o = "none"
    BY <1>4, <2>4 DEF BindingsTodo, Labels
  <2> QED BY <2>1, <2>2, <2>3, <2>4 DEF BindingOps
<1> QED BY <1>1, <1>2, <1>3, <1>4
-----------------------------------------------------------------------------
(* Types.  What is left of each program is a part of it, and bindings that *)
(* are updated or read are in the state.                                   *)

Flowing == [Flows -> {0, 1}]

Left(t, o, p, known) ==
  /\ t = [r \in Names |-> t[r]]
  /\ o \in [realm : {"none", "update"}, bindings : BindingOps]
  /\ p = "refresh" => \A r \in Names : t[r] \in {<<"refresh">>, <<>>}
  /\ p = "apply" =>
       /\ t["realm"] \in RealmTodo /\ t["bindings"] \in BindingsTodo(o.bindings)
       /\ o.realm = "none" => t["realm"] = <<>>
       /\ o.bindings = "update" \/ t["bindings"] = <<"read">> => known
  /\ p = "finished" => t["realm"] = <<>> /\ t["bindings"] = <<>>

LeftInv == Left(todo, op, phase, bindings.known)

\* The types of what is not in LeftInv.
ValueTypes ==
  /\ ordered \in BOOLEAN
  /\ doc \in Documents /\ realm \in Documents /\ copy \in Documents
  /\ conf \in [setting : {0, 1}, flow : [Flows -> {Unset, 0, 1}], at : {"realm", "bindings"}]
  /\ bindings \in [known : BOOLEAN, flow : Flowing] /\ (bindings.known \/ bindings.flow = BuiltIn)
  /\ phase \in {"refresh", "apply", "finished"}
  /\ outcome \in {"calm", "applied", "none"} /\ (outcome = "applied" => phase = "finished")
  /\ settled \subseteq Flows
  /\ events \in 0 .. MaxEvents

LEMMA PlannedTypes ==
  ASSUME ValueTypes, NEW at, NEW known \in Flowing
  PROVE  PlannedFlows(at, known) \in Flowing
BY DEF ValueTypes, PlannedFlows, Configured, Flowing

LEMMA DocumentTypes ==
  ASSUME ValueTypes
  PROVE  /\ doc.flow \in Flowing /\ doc.setting \in {0, 1}
         /\ realm.flow \in Flowing /\ copy.flow \in Flowing /\ bindings.flow \in Flowing
         /\ BuiltIn \in Flowing /\ Blank \in Documents
         /\ PlannedRealm \in Documents
         /\ Written \in Documents /\ Written.flow = BoundFlows /\ Written.setting = copy.setting
<1>1. doc.flow \in Flowing /\ realm.flow \in Flowing /\ copy.flow \in Flowing /\ bindings.flow \in Flowing
  BY DEF ValueTypes, Documents, Flowing
<1>2. BuiltIn \in Flowing /\ Blank \in Documents
  BY DEF BuiltIn, Blank, Documents, Flowing
<1>3. PlannedRealm \in Documents
  BY <1>1, PlannedTypes DEF PlannedRealm, Documents, Flowing, ValueTypes
<1>4. BoundFlows \in Flowing
  <2>1. CASE op.bindings = "create"
    BY <2>1, <1>2, PlannedTypes DEF BoundFlows
  <2>2. CASE op.bindings = "delete"
    BY <2>2, <1>2 DEF BoundFlows
  <2>3. CASE op.bindings \notin {"create", "delete"}
    BY <2>3, <1>1 DEF BoundFlows
  <2> QED BY <2>1, <2>2, <2>3
<1>5. copy \in [setting : {0, 1}, flow : Flowing]
  BY DEF ValueTypes, Documents, Flowing
<1>6. Written \in Documents /\ Written.flow = BoundFlows /\ Written.setting = copy.setting
  BY <1>4, <1>5 DEF Written, Documents, Flowing
<1> QED BY <1>1, <1>2, <1>3, <1>6 DEF ValueTypes, Documents

LEMMA LeftLabels ==
  ASSUME NEW t, NEW o, NEW p \in {"refresh", "apply", "finished"}, NEW k, Left(t, o, p, k)
  PROVE  /\ o \in [Names -> BindingOps]
         /\ \A r \in DOMAIN t : \A i \in DOMAIN t[r] : t[r][i] \in Labels
<1>1. o \in [Names -> BindingOps]
  BY DEF Left, Names, BindingOps
<1>2. ASSUME NEW r \in DOMAIN t, NEW i \in DOMAIN t[r] PROVE t[r][i] \in Labels
  <2>1. r \in Names /\ o.bindings \in BindingOps
    BY <1>2 DEF Left
  <2>2. CASE p = "refresh"
    <3>1. t[r] = <<"refresh">> \/ t[r] = <<>>
      BY <2>1, <2>2 DEF Left
    <3> QED BY <1>2, <3>1, LabelsOnly
  <2>3. CASE p = "apply"
    <3>1. t["realm"] \in RealmTodo /\ t["bindings"] \in BindingsTodo(o.bindings)
      BY <2>3 DEF Left
    <3> QED BY <1>2, <2>1, <3>1, LabelsOnly DEF Names
  <2>4. CASE p = "finished"
    <3>1. t[r] = <<>>
      BY <2>1, <2>4 DEF Left, Names
    <3> QED BY <1>2, <3>1, LabelsOnly
  <2> QED BY <2>2, <2>3, <2>4
<1> QED BY <1>1, <1>2

LEMMA TypeParts == ValueTypes /\ LeftInv => TypeOK
<1> SUFFICES ASSUME ValueTypes, LeftInv PROVE TypeOK
  OBVIOUS
<1>1. phase \in {"refresh", "apply", "finished"}
  BY DEF ValueTypes
<1>2. op \in [Names -> BindingOps] /\ \A r \in DOMAIN todo : \A i \in DOMAIN todo[r] : todo[r][i] \in Labels
  BY <1>1, LeftLabels DEF LeftInv
<1> QED BY <1>2 DEF TypeOK, ValueTypes, Labels, Names, BindingOps, Flowing

LEMMA TypePartsNext == (ValueTypes /\ LeftInv)' => TypeOK'
<1> SUFFICES ASSUME ValueTypes', LeftInv' PROVE TypeOK'
  OBVIOUS
<1>1. phase' \in {"refresh", "apply", "finished"}
  BY DEF ValueTypes
<1>2. op' \in [Names -> BindingOps] /\ \A r \in DOMAIN todo' : \A i \in DOMAIN todo'[r] : todo'[r][i] \in Labels
  BY <1>1, LeftLabels DEF LeftInv
<1> QED BY <1>2 DEF TypeOK, ValueTypes, Labels, Names, BindingOps, Flowing

\* The pointwise form of a step of todo.
LEMMA Advances ==
  ASSUME LeftInv, NEW r \in Names
  PROVE  /\ Advance(r) => /\ todo' = [s \in Names |-> todo'[s]] /\ todo'[r] = Tail(todo[r])
                          /\ \A s \in Names : s # r => todo'[s] = todo[s]
         /\ Stop(r) => /\ todo' = [s \in Names |-> todo'[s]] /\ todo'[r] = <<>>
                       /\ \A s \in Names : s # r => todo'[s] = todo[s]
BY DEF LeftInv, Left, Advance, Stop

LEMMA TypeInit == Init => ValueTypes /\ LeftInv
<1> SUFFICES ASSUME Init PROVE ValueTypes /\ LeftInv
  OBVIOUS
<1>1. BuiltIn \in Flowing /\ Blank \in Documents
  BY DEF BuiltIn, Blank, Documents, Flowing
<1>2. LeftInv
  BY DEF Init, LeftInv, Left, Names, Idle, NoOp, BindingOps
<1>3. ValueTypes
  BY <1>1, BoundsAssumption DEF Init, ValueTypes, Unset
<1> QED BY <1>2, <1>3
LEMMA Counts ==
  ASSUME ValueTypes
  PROVE  /\ Event => events' \in 0 .. MaxEvents
         /\ UNCHANGED events => events' \in 0 .. MaxEvents
BY BoundsAssumption DEF ValueTypes, Event

\* A step of either program.
LEMMA RealmTakes ==
  ASSUME LeftInv, phase = "apply", NEW i, At("realm", i)
  PROVE  /\ op.realm = "update" /\ Tail(todo["realm"]) \in RealmTodo
         /\ i = "put" => Tail(todo["realm"]) = <<>>
BY RealmStep DEF LeftInv, Left, At

LEMMA BindingsTake ==
  ASSUME LeftInv, phase = "apply", NEW i, At("bindings", i)
  PROVE  op.bindings \in BindingOps /\ StepsOn(op.bindings, todo["bindings"]) /\ Head(todo["bindings"]) = i
<1>1. todo["bindings"] \in BindingsTodo(op.bindings) /\ op.bindings \in BindingOps
  BY DEF LeftInv, Left
<1> QED BY <1>1, BindingsStep DEF At

\* Only the first step of a run is called refresh, and it is the only one then.
LEMMA RefreshTakes ==
  ASSUME LeftInv, ValueTypes, NEW r \in Names, At(r, "refresh")
  PROVE  phase = "refresh" /\ Tail(todo[r]) = <<>>
<1>1. CASE phase = "refresh"
  <2>1. todo[r] = <<"refresh">>
    BY <1>1 DEF LeftInv, Left, At
  <2> QED BY <1>1, <2>1, ShortSequences
<1>2. CASE phase = "apply"
  <2>1. CASE r = "realm"
    BY <1>2, <2>1, RealmStep DEF LeftInv, Left, At
  <2>2. CASE r = "bindings"
    BY <1>2, <2>2, BindingsTake DEF StepsOn
  <2> QED BY <2>1, <2>2 DEF Names
<1>3. CASE phase = "finished"
  BY <1>3 DEF LeftInv, Left, At, Names
<1> QED BY <1>1, <1>2, <1>3 DEF ValueTypes

LEMMA TypeNext == ValueTypes /\ LeftInv /\ [Next]_vars => (ValueTypes /\ LeftInv)'
<1> SUFFICES ASSUME ValueTypes, LeftInv, [Next]_vars PROVE (ValueTypes /\ LeftInv)'
  OBVIOUS
<1> DEFINE Goal == (ValueTypes /\ LeftInv)'
<1> USE Counts, DocumentTypes
<1>1. CASE Refresh
  <2>1. PICK r \in Names : At(r, "refresh") /\ Advance(r)
    BY <1>1 DEF Refresh, RefreshRealm, RefreshBindings, Names
  <2>2. phase = "refresh" /\ Tail(todo[r]) = <<>>
    BY <2>1, RefreshTakes
  <2>3. LeftInv'
    BY <1>1, <2>1, <2>2, Advances DEF Refresh, LeftInv, Left
  <2>4. realm' \in Documents
    BY <1>1 DEF Refresh, RefreshRealm, RefreshBindings, ValueTypes
  <2>5. bindings' \in [known : BOOLEAN, flow : Flowing] /\ (bindings'.known \/ bindings'.flow = BuiltIn)
    BY <1>1 DEF Refresh, RefreshRealm, RefreshBindings, ValueTypes
  <2>6. ValueTypes'
    BY <1>1, <2>4, <2>5 DEF Refresh, NoFault, ValueTypes
  <2> QED BY <2>3, <2>6 DEF Goal
<1>2. CASE Plan
  <2>1. BindingsOp \in BindingOps /\ RealmOp \in {"none", "update"}
    BY DEF BindingsOp, RealmOp, BindingOps
  <2>2. BindingsOp = "update" => bindings.known
    BY DEF BindingsOp
  <2>3. bindings' \in [known : BOOLEAN, flow : Flowing] /\ bindings'.known = bindings.known
          /\ (bindings'.known \/ bindings'.flow = BuiltIn)
    BY <1>2, <2>2, PlannedTypes DEF Plan, ValueTypes
  <2>4. LeftInv'
    <3>1. op'.realm = RealmOp /\ op'.bindings = BindingsOp /\ op' \in [realm : {"none", "update"}, bindings : BindingOps]
      BY <1>2, <2>1 DEF Plan
    <3>2. /\ todo' = [r \in Names |-> todo'[r]]
          /\ todo'["realm"] = (IF RealmOp = "update" THEN <<"check", "put">> ELSE <<>>)
          /\ todo'["bindings"] = Program[BindingsOp]
      BY <1>2 DEF Plan, Names
    <3>3. phase' = "apply"
      BY <1>2 DEF Plan
    <3>4. todo'["realm"] \in RealmTodo /\ (op'.realm = "none" => todo'["realm"] = <<>>)
      BY <2>1, <3>1, <3>2 DEF RealmTodo
    <3>5. todo'["bindings"] \in BindingsTodo(op'.bindings) /\ todo'["bindings"] # <<"read">>
      BY <2>1, <3>1, <3>2, WholeProgram
    <3>6. op'.bindings = "update" \/ todo'["bindings"] = <<"read">> => bindings'.known
      BY <2>2, <2>3, <3>1, <3>5
    <3> QED BY <3>1, <3>2, <3>3, <3>4, <3>5, <3>6 DEF LeftInv, Left
  <2>5. ValueTypes'
    <3>1. settled' \subseteq Flows
      BY <1>2 DEF Plan, Configured
    <3> QED BY <1>2, <2>3, <3>1 DEF Plan, NoFault, ValueTypes
  <2> QED BY <2>4, <2>5 DEF Goal
<1>3. CASE UpdateRealm
  <2>1. phase = "apply" /\ \E i \in {"check", "put"} : At("realm", i) /\ (Advance("realm") \/ RealmFails)
    BY <1>3 DEF UpdateRealm
  <2>2. LeftInv'
    <3>1. CASE Advance("realm")
      BY <1>3, <2>1, <3>1, RealmTakes, Advances DEF states, UpdateRealm, LeftInv, Left, Names
    <3>2. CASE RealmFails
      <4>1. /\ todo' = [r \in Names |-> todo'[r]] /\ todo'["realm"] = <<>>
            /\ todo'["bindings"] \in {<<>>, todo["bindings"]}
        BY <3>2 DEF RealmFails, Names
      <4> QED BY <1>3, <2>1, <4>1, NothingLeft DEF states, UpdateRealm, LeftInv, Left
    <3> QED BY <2>1, <3>1, <3>2
  <2>3. ValueTypes'
    BY <1>3 DEF states, UpdateRealm, RealmFails, Fault, NoFault, ValueTypes
  <2> QED BY <2>2, <2>3 DEF Goal
<1>4. CASE GetRealm
  <2>1. phase = "apply" /\ At("bindings", "get") /\ (Advance("bindings") \/ Stop("bindings"))
    BY <1>4 DEF GetRealm, Turn
  <2>2. LeftInv'
    <3>1. CASE Advance("bindings")
      <4>1. todo'["bindings"] \in BindingsTodo(op.bindings) /\ todo'["bindings"] # <<"read">>
        BY <2>1, <3>1, BindingsTake, Advances DEF StepsOn, Names
      <4> QED BY <1>4, <2>1, <3>1, <4>1, Advances DEF states, GetRealm, LeftInv, Left, Names
    <3>2. CASE Stop("bindings")
      <4>1. UNCHANGED <<op, phase, bindings>>
        BY <1>4 DEF states, GetRealm
      <4>2. /\ todo' = [s \in Names |-> todo'[s]]
            /\ todo'["bindings"] = <<>> /\ todo'["realm"] = todo["realm"]
        BY <3>2, Advances DEF Names
      <4>3. op.bindings \in BindingOps
        BY DEF LeftInv, Left
      <4> QED BY <2>1, <4>1, <4>2, <4>3, NothingLeft DEF LeftInv, Left
    <3> QED BY <2>1, <3>1, <3>2
  <2>3. ValueTypes'
    BY <1>4 DEF states, GetRealm, Fault, NoFault, ValueTypes
  <2> QED BY <2>2, <2>3 DEF Goal
<1>5. CASE PutRealm
  <2>1. phase = "apply" /\ At("bindings", "put") /\ (Advance("bindings") \/ Stop("bindings"))
    BY <1>5 DEF PutRealm, Turn
  <2>2. bindings' = bindings \/ (op.bindings = "delete" /\ bindings' = [known |-> FALSE, flow |-> BuiltIn])
    BY <1>5 DEF PutRealm
  <2>3. LeftInv'
    BY <1>5, <2>1, <2>2, BindingsTake, Advances, NothingLeft DEF PutRealm, LeftInv, Left, StepsOn, Names
  <2>4. ValueTypes'
    <3>1. doc' \in Documents
      BY <1>5 DEF PutRealm, ValueTypes
    <3>2. bindings' \in [known : BOOLEAN, flow : Flowing] /\ (bindings'.known \/ bindings'.flow = BuiltIn)
      <4>1. CASE bindings' = bindings
        BY <4>1 DEF ValueTypes
      <4>2. CASE bindings' = [known |-> FALSE, flow |-> BuiltIn]
        <5>1. BuiltIn \in Flowing
          OBVIOUS
        <5> HIDE DocumentTypes
        <5> QED BY <4>2, <5>1
      <4> QED BY <2>2, <4>1, <4>2
    <3> QED BY <1>5, <3>1, <3>2 DEF PutRealm, Fault, NoFault, ValueTypes
  <2> QED BY <2>3, <2>4 DEF Goal
<1>6. CASE Record
  <2>1. phase = "apply" /\ At("bindings", "record") /\ Advance("bindings")
    BY <1>6 DEF Record, Turn
  <2>2. LeftInv'
    BY <1>6, <2>1, BindingsTake, Advances DEF Record, LeftInv, Left, StepsOn, Names
  <2>3. ValueTypes'
    BY <1>6 DEF Record, NoFault, ValueTypes
  <2> QED BY <2>2, <2>3 DEF Goal
<1>7. CASE ReadBindings
  <2>1. phase = "apply" /\ At("bindings", "read") /\ (Advance("bindings") \/ Stop("bindings"))
    BY <1>7 DEF ReadBindings, Turn
  <2>2. bindings.known
    BY <2>1, BindingsTake DEF StepsOn, LeftInv, Left
  <2>3. bindings' \in [known : BOOLEAN, flow : Flowing] /\ bindings'.known
    BY <1>7, <2>2 DEF ReadBindings, ValueTypes
  <2>4. LeftInv'
    BY <1>7, <2>1, <2>3, BindingsTake, Advances, NothingLeft DEF ReadBindings, LeftInv, Left, StepsOn, Names
  <2>5. ValueTypes'
    BY <1>7, <2>3 DEF ReadBindings, Fault, NoFault, ValueTypes
  <2> QED BY <2>4, <2>5 DEF Goal
<1>8. CASE Finish
  BY <1>8 DEF states, Finish, ValueTypes, LeftInv, Left, Names, Goal
<1>9. CASE Again
  BY <1>9 DEF states, Again, ValueTypes, LeftInv, Left, Names, Idle, NoOp, BindingOps, Goal
<1>10. CASE RefreshFails
  BY <1>10 DEF states, RefreshFails, Fault, ValueTypes, LeftInv, Left, Names, Idle, Goal
<1>11. CASE Edit
  BY <1>11 DEF states, Edit, ValueTypes, LeftInv, Left, Goal
<1>12. CASE AdminChanges
  <2>1. doc' \in Documents
    BY <1>12 DEF AdminChanges, ValueTypes, Documents
  <2> QED BY <1>12, <2>1 DEF states, AdminChanges, Fault, ValueTypes, LeftInv, Left, Goal
<1>13. CASE UNCHANGED vars
  BY <1>13 DEF vars, states, ValueTypes, LeftInv, Left, Goal
<1>14. Goal
  BY <1>1, <1>2, <1>3, <1>4, <1>5, <1>6, <1>7, <1>8, <1>9, <1>10, <1>11, <1>12, <1>13 DEF Next, Terraform
<1> QED BY <1>14 DEF Goal

\* Every reachable state has its types; in particular bindings that are not in the
\* state have no flows there, whichever operation failed.
THEOREM TypeCorrect == Spec => []TypeOK
<1>1. ValueTypes /\ LeftInv => TypeOK
  BY TypeParts
<1> QED BY <1>1, TypeInit, TypeNext, PTL DEF Spec
-----------------------------------------------------------------------------
(* What a run that nobody has disturbed knows of the document.             *)

\* After Read the states agree with it ...
ReadInv ==
  outcome = "calm" /\ phase = "refresh" =>
    /\ todo["realm"] = <<>> => realm = doc
    /\ todo["bindings"] = <<>> /\ bindings.known => bindings.flow = doc.flow

\* ... so that a plan differs from it in what is configured only: where nothing is
\* to be done the document is as configured, and a flow that was as configured when
\* the run was planned is so in every plan and in the document.
FlowsPlanned ==
  /\ \A f \in Configured("realm") : realm.flow[f] = conf.flow[f]
  /\ op.bindings = "update" /\ todo["bindings"] \in NotWritten =>
       \A f \in Configured("bindings") : bindings.flow[f] = conf.flow[f]
  /\ op.bindings = "none" =>
       \A f \in Configured("bindings") : realm.flow[f] = conf.flow[f] /\ doc.flow[f] = conf.flow[f]

SettledInv ==
  op.bindings # "delete" => \A f \in settled :
    /\ conf.flow[f] # Unset
    /\ doc.flow[f] = conf.flow[f] /\ realm.flow[f] = conf.flow[f]
    /\ op.bindings = "update" => bindings.flow[f] = conf.flow[f]

PlanInv ==
  Undisturbed =>
    /\ realm.setting = conf.setting
    /\ op.bindings \in {"create", "update"} => conf.at = "bindings"
    /\ FlowsPlanned /\ SettledInv

\* If the two do not write at once, the bindings copy a document the realm has
\* been written to, and what has been written stays.
SettingWritten ==
  /\ todo["realm"] = <<>> => doc.setting = conf.setting
  /\ todo["bindings"] \in PutsNext => todo["realm"] = <<>> /\ copy.setting = conf.setting

FlowsWritten ==
  /\ op.bindings = "none" /\ todo["realm"] = <<>> => \A f \in Configured("realm") : doc.flow[f] = conf.flow[f]
  /\ op.bindings \in {"create", "update"} /\ todo["bindings"] \notin NotWritten =>
       todo["realm"] = <<>> /\ \A f \in Configured("bindings") : doc.flow[f] = conf.flow[f]

AloneInv == Undisturbed /\ Alone => SettingWritten /\ FlowsWritten

ResetInv ==
  Undisturbed /\ op.bindings = "delete" /\ op.realm = "none" /\ todo["bindings"] = <<>> => doc.flow = BuiltIn

RunInv == ReadInv /\ PlanInv /\ AloneInv /\ ResetInv
LEMMA Disturbed == outcome' = "none" => RunInv'
BY DEF RunInv, ReadInv, PlanInv, AloneInv, ResetInv, Undisturbed

LEMMA FaultDisturbs == Fault => RunInv'
BY Disturbed DEF Fault

LEMMA Constant ==
  ASSUME UNCHANGED <<ordered, conf, op>>
  PROVE  /\ Alone' <=> Alone
         /\ Configured("realm")' = Configured("realm") /\ Configured("bindings")' = Configured("bindings")
BY DEF Alone, Configured

\* A plan, seen flow by flow.
LEMMA PlannedValues ==
  ASSUME ValueTypes, NEW at, NEW known \in Flowing, NEW f \in Flows
  PROVE  PlannedFlows(at, known)[f] = (IF f \in Configured(at) THEN conf.flow[f] ELSE known[f])
BY DEF PlannedFlows

\* What a plan made of an undisturbed reading says.
LEMMA RunPlan ==
  ASSUME ValueTypes, LeftInv, ReadInv, Plan, outcome = "calm"
  PROVE  RunInv'
<1>1. phase = "refresh" /\ phase' = "apply" /\ outcome' = "calm" /\ UNCHANGED <<doc, conf, ordered>>
  BY DEF Plan, NoFault
<1>2. realm = doc /\ (bindings.known => bindings.flow = doc.flow)
  BY <1>1 DEF ReadInv, Plan
<1>3. /\ realm' = PlannedRealm /\ realm'.setting = conf.setting /\ realm'.flow = PlannedFlows("realm", doc.flow)
      /\ op'.realm = RealmOp /\ op'.bindings = BindingsOp
      /\ todo'["realm"] = (IF RealmOp = "update" THEN <<"check", "put">> ELSE <<>>)
      /\ todo'["bindings"] = Program[BindingsOp]
  BY <1>2 DEF Plan, PlannedRealm
<1>4. BindingsOp = "update" => bindings.known /\ bindings'.flow = PlannedFlows("bindings", doc.flow)
  BY <1>2 DEF Plan, BindingsOp, ValueTypes
<1>5. /\ BindingsOp \in BindingOps /\ RealmOp \in {"none", "update"}
      /\ BindingsOp \in {"create", "update"} => conf.at = "bindings"
      /\ BindingsOp = "none" /\ conf.at = "bindings" => PlannedFlows("bindings", doc.flow) = doc.flow
  BY <1>2 DEF BindingsOp, RealmOp, BindingOps
<1>6. doc.flow \in Flowing
  BY DocumentTypes
<1>7. \A at : Configured(at)' = Configured(at)
  BY <1>1 DEF Configured
<1>8. \A f \in Flows : /\ realm'.flow[f] = (IF f \in Configured("realm") THEN conf.flow[f] ELSE doc.flow[f])
                       /\ PlannedFlows("bindings", doc.flow)[f] = (IF f \in Configured("bindings") THEN conf.flow[f] ELSE doc.flow[f])
  BY <1>3, <1>6, PlannedValues
<1>9. FlowsPlanned'
  <2>1. \A f \in Configured("realm") : realm'.flow[f] = conf.flow[f]
    BY <1>8 DEF Configured
  <2>2. BindingsOp = "update" => \A f \in Configured("bindings") : bindings'.flow[f] = conf.flow[f]
    BY <1>4, <1>8 DEF Configured
  <2>3. BindingsOp = "none" => \A f \in Configured("bindings") : realm'.flow[f] = conf.flow[f] /\ doc.flow[f] = conf.flow[f]
    BY <1>5, <1>8 DEF Configured
  <2> QED BY <1>1, <1>3, <1>7, <2>1, <2>2, <2>3 DEF FlowsPlanned
<1>10. SettledInv'
  <2>1. settled' = {f \in Configured("realm") \cup Configured("bindings") : doc.flow[f] = conf.flow[f]}
    BY DEF Plan
  <2>2. \A f \in settled' : realm'.flow[f] = conf.flow[f] /\ PlannedFlows("bindings", doc.flow)[f] = conf.flow[f]
    BY <1>8, <2>1 DEF Configured
  <2> QED BY <1>1, <1>3, <1>4, <2>1, <2>2 DEF SettledInv, Configured
<1>11. PlanInv'
  BY <1>1, <1>3, <1>5, <1>9, <1>10 DEF PlanInv
<1>12. RealmOp = "none" => doc.setting = conf.setting /\ \A f \in Configured("realm") : doc.flow[f] = conf.flow[f]
  <2>1. RealmOp = "none" => realm' = doc
    BY <1>2, <1>3 DEF RealmOp
  <2> QED BY <1>3, <1>8, <2>1 DEF Configured
<1>13. todo'["realm"] = <<>> => RealmOp = "none"
  BY <1>3, <1>5
<1>14. /\ todo'["bindings"] \notin PutsNext
       /\ BindingsOp # "none" => todo'["bindings"] \in NotWritten /\ todo'["bindings"] # <<>>
  BY <1>3, <1>5, WholeProgram DEF NotWritten
<1>15. AloneInv' /\ ResetInv'
  BY <1>1, <1>3, <1>7, <1>12, <1>13, <1>14 DEF AloneInv, SettingWritten, FlowsWritten, ResetInv
<1>16. ReadInv'
  BY <1>1 DEF ReadInv
<1> QED BY <1>11, <1>15, <1>16 DEF RunInv
\* The steps of an apply that succeed.  Each is given what it does to the document,
\* the states and the two programs.
LEMMA RunUpdateRealm ==
  ASSUME ValueTypes, LeftInv, RunInv, UpdateRealm
  PROVE  RunInv'
<1>1. CASE RealmFails
  BY <1>1, FaultDisturbs DEF RealmFails
<1>2. CASE Undisturbed /\ Advance("realm") /\ NoFault
  <2>1. UNCHANGED <<ordered, conf, op, realm, bindings, copy, phase, outcome, settled>>
    BY <1>2 DEF UpdateRealm, NoFault, states
  <2>2. phase = "apply" /\ phase' = "apply" /\ outcome = "calm" /\ outcome' = "calm"
    BY <1>2, <2>1 DEF UpdateRealm, Undisturbed, ValueTypes
  <2>3. /\ todo'["realm"] = Tail(todo["realm"]) /\ todo'["bindings"] = todo["bindings"]
        /\ todo["realm"] # <<>> /\ op.realm = "update"
    BY <1>2, Advances, RealmTakes DEF UpdateRealm, At, Names
  <2>4. \/ At("realm", "check") /\ doc' = doc /\ todo'["realm"] # <<>>
        \/ At("realm", "put") /\ doc' = realm /\ todo'["realm"] = <<>>
    <3>1. At("realm", "check") => todo["realm"] = <<"check", "put">>
      BY <2>2, ShortSequences DEF At, LeftInv, Left, RealmTodo
    <3>2. At("realm", "check") => todo'["realm"] # <<>>
      <4>1. Tail(<<"check", "put">>) = <<"put">> /\ <<"put">> # <<>>
        OBVIOUS
      <4> QED BY <2>3, <3>1, <4>1
    <3>3. At("realm", "put") => todo'["realm"] = <<>>
      BY <2>2, <2>3, RealmTakes
    <3>4. (At("realm", "check") /\ doc' = doc) \/ (At("realm", "put") /\ doc' = realm)
      BY <1>2, <2>2 DEF UpdateRealm, RealmFails, Fault, NoFault, Event, ValueTypes
    <3> QED BY <3>2, <3>3, <3>4
  <2>5. PlanInv'
    BY <2>1, <2>2, <2>3, <2>4, <1>2, Constant DEF RunInv, PlanInv, FlowsPlanned, SettledInv, Undisturbed
  <2>6. AloneInv'
    BY <2>1, <2>2, <2>3, <2>4, <1>2, Constant DEF RunInv, PlanInv, FlowsPlanned, AloneInv, SettingWritten, FlowsWritten, Alone, Undisturbed
  <2> QED BY <2>1, <2>2, <2>3, <2>5, <2>6 DEF RunInv, ReadInv, ResetInv
<1>3. CASE ~Undisturbed /\ NoFault
  BY <1>3 DEF UpdateRealm, NoFault, states, Undisturbed, RunInv, ReadInv, PlanInv, AloneInv, ResetInv
<1> QED BY <1>1, <1>2, <1>3 DEF UpdateRealm

LEMMA RunGetRealm ==
  ASSUME ValueTypes, LeftInv, RunInv, GetRealm
  PROVE  RunInv'
<1>1. CASE Fault
  BY <1>1, FaultDisturbs
<1>2. CASE Undisturbed /\ copy' = doc /\ Advance("bindings") /\ NoFault
  <2>1. UNCHANGED <<ordered, conf, op, doc, realm, bindings, phase, outcome, settled>>
    BY <1>2 DEF GetRealm, NoFault, states
  <2>2. phase = "apply" /\ phase' = "apply" /\ outcome = "calm" /\ outcome' = "calm" /\ At("bindings", "get")
    BY <1>2, <2>1 DEF GetRealm, Turn, Undisturbed, ValueTypes
  <2>3. /\ todo'["realm"] = todo["realm"] /\ todo'["bindings"] # <<>>
        /\ todo'["bindings"] \in NotWritten <=> todo["bindings"] \in NotWritten
        /\ op.bindings # "none"
    <3>1. todo'["bindings"] = Tail(todo["bindings"]) /\ todo'["realm"] = todo["realm"]
      BY <1>2, Advances DEF Names
    <3>2. StepsOn(op.bindings, todo["bindings"]) /\ Head(todo["bindings"]) = "get"
      BY <2>2, BindingsTake
    <3>3. op.bindings # "none"
      BY <2>2 DEF At, LeftInv, Left, BindingsTodo
    <3> QED BY <3>1, <3>2, <3>3 DEF StepsOn
  <2>4. PlanInv'
    BY <1>2, <2>1, <2>2, <2>3, Constant DEF RunInv, PlanInv, FlowsPlanned, SettledInv, Undisturbed
  <2>5. Alone => todo["realm"] = <<>>
    BY <1>2, <2>2, <2>3 DEF Alone, GetRealm, Turn, LeftInv, Left
  <2>6. AloneInv'
    BY <1>2, <2>1, <2>2, <2>3, <2>5, Constant DEF RunInv, AloneInv, SettingWritten, FlowsWritten, Undisturbed
  <2> QED BY <2>1, <2>2, <2>3, <2>4, <2>6 DEF RunInv, ReadInv, ResetInv
<1>3. CASE ~Undisturbed /\ NoFault
  BY <1>3 DEF GetRealm, Turn, NoFault, states, Undisturbed, RunInv, ReadInv, PlanInv, AloneInv, ResetInv
<1> QED BY <1>1, <1>2, <1>3 DEF GetRealm

LEMMA RunPutRealm ==
  ASSUME ValueTypes, LeftInv, RunInv, PutRealm
  PROVE  RunInv'
<1>1. CASE Fault
  BY <1>1, FaultDisturbs
<1>2. CASE Undisturbed /\ doc' = Written /\ Advance("bindings") /\ NoFault
  <2>1. UNCHANGED <<ordered, conf, op, realm, copy, phase, outcome, settled>>
    BY <1>2 DEF PutRealm, NoFault
  <2>2. phase = "apply" /\ phase' = "apply" /\ outcome = "calm" /\ outcome' = "calm" /\ At("bindings", "put")
    BY <1>2, <2>1 DEF PutRealm, Turn, Undisturbed, ValueTypes
  <2>3. /\ todo'["realm"] = todo["realm"]
        /\ todo["bindings"] \in PutsNext /\ todo'["bindings"] \notin NotWritten
        /\ op.bindings \in {"create", "update", "delete"}
    <3>1. todo'["bindings"] = Tail(todo["bindings"]) /\ todo'["realm"] = todo["realm"]
      BY <1>2, Advances DEF Names
    <3>2. StepsOn(op.bindings, todo["bindings"]) /\ Head(todo["bindings"]) = "put" /\ op.bindings \in BindingOps
      BY <2>2, BindingsTake
    <3>3. op.bindings # "none"
      BY <2>2 DEF At, LeftInv, Left, BindingsTodo
    <3> QED BY <3>1, <3>2, <3>3 DEF StepsOn, BindingOps
  <2>4. doc'.setting = copy.setting /\ doc'.flow = BoundFlows
    BY <1>2, DocumentTypes
  <2>5. op.bindings # "delete" => bindings' = bindings
    BY <1>2 DEF PutRealm
  <2>6. op.bindings = "update" => doc'.flow = bindings.flow
    BY <2>4 DEF BoundFlows
  <2>7. op.bindings = "delete" => doc'.flow = BuiltIn
    BY <2>4 DEF BoundFlows
  <2>8. op.bindings = "create" => \A f \in Configured("bindings") : doc'.flow[f] = conf.flow[f]
    <3>1. op.bindings = "create" => doc'.flow = PlannedFlows("bindings", BuiltIn)
      BY <2>4 DEF BoundFlows
    <3>2. BuiltIn \in Flowing
      BY DocumentTypes
    <3> QED BY <3>1, <3>2, PlannedValues DEF Configured
  <2>9. PlanInv'
    <3>1. op.bindings # "delete" => \A f \in settled : doc'.flow[f] = conf.flow[f]
      <4>1. op.bindings = "create" => settled \subseteq Configured("bindings")
        BY <1>2 DEF RunInv, PlanInv, SettledInv, Configured, ValueTypes
      <4> QED BY <1>2, <2>3, <2>6, <2>8, <4>1 DEF RunInv, PlanInv, SettledInv
    <3>2. SettledInv'
      BY <1>2, <2>1, <2>5, <3>1 DEF RunInv, PlanInv, SettledInv
    <3>3. FlowsPlanned'
      BY <1>2, <2>1, <2>3, Constant DEF RunInv, PlanInv, FlowsPlanned
    <3> QED BY <1>2, <2>1, <3>2, <3>3 DEF RunInv, PlanInv
  <2>10. AloneInv'
    <3>1. Alone => todo["realm"] = <<>> /\ copy.setting = conf.setting
      BY <1>2, <2>3 DEF RunInv, AloneInv, SettingWritten
    <3>2. op.bindings \in {"create", "update"} => \A f \in Configured("bindings") : doc'.flow[f] = conf.flow[f]
      BY <1>2, <2>3, <2>6, <2>8 DEF RunInv, PlanInv, FlowsPlanned, NotWritten
    <3> QED BY <2>1, <2>3, <2>4, <3>1, <3>2, Constant DEF AloneInv, SettingWritten, FlowsWritten, NotWritten
  <2> QED BY <2>1, <2>2, <2>7, <2>9, <2>10 DEF RunInv, ReadInv, ResetInv
<1>3. CASE ~Undisturbed /\ NoFault
  BY <1>3 DEF PutRealm, Turn, NoFault, Undisturbed, RunInv, ReadInv, PlanInv, AloneInv, ResetInv
<1> QED BY <1>1, <1>2, <1>3 DEF PutRealm
LEMMA RunRecord ==
  ASSUME ValueTypes, LeftInv, RunInv, Record
  PROVE  RunInv'
<1>1. UNCHANGED <<ordered, conf, op, doc, realm, copy, phase, outcome, settled>> /\ phase = "apply" /\ At("bindings", "record")
  BY DEF Record, Turn, NoFault
<1>2. /\ todo'["realm"] = todo["realm"] /\ todo["bindings"] \notin NotWritten
      /\ todo'["bindings"] \notin NotWritten /\ op.bindings = "create"
  <2>1. todo'["bindings"] = Tail(todo["bindings"]) /\ todo'["realm"] = todo["realm"]
    BY Advances DEF Record, Names
  <2> QED BY <1>1, <2>1, BindingsTake DEF StepsOn
<1>3. PlanInv'
  BY <1>1, <1>2, Constant DEF RunInv, PlanInv, FlowsPlanned, SettledInv, Undisturbed
<1>4. AloneInv'
  BY <1>1, <1>2, Constant DEF RunInv, AloneInv, SettingWritten, FlowsWritten, Undisturbed, NotWritten
<1> QED BY <1>1, <1>2, <1>3, <1>4 DEF RunInv, ReadInv, ResetInv

LEMMA RunReadBindings ==
  ASSUME ValueTypes, LeftInv, RunInv, ReadBindings
  PROVE  RunInv'
<1>1. CASE Fault
  BY <1>1, FaultDisturbs
<1>2. CASE Advance("bindings") /\ NoFault
  <2>1. /\ UNCHANGED <<ordered, conf, op, doc, realm, copy, phase, outcome, settled>> /\ bindings'.flow = doc.flow
        /\ phase = "apply" /\ At("bindings", "read")
    <3>1. bindings' = [bindings EXCEPT !.flow = doc.flow]
      BY <1>2 DEF ReadBindings, Advance, Stop, NoFault, Fault, Event, ValueTypes
    <3> QED BY <1>2, <3>1 DEF ReadBindings, Turn, NoFault, ValueTypes
  <2>2. /\ todo'["realm"] = todo["realm"] /\ todo["bindings"] \notin NotWritten
        /\ todo'["bindings"] \notin NotWritten /\ op.bindings \in {"create", "update"}
    <3>1. todo'["bindings"] = Tail(todo["bindings"]) /\ todo'["realm"] = todo["realm"]
      BY <1>2, Advances DEF Names
    <3>2. op.bindings # "none" /\ todo["bindings"] = <<"read">>
      <4>1. todo["bindings"] = <<"read">>
        BY <2>1, BindingsTake DEF StepsOn
      <4>2. op.bindings # "none"
        BY <2>1 DEF At, LeftInv, Left, BindingsTodo
      <4> QED BY <4>1, <4>2
    <3>3. <<"read">> \notin NotWritten
      BY DEF NotWritten, GetsFirst, PutsNext
    <3> QED BY <2>1, <3>1, <3>2, <3>3, BindingsTake DEF StepsOn, BindingOps
  <2>3. PlanInv'
    BY <2>1, <2>2, Constant DEF RunInv, PlanInv, FlowsPlanned, SettledInv, Undisturbed
  <2>4. AloneInv'
    BY <2>1, <2>2, Constant DEF RunInv, AloneInv, SettingWritten, FlowsWritten, Undisturbed, NotWritten
  <2> QED BY <2>1, <2>2, <2>3, <2>4 DEF RunInv, ReadInv, ResetInv
<1> QED BY <1>1, <1>2 DEF ReadBindings

LEMMA RunRefresh ==
  ASSUME ValueTypes, LeftInv, RunInv, Refresh
  PROVE  RunInv'
<1>1. PICK r \in Names : At(r, "refresh") /\ Advance(r)
  BY DEF Refresh, RefreshRealm, RefreshBindings, Names
<1>2. phase = "refresh" /\ ~Undisturbed /\ UNCHANGED <<doc, phase, outcome>>
  BY <1>1, RefreshTakes DEF Refresh, NoFault, Undisturbed, ValueTypes
<1>3. ReadInv'
  <2>1. CASE RefreshRealm
    <3>1. realm' = doc /\ UNCHANGED bindings /\ todo'["bindings"] = todo["bindings"]
      BY <2>1, Advances DEF RefreshRealm, Names
    <3> QED BY <1>2, <3>1 DEF RunInv, ReadInv
  <2>2. CASE RefreshBindings
    <3>1. UNCHANGED realm /\ todo'["realm"] = todo["realm"]
      BY <2>2, Advances DEF RefreshBindings, Names
    <3>2. bindings'.known => bindings'.flow = doc.flow
      BY <2>2 DEF RefreshBindings, ValueTypes
    <3> QED BY <1>2, <3>1, <3>2 DEF RunInv, ReadInv
  <2> QED BY <2>1, <2>2 DEF Refresh
<1> QED BY <1>2, <1>3 DEF RunInv, PlanInv, AloneInv, ResetInv, Undisturbed

LEMMA RunFinish ==
  ASSUME RunInv, Finish
  PROVE  RunInv'
<1>1. CASE outcome = "calm"
  <2>1. UNCHANGED <<ordered, conf, op, doc, realm, bindings, copy, todo, settled>> /\ phase = "apply" /\ phase' = "finished"
    BY DEF Finish, states
  <2>2. Undisturbed
    BY <1>1, <2>1 DEF Undisturbed
  <2>3. PlanInv'
    BY <2>1, <2>2, Constant DEF RunInv, PlanInv, FlowsPlanned, SettledInv
  <2>4. AloneInv'
    BY <2>1, <2>2, Constant DEF RunInv, AloneInv, SettingWritten, FlowsWritten
  <2> QED BY <2>1, <2>2, <2>3, <2>4 DEF RunInv, ReadInv, ResetInv
<1>2. CASE outcome # "calm"
  BY <1>2, Disturbed DEF Finish
<1> QED BY <1>1, <1>2

LEMMA RunNext == ValueTypes /\ LeftInv /\ RunInv /\ [Next]_vars => RunInv'
<1> SUFFICES ASSUME ValueTypes, LeftInv, RunInv, [Next]_vars PROVE RunInv'
  OBVIOUS
<1>1. CASE Plan
  <2>1. CASE outcome = "calm"
    BY <1>1, <2>1, RunPlan DEF RunInv
  <2>2. CASE outcome # "calm"
    <3>1. outcome' = "none"
      BY <1>1, <2>2 DEF Plan, NoFault, ValueTypes
    <3> QED BY <3>1, Disturbed
  <2> QED BY <2>1, <2>2
<1>2. CASE Again
  <2>1. outcome' = "calm" /\ phase' = "refresh" /\ todo'["realm"] # <<>> /\ todo'["bindings"] # <<>>
    BY <1>2 DEF Again, Idle
  <2> QED BY <2>1 DEF RunInv, ReadInv, PlanInv, AloneInv, ResetInv, Undisturbed
<1>3. CASE RefreshFails
  BY <1>3, FaultDisturbs DEF RefreshFails
<1>4. CASE Edit
  BY <1>4, Disturbed DEF Edit
<1>5. CASE AdminChanges
  BY <1>5, FaultDisturbs DEF AdminChanges
<1>6. CASE UNCHANGED vars
  <2>1. UNCHANGED <<ordered, conf, op, doc, realm, bindings, copy, todo, phase, outcome, settled>>
    BY <1>6 DEF vars, states
  <2>2. ReadInv' /\ ResetInv'
    BY <2>1 DEF RunInv, ReadInv, ResetInv, Undisturbed
  <2>3. PlanInv'
    BY <2>1, Constant DEF RunInv, PlanInv, FlowsPlanned, SettledInv, Undisturbed
  <2>4. AloneInv'
    BY <2>1, Constant DEF RunInv, AloneInv, SettingWritten, FlowsWritten, Undisturbed
  <2> QED BY <2>2, <2>3, <2>4 DEF RunInv
<1> QED
  BY <1>1, <1>2, <1>3, <1>4, <1>5, <1>6, RunRefresh, RunUpdateRealm, RunGetRealm, RunPutRealm, RunRecord,
     RunReadBindings, RunFinish DEF Next, Terraform

LEMMA RunInit == Init => RunInv
BY DEF Init, Idle, RunInv, ReadInv, PlanInv, AloneInv, ResetInv, Undisturbed

-----------------------------------------------------------------------------
(* What this says of a run and of its end.                                 *)

LEMMA RunEnd == ValueTypes /\ LeftInv /\ RunInv => AppliedAgrees /\ DestroyedFlowsAreBuiltIn
<1> SUFFICES ASSUME ValueTypes, LeftInv, RunInv, outcome = "applied"
             PROVE  AppliedAgrees /\ DestroyedFlowsAreBuiltIn
  BY DEF AppliedAgrees, DestroyedFlowsAreBuiltIn
<1>1. todo["realm"] = <<>> /\ todo["bindings"] = <<>> /\ op.bindings \in BindingOps /\ Undisturbed
  BY DEF ValueTypes, LeftInv, Left, Undisturbed
<1>2. DestroyedFlowsAreBuiltIn
  BY <1>1 DEF RunInv, ResetInv, DestroyedFlowsAreBuiltIn
<1>3. ASSUME Alone PROVE doc.setting = conf.setting
  BY <1>1, <1>3 DEF RunInv, AloneInv, SettingWritten
<1>4. ASSUME Alone, op.bindings # "delete" PROVE Agrees
  <2>1. CASE op.bindings = "none"
    BY <1>1, <1>3, <1>4, <2>1 DEF RunInv, AloneInv, FlowsWritten, PlanInv, FlowsPlanned, Agrees
  <2>2. CASE op.bindings \in {"create", "update"}
    <3>1. conf.at = "bindings" /\ Configured("realm") = {}
      BY <1>1, <2>2 DEF RunInv, PlanInv, Configured
    <3> QED BY <1>1, <1>3, <1>4, <2>2, <3>1, NothingLeft DEF RunInv, AloneInv, FlowsWritten, Agrees
  <2> QED BY <1>1, <1>4, <2>1, <2>2 DEF BindingOps
<1>5. AppliedAgrees
  BY <1>3, <1>4 DEF AppliedAgrees
<1> QED BY <1>2, <1>5

\* A run that nobody disturbed, and in which only one of the two resources wrote or
\* both wrote in order, leaves the realm as configured.
THEOREM AppliedCorrect == Spec => []AppliedAgrees
<1> QED BY TypeInit, TypeNext, RunInit, RunNext, RunEnd, PTL DEF Spec

\* Destroyed bindings leave the built in flows behind if the realm is not updated in
\* the same run.
THEOREM DestroyCorrect == Spec => []DestroyedFlowsAreBuiltIn
<1> QED BY TypeInit, TypeNext, RunInit, RunNext, RunEnd, PTL DEF Spec

\* In every order of their writes, and at every step of a run that nothing but the run
\* disturbs, a flow that was as configured when the run was planned stays so, unless the
\* run destroys the bindings.
THEOREM SettledCorrect == Spec => []SettledFlowsKept
<1>1. RunInv => SettledFlowsKept
  BY DEF RunInv, PlanInv, SettledInv, SettledFlowsKept
<1> QED BY <1>1, TypeInit, TypeNext, RunInit, RunNext, PTL DEF Spec
=============================================================================

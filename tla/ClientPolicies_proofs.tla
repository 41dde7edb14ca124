-------------------------- MODULE ClientPolicies_proofs --------------------------
(***************************************************************************)
(* The type invariant of ClientPolicies, what an operation can do to the   *)
(* entries of others, and that no created entry is forgotten, for every    *)
(* number of resources, realms, names and events.                          *)
(***************************************************************************)
EXTENDS ClientPolicies, TLAPS

Ops == {"none", "create", "update", "delete"}
Labels == {"idle", "plan", "get", "put", "read"}
Plans == [at : Places \cup {Absent}, val : Content]

\* The parts of TypeOK: the ranges of what a resource's own steps change ...
RangesOK ==
  /\ state \in [Resources -> Known] /\ tainted \in [Resources -> BOOLEAN]
  /\ pc \in [Resources -> Labels] /\ op \in [Resources -> Ops] /\ planned \in [Resources -> Plans]

\* ... how these go together ...
OwnOK(r) ==
  /\ state[r] \in Entries(r) \cup {None}
  /\ tainted[r] => Recorded(r)
  /\ op[r] = "none" <=> pc[r] \in {"idle", "plan"}
  /\ pc[r] = "read" => op[r] = "create"
  /\ op[r] \in {"create", "update"} => planned[r] \in Entries(r)
  /\ op[r] = "delete" => Recorded(r) /\ planned[r] = [state[r] EXCEPT !.val = Absent]

\* ... the configuration ...
ConfOK == conf \in [Resources -> Known] /\ \A r \in Resources : conf[r] \in Entries(r) \cup {None}

\* ... and what Keycloak holds, with its history.
DocOK ==
  /\ doc \in Lists /\ rival \in [Resources -> BOOLEAN]
  /\ strayed \subseteq Places /\ authored \subseteq Places

Rest == copy \in [Resources -> Lists] /\ moved \subseteq Resources /\ events \in Nat

LEMMA TypeParts ==
  TypeOK <=> RangesOK /\ (\A r \in Resources : OwnOK(r)) /\ ConfOK /\ DocOK /\ Rest
BY DEF TypeOK, RangesOK, OwnOK, ConfOK, DocOK, Rest, Ops, Labels, Plans

LEMMA TypePartsNext ==
  TypeOK' <=> RangesOK' /\ (\A r \in Resources : OwnOK(r)') /\ ConfOK' /\ DocOK' /\ Rest'
BY DEF TypeOK, RangesOK, OwnOK, ConfOK, DocOK, Rest, Ops, Labels, Plans

LEMMA EntriesAreKnown ==
  ASSUME NEW r \in Resources
  PROVE  /\ Entries(r) \subseteq Known /\ Entries(r) \subseteq Plans /\ None \in Known /\ None \in Plans
         /\ None \notin Entries(r)
         /\ \A e \in Entries(r) : [e EXCEPT !.val = Absent] \in Plans
BY ConstantsAssumption DEF Entries, Known, Plans, None, Content

\* A resource stays as it should be while its own variables do.
LEMMA Untouched ==
  ASSUME NEW p \in Resources, OwnOK(p),
         state'[p] = state[p], tainted'[p] = tainted[p],
         pc'[p] = pc[p], op'[p] = op[p], planned'[p] = planned[p]
  PROVE  OwnOK(p)'
BY DEF OwnOK, Recorded

\* A resource that goes on with new values of its own variables.
LEMMA Moves ==
  ASSUME RangesOK, \A p \in Resources : OwnOK(p), NEW r \in Resources,
         NEW s \in Known, NEW t \in BOOLEAN, NEW l \in Labels, NEW o \in Ops, NEW e \in Plans,
         state' = [state EXCEPT ![r] = s], tainted' = [tainted EXCEPT ![r] = t],
         pc' = [pc EXCEPT ![r] = l], op' = [op EXCEPT ![r] = o], planned' = [planned EXCEPT ![r] = e],
         OwnOK(r)'
  PROVE  RangesOK' /\ \A p \in Resources : OwnOK(p)'
<1>1. RangesOK'
  BY DEF RangesOK
<1>2. ASSUME NEW p \in Resources PROVE OwnOK(p)'
  <2>1. CASE p = r
    BY <2>1
  <2>2. CASE p # r
    <3>1. /\ state'[p] = state[p] /\ tainted'[p] = tainted[p]
          /\ pc'[p] = pc[p] /\ op'[p] = op[p] /\ planned'[p] = planned[p]
      BY <2>2 DEF RangesOK
    <3> QED BY <3>1, Untouched
  <2> QED BY <2>1, <2>2
<1> QED BY <1>1, <1>2

\* After an operation a resource is idle, with an entry or none.
LEMMA Finishes ==
  ASSUME RangesOK, \A p \in Resources : OwnOK(p), NEW r \in Resources,
         NEW s \in Entries(r) \cup {None}, NEW t \in BOOLEAN, t => s # None,
         Record(r, t, s), Finish(r)
  PROVE  RangesOK' /\ \A p \in Resources : OwnOK(p)'
<1>1. s \in Known /\ None \in Plans /\ "idle" \in Labels /\ "none" \in Ops
  BY EntriesAreKnown DEF Labels, Ops
<1>2. /\ state' = [state EXCEPT ![r] = s] /\ tainted' = [tainted EXCEPT ![r] = t]
      /\ pc' = [pc EXCEPT ![r] = "idle"] /\ op' = [op EXCEPT ![r] = "none"]
      /\ planned' = [planned EXCEPT ![r] = None]
  BY DEF Record, Finish, Goto
<1>3. state'[r] = s /\ tainted'[r] = t /\ pc'[r] = "idle" /\ op'[r] = "none"
  BY <1>2 DEF RangesOK
<1>4. OwnOK(r)'
  BY <1>3 DEF OwnOK, Recorded
<1> QED BY <1>1, <1>2, <1>4, Moves

\* UNCHANGED tfstate records what is recorded.
LEMMA RecordsSame ==
  ASSUME RangesOK, NEW r \in Resources, UNCHANGED tfstate
  PROVE  Record(r, tainted[r], state[r])
BY DEF RangesOK, tfstate, Record

\* Fail, when an operation is under way.
LEMMA Fails ==
  ASSUME RangesOK, \A p \in Resources : OwnOK(p), NEW r \in Resources, Fail(r)
  PROVE  RangesOK' /\ \A p \in Resources : OwnOK(p)'
<1>1. OwnOK(r) /\ tainted[r] \in BOOLEAN /\ None \notin Entries(r) /\ Finish(r)
  BY EntriesAreKnown DEF RangesOK, Fail
<1>2. CASE op[r] = "create" /\ Record(r, TRUE, planned[r])
  <2>1. planned[r] \in Entries(r) /\ planned[r] # None
    BY <1>1, <1>2 DEF OwnOK
  <2> QED BY <1>1, <1>2, <2>1, Finishes
<1>3. CASE op[r] = "update" /\ Record(r, tainted[r], planned[r])
  <2>1. planned[r] \in Entries(r) /\ planned[r] # None
    BY <1>1, <1>3 DEF OwnOK
  <2> QED BY <1>1, <1>3, <2>1, Finishes
<1>4. CASE UNCHANGED tfstate
  <2>1. state[r] \in Entries(r) \cup {None} /\ (tainted[r] => state[r] # None)
    BY <1>1 DEF OwnOK, Recorded
  <2> QED BY <1>1, <1>4, <2>1, RecordsSame, Finishes
<1> QED BY <1>2, <1>3, <1>4 DEF Fail

LEMMA ReadsEntry ==
  ASSUME doc \in Lists, NEW r \in Resources, NEW e \in Entries(r)
  PROVE  Reads(e) \in Entries(r) /\ Reads(e) # None /\ Reads(e).at = e.at
BY ConstantsAssumption DEF Reads, Entries, Lists, Content, None
-----------------------------------------------------------------------------
\* What Create, Update and Delete write are lists again.
LEMMA RewrittenType ==
  ASSUME TypeOK, NEW r \in Resources
  PROVE  Rewritten(r) \in Lists
<1>1. copy[r] \in Lists /\ planned[r].val \in Content /\ doc \in Lists
  BY DEF TypeOK
<1>2. Edited(r) \in Lists
  BY <1>1 DEF Edited, Lists
<1> QED BY <1>1, <1>2 DEF Rewritten, Lists

LEMMA BecomesType ==
  ASSUME NEW R \in SUBSET Resources, NEW d \in Lists, NEW unsure \in SUBSET Places, Becomes(d, R, unsure), strayed \subseteq Places
  PROVE  DocOK'
<1>1. doc' \in Lists /\ strayed' \subseteq Places /\ authored' \subseteq Places
  BY DEF Becomes
<1>2. rival' \in [Resources -> BOOLEAN]
  <2>1. \A p \in Resources :
          (pc[p] = "put" /\ p \notin R /\ (rival[p] \/ \E n \in Siblings(p) : d[n] # doc[n])) \in BOOLEAN
    OBVIOUS
  <2> QED BY <2>1 DEF Becomes
<1> QED BY <1>1, <1>2 DEF DocOK

LEMMA TypeInit == Init => TypeOK
<1> SUFFICES ASSUME Init PROVE TypeOK
  OBVIOUS
<1>1. RangesOK /\ \A r \in Resources : OwnOK(r)
  BY EntriesAreKnown DEF Init, RangesOK, OwnOK, Recorded, Ops, Labels, Plans, None, Known, Content
<1>2. ConfOK /\ DocOK /\ Rest
  BY DEF Init, ConfOK, DocOK, Rest, Lists, NoCopy, Content
<1> QED BY <1>1, <1>2, TypeParts

LEMMA PlanType ==
  ASSUME TypeOK, NEW r \in Resources, NEW o \in Ops, NEW e \in Plans, Plan(r, o, e),
         o \in {"create", "update"} => e \in Entries(r),
         o = "delete" => Recorded(r) /\ e = [state[r] EXCEPT !.val = Absent],
         moved' \subseteq Resources
  PROVE  TypeOK'
<1> DEFINE l == IF o = "none" THEN "idle" ELSE "get"
<1>1. RangesOK /\ (\A p \in Resources : OwnOK(p)) /\ ConfOK /\ DocOK /\ Rest
  BY TypeParts
<1>2. /\ state' = [state EXCEPT ![r] = state[r]] /\ tainted' = [tainted EXCEPT ![r] = tainted[r]]
      /\ pc' = [pc EXCEPT ![r] = l] /\ op' = [op EXCEPT ![r] = o] /\ planned' = [planned EXCEPT ![r] = e]
  BY <1>1 DEF Plan, Goto, tfstate, RangesOK
<1>3. state[r] \in Known /\ tainted[r] \in BOOLEAN /\ l \in Labels
  BY <1>1 DEF RangesOK, Labels
<1>4. OwnOK(r)'
  <2>1. state'[r] = state[r] /\ tainted'[r] = tainted[r] /\ pc'[r] = l /\ op'[r] = o /\ planned'[r] = e
    BY <1>1, <1>2 DEF RangesOK
  <2> QED BY <1>1, <2>1 DEF OwnOK, Recorded
<1>5. RangesOK' /\ \A p \in Resources : OwnOK(p)'
  <2> HIDE DEF l
  <2> QED BY <1>1, <1>2, <1>3, <1>4, Moves
<1>6. ConfOK' /\ DocOK' /\ Rest'
  BY <1>1 DEF Plan, history, NoEvent, ConfOK, DocOK, Rest
<1> QED BY <1>5, <1>6, TypePartsNext

LEMMA TypeNext == TypeOK /\ [Next]_vars => TypeOK'
<1> SUFFICES ASSUME TypeOK, [Next]_vars PROVE TypeOK'
  OBVIOUS
<1>1. RangesOK /\ (\A p \in Resources : OwnOK(p)) /\ ConfOK /\ DocOK /\ Rest
  BY TypeParts
<1> USE DEF tfstate, history, NoEvent
<1>2. ASSUME NEW r \in Resources, Refresh(r) PROVE TypeOK'
  <2>1. OwnOK(r) /\ op[r] = "none" /\ pc[r] = "idle"
    BY <1>1, <1>2 DEF Refresh, OwnOK
  <2>2. PICK s \in Entries(r) \cup {None} :
          Record(r, tainted[r], s) /\ (tainted[r] => s # None)
    <3>1. CASE Recorded(r) /\ Record(r, tainted[r], Reads(state[r]))
      <4>1. state[r] \in Entries(r)
        BY <2>1, <3>1 DEF OwnOK, Recorded
      <4>2. Reads(state[r]) \in Entries(r) /\ Reads(state[r]) # None
        BY <1>1, <4>1, ReadsEntry DEF DocOK
      <4> QED BY <3>1, <4>2
    <3>2. CASE ~Recorded(r) /\ UNCHANGED tfstate
      <4>1. Record(r, tainted[r], state[r])
        BY <1>1, <3>2, RecordsSame
      <4> QED BY <2>1, <4>1 DEF OwnOK, Recorded
    <3> QED BY <1>2, <3>1, <3>2 DEF Refresh
  <2>3. /\ state' = [state EXCEPT ![r] = s] /\ tainted' = [tainted EXCEPT ![r] = tainted[r]]
        /\ pc' = [pc EXCEPT ![r] = "plan"]
        /\ op' = [op EXCEPT ![r] = "none"] /\ planned' = [planned EXCEPT ![r] = planned[r]]
    BY <1>1, <1>2, <2>1, <2>2 DEF Refresh, Goto, Record, RangesOK
  <2>4. /\ s \in Known /\ tainted[r] \in BOOLEAN /\ "plan" \in Labels /\ "none" \in Ops
        /\ planned[r] \in Plans
    BY <1>1, EntriesAreKnown DEF RangesOK, Labels, Ops
  <2>5. OwnOK(r)'
    <3>1. state'[r] = s /\ tainted'[r] = tainted[r] /\ pc'[r] = "plan" /\ op'[r] = "none"
      BY <1>1, <2>3 DEF RangesOK
    <3> QED BY <2>2, <3>1 DEF OwnOK, Recorded
  <2>6. RangesOK' /\ \A p \in Resources : OwnOK(p)'
    BY <1>1, <2>3, <2>4, <2>5, Moves
  <2> QED BY <1>1, <1>2, <2>6, TypePartsNext DEF Refresh, ConfOK, DocOK, Rest
<1>3. ASSUME NEW r \in Resources, RefreshFails(r) PROVE TypeOK'
  BY <1>3 DEF RefreshFails, Event, TypeOK, Recorded
<1>4. ASSUME NEW r \in Resources, PlanCreate(r) \/ PlanUpdate(r) \/ PlanDelete(r) \/ PlanNothing(r)
      PROVE  TypeOK'
  <2>1. conf[r] \in Entries(r) \cup {None} /\ state[r] \in Entries(r) \cup {None} /\ moved \subseteq Resources
    BY <1>1 DEF ConfOK, OwnOK, Rest
  <2>2. /\ \A e \in Entries(r) : e \in Plans /\ [e EXCEPT !.val = Absent] \in Plans
        /\ None \in Plans /\ {"none", "create", "update", "delete"} = Ops
    BY EntriesAreKnown DEF Ops
  <2>3. CASE PlanCreate(r) \/ PlanUpdate(r)
    <3>1. conf[r] \in Entries(r) /\ moved' \subseteq Resources
      BY <2>1, <2>3 DEF PlanCreate, PlanUpdate
    <3>2. Plan(r, "create", conf[r]) \/ Plan(r, "update", conf[r])
      BY <2>3 DEF PlanCreate, PlanUpdate
    <3> QED BY <2>2, <3>1, <3>2, PlanType
  <2>4. CASE PlanDelete(r)
    <3>1. state[r] \in Entries(r) /\ moved' \subseteq Resources /\ Recorded(r)
      BY <2>1, <2>4 DEF PlanDelete, Recorded
    <3> QED BY <2>2, <2>4, <3>1, PlanType DEF PlanDelete
  <2>5. CASE PlanNothing(r)
    BY <2>1, <2>2, <2>5, PlanType DEF PlanNothing
  <2> QED BY <1>4, <2>3, <2>4, <2>5
<1>5. ASSUME NEW r \in Resources, GetAll(r) PROVE TypeOK'
  <2>1. OwnOK(r) /\ op[r] # "none"
    BY <1>1, <1>5 DEF GetAll, OwnOK
  <2>2. /\ state' = [state EXCEPT ![r] = state[r]] /\ tainted' = [tainted EXCEPT ![r] = tainted[r]]
        /\ pc' = [pc EXCEPT ![r] = "put"]
        /\ op' = [op EXCEPT ![r] = op[r]] /\ planned' = [planned EXCEPT ![r] = planned[r]]
    BY <1>1, <1>5 DEF GetAll, Goto, RangesOK
  <2>3. /\ state[r] \in Known /\ tainted[r] \in BOOLEAN /\ "put" \in Labels /\ op[r] \in Ops
        /\ planned[r] \in Plans
    BY <1>1 DEF RangesOK, Labels
  <2>4. OwnOK(r)'
    <3>1. /\ state'[r] = state[r] /\ tainted'[r] = tainted[r] /\ pc'[r] = "put"
          /\ op'[r] = op[r] /\ planned'[r] = planned[r]
      BY <1>1, <2>2 DEF RangesOK
    <3> QED BY <2>1, <3>1 DEF OwnOK, Recorded
  <2>5. RangesOK' /\ \A p \in Resources : OwnOK(p)'
    BY <1>1, <2>2, <2>3, <2>4, Moves
  <2>6. copy' \in [Resources -> Lists]
    <3>1. [n \in Places |-> IF n \in Siblings(r) THEN doc[n] ELSE Absent] \in Lists
      BY <1>1 DEF DocOK, Lists, Content
    <3> QED BY <1>1, <1>5, <3>1 DEF GetAll, Rest
  <2> QED BY <1>1, <1>5, <2>5, <2>6, TypePartsNext DEF GetAll, ConfOK, DocOK, Rest
<1>6. ASSUME NEW r \in Resources, GetAllFails(r) PROVE TypeOK'
  <2>1. RangesOK' /\ \A p \in Resources : OwnOK(p)'
    BY <1>1, <1>6, Fails DEF GetAllFails
  <2> QED BY <1>1, <1>6, <2>1, TypePartsNext DEF GetAllFails, Event, ConfOK, DocOK, Rest
<1>7. ASSUME NEW r \in Resources, PutAll(r) PROVE TypeOK'
  <2>1. OwnOK(r) /\ tainted[r] \in BOOLEAN /\ None \notin Entries(r)
    BY <1>1, EntriesAreKnown DEF RangesOK
  <2>2. DocOK'
    <3>1. Becomes(Rewritten(r), {r}, {})
      BY <1>7, Zenon DEF PutAll
    <3>2. Rewritten(r) \in Lists /\ strayed \subseteq Places
      BY <1>1, RewrittenType DEF DocOK
    <3>3. {r} \in SUBSET Resources /\ {} \in SUBSET Places
      OBVIOUS
    <3> QED BY <3>1, <3>2, <3>3, BecomesType
  <2>3. Rest'
    BY <1>1, <1>7 DEF PutAll, Rest, NoCopy, Lists, Content
  <2>4. RangesOK' /\ \A p \in Resources : OwnOK(p)'
    <3>1. CASE op[r] = "create" /\ Goto(r, "read") /\ UNCHANGED <<op, planned, tfstate>>
      <4>1. /\ state' = [state EXCEPT ![r] = state[r]] /\ tainted' = [tainted EXCEPT ![r] = tainted[r]]
            /\ pc' = [pc EXCEPT ![r] = "read"]
            /\ op' = [op EXCEPT ![r] = op[r]] /\ planned' = [planned EXCEPT ![r] = planned[r]]
        BY <1>1, <3>1 DEF Goto, RangesOK
      <4>2. /\ state[r] \in Known /\ tainted[r] \in BOOLEAN /\ "read" \in Labels /\ op[r] \in Ops
            /\ planned[r] \in Plans
        BY <1>1 DEF RangesOK, Labels
      <4>3. OwnOK(r)'
        <5>1. /\ state'[r] = state[r] /\ tainted'[r] = tainted[r] /\ pc'[r] = "read"
              /\ op'[r] = op[r] /\ planned'[r] = planned[r]
          BY <1>1, <4>1 DEF RangesOK
        <5> QED BY <2>1, <3>1, <5>1 DEF OwnOK, Recorded
      <4> QED BY <1>1, <4>1, <4>2, <4>3, Moves
    <3>2. CASE op[r] = "update" /\ Record(r, tainted[r], planned[r]) /\ Finish(r)
      <4>1. planned[r] \in Entries(r) /\ planned[r] # None
        BY <2>1, <3>2 DEF OwnOK
      <4> QED BY <1>1, <2>1, <3>2, <4>1, Finishes
    <3>3. CASE op[r] = "delete" /\ Record(r, FALSE, None) /\ Finish(r)
      BY <1>1, <3>3, Finishes
    <3> QED BY <1>7, <3>1, <3>2, <3>3 DEF PutAll
  <2> QED BY <1>1, <1>7, <2>2, <2>3, <2>4, TypePartsNext DEF PutAll, ConfOK
<1>8. ASSUME NEW r \in Resources, PutAllFails(r) PROVE TypeOK'
  <2>0. op[r] = "delete" => planned[r].at \in Places
    BY <1>1 DEF OwnOK, Recorded, RangesOK, Known, None
  <2>1. DocOK'
    <3>1. PICK unsure \in SUBSET Places : Becomes(Rewritten(r), {r}, unsure) \/ Becomes(doc, {r}, unsure)
      BY <1>8, <2>0 DEF PutAllFails
    <3>2. Rewritten(r) \in Lists /\ doc \in Lists /\ strayed \subseteq Places
      BY <1>1, RewrittenType DEF DocOK
    <3> QED BY <3>1, <3>2, BecomesType DEF DocOK
  <2>2. Rest'
    BY <1>1, <1>8 DEF PutAllFails, Event, Rest, NoCopy, Lists, Content
  <2>3. RangesOK' /\ \A p \in Resources : OwnOK(p)'
    BY <1>1, <1>8, Fails DEF PutAllFails
  <2> QED BY <1>1, <1>8, <2>1, <2>2, <2>3, TypePartsNext DEF PutAllFails, ConfOK
<1>9. ASSUME NEW r \in Resources, CreateReads(r) PROVE TypeOK'
  <2>1. UNCHANGED <<doc, conf, copy, history, moved>> /\ events' \in Nat
    <3>1. UNCHANGED <<doc, conf, copy, history, moved>> /\ (Event \/ NoEvent)
      BY <1>9, Zenon DEF CreateReads
    <3> QED BY <1>1, <3>1 DEF Event, Rest
  <2>2. RangesOK' /\ \A p \in Resources : OwnOK(p)'
    <3>1. CASE Fail(r)
      BY <1>1, <3>1, Fails
    <3>2. CASE Record(r, FALSE, Reads(planned[r])) /\ Finish(r)
      <4>1. planned[r] \in Entries(r)
        BY <1>1, <1>9 DEF CreateReads, OwnOK
      <4> QED BY <1>1, <3>2, <4>1, ReadsEntry, Finishes DEF DocOK
    <3> QED BY <1>9, <3>1, <3>2 DEF CreateReads
  <2> QED BY <1>1, <2>1, <2>2, TypePartsNext DEF ConfOK, DocOK, Rest
<1>10. ASSUME NEW r \in Resources, Edit(r) PROVE TypeOK'
  <2>1. PICK e \in Entries(r) \cup {None} : conf' = [conf EXCEPT ![r] = e]
    BY <1>10 DEF Edit
  <2>2. e \in Known
    BY EntriesAreKnown
  <2>3. ConfOK'
    BY <1>1, <2>1, <2>2 DEF ConfOK
  <2> QED BY <1>1, <1>10, <2>3, TypePartsNext DEF Edit, Event, RangesOK, OwnOK, Recorded, DocOK, Rest
<1>11. CASE ManualChange
  <2>1. PICK n \in Places, v \in Content : Becomes([doc EXCEPT ![n] = v], {}, {})
    BY <1>11 DEF ManualChange
  <2>2. [doc EXCEPT ![n] = v] \in Lists
    BY <1>1 DEF DocOK, Lists
  <2>3. DocOK'
    BY <1>1, <2>1, <2>2, BecomesType DEF DocOK
  <2> QED BY <1>1, <1>11, <2>3, TypePartsNext DEF ManualChange, Event, RangesOK, OwnOK, Recorded, ConfOK, Rest
<1>12. CASE UNCHANGED vars
  BY <1>12 DEF vars, TypeOK, Recorded
<1> QED
  BY <1>2, <1>3, <1>4, <1>5, <1>6, <1>7, <1>8, <1>9, <1>10, <1>11, <1>12 DEF Next, Run

\* The types of ClientPolicies; what has no id is not to be replaced, and an
\* operation works on a place of its resource.
THEOREM TypeCorrect == Spec => []TypeOK
BY TypeInit, TypeNext, PTL DEF Spec

-----------------------------------------------------------------------------
(* What an operation writes                                                *)

\* Whoever rewrites the list leaves a mark with every operation that has read it.
LEMMA BecomesCopy ==
  ASSUME TypeOK, CopyInv, NEW d, NEW R \in SUBSET Resources, NEW unsure, Becomes(d, R, unsure),
         NEW p \in Resources \ R, pc[p] = "put", ~rival'[p],
         copy'[p] = copy[p], planned'[p] = planned[p]
  PROVE  \A n \in Siblings(p)' : copy'[p][n] = doc'[n]
<1>1. Siblings(p)' = Siblings(p)
  BY DEF Siblings
<1>2. ~rival[p] /\ (\A n \in Siblings(p) : d[n] = doc[n]) /\ doc' = d
  BY DEF Becomes
<1>3. \A n \in Siblings(p) : copy[p][n] = doc[n]
  BY <1>2 DEF CopyInv
<1> QED BY <1>1, <1>2, <1>3

LEMMA CopyNext == TypeOK /\ CopyInv /\ [Next]_vars => CopyInv'
<1> SUFFICES ASSUME TypeOK, CopyInv, [Next]_vars,
                    NEW p \in Resources, pc'[p] = "put", ~rival'[p]
             PROVE  \A n \in Siblings(p)' : copy'[p][n] = doc'[n]
  BY DEF CopyInv
<1> DEFINE Goal == \A n \in Siblings(p)' : copy'[p][n] = doc'[n]
<1> HIDE DEF Goal
<1> USE DEF Goto, history
<1>1. ASSUME pc[p] = "put", copy'[p] = copy[p], planned'[p] = planned[p], rival' = rival, doc' = doc
      PROVE  Goal
  BY <1>1 DEF CopyInv, Siblings, Goal
<1>2. ASSUME NEW r \in Resources, GetAll(r) PROVE Goal
  <2>1. CASE p = r
    <3>1. Siblings(p)' = Siblings(p) /\ doc' = doc /\ Siblings(p) \subseteq Places
      BY <1>2 DEF GetAll, Siblings
    <3>2. \A n \in Siblings(p) : copy'[p][n] = doc[n]
      BY <1>2, <2>1, <3>1 DEF GetAll, TypeOK
    <3> QED BY <3>1, <3>2 DEF Goal
  <2>2. CASE p # r
    <3>1. pc[p] = "put" /\ copy'[p] = copy[p] /\ planned'[p] = planned[p] /\ rival' = rival /\ doc' = doc
      BY <1>2, <2>2 DEF GetAll, TypeOK
    <3> QED BY <3>1, <1>1
  <2> QED BY <2>1, <2>2
<1>3. ASSUME NEW r \in Resources, PutAll(r) \/ PutAllFails(r) PROVE Goal
  <2>1. p # r /\ pc[p] = "put" /\ copy'[p] = copy[p] /\ planned'[p] = planned[p]
    BY <1>3 DEF PutAll, PutAllFails, Fail, Finish, TypeOK
  <2>2. \E d, u : Becomes(d, {r}, u)
    BY <1>3 DEF PutAll, PutAllFails
  <2> QED BY <2>1, <2>2, BecomesCopy DEF Goal
<1>4. CASE ManualChange
  <2>1. PICK n \in Places, v \in Content : Becomes([doc EXCEPT ![n] = v], {}, {})
    BY <1>4 DEF ManualChange
  <2>2. pc[p] = "put" /\ copy'[p] = copy[p] /\ planned'[p] = planned[p]
    BY <1>4 DEF ManualChange
  <2> QED BY <2>1, <2>2, BecomesCopy DEF Goal
<1>5. ASSUME NEW r \in Resources,
             \/ Refresh(r) \/ RefreshFails(r) \/ GetAllFails(r) \/ CreateReads(r) \/ Edit(r)
             \/ \E o, e : Plan(r, o, e)
      PROVE  Goal
  <2>1. UNCHANGED <<doc, copy, rival>>
    BY <1>5 DEF Refresh, RefreshFails, GetAllFails, CreateReads, Edit, Plan
  <2>2. pc[p] = "put" /\ planned'[p] = planned[p]
    BY <1>5 DEF Refresh, RefreshFails, GetAllFails, CreateReads, Edit, Plan, Fail, Finish, TypeOK
  <2> QED BY <1>1, <2>1, <2>2
<1>6. CASE UNCHANGED vars
  <2>1. pc' = pc /\ copy' = copy /\ planned' = planned /\ rival' = rival /\ doc' = doc
    BY <1>6 DEF vars
  <2> QED BY <1>1, <2>1 DEF Goal
<1>7. ASSUME NEW r \in Resources, PlanCreate(r) \/ PlanUpdate(r) \/ PlanDelete(r) \/ PlanNothing(r)
      PROVE  \E o, e : Plan(r, o, e)
  BY <1>7 DEF PlanCreate, PlanUpdate, PlanDelete, PlanNothing
<1>8. ASSUME NEW r \in Resources, Run(r) \/ Edit(r) PROVE Goal
  BY <1>2, <1>3, <1>5, <1>7, <1>8 DEF Run
<1>9. Goal
  BY <1>4, <1>6, <1>8 DEF Next, Goal
<1> QED BY <1>9 DEF Goal

\* A resource writes its own entry as planned, the rest of the list as it read
\* it, and no other list.
LEMMA RewrittenEntry ==
  ASSUME TypeOK, NEW r \in Resources, NEW n \in Places
  PROVE  \/ n \notin Siblings(r) /\ Rewritten(r)[n] = doc[n]
         \/ n \in Siblings(r) /\ Rewritten(r)[n] = copy[r][n]
         \/ n \in Siblings(r) /\ n = planned[r].at /\ Rewritten(r)[n] = planned[r].val
<1>1. copy[r] \in Lists
  BY DEF TypeOK
<1>2. Edited(r)[n] = copy[r][n] \/ (n = planned[r].at /\ Edited(r)[n] = planned[r].val)
  BY <1>1 DEF Edited, Lists
<1>3. Rewritten(r)[n] = IF n \in Siblings(r) THEN Edited(r)[n] ELSE doc[n]
  BY DEF Rewritten
<1> QED BY <1>2, <1>3

Rollback ==
  \A n \in Places : doc'[n] # doc[n] =>
    \/ pc' = pc
    \/ \E r \in Resources : pc[r] = "put" /\ pc'[r] # "put" /\ n \in Siblings(r) /\
         \/ n = planned[r].at /\ doc'[n] = planned[r].val
         \/ rival[r] /\ doc'[n] = copy[r][n]

LEMMA WriteRollsBack ==
  ASSUME TypeOK, CopyInv, NEW r \in Resources, pc[r] = "put", pc'[r] # "put", doc' = Rewritten(r)
  PROVE  Rollback
<1> SUFFICES ASSUME NEW n \in Places, doc'[n] # doc[n]
             PROVE  /\ n \in Siblings(r)
                    /\ \/ n = planned[r].at /\ doc'[n] = planned[r].val
                       \/ rival[r] /\ doc'[n] = copy[r][n]
  BY DEF Rollback
<1>1. ~rival[r] /\ n \in Siblings(r) => copy[r][n] = doc[n]
  BY DEF CopyInv
<1>2. \/ n \notin Siblings(r) /\ Rewritten(r)[n] = doc[n]
      \/ n \in Siblings(r) /\ Rewritten(r)[n] = copy[r][n]
      \/ n \in Siblings(r) /\ n = planned[r].at /\ Rewritten(r)[n] = planned[r].val
  BY RewrittenEntry
<1> QED BY <1>1, <1>2

LEMMA RollbackNext == TypeOK /\ CopyInv /\ [Next]_vars => [Rollback]_vars
<1> SUFFICES ASSUME TypeOK, CopyInv, Next PROVE Rollback
  OBVIOUS
<1> USE DEF history
<1>1. ASSUME NEW r \in Resources, PutAll(r) \/ PutAllFails(r) PROVE Rollback
  <2>1. pc[r] = "put" /\ (doc' = doc \/ doc' = Rewritten(r))
    BY <1>1 DEF PutAll, PutAllFails, Becomes
  <2>2. pc'[r] # "put"
    BY <1>1 DEF PutAll, PutAllFails, Fail, Finish, Goto, TypeOK
  <2> QED BY <2>1, <2>2, WriteRollsBack DEF Rollback
<1>2. CASE ManualChange
  BY <1>2 DEF ManualChange, Rollback
<1>3. ASSUME NEW r \in Resources,
             \/ Refresh(r) \/ RefreshFails(r) \/ GetAll(r) \/ GetAllFails(r) \/ CreateReads(r)
             \/ Edit(r) \/ PlanCreate(r) \/ PlanUpdate(r) \/ PlanDelete(r) \/ PlanNothing(r)
      PROVE  Rollback
  <2>1. doc' = doc
    BY <1>3 DEF Refresh, RefreshFails, GetAll, GetAllFails, CreateReads, Edit, Plan,
                PlanCreate, PlanUpdate, PlanDelete, PlanNothing
  <2> QED BY <2>1 DEF Rollback
<1> QED BY <1>1, <1>2, <1>3 DEF Next, Run

\* No operation changes another resource's entry but by putting back what it
\* read before a rival rewrote the list, and none that of another realm.
THEOREM RollbackOnly == Spec => OthersOnlyRolledBack
<1>1. Init => TypeOK /\ CopyInv
  BY TypeInit DEF Init, CopyInv
<1>2. TypeOK /\ CopyInv /\ [Next]_vars => (TypeOK /\ CopyInv)'
  BY TypeNext, CopyNext
<1>3. Spec => [](TypeOK /\ CopyInv)
  BY <1>1, <1>2, PTL DEF Spec
<1>4. Spec => [][Rollback]_vars
  BY <1>3, RollbackNext, PTL DEF Spec
<1> QED BY <1>4 DEF Rollback, OthersOnlyRolledBack

-----------------------------------------------------------------------------
(* No created entry is forgotten                                           *)

\* Where the entries a resource has created may be.
Sight(p) == {n \in Homes[p] \cap authored : state[p].at # n /\ ~(pc[p] = "read" /\ planned[p].at = n)}

\* EntriesKnown is inductive together with what the running operation is about: an
\* update works on the place in the state, unless the realm was edited.
SightInv ==
  \A p \in Resources :
    /\ p \in moved \/ Sight(p) = {}
    /\ op[p] = "update" => p \in moved \/ planned[p].at = state[p].at
    /\ op[p] = "create" => ~Recorded(p)

LEMMA SightEntries == SightInv => EntriesKnown
BY DEF SightInv, Sight, EntriesKnown

\* Only the place an operation works on gets a new entry of its resource, and an
\* entry that is gone is nobody's.
LEMMA BecomesAuthored ==
  ASSUME NEW d, NEW R \in SUBSET Resources, NEW unsure, Becomes(d, R, unsure)
  PROVE  \A n \in authored' : d[n] # Absent /\ (n \in authored \/ \E r \in R : planned[r].at = n)
BY DEF Becomes

\* The places of two resources are different.
LEMMA PlannedHome ==
  ASSUME TypeOK, NEW r \in Resources, op[r] # "none"
  PROVE  planned[r].at \in Homes[r] /\ planned[r].at \in Places
<1>1. planned[r] \in Entries(r) \/ (state[r] \in Entries(r) /\ planned[r].at = state[r].at)
  BY DEF TypeOK, Recorded, Entries
<1> QED BY <1>1, ConstantsAssumption DEF Entries

\* While an operation runs, only the place it works on can have such an entry.
LEMMA Held ==
  ASSUME TypeOK, SightInv, NEW r \in Resources, r \notin moved, op[r] # "none"
  PROVE  \A n \in Homes[r] \cap authored : n = planned[r].at
<1> SUFFICES ASSUME NEW n \in Homes[r] \cap authored, n # planned[r].at PROVE FALSE
  OBVIOUS
<1>1. state[r].at = n
  BY DEF SightInv, Sight
<1>2. CASE op[r] = "create"
  BY <1>1, <1>2, ConstantsAssumption DEF SightInv, Recorded, None
<1>3. CASE op[r] = "update"
  BY <1>1, <1>3 DEF SightInv
<1>4. CASE op[r] = "delete"
  <2>1. state[r] \in Entries(r) /\ planned[r] = [state[r] EXCEPT !.val = Absent]
    BY <1>4 DEF TypeOK, Recorded
  <2> QED BY <1>1, <2>1 DEF Entries
<1> QED BY <1>2, <1>3, <1>4 DEF TypeOK

\* An operation that ends with the place it worked on in the state.
LEMMA EndsInSight ==
  ASSUME TypeOK, SightInv, NEW r \in Resources, op[r] # "none", moved' = moved,
         Homes[r] \cap authored' \subseteq authored \cup {planned[r].at},
         state'[r].at = planned[r].at, op'[r] = "none"
  PROVE  /\ r \in moved' \/ Sight(r)' = {}
         /\ op'[r] = "update" => r \in moved' \/ planned'[r].at = state'[r].at
         /\ op'[r] = "create" => ~Recorded(r)'
BY Held DEF Sight

\* A resource whose own variables stay as they were keeps its entries in sight.
LEMMA StaysInSight ==
  ASSUME TypeOK, SightInv, NEW p \in Resources,
         state'[p] = state[p], pc'[p] = pc[p], op'[p] = op[p], planned'[p] = planned[p],
         Homes[p] \cap authored' \subseteq authored, moved \subseteq moved'
  PROVE  /\ p \in moved' \/ Sight(p)' = {}
         /\ op'[p] = "update" => p \in moved' \/ planned'[p].at = state'[p].at
         /\ op'[p] = "create" => ~Recorded(p)'
<1>1. Sight(p)' \subseteq Sight(p)
  BY DEF Sight
<1> QED BY <1>1 DEF SightInv, Recorded

LEMMA SightNext == TypeOK /\ SightInv /\ [Next]_vars => SightInv'
<1> SUFFICES ASSUME TypeOK, SightInv, [Next]_vars, NEW p \in Resources
             PROVE  /\ p \in moved' \/ Sight(p)' = {}
                    /\ op'[p] = "update" => p \in moved' \/ planned'[p].at = state'[p].at
                    /\ op'[p] = "create" => ~Recorded(p)'
  BY DEF SightInv
<1> DEFINE Goal == /\ p \in moved' \/ Sight(p)' = {}
                   /\ op'[p] = "update" => p \in moved' \/ planned'[p].at = state'[p].at
                   /\ op'[p] = "create" => ~Recorded(p)'
<1> HIDE DEF Goal
<1> USE DEF Goto, history, tfstate, NoEvent
<1>1. ASSUME NEW r \in Resources, Run(r), p # r PROVE Goal
  <2>1. state'[p] = state[p] /\ pc'[p] = pc[p] /\ op'[p] = op[p] /\ planned'[p] = planned[p]
    <3>1. CASE Refresh(r) \/ RefreshFails(r)
      BY <1>1, <3>1 DEF TypeOK, Refresh, RefreshFails, Record
    <3>2. CASE PlanCreate(r) \/ PlanUpdate(r) \/ PlanDelete(r) \/ PlanNothing(r)
      BY <1>1, <3>2 DEF TypeOK, PlanCreate, PlanUpdate, PlanDelete, PlanNothing, Plan
    <3>3. CASE GetAll(r) \/ GetAllFails(r) \/ CreateReads(r)
      BY <1>1, <3>3 DEF TypeOK, GetAll, GetAllFails, CreateReads, Fail, Finish, Record
    <3>4. CASE PutAll(r)
      BY <1>1, <3>4 DEF TypeOK, PutAll, Finish, Record
    <3>5. CASE PutAllFails(r)
      BY <1>1, <3>5 DEF TypeOK, PutAllFails, Fail, Finish, Record
    <3> QED BY <1>1, <3>1, <3>2, <3>3, <3>4, <3>5 DEF Run
  <2>2. Homes[p] \cap authored' \subseteq authored
    <3>1. CASE PutAll(r) \/ PutAllFails(r)
      <4>1. op[r] # "none"
        BY <3>1 DEF PutAll, PutAllFails, TypeOK
      <4>2. planned[r].at \notin Homes[p]
        BY <1>1, <4>1, PlannedHome, ConstantsAssumption
      <4>3. PICK d, u : Becomes(d, {r}, u)
        BY <3>1 DEF PutAll, PutAllFails
      <4>4. \A n \in authored' : n \in authored \/ planned[r].at = n
        BY <1>1, <4>3, BecomesAuthored
      <4> QED BY <4>2, <4>4
    <3>2. CASE ~(PutAll(r) \/ PutAllFails(r))
      <4>1. authored' = authored
        BY <1>1, <3>2 DEF Run, Refresh, RefreshFails, PlanCreate, PlanUpdate, PlanDelete, PlanNothing,
                          Plan, GetAll, GetAllFails, CreateReads
      <4> QED BY <4>1
    <3> QED BY <3>1, <3>2
  <2>3. moved \subseteq moved'
    BY <1>1 DEF Run, Refresh, RefreshFails, PlanCreate, PlanUpdate, PlanDelete, PlanNothing,
                GetAll, GetAllFails, PutAll, PutAllFails, CreateReads
  <2> QED BY <2>1, <2>2, <2>3, StaysInSight DEF Goal
<1>2. ASSUME Refresh(p) \/ RefreshFails(p) PROVE Goal
  <2>1. moved' = moved /\ authored' = authored /\ op' = op /\ planned' = planned /\ op[p] = "none"
    BY <1>2 DEF Refresh, RefreshFails, TypeOK
  <2>2. state'[p].at = state[p].at
    <3>1. CASE Recorded(p) /\ Record(p, tainted[p], Reads(state[p]))
      <4>1. state[p] \in Entries(p) /\ doc \in Lists
        BY <3>1 DEF TypeOK, Recorded
      <4> QED BY <3>1, <4>1, ReadsEntry DEF Record, TypeOK
    <3>2. CASE state' = state
      BY <3>2
    <3> QED BY <1>2, <3>1, <3>2 DEF Refresh, RefreshFails
  <2>3. pc[p] # "read" /\ pc'[p] # "read"
    BY <1>2 DEF Refresh, RefreshFails, TypeOK
  <2> QED BY <2>1, <2>2, <2>3 DEF Goal, SightInv, Sight
<1>3. ASSUME PlanCreate(p) \/ PlanUpdate(p) \/ PlanDelete(p) \/ PlanNothing(p) PROVE Goal
  <2>1. authored' = authored /\ state' = state /\ pc[p] # "read" /\ pc'[p] # "read"
    BY <1>3 DEF PlanCreate, PlanUpdate, PlanDelete, PlanNothing, Plan, TypeOK
  <2>2. moved \subseteq moved'
    BY <1>3 DEF PlanCreate, PlanUpdate, PlanDelete, PlanNothing
  <2>3. p \in moved' \/ Sight(p)' = {}
    BY <2>1, <2>2 DEF SightInv, Sight
  <2>4. op'[p] = "update" => p \in moved' \/ planned'[p].at = state'[p].at
    <3>1. CASE PlanUpdate(p)
      BY <3>1, <2>1 DEF PlanUpdate, Plan, TypeOK
    <3>2. CASE PlanCreate(p) \/ PlanDelete(p) \/ PlanNothing(p)
      BY <3>2 DEF PlanCreate, PlanDelete, PlanNothing, Plan, TypeOK
    <3> QED BY <1>3, <3>1, <3>2
  <2>5. op'[p] = "create" => ~Recorded(p)'
    <3>1. CASE PlanCreate(p)
      BY <2>1, <3>1 DEF PlanCreate, Recorded
    <3>2. CASE PlanUpdate(p) \/ PlanDelete(p) \/ PlanNothing(p)
      BY <3>2 DEF PlanUpdate, PlanDelete, PlanNothing, Plan, TypeOK
    <3> QED BY <1>3, <3>1, <3>2
  <2> QED BY <2>3, <2>4, <2>5 DEF Goal
<1>4. ASSUME GetAll(p) PROVE Goal
  <2>1. /\ authored' = authored /\ state' = state /\ moved' = moved /\ op' = op /\ planned' = planned
        /\ pc[p] # "read" /\ pc'[p] # "read"
    BY <1>4 DEF GetAll, TypeOK
  <2> QED BY <2>1 DEF Goal, SightInv, Sight, Recorded
<1>5. ASSUME Fail(p), op[p] # "none", moved' = moved,
             Homes[p] \cap authored' \subseteq authored \cup {planned[p].at}
      PROVE  Goal
  <2>1. op'[p] = "none"
    BY <1>5 DEF Fail, Finish, TypeOK
  <2>2. state'[p].at = planned[p].at
    <3>1. CASE op[p] = "create" \/ op[p] = "update"
      BY <1>5, <3>1 DEF Fail, Record, TypeOK
    <3>2. CASE op[p] = "delete"
      <4>1. state[p] \in Entries(p) /\ planned[p] = [state[p] EXCEPT !.val = Absent] /\ state' = state
        BY <1>5, <3>2 DEF Fail, TypeOK, Recorded
      <4> QED BY <4>1 DEF Entries
    <3> QED BY <1>5, <3>1, <3>2 DEF Fail
  <2> QED BY <1>5, <2>1, <2>2, EndsInSight DEF Goal
<1>6. ASSUME GetAllFails(p) PROVE Goal
  <2>1. op[p] # "none" /\ moved' = moved /\ authored' = authored
    BY <1>6 DEF GetAllFails, TypeOK
  <2> QED BY <1>5, <1>6, <2>1 DEF GetAllFails
<1>7. ASSUME NEW d, NEW u, Becomes(d, {p}, u) PROVE Homes[p] \cap authored' \subseteq authored \cup {planned[p].at}
  <2>1. \A n \in authored' : n \in authored \/ planned[p].at = n
    BY <1>7, BecomesAuthored
  <2> QED BY <2>1
<1>8. ASSUME PutAllFails(p) PROVE Goal
  <2>1. op[p] # "none" /\ moved' = moved /\ \E d, u : Becomes(d, {p}, u)
    BY <1>8 DEF PutAllFails, TypeOK
  <2>2. Homes[p] \cap authored' \subseteq authored \cup {planned[p].at}
    BY <1>7, <2>1
  <2> QED BY <1>5, <1>8, <2>1, <2>2 DEF PutAllFails
<1>9. ASSUME PutAll(p) PROVE Goal
  <2>1. op[p] # "none" /\ moved' = moved /\ pc[p] = "put" /\ \E u : Becomes(Rewritten(p), {p}, u)
    BY <1>9 DEF PutAll, TypeOK
  <2>2. Homes[p] \cap authored' \subseteq authored \cup {planned[p].at}
    BY <1>7, <2>1
  <2>3. CASE op[p] = "create" /\ Goto(p, "read") /\ UNCHANGED <<op, planned, tfstate>>
    <3>1. pc'[p] = "read" /\ op'[p] = "create" /\ planned' = planned /\ state' = state
      BY <2>3 DEF TypeOK
    <3>2. p \in moved' \/ Sight(p)' = {}
      BY <2>1, <2>2, <3>1, Held DEF Sight
    <3> QED BY <2>3, <3>1, <3>2 DEF Goal, SightInv, Recorded
  <2>4. CASE op[p] = "update" /\ Record(p, tainted[p], planned[p]) /\ Finish(p)
    <3>1. op'[p] = "none" /\ state'[p].at = planned[p].at
      BY <2>4 DEF Finish, Record, TypeOK
    <3> QED BY <2>1, <2>2, <3>1, EndsInSight DEF Goal
  <2>5. CASE op[p] = "delete" /\ Record(p, FALSE, None) /\ Finish(p)
    <3>1. op'[p] = "none"
      BY <2>5 DEF Finish, TypeOK
    <3>2. Rewritten(p)[planned[p].at] = Absent
      <4>1. planned[p].at \in Siblings(p) /\ planned[p].at \in Places /\ copy[p] \in Lists
        BY <2>1, PlannedHome DEF Siblings, TypeOK
      <4>2. state[p] \in Entries(p) /\ planned[p].val = Absent
        BY <2>5 DEF TypeOK, Recorded, Entries
      <4> QED BY <2>5, <4>1, <4>2 DEF Rewritten, Edited, Lists
    <3>3. p \in moved' \/ Homes[p] \cap authored' = {}
      <4> SUFFICES ASSUME p \notin moved, NEW n \in Homes[p] \cap authored' PROVE FALSE
        BY <2>1
      <4>1. n = planned[p].at
        BY <2>1, <2>2, Held
      <4>2. Rewritten(p)[n] # Absent
        BY <2>1, BecomesAuthored
      <4> QED BY <3>2, <4>1, <4>2
    <3> QED BY <3>1, <3>3 DEF Goal, Sight
  <2> QED BY <1>9, <2>3, <2>4, <2>5 DEF PutAll
<1>10. ASSUME CreateReads(p) PROVE Goal
  <2>1. op[p] = "create" /\ planned[p] \in Entries(p) /\ doc \in Lists
    BY <1>10 DEF CreateReads, TypeOK
  <2>2. moved' = moved /\ authored' = authored
    BY <1>10 DEF CreateReads
  <2>3. CASE Fail(p)
    BY <1>5, <2>1, <2>2, <2>3
  <2>4. CASE Record(p, FALSE, Reads(planned[p])) /\ Finish(p)
    <3>1. state'[p].at = planned[p].at /\ op'[p] = "none"
      BY <2>1, <2>4, ReadsEntry DEF Record, Finish, TypeOK
    <3> QED BY <2>1, <2>2, <3>1, EndsInSight DEF Goal
  <2> QED BY <1>10, <2>3, <2>4 DEF CreateReads
<1>11. ASSUME NEW r \in Resources, Edit(r) PROVE Goal
  <2>1. UNCHANGED <<state, pc, op, planned, authored, moved>>
    BY <1>11 DEF Edit
  <2> QED BY <2>1, StaysInSight DEF Goal
<1>12. CASE ManualChange
  <2>1. UNCHANGED <<state, pc, op, planned, moved>> /\ \E d, u : Becomes(d, {}, u)
    BY <1>12 DEF ManualChange
  <2>2. Homes[p] \cap authored' \subseteq authored
    BY <2>1, BecomesAuthored
  <2> QED BY <2>1, <2>2, StaysInSight DEF Goal
<1>13. CASE UNCHANGED vars
  <2>1. UNCHANGED <<state, pc, op, planned, authored, moved>>
    BY <1>13 DEF vars
  <2> QED BY <2>1, StaysInSight DEF Goal
<1>14. ASSUME NEW r \in Resources, Run(r) PROVE Goal
  <2>1. CASE r = p
    BY <1>2, <1>3, <1>4, <1>6, <1>8, <1>9, <1>10, <1>14, <2>1 DEF Run
  <2>2. CASE r # p
    BY <1>1, <1>14, <2>2
  <2> QED BY <2>1, <2>2
<1>15. Goal
  BY <1>11, <1>12, <1>13, <1>14 DEF Next, Goal
<1> QED BY <1>15 DEF Goal

\* An entry a resource has created is the one in its state, or the one being
\* created, whatever fails and whoever interferes, unless its realm was edited.
THEOREM CreatedEntriesKnown == Spec => []EntriesKnown
<1>1. Init => TypeOK /\ SightInv
  BY TypeInit DEF Init, SightInv, Sight
<1>2. TypeOK /\ SightInv /\ [Next]_vars => (TypeOK /\ SightInv)'
  BY TypeNext, SightNext
<1> QED BY <1>1, <1>2, SightEntries, PTL DEF Spec
=============================================================================

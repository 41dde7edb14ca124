----------------------------- MODULE ClientPolicies -----------------------------
(***************************************************************************)
(* keycloak_realm_client_policy_profile and ..._profile_policy.  Keycloak  *)
(* keeps the client policy profiles (and likewise the policies) of a realm *)
(* as one document, so every Create, Update and Delete of one entry reads  *)
(* the whole list, edits its copy and writes the whole list back, while    *)
(* Terraform runs the resources concurrently and nothing locks the list.   *)
(*                                                                         *)
(* The lists of all realms are one function: a place is a realm and a      *)
(* name.  The name of a resource is fixed, its realm may be edited.        *)
(***************************************************************************)
EXTENDS Naturals

CONSTANTS
  Places,      \* where an entry may be
  RealmOf,     \* the realm of each place
  Values,      \* what an entry may hold
  Absent,      \* no entry
  Resources,
  Policies,    \* those of them that are policies: all, or none if they are profiles
  Homes,       \* the places with the name of a resource
  MaxEvents    \* failing calls, edits of the configuration and changes made
               \* outside Terraform, together (bound)

ASSUME ConstantsAssumption ==
  /\ Absent \notin Values /\ Absent \notin Places
  /\ Homes \in [Resources -> SUBSET Places] /\ Policies \in {{}, Resources}
  /\ \A r, s \in Resources : r # s => Homes[r] \cap Homes[s] = {}
  /\ MaxEvents \in Nat

VARIABLES
  doc,         \* Keycloak's lists
  conf,        \* configuration of each resource
  state,       \* Terraform's state of each resource ...
  tainted,     \* ... and is it to be replaced
  pc,          \* step of its run
  op, planned, \* the planned operation, place and value
  copy,        \* the list as the operation read it ...
  rival,       \* ... and whether it changed since
  strayed,     \* places whose entry others created or removed, or a Delete that failed
  authored,    \* places whose entry the resource created
  moved,       \* resources whose realm was edited
  events       \* failing calls, edits and changes made outside so far

tfstate == <<state, tainted>>
history == <<rival, strayed, authored>>
vars == <<doc, conf, tfstate, pc, op, planned, copy, history, moved, events>>

Content == Values \cup {Absent}
Lists == [Places -> Content]
NoCopy == [n \in Places |-> Absent]

None == [at |-> Absent, val |-> Absent]
Entries(r) == [at : Homes[r], val : Values]
Known == [at : Places, val : Values] \cup {None}
Recorded(r) == state[r] # None

\* The places of the list an operation reads and writes.
Siblings(r) == {n \in Places : RealmOf[n] = RealmOf[planned[r].at]}

-----------------------------------------------------------------------------
Init ==
  /\ doc \in Lists
  /\ conf \in {c \in [Resources -> Known] : \A r \in Resources : c[r] \in Entries(r) \cup {None}}
  /\ state = [r \in Resources |-> None] /\ tainted = [r \in Resources |-> FALSE]
  /\ pc = [r \in Resources |-> "idle"] /\ op = [r \in Resources |-> "none"]
  /\ planned = [r \in Resources |-> None]
  /\ copy = [r \in Resources |-> NoCopy]
  /\ rival = [r \in Resources |-> FALSE]
  /\ strayed = {} /\ authored = {} /\ moved = {}
  /\ events = 0

Goto(r, l) == pc' = [pc EXCEPT ![r] = l]
Event == events < MaxEvents /\ events' = events + 1
NoEvent == UNCHANGED events

Record(r, taint, entry) ==
  /\ tainted' = [tainted EXCEPT ![r] = taint]
  /\ state' = [state EXCEPT ![r] = entry]

\* The lists become d, by a step of the resources R; the rest of the world sees
\* entries come and go that it has no part in, and R does not know what became of
\* the places unsure.
Becomes(d, R, unsure) ==
  /\ doc' = d
  /\ rival' = [p \in Resources |->
       pc[p] = "put" /\ p \notin R /\ (rival[p] \/ \E n \in Siblings(p) : d[n] # doc[n])]
  /\ strayed' = strayed \cup unsure \cup {n \in Places : /\ (d[n] = Absent) # (doc[n] = Absent)
                                                            /\ \A r \in R : planned[r].at # n}
  /\ authored' = {n \in Places : d[n] # Absent /\
       IF doc[n] = Absent THEN \E r \in R : planned[r].at = n ELSE n \in authored}

-----------------------------------------------------------------------------
(* Read: it updates what it finds, and finds nothing wrong with finding     *)
(* nothing: the resource stays in the state as it was.                      *)

\* Mutant: it keeps what is recorded.
ReadsRecorded(known) == known

Reads(known) == IF doc[known.at] # Absent THEN [known EXCEPT !.val = doc[known.at]] ELSE known

Refresh(r) ==
  /\ pc[r] = "idle"
  /\ \/ Recorded(r) /\ Record(r, tainted[r], Reads(state[r]))
     \/ ~Recorded(r) /\ UNCHANGED tfstate
  /\ Goto(r, "plan")
  /\ NoEvent /\ UNCHANGED <<doc, conf, op, planned, copy, history, moved>>

RefreshFails(r) ==
  /\ pc[r] = "idle" /\ Recorded(r)
  /\ Event
  /\ UNCHANGED <<doc, conf, tfstate, pc, op, planned, copy, history, moved>>

Plan(r, o, entry) ==
  /\ pc[r] = "plan"
  /\ Goto(r, IF o = "none" THEN "idle" ELSE "get")
  /\ op' = [op EXCEPT ![r] = o]
  /\ planned' = [planned EXCEPT ![r] = entry]
  /\ NoEvent /\ UNCHANGED <<doc, conf, tfstate, copy, history>>

PlanCreate(r) ==
  /\ conf[r] # None /\ ~Recorded(r)
  /\ Plan(r, "create", conf[r]) /\ UNCHANGED moved
\* A change of a policy's profiles replaces it, which begins with a Delete; a change of
\* anything else, the realm included, is an Update.
Revalued(r) == r \in Policies /\ conf[r].val # state[r].val
PlanUpdate(r) ==
  /\ conf[r] # None /\ Recorded(r) /\ ~tainted[r] /\ state[r] # conf[r]
  /\ Plan(r, "update", conf[r])
  /\ moved' = IF conf[r].at = state[r].at THEN moved ELSE moved \cup {r}
PlanDelete(r) ==
  /\ Recorded(r) /\ (conf[r] = None \/ tainted[r] \/ Revalued(r))
  /\ Plan(r, "delete", [state[r] EXCEPT !.val = Absent]) /\ UNCHANGED moved
PlanNothing(r) ==
  /\ conf[r] = state[r] /\ ~tainted[r]
  /\ Plan(r, "none", None) /\ UNCHANGED moved

-----------------------------------------------------------------------------
(* Create, Update, Delete                                                  *)

Finish(r) ==
  /\ Goto(r, "idle")
  /\ op' = [op EXCEPT ![r] = "none"] /\ planned' = [planned EXCEPT ![r] = None]

\* Mutant: the id is set after the last call, and not if one fails.
FailUnrecorded(r) ==
  /\ \/ op[r] = "create" /\ UNCHANGED tfstate
     \/ op[r] = "update" /\ Record(r, tainted[r], planned[r])
     \/ op[r] = "delete" /\ UNCHANGED tfstate
  /\ Finish(r)

\* Create sets the id before its first call, so that a failed Create leaves a
\* tainted resource; a failed Update leaves the planned values.
Fail(r) ==
  /\ \/ op[r] = "create" /\ Record(r, TRUE, planned[r])
     \/ op[r] = "update" /\ Record(r, tainted[r], planned[r])
     \/ op[r] = "delete" /\ UNCHANGED tfstate
  /\ Finish(r)

GetAll(r) ==
  /\ pc[r] = "get"
  /\ copy' = [copy EXCEPT ![r] = [n \in Places |-> IF n \in Siblings(r) THEN doc[n] ELSE Absent]]
  /\ Goto(r, "put")
  /\ NoEvent /\ UNCHANGED <<doc, conf, tfstate, op, planned, history, moved>>

GetAllFails(r) ==
  /\ pc[r] = "get"
  /\ Event
  /\ Fail(r)
  /\ UNCHANGED <<doc, conf, copy, history, moved>>

\* Mutant: the new list holds nothing but the entry.
EditedAlone(r) == [NoCopy EXCEPT ![planned[r].at] = planned[r].val]

\* Create appends, Update replaces the entry if it is there, Delete filters it out.
Edited(r) ==
  IF op[r] = "update" /\ copy[r][planned[r].at] = Absent THEN copy[r]
  ELSE [copy[r] EXCEPT ![planned[r].at] = planned[r].val]

Rewritten(r) == [n \in Places |-> IF n \in Siblings(r) THEN Edited(r)[n] ELSE doc[n]]

\* Keycloak refuses a list that holds a name twice.
Refused(r) == op[r] = "create" /\ copy[r][planned[r].at] # Absent

PutAll(r) ==
  /\ pc[r] = "put" /\ ~Refused(r)
  /\ Becomes(Rewritten(r), {r}, {})
  /\ copy' = [copy EXCEPT ![r] = NoCopy]
  /\ \/ op[r] = "create" /\ Goto(r, "read") /\ UNCHANGED <<op, planned, tfstate>>
     \/ op[r] = "update" /\ Record(r, tainted[r], planned[r]) /\ Finish(r)
     \/ op[r] = "delete" /\ Record(r, FALSE, None) /\ Finish(r)
  /\ NoEvent /\ UNCHANGED <<conf, moved>>

PutAllFails(r) ==
  /\ pc[r] = "put"
  /\ \/ Refused(r) /\ NoEvent /\ Becomes(doc, {r}, {})
     \/ Event /\ Becomes(doc, {r}, {})
     \/ ~Refused(r) /\ Event /\ Becomes(Rewritten(r), {r}, IF op[r] = "delete" THEN {planned[r].at} ELSE {})
  /\ copy' = [copy EXCEPT ![r] = NoCopy]
  /\ Fail(r)
  /\ UNCHANGED <<conf, moved>>

CreateReads(r) ==
  /\ pc[r] = "read"
  /\ \/ Record(r, FALSE, Reads(planned[r])) /\ Finish(r) /\ NoEvent
     \/ Event /\ Fail(r)
  /\ UNCHANGED <<doc, conf, copy, history, moved>>

-----------------------------------------------------------------------------
Edit(r) ==
  /\ pc[r] = "idle" /\ Event
  /\ \E e \in Entries(r) \cup {None} : conf' = [conf EXCEPT ![r] = e]
  /\ UNCHANGED <<doc, tfstate, pc, op, planned, copy, history, moved>>

ManualChange ==
  /\ Event
  /\ \E n \in Places, v \in Content : Becomes([doc EXCEPT ![n] = v], {}, {})
  /\ UNCHANGED <<conf, tfstate, pc, op, planned, copy, moved>>

Run(r) ==
  \/ Refresh(r) \/ RefreshFails(r)
  \/ PlanCreate(r) \/ PlanUpdate(r) \/ PlanDelete(r) \/ PlanNothing(r)
  \/ GetAll(r) \/ GetAllFails(r) \/ PutAll(r) \/ PutAllFails(r) \/ CreateReads(r)

Next == (\E r \in Resources : Run(r) \/ Edit(r)) \/ ManualChange

Spec == Init /\ [][Next]_vars

\* Someone runs terraform apply again and again, and a started run goes on.
FairSpec == Spec /\ \A r \in Resources : WF_vars(Run(r))
-----------------------------------------------------------------------------
\* What has no id is not to be replaced, and an operation works on a place of its
\* resource.
TypeOK ==
  /\ doc \in Lists
  /\ conf \in [Resources -> Known] /\ state \in [Resources -> Known]
  /\ \A r \in Resources : conf[r] \in Entries(r) \cup {None} /\ state[r] \in Entries(r) \cup {None}
  /\ tainted \in [Resources -> BOOLEAN] /\ \A r \in Resources : tainted[r] => Recorded(r)
  /\ pc \in [Resources -> {"idle", "plan", "get", "put", "read"}]
  /\ op \in [Resources -> {"none", "create", "update", "delete"}]
  /\ planned \in [Resources -> [at : Places \cup {Absent}, val : Content]]
  /\ \A r \in Resources :
       /\ op[r] = "none" <=> pc[r] \in {"idle", "plan"}
       /\ pc[r] = "read" => op[r] = "create"
       /\ op[r] \in {"create", "update"} => planned[r] \in Entries(r)
       /\ op[r] = "delete" => Recorded(r) /\ planned[r] = [state[r] EXCEPT !.val = Absent]
  /\ copy \in [Resources -> Lists]
  /\ rival \in [Resources -> BOOLEAN]
  /\ strayed \subseteq Places /\ authored \subseteq Places /\ moved \subseteq Resources
  /\ events \in Nat

\* What an operation is about to write is an edit of what the list still holds,
\* unless the list changed since it was read.
CopyInv ==
  \A r \in Resources : pc[r] = "put" /\ ~rival[r] => \A n \in Siblings(r) : copy[r][n] = doc[n]

\* No operation changes another resource's entry, whatever it holds, unless the
\* list was rewritten between the operation's read and its write; then it puts
\* back what it read.  (pc' = pc: it was an administrator.)
OthersOnlyRolledBack ==
  [][ \A n \in Places : doc'[n] # doc[n] =>
        \/ pc' = pc
        \/ \E r \in Resources : pc[r] = "put" /\ pc'[r] # "put" /\ n \in Siblings(r) /\
             \/ n = planned[r].at /\ doc'[n] = planned[r].val
             \/ rival[r] /\ doc'[n] = copy[r][n] ]_vars

\* Create sets the id before it calls, so an entry a resource has created never
\* gets out of Terraform's sight, whichever call fails: it is the one in the state
\* until it is removed.  Only an edit of the realm leaves it behind.
EntriesKnown ==
  \A r \in Resources : \A n \in Homes[r] \cap authored :
    r \in moved \/ state[r].at = n \/ (pc[r] = "read" /\ planned[r].at = n)

\* Repeated runs reach the configuration in spite of failures, and in spite of
\* lost updates: an entry whose value another operation rolled back is noticed
\* by the next Read.  Only an entry that another operation or an administrator
\* removed (or created) may stay wrong, one removed by a Delete whose answer was
\* lost (it may be wanted again), and one whose realm was edited: Read does not
\* notice absence, and Update replaces what is not there.
Settled(r) == state[r] = conf[r] /\ (Recorded(r) => doc[conf[r].at] = conf[r].val)

LostUpdatesHeal == <>[](\A r \in Resources : Settled(r) \/ conf[r].at \in strayed \/ r \in moved)

\* The acceptance tests look each profile up after the apply that created it
\* (testAccCheckKeycloakRealmClientPolicyProfileExists): a resource recorded and
\* as configured has its entry, if no call failed and no administrator removed it.
AppliedEntriesExist ==
  \A r \in Resources :
    pc[r] = "idle" /\ Recorded(r) /\ ~tainted[r] /\ events = 0 => doc[state[r].at] # Absent
=============================================================================

-------------------------- MODULE ResourceLifecycle --------------------------
(***************************************************************************)
(* One resource of any kind, from the first apply to the last: Terraform   *)
(* refreshes it, plans, and runs Create, Update, Delete or both, call by   *)
(* call.  Calls fail, with or without having had their effect; the         *)
(* configuration is edited, objects are imported, and administrators       *)
(* change or delete what Keycloak holds, at any time.                      *)
(*                                                                         *)
(* One attribute of the resource is watched; its value is 0 (Keycloak's    *)
(* default, or absent) or 1.  Where the attribute is part of the object's  *)
(* URL, the value is where the object is.                                  *)
(***************************************************************************)
EXTENDS ResourceKind, FiniteSets

CONSTANTS
  Kinds,      \* the resource types (records of ResourceKind)
  Ids,        \* ids of the objects of the resource's name (1 is the first; bound)
  MaxEvents   \* failing calls, edits, imports and changes by others (bound)

ASSUME KindsAssumption == \A k \in Kinds : IsResource(k)
ASSUME BoundsAssumption == Ids \subseteq Nat \ {0} /\ 1 \in Ids /\ MaxEvents \in Nat

VARIABLES
  shape,    \* the resource type, and the class of the watched attribute
  unique,   \* does Keycloak refuse a second object of the same name
  objects,  \* what Keycloak holds, by id
  peer,     \* is the object the resource refers to there
  conf,     \* configuration: is the resource in it, and the attribute
  state,    \* Terraform state: id (0 if none), attribute, tainted
  op,       \* what the provider is doing
  todo,     \* ... and the rest of its program
  handle,   \* the id Create has from Keycloak
  outcome,  \* how the last run went, if nothing has disturbed it
  lost,     \* has an object been left behind by a Create that failed: the answer to the
            \* creating call was lost, or a call the type makes before SetId failed
  events    \* failing calls, edits, imports and changes by others so far

keycloak == <<objects, peer>>
run == <<op, todo, handle>>
vars == <<shape, unique, keycloak, conf, state, run, outcome, lost, events>>
-----------------------------------------------------------------------------
Uses(i) == \E p \in {shape.create, shape.update, shape.delete, shape.adopting} : Has(p, i)
Class == shape.class

\* What is kept of a resource type when its attribute a, of class c, is watched; whether
\* Create takes an object over is told apart when the attribute that says so is.
Shape(k, c, a) == [
  class |-> c, computed |-> a \in k.computed, create |-> k.create, update |-> k.update, delete |-> k.delete,
  adopting |-> IF c = "steering" THEN k.adopting ELSE <<>>,
  gone |-> k.gone, lookup |-> k.lookup, failure |-> k.failure,
  named |-> k.named, importable |-> k.importable]

Shapes == UNION {{Shape(k, c, a) : a \in k[c]} : k \in Kinds, c \in Classes}

Absent == [alive |-> FALSE, mine |-> FALSE, val |-> 0]
Nothing == [id |-> 0, val |-> 0, tainted |-> FALSE]

Live == {i \in Ids : objects[i].alive}
Homonyms(v) == {i \in Live : Class \in InURL => objects[i].val = v}
Target(id, v) == IF shape.named THEN Homonyms(v) ELSE Homonyms(v) \cap {id}
Unused == {i \in Ids : ~objects[i].alive /\ i \notin {state.id, handle}}
Free == CHOOSE i \in Unused : TRUE

\* The value the running operation has been given, and the object it works on.
Planned == IF op = "create" THEN conf.val ELSE state.val
Current == Target(IF op = "create" THEN handle ELSE state.id, Planned)
The(S) == CHOOSE i \in S : TRUE

Init ==
  /\ shape \in Shapes
  /\ unique \in (IF shape.named THEN {TRUE} ELSE BOOLEAN)
  /\ \E first \in {Absent} \cup {[Absent EXCEPT !.alive = TRUE, !.val = v] : v \in {0, 1}} :
       objects = [i \in Ids |-> IF i = 1 THEN first ELSE Absent]
  /\ peer = TRUE
  /\ conf \in [want : {TRUE}, val : {0, 1}]
  /\ state = Nothing
  /\ op = "idle" /\ todo = <<>> /\ handle = 0
  /\ outcome = "none" /\ lost = FALSE
  /\ events = 0

-----------------------------------------------------------------------------
(* What the Terraform plugin SDK makes of the end of an operation.         *)

Event == events < MaxEvents /\ events' = events + 1
Fault == Event /\ outcome' = "none"
NoFault == UNCHANGED <<events, outcome>>
Quiet == UNCHANGED <<shape, unique, conf>>

\* An error of Create leaves no state before SetId and a tainted resource after
\* it; an error of Update leaves the planned values, one of Delete the old ones.
Fail ==
  /\ op' = "idle" /\ todo' = <<>> /\ handle' = 0
  /\ state' = IF op = "create" /\ state.id # 0 THEN [state EXCEPT !.tainted = TRUE] ELSE state

\* Some types make other calls before they record what they created.
CreatedThenRecorded ==
  \A n \in DOMAIN shape.create : shape.create[n] \in Creating => shape.create[n + 1] = "record"
Slips == ~CreatedThenRecorded /\ op = "create" /\ handle # 0 /\ state.id = 0

At(i) == todo # <<>> /\ Head(todo) = i
Advance(t) == todo' = t /\ UNCHANGED op

\* One API call.  Keycloak carries it out if it can (ok), and the answer may be
\* an error all the same, before or after the effect.
Call(i, ok, after, h) ==
  /\ At(i)
  /\ \/ /\ ok /\ objects' = after /\ handle' = h
        /\ Advance(Tail(todo))
        /\ NoFault /\ UNCHANGED <<state, lost>>
     \/ ~ok /\ Fail /\ NoFault /\ UNCHANGED objects /\ lost' = (lost \/ Slips)
     \/ Fault /\ Fail /\ UNCHANGED objects /\ lost' = (lost \/ Slips)
     \/ /\ ok /\ after # objects /\ Fault /\ Fail
        /\ objects' = after
        /\ lost' = (lost \/ h # handle \/ Slips)
  /\ UNCHANGED peer /\ Quiet

-----------------------------------------------------------------------------
(* The instructions                                                        *)

Check == Call("check", peer, objects, handle)
Extra == Call("extra", TRUE, objects, handle)

Glance ==
  /\ At("glance")
  /\ \/ Advance(Tail(todo)) /\ NoFault
     \/ Fault /\ Advance(<<"record", "read">>)
  /\ UNCHANGED <<keycloak, state, handle, lost>> /\ Quiet

\* Mutant: Create does not look for a namesake.
GuardOfUpdate == Call("guard", op = "update" => Homonyms(Planned) \subseteq {state.id}, objects, handle)

Guard == Call("guard", Homonyms(Planned) \subseteq {state.id}, objects, handle)

\* (Ids is large enough if a new object always finds one.)
New(sent) == [alive |-> TRUE, mine |-> TRUE, val |-> IF Class \in sent THEN Planned ELSE 0]
Create(i, ok, sent) == Unused # {} /\ Call(i, ok, [objects EXCEPT ![Free] = New(sent)], Free)
Take(i) == \E o \in Homonyms(Planned) : Call(i, TRUE, [objects EXCEPT ![o].mine = TRUE], o)

Post == Create("post", unique => Homonyms(Planned) = {}, Posted)
Enable == IF Homonyms(Planned) = {} THEN Create("enable", TRUE, InURL) ELSE Take("enable")
Find == IF Homonyms(Planned) = {} THEN Call("find", FALSE, objects, handle) ELSE Take("find")

Write(i, written, v) ==
  Call(i, Current # {},
       [o \in Ids |-> IF o \in Current /\ written THEN [objects[o] EXCEPT !.val = v] ELSE objects[o]],
       handle)

\* Mutant: what is never answered is not sent either.
PutReadable == Write("put", Class \in Put \ {"blind"} \/ (Class = "omitted" /\ Planned = 1), Planned)

PutWhole == Write("put", Class \in Put \/ (Class = "omitted" /\ Planned = 1), Planned)
Merge == Write("merge", Class \in Put \cup {"omitted"} /\ Planned = 1, 1)
Part == Write("part", Class \in Partly, Planned)
Add == Write("add", Class \in Partly \cup {"sticky"} /\ Planned = 1, 1)

\* Mutant: what is not configured any more stays.
ClearNothing == Write("clear", FALSE, 0)

Clear == Write("clear", Class \in Partly /\ Planned = 0, 0)
Strip == Write("strip", Class \in Partly /\ Planned = 1, 0)
Once == Write("once", Class = "once", Planned)
Reset == Write("reset", Class \in Put \cup Partly, 0)

Wiped == IF Class \in Partly THEN [o \in Ids |-> IF o \in Current THEN [objects[o] EXCEPT !.val = 0] ELSE objects[o]]
         ELSE objects
Wipe ==
  /\ At("wipe")
  /\ \/ objects' = Wiped /\ NoFault
     \/ Fault /\ objects' \in {objects, Wiped}
  /\ Advance(Tail(todo))
  /\ UNCHANGED <<peer, state, handle, lost>> /\ Quiet

\* Mutant: SetId is left to the end of Create.
RecordLast ==
  /\ At("record")
  /\ IF op = "create" /\ Tail(todo) \notin {<<>>, <<"read">>}
       THEN todo' = Tail(todo) \o <<"record">> /\ UNCHANGED state
       ELSE /\ Advance(Tail(todo))
            /\ state' = [id |-> IF shape.named THEN 1 ELSE handle, val |-> Planned, tainted |-> FALSE]
  /\ NoFault /\ UNCHANGED <<op, keycloak, handle, lost>> /\ Quiet

Record ==
  /\ At("record")
  /\ Advance(Tail(todo))
  /\ state' = [id |-> IF shape.named THEN 1 ELSE IF op = "create" THEN handle ELSE state.id,
               val |-> Planned, tainted |-> FALSE]
  /\ NoFault /\ UNCHANGED <<keycloak, handle, lost>> /\ Quiet

\* DELETE; some types send it again when it fails.
Removed == [o \in Ids |-> IF o \in Current THEN Absent ELSE objects[o]]
Repeats == Tail(todo) # <<>> /\ Head(Tail(todo)) = "again"

Delete ==
  /\ At("delete")
  /\ \/ Current # {} /\ objects' = Removed /\ NoFault
        /\ Advance(IF Repeats THEN Tail(Tail(todo)) ELSE Tail(todo)) /\ UNCHANGED <<state, handle>>
     \/ /\ \/ Current = {} /\ NoFault /\ UNCHANGED objects
           \/ Fault /\ objects' \in {objects, Removed}
        /\ IF Repeats THEN Advance(Tail(todo)) /\ UNCHANGED <<state, handle>> ELSE Fail
  /\ UNCHANGED <<peer, lost>> /\ Quiet

Again == Call("again", Current # {}, Removed, handle)
Remove == Call("remove", TRUE, Removed, handle)

-----------------------------------------------------------------------------
(* Read: the first step of a run, and the last of most operations.         *)

\* Mutant: Read leaves out what has a call of its own.
ReadValueOfDocument(o) ==
  CASE Class \in {"fixed", "synced", "omitted", "observed"} -> o.val
    [] Class = "echoed" -> IF state.val = 0 THEN 0 ELSE o.val
    [] Class \in {"kept", "sticky"} -> IF o.val = 0 THEN state.val ELSE o.val
    [] OTHER -> state.val

ReadValue(o) ==
  CASE Class \in {"fixed", "synced", "omitted", "late", "observed"} -> o.val
    [] Class = "echoed" -> IF state.val = 0 THEN 0 ELSE o.val
    [] Class \in Retained -> IF o.val = 0 THEN state.val ELSE o.val
    [] OTHER -> state.val

Found == Target(state.id, state.val)

\* Mutant: any error of Read is taken for a 404.
ForgetsOnError ==
  \/ Found = {} /\ shape.gone = "forgets"
  \/ Found # {} /\ ~peer /\ shape.lookup # "none"

\* handleNotFoundError: the object, or one Read looks up, is gone.
Forgets ==
  \/ Found = {} /\ shape.gone = "forgets"
  \/ Found # {} /\ ~peer /\ shape.lookup = "forgets"

ReadFails ==
  \/ Found = {} /\ shape.gone = "fails"
  \/ Found # {} /\ ~peer /\ shape.lookup = "fails" /\ ~Forgets

\* (An answer that is blank is one that everything differs from.)
Reads ==
  /\ ~ReadFails
  /\ state' = CASE Forgets -> Nothing
               [] ~Forgets /\ Found = {} -> [state EXCEPT !.tainted = TRUE]
               [] OTHER -> [state EXCEPT !.val = ReadValue(objects[The(Found)])]

\* A GET fails, and is taken for an object that is not there.
Misreads == shape.failure = "forgets" /\ Fault /\ state' = Nothing

ReadBack ==
  /\ At("read")
  /\ \/ Reads /\ Advance(Tail(todo)) /\ NoFault /\ UNCHANGED handle
     \/ ReadFails /\ Fail /\ NoFault
     \/ shape.failure = "fails" /\ Fault /\ Fail
     \/ Misreads /\ Advance(Tail(todo)) /\ UNCHANGED handle
  /\ UNCHANGED <<keycloak, lost>> /\ Quiet

Refresh ==
  /\ op = "idle"
  /\ \/ /\ IF state.id = 0 THEN UNCHANGED state ELSE Reads
        /\ op' = "plan" /\ UNCHANGED events
        /\ outcome' = IF outcome = "imported" THEN outcome ELSE "calm"
     \/ state.id # 0 /\ ReadFails /\ outcome' = "none" /\ UNCHANGED <<op, state, events>>
     \/ state.id # 0 /\ shape.failure = "fails" /\ Fault /\ UNCHANGED <<op, state>>
     \/ state.id # 0 /\ Misreads /\ op' = "plan"
  /\ UNCHANGED <<todo, handle, keycloak, lost>> /\ Quiet

-----------------------------------------------------------------------------
(* Plan and apply                                                          *)

Begin(o, program) ==
  /\ op = "plan"
  /\ op' = o /\ todo' = program /\ handle' = 0
  /\ UNCHANGED <<keycloak, lost, events>> /\ Quiet

\* An attribute that is optional and computed plans no change when it is taken out.
Told == ~shape.computed \/ conf.val = 1
Differs == conf.val # state.val /\ Class # "once" /\ Told
MustReplace == state.tainted \/ (Differs /\ Class \in Replacing)

\* What the steering attribute chooses.
CreateProgram == IF shape.adopting # <<>> /\ conf.val = 1 THEN shape.adopting ELSE shape.create
DeleteProgram == IF shape.adopting # <<>> /\ state.val = 1 THEN <<>> ELSE shape.delete

Starts == outcome' = IF outcome = "imported" THEN "calm" ELSE outcome

PlanCreate == conf.want /\ state.id = 0 /\ Begin("create", CreateProgram) /\ UNCHANGED state /\ Starts
PlanUpdate ==
  /\ conf.want /\ state.id # 0 /\ Differs /\ ~MustReplace
  /\ state' = [state EXCEPT !.val = conf.val]
  /\ Begin("update", shape.update) /\ Starts
PlanReplace ==
  /\ conf.want /\ state.id # 0 /\ MustReplace
  /\ Begin("replace", DeleteProgram) /\ UNCHANGED state /\ Starts
PlanDelete == ~conf.want /\ state.id # 0 /\ Begin("delete", DeleteProgram) /\ UNCHANGED state /\ Starts
PlanNothing ==
  /\ IF conf.want THEN state.id # 0 /\ ~Differs /\ ~state.tainted ELSE state.id = 0
  /\ Begin("idle", <<>>)
  /\ outcome' = IF outcome = "none" THEN "none" ELSE "nothing"
  /\ UNCHANGED state

Ends == UNCHANGED <<keycloak, lost, events>> /\ Quiet /\ handle' = 0

Applied ==
  /\ op \in {"create", "update", "delete"} /\ todo = <<>>
  /\ op' = "idle" /\ UNCHANGED todo
  /\ state' = IF op = "delete" THEN Nothing ELSE state
  /\ outcome' = IF outcome = "calm" THEN "applied" ELSE "none"
  /\ Ends

Destroyed ==
  /\ op = "replace" /\ todo = <<>>
  /\ op' = "create" /\ todo' = CreateProgram
  /\ state' = Nothing
  /\ UNCHANGED outcome /\ Ends

-----------------------------------------------------------------------------
(* Everyone else                                                           *)

Author ==
  /\ op = "idle" /\ Event
  /\ UNCHANGED <<shape, unique, peer, run, lost>>

Configure ==
  /\ Author
  /\ conf' \in {[conf EXCEPT !.want = ~@], [conf EXCEPT !.val = 1 - @]}
  /\ outcome' = "none" /\ UNCHANGED <<objects, state>>

\* Mutant: the importer leaves the attributes a change of which replaces alone.
ImportsSettable(o) == IF Class \in {"synced", "omitted", "late", "observed"} \cup Retained THEN objects[o].val ELSE 0

\* The importer takes the address from the id it is given and reads the rest.
Imports(o) ==
  IF Class \in InURL \cup {"fixed", "synced", "omitted", "late", "observed"} \cup Retained THEN objects[o].val ELSE 0

\* Does the configuration say of the object what is true of it.
Faithful(o) ==
  /\ Class = "fixed" => conf.val = objects[o].val
  /\ Class = "steering" => conf.val = 0

Import ==
  /\ Author
  /\ shape.importable /\ conf.want /\ state.id = 0
  /\ \E o \in Homonyms(conf.val) :
       /\ objects' = [objects EXCEPT ![o].mine = TRUE]
       /\ state' = [id |-> IF shape.named THEN 1 ELSE o, val |-> Imports(o), tainted |-> FALSE]
       /\ outcome' = IF Faithful(o) THEN "imported" ELSE "none"
  /\ UNCHANGED conf

Outside ==
  /\ Event
  /\ outcome' = "none"
  /\ UNCHANGED <<shape, unique, conf, state, run, lost>>

AdminDeletes == \E o \in Live : Outside /\ objects' = [objects EXCEPT ![o] = Absent] /\ UNCHANGED peer
AdminSets ==
  \E o \in Live : Outside /\ Class \notin InURL
                    /\ objects' = [objects EXCEPT ![o].val = 1 - @] /\ UNCHANGED peer
PeerChanges == (Uses("check") \/ shape.lookup # "none") /\ Outside /\ peer' = ~peer /\ UNCHANGED objects

-----------------------------------------------------------------------------
Terraform ==
  \/ Refresh \/ PlanCreate \/ PlanUpdate \/ PlanReplace \/ PlanDelete \/ PlanNothing
  \/ Check \/ Extra \/ Glance \/ Guard \/ Post \/ Enable \/ Find
  \/ PutWhole \/ Merge \/ Part \/ Add \/ Clear \/ Strip \/ Wipe \/ Once \/ Reset
  \/ Record \/ ReadBack \/ Delete \/ Again \/ Remove
  \/ Applied \/ Destroyed

Next == Terraform \/ Configure \/ Import \/ AdminDeletes \/ AdminSets \/ PeerChanges

Spec == Init /\ [][Next]_vars

\* Someone runs terraform apply again and again, and a started run goes on.
FairSpec == Spec /\ WF_vars(Terraform)
-----------------------------------------------------------------------------
\* Nothing is left of a program when the provider is idle, and only what is in the
\* state is tainted.
TypeOK ==
  /\ shape \in Shapes /\ unique \in BOOLEAN /\ peer \in BOOLEAN
  /\ objects \in [Ids -> [alive : BOOLEAN, mine : BOOLEAN, val : {0, 1}]]
  /\ conf \in [want : BOOLEAN, val : {0, 1}]
  /\ state \in [id : Ids \cup {0}, val : {0, 1}, tainted : BOOLEAN]
  /\ op \in {"idle", "plan", "create", "update", "replace", "delete"}
  /\ todo \in Seq(Instructions)
  /\ handle \in Ids \cup {0}
  /\ (op \in {"idle", "plan"} => todo = <<>> /\ handle = 0) /\ (state.tainted => state.id # 0)
  /\ outcome \in {"none", "calm", "imported", "applied", "nothing"} /\ lost \in BOOLEAN
  /\ events \in 0 .. MaxEvents
-----------------------------------------------------------------------------
Ours == {i \in Live : objects[i].mine}
Tracked == IF state.id = 0 THEN {} ELSE Found
Handled == IF op = "create" THEN Current ELSE {}
Deletes == Has(DeleteProgram, "delete") \/ Has(DeleteProgram, "remove")

Agrees(classes) ==
  IF conf.want
    THEN /\ state.id # 0 /\ ~state.tainted /\ Tracked # {}
         /\ Class \in classes => objects[The(Tracked)].val = conf.val /\ state.val = conf.val
    ELSE state.id = 0

\* When a run has ended without an error, and nobody else has touched the object
\* since it began, a configured resource is in the state, untainted, and its object
\* is in Keycloak with the value configured: whatever calls the type splits its
\* writes into, and wherever its attributes are sent.  (Taking over an existing
\* object writes only what is configured, and needs a second run.)
AppliedAgrees == outcome = "applied" /\ ~Has(shape.create, "merge") => Agrees(Written(conf.val))

\* When a run has ended with nothing to do, a configured resource is in the state,
\* untainted, and its object is in Keycloak, with the configured value of every
\* attribute Read compares (unless it is left to Keycloak); after failures and
\* changes by administrators too.  A Read that overlooks absence would break it.
EmptyPlanTruthful == outcome = "nothing" => Agrees(IF Told THEN Compared ELSE {})

\* An object the provider created is in the state, or being created, or else: the
\* answer to the call that created it was lost, a call failed that the type makes
\* between it and SetId, an update moved the URL away from it, Read took something
\* else for its absence, or the type does not delete.  No failure of any other call
\* leaves it behind.
Mistaken == shape.lookup = "forgets" \/ shape.failure = "forgets"
OrphansExplained ==
  Class # "movable" /\ ~Mistaken /\ Deletes /\ shape.adopting = <<>> /\ ~lost
    => Ours \subseteq Tracked \cup Handled

\* Never a second object of ours under one name, whatever answers are lost and
\* however often Create is tried again, if Keycloak refuses it or Create looks
\* for one first.
NoSecondCopy ==
  unique \/ Has(shape.create, "guard") => \A v \in {0, 1} : Cardinality(Ours \cap Homonyms(v)) <= 1

\* Terraform stops knowing an object only when the object is gone (or the type
\* leaves it in place); the exceptions are the two of OrphansExplained.
Stays(i) == objects'[i].alive
NeverForgetsExisting ==
  [][state.id # 0 /\ state'.id = 0 /\ Deletes /\ Class # "movable" /\ ~Mistaken
       => \A i \in Tracked : ~Stays(i)]_vars

\* An import whose configuration says what is true of the object is not followed
\* by a plan that replaces it.
ImportKeeps == [][outcome = "imported" => op' # "replace"]_vars

\* Runs repeated after the last failure and the last change by someone else bring
\* Keycloak to the configuration and keep it there, unless something else is in
\* the way: the object referred to is gone, the name is taken, there is nothing to
\* write to, the value to take back is not sent when empty, or Read fails.
Blocked ==
  \/ ~peer
  \/ conf.want /\ (unique \/ Uses("guard")) /\ Homonyms(conf.val) \ Tracked # {}
  \/ conf.want /\ ~Has(CreateProgram, "post") /\ ~Has(CreateProgram, "enable") /\ Homonyms(conf.val) = {}
  \/ conf.want /\ Class = "omitted" /\ conf.val = 0 /\ \E i \in Tracked : objects[i].val = 1
  \/ shape.gone = "fails" /\ state.id # 0 /\ Found = {}

Converges == <>[](Blocked \/ Agrees(IF Told THEN Compared ELSE {}))
=============================================================================

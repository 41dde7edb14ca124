------------------------ MODULE ResourceLifecycle_proofs ------------------------
(***************************************************************************)
(* Proofs about ResourceLifecycle, for every set of resource types whose   *)
(* programs are as ResourceKind says, and any number of objects, failures, *)
(* edits and changes by others.                                            *)
(*                                                                         *)
(* The inductive invariant says of a run what its program has still ahead, *)
(* and from that what it has done: an id is known once SetId is behind, an *)
(* object of ours is in the state or about to be recorded, an object to be *)
(* deleted is gone once no DELETE is ahead.                                *)
(***************************************************************************)
EXTENDS ResourceLifecycle, SequenceTheorems, FiniteSetTheorems, TLAPS

\* A program being run is one from some point on; what is still ahead in it tells what
\* has been done.
CreateProgress ==
  op = "create" =>
    /\ ~HasOne(todo, Removing)
    /\ HasOne(todo, Creating) => state.id = 0 /\ handle = 0
    /\ state.id = 0 /\ todo # <<>> => Has(todo, "record")
    /\ shape.named \/ handle # 0 \/ HasOne(todo, Creating)
    /\ state.id # 0 /\ todo # <<>> => state.val = conf.val /\ (shape.named \/ state.id = handle)

UpdateProgress ==
  op = "update" =>
    /\ ~HasOne(todo, Removing \cup {"post", "find"})
    /\ Has(todo, "enable") => shape.named
    /\ state.id # 0 \/ todo = <<>>

DeleteProgress ==
  op \in {"delete", "replace"} =>
    ~HasOne(todo, Creating \cup {"record", "read", "glance"}) /\ state.id # 0

Progress == IsProgram(todo) /\ CreateProgress /\ UpdateProgress /\ DeleteProgress

\* A plan with nothing to do follows a Read that found the object.
PlanInv ==
  /\ outcome = "nothing" => op = "idle" /\ Agrees(IF Told THEN Compared ELSE {})
  /\ outcome = "applied" => op = "idle"
  /\ op = "plan" /\ outcome # "none" /\ state.id # 0 /\ ~state.tainted =>
       Found # {} /\ (Class \in Compared => objects[The(Found)].val = state.val)

\* One object has the name, and none when the POST is due.
Single == \A v \in {0, 1} : \A i, j \in Homonyms(v) : i = j
SingleInv ==
  unique \/ Has(shape.create, "guard") =>
    /\ Single
    /\ op = "create" /\ ~unique /\ Has(todo, "post") => Has(todo, "guard") \/ Homonyms(Planned) = {}

\* The object of an import is what the configuration says, and found.
ImportInv ==
  outcome = "imported" =>
    /\ op \in {"idle", "plan"}
    /\ state.id # 0 =>
         /\ Found # {} /\ ~state.tainted
         /\ Class \in Replacing => conf.val = state.val
         /\ Class = "fixed" => \A i \in Found : objects[i].val = conf.val

\* What was created is what the state knows, or what Create has in hand; some types are
\* then about to record it.
AtHand == handle # 0 /\ Ours \subseteq Current
Known ==
  /\ op # "create" \/ state.id # 0 => Ours \subseteq Tracked
  /\ op = "create" /\ state.id = 0 =>
       Ours = {} \/ (AtHand /\ todo # <<>> /\ (CreatedThenRecorded => Head(todo) = "record"))
Recorded ==
  op = "create" /\ CreatedThenRecorded =>
    \A n \in DOMAIN todo : todo[n] \in Creating => n < Len(todo) /\ todo[n + 1] = "record"

Owned == Class # "movable" /\ ~Mistaken /\ Deletes /\ shape.adopting = <<>> /\ ~lost
OrphanInv == Owned => Known /\ Recorded

\* An object to be deleted is gone once no DELETE is ahead.
DeletedInv == op \in {"delete", "replace"} /\ Deletes => HasOne(todo, Removing) \/ Tracked = {}

NamedIsUnique == shape.named => unique

IInv == TypeOK /\ NamedIsUnique /\ Progress /\ PlanInv /\ SingleInv /\ ImportInv /\ OrphanInv /\ DeletedInv
-----------------------------------------------------------------------------
(* Programs                                                                *)

LEMMA EmptyProgram == IsProgram(<<>>) /\ \A i : ~Has(<<>>, i)
BY DEF IsProgram, Has, Precedes

LEMMA SkipProgram ==
  LET skip == <<"record", "read">> IN
  IsProgram(skip) /\ skip # <<>> /\ \A i : Has(skip, i) <=> i \in {"record", "read"}
<1> DEFINE skip == <<"record", "read">>
<1>1. skip \in Seq(Instructions) /\ DOMAIN skip = 1 .. 2 /\ skip[1] = "record" /\ skip[2] = "read" /\ Len(skip) = 2
  BY DEF Instructions
<1> HIDE DEF skip
<1>2. \A i : Has(skip, i) <=> i \in {"record", "read"}
  BY <1>1 DEF Has
<1>3. IsProgram(skip)
  BY <1>1 DEF IsProgram, Precedes, Creating
<1>4. skip # <<>>
  BY <1>1
<1> QED BY <1>2, <1>3, <1>4 DEF skip

\* What is ahead after a step was ahead before it.
LEMMA HasTail ==
  ASSUME NEW p \in Seq(Instructions), p # <<>>
  PROVE  /\ Tail(p) \in Seq(Instructions) /\ Head(p) \in Instructions
         /\ Has(p, Head(p))
         /\ \A i : Has(Tail(p), i) => Has(p, i)
         /\ \A i : Has(p, i) => i = Head(p) \/ Has(Tail(p), i)
<1>1. /\ Tail(p) \in Seq(Instructions) /\ Head(p) = p[1] /\ Len(p) \in Nat \ {0} /\ DOMAIN p = 1 .. Len(p)
      /\ DOMAIN Tail(p) = 1 .. Len(p) - 1 /\ \A n \in 1 .. Len(p) - 1 : Tail(p)[n] = p[n + 1]
      /\ \A n \in 1 .. Len(p) : p[n] \in Instructions
  BY HeadTailProperties
<1>2. 1 \in DOMAIN p
  BY <1>1
<1>3. ASSUME NEW i, Has(p, i), i # Head(p) PROVE Has(Tail(p), i)
  <2>1. PICK n \in 1 .. Len(p) : p[n] = i
    BY <1>1, <1>3 DEF Has
  <2>2. n - 1 \in DOMAIN Tail(p) /\ (n - 1) + 1 = n
    BY <1>1, <1>3, <2>1
  <2>3. Tail(p)[n - 1] = i
    BY <1>1, <2>1, <2>2
  <2> QED BY <2>2, <2>3 DEF Has
<1>4. ASSUME NEW i, Has(Tail(p), i) PROVE Has(p, i)
  <2>1. PICK n \in 1 .. Len(p) - 1 : Tail(p)[n] = i
    BY <1>1, <1>4 DEF Has
  <2>2. n + 1 \in DOMAIN p /\ p[n + 1] = i
    BY <1>1, <2>1
  <2> QED BY <2>2 DEF Has
<1> QED BY <1>1, <1>2, <1>3, <1>4 DEF Has

\* The rest of a program is one; what has to come first is not ahead later.
LEMMA ProgramTail ==
  ASSUME NEW p, IsProgram(p), p # <<>>
  PROVE  /\ IsProgram(Tail(p))
         /\ Head(p) \in Creating => ~HasOne(Tail(p), Creating)
         /\ Head(p) \in {"record", "glance"} => ~HasOne(p, Creating)
         /\ Head(p) = "post" => ~Has(p, "guard")
         /\ Head(p) = "read" => Tail(p) = <<>>
<1>1. p \in Seq(Instructions)
  BY DEF IsProgram
<1>2. /\ Tail(p) \in Seq(Instructions) /\ Head(p) = p[1] /\ Len(p) \in Nat \ {0} /\ DOMAIN p = 1 .. Len(p)
      /\ DOMAIN Tail(p) = 1 .. Len(p) - 1 /\ \A n \in 1 .. Len(p) - 1 : Tail(p)[n] = p[n + 1]
      /\ Len(Tail(p)) = Len(p) - 1
  BY <1>1, HeadTailProperties
<1>3. 1 \in DOMAIN p /\ \A n \in DOMAIN Tail(p) : n + 1 \in DOMAIN p /\ p[n + 1] = Tail(p)[n]
  BY <1>2
<1>4. \A n \in DOMAIN Tail(p) : Tail(p)[n] = "read" => n = Len(Tail(p))
  BY <1>2, <1>3 DEF IsProgram
<1>5. \A m, n \in DOMAIN Tail(p) : Tail(p)[m] \in Creating /\ Tail(p)[n] \in Creating => m = n
  <2> SUFFICES ASSUME NEW m \in DOMAIN Tail(p), NEW n \in DOMAIN Tail(p), Tail(p)[m] \in Creating, Tail(p)[n] \in Creating
               PROVE  m = n
    OBVIOUS
  <2>1. m + 1 = n + 1
    BY <1>3 DEF IsProgram
  <2> QED BY <1>2, <2>1
<1>6. ASSUME NEW i, NEW j, Precedes(p, i, j) PROVE Precedes(Tail(p), i, j)
  <2> SUFFICES ASSUME NEW m \in DOMAIN Tail(p), NEW n \in DOMAIN Tail(p), Tail(p)[m] = i, Tail(p)[n] = j
               PROVE  m < n
    BY DEF Precedes
  <2>1. m + 1 < n + 1
    BY <1>3, <1>6 DEF Precedes
  <2> QED BY <1>2, <2>1
<1>7. IsProgram(Tail(p))
  BY <1>2, <1>4, <1>5, <1>6 DEF IsProgram
<1>8. ASSUME Head(p) \in Creating PROVE ~HasOne(Tail(p), Creating)
  <2> SUFFICES ASSUME NEW n \in DOMAIN Tail(p), Tail(p)[n] \in Creating PROVE FALSE
    BY DEF HasOne, Has
  <2>1. n + 1 = 1
    BY <1>2, <1>3, <1>8 DEF IsProgram
  <2> QED BY <1>2, <2>1
<1>9. \A i, j : Precedes(p, i, j) /\ Head(p) = j => ~Has(p, i)
  BY <1>2, <1>3 DEF Has, Precedes
<1>10. Head(p) = "read" => Tail(p) = <<>>
  <2> SUFFICES ASSUME Head(p) = "read" PROVE Tail(p) = <<>>
    OBVIOUS
  <2>1. Len(p) = 1
    BY <1>2, <1>3 DEF IsProgram
  <2> QED BY <1>2, <2>1, EmptySeq
<1> QED BY <1>7, <1>8, <1>9, <1>10 DEF IsProgram, HasOne
-----------------------------------------------------------------------------
(* Shapes                                                                  *)

LEMMA ShapeFacts ==
  ASSUME shape \in Shapes
  PROVE  /\ IsCreate(shape, shape.create) /\ IsUpdate(shape, shape.update) /\ IsDelete(shape.delete)
         /\ shape.adopting # <<>> => IsCreate(shape, shape.adopting)
         /\ Has(shape.create, "guard") /\ Has(shape.adopting, "post") => Has(shape.adopting, "guard")
         /\ shape.gone \in {"forgets", "fails", "blanks"} /\ shape.lookup \in {"none", "forgets", "fails"}
         /\ shape.failure \in {"fails", "forgets"} /\ shape.named \in BOOLEAN /\ Class \in Classes
         /\ shape.adopting # <<>> => Class = "steering"
<1>1. PICK k \in Kinds, c \in Classes : \E a \in k[c] : shape = Shape(k, c, a)
  BY DEF Shapes
<1>2. IsResource(k)
  BY KindsAssumption
<1>3. /\ shape.create = k.create /\ shape.update = k.update /\ shape.delete = k.delete /\ shape.named = k.named
      /\ shape.adopting = IF c = "steering" THEN k.adopting ELSE <<>>
      /\ shape.gone = k.gone /\ shape.lookup = k.lookup /\ shape.failure = k.failure /\ Class = c
  BY <1>1 DEF Shape, Class
<1>4. \A p : IsCreate(k, p) <=> IsCreate(shape, p)
  BY <1>3 DEF IsCreate
<1>5. \A p : IsUpdate(k, p) <=> IsUpdate(shape, p)
  BY <1>3 DEF IsUpdate
<1>6. ~Has(<<>>, "post")
  BY EmptyProgram
<1> QED BY <1>2, <1>3, <1>4, <1>5, <1>6 DEF IsResource

\* What the four programs are, whatever the steering attribute chooses.
LEMMA ProgramFacts ==
  ASSUME shape \in Shapes
  PROVE  /\ IsCreate(shape, CreateProgram) /\ CreateProgram # <<>>
         /\ IsDelete(DeleteProgram)
         /\ Has(shape.create, "guard") /\ Has(CreateProgram, "post") => Has(CreateProgram, "guard")
<1>1. \A p : IsCreate(shape, p) => p # <<>>
  BY EmptyProgram DEF IsCreate
<1>2. IsDelete(<<>>)
  BY EmptyProgram DEF IsDelete, HasOne
<1> QED BY <1>1, <1>2, ShapeFacts DEF CreateProgram, DeleteProgram

-----------------------------------------------------------------------------
(* Objects                                                                 *)

Objects == [alive : BOOLEAN, mine : BOOLEAN, val : {0, 1}]

\* What a write does not change.
Alike ==
  /\ objects' \in [Ids -> Objects]
  /\ \A i \in Ids : /\ objects'[i].alive = objects[i].alive /\ objects'[i].mine = objects[i].mine
                    /\ Class \in InURL => objects'[i].val = objects[i].val

\* The parts of the state that the calls of an operation leave as they are.
Kept ==
  /\ Quiet /\ peer' \in BOOLEAN /\ outcome' \in {outcome, "none"} /\ events' \in 0 .. MaxEvents
  /\ lost' \in BOOLEAN /\ (lost => lost')

LEMMA AlikeObjects ==
  ASSUME Alike, Quiet
  PROVE  /\ Class' = Class /\ Live' = Live /\ Ours' = Ours
         /\ \A v \in {0, 1} : Homonyms(v)' = Homonyms(v)
         /\ \A id, v : Target(id, v)' = Target(id, v)
<1>1. Class' = Class /\ shape' = shape
  BY DEF Quiet, Class
<1>2. Live' = Live
  BY DEF Alike, Live
<1>3. Ours' = Ours
  BY <1>2 DEF Alike, Ours, Live
<1>4. ASSUME NEW v PROVE Homonyms(v)' = Homonyms(v)
  BY <1>1, <1>2 DEF Homonyms, Alike, Live
<1>5. ASSUME NEW id, NEW v PROVE Target(id, v)' = Target(id, v)
  BY <1>1, <1>4 DEF Target
<1> QED BY <1>1, <1>2, <1>3, <1>4, <1>5
-----------------------------------------------------------------------------
(* What the calls do                                                       *)

\* A call that neither gives Create its object nor removes one.
Plain ==
  /\ todo # <<>> /\ Head(todo) \notin Creating \cup Removing \cup {"record", "read", "glance"}
  /\ Alike /\ Kept
  /\ \/ /\ todo' = Tail(todo) /\ UNCHANGED <<op, state, handle>>
        /\ Head(todo) = "guard" => Homonyms(Planned) \subseteq {state.id}
     \/ Fail /\ (Slips => lost')

LEMMA FaultKept ==
  ASSUME TypeOK, NoFault \/ Fault
  PROVE  outcome' \in {outcome, "none"} /\ events' \in 0 .. MaxEvents
BY BoundsAssumption DEF NoFault, Fault, Event, TypeOK

LEMMA PlainCall ==
  ASSUME TypeOK, NEW i \in {"check", "extra", "guard"}, NEW ok \in BOOLEAN, Call(i, ok, objects, handle),
         i = "guard" /\ ok => Homonyms(Planned) \subseteq {state.id}
  PROVE  Plain
<1>1. todo # <<>> /\ Head(todo) = i
  BY DEF Call, At
<1>2. objects' = objects /\ Quiet /\ peer' = peer /\ (NoFault \/ Fault)
      /\ lost' \in {lost, lost \/ Slips, lost \/ handle # handle \/ Slips}
  BY DEF Call
<1>3. Alike
  BY <1>2 DEF Alike, TypeOK, Objects
<1>4. Kept
  BY <1>2, FaultKept DEF Kept, TypeOK
<1>5. \/ ok /\ todo' = Tail(todo) /\ UNCHANGED <<op, state, handle>>
      \/ Fail /\ (Slips => lost')
  BY DEF Call, Advance
<1> QED BY <1>1, <1>3, <1>4, <1>5 DEF Plain, Creating, Removing

LEMMA PlainWrite ==
  ASSUME TypeOK, NEW i \in {"put", "merge", "part", "add", "clear", "strip", "once", "reset"},
         NEW STATE written, written => Class \notin InURL, NEW STATE v, v \in {0, 1},
         Write(i, written, v)
  PROVE  Plain
<1> DEFINE after == [o \in Ids |-> IF o \in Current /\ written THEN [objects[o] EXCEPT !.val = v] ELSE objects[o]]
<1>1. todo # <<>> /\ Head(todo) = i
  BY DEF Write, Call, At
<1>2. objects' \in {objects, after} /\ Quiet /\ peer' = peer /\ (NoFault \/ Fault) /\ 
      /\ lost' \in {lost, lost \/ Slips, lost \/ handle # handle \/ Slips}
  BY DEF Write, Call
<1>3. Alike
  <2>1. objects \in [Ids -> Objects]
    BY DEF TypeOK, Objects
  <2>2. \A o \in Ids : [objects[o] EXCEPT !.val = v] \in Objects
    BY <2>1 DEF Objects
  <2>3. CASE objects' = objects
    BY <2>1, <2>3 DEF Alike
  <2>4. CASE objects' = after
    <3>1. after \in [Ids -> Objects]
      BY <2>1, <2>2
    <3>2. ASSUME NEW o \in Ids
          PROVE  /\ after[o].alive = objects[o].alive /\ after[o].mine = objects[o].mine
                 /\ Class \in InURL => after[o].val = objects[o].val
      BY <2>1 DEF Objects
    <3> QED BY <2>4, <3>1, <3>2 DEF Alike
  <2> QED BY <1>2, <2>3, <2>4
<1>4. Kept
  BY <1>2, FaultKept DEF Kept, TypeOK
<1>5. \/ todo' = Tail(todo) /\ UNCHANGED <<op, state, handle>>
      \/ Fail /\ (Slips => lost')
  BY DEF Write, Call, Advance
<1> QED BY <1>1, <1>3, <1>4, <1>5 DEF Plain, Creating, Removing

LEMMA PlainSteps ==
  ASSUME TypeOK,
         Check \/ Extra \/ Guard \/ PutWhole \/ Merge \/ Part \/ Add \/ Clear \/ Strip \/ Once \/ Reset \/ Wipe
  PROVE  Plain
<1>0. Planned \in {0, 1} /\ (Class \in Partly \/ Class \in Put \cup Partly => Class \notin InURL)
  BY DEF TypeOK, Planned, Partly, Put, InURL
<1>1. CASE Check
  BY <1>1, PlainCall DEF Check, TypeOK
<1>2. CASE Extra
  BY <1>2, PlainCall DEF Extra
<1>3. CASE Guard
  BY <1>3, PlainCall DEF Guard
<1>4. CASE PutWhole
  BY <1>0, <1>4, PlainWrite DEF PutWhole, Put, InURL
<1>5. CASE Merge
  BY <1>0, <1>5, PlainWrite DEF Merge, Put, InURL
<1>6. CASE Part
  <2>1. Write("part", Class \in Partly, Planned)
    BY <1>6 DEF Part
  <2> QED BY <1>0, <2>1, PlainWrite
<1>7. CASE Add
  BY <1>0, <1>7, PlainWrite DEF Add, Partly, InURL
<1>8. CASE Clear
  BY <1>0, <1>8, PlainWrite DEF Clear, Partly, InURL
<1>12. CASE Strip
  BY <1>0, <1>12, PlainWrite DEF Strip, Partly, InURL
<1>9. CASE Once
  BY <1>0, <1>9, PlainWrite DEF Once, InURL
<1>10. CASE Reset
  <2>1. Write("reset", Class \in Put \cup Partly, 0)
    BY <1>10 DEF Reset
  <2> QED BY <1>0, <2>1, PlainWrite
<1>11. CASE Wipe
  <2>1. objects' \in {objects, Wiped} /\ UNCHANGED <<peer, state, handle, lost, op>> /\ todo' = Tail(todo) /\ Quiet
        /\ (NoFault \/ Fault) /\ todo # <<>> /\ Head(todo) = "wipe"
    BY <1>11 DEF Wipe, At, Advance
  <2>2. objects \in [Ids -> Objects]
    BY DEF TypeOK, Objects
  <2>3. Alike
    <3>1. CASE objects' = objects
      BY <2>2, <3>1 DEF Alike
    <3>2. CASE objects' = Wiped /\ Class \in Partly
      <4>1. objects' = [o \in Ids |-> IF o \in Current THEN [objects[o] EXCEPT !.val = 0] ELSE objects[o]]
        BY <3>2 DEF Wiped
      <4>2. Class \notin InURL
        BY <3>2 DEF Partly, InURL
      <4> QED BY <2>2, <4>1, <4>2 DEF Alike, Objects
    <3> QED BY <2>1, <3>1, <3>2 DEF Wiped
  <2>4. Kept
    BY <2>1, FaultKept DEF Kept, TypeOK
  <2> QED BY <2>1, <2>3, <2>4 DEF Plain, Creating, Removing
<1> QED BY <1>1, <1>2, <1>3, <1>4, <1>5, <1>6, <1>7, <1>8, <1>9, <1>10, <1>11, <1>12

\* Object o is new or taken over; a new one has the name alone, unless a POST may
\* add a second.
Gained(o) ==
  /\ objects' \in [Ids -> Objects] /\ \A i \in Ids : i # o => objects'[i] = objects[i]
  /\ objects'[o].alive /\ objects'[o].mine /\ (Class \in InURL => objects'[o].val = Planned)
  /\ \/ objects[o].alive /\ objects'[o].val = objects[o].val
     \/ ~objects[o].alive /\ o # state.id /\ (Homonyms(Planned) = {} \/ (Head(todo) = "post" /\ ~unique))

\* A call that gives Create its object.
Obtains ==
  /\ todo # <<>> /\ Head(todo) \in Creating /\ Kept
  /\ \/ UNCHANGED objects /\ Fail
     \/ \E o \in Ids :
          /\ Gained(o)
          /\ \/ todo' = Tail(todo) /\ handle' = o /\ UNCHANGED <<op, state>>
             \/ Fail /\ (o # handle => lost')

LEMMA ObtainsCall ==
  ASSUME TypeOK, NEW i \in Creating, NEW STATE ok, NEW STATE after, NEW o \in Ids, Call(i, ok, after, o),
         ok /\ objects' = after => Gained(o)
  PROVE  Obtains
<1>1. todo # <<>> /\ Head(todo) \in Creating
  BY DEF Call, At
<1>2. Quiet /\ peer' = peer /\ (NoFault \/ Fault) /\ lost' \in {lost, lost \/ Slips, lost \/ o # handle \/ Slips}
  BY DEF Call
<1>3. Kept
  <2>1. {lost, lost \/ Slips, lost \/ o # handle \/ Slips} \subseteq BOOLEAN
    BY DEF TypeOK
  <2>2. lost' \in BOOLEAN /\ (lost => lost')
    BY <1>2, <2>1
  <2> QED BY <1>2, <2>2, FaultKept DEF Kept, TypeOK
<1>4. \/ UNCHANGED objects /\ Fail
      \/ Gained(o) /\ todo' = Tail(todo) /\ handle' = o /\ UNCHANGED <<op, state>>
      \/ Gained(o) /\ Fail /\ (o # handle => lost')
  BY DEF Call, Advance
<1> QED BY <1>1, <1>3, <1>4 DEF Obtains

LEMMA ObtainsNew ==
  ASSUME TypeOK, NEW i \in Creating, NEW STATE ok, NEW sent, InURL \subseteq sent, Create(i, ok, sent),
         ok => Homonyms(Planned) = {} \/ (Head(todo) = "post" /\ ~unique)
  PROVE  Obtains
<1>1. PICK o : o = Free
  OBVIOUS
<1>2. o \in Ids /\ ~objects[o].alive /\ o # state.id
  BY <1>1 DEF Create, Free, Unused
<1>3. Call(i, ok, [objects EXCEPT ![o] = New(sent)], o)
  BY <1>1 DEF Create
<1>4. ASSUME ok, objects' = [objects EXCEPT ![o] = New(sent)] PROVE Gained(o)
  <2>1. objects \in [Ids -> Objects] /\ Planned \in {0, 1}
    BY DEF TypeOK, Objects, Planned
  <2>2. /\ New(sent) \in Objects /\ New(sent).alive /\ New(sent).mine
        /\ Class \in InURL => New(sent).val = Planned
    BY <2>1 DEF New, Objects
  <2> QED BY <1>2, <1>4, <2>1, <2>2 DEF Gained
<1> QED BY <1>2, <1>3, <1>4, ObtainsCall

LEMMA ObtainsTaken ==
  ASSUME TypeOK, NEW i \in Creating, Take(i)
  PROVE  Obtains
<1>1. PICK o \in Homonyms(Planned) : Call(i, TRUE, [objects EXCEPT ![o].mine = TRUE], o)
  BY DEF Take
<1>2. o \in Ids /\ objects[o].alive /\ (Class \in InURL => objects[o].val = Planned)
  BY DEF Homonyms, Live
<1>3. ASSUME objects' = [objects EXCEPT ![o].mine = TRUE] PROVE Gained(o)
  <2>1. objects \in [Ids -> Objects]
    BY DEF TypeOK, Objects
  <2>2. objects' \in [Ids -> Objects] /\ objects'[o] = [objects[o] EXCEPT !.mine = TRUE]
        /\ \A j \in Ids : j # o => objects'[j] = objects[j]
    BY <1>2, <1>3, <2>1 DEF Objects
  <2> QED BY <1>2, <2>1, <2>2 DEF Gained, Objects
<1> QED BY <1>1, <1>2, <1>3, ObtainsCall

LEMMA ObtainSteps ==
  ASSUME TypeOK, Post \/ Enable \/ Find
  PROVE  Obtains
<1>1. CASE Post
  <2>1. Create("post", unique => Homonyms(Planned) = {}, Posted) /\ Head(todo) = "post"
    BY <1>1 DEF Post, Create, Call, At
  <2> QED BY <2>1, ObtainsNew DEF Creating, Posted
<1>2. CASE Enable
  <2>1. CASE Homonyms(Planned) = {}
    BY <1>2, <2>1, ObtainsNew DEF Enable, Creating
  <2>2. CASE Homonyms(Planned) # {}
    BY <1>2, <2>2, ObtainsTaken DEF Enable, Creating
  <2> QED BY <2>1, <2>2
<1>3. CASE Find
  <2>1. CASE Homonyms(Planned) = {}
    <3>1. Call("find", FALSE, objects, handle)
      BY <1>3, <2>1 DEF Find
    <3>2. Quiet /\ UNCHANGED <<peer, objects>> /\ (NoFault \/ Fault) /\ Fail /\ todo # <<>> /\ Head(todo) = "find"
          /\ lost' = (lost \/ Slips)
      BY <3>1 DEF Call, At
    <3>3. Kept
      BY <3>2, FaultKept DEF Kept, TypeOK
    <3> QED BY <3>2, <3>3 DEF Obtains, Creating
  <2>2. CASE Homonyms(Planned) # {}
    BY <1>3, <2>2, ObtainsTaken DEF Find, Creating
  <2> QED BY <2>1, <2>2
<1> QED BY <1>1, <1>2, <1>3

\* A call that removes the object.
Removes ==
  /\ todo # <<>> /\ Head(todo) \in Removing /\ Kept
  /\ objects' \in {objects, Removed}
  /\ \/ /\ objects' = Removed /\ UNCHANGED <<op, state, handle>>
        /\ todo' = Tail(todo) \/ (Tail(todo) # <<>> /\ todo' = Tail(Tail(todo)))
     \/ /\ Tail(todo) # <<>> /\ Head(Tail(todo)) = "again" /\ todo' = Tail(todo)
        /\ UNCHANGED <<op, state, handle>>
     \/ Fail

LEMMA RemoveSteps ==
  ASSUME TypeOK, Delete \/ Again \/ Remove
  PROVE  Removes
<1>1. CASE Delete
  <2>1. todo # <<>> /\ Head(todo) \in Removing /\ objects' \in {objects, Removed}
        /\ Quiet /\ UNCHANGED <<peer, lost>> /\ (NoFault \/ Fault)
    BY <1>1 DEF Delete, At, Removing
  <2>2. Kept
    BY <2>1, FaultKept DEF Kept, TypeOK
  <2>3. \/ objects' = Removed /\ UNCHANGED <<op, state, handle>>
           /\ (todo' = Tail(todo) \/ (Repeats /\ todo' = Tail(Tail(todo))))
        \/ Repeats /\ todo' = Tail(todo) /\ UNCHANGED <<op, state, handle>>
        \/ Fail
    BY <1>1 DEF Delete, Advance
  <2> QED BY <2>1, <2>2, <2>3 DEF Removes, Repeats
<1>2. CASE Again \/ Remove
  <2>1. todo # <<>> /\ Head(todo) \in Removing /\ objects' \in {objects, Removed}
        /\ Quiet /\ peer' = peer /\ (NoFault \/ Fault) /\ lost' \in {lost, lost \/ Slips, lost \/ handle # handle \/ Slips}
    BY <1>2 DEF Again, Remove, Call, At, Removing
  <2>2. Kept
    BY <2>1, FaultKept DEF Kept, TypeOK
  <2>3. \/ objects' = Removed /\ UNCHANGED <<op, state, handle>> /\ todo' = Tail(todo)
        \/ Fail
    BY <1>2 DEF Again, Remove, Call, Advance
  <2> QED BY <2>1, <2>2, <2>3 DEF Removes
<1> QED BY <1>1, <1>2

LEMMA RemovedObjects ==
  ASSUME TypeOK
  PROVE  /\ Removed \in [Ids -> Objects]
         /\ \A i \in Ids : Removed[i] = IF i \in Current THEN Absent ELSE objects[i]
BY DEF TypeOK, Removed, Objects, Absent

\* What Read makes of an object that is there, or not.
LEMMA ReadsState ==
  ASSUME TypeOK, Reads, state.id # 0
  PROVE  \/ state' = Nothing /\ (Found = {} \/ shape.lookup = "forgets")
         \/ Found = {} /\ state' = [state EXCEPT !.tainted = TRUE]
         \/ /\ Found # {} /\ state' = [state EXCEPT !.val = ReadValue(objects[The(Found)])]
            /\ ReadValue(objects[The(Found)]) \in {0, 1}
            /\ Class \in InURL => ReadValue(objects[The(Found)]) = state.val
<1>1. CASE Forgets
  BY <1>1 DEF Reads, Forgets
<1>2. CASE ~Forgets /\ Found = {}
  BY <1>2 DEF Reads
<1>3. CASE ~Forgets /\ Found # {}
  <2>1. The(Found) \in Found /\ Found \subseteq Ids
    BY <1>3 DEF The, Found, Target, Homonyms, Live
  <2>2. objects[The(Found)].val \in {0, 1} /\ state.val \in {0, 1}
    BY <2>1 DEF TypeOK
  <2>3. ReadValue(objects[The(Found)]) \in {0, 1}
    BY <2>2 DEF ReadValue
  <2>4. Class \in InURL => ReadValue(objects[The(Found)]) = state.val
    BY DEF ReadValue, InURL, Retained
  <2> QED BY <1>3, <2>3, <2>4 DEF Reads
<1> QED BY <1>1, <1>2, <1>3
-----------------------------------------------------------------------------
(* Types, and what is ahead in the program                                 *)

LEMMA HasOneTail ==
  ASSUME NEW p \in Seq(Instructions), p # <<>>, NEW S
  PROVE  /\ HasOne(Tail(p), S) => HasOne(p, S)
         /\ HasOne(p, S) => Head(p) \in S \/ HasOne(Tail(p), S)
BY HasTail DEF HasOne

LEMMA FailTyped ==
  ASSUME TypeOK, Progress, Fail, Kept, objects' \in [Ids -> Objects]
  PROVE  TypeOK' /\ Progress'
<1>1. op' = "idle" /\ todo' = <<>> /\ handle' = 0 /\ state' = IF op = "create" /\ state.id # 0 THEN [state EXCEPT !.tainted = TRUE] ELSE state
  BY DEF Fail
<1>2. IsProgram(<<>>) /\ <<>> \in Seq(Instructions)
  BY EmptyProgram
<1>3. TypeOK'
  <2>1. state' \in [id : Ids \cup {0}, val : {0, 1}, tainted : BOOLEAN] /\ (state'.tainted => state'.id # 0)
    BY <1>1 DEF TypeOK
  <2>2. outcome' \in {"none", "calm", "imported", "applied", "nothing"}
    BY DEF Kept, TypeOK
  <2> QED BY <1>1, <1>2, <2>1, <2>2 DEF TypeOK, Kept, Quiet, Objects
<1>4. Progress'
  BY <1>1, <1>2 DEF Progress, CreateProgress, UpdateProgress, DeleteProgress
<1> QED BY <1>3, <1>4

\* An operation is running while its program is not at its end.
LEMMA Running ==
  ASSUME TypeOK, Progress, todo # <<>>
  PROVE  /\ op \in {"create", "update", "delete", "replace"}
         /\ todo \in Seq(Instructions) /\ Tail(todo) \in Seq(Instructions)
         /\ IsProgram(Tail(todo)) /\ Has(todo, Head(todo))
BY ProgramTail, HasTail DEF TypeOK, Progress

LEMMA ForwardTyped ==
  ASSUME TypeOK, Progress, todo # <<>>, todo' = Tail(todo), UNCHANGED op, Kept, objects' \in [Ids -> Objects],
         state' \in [id : Ids \cup {0}, val : {0, 1}, tainted : BOOLEAN], state'.tainted => state'.id # 0,
         handle' \in Ids \cup {0}
  PROVE  TypeOK'
<1>1. outcome' \in {"none", "calm", "imported", "applied", "nothing"}
  BY DEF Kept, TypeOK
<1> QED BY <1>1, Running DEF TypeOK, Kept, Quiet, Objects

LEMMA StepTyped ==
  ASSUME TypeOK, Progress, todo # <<>>, todo' = Tail(todo), UNCHANGED <<op, state, handle>>, Kept,
         objects' \in [Ids -> Objects], Head(todo) \notin Creating \cup {"record", "read", "glance"}
  PROVE  TypeOK' /\ Progress'
<1>1. TypeOK'
  BY ForwardTyped DEF TypeOK
<1>2. CreateProgress'
  <2> SUFFICES ASSUME op = "create" PROVE CreateProgress'
    BY DEF CreateProgress
  <2>1. ~HasOne(Tail(todo), Removing) /\ (HasOne(Tail(todo), Creating) => HasOne(todo, Creating))
        /\ (HasOne(todo, Creating) => HasOne(Tail(todo), Creating))
        /\ (Has(todo, "record") => Has(Tail(todo), "record"))
    BY HasOneTail, HasTail, Running DEF Progress, CreateProgress
  <2> QED BY <2>1 DEF Progress, CreateProgress, Kept, Quiet
<1>3. UpdateProgress'
  <2>1. HasOne(Tail(todo), Removing \cup {"post", "find"}) => HasOne(todo, Removing \cup {"post", "find"})
    BY HasOneTail, Running
  <2>2. Has(Tail(todo), "enable") => Has(todo, "enable")
    BY HasTail, Running
  <2> QED BY <2>1, <2>2 DEF Progress, UpdateProgress, Kept, Quiet
<1>4. DeleteProgress'
  <2>1. HasOne(Tail(todo), Creating \cup {"record", "read", "glance"}) => HasOne(todo, Creating \cup {"record", "read", "glance"})
    BY HasOneTail, Running
  <2> QED BY <2>1 DEF Progress, DeleteProgress
<1> QED BY <1>1, <1>2, <1>3, <1>4, Running DEF Progress

LEMMA PlainTyped ==
  ASSUME TypeOK, Progress, Plain
  PROVE  TypeOK' /\ Progress'
BY StepTyped, FailTyped DEF Plain, Alike

LEMMA RemovesTyped ==
  ASSUME TypeOK, Progress, Removes
  PROVE  TypeOK' /\ Progress' /\ op \in {"delete", "replace"}
<1>1. objects' \in [Ids -> Objects]
  BY RemovedObjects DEF Removes, TypeOK, Objects
<1>2. HasOne(todo, Removing) /\ HasOne(todo, Removing \cup {"post", "find"})
  BY Running DEF Removes, HasOne
<1>3. op \in {"delete", "replace"}
  BY <1>2, Running DEF Removes, Progress, CreateProgress, UpdateProgress
<1>4. Head(todo) \notin Creating \cup {"record", "read", "glance"}
  BY DEF Removes, Creating, Removing
<1>5. CASE todo' = Tail(todo) /\ UNCHANGED <<op, state, handle>>
  BY <1>1, <1>3, <1>4, <1>5, StepTyped DEF Removes
<1>6. CASE Fail
  BY <1>1, <1>3, <1>6, FailTyped DEF Removes
<1>7. CASE Tail(todo) # <<>> /\ todo' = Tail(Tail(todo)) /\ UNCHANGED <<op, state, handle>>
  <2>1. IsProgram(todo') /\ todo' \in Seq(Instructions)
    BY <1>7, Running, ProgramTail DEF Removes, IsProgram
  <2>2. HasOne(todo', Creating \cup {"record", "read", "glance"}) => HasOne(todo, Creating \cup {"record", "read", "glance"})
    BY <1>7, HasOneTail, Running DEF Removes
  <2>3. Progress'
    BY <1>3, <1>7, <2>1, <2>2 DEF Progress, CreateProgress, UpdateProgress, DeleteProgress
  <2>4. outcome' \in {"none", "calm", "imported", "applied", "nothing"}
    BY DEF Removes, Kept, TypeOK
  <2>5. TypeOK'
    BY <1>1, <1>3, <1>7, <2>1, <2>4 DEF TypeOK, Removes, Kept, Quiet, Objects
  <2> QED BY <1>3, <2>3, <2>5
<1> QED BY <1>5, <1>6, <1>7 DEF Removes

LEMMA ObtainsTyped ==
  ASSUME TypeOK, Progress, Obtains
  PROVE  TypeOK' /\ Progress' /\ op \in {"create", "update"}
<1>1. objects' \in [Ids -> Objects]
  BY DEF Obtains, Gained, TypeOK, Objects
<1>2. op \in {"create", "update"} /\ HasOne(todo, Creating)
  BY Running DEF Obtains, Progress, DeleteProgress, HasOne
<1>3. CASE Fail
  BY <1>1, <1>2, <1>3, FailTyped DEF Obtains
<1>4. ASSUME NEW o \in Ids, todo' = Tail(todo), handle' = o, UNCHANGED <<op, state>> PROVE TypeOK' /\ Progress'
  <2>1. TypeOK'
    BY <1>1, <1>4, ForwardTyped DEF Obtains, TypeOK
  <2>2. ~HasOne(todo', Creating) /\ IsProgram(todo')
    BY <1>4, ProgramTail DEF Progress, Obtains
  <2>3. /\ HasOne(todo', Removing) => HasOne(todo, Removing)
        /\ HasOne(todo', Removing \cup {"post", "find"}) => HasOne(todo, Removing \cup {"post", "find"})
        /\ Has(todo', "enable") => Has(todo, "enable")
        /\ Has(todo, "record") => Has(todo', "record")
    BY <1>4, HasOneTail, HasTail, Running DEF Obtains, Creating
  <2>4. o # 0
    BY BoundsAssumption
  <2> QED BY <1>2, <1>4, <2>1, <2>2, <2>3, <2>4 DEF Progress, CreateProgress, UpdateProgress, DeleteProgress, Obtains, Kept, Quiet
<1> QED BY <1>2, <1>3, <1>4 DEF Obtains

LEMMA GlanceTyped ==
  ASSUME TypeOK, Progress, Glance
  PROVE  /\ TypeOK' /\ Progress' /\ Kept /\ UNCHANGED <<keycloak, op, state, handle>> /\ op \in {"create", "update"}
         /\ todo # <<>> /\ Head(todo) = "glance" /\ todo' \in {Tail(todo), <<"record", "read">>}
<1>1. /\ todo # <<>> /\ Head(todo) = "glance" /\ todo' \in {Tail(todo), <<"record", "read">>}
      /\ UNCHANGED <<keycloak, op, state, handle>> /\ lost' = lost /\ Quiet /\ (NoFault \/ Fault)
  BY DEF Glance, At, Advance
<1>2. Kept
  BY <1>1, FaultKept DEF Kept, TypeOK, keycloak
<1>3. op \in {"create", "update"}
  BY <1>1, Running DEF Progress, DeleteProgress, HasOne
<1>4. /\ ~HasOne(todo, Creating) /\ ~HasOne(Tail(todo), Creating)
      /\ HasOne(Tail(todo), Removing) => HasOne(todo, Removing)
      /\ HasOne(Tail(todo), Removing \cup {"post", "find"}) => HasOne(todo, Removing \cup {"post", "find"})
      /\ Has(Tail(todo), "enable") => Has(todo, "enable")
      /\ Has(todo, "record") => Has(Tail(todo), "record")
  BY <1>1, HasOneTail, HasTail, Running, ProgramTail DEF Progress
<1>5. /\ IsProgram(todo') /\ ~HasOne(todo', Creating)
      /\ HasOne(todo', Removing) => HasOne(todo, Removing)
      /\ HasOne(todo', Removing \cup {"post", "find"}) => HasOne(todo, Removing \cup {"post", "find"})
      /\ Has(todo', "enable") => Has(todo, "enable")
      /\ Has(todo, "record") => Has(todo', "record")
      /\ todo' \in Seq(Instructions)
  <2>1. CASE todo' = Tail(todo)
    BY <1>1, <1>4, <2>1, Running
  <2>2. CASE todo' = <<"record", "read">>
    <3>1. IsProgram(todo') /\ \A i : Has(todo', i) <=> i \in {"record", "read"}
      BY <2>2, SkipProgram
    <3> QED BY <3>1 DEF HasOne, Creating, Removing, IsProgram
  <2> QED BY <1>1, <2>1, <2>2
<1>6. Progress'
  BY <1>1, <1>3, <1>4, <1>5 DEF Progress, CreateProgress, UpdateProgress, DeleteProgress, Quiet
<1>7. TypeOK'
  <2>1. outcome' \in {"none", "calm", "imported", "applied", "nothing"}
    BY <1>2 DEF Kept, TypeOK
  <2> QED BY <1>1, <1>2, <1>3, <1>5, <2>1 DEF TypeOK, Kept, Quiet, keycloak
<1> QED BY <1>1, <1>2, <1>3, <1>6, <1>7

LEMMA RecordTyped ==
  ASSUME TypeOK, Progress, Record
  PROVE  /\ TypeOK' /\ Progress' /\ Kept /\ op \in {"create", "update"} /\ ~HasOne(todo, Creating)
         /\ UNCHANGED <<keycloak, lost, op, handle>> /\ todo # <<>> /\ Head(todo) = "record" /\ todo' = Tail(todo)
         /\ state' = [id |-> IF shape.named THEN 1 ELSE IF op = "create" THEN handle ELSE state.id,
                      val |-> Planned, tainted |-> FALSE]
         /\ state'.id # 0
<1>1. /\ todo # <<>> /\ Head(todo) = "record" /\ todo' = Tail(todo)
      /\ UNCHANGED <<keycloak, op, handle>> /\ lost' = lost /\ Quiet /\ NoFault
      /\ state' = [id |-> IF shape.named THEN 1 ELSE IF op = "create" THEN handle ELSE state.id,
                      val |-> Planned, tainted |-> FALSE]
  BY DEF Record, At, Advance
<1>2. Kept
  BY <1>1, FaultKept DEF Kept, TypeOK, keycloak
<1>3. op \in {"create", "update"}
  BY <1>1, Running DEF Progress, DeleteProgress, HasOne
<1>4. /\ ~HasOne(todo, Creating) /\ ~HasOne(Tail(todo), Creating)
      /\ HasOne(Tail(todo), Removing) => HasOne(todo, Removing)
      /\ HasOne(Tail(todo), Removing \cup {"post", "find"}) => HasOne(todo, Removing \cup {"post", "find"})
      /\ Has(Tail(todo), "enable") => Has(todo, "enable")
  BY <1>1, HasOneTail, HasTail, Running, ProgramTail DEF Progress
<1>5. state' \in [id : Ids \cup {0}, val : {0, 1}, tainted : BOOLEAN] /\ state'.tainted = FALSE
  <2>1. Planned \in {0, 1} /\ handle \in Ids \cup {0} /\ state.id \in Ids \cup {0}
    BY DEF TypeOK, Planned
  <2> QED BY <1>1, <2>1, BoundsAssumption
<1>6. TypeOK'
  <2>1. objects' \in [Ids -> Objects] /\ handle' \in Ids \cup {0}
    BY <1>1 DEF TypeOK, Objects, keycloak
  <2> QED BY <1>1, <1>2, <1>5, <2>1, ForwardTyped
<1>7. state'.id # 0
  <2>1. CASE shape.named
    BY <1>1, <2>1
  <2>2. CASE op = "update" /\ ~shape.named
    BY <1>1, <2>2 DEF Progress, UpdateProgress
  <2>3. CASE op = "create" /\ ~shape.named
    <3>1. state'.id = handle
      BY <1>1, <2>3
    <3>2. handle # 0
      BY <1>4, <2>3 DEF Progress, CreateProgress
    <3> QED BY <3>1, <3>2
  <2> QED BY <1>3, <2>1, <2>2, <2>3
<1>8. Progress'
  <2>1. shape' = shape /\ conf' = conf
    BY <1>1 DEF Quiet
  <2>2. CASE op = "create"
    <3>1. state'.val = conf.val /\ (shape.named \/ state'.id = handle)
      BY <1>1, <2>2 DEF Planned
    <3> QED BY <1>1, <1>4, <1>7, <2>1, <2>2, <3>1, Running DEF Progress, CreateProgress, UpdateProgress, DeleteProgress
  <2>3. CASE op = "update"
    BY <1>1, <1>4, <1>7, <2>1, <2>3, Running DEF Progress, CreateProgress, UpdateProgress, DeleteProgress
  <2> QED BY <1>3, <2>2, <2>3
<1> QED BY <1>1, <1>2, <1>3, <1>4, <1>6, <1>7, <1>8 DEF keycloak

\* Read at the end of an operation: it has an id by then, and nothing comes after it.
LEMMA ReadBackTyped ==
  ASSUME TypeOK, Progress, ReadBack
  PROVE  /\ TypeOK' /\ Progress' /\ Kept /\ UNCHANGED <<keycloak, lost>> /\ op \in {"create", "update"}
         /\ state.id # 0 /\ todo # <<>> /\ Head(todo) = "read"
         /\ \/ Fail
            \/ todo' = <<>> /\ UNCHANGED <<op, handle>> /\ (Reads \/ Misreads)
<1>1. /\ todo # <<>> /\ Head(todo) = "read" /\ UNCHANGED <<keycloak, lost>> /\ lost' = lost /\ Quiet /\ (NoFault \/ Fault)
      /\ Fail \/ (todo' = Tail(todo) /\ UNCHANGED <<op, handle>> /\ (Reads \/ Misreads))
  BY DEF ReadBack, At, Advance, Misreads
<1>2. Kept
  BY <1>1, FaultKept DEF Kept, TypeOK, keycloak
<1>3. op \in {"create", "update"} /\ Tail(todo) = <<>>
  BY <1>1, Running, ProgramTail DEF Progress, DeleteProgress, HasOne
<1>4. state.id # 0
  <2>1. ~Has(Tail(todo), "record")
    BY <1>3, EmptyProgram
  <2>2. ~Has(todo, "record")
    BY <1>1, <2>1, HasTail, Running
  <2> QED BY <1>1, <1>3, <2>2 DEF Progress, CreateProgress, UpdateProgress
<1>5. CASE Fail
  <2>1. objects' \in [Ids -> Objects]
    BY <1>1 DEF keycloak, TypeOK, Objects
  <2> QED BY <1>1, <1>2, <1>3, <1>4, <1>5, <2>1, FailTyped
<1>6. CASE todo' = Tail(todo) /\ UNCHANGED <<op, handle>> /\ (Reads \/ Misreads)
  <2>1. state' \in [id : Ids \cup {0}, val : {0, 1}, tainted : BOOLEAN] /\ (state'.tainted => state'.id # 0)
    <3>1. CASE Misreads
      BY <3>1 DEF Misreads, Nothing
    <3>2. CASE state' = Nothing
      BY <3>2 DEF Nothing
    <3>3. CASE Reads /\ state' # Nothing
      BY <1>4, <3>3, ReadsState DEF TypeOK
    <3> QED BY <1>6, <3>1, <3>2, <3>3
  <2>2. objects' \in [Ids -> Objects] /\ handle' \in Ids \cup {0}
    BY <1>1, <1>6 DEF keycloak, TypeOK, Objects
  <2>3. TypeOK'
    BY <1>1, <1>2, <1>6, <2>1, <2>2, ForwardTyped
  <2>4. todo' = <<>> /\ IsProgram(todo') /\ \A i : ~Has(todo', i)
    BY <1>3, <1>6, EmptyProgram
  <2>5. ~HasOne(todo, Creating)
    <3>1. ~HasOne(Tail(todo), Creating)
      BY <1>3, EmptyProgram DEF HasOne
    <3> QED BY <1>1, <3>1, HasOneTail, Running DEF Creating
  <2>6. Progress'
    BY <1>2, <1>3, <1>6, <2>4, <2>5 DEF Progress, CreateProgress, UpdateProgress, DeleteProgress, HasOne, Kept, Quiet
  <2> QED BY <1>1, <1>2, <1>3, <1>4, <1>6, <2>3, <2>6
<1> QED BY <1>1, <1>5, <1>6

\* The steps that leave the provider idle or planning.
LEMMA IdleProgress ==
  ASSUME op' \in {"idle", "plan"}, todo' = <<>>
  PROVE  Progress'
BY EmptyProgram DEF Progress, CreateProgress, UpdateProgress, DeleteProgress

LEMMA RefreshTyped ==
  ASSUME TypeOK, Refresh
  PROVE  TypeOK' /\ Progress'
<1>1. op = "idle" /\ op' \in {"idle", "plan"} /\ todo = <<>> /\ handle = 0 /\ UNCHANGED <<todo, handle, keycloak, lost>> /\ Quiet
  BY DEF Refresh, TypeOK
<1>2. outcome' \in {"none", "calm", "imported", "applied", "nothing"} /\ events' \in 0 .. MaxEvents
  BY BoundsAssumption DEF Refresh, TypeOK, Fault, Event, Misreads
<1>3. state' \in [id : Ids \cup {0}, val : {0, 1}, tainted : BOOLEAN] /\ (state'.tainted => state'.id # 0)
  <2>1. CASE state' = state
    BY <2>1 DEF TypeOK
  <2>2. CASE state' = Nothing
    BY <2>2 DEF Nothing
  <2>3. CASE state.id # 0 /\ Reads /\ state' # Nothing
    BY <2>3, ReadsState DEF TypeOK
  <2> QED BY <2>1, <2>2, <2>3 DEF Refresh, Misreads
<1>4. TypeOK'
  BY <1>1, <1>2, <1>3 DEF TypeOK, Quiet, keycloak
<1> QED BY <1>1, <1>4, IdleProgress

LEMMA PlanTyped ==
  ASSUME TypeOK, PlanCreate \/ PlanUpdate \/ PlanReplace \/ PlanDelete \/ PlanNothing
  PROVE  TypeOK' /\ Progress'
<1>1. /\ op = "plan" /\ todo = <<>> /\ handle' = 0 /\ UNCHANGED <<keycloak, lost, events>> /\ Quiet
      /\ outcome' \in {"none", "calm", "imported", "applied", "nothing"}
  BY DEF PlanCreate, PlanUpdate, PlanReplace, PlanDelete, PlanNothing, Begin, Starts, TypeOK
<1>2. ASSUME op' \in {"idle", "create", "update", "replace", "delete"}, todo' \in Seq(Instructions), op' = "idle" => todo' = <<>>,
             state' \in [id : Ids \cup {0}, val : {0, 1}, tainted : BOOLEAN], state'.tainted => state'.id # 0
      PROVE  TypeOK'
  BY <1>1, <1>2 DEF TypeOK, Quiet, keycloak
<1>3. shape' = shape /\ shape \in Shapes
  BY <1>1 DEF Quiet, TypeOK
<1>4. state \in [id : Ids \cup {0}, val : {0, 1}, tainted : BOOLEAN] /\ (state.tainted => state.id # 0)
  BY DEF TypeOK
<1>5. CASE PlanCreate
  <2>1. op' = "create" /\ todo' = CreateProgram /\ handle' = 0 /\ state' = state /\ state.id = 0
    BY <1>5 DEF PlanCreate, Begin
  <2>2. /\ IsProgram(todo') /\ ~HasOne(todo', Removing) /\ Has(todo', "record")
        /\ shape.named \/ HasOne(todo', Creating)
        /\ todo' \in Seq(Instructions)
    BY <1>3, <2>1, ProgramFacts DEF IsCreate, IsProgram
  <2>3. Progress'
    BY <1>3, <2>1, <2>2 DEF Progress, CreateProgress, UpdateProgress, DeleteProgress
  <2>4. TypeOK'
    BY <1>2, <1>4, <2>1, <2>2
  <2> QED BY <2>3, <2>4
<1>6. CASE PlanUpdate
  <2>1. op' = "update" /\ todo' = shape.update /\ state' = [state EXCEPT !.val = conf.val] /\ state.id # 0
    BY <1>6 DEF PlanUpdate, Begin
  <2>2. /\ IsProgram(todo') /\ ~HasOne(todo', Removing \cup {"post", "find"}) /\ (Has(todo', "enable") => shape.named)
        /\ todo' \in Seq(Instructions)
    BY <1>3, <2>1, ShapeFacts DEF IsUpdate, IsProgram
  <2>3. state' \in [id : Ids \cup {0}, val : {0, 1}, tainted : BOOLEAN] /\ state'.id # 0
    BY <2>1, <1>4 DEF TypeOK
  <2>4. Progress'
    BY <1>3, <2>1, <2>2, <2>3 DEF Progress, CreateProgress, UpdateProgress, DeleteProgress
  <2>5. TypeOK'
    BY <1>2, <2>1, <2>2, <2>3
  <2> QED BY <2>4, <2>5
<1>7. CASE PlanReplace \/ PlanDelete
  <2>1. op' \in {"replace", "delete"} /\ todo' = DeleteProgram /\ state' = state /\ state.id # 0
    BY <1>7 DEF PlanReplace, PlanDelete, Begin
  <2>2. /\ IsProgram(todo') /\ ~HasOne(todo', Creating \cup {"record", "read", "glance"})
        /\ todo' \in Seq(Instructions)
    BY <1>3, <2>1, ProgramFacts DEF IsDelete, IsProgram
  <2>3. Progress'
    BY <1>3, <2>1, <2>2 DEF Progress, CreateProgress, UpdateProgress, DeleteProgress
  <2>4. TypeOK'
    BY <1>2, <1>4, <2>1, <2>2
  <2> QED BY <2>3, <2>4
<1>8. CASE PlanNothing
  <2>1. op' = "idle" /\ todo' = <<>> /\ state' = state
    BY <1>8 DEF PlanNothing, Begin
  <2> QED BY <1>2, <1>4, <2>1, IdleProgress, EmptyProgram DEF IsProgram
<1> QED BY <1>5, <1>6, <1>7, <1>8

LEMMA AppliedTyped ==
  ASSUME TypeOK, Applied
  PROVE  TypeOK' /\ Progress'
<1>1. op' = "idle" /\ todo' = <<>> /\ handle' = 0 /\ state' \in {state, Nothing} /\ outcome' \in {"applied", "none"}
      /\ UNCHANGED <<keycloak, lost, events>> /\ Quiet
  BY DEF Applied, Ends
<1>2. state' \in [id : Ids \cup {0}, val : {0, 1}, tainted : BOOLEAN] /\ (state'.tainted => state'.id # 0)
  <2>1. CASE state' = state
    BY <2>1 DEF TypeOK
  <2>2. CASE state' = Nothing
    BY <2>2 DEF Nothing
  <2> QED BY <1>1, <2>1, <2>2
<1>3. TypeOK'
  BY <1>1, <1>2, EmptyProgram DEF TypeOK, Quiet, keycloak, IsProgram
<1> QED BY <1>1, <1>3, IdleProgress

LEMMA DestroyedTyped ==
  ASSUME TypeOK, Destroyed
  PROVE  TypeOK' /\ Progress'
<1>1. op' = "create" /\ todo' = CreateProgram /\ handle' = 0 /\ state' = Nothing /\ outcome' = outcome
      /\ UNCHANGED <<keycloak, lost, events>> /\ Quiet /\ shape' = shape /\ shape \in Shapes
  BY DEF Destroyed, Ends, Quiet, TypeOK
<1>2. /\ IsProgram(todo') /\ ~HasOne(todo', Removing) /\ Has(todo', "record")
      /\ shape.named \/ HasOne(todo', Creating)
      /\ todo' \in Seq(Instructions)
  BY <1>1, ProgramFacts DEF IsCreate, IsProgram
<1>3. state' \in [id : Ids \cup {0}, val : {0, 1}, tainted : BOOLEAN] /\ state'.id = 0 /\ ~state'.tainted
  BY <1>1 DEF Nothing
<1>4. Progress'
  BY <1>1, <1>2, <1>3 DEF Progress, CreateProgress, UpdateProgress, DeleteProgress
<1>5. TypeOK'
  BY <1>1, <1>2, <1>3 DEF TypeOK, Quiet, keycloak
<1> QED BY <1>4, <1>5

-----------------------------------------------------------------------------
(* Everyone else                                                           *)

\* What administrators do.
Disturbs ==
  /\ UNCHANGED <<shape, unique, conf, state, run, lost>> /\ outcome' = "none" /\ events' \in 0 .. MaxEvents
  /\ peer' \in BOOLEAN /\ objects' \in [Ids -> Objects]
  /\ \A i \in Ids : objects'[i].alive =>
       /\ objects[i].alive /\ objects'[i].mine = objects[i].mine
       /\ Class \in InURL => objects'[i].val = objects[i].val

LEMMA OutsideSteps ==
  ASSUME TypeOK, AdminDeletes \/ AdminSets \/ PeerChanges
  PROVE  Disturbs
<1>1. Outside /\ peer' \in BOOLEAN
  BY DEF AdminDeletes, AdminSets, PeerChanges, TypeOK
<1>2. objects \in [Ids -> Objects]
  BY DEF TypeOK, Objects
<1>3. events' \in 0 .. MaxEvents
  BY <1>1, BoundsAssumption DEF Outside, Event, TypeOK
<1>4. CASE AdminDeletes
  <2>1. PICK o \in Live : objects' = [objects EXCEPT ![o] = Absent]
    BY <1>4 DEF AdminDeletes
  <2>2. Absent \in Objects /\ ~Absent.alive
    BY DEF Absent, Objects
  <2>3. objects' \in [Ids -> Objects] /\ \A i \in Ids : objects'[i] = IF i = o THEN Absent ELSE objects[i]
    BY <1>2, <2>1, <2>2
  <2> QED BY <1>1, <1>3, <2>2, <2>3 DEF Disturbs, Outside
<1>5. CASE AdminSets
  <2>1. PICK o \in Live : Class \notin InURL /\ objects' = [objects EXCEPT ![o].val = 1 - @]
    BY <1>5 DEF AdminSets
  <2>2. o \in Ids
    BY DEF Live
  <2>3. [objects[o] EXCEPT !.val = 1 - @] \in Objects
    BY <1>2, <2>2 DEF Objects
  <2>4. objects' \in [Ids -> Objects]
        /\ \A i \in Ids : objects'[i] = IF i = o THEN [objects[o] EXCEPT !.val = 1 - @] ELSE objects[i]
    BY <1>2, <2>1, <2>2, <2>3
  <2>5. \A i \in Ids : objects'[i].alive = objects[i].alive /\ objects'[i].mine = objects[i].mine
    BY <1>2, <2>4 DEF Objects
  <2> QED BY <1>1, <1>3, <2>1, <2>4, <2>5 DEF Disturbs, Outside
<1>6. CASE PeerChanges
  BY <1>1, <1>2, <1>3, <1>6 DEF PeerChanges, Disturbs, Outside
<1> QED BY <1>4, <1>5, <1>6

LEMMA DisturbsTyped ==
  ASSUME TypeOK, Progress, Disturbs
  PROVE  TypeOK' /\ Progress'
<1>1. TypeOK'
  BY DEF TypeOK, Disturbs, run, Objects
<1>2. Progress'
  BY DEF Disturbs, run, Progress, CreateProgress, UpdateProgress, DeleteProgress
<1> QED BY <1>1, <1>2

LEMMA ConfigureTyped ==
  ASSUME TypeOK, Configure
  PROVE  TypeOK' /\ Progress'
<1>1. op = "idle" /\ UNCHANGED <<shape, unique, peer, run, lost, objects, state>> /\ outcome' = "none" /\ events' \in 0 .. MaxEvents
  BY BoundsAssumption DEF Configure, Author, Event, TypeOK
<1>2. conf' \in [want : BOOLEAN, val : {0, 1}]
  <2>1. conf \in [want : BOOLEAN, val : {0, 1}] /\ (~conf.want) \in BOOLEAN /\ 1 - conf.val \in {0, 1}
    BY DEF TypeOK
  <2>2. CASE conf' = [conf EXCEPT !.want = ~@]
    BY <2>1, <2>2
  <2>3. CASE conf' = [conf EXCEPT !.val = 1 - @]
    BY <2>1, <2>3
  <2> QED BY <2>2, <2>3 DEF Configure
<1>3. TypeOK'
  BY <1>1, <1>2 DEF TypeOK, run
<1>4. op' \in {"idle", "plan"} /\ todo' = <<>>
  BY <1>1 DEF TypeOK, run
<1> QED BY <1>3, <1>4, IdleProgress

\* The object that is imported, and what the state then says of it.
LEMMA ImportFacts ==
  ASSUME TypeOK, Import
  PROVE  /\ op = "idle" /\ state.id = 0 /\ UNCHANGED <<shape, unique, peer, run, lost, conf>> /\ events' \in 0 .. MaxEvents
         /\ \E o \in Homonyms(conf.val) :
              /\ objects' \in [Ids -> Objects] /\ o \in Ids /\ objects[o].alive
              /\ objects'[o].alive /\ objects'[o].mine /\ objects'[o].val = objects[o].val
              /\ \A j \in Ids : j # o => objects'[j] = objects[j]
              /\ state' = [id |-> IF shape.named THEN 1 ELSE o, val |-> Imports(o), tainted |-> FALSE]
              /\ Imports(o) \in {0, 1}
              /\ Class \in InURL => Imports(o) = objects[o].val /\ objects[o].val = conf.val
              /\ outcome' = IF Faithful(o) THEN "imported" ELSE "none"
<1>1. PICK o \in Homonyms(conf.val) :
        /\ objects' = [objects EXCEPT ![o].mine = TRUE]
        /\ state' = [id |-> IF shape.named THEN 1 ELSE o, val |-> Imports(o), tainted |-> FALSE]
        /\ outcome' = IF Faithful(o) THEN "imported" ELSE "none"
  BY DEF Import
<1>2. o \in Ids /\ objects[o].alive /\ (Class \in InURL => objects[o].val = conf.val)
  BY DEF Homonyms, Live
<1>3. objects \in [Ids -> Objects] /\ objects[o] \in Objects
  BY <1>2 DEF TypeOK, Objects
<1>4. [objects[o] EXCEPT !.mine = TRUE] \in Objects
  BY <1>3 DEF Objects
<1>5. objects' \in [Ids -> Objects] /\ objects'[o] = [objects[o] EXCEPT !.mine = TRUE]
      /\ \A j \in Ids : j # o => objects'[j] = objects[j]
  BY <1>1, <1>2, <1>3, <1>4
<1>6. objects'[o].alive /\ objects'[o].mine /\ objects'[o].val = objects[o].val
  BY <1>2, <1>3, <1>5 DEF Objects
<1>7. Imports(o) \in {0, 1} /\ (Class \in InURL => Imports(o) = objects[o].val)
  BY <1>3 DEF Imports, Objects
<1>8. op = "idle" /\ state.id = 0 /\ UNCHANGED <<shape, unique, peer, run, lost, conf>> /\ events' \in 0 .. MaxEvents
  BY BoundsAssumption DEF Import, Author, Event, TypeOK
<1> QED BY <1>1, <1>2, <1>5, <1>6, <1>7, <1>8

LEMMA ImportTyped ==
  ASSUME TypeOK, Import
  PROVE  TypeOK' /\ Progress'
<1>1. op = "idle" /\ UNCHANGED <<shape, unique, peer, run, lost, conf>> /\ events' \in 0 .. MaxEvents
      /\ objects' \in [Ids -> Objects] /\ outcome' \in {"imported", "none"}
  BY ImportFacts
<1>2. state' \in [id : Ids \cup {0}, val : {0, 1}, tainted : BOOLEAN] /\ ~state'.tainted
  <2>1. PICK o \in Ids : state' = [id |-> IF shape.named THEN 1 ELSE o, val |-> Imports(o), tainted |-> FALSE]
                       /\ Imports(o) \in {0, 1}
    BY ImportFacts
  <2> QED BY <2>1, BoundsAssumption
<1>3. TypeOK'
  BY <1>1, <1>2 DEF TypeOK, run, Objects
<1>4. op' \in {"idle", "plan"} /\ todo' = <<>>
  BY <1>1 DEF TypeOK, run
<1> QED BY <1>3, <1>4, IdleProgress

-----------------------------------------------------------------------------
(* One object of a name                                                    *)

\* No object comes to be, and none moves.
Fewer ==
  /\ UNCHANGED <<shape, unique>>
  /\ \A i \in Ids : objects'[i].alive => objects[i].alive /\ (Class \in InURL => objects'[i].val = objects[i].val)

LEMMA FewerHomonyms ==
  ASSUME Fewer, NEW v
  PROVE  Homonyms(v)' \subseteq Homonyms(v)
BY DEF Fewer, Homonyms, Live, Class

LEMMA AlikeFewer == Alike /\ Kept => Fewer
BY DEF Alike, Kept, Quiet, Fewer

\* Whoever comes to a POST has looked for a namesake, or is about to.
LEMMA FewerSingle ==
  ASSUME SingleInv, Fewer,
         (unique \/ Has(shape.create, "guard")) /\ op' = "create" /\ ~unique /\ Has(todo', "post")
           => Has(todo', "guard") \/ Homonyms(Planned)' = {}
  PROVE  SingleInv'
<1> SUFFICES ASSUME unique \/ Has(shape.create, "guard") PROVE Single'
  BY DEF SingleInv, Fewer
<1>1. Single
  BY DEF SingleInv
<1>2. \A v \in {0, 1} : \A i, j \in Homonyms(v)' : i = j
  BY <1>1, FewerHomonyms DEF Single
<1> QED BY <1>2 DEF Single

LEMMA NoPostAhead ==
  ASSUME NEW p, ~HasOne(p, Creating)
  PROVE  ~Has(p, "post")
BY DEF HasOne, Creating

LEMMA PlainSingle ==
  ASSUME TypeOK, Progress, SingleInv, Plain
  PROVE  SingleInv'
<1>1. Fewer
  BY AlikeFewer DEF Plain
<1>2. CASE Fail
  BY <1>1, <1>2, FewerSingle DEF Fail
<1>3. CASE todo' = Tail(todo) /\ UNCHANGED <<op, state, handle>> /\ (Head(todo) = "guard" => Homonyms(Planned) \subseteq {state.id})
  <2> SUFFICES ASSUME unique \/ Has(shape.create, "guard"), op = "create", ~unique, Has(todo', "post"), ~Has(todo', "guard")
               PROVE  Homonyms(Planned)' = {}
    BY <1>1, <1>3, FewerSingle
  <2>1. Has(todo, "post") /\ (Has(todo, "guard") => Head(todo) = "guard")
    BY <1>3, HasTail, Running DEF Plain
  <2>2. state.id = 0
    BY <2>1 DEF Progress, CreateProgress, HasOne, Creating
  <2>3. Homonyms(Planned) = {}
    <3>1. CASE Head(todo) = "guard"
      <4>1. Homonyms(Planned) \subseteq Ids /\ Homonyms(Planned) \subseteq {0} /\ 0 \notin Ids
        BY <1>3, <2>2, <3>1, BoundsAssumption DEF Homonyms, Live
      <4> QED BY <4>1
    <3>2. CASE Head(todo) # "guard"
      BY <2>1, <3>2 DEF SingleInv
    <3> QED BY <3>1, <3>2
  <2>4. PICK v : v = conf.val
    OBVIOUS
  <2>5. Planned = v /\ Planned' = v
    BY <1>3, <2>4 DEF Planned, Plain, Kept, Quiet
  <2>6. Homonyms(v)' \subseteq Homonyms(v)
    BY <1>1, FewerHomonyms
  <2>7. Homonyms(v) = {}
    BY <2>3, <2>5
  <2>8. Homonyms(v)' = {}
    BY <2>6, <2>7
  <2> QED BY <2>5, <2>8 DEF Homonyms
<1> QED BY <1>2, <1>3 DEF Plain

LEMMA RemovesSingle ==
  ASSUME TypeOK, Progress, SingleInv, Removes
  PROVE  SingleInv'
<1>1. op' # "create"
  BY RemovesTyped DEF Removes, Fail
<1>2. Fewer
  BY RemovedObjects DEF Fewer, Removes, Kept, Quiet, Absent
<1> QED BY <1>1, <1>2, FewerSingle

LEMMA ObtainsSingle ==
  ASSUME TypeOK, Progress, SingleInv, Obtains
  PROVE  SingleInv'
<1>1. op' = "create" => ~Has(todo', "post")
  <2>1. CASE Fail
    BY <2>1 DEF Fail
  <2>2. CASE todo' = Tail(todo)
    BY <2>2, ProgramTail, NoPostAhead DEF Obtains, Progress
  <2> QED BY <2>1, <2>2 DEF Obtains
<1>2. UNCHANGED <<shape, unique>>
  BY DEF Obtains, Kept, Quiet
<1>3. CASE UNCHANGED objects
  BY <1>1, <1>2, <1>3, FewerSingle DEF Fewer
<1>4. ASSUME NEW o \in Ids, Gained(o) PROVE SingleInv'
  <2>1. CASE objects[o].alive /\ objects'[o].val = objects[o].val
    BY <1>1, <1>2, <1>4, <2>1, FewerSingle DEF Fewer, Gained
  <2>2. CASE ~objects[o].alive
    <3> SUFFICES ASSUME unique \/ Has(shape.create, "guard") PROVE Single'
      BY <1>1, <1>2 DEF SingleInv
    <3>1. Single
      BY DEF SingleInv
    <3>2. Homonyms(Planned) = {}
      <4> SUFFICES ASSUME Head(todo) = "post", ~unique PROVE Homonyms(Planned) = {}
        BY <1>4, <2>2 DEF Gained
      <4>1. Has(todo, "post") /\ ~Has(todo, "guard")
        BY Running, ProgramTail DEF Progress, Obtains
      <4>2. op = "create"
        BY <4>1, ObtainsTyped DEF Progress, UpdateProgress, HasOne
      <4> QED BY <4>1, <4>2 DEF SingleInv
    <3>3. PICK p : p = Planned
      OBVIOUS
    <3>4. ASSUME NEW v \in {0, 1}, NEW i, i \in Homonyms(v)' PROVE i = o \/ (i \in Homonyms(v) /\ ~(Class \notin InURL \/ v = p))
      BY <1>2, <1>4, <3>2, <3>3, <3>4 DEF Homonyms, Live, Class, Gained
    <3>5. \A v \in {0, 1} : o \in Homonyms(v)' => Class \notin InURL \/ v = p
      BY <1>2, <1>4, <3>3 DEF Homonyms, Live, Class, Gained
    <3>6. \A v \in {0, 1} : \A i, j \in Homonyms(v)' : i = j
      BY <3>1, <3>4, <3>5 DEF Single
    <3> QED BY <3>6 DEF Single
  <2> QED BY <1>4, <2>1, <2>2 DEF Gained
<1> QED BY <1>3, <1>4 DEF Obtains

LEMMA SameObjectsFewer ==
  ASSUME UNCHANGED <<objects, shape, unique>>
  PROVE  Fewer
BY DEF Fewer

LEMMA GlanceSingle ==
  ASSUME TypeOK, Progress, SingleInv, Glance
  PROVE  SingleInv'
<1>1. Fewer
  BY GlanceTyped DEF Fewer, keycloak, Kept, Quiet
<1>2. ~Has(todo', "post")
  <2>1. CASE todo' = Tail(todo)
    <3>1. ~HasOne(todo, Creating) /\ (Has(todo', "post") => Has(todo, "post"))
      BY <2>1, GlanceTyped, ProgramTail, HasTail, Running DEF Progress
    <3> QED BY <3>1, NoPostAhead
  <2>2. CASE todo' = <<"record", "read">>
    BY <2>2, SkipProgram
  <2> QED BY <2>1, <2>2, GlanceTyped
<1> QED BY <1>1, <1>2, FewerSingle

LEMMA RecordSingle ==
  ASSUME TypeOK, Progress, SingleInv, Record
  PROVE  SingleInv'
<1>1. Fewer
  BY RecordTyped DEF Fewer, keycloak, Kept, Quiet
<1>2. ~Has(todo', "post")
  BY RecordTyped, HasTail, Running, NoPostAhead
<1> QED BY <1>1, <1>2, FewerSingle

LEMMA ReadBackSingle ==
  ASSUME TypeOK, Progress, SingleInv, ReadBack
  PROVE  SingleInv'
<1>1. Fewer
  BY ReadBackTyped DEF Fewer, keycloak, Kept, Quiet
<1>2. op' = "idle" \/ todo' = <<>>
  BY ReadBackTyped DEF Fail
<1> QED BY <1>1, <1>2, FewerSingle, EmptyProgram

LEMMA CreateProgramSingle ==
  ASSUME TypeOK, SingleInv, UNCHANGED <<objects, shape, unique>>, op' = "create", todo' = CreateProgram
  PROVE  SingleInv'
BY SameObjectsFewer, FewerSingle, ProgramFacts, ShapeFacts DEF TypeOK, CreateProgram

LEMMA IdleSingle ==
  ASSUME SingleInv, Fewer, op' # "create"
  PROVE  SingleInv'
BY FewerSingle

LEMMA PlanSingle ==
  ASSUME TypeOK, SingleInv, PlanCreate \/ PlanUpdate \/ PlanReplace \/ PlanDelete \/ PlanNothing
  PROVE  SingleInv'
<1>1. UNCHANGED <<objects, shape, unique>>
  BY DEF PlanCreate, PlanUpdate, PlanReplace, PlanDelete, PlanNothing, Begin, Quiet, keycloak
<1>2. CASE PlanCreate
  <2>1. op' = "create" /\ todo' = CreateProgram
    BY <1>2 DEF PlanCreate, Begin
  <2> QED BY <1>1, <2>1, CreateProgramSingle
<1>3. CASE PlanUpdate \/ PlanReplace \/ PlanDelete \/ PlanNothing
  <2>1. op' # "create"
    BY <1>3 DEF PlanUpdate, PlanReplace, PlanDelete, PlanNothing, Begin
  <2> QED BY <1>1, <2>1, SameObjectsFewer, IdleSingle
<1> QED BY <1>2, <1>3

LEMMA DestroyedSingle ==
  ASSUME TypeOK, SingleInv, Destroyed
  PROVE  SingleInv'
<1>1. UNCHANGED <<objects, shape, unique>> /\ op' = "create" /\ todo' = CreateProgram
  BY DEF Destroyed, Ends, Quiet, keycloak
<1> QED BY <1>1, CreateProgramSingle

LEMMA AppliedSingle ==
  ASSUME SingleInv, Applied
  PROVE  SingleInv'
<1>1. UNCHANGED <<objects, shape, unique>> /\ op' # "create"
  BY DEF Applied, Ends, Quiet, keycloak
<1> QED BY <1>1, SameObjectsFewer, IdleSingle

LEMMA RefreshSingle ==
  ASSUME SingleInv, Refresh
  PROVE  SingleInv'
<1>1. UNCHANGED <<objects, shape, unique>> /\ op' # "create"
  BY DEF Refresh, Quiet, keycloak
<1> QED BY <1>1, SameObjectsFewer, IdleSingle

LEMMA ConfigureSingle ==
  ASSUME SingleInv, Configure
  PROVE  SingleInv'
<1>1. UNCHANGED <<objects, shape, unique>> /\ op' # "create"
  BY DEF Configure, Author, run
<1> QED BY <1>1, SameObjectsFewer, IdleSingle

LEMMA ImportSingle ==
  ASSUME TypeOK, SingleInv, Import
  PROVE  SingleInv'
<1>1. op = "idle" /\ op' = op /\ UNCHANGED <<shape, unique>>
  BY ImportFacts DEF run
<1>2. \A i \in Ids : objects'[i].alive => objects[i].alive /\ (Class \in InURL => objects'[i].val = objects[i].val)
  BY ImportFacts
<1> QED BY <1>1, <1>2, IdleSingle DEF Fewer

LEMMA DisturbsSingle ==
  ASSUME SingleInv, Disturbs
  PROVE  SingleInv'
<1>1. Fewer
  BY DEF Disturbs, Fewer
<1>2. todo' = todo /\ op' = op /\ conf' = conf /\ UNCHANGED <<shape, unique>>
  BY DEF Disturbs, run
<1> SUFFICES ASSUME unique \/ Has(shape.create, "guard"), op = "create", ~unique, Has(todo, "post"), Homonyms(Planned) = {}
             PROVE  Homonyms(Planned)' = {}
  BY <1>1, <1>2, FewerSingle DEF SingleInv
<1>3. PICK v : v = conf.val
  OBVIOUS
<1>4. Planned = v /\ Planned' = v
  BY <1>2, <1>3 DEF Planned
<1>5. Homonyms(v)' \subseteq Homonyms(v)
  BY <1>1, FewerHomonyms
<1>6. Homonyms(v) = {}
  BY <1>4
<1>7. Homonyms(v)' = {}
  BY <1>5, <1>6
<1> QED BY <1>4, <1>7 DEF Homonyms

-----------------------------------------------------------------------------
(* Plans with nothing to do, and imports                                   *)

\* While an operation runs its outcome is open.
LEMMA RunningOutcome ==
  ASSUME TypeOK, PlanInv, ImportInv, op \in {"create", "update", "delete", "replace"},
         outcome' \in {outcome, "none"}, op' # "plan"
  PROVE  PlanInv' /\ ImportInv'
<1>1. outcome' \notin {"nothing", "applied", "imported"}
  BY DEF PlanInv, ImportInv
<1> QED BY <1>1 DEF PlanInv, ImportInv

\* A step after which nobody knows how the run went.
LEMMA OpenOutcome ==
  ASSUME outcome' = "none"
  PROVE  PlanInv' /\ ImportInv'
BY DEF PlanInv, ImportInv

LEMMA SameFound ==
  ASSUME UNCHANGED <<objects, shape>>, state'.id = state.id, Class \in InURL => state'.val = state.val
  PROVE  Found' = Found
<1>1. Class' = Class /\ Live' = Live
  BY DEF Class, Live
<1>2. Homonyms(state.val)' = Homonyms(state.val)
  BY <1>1 DEF Homonyms
<1> QED BY <1>2 DEF Found, Target

LEMMA RefreshPlan ==
  ASSUME TypeOK, PlanInv, ImportInv, Refresh
  PROVE  PlanInv' /\ ImportInv'
<1>1. UNCHANGED <<objects, shape, conf>> /\ op = "idle"
  BY DEF Refresh, keycloak, Quiet
<1>2. CASE outcome' = "none"
  BY <1>2, OpenOutcome
<1>3. CASE op' = "plan" /\ outcome' = (IF outcome = "imported" THEN outcome ELSE "calm")
             /\ IF state.id = 0 THEN UNCHANGED state ELSE Reads
  <2>1. CASE state'.id = 0
    BY <1>3, <2>1 DEF PlanInv, ImportInv
  <2>2. CASE state'.id # 0
    <3>1. state.id # 0 /\ Reads
      BY <1>3, <2>2
    <3>2. CASE Found = {} /\ state' = [state EXCEPT !.tainted = TRUE]
      <4>1. state'.tainted /\ outcome # "imported"
        BY <3>1, <3>2 DEF TypeOK, ImportInv
      <4> QED BY <1>3, <4>1 DEF PlanInv, ImportInv
    <3>3. CASE /\ Found # {} /\ state' = [state EXCEPT !.val = ReadValue(objects[The(Found)])]
               /\ ReadValue(objects[The(Found)]) \in {0, 1}
               /\ Class \in InURL => ReadValue(objects[The(Found)]) = state.val
      <4>1. state'.id = state.id /\ state'.val = ReadValue(objects[The(Found)]) /\ state'.tainted = state.tainted
        BY <3>3 DEF TypeOK
      <4>2. Found' = Found /\ Class' = Class
        BY <1>1, <3>3, <4>1, SameFound DEF Class
      <4>3. The(Found) \in Found /\ The(Found)' = The(Found)
        BY <3>3, <4>2 DEF The
      <4>4. Class \in InURL => objects[The(Found)].val = state.val
        BY <4>3 DEF Found, Target, Homonyms
      <4>5. Class \in Compared => ReadValue(objects[The(Found)]) = objects[The(Found)].val
        BY <3>3, <4>4 DEF ReadValue, Compared, InURL, Retained
      <4>6. PlanInv'
        BY <1>1, <1>3, <3>3, <4>1, <4>2, <4>3, <4>5 DEF PlanInv
      <4>7. ImportInv'
        <5> SUFFICES ASSUME outcome = "imported" PROVE ImportInv'
          BY <1>3 DEF ImportInv
        <5>1. /\ ~state.tainted /\ (Class \in Replacing => conf.val = state.val)
              /\ Class = "fixed" => \A i \in Found : objects[i].val = conf.val
          BY <3>1 DEF ImportInv
        <5>2. Class = "fixed" => ReadValue(objects[The(Found)]) = conf.val
          BY <4>3, <5>1 DEF ReadValue, Retained
        <5>3. Class \in {"address", "steering"} => ReadValue(objects[The(Found)]) = state.val
          BY DEF ReadValue, Retained
        <5>4. Class \in Replacing => conf.val = state'.val
          BY <4>1, <5>1, <5>2, <5>3 DEF Replacing
        <5>5. Found' # {} /\ ~state'.tainted /\ (Class = "fixed" => \A i \in Found' : objects'[i].val = conf.val)
          BY <1>1, <3>3, <4>1, <4>2, <5>1
        <5> QED BY <1>1, <1>3, <4>2, <5>4, <5>5 DEF ImportInv
      <4> QED BY <4>6, <4>7
    <3> QED BY <2>2, <3>1, <3>2, <3>3, ReadsState DEF Nothing
  <2> QED BY <2>1, <2>2
<1> QED BY <1>2, <1>3 DEF Refresh, Fault, Misreads

LEMMA PlanPlan ==
  ASSUME TypeOK, PlanInv, ImportInv, PlanCreate \/ PlanUpdate \/ PlanReplace \/ PlanDelete \/ PlanNothing
  PROVE  PlanInv' /\ ImportInv'
<1>1. op = "plan" /\ outcome \in {"none", "calm", "imported"}
  BY DEF PlanCreate, PlanUpdate, PlanReplace, PlanDelete, PlanNothing, Begin, PlanInv, TypeOK
<1>2. CASE PlanCreate \/ PlanUpdate \/ PlanReplace \/ PlanDelete
  <2>1. op' \in {"create", "update", "replace", "delete"} /\ outcome' \in {"none", "calm"}
    BY <1>1, <1>2 DEF PlanCreate, PlanUpdate, PlanReplace, PlanDelete, Begin, Starts
  <2> QED BY <2>1 DEF PlanInv, ImportInv
<1>3. CASE PlanNothing
  <2>1. op' = "idle" /\ outcome' = IF outcome = "none" THEN "none" ELSE "nothing"
    BY <1>3 DEF PlanNothing, Begin
  <2>2. ImportInv'
    BY <2>1 DEF ImportInv
  <2>3. ASSUME outcome # "none" PROVE Agrees(IF Told THEN Compared ELSE {})'
    <3>1. UNCHANGED <<objects, shape, conf, state>>
      BY <1>3 DEF PlanNothing, Begin, keycloak, Quiet
    <3>2. Found' = Found /\ Class' = Class
      BY <3>1, SameFound DEF Class
    <3>3. Agrees(IF Told THEN Compared ELSE {})
      <4>1. IF conf.want THEN state.id # 0 /\ ~Differs /\ ~state.tainted ELSE state.id = 0
        BY <1>3 DEF PlanNothing
      <4>2. CASE conf.want
        <5>1. Found # {} /\ (Class \in Compared => objects[The(Found)].val = state.val)
          BY <1>1, <2>3, <4>1, <4>2 DEF PlanInv
        <5>2. Told /\ Class \in Compared => conf.val = state.val
          BY <4>1, <4>2 DEF Differs, Compared
        <5> QED BY <4>1, <4>2, <5>1, <5>2 DEF Agrees, Tracked
      <4> QED BY <4>1, <4>2 DEF Agrees
    <3>4. Tracked' = Tracked /\ The(Tracked)' = The(Tracked)
      BY <3>1, <3>2 DEF Tracked, The
    <3>5. Told' <=> Told
      BY <3>1 DEF Told
    <3> QED BY <3>1, <3>2, <3>3, <3>4, <3>5 DEF Agrees
  <2> QED BY <2>1, <2>2, <2>3 DEF PlanInv
<1> QED BY <1>2, <1>3

LEMMA ImportPlan ==
  ASSUME TypeOK, NamedIsUnique, SingleInv, Import
  PROVE  PlanInv' /\ ImportInv'
<1>1. PICK o \in Homonyms(conf.val) :
        /\ objects' \in [Ids -> Objects] /\ o \in Ids /\ objects[o].alive
        /\ objects'[o].alive /\ objects'[o].mine /\ objects'[o].val = objects[o].val
        /\ \A j \in Ids : j # o => objects'[j] = objects[j]
        /\ state' = [id |-> IF shape.named THEN 1 ELSE o, val |-> Imports(o), tainted |-> FALSE]
        /\ Imports(o) \in {0, 1}
        /\ Class \in InURL => Imports(o) = objects[o].val /\ objects[o].val = conf.val
        /\ outcome' = IF Faithful(o) THEN "imported" ELSE "none"
  BY ImportFacts
<1>2. op' = "idle" /\ UNCHANGED <<shape, unique, conf>> /\ Class' = Class
  BY ImportFacts DEF run, Class
<1>3. PlanInv'
  BY <1>1, <1>2 DEF PlanInv
<1>4. ASSUME Faithful(o) PROVE ImportInv'
  <2>1. state'.val = Imports(o) /\ ~state'.tainted
    BY <1>1
  <2>2. Class \in Replacing => conf.val = state'.val
    <3>1. CASE Class = "address"
      BY <1>1, <2>1, <3>1 DEF InURL
    <3>2. CASE Class = "fixed"
      BY <1>4, <2>1, <3>2 DEF Faithful, Imports
    <3>3. CASE Class = "steering"
      BY <1>4, <2>1, <3>3 DEF Faithful, Imports, InURL, Retained
    <3> QED BY <3>1, <3>2, <3>3 DEF Replacing
  <2>3. o \in Found'
    BY <1>1, <1>2, <2>1 DEF Found, Target, Homonyms, Live
  <2>4. ASSUME Class = "fixed", NEW i, i \in Found' PROVE objects'[i].val = conf.val
    <3>1. i \in Ids /\ objects'[i].alive
      BY <2>4 DEF Found, Target, Homonyms, Live
    <3>2. i = o
      <4>1. CASE shape.named
        <5>1. i \in Homonyms(0) /\ o \in Homonyms(0)
          BY <1>1, <2>4, <3>1 DEF Homonyms, Live, InURL
        <5> QED BY <4>1, <5>1 DEF NamedIsUnique, SingleInv, Single
      <4>2. CASE ~shape.named
        BY <1>1, <1>2, <2>4, <4>2 DEF Found, Target
      <4> QED BY <4>1, <4>2
    <3> QED BY <1>1, <1>4, <2>4, <3>2 DEF Faithful
  <2> QED BY <1>2, <2>1, <2>2, <2>3, <2>4 DEF ImportInv
<1>5. CASE ~Faithful(o)
  <2>1. outcome' = "none"
    BY <1>1, <1>5
  <2> QED BY <2>1, OpenOutcome
<1> QED BY <1>3, <1>4, <1>5

LEMMA AppliedPlan ==
  ASSUME Applied
  PROVE  PlanInv' /\ ImportInv'
<1>1. op' = "idle" /\ outcome' \in {"applied", "none"}
  BY DEF Applied
<1> QED BY <1>1 DEF PlanInv, ImportInv

-----------------------------------------------------------------------------
(* What was created is known                                               *)

\* Whether the type is one whose objects cannot be lost does not change.
LEMMA OwnedBack ==
  ASSUME UNCHANGED shape, lost => lost', Owned'
  PROVE  Owned
<1>2. Class' = Class /\ (Mistaken' <=> Mistaken)
  BY DEF Class, Mistaken
<1>3. shape.adopting = <<>> => (Deletes' <=> Deletes)
  BY DEF Deletes, DeleteProgram
<1> QED BY <1>2, <1>3 DEF Owned

LEMMA RecordedTail ==
  ASSUME Progress, Recorded, todo # <<>>, todo' = Tail(todo), op' = op, shape' = shape
  PROVE  /\ Recorded' /\ (CreatedThenRecorded' <=> CreatedThenRecorded)
         /\ op = "create" /\ CreatedThenRecorded /\ Head(todo) \in Creating => todo' # <<>> /\ Head(todo') = "record"
<1>0. CreatedThenRecorded' <=> CreatedThenRecorded
  BY DEF CreatedThenRecorded
<1>1. todo \in Seq(Instructions)
  BY DEF Progress, IsProgram
<1>2. /\ Head(todo) = todo[1] /\ Len(todo) \in Nat \ {0} /\ DOMAIN todo = 1 .. Len(todo) /\ todo' \in Seq(Instructions)
      /\ DOMAIN todo' = 1 .. Len(todo) - 1 /\ Len(todo') = Len(todo) - 1 /\ \A n \in 1 .. Len(todo) - 1 : todo'[n] = todo[n + 1]
  BY <1>1, HeadTailProperties
<1>3. ASSUME op = "create", CreatedThenRecorded, NEW n \in DOMAIN todo', todo'[n] \in Creating PROVE n < Len(todo') /\ todo'[n + 1] = "record"
  <2>1. n + 1 \in DOMAIN todo /\ todo[n + 1] \in Creating
    BY <1>2, <1>3
  <2>2. n + 1 < Len(todo) /\ todo[n + 1 + 1] = "record"
    BY <1>3, <2>1 DEF Recorded
  <2> QED BY <1>2, <1>3, <2>2
<1>4. ASSUME op = "create", CreatedThenRecorded, Head(todo) \in Creating PROVE todo' # <<>> /\ Head(todo') = "record"
  <2>1. 1 < Len(todo) /\ todo[1 + 1] = "record"
    BY <1>2, <1>4 DEF Recorded
  <2>2. Len(todo') > 0 /\ todo'[1] = "record"
    BY <1>2, <2>1
  <2>3. todo' # <<>>
    BY <1>2, <2>2, EmptySeq
  <2> QED BY <1>2, <2>2, <2>3
<1> QED BY <1>0, <1>3, <1>4 DEF Recorded

LEMMA InTracked ==
  ASSUME NEW i
  PROVE  i \in Tracked <=> /\ state.id # 0 /\ i \in Ids /\ objects[i].alive /\ (Class \in InURL => objects[i].val = state.val)
                           /\ shape.named \/ i = state.id
BY DEF Tracked, Found, Target, Homonyms, Live

LEMMA InTrackedNext ==
  ASSUME NEW i
  PROVE  i \in Tracked' <=> /\ state'.id # 0 /\ i \in Ids /\ objects'[i].alive /\ (Class' \in InURL => objects'[i].val = state'.val)
                            /\ shape'.named \/ i = state'.id
BY DEF Tracked, Found, Target, Homonyms, Live

LEMMA InOurs ==
  ASSUME NEW i
  PROVE  /\ i \in Ours <=> i \in Ids /\ objects[i].alive /\ objects[i].mine
         /\ i \in Ours' <=> i \in Ids /\ objects'[i].alive /\ objects'[i].mine
BY DEF Ours, Live

LEMMA InCurrent ==
  ASSUME NEW i
  PROVE  i \in Current <=>
           /\ i \in Ids /\ objects[i].alive /\ (Class \in InURL => objects[i].val = Planned)
           /\ shape.named \/ i = IF op = "create" THEN handle ELSE state.id
BY DEF Current, Target, Homonyms, Live

LEMMA InCurrentNext ==
  ASSUME NEW i
  PROVE  i \in Current' <=>
           /\ i \in Ids /\ objects'[i].alive /\ (Class' \in InURL => objects'[i].val = Planned')
           /\ shape'.named \/ i = IF op' = "create" THEN handle' ELSE state'.id
BY DEF Current, Target, Homonyms, Live

\* A step that leaves objects of ours where they are, in Keycloak and in the state.
Steady ==
  /\ UNCHANGED shape
  /\ \A i \in Ids : objects'[i].alive /\ objects'[i].mine =>
       /\ objects[i].alive /\ objects[i].mine
       /\ Class \in InURL => objects'[i].val = objects[i].val
  /\ state'.id = state.id /\ (Class \in InURL => state'.val = state.val)

LEMMA SteadyKnown ==
  ASSUME Steady
  PROVE  Ours' \subseteq Ours /\ (Ours \subseteq Tracked => Ours' \subseteq Tracked')
<1>1. Class' = Class
  BY DEF Steady, Class
<1>2. ASSUME NEW i \in Ours' PROVE i \in Ours /\ (i \in Tracked => i \in Tracked')
  <2>1. i \in Ids /\ objects'[i].alive /\ objects'[i].mine
    BY InOurs
  <2>2. objects[i].alive /\ objects[i].mine /\ (Class \in InURL => objects'[i].val = objects[i].val)
    BY <2>1 DEF Steady
  <2>3. i \in Ours
    BY <2>1, <2>2, InOurs
  <2>4. ASSUME i \in Tracked PROVE i \in Tracked'
    BY <1>1, <2>1, <2>2, <2>4, InTracked, InTrackedNext DEF Steady
  <2> QED BY <2>3, <2>4
<1> QED BY <1>2

\* An object in hand stays there.
LEMMA SteadyCurrent ==
  ASSUME Steady, UNCHANGED <<op, handle, conf, state>>, Ours \subseteq Current
  PROVE  Ours' \subseteq Current'
<1>1. Class' = Class /\ Planned' = Planned
  BY DEF Steady, Class, Planned
<1>2. ASSUME NEW i \in Ours' PROVE i \in Current'
  <2>1. i \in Ids /\ objects'[i].alive /\ objects'[i].mine /\ i \in Current
    BY <1>2, SteadyKnown, InOurs
  <2>2. Class \in InURL => objects'[i].val = objects[i].val
    BY <2>1 DEF Steady
  <2> QED BY <1>1, <2>1, <2>2, InCurrent, InCurrentNext DEF Steady
<1> QED BY <1>2

\* The provider stops; no object comes to be, and none is left in hand.
LEMMA SteadyOrphans ==
  ASSUME OrphanInv, Steady, lost => lost', op' # "create",
         Owned /\ Known /\ op = "create" /\ state.id = 0 => Ours = {} \/ lost'
  PROVE  OrphanInv'
<1> SUFFICES ASSUME Owned' PROVE Known' /\ Recorded'
  BY DEF OrphanInv
<1>1. Owned
  BY OwnedBack DEF Steady
<1>2. Known
  BY <1>1 DEF OrphanInv
<1>3. Ours \subseteq Tracked
  BY <1>1, <1>2 DEF Known, Owned
<1>4. Ours' \subseteq Tracked'
  BY <1>3, SteadyKnown
<1> QED BY <1>4 DEF Known, Recorded

LEMMA StepOrphans ==
  ASSUME Progress, OrphanInv, Steady, lost => lost', todo # <<>>, todo' = Tail(todo), UNCHANGED <<op, state, handle, conf>>,
         Head(todo) \notin Creating \cup {"record"}
  PROVE  OrphanInv'
<1> SUFFICES ASSUME Owned' PROVE Known' /\ Recorded'
  BY DEF OrphanInv
<1>1. Owned
  BY OwnedBack DEF Steady
<1>2. Known /\ Recorded
  BY <1>1 DEF OrphanInv
<1>3. Ours' \subseteq Ours /\ (Ours \subseteq Tracked => Ours' \subseteq Tracked')
  BY SteadyKnown
<1>4. Recorded' /\ (CreatedThenRecorded' <=> CreatedThenRecorded)
  BY <1>2, RecordedTail DEF Steady
<1>5. Ours \subseteq Current => Ours' \subseteq Current'
  BY SteadyCurrent
<1>6. op = "create" /\ state.id = 0 => todo' # <<>>
  BY HasTail, EmptyProgram DEF Progress, IsProgram, CreateProgress
<1> QED BY <1>2, <1>3, <1>4, <1>5, <1>6 DEF Known, AtHand

LEMMA FailState ==
  ASSUME TypeOK, Fail
  PROVE  state'.id = state.id /\ state'.val = state.val /\ op' = "idle"
BY DEF Fail, TypeOK

LEMMA PlainOrphans ==
  ASSUME TypeOK, Progress, OrphanInv, Plain
  PROVE  OrphanInv'
<1>1. UNCHANGED <<shape, conf>> /\ (lost => lost') /\ todo # <<>> /\ Head(todo) \notin Creating \cup {"record"}
  BY DEF Plain, Kept, Quiet
<1>2. \A i \in Ids : objects'[i].alive = objects[i].alive /\ objects'[i].mine = objects[i].mine
                       /\ (Class \in InURL => objects'[i].val = objects[i].val)
  BY DEF Plain, Alike
<1>3. CASE Fail /\ (Slips => lost')
  <2>1. Owned /\ Known /\ op = "create" /\ state.id = 0 => Ours = {} \/ lost'
    BY <1>1, <1>3 DEF Known, AtHand, Slips
  <2>2. Steady /\ op' # "create"
    BY <1>1, <1>2, <1>3, FailState DEF Steady
  <2> QED BY <1>1, <2>1, <2>2, SteadyOrphans
<1>4. CASE todo' = Tail(todo) /\ UNCHANGED <<op, state, handle>>
  BY <1>1, <1>2, <1>4, StepOrphans DEF Steady
<1> QED BY <1>3, <1>4 DEF Plain

LEMMA GlanceOrphans ==
  ASSUME TypeOK, Progress, OrphanInv, Glance
  PROVE  OrphanInv'
<1>1. UNCHANGED <<shape, objects, state, op, handle, conf>> /\ (lost => lost') /\ todo # <<>> /\ Head(todo) = "glance"
      /\ todo' \in {Tail(todo), <<"record", "read">>}
  BY GlanceTyped DEF Kept, Quiet, keycloak
<1>2. Steady
  BY <1>1 DEF Steady
<1>3. CASE todo' = Tail(todo)
  BY <1>1, <1>2, <1>3, StepOrphans DEF Creating
<1>4. CASE todo' = <<"record", "read">>
  <2> SUFFICES ASSUME Owned' PROVE Known' /\ Recorded'
    BY DEF OrphanInv
  <2>1. Known
    BY <1>1, OwnedBack DEF OrphanInv
  <2>2. Recorded'
    <3>1. DOMAIN todo' = 1 .. 2 /\ todo'[1] = "record" /\ todo'[2] = "read"
      BY <1>4
    <3> QED BY <3>1 DEF Recorded, Creating
  <2>3. Ours' \subseteq Ours /\ (Ours \subseteq Tracked => Ours' \subseteq Tracked')
    BY <1>2, SteadyKnown
  <2>4. (Ours \subseteq Current => Ours' \subseteq Current') /\ (CreatedThenRecorded' <=> CreatedThenRecorded)
    BY <1>1, <1>2, SteadyCurrent DEF CreatedThenRecorded
  <2> QED BY <1>1, <1>4, <2>1, <2>2, <2>3, <2>4, SkipProgram DEF Known, AtHand
<1> QED BY <1>1, <1>3, <1>4

LEMMA RecordOrphans ==
  ASSUME TypeOK, Progress, OrphanInv, Record
  PROVE  OrphanInv'
<1> SUFFICES ASSUME Owned' PROVE Known' /\ Recorded'
  BY DEF OrphanInv
<1>1. /\ UNCHANGED <<shape, objects, op, conf>> /\ (lost => lost') /\ todo # <<>> /\ Head(todo) = "record" /\ todo' = Tail(todo)
      /\ op \in {"create", "update"} /\ state'.id # 0
      /\ state'.id = (IF shape.named THEN 1 ELSE IF op = "create" THEN handle ELSE state.id) /\ state'.val = Planned
  BY RecordTyped DEF Kept, Quiet, keycloak
<1>2. Known /\ Recorded
  BY <1>1, OwnedBack DEF OrphanInv
<1>3. Recorded'
  BY <1>1, <1>2, RecordedTail
<1>4. Class' = Class
  BY <1>1 DEF Class
<1>5. ASSUME NEW i \in Ours' PROVE i \in Tracked'
  <2>1. i \in Ours /\ i \in Ids /\ objects[i].alive
    BY <1>1, InOurs
  <2>2. CASE op = "create" /\ state.id = 0
    <3>1. i \in Current
      BY <1>2, <2>1, <2>2 DEF Known, AtHand
    <3> QED BY <1>1, <1>4, <2>1, <2>2, <3>1, InCurrent, InTrackedNext
  <2>3. CASE op = "create" /\ state.id # 0
    <3>1. i \in Tracked
      BY <1>2, <2>1, <2>3 DEF Known
    <3>2. state.val = Planned /\ (shape.named \/ state.id = handle)
      BY <1>1, <2>3 DEF Progress, CreateProgress, Planned
    <3> QED BY <1>1, <1>4, <2>1, <2>3, <3>1, <3>2, InTracked, InTrackedNext
  <2>4. CASE op = "update"
    <3>1. i \in Tracked
      BY <1>2, <2>1, <2>4 DEF Known
    <3>2. state.val = Planned
      BY <2>4 DEF Planned
    <3> QED BY <1>1, <1>4, <2>1, <2>4, <3>1, <3>2, InTracked, InTrackedNext
  <2> QED BY <1>1, <2>2, <2>3, <2>4
<1> QED BY <1>1, <1>3, <1>5 DEF Known

\* Read forgets what is not there, and nothing else.
LEMMA ReadsKnown ==
  ASSUME TypeOK, state.id # 0, Reads, UNCHANGED <<objects, shape>>, ~Mistaken, Ours \subseteq Tracked
  PROVE  Ours' \subseteq Tracked'
<1>1. CASE state' = Nothing /\ (Found = {} \/ shape.lookup = "forgets")
  <2>1. Tracked = {}
    BY <1>1 DEF Tracked, Mistaken
  <2> QED BY <2>1, InOurs
<1>2. CASE state'.id = state.id /\ (Class \in InURL => state'.val = state.val)
  BY <1>2, SteadyKnown DEF Steady
<1> QED BY <1>1, <1>2, ReadsState DEF TypeOK

LEMMA ReadBackOrphans ==
  ASSUME TypeOK, Progress, OrphanInv, ReadBack
  PROVE  OrphanInv'
<1> SUFFICES ASSUME Owned' PROVE Known' /\ Recorded'
  BY DEF OrphanInv
<1>1. UNCHANGED <<objects, shape>> /\ (lost => lost') /\ state.id # 0 /\ todo # <<>> /\ Head(todo) = "read"
      /\ (Fail \/ (todo' = <<>> /\ (Reads \/ Misreads)))
  BY ReadBackTyped DEF keycloak, Kept, Quiet
<1>2. Owned /\ Known
  BY <1>1, OwnedBack DEF OrphanInv
<1>3. Ours \subseteq Tracked /\ ~Mistaken
  BY <1>1, <1>2 DEF Known, Owned
<1>4. CASE Fail
  <2>1. Steady /\ op' # "create"
    BY <1>1, <1>4, FailState DEF Steady
  <2> QED BY <1>1, <2>1, SteadyOrphans DEF OrphanInv, Known
<1>5. CASE todo' = <<>> /\ Reads
  <2>1. Ours' \subseteq Tracked'
    BY <1>1, <1>3, <1>5, ReadsKnown
  <2>2. state'.id = 0 => Ours' = {}
    BY <2>1, InTrackedNext
  <2> QED BY <1>5, <2>1, <2>2 DEF Known, Recorded
<1> QED BY <1>1, <1>3, <1>4, <1>5 DEF Misreads, Mistaken

LEMMA RefreshOrphans ==
  ASSUME TypeOK, OrphanInv, Refresh
  PROVE  OrphanInv'
<1> SUFFICES ASSUME Owned' PROVE Known' /\ Recorded'
  BY DEF OrphanInv
<1>1. op = "idle" /\ op' # "create" /\ UNCHANGED <<objects, shape, lost>>
  BY DEF Refresh, keycloak, Quiet
<1>2. Owned /\ Known
  BY <1>1, OwnedBack DEF OrphanInv
<1>3. Ours \subseteq Tracked /\ ~Mistaken
  BY <1>1, <1>2 DEF Known, Owned
<1>4. CASE UNCHANGED state
  BY <1>1, <1>3, <1>4, SteadyKnown DEF Steady, Known, Recorded
<1>5. CASE state.id # 0 /\ Reads
  BY <1>1, <1>3, <1>5, ReadsKnown DEF Known, Recorded
<1> QED BY <1>3, <1>4, <1>5 DEF Refresh, Misreads, Mistaken

LEMMA ObtainsOrphans ==
  ASSUME TypeOK, Progress, OrphanInv, Obtains
  PROVE  OrphanInv'
<1> SUFFICES ASSUME Owned' PROVE Known' /\ Recorded'
  BY DEF OrphanInv
<1>1. /\ UNCHANGED <<shape, conf>> /\ (lost => lost') /\ todo # <<>> /\ Head(todo) \in Creating
      /\ op \in {"create", "update"} /\ HasOne(todo, Creating) /\ Class' = Class
  BY ObtainsTyped, Running DEF Obtains, Kept, Quiet, HasOne, Class
<1>2. Owned /\ Known /\ Recorded
  BY <1>1, OwnedBack DEF OrphanInv
<1>3. op = "create" => state.id = 0 /\ handle = 0 /\ Ours = {}
  BY <1>1, <1>2 DEF Progress, CreateProgress, Known, AtHand, Creating
<1>4. op = "update" => state.id # 0 /\ shape.named /\ Ours \subseteq Tracked
  <2> SUFFICES ASSUME op = "update" PROVE state.id # 0 /\ shape.named /\ Ours \subseteq Tracked
    OBVIOUS
  <2>1. Has(todo, Head(todo)) /\ Head(todo) \notin {"post", "find"}
    BY <1>1, Running DEF Progress, UpdateProgress, HasOne
  <2>2. Has(todo, "enable")
    BY <1>1, <2>1 DEF Creating
  <2> QED BY <1>1, <1>2, <2>2 DEF Progress, UpdateProgress, Known
<1>5. CASE UNCHANGED objects /\ Fail
  <2>1. Steady /\ op' # "create"
    BY <1>1, <1>5, FailState DEF Steady
  <2> QED BY <1>1, <1>3, <2>1, SteadyOrphans DEF OrphanInv
<1>6. ASSUME NEW o \in Ids, Gained(o) PROVE \A i \in Ours' : i = o \/ (i \in Ours /\ objects'[i] = objects[i])
  BY <1>6, InOurs DEF Gained
<1>7. ASSUME NEW o \in Ids, Gained(o), op = "update", state'.id = state.id, state'.val = state.val
      PROVE  Ours' \subseteq Tracked'
  <2>1. ASSUME NEW i \in Ours' PROVE i \in Tracked'
    <3>1. CASE i = o
      BY <1>1, <1>4, <1>7, <3>1, InTrackedNext DEF Gained, Planned
    <3>2. CASE i \in Ours /\ objects'[i] = objects[i]
      BY <1>1, <1>4, <1>7, <3>2, InTracked, InTrackedNext
    <3> QED BY <1>6, <1>7, <2>1, <3>1, <3>2
  <2> QED BY <2>1
<1>8. ASSUME NEW o \in Ids, Gained(o), Fail, o # handle => lost' PROVE Known' /\ Recorded'
  <2>1. op = "update"
    BY <1>1, <1>3, <1>8, BoundsAssumption DEF Owned
  <2>2. state'.id = state.id /\ state'.val = state.val /\ op' = "idle"
    BY <1>8, FailState
  <2>3. Ours' \subseteq Tracked'
    BY <1>7, <1>8, <2>1, <2>2
  <2> QED BY <2>2, <2>3 DEF Known, Recorded
<1>9. ASSUME NEW o \in Ids, Gained(o), todo' = Tail(todo), handle' = o, UNCHANGED <<op, state>> PROVE Known' /\ Recorded'
  <2>1. Recorded' /\ (op = "create" /\ CreatedThenRecorded' => Head(todo') = "record")
    BY <1>1, <1>2, <1>9, RecordedTail
  <2>0. op = "create" => todo' # <<>>
    BY <1>1, <1>3, <1>9, HasTail, EmptyProgram DEF Progress, IsProgram, CreateProgress, Creating
  <2>2. CASE op = "update"
    BY <1>7, <1>9, <2>1, <2>2 DEF Known
  <2>3. CASE op = "create"
    <3>1. ASSUME NEW i \in Ours' PROVE i \in Current'
      <4>1. i = o
        BY <1>3, <1>6, <1>9, <2>3, <3>1
      <4>2. Planned' = Planned
        BY <1>1, <1>9 DEF Planned
      <4> QED BY <1>1, <1>9, <2>3, <4>1, <4>2, InCurrentNext DEF Gained
    <3>2. handle' # 0 /\ state'.id = 0
      BY <1>3, <1>9, <2>3, BoundsAssumption
    <3>3. Ours' \subseteq Current' /\ op' = "create"
      BY <1>9, <2>3, <3>1
    <3> QED BY <2>0, <2>1, <2>3, <3>2, <3>3 DEF Known, AtHand
  <2> QED BY <1>1, <2>2, <2>3
<1> QED BY <1>5, <1>8, <1>9 DEF Obtains

\* Objects that are removed are those the state knows.
LEMMA RemovesOrphans ==
  ASSUME TypeOK, Progress, OrphanInv, DeletedInv, Removes
  PROVE  OrphanInv' /\ DeletedInv'
<1>1. /\ UNCHANGED shape /\ (lost => lost') /\ todo # <<>> /\ op \in {"delete", "replace"} /\ op' # "create"
      /\ objects' \in {objects, Removed} /\ state'.id = state.id /\ state'.val = state.val
  BY RemovesTyped, FailState DEF Removes, Kept, Quiet, Fail
<1>2. \A i \in Ids : objects'[i] = objects[i] \/ ~objects'[i].alive
  BY <1>1, RemovedObjects DEF Absent
<1>3. Steady
  BY <1>1, <1>2 DEF Steady
<1>4. OrphanInv'
  BY <1>1, <1>3, SteadyOrphans
<1>5. objects' = Removed => Tracked' = {}
  <2> SUFFICES ASSUME objects' = Removed, NEW i \in Tracked' PROVE FALSE
    OBVIOUS
  <2>1. i \in Ids /\ objects'[i].alive /\ (Class \in InURL => objects'[i].val = state.val) /\ (shape.named \/ i = state.id)
    BY <1>1, InTrackedNext DEF Class
  <2>2. objects'[i] = objects[i] /\ i \notin Current
    BY <2>1, RemovedObjects DEF Absent
  <2>3. i \in Current
    BY <1>1, <2>1, <2>2, InCurrent DEF Planned
  <2> QED BY <2>2, <2>3
<1>6. Tail(todo) # <<>> /\ Head(Tail(todo)) = "again" => HasOne(Tail(todo), Removing)
  <2> SUFFICES ASSUME Tail(todo) # <<>>, Head(Tail(todo)) = "again" PROVE HasOne(Tail(todo), Removing)
    OBVIOUS
  <2>1. Has(Tail(todo), "again")
    BY <1>1, Running, HasTail
  <2> QED BY <2>1 DEF HasOne, Removing
<1>7. DeletedInv'
  <2>1. CASE Fail
    BY <2>1 DEF Fail, DeletedInv
  <2>2. CASE objects' = Removed
    BY <1>5, <2>2 DEF DeletedInv
  <2>3. CASE Tail(todo) # <<>> /\ Head(Tail(todo)) = "again" /\ todo' = Tail(todo)
    BY <1>6, <2>3 DEF DeletedInv
  <2> QED BY <2>1, <2>2, <2>3 DEF Removes
<1> QED BY <1>4, <1>7

\* Create begins when there is nothing of ours.
LEMMA CreateOrphans ==
  ASSUME TypeOK, OrphanInv, UNCHANGED <<shape, objects, lost>>, Owned' => Ours = {}, op' = "create", todo' = CreateProgram,
         state'.id = 0
  PROVE  OrphanInv'
<1> SUFFICES ASSUME Owned' PROVE Known' /\ Recorded'
  BY DEF OrphanInv
<1>1. Owned
  BY OwnedBack
<1>2. todo' = shape.create /\ (CreatedThenRecorded' <=> CreatedThenRecorded)
  BY <1>1 DEF Owned, CreateProgram, CreatedThenRecorded
<1>3. IsCreate(shape, shape.create)
  BY ShapeFacts DEF TypeOK
<1>4. ASSUME CreatedThenRecorded, NEW n \in DOMAIN shape.create, shape.create[n] \in Creating
      PROVE  n < Len(shape.create) /\ shape.create[n + 1] = "record"
  <2>1. PICK m \in DOMAIN shape.create : shape.create[m] = "record"
    BY <1>3 DEF IsCreate, Has
  <2>2. n < m
    BY <1>3, <1>4, <2>1 DEF IsCreate, IsProgram, Precedes
  <2>3. shape.create \in Seq(Instructions)
    BY <1>3 DEF IsCreate, IsProgram
  <2>4. n \in Nat /\ m \in 1 .. Len(shape.create) /\ Len(shape.create) \in Nat
    BY <2>3, LenProperties
  <2> QED BY <1>4, <2>2, <2>4 DEF CreatedThenRecorded
<1>5. Recorded'
  BY <1>2, <1>4 DEF Recorded
<1>6. Ours' = {}
  <2>1. Ours = {}
    OBVIOUS
  <2> QED BY <2>1, InOurs
<1> QED BY <1>5, <1>6 DEF Known

LEMMA PlanOrphans ==
  ASSUME TypeOK, OrphanInv, DeletedInv, PlanCreate \/ PlanUpdate \/ PlanReplace \/ PlanDelete \/ PlanNothing
  PROVE  OrphanInv' /\ DeletedInv'
<1>1. op = "plan" /\ UNCHANGED <<shape, objects, lost>>
  BY DEF PlanCreate, PlanUpdate, PlanReplace, PlanDelete, PlanNothing, Begin, keycloak, Quiet
<1>2. CASE PlanCreate
  <2>1. op' = "create" /\ todo' = CreateProgram /\ state' = state /\ state.id = 0
    BY <1>2 DEF PlanCreate, Begin
  <2>2. Owned' => Ours = {}
    <3> SUFFICES ASSUME Owned' PROVE Ours = {}
      OBVIOUS
    <3>1. Ours \subseteq Tracked
      BY <1>1, OwnedBack DEF OrphanInv, Known
    <3> QED BY <2>1, <3>1 DEF Tracked
  <2> QED BY <1>1, <2>1, <2>2, CreateOrphans DEF DeletedInv
<1>3. CASE PlanUpdate
  <2>1. op' = "update" /\ state' = [state EXCEPT !.val = conf.val] /\ Differs /\ ~MustReplace
    BY <1>3 DEF PlanUpdate, Begin
  <2>2. Class \notin Replacing
    BY <2>1 DEF MustReplace
  <2>3. CASE Class = "movable"
    <3>1. ~Owned'
      BY <1>1, <2>3 DEF Owned, Class
    <3> QED BY <2>1, <3>1 DEF OrphanInv, DeletedInv
  <2>4. CASE Class # "movable"
    <3>1. Class \notin InURL
      BY <2>2, <2>4 DEF InURL, Replacing
    <3>2. Steady
      BY <1>1, <2>1, <3>1 DEF Steady, TypeOK
    <3> QED BY <1>1, <2>1, <3>2, SteadyOrphans DEF DeletedInv
  <2> QED BY <2>3, <2>4
<1>4. CASE PlanReplace \/ PlanDelete \/ PlanNothing
  <2>1. op' # "create" /\ state' = state
    BY <1>4 DEF PlanReplace, PlanDelete, PlanNothing, Begin
  <2>2. OrphanInv'
    BY <1>1, <2>1, SteadyOrphans DEF Steady
  <2>3. DeletedInv'
    <3>1. CASE PlanNothing
      BY <3>1 DEF PlanNothing, Begin, DeletedInv
    <3>2. CASE PlanReplace \/ PlanDelete
      <4>1. todo' = DeleteProgram
        BY <3>2 DEF PlanReplace, PlanDelete, Begin
      <4>2. Deletes' <=> Deletes
        BY <1>1, <2>1 DEF Deletes, DeleteProgram
      <4>3. Deletes => HasOne(DeleteProgram, Removing)
        BY DEF Deletes, HasOne, Removing
      <4> QED BY <4>1, <4>2, <4>3 DEF DeletedInv
    <3> QED BY <1>4, <3>1, <3>2
  <2> QED BY <2>2, <2>3
<1> QED BY <1>2, <1>3, <1>4

\* At its end a Delete has removed the object.
LEMMA NothingTracked ==
  ASSUME DeletedInv, op \in {"delete", "replace"}, Deletes, todo = <<>>
  PROVE  Tracked = {}
BY EmptyProgram DEF DeletedInv, HasOne

LEMMA DestroyedOrphans ==
  ASSUME TypeOK, OrphanInv, DeletedInv, Destroyed
  PROVE  OrphanInv' /\ DeletedInv'
<1>1. op = "replace" /\ todo = <<>> /\ op' = "create" /\ todo' = CreateProgram /\ UNCHANGED <<shape, objects, lost>>
  BY DEF Destroyed, Ends, keycloak, Quiet
<1>2. state'.id = 0
  BY DEF Destroyed, Nothing
<1>3. Owned' => Ours = {}
  <2> SUFFICES ASSUME Owned' PROVE Ours = {}
    OBVIOUS
  <2>1. Owned /\ Known
    BY <1>1, OwnedBack DEF OrphanInv
  <2>2. Ours \subseteq Tracked /\ Deletes
    BY <1>1, <2>1 DEF Known, Owned
  <2> QED BY <1>1, <2>2, NothingTracked
<1> QED BY <1>1, <1>2, <1>3, CreateOrphans DEF DeletedInv

LEMMA AppliedOrphans ==
  ASSUME TypeOK, OrphanInv, DeletedInv, Applied
  PROVE  OrphanInv' /\ DeletedInv'
<1>1. todo = <<>> /\ op' = "idle" /\ UNCHANGED <<shape, objects, lost>> /\ state' = IF op = "delete" THEN Nothing ELSE state
  BY DEF Applied, Ends, keycloak, Quiet
<1>2. OrphanInv'
  <2>1. CASE op # "delete"
    BY <1>1, <2>1, SteadyOrphans DEF Steady, Known
  <2>2. CASE op = "delete"
    <3> SUFFICES ASSUME Owned' PROVE Known' /\ Recorded'
      BY DEF OrphanInv
    <3>1. Owned /\ Known
      BY <1>1, OwnedBack DEF OrphanInv
    <3>2. Ours \subseteq Tracked /\ Deletes
      BY <2>2, <3>1 DEF Known, Owned
    <3>3. Ours = {}
      BY <1>1, <2>2, <3>2, NothingTracked
    <3>4. Ours' = {}
      BY <1>1, <3>3, InOurs
    <3> QED BY <1>1, <3>4 DEF Known, Recorded
  <2> QED BY <2>1, <2>2
<1> QED BY <1>1, <1>2 DEF DeletedInv

LEMMA ConfigureOrphans ==
  ASSUME TypeOK, OrphanInv, Configure
  PROVE  OrphanInv' /\ DeletedInv'
<1>1. op = "idle" /\ op' = op /\ UNCHANGED <<shape, objects, lost, state>>
  BY DEF Configure, Author, run
<1> QED BY <1>1, SteadyOrphans DEF Steady, DeletedInv

LEMMA ImportOrphans ==
  ASSUME TypeOK, OrphanInv, Import
  PROVE  OrphanInv' /\ DeletedInv'
<1>1. PICK o \in Homonyms(conf.val) :
        /\ o \in Ids /\ objects'[o].alive /\ objects'[o].val = objects[o].val
        /\ \A j \in Ids : j # o => objects'[j] = objects[j]
        /\ state' = [id |-> IF shape.named THEN 1 ELSE o, val |-> Imports(o), tainted |-> FALSE]
        /\ Class \in InURL => Imports(o) = objects[o].val
  BY ImportFacts
<1>2. op = "idle" /\ state.id = 0 /\ op' = op /\ UNCHANGED <<shape, lost>>
  BY ImportFacts DEF run
<1>3. state'.id # 0 /\ (shape.named \/ state'.id = o) /\ state'.val = Imports(o) /\ Class' = Class
  BY <1>1, <1>2, BoundsAssumption DEF Class
<1>4. OrphanInv'
  <2> SUFFICES ASSUME Owned' PROVE Known' /\ Recorded'
    BY DEF OrphanInv
  <2>1. Ours \subseteq Tracked
    BY <1>2, OwnedBack DEF OrphanInv, Known
  <2>2. ASSUME NEW i \in Ours' PROVE i \in Tracked'
    <3>1. i = o
      <4> SUFFICES ASSUME i # o PROVE FALSE
        OBVIOUS
      <4>1. i \in Ours
        BY <1>1, <2>2, InOurs
      <4> QED BY <1>2, <2>1, <4>1, InTracked
    <3> QED BY <1>1, <1>2, <1>3, <3>1, InTrackedNext
  <2> QED BY <1>2, <2>2 DEF Known, Recorded
<1> QED BY <1>2, <1>4 DEF DeletedInv

LEMMA DisturbsOrphans ==
  ASSUME TypeOK, OrphanInv, DeletedInv, Disturbs
  PROVE  OrphanInv' /\ DeletedInv'
<1>1. UNCHANGED <<shape, lost, state, op, todo, handle, conf>> /\ Class' = Class
  BY DEF Disturbs, run, Class
<1>2. \A i \in Ids : objects'[i].alive =>
        objects[i].alive /\ objects'[i].mine = objects[i].mine /\ (Class \in InURL => objects'[i].val = objects[i].val)
  BY DEF Disturbs
<1>3. OrphanInv'
  <2> SUFFICES ASSUME Owned' PROVE Known' /\ Recorded'
    BY DEF OrphanInv
  <2>1. Known /\ Recorded
    BY <1>1, OwnedBack DEF OrphanInv
  <2>2. Steady
    BY <1>1, <1>2 DEF Steady
  <2>3. Ours' \subseteq Ours /\ (Ours \subseteq Tracked => Ours' \subseteq Tracked')
    BY <2>2, SteadyKnown
  <2>4. Ours \subseteq Current => Ours' \subseteq Current'
    BY <1>1, <2>2, SteadyCurrent
  <2>5. Recorded' /\ (CreatedThenRecorded' <=> CreatedThenRecorded)
    BY <1>1, <2>1 DEF Recorded, CreatedThenRecorded
  <2> QED BY <1>1, <2>1, <2>3, <2>4, <2>5 DEF Known, AtHand
<1>4. Tracked' \subseteq Tracked
  BY <1>1, <1>2, InTracked, InTrackedNext
<1>5. Deletes' <=> Deletes
  BY <1>1 DEF Deletes, DeleteProgram
<1> QED BY <1>1, <1>3, <1>4, <1>5 DEF DeletedInv

LEMMA PlainDeleted ==
  ASSUME TypeOK, Progress, DeletedInv, Plain
  PROVE  DeletedInv'
<1>1. UNCHANGED shape
  BY DEF Plain, Kept, Quiet
<1>2. CASE Fail
  BY <1>2 DEF Fail, DeletedInv
<1>3. CASE todo' = Tail(todo) /\ UNCHANGED <<op, state, handle>>
  <2>1. HasOne(todo, Removing) => HasOne(todo', Removing)
    BY <1>3, HasOneTail, Running DEF Plain
  <2>2. Tracked' = Tracked
    <3>1. Class' = Class
      BY <1>1 DEF Class
    <3>2. \A i : i \in Tracked' <=> i \in Tracked
      BY <1>1, <1>3, <3>1, InTracked, InTrackedNext DEF Plain, Alike
    <3> QED BY <3>2
  <2>3. Deletes' <=> Deletes
    BY <1>1, <1>3 DEF Deletes, DeleteProgram
  <2> QED BY <1>3, <2>1, <2>2, <2>3 DEF DeletedInv
<1> QED BY <1>2, <1>3 DEF Plain

-----------------------------------------------------------------------------
(* The invariant                                                           *)

LEMMA InitInv == Init => IInv
<1> SUFFICES ASSUME Init PROVE IInv
  OBVIOUS
<1>1. IsProgram(<<>>) /\ <<>> \in Seq(Instructions)
  BY EmptyProgram
<1>2. \A i \in Ids : /\ i # 1 => ~objects[i].alive
                     /\ ~objects[i].mine /\ objects[i] \in Objects
  <2>1. PICK first \in {Absent} \cup {[Absent EXCEPT !.alive = TRUE, !.val = v] : v \in {0, 1}} :
          objects = [i \in Ids |-> IF i = 1 THEN first ELSE Absent]
    BY DEF Init
  <2>2. first \in Objects /\ ~first.mine
    <3>1. CASE first = Absent
      BY <3>1 DEF Absent, Objects
    <3>2. ASSUME NEW v \in {0, 1}, first = [Absent EXCEPT !.alive = TRUE, !.val = v] PROVE first \in Objects /\ ~first.mine
      BY <3>2 DEF Absent, Objects
    <3> QED BY <3>1, <3>2
  <2>3. Absent \in Objects /\ ~Absent.alive /\ ~Absent.mine
    BY DEF Absent, Objects
  <2> QED BY <2>1, <2>2, <2>3
<1>3. TypeOK
  <2>1. objects \in [Ids -> Objects]
    BY <1>2 DEF Init
  <2>2. state \in [id : Ids \cup {0}, val : {0, 1}, tainted : BOOLEAN] /\ ~state.tainted
    BY DEF Init, Nothing
  <2>3. /\ shape \in Shapes /\ unique \in BOOLEAN /\ peer \in BOOLEAN /\ conf \in [want : BOOLEAN, val : {0, 1}]
        /\ op = "idle" /\ todo = <<>> /\ handle = 0 /\ outcome = "none" /\ lost \in BOOLEAN /\ events \in 0 .. MaxEvents
    <3>1. unique \in BOOLEAN
      BY DEF Init
    <3>2. conf \in [want : BOOLEAN, val : {0, 1}]
      BY DEF Init
    <3>3. 0 \in 0 .. MaxEvents
      BY BoundsAssumption
    <3> QED BY <3>1, <3>2, <3>3 DEF Init
  <2> QED BY <1>1, <2>1, <2>2, <2>3 DEF TypeOK, Objects
<1>4. NamedIsUnique /\ Progress /\ PlanInv /\ ImportInv /\ DeletedInv
  BY <1>1 DEF Init, NamedIsUnique, Progress, CreateProgress, UpdateProgress, DeleteProgress, PlanInv, ImportInv, DeletedInv
<1>5. SingleInv
  <2>1. Single
    BY <1>2 DEF Single, Homonyms, Live
  <2> QED BY <2>1 DEF Init, SingleInv
<1>6. OrphanInv
  <2>1. Ours = {}
    BY <1>2 DEF Ours, Live
  <2> QED BY <2>1 DEF Init, OrphanInv, Known, Recorded
<1> QED BY <1>3, <1>4, <1>5, <1>6 DEF IInv

LEMMA NextInv == IInv /\ [Next]_vars => IInv'
<1> SUFFICES ASSUME IInv, [Next]_vars PROVE IInv'
  OBVIOUS
<1>0. TypeOK /\ NamedIsUnique /\ Progress /\ PlanInv /\ SingleInv /\ ImportInv /\ OrphanInv /\ DeletedInv
  BY DEF IInv
<1>1. ASSUME UNCHANGED <<shape, unique>>, TypeOK' /\ Progress', PlanInv' /\ ImportInv', SingleInv', OrphanInv', DeletedInv'
      PROVE  IInv'
  <2>1. NamedIsUnique'
    BY <1>0, <1>1 DEF NamedIsUnique
  <2> QED BY <1>1, <2>1 DEF IInv
<1>2. CASE Check \/ Extra \/ Guard \/ PutWhole \/ Merge \/ Part \/ Add \/ Clear \/ Strip \/ Once \/ Reset \/ Wipe
  <2>1. Plain
    BY <1>0, <1>2, PlainSteps
  <2>2. UNCHANGED <<shape, unique>> /\ outcome' \in {outcome, "none"} /\ (op' = op \/ op' = "idle") /\ todo # <<>>
    BY <2>1 DEF Plain, Kept, Quiet, Fail
  <2>3. PlanInv' /\ ImportInv'
    BY <1>0, <2>2, Running, RunningOutcome
  <2> QED BY <1>0, <1>1, <2>1, <2>2, <2>3, PlainTyped, PlainSingle, PlainOrphans, PlainDeleted
<1>3. CASE Post \/ Enable \/ Find
  <2>1. Obtains
    BY <1>0, <1>3, ObtainSteps
  <2>2. UNCHANGED <<shape, unique>> /\ outcome' \in {outcome, "none"} /\ (op' = op \/ op' = "idle")
    BY <2>1 DEF Obtains, Kept, Quiet, Fail
  <2>3. op \in {"create", "update"} /\ TypeOK' /\ Progress'
    BY <1>0, <2>1, ObtainsTyped
  <2>4. PlanInv' /\ ImportInv'
    BY <1>0, <2>2, <2>3, RunningOutcome
  <2>5. DeletedInv'
    BY <2>2, <2>3 DEF DeletedInv
  <2> QED BY <1>0, <1>1, <2>1, <2>2, <2>3, <2>4, <2>5, ObtainsSingle, ObtainsOrphans
<1>4. CASE Delete \/ Again \/ Remove
  <2>1. Removes
    BY <1>0, <1>4, RemoveSteps
  <2>2. UNCHANGED <<shape, unique>> /\ outcome' \in {outcome, "none"} /\ (op' = op \/ op' = "idle")
    BY <2>1 DEF Removes, Kept, Quiet, Fail
  <2>3. op \in {"delete", "replace"} /\ TypeOK' /\ Progress'
    BY <1>0, <2>1, RemovesTyped
  <2>4. PlanInv' /\ ImportInv'
    BY <1>0, <2>2, <2>3, RunningOutcome
  <2> QED BY <1>0, <1>1, <2>1, <2>2, <2>3, <2>4, RemovesSingle, RemovesOrphans
<1>5. CASE Glance
  <2>1. UNCHANGED <<shape, unique>> /\ outcome' \in {outcome, "none"} /\ op' = op /\ op \in {"create", "update"}
        /\ TypeOK' /\ Progress'
    BY <1>0, <1>5, GlanceTyped DEF Kept, Quiet
  <2>2. PlanInv' /\ ImportInv'
    BY <1>0, <2>1, RunningOutcome
  <2>3. DeletedInv'
    BY <2>1 DEF DeletedInv
  <2> QED BY <1>0, <1>1, <1>5, <2>1, <2>2, <2>3, GlanceSingle, GlanceOrphans
<1>6. CASE Record
  <2>1. UNCHANGED <<shape, unique>> /\ outcome' \in {outcome, "none"} /\ op' = op /\ op \in {"create", "update"}
        /\ TypeOK' /\ Progress'
    BY <1>0, <1>6, RecordTyped DEF Kept, Quiet
  <2>2. PlanInv' /\ ImportInv'
    BY <1>0, <2>1, RunningOutcome
  <2>3. DeletedInv'
    BY <2>1 DEF DeletedInv
  <2> QED BY <1>0, <1>1, <1>6, <2>1, <2>2, <2>3, RecordSingle, RecordOrphans
<1>7. CASE ReadBack
  <2>1. UNCHANGED <<shape, unique>> /\ outcome' \in {outcome, "none"} /\ (op' = op \/ op' = "idle") /\ op \in {"create", "update"}
        /\ TypeOK' /\ Progress'
    BY <1>0, <1>7, ReadBackTyped DEF Kept, Quiet, Fail
  <2>2. PlanInv' /\ ImportInv'
    BY <1>0, <2>1, RunningOutcome
  <2>3. DeletedInv'
    BY <2>1 DEF DeletedInv
  <2> QED BY <1>0, <1>1, <1>7, <2>1, <2>2, <2>3, ReadBackSingle, ReadBackOrphans
<1>8. CASE Refresh
  <2>1. UNCHANGED <<shape, unique>> /\ op' \in {"idle", "plan"}
    BY <1>8 DEF Refresh, Quiet
  <2>2. DeletedInv'
    BY <2>1 DEF DeletedInv
  <2> QED BY <1>0, <1>1, <1>8, <2>1, <2>2, RefreshTyped, RefreshPlan, RefreshSingle, RefreshOrphans
<1>9. CASE PlanCreate \/ PlanUpdate \/ PlanReplace \/ PlanDelete \/ PlanNothing
  <2>1. UNCHANGED <<shape, unique>>
    BY <1>9 DEF PlanCreate, PlanUpdate, PlanReplace, PlanDelete, PlanNothing, Begin, Quiet
  <2> QED BY <1>0, <1>1, <1>9, <2>1, PlanTyped, PlanPlan, PlanSingle, PlanOrphans
<1>10. CASE Applied
  <2>1. UNCHANGED <<shape, unique>>
    BY <1>10 DEF Applied, Ends, Quiet
  <2> QED BY <1>0, <1>1, <1>10, <2>1, AppliedTyped, AppliedPlan, AppliedSingle, AppliedOrphans
<1>11. CASE Destroyed
  <2>1. UNCHANGED <<shape, unique>> /\ outcome' \in {outcome, "none"} /\ op' # "plan" /\ op = "replace"
    BY <1>11 DEF Destroyed, Ends, Quiet
  <2>2. PlanInv' /\ ImportInv'
    BY <1>0, <2>1, RunningOutcome
  <2> QED BY <1>0, <1>1, <1>11, <2>1, <2>2, DestroyedTyped, DestroyedSingle, DestroyedOrphans
<1>12. CASE Configure
  <2>1. UNCHANGED <<shape, unique>> /\ outcome' = "none"
    BY <1>12 DEF Configure, Author
  <2> QED BY <1>0, <1>1, <1>12, <2>1, ConfigureTyped, OpenOutcome, ConfigureSingle, ConfigureOrphans
<1>13. CASE Import
  <2>1. UNCHANGED <<shape, unique>>
    BY <1>0, <1>13, ImportFacts
  <2> QED BY <1>0, <1>1, <1>13, <2>1, ImportTyped, ImportPlan, ImportSingle, ImportOrphans
<1>14. CASE AdminDeletes \/ AdminSets \/ PeerChanges
  <2>1. Disturbs
    BY <1>0, <1>14, OutsideSteps
  <2>2. UNCHANGED <<shape, unique>> /\ outcome' = "none"
    BY <2>1 DEF Disturbs
  <2> QED BY <1>0, <1>1, <2>1, <2>2, DisturbsTyped, OpenOutcome, DisturbsSingle, DisturbsOrphans
<1>15. CASE UNCHANGED vars
  <2>1. UNCHANGED <<shape, unique, objects, peer, conf, state, op, todo, handle, outcome, lost, events>>
    BY <1>15 DEF vars, keycloak, run
  <2>2. TypeOK' /\ Progress' /\ NamedIsUnique'
    BY <1>0, <2>1 DEF TypeOK, NamedIsUnique, Progress, CreateProgress, UpdateProgress, DeleteProgress
  <2>3. Found' = Found /\ Class' = Class
    BY <2>1, SameFound DEF Class
  <2>4. PlanInv' /\ ImportInv'
    BY <1>0, <2>1, <2>3 DEF PlanInv, ImportInv, Agrees, Tracked, The, Told
  <2>5. SingleInv'
    BY <1>0, <2>1 DEF SingleInv, Single, Homonyms, Live, Class, Planned
  <2>6. OrphanInv' /\ DeletedInv'
    BY <1>0, <2>1 DEF OrphanInv, Owned, CreatedThenRecorded, Mistaken, Deletes, DeleteProgram, Known, AtHand, Recorded, Ours, Tracked, Found,
                      Current, Target, Homonyms, Live, Class, Planned, DeletedInv
  <2> QED BY <2>2, <2>4, <2>5, <2>6 DEF IInv
<1> QED BY <1>2, <1>3, <1>4, <1>5, <1>6, <1>7, <1>8, <1>9, <1>10, <1>11, <1>12, <1>13, <1>14, <1>15 DEF Next, Terraform

LEMMA Invariant == Spec => []IInv
BY InitInv, NextInv, PTL DEF Spec

-----------------------------------------------------------------------------
(* The theorems                                                            *)

\* Nothing is left of a program when the provider is idle, and only what is in the state is
\* tainted: Create fails before SetId without a trace, after it with a tainted resource.
THEOREM TypeCorrect == Spec => []TypeOK
<1>1. IInv => TypeOK
  BY DEF IInv
<1> QED BY <1>1, Invariant, PTL

\* After a run with nothing to do a configured resource is in the state, untainted, its object
\* is in Keycloak, and an attribute that Read compares has there the value configured, also
\* after failures and changes by administrators; a resource not configured is not in the state.
THEOREM EmptyPlanCorrect == Spec => []EmptyPlanTruthful
<1>1. IInv => EmptyPlanTruthful
  BY DEF IInv, PlanInv, EmptyPlanTruthful
<1> QED BY <1>1, Invariant, PTL

\* Never a second object of ours under one name, if Keycloak refuses it or Create looks for
\* one first.
THEOREM OneOfAName == Spec => []NoSecondCopy
<1>1. IInv => NoSecondCopy
  <2> SUFFICES ASSUME IInv, unique \/ Has(shape.create, "guard"), NEW v \in {0, 1}
               PROVE  Cardinality(Ours \cap Homonyms(v)) <= 1
    BY DEF NoSecondCopy
  <2>1. \A i, j \in Homonyms(v) : i = j
    BY DEF IInv, SingleInv, Single
  <2>2. CASE Ours \cap Homonyms(v) = {}
    BY <2>2, FS_EmptySet
  <2>3. CASE Ours \cap Homonyms(v) # {}
    <3>1. PICK i : i \in Ours \cap Homonyms(v)
      BY <2>3
    <3>2. Ours \cap Homonyms(v) = {i}
      BY <2>1, <3>1
    <3> QED BY <3>2, FS_Singleton
  <2> QED BY <2>2, <2>3
<1> QED BY <1>1, Invariant, PTL

\* An object the provider created is in the state or being created, or there is one of the
\* reasons the property names.
THEOREM NoOrphans == Spec => []OrphansExplained
<1>1. IInv => OrphansExplained
  <2> SUFFICES ASSUME IInv, Owned PROVE Ours \subseteq Tracked \cup Handled
    BY DEF OrphansExplained, Owned
  <2>1. Known
    BY DEF IInv, OrphanInv
  <2> QED BY <2>1 DEF Known, AtHand, Handled
<1> QED BY <1>1, Invariant, PTL

\* What a step forgets, it has removed, or found gone.
LEMMA Forgotten ==
  ASSUME IInv, Next, state.id # 0, state'.id = 0, Deletes, ~Mistaken
  PROVE  Tracked = {}
<1>0. TypeOK /\ Progress /\ DeletedInv
  BY DEF IInv
<1>1. ASSUME state'.id = state.id PROVE Tracked = {}
  BY <1>1
<1>2. CASE Fail
  BY <1>0, <1>1, <1>2, FailState
<1>3. ASSUME Reads PROVE Tracked = {}
  BY <1>0, <1>3, ReadsState DEF TypeOK, Tracked, Mistaken
<1>4. ~Misreads
  BY DEF Misreads, Mistaken
<1>5. CASE Check \/ Extra \/ Guard \/ PutWhole \/ Merge \/ Part \/ Add \/ Clear \/ Strip \/ Once \/ Reset \/ Wipe
  BY <1>0, <1>1, <1>2, <1>5, PlainSteps DEF Plain
<1>6. CASE Post \/ Enable \/ Find
  BY <1>0, <1>1, <1>2, <1>6, ObtainSteps DEF Obtains
<1>7. CASE Delete \/ Again \/ Remove
  BY <1>0, <1>1, <1>2, <1>7, RemoveSteps DEF Removes
<1>8. CASE Glance \/ Record
  BY <1>0, <1>1, <1>8, GlanceTyped, RecordTyped
<1>9. CASE ReadBack
  BY <1>0, <1>2, <1>3, <1>4, <1>9, ReadBackTyped
<1>10. CASE Refresh
  BY <1>1, <1>3, <1>4, <1>10 DEF Refresh
<1>11. CASE PlanCreate \/ PlanUpdate \/ PlanReplace \/ PlanDelete \/ PlanNothing
  BY <1>0, <1>1, <1>11 DEF PlanCreate, PlanUpdate, PlanReplace, PlanDelete, PlanNothing, TypeOK
<1>12. CASE Applied \/ Destroyed
  <2>1. CASE op \in {"delete", "replace"} /\ todo = <<>>
    BY <1>0, <2>1, NothingTracked
  <2> QED BY <1>1, <1>12, <2>1 DEF Applied, Destroyed
<1>13. CASE Configure \/ AdminDeletes \/ AdminSets \/ PeerChanges
  BY <1>1, <1>13 DEF Configure, AdminDeletes, AdminSets, PeerChanges, Outside
<1>14. CASE Import
  BY <1>14 DEF Import
<1> QED BY <1>5, <1>6, <1>7, <1>8, <1>9, <1>10, <1>11, <1>12, <1>13, <1>14 DEF Next, Terraform

\* Terraform stops knowing an object only when it is gone.
THEOREM ForgottenIsGone == Spec => NeverForgetsExisting
<1>1. IInv /\ [Next]_vars =>
        [state.id # 0 /\ state'.id = 0 /\ Deletes /\ Class # "movable" /\ ~Mistaken => \A i \in Tracked : ~Stays(i)]_vars
  BY Forgotten
<1> QED BY <1>1, Invariant, PTL DEF Spec, NeverForgetsExisting

\* An import whose configuration is right is not followed by a replacement.
THEOREM ImportedIsKept == Spec => ImportKeeps
<1>1. IInv /\ [Next]_vars => [outcome = "imported" => op' # "replace"]_vars
  <2> SUFFICES ASSUME IInv, Next, outcome = "imported", op' = "replace" PROVE FALSE
    OBVIOUS
  <2>1. op \in {"idle", "plan"} /\ todo = <<>> /\ ImportInv /\ TypeOK
    BY DEF IInv, ImportInv, TypeOK
  <2>2. PlanReplace
    BY <2>1 DEF Next, Terraform, Refresh, PlanCreate, PlanUpdate, PlanDelete, PlanNothing, Begin, Check, Extra, Glance, Guard, Post, Enable,
                Find, Create, Take, PutWhole, Merge, Part, Add, Clear, Strip, Wipe, Once, Reset, Write, Call, At, Record, ReadBack, Delete, Again,
                Remove, Applied, Destroyed, Configure, Import, Author, AdminDeletes, AdminSets, PeerChanges, Outside, run
  <2>3. state.id # 0 /\ MustReplace
    BY <2>2 DEF PlanReplace
  <2> QED BY <2>1, <2>3 DEF ImportInv, MustReplace, Differs
<1> QED BY <1>1, Invariant, PTL DEF ImportKeeps, Spec
=============================================================================

-------------------------- MODULE AppliedAgrees_proofs --------------------------
(***************************************************************************)
(* The proof that a run of ResourceLifecycle which ends without an error   *)
(* leaves in Keycloak what is configured, for every set of resource types  *)
(* whose programs are as ResourceKind says.                                *)
(*                                                                         *)
(* As long as nothing disturbs a run, the calls still ahead tell what is   *)
(* still to be done: the object is there unless a call that reaches it is  *)
(* ahead, and it has the configured value unless a call that brings it is. *)
(***************************************************************************)
EXTENDS ResourceLifecycle_proofs

Writing == op \in {"create", "update"}

\* The types the property is about; Create that merges leaves the rest to the next run.
Whole == ~Has(shape.create, "merge")

\* No step of p takes the value v away.
Unspoilt(p, c, v) == \A n \in DOMAIN p : ~Spoils(p[n], c, v)

\* Only Delete runs for a resource that is not wanted.
WantInv ==
  /\ op \in {"create", "update", "replace"} => conf.want
  /\ op = "delete" => ~conf.want

\* What Read looks up is there.
PeerInv ==
  shape.lookup = "forgets" =>
    /\ op = "plan" /\ outcome # "none" /\ state.id # 0 /\ ~state.tainted => peer
    /\ outcome = "calm" /\ Writing /\ Whole => Has(todo, "check") \/ peer

ReachInv == HasOne(todo, Reaching) \/ Current # {}

ValueInv ==
  Class \in Written(conf.val) \ InURL =>
    \/ Carries(todo, Class, conf.val)
    \/ Unspoilt(todo, Class, conf.val) /\ \A o \in Current : objects[o].val = conf.val

StateInv ==
  /\ ~state.tainted
  /\ state.id = 0 => Has(todo, "record")
  /\ state.id # 0 =>
       /\ Class \in Written(conf.val) => state.val = conf.val
       /\ op = "create" => shape.named \/ state.id = handle

WritingInv == outcome = "calm" /\ Writing /\ Whole => ReachInv /\ ValueInv /\ StateInv

RunInv == WantInv /\ PeerInv /\ WritingInv /\ AppliedAgrees

-----------------------------------------------------------------------------
(* Programs                                                                *)

\* What the conditions on a type say of its programs, with one attribute watched.
LEMMA CompleteFacts ==
  ASSUME shape \in Shapes, Whole
  PROVE  /\ HasOne(CreateProgram, Reaching)
         /\ shape.lookup = "forgets" => Has(CreateProgram, "check")
         /\ Class = "movable" => HasOne(shape.update, Reaching)
         /\ \A v \in {0, 1} : Class \in Written(v) \ InURL =>
              /\ Carries(CreateProgram, Class, v)
              /\ Class \notin Replacing => Carries(shape.update, Class, v)
<1>1. PICK k \in Kinds, c \in Classes : \E a \in k[c] : shape = Shape(k, c, a)
  BY DEF Shapes
<1>2. IsResource(k)
  BY KindsAssumption
<1>3. /\ shape.create = k.create /\ shape.update = k.update /\ shape.lookup = k.lookup /\ Class = c
      /\ shape.adopting = IF c = "steering" THEN k.adopting ELSE <<>>
  BY <1>1 DEF Shape, Class
<1>4. IsComplete(k)
  BY <1>2, <1>3 DEF IsResource, Whole
<1>5. IsCreate(k, k.create) /\ k.create # <<>>
  BY <1>2, EmptyProgram DEF IsResource, IsCreate
<1>6. CreateProgram \in {k.create, k.adopting} \ {<<>>}
  BY <1>3, <1>5 DEF CreateProgram
<1>7. HasOne(CreateProgram, Reaching) /\ (shape.lookup = "forgets" => Has(CreateProgram, "check"))
  BY <1>3, <1>4, <1>6 DEF IsComplete
<1>8. Class = "movable" => HasOne(shape.update, Reaching)
  BY <1>1, <1>3, <1>4 DEF IsComplete
<1>9. ASSUME NEW v \in {0, 1}, Class \in Written(v) \ InURL
      PROVE  Carries(CreateProgram, Class, v) /\ (Class \notin Replacing => Carries(shape.update, Class, v))
  <2>1. c # "steering"
    BY <1>3, <1>9 DEF Written, Compared, Retained
  <2>2. CreateProgram = k.create
    BY <1>3, <2>1 DEF CreateProgram
  <2>3. k[c] # {} /\ c \in Written(v) \ InURL
    BY <1>1, <1>3, <1>9
  <2> QED BY <1>3, <1>4, <2>2, <2>3 DEF IsComplete
<1> QED BY <1>7, <1>8, <1>9

\* A step that brings the value is followed by none that spoils it, or by another that
\* brings it.
LEMMA CarriesTail ==
  ASSUME NEW p \in Seq(Instructions), p # <<>>, NEW c, NEW v
  PROVE  /\ Carries(p, c, v) =>
              Carries(Tail(p), c, v) \/ (Brings(Head(p), c, v) /\ Unspoilt(Tail(p), c, v))
         /\ Unspoilt(p, c, v) => ~Spoils(Head(p), c, v) /\ Unspoilt(Tail(p), c, v)
<1>1. /\ Head(p) = p[1] /\ Len(p) \in Nat \ {0} /\ DOMAIN p = 1 .. Len(p)
      /\ DOMAIN Tail(p) = 1 .. Len(p) - 1 /\ \A n \in 1 .. Len(p) - 1 : Tail(p)[n] = p[n + 1]
  BY HeadTailProperties
<1>2. \A n \in DOMAIN Tail(p) : n \in Nat /\ n + 1 \in DOMAIN p /\ p[n + 1] = Tail(p)[n]
  BY <1>1
<1>3. ASSUME Unspoilt(p, c, v) PROVE ~Spoils(Head(p), c, v) /\ Unspoilt(Tail(p), c, v)
  <2>1. 1 \in DOMAIN p
    BY <1>1
  <2>2. ~Spoils(Head(p), c, v)
    BY <1>1, <1>3, <2>1 DEF Unspoilt
  <2>3. ASSUME NEW n \in DOMAIN Tail(p) PROVE ~Spoils(Tail(p)[n], c, v)
    BY <1>2, <1>3 DEF Unspoilt
  <2> QED BY <2>2, <2>3 DEF Unspoilt
<1>4. ASSUME Carries(p, c, v), ~Carries(Tail(p), c, v)
      PROVE  Brings(Head(p), c, v) /\ Unspoilt(Tail(p), c, v)
  <2>1. PICK n \in DOMAIN p : Brings(p[n], c, v) /\ \A m \in DOMAIN p : Spoils(p[m], c, v) => m <= n
    BY <1>4 DEF Carries
  <2>2. CASE n = 1
    <3>1. Brings(Head(p), c, v)
      BY <1>1, <2>1, <2>2
    <3>2. ASSUME NEW m \in DOMAIN Tail(p) PROVE ~Spoils(Tail(p)[m], c, v)
      <4>1. ~(m + 1 <= 1)
        BY <1>1
      <4> QED BY <1>2, <2>1, <2>2, <4>1
    <3> QED BY <3>1, <3>2 DEF Unspoilt
  <2>3. CASE n # 1
    <3>1. n - 1 \in DOMAIN Tail(p) /\ Tail(p)[n - 1] = p[n]
      BY <1>1, <2>3
    <3>2. ASSUME NEW m \in DOMAIN Tail(p), Spoils(Tail(p)[m], c, v) PROVE m <= n - 1
      <4>1. m + 1 <= n
        BY <1>2, <2>1, <3>2
      <4> QED BY <1>1, <4>1
    <3>3. Brings(Tail(p)[n - 1], c, v)
      BY <2>1, <3>1
    <3>4. Carries(Tail(p), c, v)
      BY <3>1, <3>2, <3>3 DEF Carries
    <3> QED BY <1>4, <3>4
  <2> QED BY <2>2, <2>3
<1> QED BY <1>3, <1>4

LEMMA NothingCarried == \A c, v : ~Carries(<<>>, c, v)
BY DEF Carries

-----------------------------------------------------------------------------
(* What the calls do for the attribute                                     *)

Undisturbed == outcome' = "calm" /\ op' = op

\* A call that writes or checks.
Sets ==
  Undisturbed =>
    /\ peer' = peer
    /\ Head(todo) \in Reaching => Current # {}
    /\ Head(todo) = "check" => peer
    /\ \A o \in Current :
         /\ Brings(Head(todo), Class, Planned) => objects'[o].val = Planned
         /\ ~Spoils(Head(todo), Class, Planned) => objects'[o].val \in {objects[o].val, Planned}

\* A call that gives Create its object, or takes over the one Update knows by its name.
Gives ==
  Undisturbed =>
    /\ peer' = peer /\ Head(todo) # "check"
    /\ Current' # {}
    /\ Brings(Head(todo), Class, Planned) => \A o \in Current' : objects'[o].val = Planned

\* A call of an undisturbed operation that goes on has been carried out.
LEMMA CallCalm ==
  ASSUME TypeOK, NEW i, NEW STATE ok, NEW STATE after, NEW STATE h, Call(i, ok, after, h), Undisturbed
  PROVE  /\ ok /\ objects' = after /\ handle' = h /\ todo' = Tail(todo) /\ UNCHANGED <<state, peer>> /\ Quiet
         /\ todo # <<>> /\ Head(todo) = i
<1>1. todo # <<>> /\ Head(todo) = i /\ peer' = peer /\ Quiet
  BY DEF Call, At
<1>2. op # "idle"
  BY <1>1 DEF TypeOK
<1>3. ~Fail /\ ~Fault
  BY <1>2 DEF Fail, Fault, Undisturbed
<1> QED BY <1>1, <1>3 DEF Call, Advance

LEMMA WriteSets ==
  ASSUME TypeOK, NEW i \in {"put", "merge", "part", "add", "clear", "strip", "once", "reset"},
         NEW STATE written, NEW STATE v, Write(i, written, v),
         Brings(i, Class, Planned) => written /\ v = Planned,
         ~Spoils(i, Class, Planned) /\ written => v = Planned
  PROVE  Sets
<1> SUFFICES ASSUME Undisturbed PROVE Sets
  BY DEF Sets
<1> DEFINE after == [o \in Ids |-> IF o \in Current /\ written THEN [objects[o] EXCEPT !.val = v] ELSE objects[o]]
<1>1. Current # {} /\ objects' = after /\ peer' = peer /\ Head(todo) = i
  BY CallCalm DEF Write
<1>2. ASSUME NEW o \in Current
      PROVE  objects'[o].val = IF written THEN v ELSE objects[o].val
  <2>1. o \in Ids
    BY DEF Current, Target, Homonyms, Live
  <2>2. objects[o] \in Objects
    BY <2>1 DEF TypeOK, Objects
  <2>3. objects'[o] = IF written THEN [objects[o] EXCEPT !.val = v] ELSE objects[o]
    BY <1>1, <2>1
  <2> QED BY <2>2, <2>3 DEF Objects
<1>3. ASSUME NEW o \in Current
      PROVE  /\ Brings(Head(todo), Class, Planned) => objects'[o].val = Planned
             /\ ~Spoils(Head(todo), Class, Planned) => objects'[o].val \in {objects[o].val, Planned}
  BY <1>1, <1>2
<1> QED BY <1>1, <1>3 DEF Sets

LEMMA PlainSets ==
  ASSUME TypeOK,
         Check \/ Extra \/ Guard \/ PutWhole \/ Merge \/ Part \/ Add \/ Clear \/ Strip \/ Once \/ Reset \/ Wipe
  PROVE  Sets
<1>1. CASE Check \/ Extra \/ Guard
  <2> SUFFICES ASSUME Undisturbed PROVE Sets
    BY DEF Sets
  <2>1. objects' = objects /\ peer' = peer /\ Head(todo) \in {"check", "extra", "guard"} /\ (Head(todo) = "check" => peer)
    <3>1. CASE Check
      BY <3>1, CallCalm DEF Check
    <3>2. CASE Extra
      <4>1. todo # <<>> /\ op # "idle"
        BY <3>2 DEF Extra, Call, At, TypeOK
      <4> QED BY <3>2, <4>1 DEF Extra, Call, At, Undisturbed, Fail, Fault
    <3>3. CASE Guard
      BY <3>3, CallCalm DEF Guard
    <3> QED BY <1>1, <3>1, <3>2, <3>3
  <2> QED BY <2>1 DEF Sets, Brings, Reaching, Creating
<1>2. Planned \in {0, 1}
  BY DEF TypeOK, Planned
<1>3. CASE PutWhole
  BY <1>3, WriteSets DEF PutWhole, Brings
<1>4. CASE Merge
  BY <1>4, WriteSets DEF Merge, Brings
<1>5. CASE Part
  BY <1>5, WriteSets DEF Part, Brings
<1>6. CASE Add
  BY <1>6, WriteSets DEF Add, Brings
<1>7. CASE Clear
  BY <1>7, WriteSets DEF Clear, Brings
<1>11. CASE Strip
  <2>1. ~Spoils("strip", Class, Planned) /\ Class \in Partly /\ Planned = 1 => 0 = Planned
    BY DEF Spoils
  <2> QED BY <1>11, <2>1, WriteSets DEF Strip, Brings
<1>8. CASE Once
  BY <1>8, WriteSets DEF Once, Brings
<1>9. CASE Reset
  <2>1. ~Spoils("reset", Class, Planned) /\ Class \in Put \cup Partly => 0 = Planned
    BY <1>2 DEF Spoils
  <2> QED BY <1>9, <2>1, WriteSets DEF Reset, Brings
<1>10. CASE Wipe
  <2> SUFFICES ASSUME Undisturbed PROVE Sets
    BY DEF Sets
  <2>1. objects' = Wiped /\ peer' = peer /\ Head(todo) = "wipe"
    BY <1>10 DEF Wipe, Fault, Undisturbed, At
  <2>2. ASSUME NEW o \in Current
        PROVE  objects'[o].val = IF Class \in Partly THEN 0 ELSE objects[o].val
    <3>1. o \in Ids
      BY DEF Current, Target, Homonyms, Live
    <3>2. objects[o] \in Objects
      BY <3>1 DEF TypeOK, Objects
    <3>3. objects'[o] = IF Class \in Partly THEN [objects[o] EXCEPT !.val = 0] ELSE objects[o]
      BY <2>1, <3>1 DEF Wiped
    <3> QED BY <3>2, <3>3 DEF Objects
  <2>3. ASSUME NEW o \in Current
        PROVE  /\ Brings("wipe", Class, Planned) => objects'[o].val = Planned
               /\ ~Spoils("wipe", Class, Planned) => objects'[o].val \in {objects[o].val, Planned}
    BY <1>2, <2>2 DEF Brings, Spoils
  <2> QED BY <2>1, <2>3 DEF Sets, Reaching, Creating
<1> QED BY <1>1, <1>3, <1>4, <1>5, <1>6, <1>7, <1>8, <1>9, <1>10, <1>11

\* The object obtained is the one at hand; another with the name was there before.
LEMMA InHand ==
  ASSUME TypeOK, NEW o \in Ids, Gained(o), handle' = o, UNCHANGED <<op, state>>, Quiet,
         op = "create" \/ shape.named
  PROVE  /\ o \in Current'
         /\ \A i \in Current' : i = o \/ (shape.named /\ i \in Homonyms(Planned))
<1>1. PICK v \in {0, 1} : v = Planned
  BY DEF TypeOK, Planned
<1>2. Planned' = v /\ Class' = Class /\ shape' = shape
  BY <1>1 DEF Planned, Quiet, Class
<1>3. Current' = Target(IF op = "create" THEN o ELSE state.id, v)'
  BY <1>2 DEF Current, Target
<1>4. o \in Homonyms(v)'
  BY <1>1, <1>2 DEF Homonyms, Live, Gained
<1>5. ASSUME NEW i \in Homonyms(v)', i # o PROVE i \in Homonyms(v)
  BY <1>2, <1>5 DEF Homonyms, Live, Gained
<1>6. Current' = IF shape.named THEN Homonyms(v)' ELSE Homonyms(v)' \cap {o}
  BY <1>2, <1>3 DEF Target
<1> QED BY <1>1, <1>4, <1>5, <1>6

LEMMA ObtainsGives ==
  ASSUME TypeOK, NamedIsUnique, Progress, Post \/ Enable \/ Find
  PROVE  Gives
<1> SUFFICES ASSUME Undisturbed PROVE Gives
  BY DEF Gives
<1>1. Obtains /\ op \in {"create", "update"} /\ (op = "create" \/ shape.named)
  <2>1. Obtains
    BY ObtainSteps
  <2>2. op = "update" => shape.named
    BY <2>1, Running DEF Obtains, Progress, UpdateProgress, HasOne, Creating
  <2> QED BY <2>1, <2>2, ObtainsTyped
<1>2. ~Fail /\ Head(todo) \in Creating /\ Quiet
  BY <1>1 DEF Fail, Undisturbed, Obtains, Kept
<1>3. PICK o \in Ids : Gained(o) /\ handle' = o /\ UNCHANGED <<op, state>>
  BY <1>1, <1>2 DEF Obtains
<1>4. o \in Current' /\ \A i \in Current' : i = o \/ (shape.named /\ i \in Homonyms(Planned))
  BY <1>1, <1>2, <1>3, InHand
<1>5. peer' = peer
  BY DEF Post, Enable, Find, Create, Take, Call
<1>6. ASSUME Brings(Head(todo), Class, Planned), NEW i \in Current' PROVE objects'[i].val = Planned
  <2>1. Head(todo) = "post" /\ (Class \in Posted \/ Planned = 0)
    BY <1>2, <1>6 DEF Brings, Creating
  <2>2. Create("post", unique => Homonyms(Planned) = {}, Posted)
    BY <2>1 DEF Post, Enable, Find, Create, Take, Call, At
  <2>3. PICK f : f = Free
    OBVIOUS
  <2>4. f \in Ids
    BY <2>2, <2>3 DEF Create, Free, Unused
  <2>5. /\ (unique => Homonyms(Planned) = {}) /\ handle' = f
        /\ objects' = [objects EXCEPT ![f] = New(Posted)]
    <3>1. Call("post", unique => Homonyms(Planned) = {}, [objects EXCEPT ![f] = New(Posted)], f)
      BY <2>2, <2>3 DEF Create
    <3> QED BY <3>1, CallCalm
  <2>6. objects'[f].val = Planned
    <3>1. objects \in [Ids -> Objects]
      BY DEF TypeOK, Objects
    <3>2. objects'[f] = New(Posted)
      BY <2>4, <2>5, <3>1
    <3> QED BY <2>1, <3>2 DEF New
  <2>7. i = f
    BY <1>3, <1>4, <2>5 DEF NamedIsUnique
  <2> QED BY <2>6, <2>7
<1> QED BY <1>2, <1>4, <1>5, <1>6 DEF Gives, Creating

-----------------------------------------------------------------------------
(* The steps of an operation                                               *)

\* What remains to be shown of a step is that an undisturbed operation keeps its promise.
LEMMA RunningRun ==
  ASSUME IInv, RunInv, op \in {"create", "update", "delete", "replace"}, outcome' \in {outcome, "none"},
         op' \in {op, "idle"}, Quiet,
         Undisturbed /\ outcome = "calm" /\ Writing /\ Whole =>
           /\ shape.lookup = "forgets" => Has(todo', "check") \/ peer'
           /\ ReachInv' /\ ValueInv' /\ StateInv'
  PROVE  RunInv'
<1>1. outcome \notin {"applied", "nothing"}
  BY DEF IInv, PlanInv
<1>2. WantInv'
  BY DEF RunInv, WantInv, Quiet
<1>3. AppliedAgrees'
  BY <1>1 DEF AppliedAgrees
<1>4. (Whole' <=> Whole) /\ shape' = shape
  BY DEF Whole, Quiet
<1>5. PeerInv'
  BY <1>4 DEF PeerInv, Writing, Undisturbed
<1>6. WritingInv'
  BY <1>4 DEF WritingInv, Writing, Undisturbed
<1> QED BY <1>2, <1>3, <1>5, <1>6 DEF RunInv

LEMMA PlainRun ==
  ASSUME IInv, RunInv, Plain, Sets
  PROVE  RunInv'
<1>1. todo # <<>> /\ Quiet /\ outcome' \in {outcome, "none"} /\ op' \in {op, "idle"}
  BY DEF Plain, Kept, Fail
<1>2. op \in {"create", "update", "delete", "replace"} /\ todo \in Seq(Instructions)
  BY <1>1, Running DEF IInv
<1> SUFFICES ASSUME Undisturbed, outcome = "calm", Writing, Whole
             PROVE  /\ shape.lookup = "forgets" => Has(todo', "check") \/ peer'
                    /\ ReachInv' /\ ValueInv' /\ StateInv'
  BY <1>1, <1>2, RunningRun
<1>3. todo' = Tail(todo) /\ UNCHANGED <<op, state, handle, conf, shape>> /\ Class' = Class
  BY <1>2 DEF Plain, Fail, Undisturbed, Kept, Quiet, Class
<1>4. ReachInv /\ ValueInv /\ StateInv /\ PeerInv
  BY DEF RunInv, WritingInv
<1>5. Current' = Current
  <2>1. PICK id, v : id = (IF op = "create" THEN handle ELSE state.id) /\ v = Planned
    OBVIOUS
  <2>2. Planned' = v /\ Current = Target(id, v) /\ Current' = Target(id, v)'
    BY <1>3, <2>1 DEF Planned, Current, Target
  <2>3. Target(id, v)' = Target(id, v)
    BY <1>1, AlikeObjects DEF Plain
  <2> QED BY <2>2, <2>3
<1>6. /\ Has(todo, "check") => Has(todo', "check") \/ Head(todo) = "check"
      /\ HasOne(todo, Reaching) => HasOne(todo', Reaching) \/ Head(todo) \in Reaching
      /\ Has(todo, "record") => Has(todo', "record")
  BY <1>1, <1>2, <1>3, HasTail, HasOneTail DEF Plain
<1>7. shape.lookup = "forgets" => Has(todo', "check") \/ peer'
  BY <1>4, <1>6 DEF PeerInv, Sets
<1>8. ReachInv'
  BY <1>4, <1>5, <1>6 DEF ReachInv, Sets
<1>9. StateInv'
  BY <1>3, <1>4, <1>6 DEF StateInv
<1>10. ValueInv'
  <2> SUFFICES ASSUME Class \in Written(conf.val) \ InURL PROVE ValueInv'
    BY <1>3 DEF ValueInv
  <2>1. Planned = conf.val
    BY <1>1, <1>4 DEF Planned, Writing, StateInv, IInv, Progress, UpdateProgress
  <2>2. /\ Carries(todo, Class, conf.val) =>
             Carries(todo', Class, conf.val) \/ (Brings(Head(todo), Class, conf.val) /\ Unspoilt(todo', Class, conf.val))
        /\ Unspoilt(todo, Class, conf.val) =>
             ~Spoils(Head(todo), Class, conf.val) /\ Unspoilt(todo', Class, conf.val)
    BY <1>1, <1>2, <1>3, CarriesTail
  <2>3. CASE Carries(todo', Class, conf.val)
    BY <1>3, <2>3 DEF ValueInv
  <2>4. CASE Brings(Head(todo), Class, conf.val) /\ Unspoilt(todo', Class, conf.val)
    BY <1>3, <1>5, <2>1, <2>4 DEF ValueInv, Sets
  <2>5. CASE Unspoilt(todo, Class, conf.val) /\ \A o \in Current : objects[o].val = conf.val
    BY <1>3, <1>5, <2>1, <2>2, <2>5 DEF ValueInv, Sets
  <2> QED BY <1>4, <2>2, <2>3, <2>4, <2>5 DEF ValueInv
<1> QED BY <1>7, <1>8, <1>9, <1>10

LEMMA ObtainsRun ==
  ASSUME IInv, RunInv, Obtains, Gives
  PROVE  RunInv'
<1>1. todo # <<>> /\ Head(todo) \in Creating /\ Quiet /\ outcome' \in {outcome, "none"} /\ op' \in {op, "idle"}
  BY DEF Obtains, Kept, Fail
<1>2. op \in {"create", "update", "delete", "replace"} /\ todo \in Seq(Instructions)
  BY <1>1, Running DEF IInv
<1> SUFFICES ASSUME Undisturbed, outcome = "calm", Writing, Whole
             PROVE  /\ shape.lookup = "forgets" => Has(todo', "check") \/ peer'
                    /\ ReachInv' /\ ValueInv' /\ StateInv'
  BY <1>1, <1>2, RunningRun
<1>3. todo' = Tail(todo) /\ UNCHANGED <<op, state, conf, shape>> /\ Class' = Class
  BY <1>2 DEF Obtains, Fail, Undisturbed, Kept, Quiet, Class
<1>4. ReachInv /\ ValueInv /\ StateInv /\ PeerInv
  BY DEF RunInv, WritingInv
<1>5. /\ Has(todo, "check") => Has(todo', "check") \/ Head(todo) = "check"
      /\ Has(todo, "record") => Has(todo', "record")
  BY <1>1, <1>2, <1>3, HasTail DEF Creating
<1>6. shape.lookup = "forgets" => Has(todo', "check") \/ peer'
  BY <1>4, <1>5 DEF PeerInv, Gives
<1>7. ReachInv'
  BY DEF ReachInv, Gives
<1>8. StateInv'
  <2>1. op = "create" => state.id = 0
    <3>1. HasOne(todo, Creating)
      BY <1>1, Running DEF IInv, HasOne
    <3> QED BY <3>1 DEF IInv, Progress, CreateProgress
  <2> QED BY <1>3, <1>4, <1>5, <2>1 DEF StateInv
<1>9. ValueInv'
  <2> SUFFICES ASSUME Class \in Written(conf.val) \ InURL PROVE ValueInv'
    BY <1>3 DEF ValueInv
  <2>1. Planned = conf.val
    BY <1>1, <1>4 DEF Planned, Writing, StateInv, IInv, Progress, UpdateProgress
  <2>2. /\ Carries(todo, Class, conf.val) =>
             Carries(todo', Class, conf.val) \/ (Brings(Head(todo), Class, conf.val) /\ Unspoilt(todo', Class, conf.val))
        /\ ~Unspoilt(todo, Class, conf.val)
    BY <1>1, <1>2, <1>3, CarriesTail DEF Spoils
  <2>3. CASE Carries(todo', Class, conf.val)
    BY <1>3, <2>3 DEF ValueInv
  <2>4. CASE Brings(Head(todo), Class, conf.val) /\ Unspoilt(todo', Class, conf.val)
    BY <1>3, <2>1, <2>4 DEF ValueInv, Gives
  <2> QED BY <1>4, <2>2, <2>3, <2>4 DEF ValueInv
<1> QED BY <1>6, <1>7, <1>8, <1>9

\* SetId and the look at the object change nothing in Keycloak.
LEMMA PassRun ==
  ASSUME IInv, RunInv, Glance \/ Record
  PROVE  RunInv'
<1>1. /\ todo # <<>> /\ Head(todo) \in {"glance", "record"} /\ Quiet /\ outcome' \in {outcome, "none"} /\ op' = op
      /\ op \in {"create", "update"} /\ UNCHANGED <<objects, peer, handle>>
  BY GlanceTyped, RecordTyped DEF IInv, Kept, keycloak
<1>2. todo \in Seq(Instructions)
  BY <1>1, Running DEF IInv
<1> SUFFICES ASSUME Undisturbed, outcome = "calm", Writing, Whole
             PROVE  /\ shape.lookup = "forgets" => Has(todo', "check") \/ peer'
                    /\ ReachInv' /\ ValueInv' /\ StateInv'
  BY <1>1, RunningRun
<1>3. todo' = Tail(todo) /\ UNCHANGED <<conf, shape>> /\ Class' = Class
  BY <1>1 DEF Glance, Record, Fault, Undisturbed, Advance, Quiet, Class
<1>4. ReachInv /\ ValueInv /\ StateInv /\ PeerInv
  BY DEF RunInv, WritingInv
<1>5. op = "update" => state.id # 0
  BY <1>1 DEF IInv, Progress, UpdateProgress
<1>6. /\ Has(todo, "check") => Has(todo', "check")
      /\ HasOne(todo, Reaching) => HasOne(todo', Reaching)
      /\ Has(todo, "record") => Has(todo', "record") \/ Head(todo) = "record"
  BY <1>1, <1>2, <1>3, HasTail, HasOneTail DEF Reaching, Creating
<1>7. \/ state' = state /\ Head(todo) = "glance"
      \/ state' = [id |-> IF shape.named THEN 1 ELSE IF op = "create" THEN handle ELSE state.id,
                   val |-> Planned, tainted |-> FALSE] /\ state'.id # 0
  BY RecordTyped DEF Glance, At, IInv
<1>8. StateInv'
  <2>1. CASE state' = state /\ Head(todo) = "glance"
    BY <1>1, <1>3, <1>4, <1>6, <2>1 DEF StateInv
  <2>2. CASE state' = [id |-> IF shape.named THEN 1 ELSE IF op = "create" THEN handle ELSE state.id,
                   val |-> Planned, tainted |-> FALSE] /\ state'.id # 0
    <3>1. Class \in Written(conf.val) => Planned = conf.val
      BY <1>4, <1>5 DEF Planned, Writing, StateInv
    <3> QED BY <1>1, <1>3, <2>2, <3>1 DEF StateInv
  <2> QED BY <1>7, <2>1, <2>2
<1>9. Current' = Current
  <2>1. Live' = Live /\ Planned' = Planned
    BY <1>1, <1>3, <1>7 DEF Live, Planned
  <2>2. Homonyms(Planned)' = Homonyms(Planned)
    BY <1>1, <1>3, <2>1 DEF Homonyms
  <2>3. shape.named \/ (IF op = "create" THEN handle ELSE state.id)' = (IF op = "create" THEN handle ELSE state.id)
    BY <1>1, <1>7
  <2> QED BY <1>1, <1>3, <2>1, <2>2, <2>3 DEF Current, Target
<1>10. ReachInv'
  BY <1>4, <1>6, <1>9 DEF ReachInv
<1>11. ValueInv'
  <2>1. /\ Carries(todo, Class, conf.val) => Carries(todo', Class, conf.val)
        /\ Unspoilt(todo, Class, conf.val) => Unspoilt(todo', Class, conf.val)
    BY <1>1, <1>2, <1>3, CarriesTail DEF Brings
  <2> QED BY <1>1, <1>3, <1>4, <1>9, <2>1 DEF ValueInv
<1>12. shape.lookup = "forgets" => Has(todo', "check") \/ peer'
  BY <1>1, <1>4, <1>6 DEF PeerInv
<1> QED BY <1>8, <1>10, <1>11, <1>12

\* The object at hand when nothing is ahead but Read, or nothing at all, is the one in the state.
LEMMA HandTracked ==
  ASSUME TypeOK, StateInv, Writing, ~Has(todo, "record"),
         Class \in InURL => state.val = conf.val
  PROVE  state.id # 0 /\ Found = Current /\ Tracked = Current
<1>1. state.id # 0
  BY DEF StateInv
<1>2. PICK v : v = state.val
  OBVIOUS
<1>3. Found = Target(state.id, v)
  BY <1>2 DEF Found, Target
<1>4. CASE op = "update"
  BY <1>1, <1>2, <1>3, <1>4 DEF Current, Planned, Tracked, Target
<1>5. CASE op = "create"
  <2>1. Homonyms(conf.val) = Homonyms(state.val)
    BY DEF Homonyms
  <2>2. shape.named \/ state.id = handle
    BY <1>1, <1>5 DEF StateInv
  <2>3. Found = Current
    BY <1>5, <2>1, <2>2 DEF Found, Current, Planned, Target
  <2> QED BY <1>1, <2>3 DEF Tracked
<1> QED BY <1>4, <1>5 DEF Writing

\* Read at the end finds the object, and in it what was configured.
LEMMA ReadBackRun ==
  ASSUME IInv, RunInv, ReadBack
  PROVE  RunInv'
<1>1. /\ todo # <<>> /\ Head(todo) = "read" /\ Quiet /\ outcome' \in {outcome, "none"} /\ op' \in {op, "idle"}
      /\ op \in {"create", "update"} /\ UNCHANGED <<objects, peer>> /\ state.id # 0
      /\ Fail \/ (todo' = <<>> /\ UNCHANGED <<op, handle>> /\ (Reads \/ Misreads))
  BY ReadBackTyped DEF IInv, Kept, keycloak, Fail
<1>2. todo \in Seq(Instructions) /\ Tail(todo) = <<>> /\ TypeOK
  BY <1>1, Running, ProgramTail DEF IInv, Progress
<1> SUFFICES ASSUME Undisturbed, outcome = "calm", Writing, Whole
             PROVE  /\ shape.lookup = "forgets" => Has(todo', "check") \/ peer'
                    /\ ReachInv' /\ ValueInv' /\ StateInv'
  BY <1>1, RunningRun
<1>3. todo' = <<>> /\ UNCHANGED <<op, handle, conf, shape>> /\ Class' = Class /\ Reads
  BY <1>1 DEF Fail, Misreads, Fault, Undisturbed, Quiet, Class
<1>4. ReachInv /\ ValueInv /\ StateInv /\ PeerInv
  BY DEF RunInv, WritingInv
<1>5. /\ ~Has(todo, "check") /\ ~HasOne(todo, Reaching) /\ ~Has(todo, "record")
      /\ \A c, v : ~Carries(todo, c, v)
  <2>1. ~Has(Tail(todo), "check") /\ ~HasOne(Tail(todo), Reaching) /\ ~Has(Tail(todo), "record")
    BY <1>2, EmptyProgram DEF HasOne
  <2>2. \A c, v : ~Carries(Tail(todo), c, v)
    BY <1>2, NothingCarried
  <2> QED BY <1>1, <1>2, <2>1, <2>2, HasTail, HasOneTail, CarriesTail DEF Reaching, Creating, Brings
<1>6. Class \in InURL => state.val = conf.val
  BY <1>1, <1>4 DEF StateInv, InURL, Written, Compared
<1>7. Found = Current /\ Found # {}
  BY <1>2, <1>4, <1>5, <1>6, HandTracked DEF ReachInv
<1>8. shape.lookup = "forgets" => peer
  BY <1>4, <1>5 DEF PeerInv
<1>9. /\ state' = [state EXCEPT !.val = ReadValue(objects[The(Found)])]
      /\ Class \in InURL => ReadValue(objects[The(Found)]) = state.val
  <2>1. ~Forgets
    BY <1>7, <1>8 DEF Forgets
  <2>2. state' = [state EXCEPT !.val = ReadValue(objects[The(Found)])]
    BY <1>3, <1>7, <2>1 DEF Reads
  <2>3. Class \in InURL => ReadValue(objects[The(Found)]) = state.val
    BY DEF ReadValue, InURL, Retained
  <2> QED BY <2>2, <2>3
<1>10. Class \in Written(conf.val) => ReadValue(objects[The(Found)]) = conf.val
  <2> SUFFICES ASSUME Class \in Written(conf.val) PROVE ReadValue(objects[The(Found)]) = conf.val
    OBVIOUS
  <2>1. state.val = conf.val
    BY <1>1, <1>4 DEF StateInv
  <2>2. CASE Class \in InURL
    BY <1>9, <2>1, <2>2
  <2>3. CASE Class \notin InURL
    <3>1. \A o \in Current : objects[o].val = conf.val
      BY <1>4, <1>5, <2>3 DEF ValueInv
    <3>2. objects[The(Found)].val = conf.val
      BY <1>7, <3>1 DEF The
    <3> QED BY <2>1, <3>2 DEF ReadValue
  <2> QED BY <2>2, <2>3
<1>11. state'.id = state.id /\ state'.tainted = state.tainted /\ state'.val = ReadValue(objects[The(Found)])
  BY <1>2, <1>9 DEF TypeOK
<1>12. StateInv'
  BY <1>1, <1>3, <1>4, <1>10, <1>11 DEF StateInv
<1>13. Current' = Current
  <2>1. Live' = Live
    BY <1>1 DEF Live
  <2>2. Class \in InURL => Planned' = Planned
    BY <1>3, <1>9, <1>11 DEF Planned
  <2>3. Homonyms(Planned)' = Homonyms(Planned)
    BY <1>1, <1>3, <2>1, <2>2 DEF Homonyms
  <2> QED BY <1>3, <1>11, <2>3 DEF Current, Target
<1>14. ReachInv'
  BY <1>7, <1>13 DEF ReachInv
<1>15. ValueInv'
  <2>1. Unspoilt(todo', Class, conf.val)
    BY <1>3 DEF Unspoilt
  <2> QED BY <1>1, <1>3, <1>4, <1>5, <1>13, <2>1 DEF ValueInv
<1> QED BY <1>1, <1>8, <1>12, <1>14, <1>15

LEMMA RemovesRun ==
  ASSUME IInv, RunInv, Removes
  PROVE  RunInv'
<1>1. Quiet /\ outcome' \in {outcome, "none"} /\ op' \in {op, "idle"} /\ op \in {"delete", "replace"}
  BY RemovesTyped DEF IInv, Removes, Kept, Fail
<1> QED BY <1>1, RunningRun DEF Writing

-----------------------------------------------------------------------------
(* The steps of a run                                                      *)

\* A Create that begins has all its calls ahead.
LEMMA CreateBegins ==
  ASSUME TypeOK, conf.want, op' = "create", todo' = CreateProgram, ~state'.tainted, state'.id = 0,
         UNCHANGED <<shape, conf>>, outcome' \notin {"applied", "nothing"}
  PROVE  RunInv'
<1>1. (Whole' <=> Whole) /\ Class' = Class
  BY DEF Whole, Class
<1>2. shape \in Shapes /\ conf.val \in {0, 1}
  BY DEF TypeOK
<1>3. Has(CreateProgram, "record")
  BY <1>2, ProgramFacts DEF IsCreate
<1>4. WantInv' /\ AppliedAgrees'
  BY DEF WantInv, AppliedAgrees
<1>5. PeerInv'
  BY <1>1, <1>2, CompleteFacts DEF PeerInv
<1>6. ASSUME Whole PROVE ReachInv' /\ ValueInv' /\ StateInv'
  <2>1. ReachInv'
    BY <1>2, <1>6, CompleteFacts DEF ReachInv
  <2>2. ValueInv'
    BY <1>1, <1>2, <1>6, CompleteFacts DEF ValueInv
  <2>3. StateInv'
    BY <1>3 DEF StateInv
  <2> QED BY <2>1, <2>2, <2>3
<1>7. WritingInv'
  BY <1>1, <1>6 DEF WritingInv
<1> QED BY <1>4, <1>5, <1>7 DEF RunInv

LEMMA RefreshRun ==
  ASSUME IInv, RunInv, Refresh
  PROVE  RunInv'
<1>1. /\ UNCHANGED <<objects, peer, shape, conf>> /\ op = "idle" /\ op' \in {"idle", "plan"}
      /\ outcome' \in {"none", "calm", "imported"}
  BY DEF Refresh, keycloak, Quiet, Fault, Misreads
<1>2. WantInv' /\ AppliedAgrees' /\ WritingInv'
  BY <1>1 DEF WantInv, AppliedAgrees, WritingInv, Writing
<1>3. PeerInv'
  <2> SUFFICES ASSUME shape.lookup = "forgets", op' = "plan", outcome' # "none", state'.id # 0, ~state'.tainted
               PROVE  peer
    BY <1>1 DEF PeerInv, Writing
  <2>1. IF state.id = 0 THEN state' = state ELSE Reads
    BY <1>1 DEF Refresh, Misreads, Fault
  <2>2. Reads /\ ~Forgets /\ Found # {}
    <3>1. Reads
      BY <2>1
    <3>2. ~Forgets
      BY <3>1 DEF Reads, Nothing
    <3>3. CASE Found = {}
      <4>1. state' = [state EXCEPT !.tainted = TRUE]
        BY <3>1, <3>2, <3>3 DEF Reads
      <4> QED BY <4>1 DEF IInv, TypeOK
    <3> QED BY <3>1, <3>2, <3>3
  <2> QED BY <2>2 DEF Forgets
<1> QED BY <1>2, <1>3 DEF RunInv

LEMMA PlanRun ==
  ASSUME IInv, RunInv, PlanCreate \/ PlanUpdate \/ PlanReplace \/ PlanDelete \/ PlanNothing
  PROVE  RunInv'
<1>1. /\ op = "plan" /\ UNCHANGED <<objects, peer, shape, conf>> /\ Class' = Class /\ (Whole' <=> Whole) /\ TypeOK
      /\ outcome \notin {"applied", "nothing"}
  BY DEF PlanCreate, PlanUpdate, PlanReplace, PlanDelete, PlanNothing, Begin, keycloak, Quiet, Class, Whole, IInv, PlanInv
<1>2. CASE PlanCreate
  BY <1>1, <1>2, CreateBegins DEF PlanCreate, Begin, TypeOK, Starts
<1>3. CASE PlanUpdate
  <2>1. /\ op' = "update" /\ todo' = shape.update /\ state' = [state EXCEPT !.val = conf.val] /\ conf.want
        /\ state.id # 0 /\ Differs /\ ~MustReplace
        /\ outcome' = IF outcome = "imported" THEN "calm" ELSE outcome
    BY <1>3 DEF PlanUpdate, Begin, Starts
  <2>2. ~state.tainted /\ Class \notin Replacing /\ shape \in Shapes /\ conf.val \in {0, 1}
    BY <1>1, <2>1 DEF MustReplace, TypeOK
  <2>3. state'.id = state.id /\ state'.val = conf.val /\ ~state'.tainted
    BY <1>1, <2>1, <2>2 DEF TypeOK
  <2>4. WantInv' /\ AppliedAgrees'
    BY <1>1, <2>1 DEF WantInv, AppliedAgrees
  <2>5. ASSUME outcome' = "calm", shape.lookup = "forgets" PROVE peer
    <3>1. outcome # "none"
      BY <2>1, <2>5
    <3> QED BY <1>1, <2>1, <2>2, <2>5, <3>1 DEF RunInv, PeerInv
  <2>6. PeerInv'
    BY <1>1, <2>1, <2>5 DEF PeerInv
  <2>7. ASSUME outcome' = "calm", Whole PROVE ReachInv' /\ ValueInv' /\ StateInv'
    <3>1. StateInv'
      BY <1>1, <2>1, <2>3 DEF StateInv
    <3>2. ValueInv'
      BY <1>1, <2>1, <2>2, <2>7, CompleteFacts DEF ValueInv
    <3>3. ReachInv'
      <4>1. CASE Class = "movable"
        BY <2>1, <2>2, <2>7, <4>1, CompleteFacts DEF ReachInv
      <4>2. CASE Class # "movable"
        <5>1. Class \notin InURL
          BY <2>2, <4>2 DEF InURL, Replacing
        <5>2. Found # {}
          BY <1>1, <2>1, <2>2, <2>7 DEF IInv, PlanInv
        <5>3. Found' = Found
          BY <1>1, <2>3, <5>1, SameFound
        <5>4. Current' = Found'
          BY <2>1 DEF Current, Found, Planned, Target
        <5> QED BY <5>2, <5>3, <5>4 DEF ReachInv
      <4> QED BY <4>1, <4>2
    <3> QED BY <3>1, <3>2, <3>3
  <2>8. WritingInv'
    BY <1>1, <2>7 DEF WritingInv
  <2> QED BY <2>4, <2>6, <2>8 DEF RunInv
<1>4. CASE PlanReplace \/ PlanDelete \/ PlanNothing
  <2>1. /\ op' \in {"replace", "delete", "idle"} /\ outcome' # "applied"
        /\ (op' = "replace" => conf.want) /\ (op' = "delete" => ~conf.want)
    BY <1>1, <1>4 DEF PlanReplace, PlanDelete, PlanNothing, Begin, Starts
  <2>2. WantInv' /\ AppliedAgrees' /\ PeerInv' /\ WritingInv'
    BY <1>1, <2>1 DEF WantInv, AppliedAgrees, PeerInv, WritingInv, Writing
  <2> QED BY <2>2 DEF RunInv
<1> QED BY <1>2, <1>3, <1>4

\* The end of an operation: nothing is ahead, so everything is done.
LEMMA AppliedRun ==
  ASSUME IInv, RunInv, Applied
  PROVE  RunInv'
<1>1. /\ op \in {"create", "update", "delete"} /\ todo = <<>> /\ op' = "idle" /\ UNCHANGED <<objects, peer, shape, conf>>
      /\ state' = (IF op = "delete" THEN Nothing ELSE state) /\ outcome' = IF outcome = "calm" THEN "applied" ELSE "none"
      /\ Class' = Class /\ (Whole' <=> Whole) /\ TypeOK
  BY DEF Applied, Ends, keycloak, Quiet, Class, Whole, IInv
<1>2. WantInv' /\ PeerInv' /\ WritingInv'
  BY <1>1 DEF WantInv, PeerInv, WritingInv, Writing
<1>3. AppliedAgrees'
  <2> SUFFICES ASSUME outcome = "calm", Whole PROVE Agrees(Written(conf.val))'
    BY <1>1 DEF AppliedAgrees, Whole
  <2>1. CASE op = "delete"
    BY <1>1, <2>1 DEF RunInv, WantInv, Agrees, Nothing
  <2>2. CASE Writing
    <3>1. ReachInv /\ ValueInv /\ StateInv /\ conf.want
      BY <2>2 DEF RunInv, WritingInv, WantInv, Writing
    <3>2. state' = state /\ ~Has(todo, "record") /\ ~HasOne(todo, Reaching) /\ \A c, v : ~Carries(todo, c, v)
      BY <1>1, <2>2, EmptyProgram, NothingCarried DEF HasOne, Writing
    <3>3. state.id # 0 /\ ~state.tainted /\ (Class \in Written(conf.val) => state.val = conf.val)
      BY <3>1, <3>2 DEF StateInv
    <3>4. Class \in InURL => state.val = conf.val
      BY <3>3 DEF InURL, Written, Compared
    <3>5. Tracked = Current /\ Found = Current /\ Tracked # {}
      BY <1>1, <2>2, <3>1, <3>2, <3>4, HandTracked DEF ReachInv
    <3>6. Class \in Written(conf.val) => objects[The(Tracked)].val = conf.val
      <4>1. The(Tracked) \in Current
        BY <3>5 DEF The
      <4>2. CASE Class \in InURL
        BY <3>4, <3>5, <4>1, <4>2 DEF Found, Target, Homonyms
      <4>3. CASE Class \notin InURL
        BY <3>1, <3>2, <4>1, <4>3 DEF ValueInv
      <4> QED BY <4>2, <4>3
    <3>7. Tracked' = Tracked
      <4>1. Found' = Found
        BY <1>1, <3>2, SameFound
      <4> QED BY <3>2, <4>1 DEF Tracked
    <3>8. The(Tracked)' = The(Tracked)
      BY <3>7 DEF The
    <3> QED BY <1>1, <3>1, <3>2, <3>3, <3>5, <3>6, <3>7, <3>8 DEF Agrees
  <2> QED BY <1>1, <2>1, <2>2 DEF Writing
<1> QED BY <1>2, <1>3 DEF RunInv

LEMMA DestroyedRun ==
  ASSUME IInv, RunInv, Destroyed
  PROVE  RunInv'
<1>1. /\ op = "replace" /\ op' = "create" /\ todo' = CreateProgram /\ state' = Nothing /\ outcome' = outcome
      /\ UNCHANGED <<shape, conf>>
  BY DEF Destroyed, Ends, Quiet
<1>2. conf.want /\ outcome \notin {"applied", "nothing"} /\ TypeOK
  BY <1>1 DEF RunInv, WantInv, IInv, PlanInv
<1> QED BY <1>1, <1>2, CreateBegins DEF Nothing

\* After what everyone else does, nobody knows how the run goes; edits and imports are
\* made when none is under way.
LEMMA OthersRun ==
  ASSUME IInv, RunInv, Configure \/ Import \/ AdminDeletes \/ AdminSets \/ PeerChanges
  PROVE  RunInv'
<1>1. CASE Configure \/ Import
  <2>1. op = "idle" /\ op' = op /\ outcome' \in {"none", "imported"}
    BY <1>1 DEF Configure, Import, Author, run
  <2> QED BY <2>1 DEF RunInv, WantInv, PeerInv, WritingInv, AppliedAgrees, Writing
<1>2. CASE AdminDeletes \/ AdminSets \/ PeerChanges
  <2>1. op' = op /\ conf' = conf /\ outcome' = "none"
    BY <1>2 DEF AdminDeletes, AdminSets, PeerChanges, Outside, run
  <2> QED BY <2>1 DEF RunInv, WantInv, PeerInv, WritingInv, AppliedAgrees
<1> QED BY <1>1, <1>2

-----------------------------------------------------------------------------
(* The invariant and the theorem                                           *)

LEMMA InitRun == Init => RunInv
BY DEF Init, RunInv, WantInv, PeerInv, WritingInv, AppliedAgrees

LEMMA NextRun == IInv /\ RunInv /\ [Next]_vars => RunInv'
<1> SUFFICES ASSUME IInv, RunInv, [Next]_vars PROVE RunInv'
  OBVIOUS
<1>1. TypeOK /\ NamedIsUnique /\ Progress
  BY DEF IInv
<1>2. CASE Check \/ Extra \/ Guard \/ PutWhole \/ Merge \/ Part \/ Add \/ Clear \/ Strip \/ Once \/ Reset \/ Wipe
  BY <1>1, <1>2, PlainSteps, PlainSets, PlainRun
<1>3. CASE Post \/ Enable \/ Find
  BY <1>1, <1>3, ObtainSteps, ObtainsGives, ObtainsRun
<1>4. CASE Delete \/ Again \/ Remove
  BY <1>1, <1>4, RemoveSteps, RemovesRun
<1>5. CASE Glance \/ Record
  BY <1>5, PassRun
<1>6. CASE ReadBack
  BY <1>6, ReadBackRun
<1>7. CASE Refresh
  BY <1>7, RefreshRun
<1>8. CASE PlanCreate \/ PlanUpdate \/ PlanReplace \/ PlanDelete \/ PlanNothing
  BY <1>8, PlanRun
<1>9. CASE Applied \/ Destroyed
  BY <1>9, AppliedRun, DestroyedRun
<1>10. CASE Configure \/ Import \/ AdminDeletes \/ AdminSets \/ PeerChanges
  BY <1>10, OthersRun
<1>11. CASE UNCHANGED vars
  <2>1. UNCHANGED <<shape, unique, objects, peer, conf, state, op, todo, handle, outcome, lost, events>>
    BY <1>11 DEF vars, keycloak, run
  <2>2. Found' = Found /\ Current' = Current /\ Class' = Class /\ (Whole' <=> Whole)
    BY <2>1, SameFound DEF Current, Target, Homonyms, Live, Planned, Class, Whole
  <2>3. WantInv' /\ PeerInv'
    BY <2>1, <2>2 DEF RunInv, WantInv, PeerInv, Writing
  <2>4. WritingInv'
    BY <2>1, <2>2 DEF RunInv, WritingInv, Writing, ReachInv, ValueInv, StateInv
  <2>5. AppliedAgrees'
    BY <2>1, <2>2 DEF RunInv, AppliedAgrees, Agrees, Tracked, The
  <2> QED BY <2>3, <2>4, <2>5 DEF RunInv
<1> QED BY <1>2, <1>3, <1>4, <1>5, <1>6, <1>7, <1>8, <1>9, <1>10, <1>11 DEF Next, Terraform

\* When a run has ended without an error, undisturbed, a configured resource is in the state,
\* untainted, and Keycloak holds its object with the value configured, whatever calls Create
\* and Update split their writes into.
THEOREM AppliedCorrect == Spec => []AppliedAgrees
<1>1. Init => RunInv
  BY InitRun
<1>2. IInv /\ RunInv /\ [Next]_vars => RunInv'
  BY NextRun
<1>3. RunInv => AppliedAgrees
  BY DEF RunInv
<1> QED BY <1>1, <1>2, <1>3, Invariant, PTL DEF Spec
=============================================================================

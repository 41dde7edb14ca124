----------------------------- MODULE ResourceKind -----------------------------
(***************************************************************************)
(* How a resource type of the provider is described.  Every resource file  *)
(* of provider/ is the same kind of program: a schema, a Read that copies  *)
(* what Keycloak answers into the state, and a Create, an Update and a     *)
(* Delete that are each a fixed sequence of API calls.  What tells the     *)
(* types apart is what becomes of each attribute, which calls are made in  *)
(* which order, and what Read does when the object is gone.  The modules   *)
(* named ...Kinds give one such record for each type; ResourceLifecycle    *)
(* runs them.                                                              *)
(***************************************************************************)
EXTENDS Naturals, Sequences

\* What becomes of an attribute.
Classes == {
  "address",   \* part of the object's URL; a change replaces the object
  "movable",   \* part of the object's URL, but a change is an update
  "fixed",     \* sent by the POST, read; a change replaces the object
  "synced",    \* sent by POST and PUT, read
  "kept",      \* sent by POST and PUT; an empty answer leaves the state as it was
  "omitted",   \* sent by POST and PUT unless empty, when Keycloak leaves it; read
  "blind",     \* sent by POST and PUT, never read
  "inert",     \* never sent, never read
  "late",      \* not in the POST: sent by a second call; read
  "sticky",    \* sent by a second call, if it is configured; read as kept is
  "once",      \* sent by an extra call of Create, later changes suppressed
  "echoed",    \* sent by POST and PUT, read only if it is in the state
  "lingering", \* like late, but read as kept is
  "observed",  \* never sent, but read
  "steering"}  \* for the provider alone; a change replaces, Import resets it

InURL == {"address", "movable"}
Put == {"synced", "kept", "blind", "echoed"}
Posted == InURL \cup {"fixed", "omitted"} \cup Put
Partly == {"late", "lingering"}
Replacing == {"address", "fixed", "steering"}
\* An answer without the attribute leaves these as they were.
Retained == {"kept", "sticky", "lingering"}

\* The classes whose value Read compares with Keycloak whatever the state says,
\* and those of which the value v is brought to Keycloak by some write.
Compared == {"address", "movable", "fixed", "synced", "omitted", "late"}
Written(v) ==
  IF v = 1 THEN Compared \cup Retained \cup {"blind", "echoed"}
  ELSE (Compared \ {"omitted"}) \cup {"kept", "lingering", "blind", "echoed"}

\* The steps the three programs are made of.
Instructions == {
  "check",     \* read or validate an object the resource refers to
  "glance",    \* look at the object; if that fails, skip what would be written
  "extra",     \* any other call
  "guard",     \* refuse if another object has the name (client side)
  "post",      \* create
  "enable",    \* create unless it is there
  "find",      \* look the object up by name and take it
  "put",       \* write it whole
  "merge",     \* write the configured attributes over those it has
  "part",      \* write the part that has a call of its own
  "add",       \* add to such a part what is configured
  "clear",     \* remove from that part what is not configured
  "strip",     \* remove all of that part, if some of it is configured
  "wipe",      \* remove all of that part, without looking at the answer
  "once",      \* the extra call of Create
  "record",    \* SetId: the state knows the object from here on
  "read",      \* Read
  "delete",    \* remove
  "again",     \* remove, a second time if the first failed
  "remove",    \* remove; an object that is not there is no error
  "reset"}     \* write the defaults back

\* For each class, the attributes, and the usual programs.  computed: the attributes
\* of any class that are Keycloak's to choose while none is configured.  adopting: Create when
\* the resource takes an existing object over (there is no Delete then).  gone:
\* what Read does when the object is not there; lookup: when an object it refers
\* to is not there; failure: when a GET fails.  named: is the id a name rather
\* than one Keycloak generates.
Resource == [
  address |-> {}, movable |-> {}, fixed |-> {}, synced |-> {}, kept |-> {}, omitted |-> {},
  blind |-> {}, inert |-> {}, late |-> {}, sticky |-> {}, once |-> {}, echoed |-> {}, lingering |-> {},
  observed |-> {}, steering |-> {}, computed |-> {},
  create |-> <<"post", "record", "read">>, update |-> <<"put", "read">>, delete |-> <<"delete">>,
  adopting |-> <<>>, gone |-> "forgets", lookup |-> "none", failure |-> "fails",
  named |-> FALSE, importable |-> TRUE]

\* The resource type as it is once its Create takes an existing object over: what
\* was fixed (the username) is then what the object is found by.
Adopted(k) == [k EXCEPT
  !.create = k.adopting, !.delete = <<>>, !.adopting = <<>>, !.steering = {},
  !.address = k.address \cup k.fixed, !.fixed = {}]

\* The steps that give Create its object, those that take it away, and those that
\* end without an error only if there is one.
Creating == {"post", "enable", "find"}
Removing == {"delete", "again", "remove"}
Reaching == Creating \cup {"put", "merge", "part", "add", "clear", "strip", "once", "reset"}

Has(program, i) == \E n \in DOMAIN program : program[n] = i
HasOne(program, S) == \E i \in S : Has(program, i)
Precedes(program, i, j) == \A m, n \in DOMAIN program : program[m] = i /\ program[n] = j => m < n

\* Read comes last; one call creates the object, with the look for a namesake before
\* it, and SetId and what leads there after it.
IsProgram(p) ==
  /\ p \in Seq(Instructions)
  /\ \A n \in DOMAIN p : p[n] = "read" => n = Len(p)
  /\ \A m, n \in DOMAIN p : p[m] \in Creating /\ p[n] \in Creating => m = n
  /\ \A i \in Creating, j \in {"record", "glance"} : Precedes(p, i, j)
  /\ Precedes(p, "guard", "post")

\* Create sets the id; unless that is a name, there is a call it comes from.
IsCreate(k, p) ==
  IsProgram(p) /\ Has(p, "record") /\ ~HasOne(p, Removing) /\ (k.named \/ HasOne(p, Creating))

\* Update creates at most what is known by its name.
IsUpdate(k, p) ==
  IsProgram(p) /\ ~HasOne(p, Removing \cup {"post", "find"}) /\ (Has(p, "enable") => k.named)

IsDelete(p) == IsProgram(p) /\ ~HasOne(p, Creating \cup {"record", "read", "glance"})

\* The steps after which Keycloak has the value v of an attribute of class c, and those
\* after which it may have another.
Brings(i, c, v) ==
  \/ i = "post" /\ (c \in Posted \/ v = 0)
  \/ i = "put" /\ (c \in Put \/ (c = "omitted" /\ v = 1))
  \/ i = "part" /\ c \in Partly
  \/ i = "add" /\ c \in Partly \cup {"sticky"} /\ v = 1
  \/ i \in {"clear", "wipe"} /\ c \in Partly /\ v = 0
Spoils(i, c, v) ==
  \/ i \in Creating
  \/ v = 1 /\ ((i \in {"strip", "wipe"} /\ c \in Partly) \/ (i = "reset" /\ c \in Put \cup Partly))

Carries(p, c, v) ==
  \E n \in DOMAIN p : Brings(p[n], c, v) /\ \A m \in DOMAIN p : Spoils(p[m], c, v) => m <= n

\* Create and Update reach the object, look for what Read will look up, and carry what is
\* configured to Keycloak.
IsComplete(k) ==
  /\ \A p \in {k.create, k.adopting} \ {<<>>} :
       HasOne(p, Reaching) /\ (k.lookup = "forgets" => Has(p, "check"))
  /\ k.movable # {} => HasOne(k.update, Reaching)
  /\ \A v \in {0, 1} : \A c \in Written(v) \ InURL : k[c] # {} =>
       Carries(k.create, c, v) /\ (c \notin Replacing => Carries(k.update, c, v))

IsResource(k) ==
  /\ DOMAIN k = DOMAIN Resource
  /\ \A c, d \in Classes : c # d => k[c] \cap k[d] = {}
  /\ k.computed \subseteq UNION {k[c] : c \in Classes}
  /\ IsCreate(k, k.create) /\ IsUpdate(k, k.update) /\ IsDelete(k.delete)
  /\ k.adopting # <<>> => k.steering # {} /\ IsCreate(k, k.adopting)
  /\ Has(k.create, "guard") /\ Has(k.adopting, "post") => Has(k.adopting, "guard")
  /\ Has(k.create, "merge") \/ IsComplete(k)
  /\ k.gone \in {"forgets", "fails", "blanks"} /\ k.lookup \in {"none", "forgets", "fails"}
  /\ k.failure \in {"fails", "forgets"}
  /\ k.named \in BOOLEAN /\ k.importable \in BOOLEAN
=============================================================================

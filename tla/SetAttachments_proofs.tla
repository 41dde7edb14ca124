------------------------ MODULE SetAttachments_proofs ------------------------
(***************************************************************************)
(* What the resources that own a whole set attach and detach, for any set  *)
(* of items, pages of any size and any number of events.                   *)
(***************************************************************************)
EXTENDS SetAttachments, TLAPS, FiniteSetTheorems, WellFoundedInduction

-----------------------------------------------------------------------------
(* What is left of a program.                                              *)

Labels == {"list", "read", "resolveSurplus", "detach", "resolveMissing", "attach", "claim", "verify", "compare",
           "try", "organization"}

Ahead(t, l) == \E n \in 1..Len(t) : t[n] = l

Precedes(t, k, l) == \A m, n \in 1..Len(t) : t[m] = k /\ t[n] = l => m < n

\* No label comes twice; items are listed before they are compared, attached or
\* detached, and read last.
Orderly(t) ==
  /\ \A m, n \in 1..Len(t) : t[m] = t[n] => m = n
  /\ Precedes(t, "list", "detach") /\ Precedes(t, "list", "attach") /\ Precedes(t, "list", "compare")
  /\ Precedes(t, "detach", "verify") /\ Precedes(t, "verify", "attach")
  /\ Precedes(t, "attach", "try") /\ Precedes(t, "detach", "try")
  /\ Precedes(t, "attach", "organization") /\ Precedes(t, "detach", "organization")
  /\ \A n \in 1..Len(t) : t[n] = "read" => n = Len(t)

LEMMA NothingAhead == \A l : ~Ahead(<<>>, l)
BY DEF Ahead

LEMMA EmptyOrderly == <<>> \in Seq(Labels) /\ Orderly(<<>>)
BY DEF Orderly, Precedes

\* A step on: what is ahead afterwards.
LEMMA TailAhead ==
  ASSUME NEW t \in Seq(Labels), t # <<>>
  PROVE  /\ Tail(t) \in Seq(Labels) /\ Head(t) \in Labels
         /\ \A l : Ahead(t, l) <=> (l = Head(t) \/ Ahead(Tail(t), l))
<1>1. /\ Tail(t) \in Seq(Labels) /\ Head(t) \in Labels /\ Head(t) = t[1] /\ Len(t) \in Nat \ {0}
      /\ Len(Tail(t)) = Len(t) - 1 /\ \A n \in 1..Len(Tail(t)) : Tail(t)[n] = t[n + 1]
  OBVIOUS
<1>2. ASSUME NEW l, Ahead(t, l) PROVE l = Head(t) \/ Ahead(Tail(t), l)
  <2>1. PICK n \in 1..Len(t) : t[n] = l
    BY <1>2 DEF Ahead
  <2>2. CASE n = 1
    BY <1>1, <2>1, <2>2
  <2>3. CASE n # 1
    <3>1. n - 1 \in 1..Len(Tail(t)) /\ Tail(t)[n - 1] = l
      BY <1>1, <2>1, <2>3
    <3> QED BY <3>1 DEF Ahead
  <2> QED BY <2>2, <2>3
<1>3. ASSUME NEW l, Ahead(Tail(t), l) PROVE Ahead(t, l)
  <2>1. PICK n \in 1..Len(Tail(t)) : Tail(t)[n] = l
    BY <1>3 DEF Ahead
  <2>2. n + 1 \in 1..Len(t) /\ t[n + 1] = l
    BY <1>1, <2>1
  <2> QED BY <2>2 DEF Ahead
<1>4. Ahead(t, Head(t))
  <2>1. 1 \in 1..Len(t)
    BY <1>1
  <2> QED BY <1>1, <2>1 DEF Ahead
<1> QED BY <1>1, <1>2, <1>3, <1>4

LEMMA TailPrecedes ==
  ASSUME NEW t \in Seq(Labels), t # <<>>, NEW k, NEW l, Precedes(t, k, l)
  PROVE  Precedes(Tail(t), k, l) /\ (Head(t) = l => ~Ahead(Tail(t), k))
<1>1. /\ Tail(t) \in Seq(Labels) /\ Head(t) = t[1] /\ Len(t) \in Nat \ {0}
      /\ Len(Tail(t)) = Len(t) - 1 /\ \A n \in 1..Len(Tail(t)) : Tail(t)[n] = t[n + 1]
  OBVIOUS
<1>2. \A n \in 1..Len(Tail(t)) : n + 1 \in 1..Len(t)
  BY <1>1
<1>3. Precedes(Tail(t), k, l)
  <2> SUFFICES ASSUME NEW m \in 1..Len(Tail(t)), NEW n \in 1..Len(Tail(t)), Tail(t)[m] = k, Tail(t)[n] = l
               PROVE m < n
    BY DEF Precedes
  <2>1. m + 1 < n + 1
    BY <1>1, <1>2 DEF Precedes
  <2> QED BY <2>1, <1>1
<1>4. ASSUME Head(t) = l, Ahead(Tail(t), k) PROVE FALSE
  <2>1. PICK n \in 1..Len(Tail(t)) : Tail(t)[n] = k
    BY <1>4 DEF Ahead
  <2>2. 1 \in 1..Len(t) /\ n + 1 \in 1..Len(t) /\ t[1] = l /\ t[n + 1] = k
    BY <1>1, <1>2, <1>4, <2>1
  <2>3. n + 1 < 1
    BY <2>2 DEF Precedes
  <2> QED BY <2>3, <1>1
<1> QED BY <1>3, <1>4

LEMMA TailOrderly ==
  ASSUME NEW t \in Seq(Labels), t # <<>>, Orderly(t)
  PROVE  LET u == Tail(t) IN
         /\ Orderly(u) /\ ~Ahead(u, Head(t))
         /\ Head(t) \in {"detach", "attach", "compare"} => ~Ahead(u, "list")
         /\ Head(t) = "verify" => ~Ahead(u, "detach")
         /\ Head(t) = "attach" => ~Ahead(u, "verify")
         /\ Head(t) \in {"try", "organization"} => ~Ahead(u, "attach") /\ ~Ahead(u, "detach")
         /\ Head(t) = "read" => u = <<>>
<1>1. /\ Tail(t) \in Seq(Labels) /\ Head(t) = t[1] /\ Len(t) \in Nat \ {0}
      /\ Len(Tail(t)) = Len(t) - 1 /\ \A n \in 1..Len(Tail(t)) : Tail(t)[n] = t[n + 1]
  OBVIOUS
<1>2. \A n \in 1..Len(Tail(t)) : n + 1 \in 1..Len(t)
  BY <1>1
<1>3. \A m, n \in 1..Len(t) : t[m] = t[n] => m = n
  BY DEF Orderly
<1>4. \A m, n \in 1..Len(Tail(t)) : Tail(t)[m] = Tail(t)[n] => m = n
  <2> SUFFICES ASSUME NEW m \in 1..Len(Tail(t)), NEW n \in 1..Len(Tail(t)), Tail(t)[m] = Tail(t)[n]
               PROVE m = n
    OBVIOUS
  <2>1. m + 1 = n + 1
    BY <1>1, <1>2, <1>3
  <2> QED BY <2>1, <1>1
<1>5. ~Ahead(Tail(t), Head(t))
  <2> SUFFICES ASSUME NEW n \in 1..Len(Tail(t)), Tail(t)[n] = Head(t) PROVE FALSE
    BY DEF Ahead
  <2>1. n + 1 \in 1..Len(t) /\ 1 \in 1..Len(t) /\ t[n + 1] = t[1]
    BY <1>1, <1>2
  <2>2. n + 1 = 1
    BY <2>1, <1>3
  <2> QED BY <2>2, <1>1
<1>6. \A n \in 1..Len(Tail(t)) : Tail(t)[n] = "read" => n = Len(Tail(t))
  <2> SUFFICES ASSUME NEW n \in 1..Len(Tail(t)), Tail(t)[n] = "read" PROVE n = Len(Tail(t))
    OBVIOUS
  <2>1. n + 1 \in 1..Len(t) /\ t[n + 1] = "read"
    BY <1>1, <1>2
  <2>2. \A k \in 1..Len(t) : t[k] = "read" => k = Len(t)
    BY DEF Orderly
  <2>3. n + 1 = Len(t)
    BY <2>1, <2>2
  <2> QED BY <2>3, <1>1
<1>7. Orderly(Tail(t))
  BY <1>4, <1>6, TailPrecedes DEF Orderly
<1>8. Head(t) = "read" => Tail(t) = <<>>
  <2> SUFFICES ASSUME Head(t) = "read" PROVE Tail(t) = <<>>
    OBVIOUS
  <2>1. 1 \in 1..Len(t) /\ t[1] = "read"
    BY <1>1
  <2>2. Len(t) = 1
    BY <2>1 DEF Orderly
  <2>3. Len(Tail(t)) = 0
    BY <2>2, <1>1
  <2>4. \A u \in Seq(Labels) : Len(u) = 0 => u = <<>>
    OBVIOUS
  <2> QED BY <2>3, <2>4, <1>1
<1>9. /\ Head(t) \in {"detach", "attach", "compare"} => ~Ahead(Tail(t), "list")
      /\ Head(t) = "verify" => ~Ahead(Tail(t), "detach")
      /\ Head(t) = "attach" => ~Ahead(Tail(t), "verify")
      /\ Head(t) \in {"try", "organization"} => ~Ahead(Tail(t), "attach") /\ ~Ahead(Tail(t), "detach")
  BY TailPrecedes DEF Orderly
<1> QED BY <1>5, <1>7, <1>8, <1>9

LEMMA ReconcileProgram ==
  LET p == <<"list", "detach", "attach", "claim", "read">> IN
  /\ p \in Seq(Labels) /\ Orderly(p)
  /\ \A l : Ahead(p, l) <=> l \in {"list", "detach", "attach", "claim", "read"}
  /\ Precedes(p, "detach", "attach")
<1> DEFINE p == <<"list", "detach", "attach", "claim", "read">>
<1>1. p \in Seq(Labels) /\ Len(p) = 5 /\ p[1] = "list" /\ p[2] = "detach" /\ p[3] = "attach" /\ p[4] = "claim" /\ p[5] = "read"
  BY DEF Labels
<1>2. 1..Len(p) = {1, 2, 3, 4, 5}
  BY <1>1
<1> HIDE DEF p
<1>3. \A m, n \in 1..Len(p) : p[m] = p[n] => m = n
  BY <1>1, <1>2
<1>4. /\ Precedes(p, "list", "detach") /\ Precedes(p, "list", "attach") /\ Precedes(p, "list", "compare")
      /\ Precedes(p, "detach", "verify") /\ Precedes(p, "verify", "attach")
      /\ Precedes(p, "attach", "try") /\ Precedes(p, "detach", "try")
      /\ Precedes(p, "attach", "organization") /\ Precedes(p, "detach", "organization")
      /\ Precedes(p, "detach", "attach")
  BY <1>1, <1>2 DEF Precedes
<1>5. \A n \in 1..Len(p) : p[n] = "read" => n = Len(p)
  BY <1>1, <1>2
<1>6. \A l : Ahead(p, l) <=> l \in {"list", "detach", "attach", "claim", "read"}
  BY <1>1, <1>2 DEF Ahead
<1> QED BY <1>1, <1>3, <1>4, <1>5, <1>6 DEF Orderly, p

LEMMA DetachingProgram ==
  LET p == <<"detach">> IN
  /\ p \in Seq(Labels) /\ Orderly(p)
  /\ \A l : Ahead(p, l) <=> l \in {"detach"}
<1> DEFINE p == <<"detach">>
<1>1. p \in Seq(Labels) /\ Len(p) = 1 /\ p[1] = "detach"
  BY DEF Labels
<1>2. 1..Len(p) = {1}
  BY <1>1
<1> HIDE DEF p
<1>3. \A m, n \in 1..Len(p) : p[m] = p[n] => m = n
  BY <1>1, <1>2
<1>4. /\ Precedes(p, "list", "detach") /\ Precedes(p, "list", "attach") /\ Precedes(p, "list", "compare")
      /\ Precedes(p, "detach", "verify") /\ Precedes(p, "verify", "attach")
      /\ Precedes(p, "attach", "try") /\ Precedes(p, "detach", "try")
      /\ Precedes(p, "attach", "organization") /\ Precedes(p, "detach", "organization")
  BY <1>1, <1>2 DEF Precedes
<1>5. \A n \in 1..Len(p) : p[n] = "read" => n = Len(p)
  BY <1>1, <1>2
<1>6. \A l : Ahead(p, l) <=> l \in {"detach"}
  BY <1>1, <1>2 DEF Ahead
<1> QED BY <1>1, <1>3, <1>4, <1>5, <1>6 DEF Orderly, p

LEMMA AddingProgram ==
  LET p == <<"attach", "claim", "read">> IN
  /\ p \in Seq(Labels) /\ Orderly(p)
  /\ \A l : Ahead(p, l) <=> l \in {"attach", "claim", "read"}
  /\ Precedes(p, "detach", "attach")
<1> DEFINE p == <<"attach", "claim", "read">>
<1>1. p \in Seq(Labels) /\ Len(p) = 3 /\ p[1] = "attach" /\ p[2] = "claim" /\ p[3] = "read"
  BY DEF Labels
<1>2. 1..Len(p) = {1, 2, 3}
  BY <1>1
<1> HIDE DEF p
<1>3. \A m, n \in 1..Len(p) : p[m] = p[n] => m = n
  BY <1>1, <1>2
<1>4. /\ Precedes(p, "list", "detach") /\ Precedes(p, "list", "attach") /\ Precedes(p, "list", "compare")
      /\ Precedes(p, "detach", "verify") /\ Precedes(p, "verify", "attach")
      /\ Precedes(p, "attach", "try") /\ Precedes(p, "detach", "try")
      /\ Precedes(p, "attach", "organization") /\ Precedes(p, "detach", "organization")
      /\ Precedes(p, "detach", "attach")
  BY <1>1, <1>2 DEF Precedes
<1>5. \A n \in 1..Len(p) : p[n] = "read" => n = Len(p)
  BY <1>1, <1>2
<1>6. \A l : Ahead(p, l) <=> l \in {"attach", "claim", "read"}
  BY <1>1, <1>2 DEF Ahead
<1> QED BY <1>1, <1>3, <1>4, <1>5, <1>6 DEF Orderly, p

LEMMA AddingOnlyProgram ==
  LET p == <<"attach", "claim">> IN
  /\ p \in Seq(Labels) /\ Orderly(p)
  /\ \A l : Ahead(p, l) <=> l \in {"attach", "claim"}
  /\ Precedes(p, "detach", "attach")
<1> DEFINE p == <<"attach", "claim">>
<1>1. p \in Seq(Labels) /\ Len(p) = 2 /\ p[1] = "attach" /\ p[2] = "claim"
  BY DEF Labels
<1>2. 1..Len(p) = {1, 2}
  BY <1>1
<1> HIDE DEF p
<1>3. \A m, n \in 1..Len(p) : p[m] = p[n] => m = n
  BY <1>1, <1>2
<1>4. /\ Precedes(p, "list", "detach") /\ Precedes(p, "list", "attach") /\ Precedes(p, "list", "compare")
      /\ Precedes(p, "detach", "verify") /\ Precedes(p, "verify", "attach")
      /\ Precedes(p, "attach", "try") /\ Precedes(p, "detach", "try")
      /\ Precedes(p, "attach", "organization") /\ Precedes(p, "detach", "organization")
      /\ Precedes(p, "detach", "attach")
  BY <1>1, <1>2 DEF Precedes
<1>5. \A n \in 1..Len(p) : p[n] = "read" => n = Len(p)
  BY <1>1, <1>2
<1>6. \A l : Ahead(p, l) <=> l \in {"attach", "claim"}
  BY <1>1, <1>2 DEF Ahead
<1> QED BY <1>1, <1>3, <1>4, <1>5, <1>6 DEF Orderly, p

LEMMA RollingProgram ==
  LET p == <<"claim", "list", "compare", "attach", "detach", "read">> IN
  /\ p \in Seq(Labels) /\ Orderly(p)
  /\ \A l : Ahead(p, l) <=> l \in {"claim", "list", "compare", "attach", "detach", "read"}
<1> DEFINE p == <<"claim", "list", "compare", "attach", "detach", "read">>
<1>1. p \in Seq(Labels) /\ Len(p) = 6 /\ p[1] = "claim" /\ p[2] = "list" /\ p[3] = "compare" /\ p[4] = "attach" /\ p[5] = "detach" /\ p[6] = "read"
  BY DEF Labels
<1>2. 1..Len(p) = {1, 2, 3, 4, 5, 6}
  BY <1>1
<1> HIDE DEF p
<1>3. \A m, n \in 1..Len(p) : p[m] = p[n] => m = n
  BY <1>1, <1>2
<1>4. /\ Precedes(p, "list", "detach") /\ Precedes(p, "list", "attach") /\ Precedes(p, "list", "compare")
      /\ Precedes(p, "detach", "verify") /\ Precedes(p, "verify", "attach")
      /\ Precedes(p, "attach", "try") /\ Precedes(p, "detach", "try")
      /\ Precedes(p, "attach", "organization") /\ Precedes(p, "detach", "organization")
  BY <1>1, <1>2 DEF Precedes
<1>5. \A n \in 1..Len(p) : p[n] = "read" => n = Len(p)
  BY <1>1, <1>2
<1>6. \A l : Ahead(p, l) <=> l \in {"claim", "list", "compare", "attach", "detach", "read"}
  BY <1>1, <1>2 DEF Ahead
<1> QED BY <1>1, <1>3, <1>4, <1>5, <1>6 DEF Orderly, p

LEMMA ClearingProgram ==
  LET p == <<"list", "detach">> IN
  /\ p \in Seq(Labels) /\ Orderly(p)
  /\ \A l : Ahead(p, l) <=> l \in {"list", "detach"}
<1> DEFINE p == <<"list", "detach">>
<1>1. p \in Seq(Labels) /\ Len(p) = 2 /\ p[1] = "list" /\ p[2] = "detach"
  BY DEF Labels
<1>2. 1..Len(p) = {1, 2}
  BY <1>1
<1> HIDE DEF p
<1>3. \A m, n \in 1..Len(p) : p[m] = p[n] => m = n
  BY <1>1, <1>2
<1>4. /\ Precedes(p, "list", "detach") /\ Precedes(p, "list", "attach") /\ Precedes(p, "list", "compare")
      /\ Precedes(p, "detach", "verify") /\ Precedes(p, "verify", "attach")
      /\ Precedes(p, "attach", "try") /\ Precedes(p, "detach", "try")
      /\ Precedes(p, "attach", "organization") /\ Precedes(p, "detach", "organization")
  BY <1>1, <1>2 DEF Precedes
<1>5. \A n \in 1..Len(p) : p[n] = "read" => n = Len(p)
  BY <1>1, <1>2
<1>6. \A l : Ahead(p, l) <=> l \in {"list", "detach"}
  BY <1>1, <1>2 DEF Ahead
<1> QED BY <1>1, <1>3, <1>4, <1>5, <1>6 DEF Orderly, p

LEMMA ScopesProgram ==
  LET p == <<"list", "resolveSurplus", "detach", "resolveMissing", "attach", "claim", "read">> IN
  /\ p \in Seq(Labels) /\ Orderly(p)
  /\ \A l : Ahead(p, l) <=> l \in {"list", "resolveSurplus", "detach", "resolveMissing", "attach", "claim", "read"}
  /\ Precedes(p, "detach", "attach")
<1> DEFINE p == <<"list", "resolveSurplus", "detach", "resolveMissing", "attach", "claim", "read">>
<1>1. /\ p \in Seq(Labels) /\ Len(p) = 7
      /\ p[1] = "list" /\ p[2] = "resolveSurplus" /\ p[3] = "detach" /\ p[4] = "resolveMissing"
      /\ p[5] = "attach" /\ p[6] = "claim" /\ p[7] = "read"
  BY DEF Labels
<1>2. 1..Len(p) = {1, 2, 3, 4, 5, 6, 7}
  BY <1>1
<1> HIDE DEF p
<1>3. \A m, n \in 1..Len(p) : p[m] = p[n] => m = n
  BY <1>1, <1>2
<1>4. /\ Precedes(p, "list", "detach") /\ Precedes(p, "list", "attach") /\ Precedes(p, "list", "compare")
      /\ Precedes(p, "detach", "verify") /\ Precedes(p, "verify", "attach")
      /\ Precedes(p, "attach", "try") /\ Precedes(p, "detach", "try")
      /\ Precedes(p, "attach", "organization") /\ Precedes(p, "detach", "organization")
      /\ Precedes(p, "detach", "attach")
  BY <1>1, <1>2 DEF Precedes
<1>5. \A n \in 1..Len(p) : p[n] = "read" => n = Len(p)
  BY <1>1, <1>2
<1>6. \A l : Ahead(p, l) <=> l \in {"list", "resolveSurplus", "detach", "resolveMissing", "attach", "claim", "read"}
  BY <1>1, <1>2 DEF Ahead
<1> QED BY <1>1, <1>3, <1>4, <1>5, <1>6 DEF Orderly, p

LEMMA ScopingProgram ==
  LET p == <<"list", "resolveSurplus", "detach", "resolveMissing", "verify", "attach", "claim", "read">> IN
  /\ p \in Seq(Labels) /\ Orderly(p)
  /\ \A l : Ahead(p, l) <=> l \in {"list", "resolveSurplus", "detach", "resolveMissing", "verify", "attach", "claim", "read"}
  /\ Precedes(p, "detach", "attach")
<1> DEFINE p == <<"list", "resolveSurplus", "detach", "resolveMissing", "verify", "attach", "claim", "read">>
<1>1. /\ p \in Seq(Labels) /\ Len(p) = 8
      /\ p[1] = "list" /\ p[2] = "resolveSurplus" /\ p[3] = "detach" /\ p[4] = "resolveMissing"
      /\ p[5] = "verify" /\ p[6] = "attach" /\ p[7] = "claim" /\ p[8] = "read"
  BY DEF Labels
<1>2. 1..Len(p) = {1, 2, 3, 4, 5, 6, 7, 8}
  BY <1>1
<1> HIDE DEF p
<1>3. \A m, n \in 1..Len(p) : p[m] = p[n] => m = n
  BY <1>1, <1>2
<1>4. /\ Precedes(p, "list", "detach") /\ Precedes(p, "list", "attach") /\ Precedes(p, "list", "compare")
      /\ Precedes(p, "detach", "verify") /\ Precedes(p, "verify", "attach")
      /\ Precedes(p, "attach", "try") /\ Precedes(p, "detach", "try")
      /\ Precedes(p, "attach", "organization") /\ Precedes(p, "detach", "organization")
      /\ Precedes(p, "detach", "attach")
  BY <1>1, <1>2 DEF Precedes
<1>5. \A n \in 1..Len(p) : p[n] = "read" => n = Len(p)
  BY <1>1, <1>2
<1>6. \A l : Ahead(p, l) <=> l \in {"list", "resolveSurplus", "detach", "resolveMissing", "verify", "attach", "claim", "read"}
  BY <1>1, <1>2 DEF Ahead
<1> QED BY <1>1, <1>3, <1>4, <1>5, <1>6 DEF Orderly, p

LEMMA UnscopingProgram ==
  LET p == <<"resolveSurplus", "detach">> IN
  /\ p \in Seq(Labels) /\ Orderly(p)
  /\ \A l : Ahead(p, l) <=> l \in {"resolveSurplus", "detach"}
<1> DEFINE p == <<"resolveSurplus", "detach">>
<1>1. p \in Seq(Labels) /\ Len(p) = 2 /\ p[1] = "resolveSurplus" /\ p[2] = "detach"
  BY DEF Labels
<1>2. 1..Len(p) = {1, 2}
  BY <1>1
<1> HIDE DEF p
<1>3. \A m, n \in 1..Len(p) : p[m] = p[n] => m = n
  BY <1>1, <1>2
<1>4. /\ Precedes(p, "list", "detach") /\ Precedes(p, "list", "attach") /\ Precedes(p, "list", "compare")
      /\ Precedes(p, "detach", "verify") /\ Precedes(p, "verify", "attach")
      /\ Precedes(p, "attach", "try") /\ Precedes(p, "detach", "try")
      /\ Precedes(p, "attach", "organization") /\ Precedes(p, "detach", "organization")
  BY <1>1, <1>2 DEF Precedes
<1>5. \A n \in 1..Len(p) : p[n] = "read" => n = Len(p)
  BY <1>1, <1>2
<1>6. \A l : Ahead(p, l) <=> l \in {"resolveSurplus", "detach"}
  BY <1>1, <1>2 DEF Ahead
<1> QED BY <1>1, <1>3, <1>4, <1>5, <1>6 DEF Orderly, p

LEMMA TryingProgram ==
  LET p == <<"resolveMissing", "attach", "claim", "try", "organization", "read">> IN
  /\ p \in Seq(Labels) /\ Orderly(p)
  /\ \A l : Ahead(p, l) <=> l \in {"resolveMissing", "attach", "claim", "try", "organization", "read"}
  /\ Precedes(p, "detach", "attach")
<1> DEFINE p == <<"resolveMissing", "attach", "claim", "try", "organization", "read">>
<1>1. /\ p \in Seq(Labels) /\ Len(p) = 6
      /\ p[1] = "resolveMissing" /\ p[2] = "attach" /\ p[3] = "claim"
      /\ p[4] = "try" /\ p[5] = "organization" /\ p[6] = "read"
  BY DEF Labels
<1>2. 1..Len(p) = {1, 2, 3, 4, 5, 6}
  BY <1>1
<1> HIDE DEF p
<1>3. \A m, n \in 1..Len(p) : p[m] = p[n] => m = n
  BY <1>1, <1>2
<1>4. /\ Precedes(p, "list", "detach") /\ Precedes(p, "list", "attach") /\ Precedes(p, "list", "compare")
      /\ Precedes(p, "detach", "verify") /\ Precedes(p, "verify", "attach")
      /\ Precedes(p, "attach", "try") /\ Precedes(p, "detach", "try")
      /\ Precedes(p, "attach", "organization") /\ Precedes(p, "detach", "organization")
      /\ Precedes(p, "detach", "attach")
  BY <1>1, <1>2 DEF Precedes
<1>5. \A n \in 1..Len(p) : p[n] = "read" => n = Len(p)
  BY <1>1, <1>2
<1>6. \A l : Ahead(p, l) <=> l \in {"resolveMissing", "attach", "claim", "try", "organization", "read"}
  BY <1>1, <1>2 DEF Ahead
<1> QED BY <1>1, <1>3, <1>4, <1>5, <1>6 DEF Orderly, p


-----------------------------------------------------------------------------
(* The programs of the kinds.                                              *)

ScopeKinds == {ClientScopes, RealmClientScopes}
UsedKinds == ScopeKinds \cup {GroupMemberships, DefaultGroups, DefaultRoles, SamlClientDefaultScopes}
ExclusiveKind(k) == k \in ScopeKinds \cup {DefaultRoles}

\* What a program is when an operation begins.
Starts(k, o, p) ==
  /\ p \in Seq(Labels) /\ Orderly(p)
  /\ o = "delete" =>
       /\ \A l : Ahead(p, l) => l \in {"list", "resolveSurplus", "detach"}
       /\ Ahead(p, "detach")
       /\ Ahead(p, "list") <=> k = DefaultRoles
  /\ o \in {"create", "update"} =>
       /\ Ahead(p, "attach")
       /\ o = "update" \/ ExclusiveKind(k) => Ahead(p, "list") /\ Ahead(p, "detach")
       /\ Ahead(p, "verify") <=> k = ClientScopes
       /\ k \in ScopeKinds => Precedes(p, "detach", "attach")
  /\ o = "update" => ~Ahead(p, "try")

LEMMA KindPrograms ==
  ASSUME NEW k \in UsedKinds
  PROVE  Starts(k, "create", k.create) /\ Starts(k, "update", k.update) /\ Starts(k, "delete", k.delete)
<1>2. CASE k = GroupMemberships
  <2>1. /\ k.create = <<"attach", "claim", "read">> /\ k.update = Reconcile /\ k.delete = <<"detach">>
        /\ k \notin ScopeKinds /\ k # DefaultRoles /\ ~ExclusiveKind(k)
    BY <1>2 DEF GroupMemberships, Attachment, Scopes, ScopeKinds, ClientScopes, RealmClientScopes, DefaultRoles, ExclusiveKind, Reconcile
  <2> QED BY <2>1, AddingProgram, ReconcileProgram, DetachingProgram DEF Starts, Reconcile, ScopeKinds
<1>3. CASE k = DefaultGroups
  <2>1. /\ k.create = <<"attach", "claim">> /\ k.update = Reconcile /\ k.delete = <<"detach">>
        /\ k \notin ScopeKinds /\ k # DefaultRoles /\ ~ExclusiveKind(k)
    BY <1>3 DEF DefaultGroups, Attachment, Scopes, ScopeKinds, ClientScopes, RealmClientScopes, DefaultRoles, ExclusiveKind, Reconcile
  <2> QED BY <2>1, AddingOnlyProgram, ReconcileProgram, DetachingProgram DEF Starts, Reconcile, ScopeKinds
<1>4. CASE k = DefaultRoles
  <2>1. /\ k.create = <<"claim", "list", "compare", "attach", "detach", "read">> /\ k.update = k.create
        /\ k.delete = <<"list", "detach">> /\ k \notin ScopeKinds
    BY <1>4 DEF Attachment, Scopes, ScopeKinds, ClientScopes, RealmClientScopes, DefaultRoles
  <2> QED BY <1>4, <2>1, RollingProgram, ClearingProgram DEF Starts, ScopeKinds
<1>5. CASE k = ClientScopes
  <2>1. /\ k.create = <<"list", "resolveSurplus", "detach", "resolveMissing", "verify", "attach", "claim", "read">>
        /\ k.update = k.create /\ k.delete = <<"resolveSurplus", "detach">> /\ k # DefaultRoles
    BY <1>5 DEF Scopes, Attachment, ClientScopes, DefaultRoles
  <2> QED BY <1>5, <2>1, ScopingProgram, UnscopingProgram DEF Starts
<1>6. CASE k = SamlClientDefaultScopes
  <2>1. /\ k.create = <<"resolveMissing", "attach", "claim", "try", "organization", "read">>
        /\ k.update = <<"list", "resolveSurplus", "detach", "resolveMissing", "attach", "claim", "read">>
        /\ k.delete = <<"resolveSurplus", "detach">>
    BY <1>6 DEF SamlClientDefaultScopes, Scopes, Attachment
  <2>2. k \notin ScopeKinds /\ k # DefaultRoles /\ ~ExclusiveKind(k)
    <3>1. k.skips /\ ~RealmClientScopes.skips /\ ~k.batch /\ DefaultRoles.batch
      BY <1>6 DEF SamlClientDefaultScopes, RealmClientScopes, Scopes, DefaultRoles, Attachment
    <3>2. ClientScopes.create[1] = "list" /\ k.create[1] = "resolveMissing"
      BY <2>1 DEF ClientScopes, Scopes, Attachment
    <3> QED BY <3>1, <3>2 DEF ScopeKinds, ExclusiveKind
  <2> QED BY <2>1, <2>2, TryingProgram, ScopesProgram, UnscopingProgram DEF Starts, ScopeKinds
<1>7. CASE k = RealmClientScopes
  <2>1. /\ k.create = <<"list", "resolveSurplus", "detach", "resolveMissing", "attach", "claim", "read">>
        /\ k.update = k.create /\ k.delete = <<"resolveSurplus", "detach">>
    BY <1>7 DEF Scopes, Attachment, RealmClientScopes
  <2>2. k # ClientScopes /\ k # DefaultRoles
    BY <1>7 DEF Scopes, Attachment, RealmClientScopes, ClientScopes, DefaultRoles
  <2> QED BY <2>1, <2>2, ScopesProgram, UnscopingProgram DEF Starts
<1> QED BY <1>2, <1>3, <1>4, <1>5, <1>6, <1>7 DEF UsedKinds, ScopeKinds

\* The two kinds of a configuration.
LEMMA KindPairs ==
  ASSUME kinds \in Kinds
  PROVE  /\ \A r \in Resources : Used(r) => kinds[r] \in UsedKinds
         /\ \A r \in Resources : kinds[r] \in ScopeKinds => kinds[1] = kinds[2]
         /\ Used(2) => kinds[1] \in ScopeKinds /\ kinds[1] = kinds[2]
         /\ kinds[1] \in UsedKinds /\ Used(1)
         /\ \A r \in Resources : kinds[r] = DefaultRoles => ~kinds[r].paged
         /\ ClientScopes # RealmClientScopes
<1>1. /\ Unused.create = <<>> /\ ~Unused.paged
      /\ ClientScopes # RealmClientScopes /\ Unused \notin ScopeKinds /\ ~DefaultRoles.paged
      /\ \A k \in UsedKinds : k.create # <<>>
  <2>1. Unused.create = <<>> /\ ~Unused.paged
    BY DEF Unused, Attachment
  <2>2. ~DefaultRoles.paged
    BY DEF DefaultRoles, Attachment
  <2>3. /\ ClientScopes.skips # RealmClientScopes.skips
        /\ ClientScopes.create # <<>> /\ RealmClientScopes.create # <<>>
    BY DEF ClientScopes, RealmClientScopes, Scopes, Attachment
  <2>4. /\ GroupMemberships.create # <<>> /\ DefaultGroups.create # <<>>
        /\ DefaultRoles.create # <<>> /\ SamlClientDefaultScopes.create # <<>>
    BY DEF GroupMemberships, DefaultGroups, DefaultRoles, SamlClientDefaultScopes, Scopes, Attachment
  <2> QED BY <2>1, <2>2, <2>3, <2>4 DEF UsedKinds, ScopeKinds
<1>2. {GroupMemberships, DefaultGroups, DefaultRoles, SamlClientDefaultScopes} \cap ScopeKinds = {}
  <2>1. /\ GroupMemberships.paged /\ DefaultGroups.importable /\ DefaultRoles.batch
        /\ ~Scopes.paged /\ ~Scopes.importable /\ ~Scopes.batch /\ ~Scopes.skips
    BY DEF Attachment, Scopes, GroupMemberships, DefaultGroups, DefaultRoles
  <2>2. /\ ~ClientScopes.paged /\ ~ClientScopes.importable /\ ~ClientScopes.batch
        /\ ClientScopes.create[1] = "list" /\ SamlClientDefaultScopes.create[1] = "resolveMissing"
        /\ SamlClientDefaultScopes.skips
    BY DEF Attachment, Scopes, ClientScopes, SamlClientDefaultScopes
  <2> QED BY <2>1, <2>2 DEF ScopeKinds, RealmClientScopes
<1>3. PICK k, l : kinds = <<k, l>> /\ k \in UsedKinds /\ l \in UsedKinds \cup {Unused}
        /\ (k \in ScopeKinds => l = k) /\ (k \notin ScopeKinds => l = Unused)
  BY <1>1, <1>2 DEF Kinds, UsedKinds, ScopeKinds
<1>4. kinds[1] = k /\ kinds[2] = l
  BY <1>3
<1> QED BY <1>1, <1>2, <1>3, <1>4 DEF Resources, Used


-----------------------------------------------------------------------------
(* Pages.                                                                  *)

LEMMA LeastNat ==
  ASSUME NEW T \in SUBSET Nat, T # {}
  PROVE  \E x \in T : \A y \in T : x <= y
<1> DEFINE R == {ss \in Nat \X Nat : ss[1] < ss[2]}
<1>1. IsWellFoundedOn(R, Nat)
  BY NatLessThanWellFounded DEF OpToRel
<1> HIDE DEF R
<1>2. \E x \in T : \A y \in T : ~(<<y, x>> \in R)
  BY <1>1, WFMin
<1>3. PICK x \in T : \A y \in T : ~(<<y, x>> \in R)
  BY <1>2
<1>4. \A y \in T : ~(y < x)
  BY <1>3 DEF R
<1> QED BY <1>3, <1>4

LEMMA RankType ==
  ASSUME NEW S \in SUBSET Items
  PROVE  \A i : Rank(S, i) \in Nat
BY ItemsAssumption, FS_Subset, FS_CardinalityType DEF Rank

\* An item with one before it comes one place later.
LEMMA RankNext ==
  ASSUME NEW S \in SUBSET Items, NEW m \in S, Rank(S, m) # 0
  PROVE  \E p \in S : p < m /\ Rank(S, m) = Rank(S, p) + 1
<1> DEFINE B == {j \in S : j < m}
<1>1. S \subseteq Nat /\ IsFiniteSet(S) /\ m \in Nat
  BY ItemsAssumption, FS_Subset
<1>2. B # {}
  BY FS_EmptySet DEF Rank
<1>3. {k \in Nat : \E j \in B : k = m - j} # {}
  <2>1. PICK j \in B : TRUE
    BY <1>2
  <2>2. m - j \in Nat
    BY <1>1, <2>1
  <2> QED BY <2>1, <2>2
<1>4. PICK d \in {k \in Nat : \E j \in B : k = m - j} : \A k \in {k \in Nat : \E j \in B : k = m - j} : d <= k
  BY <1>3, LeastNat
<1>5. PICK p \in B : d = m - p
  BY <1>4
<1>6. \A j \in B : m - j \in {k \in Nat : \E i \in B : k = m - i}
  BY <1>1
<1>7. \A j \in B : m - p <= m - j
  BY <1>4, <1>5, <1>6
<1>8. \A j \in B : j <= p
  BY <1>1, <1>7
<1>9. B = {j \in S : j < p} \cup {p} /\ p \notin {j \in S : j < p}
  <2>1. p \in Nat /\ p < m
    BY <1>1
  <2>2. ASSUME NEW j \in S PROVE j < m <=> j < p \/ j = p
    <3>1. j \in Nat /\ (j < m => j <= p)
      BY <1>1, <1>8
    <3> QED BY <1>1, <2>1, <3>1
  <2>3. p \in S /\ ~(p < p)
    BY <2>1
  <2> QED BY <2>2, <2>3
<1>10. IsFiniteSet({j \in S : j < p})
  BY <1>1, FS_Subset
<1>11. Cardinality(B) = Cardinality({j \in S : j < p}) + 1
  BY <1>9, <1>10, FS_AddElement
<1> QED BY <1>1, <1>5, <1>11 DEF Rank

\* If the page at a place is empty, all items come before it.
LEMMA LastPage ==
  ASSUME NEW S \in SUBSET Items, NEW first \in Nat, Page(S, first) = {}
  PROVE  \A i \in S : Rank(S, i) < first
<1> DEFINE T == {i \in S : first <= Rank(S, i)}
<1> SUFFICES ASSUME T # {} PROVE FALSE
  BY RankType
<1>1. T \in SUBSET Nat
  BY ItemsAssumption
<1>2. PICK m \in T : \A i \in T : m <= i
  BY <1>1, LeastNat
<1>3. Rank(S, m) \in Nat /\ first <= Rank(S, m)
  BY <1>2, RankType
<1>4. Rank(S, m) <= first
  <2>1. CASE Rank(S, m) = 0
    BY <2>1
  <2>2. CASE Rank(S, m) # 0
    <3>1. PICK p \in S : p < m /\ Rank(S, m) = Rank(S, p) + 1
      BY <1>2, <2>2, RankNext
    <3>2. p \in Nat /\ m \in Nat /\ Rank(S, p) \in Nat
      BY ItemsAssumption, RankType
    <3>3. p \notin T
      BY <1>2, <3>1, <3>2
    <3> QED BY <3>1, <3>2, <3>3
  <2> QED BY <2>1, <2>2
<1>5. first < first + PageSize
  BY BoundsAssumption
<1>6. m \in Page(S, first)
  BY <1>3, <1>4, <1>5 DEF Page
<1> QED BY <1>6

\* A page more.
LEMMA NextPage ==
  ASSUME NEW S \in SUBSET Items, NEW first \in Nat
  PROVE  {i \in S : Rank(S, i) < first} \cup Page(S, first) = {i \in S : Rank(S, i) < first + PageSize}
BY RankType, BoundsAssumption DEF Page

-----------------------------------------------------------------------------
(* The inductive invariant: how far each resource has come, and what that  *)
(* says of its set.                                                        *)

Applying(r) == op[r] \in {"create", "update"}
Calm(r) == outcome[r] = "calm"
\* What a Create attaches or detaches, it knows: it has listed the set before.
Exclusive(r) == kinds[r] \in ScopeKinds \cup {DefaultRoles}
Exact(r) == op[r] = "update" \/ Exclusive(r)
Present(r) == conf[r].items \cap existing

ProgramOf(r) ==
  /\ Orderly(todo[r])
  /\ op[r] = "idle" => todo[r] = <<>>
  /\ op[r] # "idle" => Used(r)
  /\ outcome[r] \notin {"none", "calm"} => op[r] = "idle"
  /\ op[r] = "refresh" => \A l \in Labels : Ahead(todo[r], l) => l = "read"
  /\ op[r] = "delete" => \A l \in Labels : Ahead(todo[r], l) => l \in {"resolveSurplus", "detach"} \/ (l = "list" /\ kinds[r] = DefaultRoles)
  /\ op[r] = "update" => ~Ahead(todo[r], "try") /\ (todo[r] # <<>> => state[r].items = conf[r].items)
  /\ Applying(r) =>
       /\ Ahead(todo[r], "verify") => kinds[r] = ClientScopes
       /\ kinds[r] = ClientScopes /\ Ahead(todo[r], "detach") => Ahead(todo[r], "verify")
       /\ kinds[r] \in ScopeKinds => Precedes(todo[r], "detach", "attach")
  /\ ~At(r, "list") /\ ~At(r, "read") => page[r] = 0

\* An undisturbed Create or Update knows what is attached from its listing on ...
Knows(r) ==
  Calm(r) /\ Applying(r) /\ ~Ahead(todo[r], "list") /\ (Ahead(todo[r], "attach") \/ Ahead(todo[r], "detach")) =>
    /\ kinds[r] # RealmClientScopes => seen[r] \cap existing \subseteq attached[r]
    /\ Exact(r) => attached[r] \subseteq seen[r]

\* ... page by page ...
Lists(r) ==
  Calm(r) /\ At(r, "list") /\ kinds[r].paged =>
    Before(r) = {i \in attached[r] : Rank(attached[r], i) < page[r]}

\* ... has attached what was missing when nothing is to attach, has detached the rest
\* when nothing is to detach, and has looked at the other list in between.
Works(r) ==
  Calm(r) /\ Applying(r) =>
    /\ ~Ahead(todo[r], "attach") /\ kinds[r] # RealmClientScopes => Present(r) \subseteq attached[r]
    /\ ~Ahead(todo[r], "detach") /\ Exact(r) => attached[r] \subseteq conf[r].items
    /\ kinds[r] = ClientScopes /\ ~Ahead(todo[r], "verify") /\ Ahead(todo[r], "attach") =>
         attached[Other(r)] \cap conf[r].items \subseteq others[r]

Removes(r) ==
  Calm(r) /\ op[r] = "delete" =>
    IF kinds[r] = DefaultRoles
      THEN /\ ~Ahead(todo[r], "list") /\ Ahead(todo[r], "detach") => attached[r] \subseteq seen[r]
           /\ ~Ahead(todo[r], "detach") => attached[r] = {}
      ELSE /\ Ahead(todo[r], "detach") => attached[r] \cap state[r].items \subseteq seen[r]
           /\ ~Ahead(todo[r], "detach") => attached[r] \cap state[r].items = {}

Ended(r) ==
  outcome[r] \in {"create", "update"} /\ kinds[r] # RealmClientScopes =>
    /\ Present(r) \subseteq attached[r]
    /\ outcome[r] = "update" \/ Exclusive(r) => attached[r] \subseteq conf[r].items

SetOf(r) == Knows(r) /\ Lists(r) /\ Works(r) /\ Removes(r) /\ Ended(r)

\* A resource that was refused, or is going to be.
Refused(r) ==
  \/ outcome[r] = "refused"
  \/ Calm(r) /\ Applying(r) /\ Ahead(todo[r], "attach") /\ ~Ahead(todo[r], "verify")
       /\ others[r] \cap conf[r].items # {}

RefusalOf(r) ==
  /\ outcome[r] = "refused" => attached[r] \subseteq conf[r].items
  /\ others[r] # {} => kinds[r] = ClientScopes

Sets ==
  /\ TypeOK /\ todo \in [Resources -> Seq(Labels)]
  /\ Disjoint(conf) /\ (Used(2) \/ attached[2] = {})

IInv ==
  /\ Sets
  /\ \A r \in Resources : ProgramOf(r) /\ SetOf(r) /\ RefusalOf(r)
  /\ ~(Refused(1) /\ Refused(2))

-----------------------------------------------------------------------------
(* A step of one resource leaves the rest of the other alone.              *)

Touches(r) ==
  /\ op' = [op EXCEPT ![r] = op'[r]] /\ todo' = [todo EXCEPT ![r] = todo'[r]]
  /\ seen' = [seen EXCEPT ![r] = seen'[r]] /\ others' = [others EXCEPT ![r] = others'[r]]
  /\ page' = [page EXCEPT ![r] = page'[r]] /\ state' = [state EXCEPT ![r] = state'[r]]
  /\ attached' = [attached EXCEPT ![r] = attached'[r]] /\ outcome' = [outcome EXCEPT ![r] = outcome'[r]]
  /\ UNCHANGED <<kinds, existing, conf>> /\ events' \in 0 .. MaxEvents

Fits(r) ==
  /\ op'[r] \in {"idle", "refresh", "create", "update", "delete"} /\ todo'[r] \in Seq(Labels)
  /\ seen'[r] \in SUBSET Items /\ others'[r] \in SUBSET Items /\ page'[r] \in Nat
  /\ state'[r] \in [known : BOOLEAN, tainted : BOOLEAN, items : SUBSET Items]
  /\ state'[r].tainted => state'[r].known
  /\ outcome'[r] \in {"none", "calm", "refused", "create", "update", "delete"}

\* What is attached by it is there, wanted, and in no other list.
Changes(r) ==
  /\ attached'[r] \subseteq existing /\ attached'[r] \cap attached[Other(r)] = {}
  /\ attached'[r] \subseteq attached[r] \/ (Used(r) /\ attached'[r] \subseteq attached[r] \cup conf[r].items)

Keeps(r) ==
  /\ Touches(r) /\ Fits(r) /\ Changes(r)
  /\ ProgramOf(r)' /\ SetOf(r)' /\ RefusalOf(r)'
  /\ Refused(r)' => Refused(r) \/ ~Refused(Other(r))

LEMMA OtherOne ==
  \A r \in Resources :
    /\ Other(r) \in Resources /\ Other(r) # r /\ Other(Other(r)) = r
    /\ \A s \in Resources : s # r => s = Other(r)
BY DEF Resources, Other

LEMMA SetsKept ==
  ASSUME Sets, NEW r \in Resources, Touches(r), Fits(r), Changes(r)
  PROVE  Sets'
<1>1. attached' \in [Resources -> SUBSET existing] /\ attached'[1] \cap attached'[2] = {}
  <2>1. /\ attached \in [Resources -> SUBSET existing] /\ attached'[r] \in SUBSET existing
        /\ attached' = [attached EXCEPT ![r] = attached'[r]]
    BY DEF Sets, TypeOK, Touches, Changes
  <2>2. attached' \in [Resources -> SUBSET existing]
    BY <2>1
  <2>3. attached'[Other(r)] = attached[Other(r)] /\ attached'[r] \cap attached[Other(r)] = {}
    BY <2>1, OtherOne DEF Changes
  <2> QED BY <2>2, <2>3 DEF Resources, Other
<1>2. todo' \in [Resources -> Seq(Labels)]
  BY DEF Sets, Touches, Fits
<1>3. /\ op' \in [Resources -> {"idle", "refresh", "create", "update", "delete"}]
      /\ outcome' \in [Resources -> {"none", "calm", "refused", "create", "update", "delete"}]
      /\ page' \in [Resources -> Nat]
  BY DEF Sets, TypeOK, Touches, Fits
<1>4. seen' \in [Resources -> SUBSET Items] /\ others' \in [Resources -> SUBSET Items]
  BY DEF Sets, TypeOK, Touches, Fits
<1>5. /\ state' \in [Resources -> [known : BOOLEAN, tainted : BOOLEAN, items : SUBSET Items]]
      /\ \A s \in Resources : state'[s].tainted => state'[s].known
  <2>1. /\ state \in [Resources -> [known : BOOLEAN, tainted : BOOLEAN, items : SUBSET Items]]
        /\ state'[r] \in [known : BOOLEAN, tainted : BOOLEAN, items : SUBSET Items]
        /\ state' = [state EXCEPT ![r] = state'[r]]
        /\ \A s \in Resources : state[s].tainted => state[s].known
        /\ state'[r].tainted => state'[r].known
    BY DEF Sets, TypeOK, Touches, Fits
  <2>2. \A s \in Resources : s # r => state'[s] = state[s]
    BY <2>1
  <2> QED BY <2>1, <2>2
<1>6. kinds' \in Kinds /\ existing' \subseteq Items /\ conf' \in [Resources -> Configurations] /\ Disjoint(conf')
  BY DEF Sets, TypeOK, Touches
<1>7. Used(2)' \/ attached'[2] = {}
  <2>1. Used(2)' <=> Used(2)
    BY DEF Touches, Used
  <2>2. CASE r = 1
    BY <2>1, <2>2 DEF Sets, TypeOK, Touches, Resources
  <2>3. CASE r = 2
    BY <2>1, <2>3 DEF Sets, Changes
  <2> QED BY <2>2, <2>3 DEF Resources
<1>8. events' \in 0 .. MaxEvents
  BY DEF Touches
<1>9. existing' = existing
  BY DEF Touches
<1> QED BY <1>1, <1>2, <1>3, <1>4, <1>5, <1>6, <1>7, <1>8, <1>9 DEF Sets, TypeOK

LEMMA OtherKept ==
  ASSUME IInv, NEW r \in Resources, Touches(r), Changes(r), NEW s \in Resources, s # r
  PROVE  /\ ProgramOf(s)' /\ SetOf(s)' /\ RefusalOf(s)'
         /\ Refused(s)' <=> Refused(s)
<1>1. /\ op'[s] = op[s] /\ todo'[s] = todo[s] /\ seen'[s] = seen[s] /\ others'[s] = others[s]
      /\ page'[s] = page[s] /\ state'[s] = state[s] /\ outcome'[s] = outcome[s] /\ attached'[s] = attached[s]
      /\ kinds' = kinds /\ existing' = existing /\ conf' = conf
  BY DEF Touches, IInv, Sets, TypeOK
<1>2. ProgramOf(s) /\ SetOf(s) /\ RefusalOf(s)
  BY DEF IInv
<1>3. ProgramOf(s)'
  BY <1>1, <1>2 DEF ProgramOf, Used, Applying, At
<1>4. Knows(s)' /\ Removes(s)' /\ Ended(s)' /\ Lists(s)'
  BY <1>1, <1>2 DEF SetOf, Knows, Removes, Ended, Lists, Calm, Applying, Exact, Exclusive, Present, At, Before
<1>5. Other(s) = r /\ Other(r) = s
  BY OtherOne
<1>6. attached'[r] \cap conf[s].items \subseteq attached[r]
  <2>1. conf[r].items \cap conf[s].items = {}
    BY DEF IInv, Sets, Disjoint, Resources
  <2> QED BY <2>1 DEF Changes
<1>7. Works(s)'
  BY <1>1, <1>2, <1>5, <1>6 DEF SetOf, Works, Calm, Applying, Exact, Exclusive, Present
<1>8. RefusalOf(s)' /\ (Refused(s)' <=> Refused(s))
  BY <1>1, <1>2 DEF RefusalOf, Refused, Calm, Applying
<1> QED BY <1>3, <1>4, <1>7, <1>8 DEF SetOf

LEMMA StepKept ==
  ASSUME IInv, NEW r \in Resources, Keeps(r)
  PROVE  IInv'
<1>1. Sets'
  BY SetsKept DEF Keeps, IInv
<1>2. ASSUME NEW s \in Resources, s # r
      PROVE  ProgramOf(s)' /\ SetOf(s)' /\ RefusalOf(s)' /\ (Refused(s)' <=> Refused(s))
  BY <1>2, OtherKept DEF Keeps
<1>3. ProgramOf(r)' /\ SetOf(r)' /\ RefusalOf(r)'
  BY DEF Keeps
<1>4. \A s \in Resources : (ProgramOf(s) /\ SetOf(s) /\ RefusalOf(s))'
  BY <1>2, <1>3
<1>5. ~(Refused(1) /\ Refused(2))'
  <2>1. Other(r) \in Resources /\ Other(r) # r
    BY OtherOne
  <2>2. Refused(Other(r))' <=> Refused(Other(r))
    BY <1>2, <2>1
  <2>3. ~(Refused(r) /\ Refused(Other(r)))
    BY DEF IInv, Resources, Other
  <2>4. ~(Refused(r)' /\ Refused(Other(r))')
    BY <2>2, <2>3 DEF Keeps
  <2> QED BY <2>4 DEF Resources, Other
<1> QED BY <1>1, <1>4, <1>5 DEF IInv

\* A step that leaves nothing to do and nothing to claim.
LEMMA StoppedKept ==
  ASSUME NEW r \in Resources, op'[r] = "idle", todo'[r] = <<>>, page'[r] = 0, others'[r] = {}, outcome'[r] = "none"
  PROVE  ProgramOf(r)' /\ SetOf(r)' /\ RefusalOf(r)' /\ ~Refused(r)'
<1>1. ProgramOf(r)'
  BY EmptyOrderly DEF ProgramOf, Applying, At
<1> QED BY <1>1 DEF SetOf, Knows, Lists, Works, Removes, Ended, RefusalOf, Refused, Calm, Applying

\* The call fails, or what it is about is refused.
LEMMA Halted ==
  ASSUME IInv, NEW r \in Resources, Stops(r), Set(outcome, r, "none"), Quiet, events' \in 0 .. MaxEvents,
         attached' = [attached EXCEPT ![r] = attached'[r]], Changes(r)
  PROVE  Keeps(r)
<1>1. /\ op'[r] = "idle" /\ todo'[r] = <<>> /\ page'[r] = 0 /\ seen'[r] = {} /\ others'[r] = {} /\ outcome'[r] = "none"
      /\ state'[r] = [state[r] EXCEPT !.tainted = @ \/ (op[r] = "create" /\ state[r].known)]
  BY DEF Stops, Set, Enter, IInv, Sets, TypeOK
<1>2. Touches(r)
  BY <1>1 DEF Touches, Stops, Set, Enter, Quiet
<1>3. Fits(r)
  <2>1. state[r] \in [known : BOOLEAN, tainted : BOOLEAN, items : SUBSET Items] /\ (state[r].tainted => state[r].known)
    BY DEF IInv, Sets, TypeOK
  <2>2. /\ state'[r] \in [known : BOOLEAN, tainted : BOOLEAN, items : SUBSET Items]
        /\ state'[r].known = state[r].known
        /\ state'[r].tainted = (state[r].tainted \/ (op[r] = "create" /\ state[r].known))
    BY <1>1, <2>1
  <2>3. state'[r].tainted => state'[r].known
    BY <2>1, <2>2
  <2> QED BY <1>1, <2>2, <2>3 DEF Fits
<1> QED BY <1>1, <1>2, <1>3, StoppedKept DEF Keeps

LEMMA EventCounted == ASSUME IInv, Event PROVE events' \in 0 .. MaxEvents
BY BoundsAssumption DEF IInv, Sets, TypeOK, Event

\* An error before the write took effect.
LEMMA Faulted ==
  ASSUME IInv, NEW r \in Resources, Stops(r), Fault(r), Quiet, attached' = attached
  PROVE  Keeps(r)
<1>1. attached \in [Resources -> SUBSET existing] /\ attached[r] \cap attached[Other(r)] = {}
  BY DEF IInv, Sets, TypeOK, Resources, Other
<1>2. Changes(r) /\ attached' = [attached EXCEPT ![r] = attached'[r]]
  BY <1>1 DEF Changes
<1> QED BY <1>2, EventCounted, Halted DEF Fault

\* The next item of the program.
LEMMA Advanced ==
  ASSUME IInv, NEW r \in Resources, todo[r] # <<>>, todo'[r] = Tail(todo[r]), op'[r] = op[r],
         kinds' = kinds, conf' = conf, outcome'[r] \in {outcome[r], "none"}, page'[r] = 0,
         op[r] = "update" /\ todo'[r] # <<>> => state'[r].items = state[r].items
  PROVE  ProgramOf(r)'
<1>1. ProgramOf(r) /\ todo[r] \in Seq(Labels)
  BY DEF IInv, Sets, TypeOK
<1>2. /\ Tail(todo[r]) \in Seq(Labels) /\ Head(todo[r]) \in Labels
      /\ \A l : Ahead(todo[r], l) <=> (l = Head(todo[r]) \/ Ahead(Tail(todo[r]), l))
  BY <1>1, TailAhead
<1>3. Orderly(Tail(todo[r])) /\ (Head(todo[r]) = "verify" => ~Ahead(Tail(todo[r]), "detach"))
  BY <1>1, TailOrderly DEF ProgramOf
<1>4. Precedes(todo[r], "detach", "attach") => Precedes(Tail(todo[r]), "detach", "attach")
  BY <1>1, TailPrecedes
<1> QED BY <1>1, <1>2, <1>3, <1>4 DEF ProgramOf, Applying, Used

\* What an operation wants is what is configured.
LEMMA WantsConfigured ==
  ASSUME IInv, NEW r \in Resources, todo[r] # <<>>, Applying(r)
  PROVE  Wanted(r) = conf[r].items
BY DEF IInv, ProgramOf, Applying, Wanted

-----------------------------------------------------------------------------
(* Terraform                                                               *)

\* A step that does nothing to Keycloak changes nothing there.
LEMMA Unchanged ==
  ASSUME IInv, NEW r \in Resources, attached' = attached
  PROVE  Changes(r) /\ attached' = [attached EXCEPT ![r] = attached'[r]]
<1>1. attached \in [Resources -> SUBSET existing] /\ attached[r] \cap attached[Other(r)] = {}
  BY DEF IInv, Sets, TypeOK, Resources, Other
<1> QED BY <1>1 DEF Changes

LEMMA Begun ==
  ASSUME IInv, NEW r \in Resources, NEW o \in {"idle", "refresh", "create", "update", "delete"},
         NEW p \in Seq(Labels), NEW listed, Begin(r, o, p, listed),
         state' = [state EXCEPT ![r] = state'[r]], outcome' = [outcome EXCEPT ![r] = outcome'[r]]
  PROVE  /\ op'[r] = o /\ todo'[r] = p /\ seen'[r] = listed /\ others'[r] = {}
         /\ page'[r] = page[r] /\ attached'[r] = attached[r] /\ Touches(r) /\ Changes(r)
<1>1. /\ op'[r] = o /\ todo'[r] = p /\ seen'[r] = listed /\ others'[r] = {}
      /\ page'[r] = page[r] /\ attached'[r] = attached[r]
  BY DEF Begin, Enter, Set, IInv, Sets, TypeOK
<1>2. page' = [page EXCEPT ![r] = page'[r]] /\ events' \in 0 .. MaxEvents
  BY DEF Begin, IInv, Sets, TypeOK
<1>3. Changes(r) /\ attached' = [attached EXCEPT ![r] = attached'[r]]
  BY Unchanged DEF Begin
<1>4. Touches(r)
  BY <1>1, <1>2, <1>3 DEF Touches, Begin, Enter, Set, Quiet
<1> QED BY <1>1, <1>3, <1>4

\* Before the first page.
LEMMA ListingBegins ==
  ASSUME NEW r \in Resources, page'[r] = 0, attached'[r] \in SUBSET Items
  PROVE  Lists(r)'
<1>1. \A i : Rank(attached'[r], i) \in Nat
  BY RankType
<1>2. {i \in attached'[r] : Rank(attached'[r], i) < page'[r]} = {}
  BY <1>1
<1> QED BY <1>2 DEF Lists, Before

LEMMA ReadProgram ==
  LET p == <<"read">> IN p \in Seq(Labels) /\ Orderly(p) /\ \A l : Ahead(p, l) <=> l = "read"
<1> DEFINE p == <<"read">>
<1>1. p \in Seq(Labels) /\ Len(p) = 1 /\ p[1] = "read" /\ 1..Len(p) = {1}
  BY DEF Labels
<1> HIDE DEF p
<1>2. Orderly(p)
  BY <1>1 DEF Orderly, Precedes
<1>3. \A l : Ahead(p, l) <=> l = "read"
  BY <1>1 DEF Ahead
<1> QED BY <1>1, <1>2, <1>3 DEF p

LEMMA RefreshKept == ASSUME IInv, NEW r \in Resources, Refresh(r) PROVE Keeps(r)
<1> DEFINE p == IF state[r].known THEN <<"read">> ELSE <<>>
<1>1. p \in Seq(Labels) /\ Orderly(p) /\ \A l : Ahead(p, l) => l = "read"
  BY ReadProgram, EmptyOrderly, NothingAhead
<1> HIDE DEF p
<1>2. Begin(r, "refresh", p, {}) /\ state' = state /\ Set(outcome, r, "calm") /\ op[r] = "idle" /\ Used(r)
  BY DEF Refresh, p
<1>3. state' = [state EXCEPT ![r] = state'[r]] /\ outcome' = [outcome EXCEPT ![r] = outcome'[r]] /\ outcome'[r] = "calm"
  BY <1>2 DEF Set, IInv, Sets, TypeOK
<1>4. /\ op'[r] = "refresh" /\ todo'[r] = p /\ seen'[r] = {} /\ others'[r] = {}
      /\ page'[r] = page[r] /\ attached'[r] = attached[r] /\ Touches(r) /\ Changes(r)
  BY <1>1, <1>2, <1>3, Begun
<1>5. page[r] = 0
  BY <1>2, NothingAhead DEF IInv, ProgramOf, At
<1>6. Fits(r)
  BY <1>1, <1>2, <1>3, <1>4, <1>5 DEF Fits, IInv, Sets, TypeOK
<1>7. ProgramOf(r)'
  BY <1>1, <1>2, <1>3, <1>4, <1>5 DEF ProgramOf, Applying, Used, Touches
<1>8. ~At(r, "list")'
  <2>1. ASSUME p # <<>>, Head(p) = "list" PROVE FALSE
    BY <1>1, <2>1, TailAhead
  <2> QED BY <1>4, <2>1 DEF At
<1>9. SetOf(r)' /\ RefusalOf(r)' /\ ~Refused(r)'
  BY <1>3, <1>4, <1>8 DEF SetOf, Knows, Lists, Works, Removes, Ended, RefusalOf, Refused, Calm, Applying
<1> QED BY <1>4, <1>6, <1>7, <1>9 DEF Keeps

\* A plan follows on a refresh, with nothing left of it.
LEMMA Planned ==
  ASSUME IInv, NEW r \in Resources, op[r] = "refresh", todo[r] = <<>>
  PROVE  /\ page[r] = 0 /\ Used(r) /\ kinds[r] \in UsedKinds /\ outcome[r] \in {"none", "calm"}
         /\ outcome \in [Resources -> {"none", "calm", "refused", "create", "update", "delete"}]
         /\ state \in [Resources -> [known : BOOLEAN, tainted : BOOLEAN, items : SUBSET Items]]
         /\ (state[r].tainted => state[r].known)
         /\ conf[r].items \in SUBSET Items /\ attached[r] \in SUBSET Items
         /\ Starts(kinds[r], "create", kinds[r].create)
         /\ Starts(kinds[r], "update", kinds[r].update)
         /\ Starts(kinds[r], "delete", kinds[r].delete)
<1>1. page[r] = 0 /\ Used(r) /\ outcome[r] \in {"none", "calm"}
  BY DEF IInv, ProgramOf, At, Sets, TypeOK
<1>2. kinds[r] \in UsedKinds
  BY <1>1, KindPairs DEF IInv, Sets, TypeOK
<1> QED BY <1>1, <1>2, KindPrograms DEF IInv, Sets, TypeOK, Configurations

LEMMA PlanCreateKept == ASSUME IInv, NEW r \in Resources, PlanCreate(r) PROVE Keeps(r)
<1> DEFINE p == kinds[r].create
<1>1. Begin(r, "create", p, {}) /\ state' = state /\ outcome' = outcome /\ op[r] = "refresh" /\ todo[r] = <<>>
  BY DEF PlanCreate, Plan
<1>2. Starts(kinds[r], "create", p) /\ page[r] = 0 /\ Used(r) /\ outcome[r] \in {"none", "calm"}
  BY <1>1, Planned
<1> HIDE DEF p
<1>3. state' = [state EXCEPT ![r] = state'[r]] /\ outcome' = [outcome EXCEPT ![r] = outcome'[r]]
  BY <1>1, Planned
<1>4. /\ op'[r] = "create" /\ todo'[r] = p /\ seen'[r] = {} /\ others'[r] = {}
      /\ page'[r] = page[r] /\ attached'[r] = attached[r] /\ Touches(r) /\ Changes(r)
  BY <1>1, <1>2, <1>3, Begun DEF Starts
<1>5. Fits(r)
  BY <1>1, <1>2, <1>4, Planned DEF Fits, Starts
<1>6. /\ Orderly(p) /\ Ahead(p, "attach") /\ (ExclusiveKind(kinds[r]) => Ahead(p, "list") /\ Ahead(p, "detach"))
      /\ (Ahead(p, "verify") <=> kinds[r] = ClientScopes)
      /\ (kinds[r] \in ScopeKinds => Precedes(p, "detach", "attach"))
  BY <1>2 DEF Starts
<1>7. kinds' = kinds
  BY <1>4 DEF Touches
<1>8. ProgramOf(r)'
  BY <1>1, <1>2, <1>4, <1>6, <1>7 DEF ProgramOf, Applying, Used
<1>9. Exclusive(r)' <=> ExclusiveKind(kinds[r])
  BY <1>7 DEF Exclusive, ExclusiveKind
<1>10. Knows(r)' /\ Works(r)' /\ Removes(r)' /\ Ended(r)'
  BY <1>1, <1>2, <1>4, <1>6, <1>7, <1>9 DEF Knows, Works, Removes, Ended, Calm, Applying, Exact
<1>11. Lists(r)'
  BY <1>2, <1>4, Planned, <1>1, ListingBegins
<1>12. RefusalOf(r)' /\ ~Refused(r)'
  BY <1>1, <1>2, <1>4 DEF RefusalOf, Refused
<1> QED BY <1>4, <1>5, <1>8, <1>10, <1>11, <1>12 DEF Keeps, SetOf

LEMMA PlanUpdateKept == ASSUME IInv, NEW r \in Resources, PlanUpdate(r) PROVE Keeps(r)
<1> DEFINE p == kinds[r].update
<1>1. /\ Begin(r, "update", p, {}) /\ outcome' = outcome /\ op[r] = "refresh" /\ todo[r] = <<>>
      /\ Set(state, r, [state[r] EXCEPT !.items = conf[r].items]) /\ state[r].known
  BY DEF PlanUpdate, Plan
<1>2. Starts(kinds[r], "update", p) /\ page[r] = 0 /\ Used(r) /\ outcome[r] \in {"none", "calm"}
  BY <1>1, Planned
<1> HIDE DEF p
<1>3. /\ state' = [state EXCEPT ![r] = state'[r]] /\ outcome' = [outcome EXCEPT ![r] = outcome'[r]]
      /\ state'[r] = [state[r] EXCEPT !.items = conf[r].items]
  BY <1>1, Planned DEF Set
<1>4. /\ op'[r] = "update" /\ todo'[r] = p /\ seen'[r] = {} /\ others'[r] = {}
      /\ page'[r] = page[r] /\ attached'[r] = attached[r] /\ Touches(r) /\ Changes(r)
  BY <1>1, <1>2, <1>3, Begun DEF Starts
<1>5. Fits(r) /\ state'[r].items = conf[r].items
  <2>1. state[r] \in [known : BOOLEAN, tainted : BOOLEAN, items : SUBSET Items] /\ conf[r].items \in SUBSET Items
    BY <1>1, Planned
  <2>2. /\ state'[r] \in [known : BOOLEAN, tainted : BOOLEAN, items : SUBSET Items]
        /\ state'[r].known = state[r].known /\ state'[r].items = conf[r].items
    BY <1>3, <2>1
  <2> QED BY <1>1, <1>2, <1>4, <2>2 DEF Fits, Starts
<1>6. /\ Orderly(p) /\ Ahead(p, "attach") /\ Ahead(p, "list") /\ Ahead(p, "detach") /\ ~Ahead(p, "try")
      /\ (Ahead(p, "verify") <=> kinds[r] = ClientScopes)
      /\ (kinds[r] \in ScopeKinds => Precedes(p, "detach", "attach"))
  BY <1>2 DEF Starts
<1>7. kinds' = kinds /\ conf' = conf
  BY <1>4 DEF Touches
<1>8. ProgramOf(r)'
  BY <1>1, <1>2, <1>4, <1>5, <1>6, <1>7 DEF ProgramOf, Applying, Used
<1>9. Knows(r)' /\ Works(r)' /\ Removes(r)' /\ Ended(r)'
  BY <1>1, <1>2, <1>4, <1>6, <1>7 DEF Knows, Works, Removes, Ended, Calm, Applying, Exact
<1>10. Lists(r)'
  BY <1>2, <1>4, Planned, <1>1, ListingBegins
<1>11. RefusalOf(r)' /\ ~Refused(r)'
  BY <1>1, <1>2, <1>4 DEF RefusalOf, Refused
<1> QED BY <1>4, <1>5, <1>8, <1>9, <1>10, <1>11 DEF Keeps, SetOf

LEMMA PlanDeleteKept == ASSUME IInv, NEW r \in Resources, PlanDelete(r) PROVE Keeps(r)
<1> DEFINE p == kinds[r].delete
<1>0. PICK items : items = state[r].items
  OBVIOUS
<1>1. /\ Begin(r, "delete", p, items) /\ outcome' = outcome /\ state' = state
      /\ op[r] = "refresh" /\ todo[r] = <<>>
  BY <1>0 DEF PlanDelete, Plan, Begin
<1>2. Starts(kinds[r], "delete", p) /\ page[r] = 0 /\ Used(r) /\ outcome[r] \in {"none", "calm"}
  BY <1>1, Planned
<1> HIDE DEF p
<1>3. state' = [state EXCEPT ![r] = state'[r]] /\ outcome' = [outcome EXCEPT ![r] = outcome'[r]]
  BY <1>1, Planned
<1>4. items \in SUBSET Items /\ p \in Seq(Labels)
  BY <1>0, <1>1, <1>2, Planned DEF Starts
<1>5. /\ op'[r] = "delete" /\ todo'[r] = p /\ seen'[r] = items /\ others'[r] = {}
      /\ page'[r] = page[r] /\ attached'[r] = attached[r] /\ Touches(r) /\ Changes(r)
  BY <1>1, <1>3, <1>4, Begun
<1>6. Fits(r)
  BY <1>1, <1>2, <1>4, <1>5, Planned DEF Fits, Starts
<1>7. /\ Orderly(p) /\ Ahead(p, "detach") /\ (Ahead(p, "list") <=> kinds[r] = DefaultRoles)
      /\ \A l : Ahead(p, l) => l \in {"list", "resolveSurplus", "detach"}
  BY <1>2 DEF Starts
<1>8. kinds' = kinds
  BY <1>5 DEF Touches
<1>9. ProgramOf(r)'
  BY <1>1, <1>2, <1>5, <1>7, <1>8 DEF ProgramOf, Applying, Used
<1>10. Knows(r)' /\ Works(r)' /\ Removes(r)' /\ Ended(r)'
  BY <1>0, <1>1, <1>2, <1>5, <1>7, <1>8 DEF Knows, Works, Removes, Ended, Calm, Applying
<1>11. Lists(r)'
  BY <1>2, <1>5, Planned, <1>1, ListingBegins
<1>12. RefusalOf(r)' /\ ~Refused(r)'
  BY <1>1, <1>2, <1>5 DEF RefusalOf, Refused
<1> QED BY <1>5, <1>6, <1>9, <1>10, <1>11, <1>12 DEF Keeps, SetOf

LEMMA PlanNothingKept == ASSUME IInv, NEW r \in Resources, PlanNothing(r) PROVE Keeps(r)
<1>1. /\ Begin(r, "idle", <<>>, {}) /\ Set(outcome, r, "none") /\ state' = state
      /\ op[r] = "refresh" /\ todo[r] = <<>>
  BY DEF PlanNothing, Plan
<1>2. page[r] = 0
  BY <1>1, Planned
<1>3. /\ state' = [state EXCEPT ![r] = state'[r]] /\ outcome' = [outcome EXCEPT ![r] = outcome'[r]]
      /\ outcome'[r] = "none"
  BY <1>1, Planned DEF Set
<1>4. /\ op'[r] = "idle" /\ todo'[r] = <<>> /\ seen'[r] = {} /\ others'[r] = {}
      /\ page'[r] = page[r] /\ attached'[r] = attached[r] /\ Touches(r) /\ Changes(r)
  BY <1>1, <1>3, Begun, EmptyOrderly
<1>5. Fits(r)
  BY <1>1, <1>2, <1>3, <1>4, Planned, EmptyOrderly DEF Fits
<1> QED BY <1>2, <1>3, <1>4, <1>5, StoppedKept DEF Keeps

\* What an operation has done when nothing is left of it is its outcome.
LEMMA AppliedKept == ASSUME IInv, NEW r \in Resources, Applied(r) PROVE Keeps(r)
<1>1. /\ Begin(r, "idle", <<>>, {}) /\ op[r] \in {"create", "update", "delete"} /\ todo[r] = <<>>
      /\ Set(state, r, IF op[r] = "delete" THEN None ELSE state[r])
      /\ Set(outcome, r, IF outcome[r] = "calm" THEN op[r] ELSE "none")
  BY DEF Applied
<1>2. page[r] = 0 /\ ProgramOf(r) /\ SetOf(r) /\ \A l : ~Ahead(todo[r], l)
  BY <1>1, NothingAhead DEF IInv, ProgramOf, At
<1>3. /\ state' = [state EXCEPT ![r] = state'[r]] /\ outcome' = [outcome EXCEPT ![r] = outcome'[r]]
      /\ outcome'[r] = (IF outcome[r] = "calm" THEN op[r] ELSE "none")
      /\ state'[r] = (IF op[r] = "delete" THEN None ELSE state[r])
  BY <1>1 DEF Set, IInv, Sets, TypeOK
<1>4. /\ op'[r] = "idle" /\ todo'[r] = <<>> /\ seen'[r] = {} /\ others'[r] = {}
      /\ page'[r] = page[r] /\ attached'[r] = attached[r] /\ Touches(r) /\ Changes(r)
  BY <1>1, <1>3, Begun, EmptyOrderly
<1>5. Fits(r)
  <2>1. /\ state'[r] \in [known : BOOLEAN, tainted : BOOLEAN, items : SUBSET Items]
        /\ (state'[r].tainted => state'[r].known)
    BY <1>3 DEF None, IInv, Sets, TypeOK
  <2> QED BY <1>1, <1>2, <1>3, <1>4, <2>1, EmptyOrderly DEF Fits
<1>6. ProgramOf(r)'
  BY <1>2, <1>4, EmptyOrderly DEF ProgramOf, Applying, At
<1>7. kinds' = kinds /\ conf' = conf /\ existing' = existing
  BY <1>4 DEF Touches
<1>8. Ended(r)'
  BY <1>1, <1>2, <1>3, <1>4, <1>7 DEF Ended, SetOf, Works, Calm, Applying, Exact, Exclusive, Present
<1>9. Knows(r)' /\ Lists(r)' /\ Works(r)' /\ Removes(r)' /\ RefusalOf(r)' /\ ~Refused(r)'
  BY <1>1, <1>3, <1>4 DEF Knows, Lists, Works, Removes, RefusalOf, Refused, Applying, Calm, At
<1> QED BY <1>4, <1>5, <1>6, <1>8, <1>9 DEF Keeps, SetOf

-----------------------------------------------------------------------------
(* Listing                                                                 *)

\* Where a program is, and what follows.
LEMMA InProgram ==
  ASSUME IInv, NEW r \in Resources, todo[r] # <<>>
  PROVE  /\ ProgramOf(r) /\ SetOf(r) /\ RefusalOf(r)
         /\ Tail(todo[r]) \in Seq(Labels) /\ Head(todo[r]) \in Labels /\ op[r] # "idle"
         /\ outcome[r] \in {"none", "calm"}
         /\ \A l : Ahead(todo[r], l) <=> (l = Head(todo[r]) \/ Ahead(Tail(todo[r]), l))
         /\ ~Ahead(Tail(todo[r]), Head(todo[r]))
         /\ Head(todo[r]) \in {"detach", "attach", "compare"} => ~Ahead(Tail(todo[r]), "list")
         /\ Head(todo[r]) = "verify" => ~Ahead(Tail(todo[r]), "detach")
         /\ Head(todo[r]) = "attach" => ~Ahead(Tail(todo[r]), "verify")
         /\ Head(todo[r]) = "attach" /\ kinds[r] \in ScopeKinds /\ Applying(r) => ~Ahead(Tail(todo[r]), "detach")
         /\ Head(todo[r]) \in {"try", "organization"} => ~Ahead(Tail(todo[r]), "attach") /\ ~Ahead(Tail(todo[r]), "detach")
         /\ Head(todo[r]) = "read" => Tail(todo[r]) = <<>>
         /\ Head(todo[r]) \notin {"list", "read"} => page[r] = 0
<1>1. ProgramOf(r) /\ SetOf(r) /\ RefusalOf(r) /\ todo[r] \in Seq(Labels) /\ outcome[r] \in {"none", "calm", "refused", "create", "update", "delete"}
  BY DEF IInv, Sets, TypeOK
<1>2. /\ Tail(todo[r]) \in Seq(Labels) /\ Head(todo[r]) \in Labels
      /\ \A l : Ahead(todo[r], l) <=> (l = Head(todo[r]) \/ Ahead(Tail(todo[r]), l))
  BY <1>1, TailAhead
<1>3. Orderly(todo[r])
  BY <1>1 DEF ProgramOf
<1>4. Head(todo[r]) = "attach" /\ kinds[r] \in ScopeKinds /\ Applying(r) => ~Ahead(Tail(todo[r]), "detach")
  BY <1>1, TailPrecedes DEF ProgramOf
<1>5. op[r] # "idle" /\ outcome[r] \in {"none", "calm"} /\ (Head(todo[r]) \notin {"list", "read"} => page[r] = 0)
  BY <1>1 DEF ProgramOf, At
<1> QED BY <1>1, <1>2, <1>3, <1>4, <1>5, TailOrderly

\* Which operation has it.
LEMMA InOperation ==
  ASSUME IInv, NEW r \in Resources, todo[r] # <<>>
  PROVE  /\ Head(todo[r]) \notin {"list", "read", "resolveSurplus", "detach"} => Applying(r)
         /\ Head(todo[r]) \in {"resolveSurplus", "detach"} => Applying(r) \/ op[r] = "delete"
         /\ Head(todo[r]) = "verify" => kinds[r] = ClientScopes
<1>1. op[r] \in {"refresh", "create", "update", "delete"}
  BY InProgram DEF IInv, Sets, TypeOK
<1> QED BY <1>1, InProgram DEF ProgramOf, Applying

\* Keycloak is only looked at, and the operation goes on.
Looks(r) == attached' = attached /\ NoFault /\ Quiet /\ UNCHANGED op

LEMMA Looked ==
  ASSUME IInv, NEW r \in Resources, Looks(r)
  PROVE  /\ op'[r] = op[r] /\ attached'[r] = attached[r] /\ outcome'[r] = outcome[r]
         /\ kinds' = kinds /\ conf' = conf /\ existing' = existing
         /\ op' = [op EXCEPT ![r] = op'[r]] /\ outcome' = [outcome EXCEPT ![r] = outcome'[r]]
         /\ attached' = [attached EXCEPT ![r] = attached'[r]] /\ Changes(r) /\ events' \in 0 .. MaxEvents
         /\ attached'[Other(r)] = attached[Other(r)]
<1>1. /\ op' = op /\ outcome' = outcome /\ attached' = attached /\ events' = events
      /\ kinds' = kinds /\ conf' = conf /\ existing' = existing
  BY DEF Looks, NoFault, Quiet
<1>2. /\ op = [op EXCEPT ![r] = op[r]] /\ outcome = [outcome EXCEPT ![r] = outcome[r]]
      /\ attached = [attached EXCEPT ![r] = attached[r]] /\ events \in 0 .. MaxEvents
  BY DEF IInv, Sets, TypeOK
<1>3. Changes(r)
  BY <1>1, Unchanged
<1> QED BY <1>1, <1>2, <1>3

LEMMA Same ==
  ASSUME Sets, NEW r \in Resources
  PROVE  /\ todo = [todo EXCEPT ![r] = todo[r]] /\ seen = [seen EXCEPT ![r] = seen[r]]
         /\ others = [others EXCEPT ![r] = others[r]] /\ page = [page EXCEPT ![r] = page[r]]
         /\ state = [state EXCEPT ![r] = state[r]] /\ attached = [attached EXCEPT ![r] = attached[r]]
         /\ op = [op EXCEPT ![r] = op[r]] /\ outcome = [outcome EXCEPT ![r] = outcome[r]]
         /\ todo[r] \in Seq(Labels) /\ seen[r] \in SUBSET Items /\ others[r] \in SUBSET Items
         /\ page[r] \in Nat /\ attached[r] \in SUBSET Items
         /\ state[r] \in [known : BOOLEAN, tainted : BOOLEAN, items : SUBSET Items]
         /\ (state[r].tainted => state[r].known)
         /\ op[r] \in {"idle", "refresh", "create", "update", "delete"}
         /\ outcome[r] \in {"none", "calm", "refused", "create", "update", "delete"}
         /\ conf[r].items \in SUBSET Items /\ events \in 0 .. MaxEvents
BY DEF Sets, TypeOK, Configurations

\* A page that is not empty.
LEMMA PageKept ==
  ASSUME IInv, NEW r \in Resources, At(r, "list") \/ At(r, "read"), Looks(r), kinds[r].paged,
         Set(seen, r, Before(r) \cup Page(attached[r], page[r])), Set(page, r, page[r] + PageSize),
         todo' = todo, state' = state, others' = others
  PROVE  Keeps(r)
<1> Sets /\ todo[r] # <<>> /\ PageSize \in Nat \ {0}
  BY BoundsAssumption DEF IInv, At
<1>1. /\ todo' = [todo EXCEPT ![r] = todo'[r]] /\ others' = [others EXCEPT ![r] = others'[r]]
      /\ state' = [state EXCEPT ![r] = state'[r]]
      /\ todo'[r] = todo[r] /\ others'[r] = others[r] /\ state'[r] = state[r]
  BY Same
<1>2. /\ seen' = [seen EXCEPT ![r] = seen'[r]] /\ page' = [page EXCEPT ![r] = page'[r]]
      /\ seen'[r] = Before(r) \cup Page(attached[r], page[r]) /\ page'[r] = page[r] + PageSize
  BY DEF Set, Sets, TypeOK
<1>3. page'[r] \in Nat \ {0}
  BY <1>2, Same
<1>4. seen'[r] \in SUBSET Items
  BY <1>2, Same DEF Before, Page
<1>5. Touches(r) /\ Fits(r) /\ Changes(r)
  BY <1>1, <1>2, <1>3, <1>4, Looked, Same DEF Touches, Fits
<1>6. ProgramOf(r)'
  BY <1>1, Looked, InProgram DEF ProgramOf, Applying, Used, At
<1>7. Head(todo[r]) \in {"list", "read"}
  BY DEF At
<1>8. Knows(r)'
  <2>1. Ahead(todo[r], "list") \/ (~Ahead(todo[r], "attach") /\ ~Ahead(todo[r], "detach"))
    <3>1. CASE Head(todo[r]) = "list"
      BY <3>1, InProgram
    <3>2. CASE Head(todo[r]) = "read"
      <4>1. Tail(todo[r]) = <<>> /\ \A l : Ahead(todo[r], l) <=> (l = "read" \/ Ahead(Tail(todo[r]), l))
        BY <3>2, InProgram
      <4> QED BY <4>1, NothingAhead
    <3> QED BY <1>7, <3>1, <3>2
  <2> QED BY <1>1, <2>1 DEF Knows
<1>9. Works(r)' /\ Ended(r)'
  BY <1>1, Looked, InProgram DEF SetOf, Works, Ended, Calm, Applying, Exact, Exclusive, Present
<1>10. Removes(r)'
  <2>1. op[r] = "delete" => kinds[r] = DefaultRoles
    BY <1>7, InProgram DEF ProgramOf
  <2>2. op[r] # "delete"
    BY <2>1, KindPairs DEF Sets, TypeOK
  <2> QED BY <2>2, Looked DEF Removes
<1>11. Lists(r)'
  <2> SUFFICES ASSUME Calm(r), At(r, "list") PROVE Before(r)' = {i \in attached[r] : Rank(attached[r], i) < page[r] + PageSize}
    BY <1>1, <1>2, Looked DEF Lists, Calm, At
  <2>1. Before(r) = {i \in attached[r] : Rank(attached[r], i) < page[r]}
    BY InProgram DEF SetOf, Lists
  <2>2. attached[r] \in SUBSET Items /\ page[r] \in Nat
    BY Same
  <2>3. seen'[r] = {i \in attached[r] : Rank(attached[r], i) < page[r] + PageSize}
    BY <1>2, <2>1, <2>2, NextPage
  <2> QED BY <1>3, <2>3 DEF Before
<1>12. RefusalOf(r)' /\ (Refused(r)' => Refused(r))
  BY <1>1, Looked, InProgram DEF RefusalOf, Refused, Calm, Applying
<1> QED BY <1>5, <1>6, <1>8, <1>9, <1>10, <1>11, <1>12 DEF Keeps, SetOf

\* The end of a listing to go on with.
LEMMA ListedKept ==
  ASSUME IInv, NEW r \in Resources, At(r, "list"), Looks(r), NEW items \in SUBSET Items,
         Calm(r) => items = attached[r],
         Set(seen, r, items), Set(page, r, 0), Set(todo, r, Tail(todo[r])), state' = state, others' = others
  PROVE  Keeps(r)
<1> Sets /\ todo[r] # <<>> /\ Head(todo[r]) = "list"
  BY DEF IInv, At
<1>1. /\ others' = [others EXCEPT ![r] = others'[r]] /\ state' = [state EXCEPT ![r] = state'[r]]
      /\ others'[r] = others[r] /\ state'[r] = state[r]
  BY Same
<1>2. /\ seen' = [seen EXCEPT ![r] = seen'[r]] /\ page' = [page EXCEPT ![r] = page'[r]]
      /\ todo' = [todo EXCEPT ![r] = todo'[r]]
      /\ seen'[r] = items /\ page'[r] = 0 /\ todo'[r] = Tail(todo[r])
  BY DEF Set, Sets, TypeOK
<1>2a. /\ op'[r] = op[r] /\ attached'[r] = attached[r] /\ outcome'[r] = outcome[r]
       /\ attached'[Other(r)] = attached[Other(r)] /\ kinds' = kinds /\ conf' = conf /\ existing' = existing
       /\ todo'[r] = Tail(todo[r])
  BY <1>1, <1>2, Looked
<1>2b. \A l \in {"attach", "detach", "verify"} : Ahead(todo'[r], l) <=> Ahead(todo[r], l)
  BY <1>2a, InProgram
<1>3. Touches(r) /\ Fits(r) /\ Changes(r)
  BY <1>1, <1>2, Looked, Same, InProgram DEF Touches, Fits
<1>4. ProgramOf(r)'
  BY <1>1, <1>2, Looked, Advanced
<1>5. Knows(r)'
  BY <1>2, Looked, InProgram DEF Knows, Calm
<1>6. Works(r)' /\ Ended(r)'
  <2>1. Works(r)'
    BY <1>1, <1>2, <1>2a, <1>2b, InProgram DEF SetOf, Works, Calm, Applying, Exact, Exclusive, Present
  <2>2. Ended(r)'
    BY <1>2a, InProgram DEF Ended
  <2> QED BY <2>1, <2>2
<1>7. Removes(r)'
  BY <1>1, <1>2, <1>2a, <1>2b, InProgram DEF SetOf, Removes, Calm
<1>8. Lists(r)'
  BY <1>2, Looked, Same, ListingBegins
<1>9. RefusalOf(r)' /\ (Refused(r)' => Refused(r))
  BY <1>1, <1>2, <1>2a, <1>2b, InProgram DEF RefusalOf, Refused, Calm, Applying
<1> QED BY <1>3, <1>4, <1>5, <1>6, <1>7, <1>8, <1>9 DEF Keeps, SetOf

\* The end of a Read.
LEMMA ReadKept ==
  ASSUME IInv, NEW r \in Resources, At(r, "read"), Looks(r), NEW items \in SUBSET Items,
         Set(seen, r, {}), Set(page, r, 0), Set(todo, r, Tail(todo[r])),
         Set(state, r, [state[r] EXCEPT !.items = items]), others' = others
  PROVE  Keeps(r)
<1> Sets /\ todo[r] # <<>> /\ Head(todo[r]) = "read"
  BY DEF IInv, At
<1>1. others' = [others EXCEPT ![r] = others'[r]] /\ others'[r] = others[r]
  BY Same
<1>2. /\ seen' = [seen EXCEPT ![r] = seen'[r]] /\ page' = [page EXCEPT ![r] = page'[r]]
      /\ todo' = [todo EXCEPT ![r] = todo'[r]] /\ state' = [state EXCEPT ![r] = state'[r]]
      /\ seen'[r] = {} /\ page'[r] = 0 /\ todo'[r] = Tail(todo[r])
      /\ state'[r] = [state[r] EXCEPT !.items = items]
  BY DEF Set, Sets, TypeOK
<1>3. todo'[r] = <<>> /\ (\A l : ~Ahead(todo'[r], l)) /\ \A l : Ahead(todo[r], l) <=> l = "read"
  <2>1. Tail(todo[r]) = <<>>
    BY InProgram
  <2>2. \A l : Ahead(todo[r], l) <=> (l = "read" \/ Ahead(<<>>, l))
    BY <2>1, InProgram
  <2> QED BY <1>2, <2>1, <2>2, NothingAhead
<1>4. state'[r] \in [known : BOOLEAN, tainted : BOOLEAN, items : SUBSET Items] /\ (state'[r].tainted => state'[r].known)
  <2>1. state[r] \in [known : BOOLEAN, tainted : BOOLEAN, items : SUBSET Items] /\ (state[r].tainted => state[r].known)
    BY Same
  <2> QED BY <1>2, <2>1
<1>5. Touches(r) /\ Fits(r) /\ Changes(r)
  BY <1>1, <1>2, <1>4, Looked, Same, InProgram DEF Touches, Fits
<1>6. ProgramOf(r)'
  BY <1>2, <1>3, Looked, Advanced
<1>7. Knows(r)' /\ Lists(r)'
  BY <1>3 DEF Knows, Lists, At
<1>8. Works(r)' /\ Ended(r)'
  BY <1>1, <1>2, <1>3, Looked, InProgram DEF SetOf, Works, Ended, Calm, Applying, Exact, Exclusive, Present
<1>9. op[r] # "delete"
  BY <1>3, InProgram DEF ProgramOf
<1>10. Removes(r)'
  BY <1>9, Looked DEF Removes
<1>11. RefusalOf(r)' /\ (Refused(r)' => Refused(r))
  BY <1>1, <1>3, Looked, InProgram DEF RefusalOf, Refused, Calm, Applying
<1> QED BY <1>5, <1>6, <1>7, <1>8, <1>10, <1>11 DEF Keeps, SetOf

LEMMA ListKept == ASSUME IInv, NEW r \in Resources, List(r) PROVE Keeps(r)
<1> DEFINE items == IF kinds[r].paged THEN Before(r) ELSE attached[r]
<1>1. Sets /\ attached' = attached /\ Quiet /\ (At(r, "list") \/ At(r, "read"))
  BY DEF List, IInv
<1>2. CASE Fault(r) /\ Stops(r)
  BY <1>1, <1>2, Faulted
<1>3. CASE Listed(r) /\ NoFault /\ UNCHANGED <<op, others>>
  <2>1. Looks(r) /\ others' = others
    BY <1>1, <1>3 DEF Looks
  <2>2. CASE kinds[r].paged /\ Page(attached[r], page[r]) # {}
    <3>1. /\ Set(seen, r, Before(r) \cup Page(attached[r], page[r])) /\ Set(page, r, page[r] + PageSize)
          /\ todo' = todo /\ state' = state
      BY <1>3, <2>2 DEF Listed
    <3> QED BY <1>1, <2>1, <2>2, <3>1, PageKept
  <2>3. CASE ~(kinds[r].paged /\ Page(attached[r], page[r]) # {})
    <3>1. Found(r, items)
      BY <1>3, <2>3 DEF Listed
    <3>2. items \in SUBSET Items
      BY <1>1, Same DEF Before
    <3>3. Calm(r) /\ At(r, "list") => items = attached[r]
      <4>1. CASE kinds[r].paged /\ Calm(r) /\ At(r, "list")
        <5>1. Before(r) = {i \in attached[r] : Rank(attached[r], i) < page[r]}
          BY <4>1 DEF IInv, SetOf, Lists
        <5>2. attached[r] \in SUBSET Items /\ page[r] \in Nat /\ Page(attached[r], page[r]) = {}
          BY <1>1, <2>3, <4>1, Same
        <5>3. \A i \in attached[r] : Rank(attached[r], i) < page[r]
          BY <5>2, LastPage
        <5>4. Before(r) = attached[r]
          BY <5>1, <5>3
        <5> QED BY <4>1, <5>4
      <4> QED BY <4>1
    <3>4. PICK found : found = items
      OBVIOUS
    <3>5. CASE At(r, "list")
      <4>1. Set(seen, r, found) /\ Set(page, r, 0) /\ Set(todo, r, Tail(todo[r])) /\ state' = state
        BY <3>1, <3>4, <3>5 DEF Found, At, Set
      <4> HIDE DEF items
      <4> QED BY <2>1, <3>2, <3>3, <3>4, <3>5, <4>1, ListedKept
    <3>6. CASE At(r, "read")
      <4>1. /\ Set(seen, r, {}) /\ Set(page, r, 0) /\ Set(todo, r, Tail(todo[r]))
            /\ Set(state, r, [state[r] EXCEPT !.items = found])
        BY <3>1, <3>4, <3>6 DEF Found, At, Set
      <4> HIDE DEF items
      <4> QED BY <2>1, <3>2, <3>4, <3>6, <4>1, ReadKept
    <3> QED BY <1>1, <3>5, <3>6
  <2> QED BY <2>2, <2>3
<1> QED BY <1>2, <1>3 DEF List

-----------------------------------------------------------------------------
(* Claiming, looking at the other list, comparing                          *)

\* A program goes on with nothing else changed.
LEMMA Onward ==
  ASSUME IInv, NEW r \in Resources, todo[r] # <<>>, Advance(r),
         seen' = seen, others' = others, page' = page, state' = state
  PROVE  /\ todo'[r] = Tail(todo[r]) /\ op'[r] = op[r]
         /\ seen'[r] = seen[r] /\ others'[r] = others[r] /\ page'[r] = page[r] /\ state'[r] = state[r]
         /\ todo' = [todo EXCEPT ![r] = todo'[r]] /\ op' = [op EXCEPT ![r] = op'[r]]
         /\ seen' = [seen EXCEPT ![r] = seen'[r]] /\ others' = [others EXCEPT ![r] = others'[r]]
         /\ page' = [page EXCEPT ![r] = page'[r]] /\ state' = [state EXCEPT ![r] = state'[r]]
         /\ (outcome' = outcome => Fits(r))
<1>1. todo'[r] = Tail(todo[r]) /\ todo' = [todo EXCEPT ![r] = todo'[r]]
  BY DEF Advance, Set, IInv, Sets
<1>2. Sets /\ op' = op
  BY DEF IInv, Advance
<1> QED BY <1>1, <1>2, Same, InProgram DEF Fits

LEMMA ClaimKept == ASSUME IInv, NEW r \in Resources, Claim(r) PROVE Keeps(r)
<1> Sets /\ todo[r] # <<>> /\ Head(todo[r]) = "claim" /\ Looks(r) /\ seen' = seen /\ others' = others /\ page' = page
  BY DEF IInv, At, Claim, Looks, Advance
<1>1. /\ todo'[r] = Tail(todo[r]) /\ todo' = [todo EXCEPT ![r] = todo'[r]]
      /\ state'[r] = [known |-> TRUE, tainted |-> FALSE, items |-> Wanted(r)] /\ state' = [state EXCEPT ![r] = state'[r]]
  BY DEF Claim, Advance, Set, Sets, TypeOK
<1>2. /\ seen' = [seen EXCEPT ![r] = seen'[r]] /\ others' = [others EXCEPT ![r] = others'[r]]
      /\ page' = [page EXCEPT ![r] = page'[r]]
      /\ seen'[r] = seen[r] /\ others'[r] = others[r] /\ page'[r] = 0
  BY Same, InProgram
<1>2a. /\ op'[r] = op[r] /\ attached'[r] = attached[r] /\ outcome'[r] = outcome[r]
       /\ attached'[Other(r)] = attached[Other(r)] /\ kinds' = kinds /\ conf' = conf /\ existing' = existing
       /\ todo'[r] = Tail(todo[r])
  BY <1>1, <1>2, Looked
<1>2b. \A l \in {"attach", "detach", "verify", "list"} : Ahead(todo'[r], l) <=> Ahead(todo[r], l)
  BY <1>2a, InProgram
<1>3. Wanted(r) \in SUBSET Items /\ (op[r] = "update" => Wanted(r) = state[r].items)
  BY Same DEF Wanted
<1>4. /\ state'[r] \in [known : BOOLEAN, tainted : BOOLEAN, items : SUBSET Items] /\ state'[r].known
      /\ state'[r].items = Wanted(r)
  BY <1>1, <1>3
<1>5. Touches(r) /\ Fits(r) /\ Changes(r)
  BY <1>1, <1>2, <1>4, Looked, Same, InProgram DEF Touches, Fits
<1>6. ProgramOf(r)'
  BY <1>1, <1>2, <1>3, <1>4, Looked, Advanced
<1>7. Knows(r)'
  BY <1>1, <1>2, <1>2a, <1>2b, InProgram DEF SetOf, Knows, Calm, Applying, Exact, Exclusive
<1>8. Works(r)' /\ Ended(r)'
  <2>1. Works(r)'
    BY <1>1, <1>2, <1>2a, <1>2b, InProgram DEF SetOf, Works, Calm, Applying, Exact, Exclusive, Present
  <2>2. Ended(r)'
    BY <1>2a, InProgram DEF Ended
  <2> QED BY <2>1, <2>2
<1>9. op[r] # "delete"
  BY InProgram DEF ProgramOf
<1>10. Removes(r)'
  BY <1>9, Looked DEF Removes
<1>11. Lists(r)'
  BY <1>2, Looked, Same, ListingBegins
<1>12. RefusalOf(r)' /\ (Refused(r)' => Refused(r))
  BY <1>1, <1>2, <1>2a, <1>2b, InProgram DEF RefusalOf, Refused, Calm, Applying
<1> QED BY <1>5, <1>6, <1>7, <1>8, <1>10, <1>11, <1>12 DEF Keeps, SetOf

LEMMA TryKept == ASSUME IInv, NEW r \in Resources, Try(r) PROVE Keeps(r)
<1> Sets /\ todo[r] # <<>> /\ Head(todo[r]) = "try" /\ op' = op /\ attached' = attached /\ others' = others /\ page' = page /\ Quiet
  BY DEF IInv, At, Try, Advance
<1>1. todo'[r] = Tail(todo[r]) /\ todo' = [todo EXCEPT ![r] = todo'[r]]
  BY DEF Try, Advance, Set, Sets
<1>2. /\ op' = [op EXCEPT ![r] = op'[r]] /\ others' = [others EXCEPT ![r] = others'[r]]
      /\ page' = [page EXCEPT ![r] = page'[r]] /\ attached' = [attached EXCEPT ![r] = attached'[r]]
      /\ op'[r] = op[r] /\ others'[r] = others[r] /\ page'[r] = 0 /\ attached'[r] = attached[r]
      /\ kinds' = kinds /\ existing' = existing /\ conf' = conf /\ attached'[Other(r)] = attached[Other(r)]
  BY Same, InProgram DEF Quiet
<1>3. ~Ahead(todo'[r], "attach") /\ ~Ahead(todo'[r], "detach") /\ op[r] # "update" /\ op[r] # "delete"
  BY <1>1, InProgram DEF ProgramOf
<1>4. /\ seen' = [seen EXCEPT ![r] = seen'[r]] /\ state' = [state EXCEPT ![r] = state'[r]]
      /\ outcome' = [outcome EXCEPT ![r] = outcome'[r]] /\ outcome'[r] \in {outcome[r], "none"}
      /\ events' \in 0 .. MaxEvents /\ seen'[r] \in SUBSET Items
      /\ state'[r] \in [known : BOOLEAN, tainted : BOOLEAN, items : SUBSET Items] /\ (state'[r].tainted => state'[r].known)
  <2>1. CASE Set(seen, r, attached[r]) /\ Set(state, r, [state[r] EXCEPT !.items = attached[r]]) /\ NoFault
    <3>1. /\ seen'[r] = attached[r] /\ state'[r] = [state[r] EXCEPT !.items = attached[r]]
          /\ seen' = [seen EXCEPT ![r] = seen'[r]] /\ state' = [state EXCEPT ![r] = state'[r]]
      BY <2>1 DEF Set, Sets, TypeOK
    <3>2. /\ state[r] \in [known : BOOLEAN, tainted : BOOLEAN, items : SUBSET Items] /\ (state[r].tainted => state[r].known)
          /\ attached[r] \in SUBSET Items
      BY Same
    <3>3. state'[r] \in [known : BOOLEAN, tainted : BOOLEAN, items : SUBSET Items] /\ (state'[r].tainted => state'[r].known)
      BY <3>1, <3>2
    <3> QED BY <2>1, <3>1, <3>2, <3>3, Same DEF NoFault
  <2>2. CASE Fault(r) /\ Set(seen, r, Wanted(r)) /\ UNCHANGED state
    <3>1. /\ seen'[r] = Wanted(r) /\ seen' = [seen EXCEPT ![r] = seen'[r]]
          /\ outcome'[r] = "none" /\ outcome' = [outcome EXCEPT ![r] = outcome'[r]]
      BY <2>2 DEF Fault, Set, Sets, TypeOK
    <3>2. Wanted(r) \in SUBSET Items
      BY Same DEF Wanted
    <3> QED BY <2>2, <3>1, <3>2, Same, EventCounted DEF Fault
  <2> QED BY <2>1, <2>2 DEF Try
<1>5. Touches(r) /\ Fits(r) /\ Changes(r)
  BY <1>1, <1>2, <1>4, Unchanged, Same, InProgram DEF Touches, Fits
<1>6. ProgramOf(r)'
  BY <1>1, <1>2, <1>3, <1>4, Advanced
<1>7. Knows(r)' /\ Removes(r)'
  BY <1>2, <1>3 DEF Knows, Removes
<1>8. Works(r)' /\ Ended(r)'
  BY <1>1, <1>2, <1>4, InProgram DEF SetOf, Works, Ended, Calm, Applying, Exact, Exclusive, Present
<1>9. Lists(r)'
  BY <1>2, Same, ListingBegins
<1>10. RefusalOf(r)' /\ (Refused(r)' => Refused(r))
  BY <1>1, <1>2, <1>3, <1>4, InProgram DEF RefusalOf, Refused, Calm, Applying
<1> QED BY <1>5, <1>6, <1>7, <1>8, <1>9, <1>10 DEF Keeps, SetOf

\* A program goes on: with a set that is as it should be by then.
LEMMA PassedKept ==
  ASSUME IInv, NEW r \in Resources, todo[r] # <<>>, Head(todo[r]) \notin {"list", "read", "verify"},
         Looks(r), Advance(r), seen' = seen, others' = others, page' = page, state' = state,
         Calm(r) /\ Applying(r) /\ Head(todo[r]) = "attach" /\ kinds[r] # RealmClientScopes => Present(r) \subseteq attached[r],
         Calm(r) /\ Applying(r) /\ Head(todo[r]) = "detach" /\ Exact(r) => attached[r] \subseteq conf[r].items,
         Calm(r) /\ op[r] = "delete" /\ Head(todo[r]) = "detach" =>
           IF kinds[r] = DefaultRoles THEN attached[r] = {} ELSE attached[r] \cap state[r].items = {}
  PROVE  Keeps(r)
<1> Sets /\ outcome' = outcome /\ page[r] = 0
  BY InProgram DEF IInv, Looks, NoFault
<1>0. /\ op'[r] = op[r] /\ attached'[r] = attached[r] /\ outcome'[r] = outcome[r]
      /\ attached'[Other(r)] = attached[Other(r)] /\ kinds' = kinds /\ conf' = conf /\ existing' = existing
      /\ todo'[r] = Tail(todo[r]) /\ seen'[r] = seen[r] /\ others'[r] = others[r] /\ state'[r] = state[r]
  BY Looked, Onward
<1>1. Touches(r) /\ Fits(r) /\ Changes(r)
  BY Looked, Onward DEF Touches
<1>2. ProgramOf(r)'
  BY Looked, Onward, Advanced
<1>3. Knows(r)'
  BY <1>0, InProgram DEF SetOf, Knows, Calm, Applying, Exact, Exclusive
<1>4. Works(r)'
  BY <1>0, InProgram DEF SetOf, Works, Calm, Applying, Exact, Exclusive, Present
<1>5. Removes(r)'
  BY <1>0, InProgram DEF SetOf, Removes, Calm
<1>6. Lists(r)'
  BY Looked, Onward, Same, ListingBegins
<1>7. Ended(r)' /\ RefusalOf(r)' /\ (Refused(r)' => Refused(r))
  BY <1>0, InProgram DEF Ended, RefusalOf, Refused, Calm, Applying
<1> QED BY <1>1, <1>2, <1>3, <1>4, <1>5, <1>6, <1>7 DEF Keeps, SetOf

\* What the other list of a client holds when this one looks at it.
LEMMA LookedAway ==
  ASSUME IInv, NEW r \in Resources, At(r, "verify"), attached[Other(r)] \cap conf[r].items # {}
  PROVE  ~Refused(Other(r))
<1> DEFINE s == Other(r)
<1> SUFFICES ASSUME Refused(s) PROVE FALSE
  OBVIOUS
<1>1. s \in Resources /\ todo[r] # <<>> /\ Head(todo[r]) = "verify" /\ kinds \in Kinds
  BY OtherOne DEF IInv, Sets, TypeOK, At
<1> HIDE DEF s
<1>2. ProgramOf(s) /\ SetOf(s) /\ RefusalOf(s) /\ conf[r].items \cap conf[s].items = {}
  BY <1>1, OtherOne DEF IInv, Sets, Disjoint, Resources, Other, s
<1>3. kinds[r] = ClientScopes
  BY <1>1, InOperation
<1>4. kinds[s] = ClientScopes
  BY <1>1, <1>3, KindPairs DEF ScopeKinds, Resources
<1>5. attached[s] \subseteq conf[s].items
  <2>1. CASE outcome[s] = "refused"
    BY <1>2, <2>1 DEF RefusalOf
  <2>2. CASE Calm(s) /\ Applying(s) /\ ~Ahead(todo[s], "verify")
    <3>1. ~Ahead(todo[s], "detach")
      BY <1>2, <1>4, <2>2 DEF ProgramOf
    <3>2. Exact(s)
      BY <1>4 DEF Exact, Exclusive, ScopeKinds
    <3> QED BY <1>2, <2>2, <3>1, <3>2 DEF SetOf, Works
  <2> QED BY <2>1, <2>2 DEF Refused
<1> QED BY <1>2, <1>5 DEF s

LEMMA VerifyKept == ASSUME IInv, NEW r \in Resources, Verify(r) PROVE Keeps(r)
<1> Sets /\ todo[r] # <<>> /\ Head(todo[r]) = "verify" /\ attached' = attached /\ Quiet /\ At(r, "verify") /\ kinds \in Kinds
  BY DEF IInv, Sets, TypeOK, At, Verify
<1>1. CASE Fault(r) /\ Stops(r)
  BY <1>1, Faulted
<1>2. CASE Set(others, r, attached[Other(r)]) /\ Advance(r) /\ NoFault /\ UNCHANGED <<seen, page, state>>
  <2>1. Looks(r) /\ outcome' = outcome /\ page[r] = 0 /\ Other(r) \in Resources
    BY <1>2, InProgram, OtherOne DEF Looks, Advance, NoFault
  <2>2. /\ todo'[r] = Tail(todo[r]) /\ todo' = [todo EXCEPT ![r] = todo'[r]]
        /\ others'[r] = attached[Other(r)] /\ others' = [others EXCEPT ![r] = others'[r]]
    BY <1>2 DEF Advance, Set, Sets, TypeOK
  <2>3. /\ seen' = [seen EXCEPT ![r] = seen'[r]] /\ page' = [page EXCEPT ![r] = page'[r]]
        /\ state' = [state EXCEPT ![r] = state'[r]]
        /\ seen'[r] = seen[r] /\ page'[r] = 0 /\ state'[r] = state[r]
    BY <1>2, <2>1, Same
  <2>2a. /\ op'[r] = op[r] /\ attached'[r] = attached[r] /\ outcome'[r] = outcome[r]
         /\ attached'[Other(r)] = attached[Other(r)] /\ kinds' = kinds /\ conf' = conf /\ existing' = existing
         /\ todo'[r] = Tail(todo[r])
    BY <2>1, <2>2, Looked
  <2>2b. \A l \in {"attach", "detach", "list"} : Ahead(todo'[r], l) <=> Ahead(todo[r], l)
    BY <2>2a, InProgram
  <2>4. others'[r] \in SUBSET Items
    BY <2>1, <2>2, Same
  <2>5. Touches(r) /\ Fits(r) /\ Changes(r)
    BY <2>1, <2>2, <2>3, <2>4, Looked, Same, InProgram DEF Touches, Fits
  <2>6. ProgramOf(r)'
    BY <2>1, <2>2, <2>3, Looked, Advanced
  <2>7. Knows(r)'
    BY <2>1, <2>2, <2>3, <2>2a, <2>2b, InProgram DEF SetOf, Knows, Calm, Applying, Exact, Exclusive
  <2>8. Works(r)'
    BY <2>2, <2>2a, <2>2b, InProgram DEF SetOf, Works, Calm, Applying, Exact, Exclusive, Present
  <2>9. op[r] # "delete" /\ kinds[r] = ClientScopes
    BY InOperation DEF Applying
  <2>10. Removes(r)' /\ Ended(r)'
    BY <2>1, <2>9, Looked, InProgram DEF Removes, Ended
  <2>11. Lists(r)'
    BY <2>1, <2>3, Looked, Same, ListingBegins
  <2>12. RefusalOf(r)'
    BY <2>1, <2>9, Looked, InProgram DEF RefusalOf
  <2>13. Refused(r)' => ~Refused(Other(r))
    BY <2>1, <2>2, Looked, InProgram, LookedAway DEF Refused
  <2> QED BY <2>5, <2>6, <2>7, <2>8, <2>10, <2>11, <2>12, <2>13 DEF Keeps, SetOf
<1> QED BY <1>1, <1>2 DEF Verify

LEMMA CompareKept == ASSUME IInv, NEW r \in Resources, Compare(r) PROVE Keeps(r)
<1> Sets /\ todo[r] # <<>> /\ Head(todo[r]) = "compare" /\ attached' = attached /\ Quiet
  BY DEF IInv, At, Compare
<1>1. CASE Fault(r) /\ Stops(r)
  BY <1>1, Faulted
<1>2. CASE Advance(r) /\ NoFault /\ UNCHANGED <<seen, others, page, state>>
  <2>1. Looks(r)
    BY <1>2 DEF Looks, Advance
  <2> QED BY <1>2, <2>1, PassedKept
<1>3. CASE seen[r] = Wanted(r) /\ Set(todo, r, <<>>) /\ Set(seen, r, {}) /\ NoFault /\ UNCHANGED <<op, others, page, state>>
  <2>1. Looks(r) /\ outcome' = outcome /\ page[r] = 0
    BY <1>3, InProgram DEF Looks, NoFault
  <2>2. /\ todo'[r] = <<>> /\ todo' = [todo EXCEPT ![r] = todo'[r]]
        /\ seen'[r] = {} /\ seen' = [seen EXCEPT ![r] = seen'[r]]
    BY <1>3 DEF Set, Sets, TypeOK
  <2>3. /\ others' = [others EXCEPT ![r] = others'[r]] /\ page' = [page EXCEPT ![r] = page'[r]]
        /\ state' = [state EXCEPT ![r] = state'[r]]
        /\ others'[r] = others[r] /\ page'[r] = 0 /\ state'[r] = state[r]
    BY <1>3, <2>1, Same
  <2>4. Touches(r) /\ Fits(r) /\ Changes(r)
    BY <2>1, <2>2, <2>3, EmptyOrderly, Looked, Same DEF Touches, Fits
  <2>5. \A l : ~Ahead(todo'[r], l)
    BY <2>2, NothingAhead
  <2>6. op[r] # "delete" /\ op[r] # "refresh" /\ op[r] # "idle"
    BY InProgram DEF ProgramOf
  <2>7. ProgramOf(r)'
    <3>1. Precedes(<<>>, "detach", "attach")
      BY DEF Precedes
    <3> QED BY <2>1, <2>2, <2>3, <2>5, <2>6, <3>1, EmptyOrderly, Looked, InProgram DEF ProgramOf, Applying, Used
  <2>8. Knows(r)' /\ Removes(r)' /\ Ended(r)'
    BY <2>1, <2>5, <2>6, Looked, InProgram DEF Knows, Removes, Ended
  <2>9. Works(r)'
    <3>1. CASE Calm(r) /\ Applying(r)
      <4>1. Wanted(r) = conf[r].items /\ attached[r] \subseteq existing
        BY <3>1, WantsConfigured DEF Sets, TypeOK
      <4>2. ~Ahead(todo[r], "list") /\ Knows(r) /\ Works(r)
        BY InProgram DEF SetOf
      <4>3. kinds[r] # RealmClientScopes => Present(r) \subseteq attached[r]
        BY <1>3, <3>1, <4>1, <4>2 DEF Knows, Works, Present
      <4>4. Exact(r) => attached[r] \subseteq conf[r].items
        BY <1>3, <3>1, <4>1, <4>2 DEF Knows, Works
      <4> QED BY <2>1, <2>5, <4>3, <4>4, Looked DEF Works, Exact, Exclusive, Present
    <3>2. CASE ~(Calm(r) /\ Applying(r))
      BY <3>2, <2>1, Looked DEF Works, Calm, Applying
    <3> QED BY <3>1, <3>2
  <2>10. Lists(r)'
    BY <2>1, <2>3, Looked, Same, ListingBegins
  <2>11. RefusalOf(r)' /\ ~Refused(r)'
    BY <2>1, <2>3, <2>5, Looked, InProgram DEF RefusalOf, Refused
  <2> QED BY <2>4, <2>7, <2>8, <2>9, <2>10, <2>11 DEF Keeps, SetOf
<1> QED BY <1>1, <1>2, <1>3 DEF Compare

-----------------------------------------------------------------------------
(* Writing                                                                 *)

\* What a call leaves, for a list of the rest that says so.
Leaves(r, after, handled) ==
  /\ after \subseteq existing /\ after \cap attached[Other(r)] = {} /\ handled \subseteq Items
  /\ after \subseteq attached[r] \/ after \subseteq attached[r] \cup conf[r].items
  /\ Calm(r) /\ Applying(r) =>
       /\ kinds[r] # RealmClientScopes => handled \cap existing \subseteq after
       /\ Exact(r) => after \subseteq handled
       /\ ~Ahead(todo[r], "attach") /\ kinds[r] # RealmClientScopes => Present(r) \subseteq after
       /\ ~Ahead(todo[r], "detach") /\ Exact(r) => after \subseteq conf[r].items
  /\ Calm(r) /\ op[r] = "delete" =>
       IF kinds[r] = DefaultRoles THEN after \subseteq handled ELSE after \cap state[r].items \subseteq handled

LEMMA WroteKept ==
  ASSUME IInv, NEW r \in Resources, At(r, "detach") \/ At(r, "attach"), Quiet,
         NEW after, NEW handled, Leaves(r, after, handled),
         attached' = [attached EXCEPT ![r] = after], seen' = [seen EXCEPT ![r] = handled],
         NoFault, UNCHANGED <<todo, op, state, others, page>>
  PROVE  Keeps(r)
<1> Sets /\ todo[r] # <<>> /\ Head(todo[r]) \in {"detach", "attach"} /\ outcome' = outcome
  BY DEF IInv, At, NoFault
<1>1. /\ attached'[r] = after /\ seen'[r] = handled /\ todo'[r] = todo[r] /\ op'[r] = op[r] /\ state'[r] = state[r]
      /\ others'[r] = others[r] /\ page'[r] = page[r] /\ outcome'[r] = outcome[r]
      /\ kinds' = kinds /\ conf' = conf /\ existing' = existing /\ attached'[Other(r)] = attached[Other(r)]
  BY OtherOne DEF Sets, TypeOK, Quiet
<1>2. Changes(r)
  BY <1>1, InProgram DEF Changes, Leaves, ProgramOf
<1>3. Touches(r)
  BY <1>1, Same DEF Touches, Quiet, NoFault
<1>4. Fits(r)
  BY <1>1, Same DEF Fits, Leaves
<1>5. ProgramOf(r)'
  BY <1>1, InProgram DEF ProgramOf, Applying, Used, At
<1>6. Knows(r)'
  BY <1>1 DEF Knows, Leaves, Calm, Applying, Exact, Exclusive
<1>7. Works(r)'
  BY <1>1, InProgram DEF SetOf, Works, Leaves, Calm, Applying, Exact, Exclusive, Present
<1>8. Removes(r)'
  <2>1. op[r] = "delete" => Ahead(todo[r], "detach")
    BY InProgram, InOperation DEF Applying
  <2> QED BY <1>1, <2>1 DEF Removes, Leaves, Calm
<1>9. Lists(r)' /\ Ended(r)'
  BY <1>1, InProgram DEF Lists, Ended, At
<1>10. RefusalOf(r)' /\ (Refused(r)' => Refused(r))
  BY <1>1, InProgram DEF RefusalOf, Refused, Calm, Applying
<1> QED BY <1>2, <1>3, <1>4, <1>5, <1>6, <1>7, <1>8, <1>9, <1>10 DEF Keeps, SetOf

\* An error after the effect, or before it.
LEMMA FailedKept ==
  ASSUME IInv, NEW r \in Resources, todo[r] # <<>>, Quiet, NEW after,
         after \subseteq existing, after \cap attached[Other(r)] = {},
         after \subseteq attached[r] \/ after \subseteq attached[r] \cup conf[r].items,
         attached' = attached \/ attached' = [attached EXCEPT ![r] = after],
         Fault(r), Stops(r)
  PROVE  Keeps(r)
<1> Sets
  BY DEF IInv
<1>1. CASE attached' = attached
  BY <1>1, Faulted
<1>2. CASE attached' = [attached EXCEPT ![r] = after]
  <2>1. attached'[r] = after
    BY <1>2 DEF Sets, TypeOK
  <2>2. Used(r)
    BY InProgram DEF ProgramOf
  <2>3. Changes(r) /\ attached' = [attached EXCEPT ![r] = attached'[r]]
    BY <1>2, <2>1, <2>2 DEF Changes
  <2> QED BY <2>3, EventCounted, Halted DEF Fault
<1> QED BY <1>1, <1>2

LEMMA WriteKept ==
  ASSUME IInv, NEW r \in Resources, At(r, "detach") \/ At(r, "attach"), Quiet,
         NEW after, NEW handled, Leaves(r, after, handled),
         \/ /\ attached' = [attached EXCEPT ![r] = after] /\ seen' = [seen EXCEPT ![r] = handled]
            /\ NoFault /\ UNCHANGED <<todo, op, state, others, page>>
         \/ /\ attached' \in {attached, [attached EXCEPT ![r] = after]}
            /\ Fault(r) /\ Stops(r)
  PROVE  Keeps(r)
<1>1. CASE /\ attached' = [attached EXCEPT ![r] = after] /\ seen' = [seen EXCEPT ![r] = handled]
           /\ NoFault /\ UNCHANGED <<todo, op, state, others, page>>
  BY <1>1, WroteKept
<1>2. CASE attached' \in {attached, [attached EXCEPT ![r] = after]} /\ Fault(r) /\ Stops(r)
  BY <1>2, FailedKept DEF Leaves, At
<1> QED BY <1>1, <1>2

LEMMA RefuseKept ==
  ASSUME IInv, NEW r \in Resources, NEW items, Refuse(r, items), Quiet
  PROVE  Keeps(r)
<1>1. Stops(r) /\ Set(outcome, r, "none") /\ attached' = attached /\ events' = events /\ events \in 0 .. MaxEvents
  BY DEF Refuse, IInv, Sets, TypeOK
<1> QED BY <1>1, Unchanged, Halted

\* The names of some items are looked up: what is not there is taken for done.
LEMMA LookedUpKept ==
  ASSUME IInv, NEW r \in Resources, At(r, "resolveSurplus") \/ At(r, "resolveMissing"), Looks(r),
         NEW handled \in SUBSET Items, handled \cap existing = seen[r] \cap existing,
         Set(seen, r, handled), Advance(r), UNCHANGED <<state, others, page>>
  PROVE  Keeps(r)
<1> Sets /\ todo[r] # <<>> /\ Head(todo[r]) \in {"resolveSurplus", "resolveMissing"}
  BY DEF IInv, At
<1>1. /\ todo'[r] = Tail(todo[r]) /\ todo' = [todo EXCEPT ![r] = todo'[r]]
      /\ seen'[r] = handled /\ seen' = [seen EXCEPT ![r] = seen'[r]]
  BY DEF Advance, Set, Sets, TypeOK
<1>2. /\ others' = [others EXCEPT ![r] = others'[r]] /\ page' = [page EXCEPT ![r] = page'[r]]
      /\ state' = [state EXCEPT ![r] = state'[r]]
      /\ others'[r] = others[r] /\ page'[r] = 0 /\ state'[r] = state[r]
  BY Same, InProgram
<1>3. /\ op'[r] = op[r] /\ attached'[r] = attached[r] /\ outcome'[r] = outcome[r]
      /\ attached'[Other(r)] = attached[Other(r)] /\ kinds' = kinds /\ conf' = conf /\ existing' = existing
  BY Looked
<1>4. \A l \in {"attach", "detach", "verify", "list"} : Ahead(todo'[r], l) <=> Ahead(todo[r], l)
  BY <1>1, InProgram
<1>5. Touches(r) /\ Fits(r) /\ Changes(r)
  BY <1>1, <1>2, Looked, Same, InProgram DEF Touches, Fits
<1>6. ProgramOf(r)'
  BY <1>1, <1>2, Looked, Advanced
<1>7. attached[r] \subseteq existing /\ SetOf(r)
  BY InProgram DEF Sets, TypeOK
<1>8. Knows(r)'
  BY <1>1, <1>3, <1>4, <1>7 DEF SetOf, Knows, Calm, Applying, Exact, Exclusive
<1>9. Works(r)'
  BY <1>2, <1>3, <1>4, <1>7 DEF SetOf, Works, Calm, Applying, Exact, Exclusive, Present
<1>10. Removes(r)'
  BY <1>1, <1>2, <1>3, <1>4, <1>7 DEF SetOf, Removes, Calm
<1>11. Lists(r)'
  BY <1>2, Looked, Same, ListingBegins
<1>12. Ended(r)' /\ RefusalOf(r)' /\ (Refused(r)' => Refused(r))
  BY <1>2, <1>3, <1>4, InProgram DEF Ended, RefusalOf, Refused, Calm, Applying
<1> QED BY <1>5, <1>6, <1>8, <1>9, <1>10, <1>11, <1>12 DEF Keeps, SetOf

\* Or the operation fails.
LEMMA LookupKept ==
  ASSUME IInv, NEW r \in Resources, At(r, "resolveSurplus") \/ At(r, "resolveMissing"), UNCHANGED attached, Quiet,
         NEW items, NEW handled \in SUBSET Items, handled \cap existing = seen[r] \cap existing,
         Lookup(r, items, handled)
  PROVE  Keeps(r)
<1>1. CASE Set(seen, r, handled) /\ Advance(r) /\ NoFault /\ UNCHANGED <<state, others, page>>
  <2>1. Looks(r)
    BY <1>1 DEF Looks, Advance
  <2> QED BY <1>1, <2>1, LookedUpKept
<1>2. CASE Refuse(r, items)
  BY <1>2, RefuseKept
<1>3. CASE Fault(r) /\ Stops(r)
  BY <1>3, Faulted
<1> QED BY <1>1, <1>2, <1>3 DEF Lookup

LEMMA ResolveKept == ASSUME IInv, NEW r \in Resources, Resolve(r) PROVE Keeps(r)
<1>1. UNCHANGED attached /\ Quiet /\ seen[r] \in SUBSET Items /\ Wanted(r) \in SUBSET Items
  BY Same DEF Resolve, IInv, Wanted
<1>2. CASE At(r, "resolveSurplus") /\ Lookup(r, Surplus(r), seen[r] \ Unmatched(Surplus(r)))
  <2>1. PICK items, handled : items = Surplus(r) /\ handled = seen[r] \ Unmatched(Surplus(r))
    OBVIOUS
  <2>2. handled \in SUBSET Items /\ handled \cap existing = seen[r] \cap existing
    BY <1>1, <2>1 DEF Unmatched
  <2>3. Lookup(r, items, handled)
    BY <1>2, <2>1 DEF Lookup, Refuse, Set
  <2> QED BY <1>1, <1>2, <2>2, <2>3, LookupKept
<1>3. CASE At(r, "resolveMissing") /\ Lookup(r, Missing(r), seen[r] \cup Unmatched(Missing(r)))
  <2>1. PICK items, handled : items = Missing(r) /\ handled = seen[r] \cup Unmatched(Missing(r))
    OBVIOUS
  <2>2. handled \in SUBSET Items /\ handled \cap existing = seen[r] \cap existing
    BY <1>1, <2>1 DEF Unmatched, Missing
  <2>3. Lookup(r, items, handled)
    BY <1>3, <2>1 DEF Lookup, Refuse, Set
  <2> QED BY <1>1, <1>3, <2>2, <2>3, LookupKept
<1> QED BY <1>2, <1>3 DEF Resolve

LEMMA CallItems == ASSUME NEW r, NEW items, NEW call \in Calls(r, items) PROVE call \subseteq items
BY DEF Calls

\* What is known of the set before a call.
LEMMA Known ==
  ASSUME IInv, NEW r \in Resources, At(r, "detach") \/ At(r, "attach"), Calm(r)
  PROVE  /\ Applying(r) =>
              /\ Wanted(r) = conf[r].items
              /\ kinds[r] # RealmClientScopes => seen[r] \cap existing \subseteq attached[r]
              /\ Exact(r) => attached[r] \subseteq seen[r]
              /\ ~Ahead(todo[r], "attach") /\ kinds[r] # RealmClientScopes => Present(r) \subseteq attached[r]
              /\ ~Ahead(todo[r], "detach") /\ Exact(r) => attached[r] \subseteq conf[r].items
         /\ op[r] = "delete" =>
              /\ Wanted(r) = {}
              /\ IF kinds[r] = DefaultRoles THEN attached[r] \subseteq seen[r] ELSE attached[r] \cap state[r].items \subseteq seen[r]
<1> todo[r] # <<>> /\ Head(todo[r]) \in {"detach", "attach"}
  BY DEF At
<1>1. /\ ~Ahead(todo[r], "list") /\ (Ahead(todo[r], "attach") \/ Ahead(todo[r], "detach"))
      /\ (op[r] = "delete" => Ahead(todo[r], "detach"))
  BY InProgram, InOperation DEF Applying
<1>2. SetOf(r)
  BY InProgram
<1>3. Applying(r) => Wanted(r) = conf[r].items
  BY WantsConfigured
<1>4. op[r] = "delete" => Wanted(r) = {}
  BY DEF Wanted
<1> QED BY <1>1, <1>2, <1>3, <1>4 DEF SetOf, Knows, Works, Removes

LEMMA DetachKept == ASSUME IInv, NEW r \in Resources, Detach(r) PROVE Keeps(r)
<1> Sets /\ todo[r] # <<>> /\ Head(todo[r]) = "detach" /\ At(r, "detach") /\ Quiet /\ Other(r) \in Resources
  BY OtherOne DEF IInv, At, Detach
<1>1. /\ attached[r] \subseteq existing /\ attached[r] \cap attached[Other(r)] = {} /\ seen[r] \subseteq Items
      /\ Surplus(r) = seen[r] \ Wanted(r)
  BY DEF Sets, TypeOK, Resources, Other, Surplus
\* Nothing to detach: the set is as it should be.
<1>2. CASE Surplus(r) = {} /\ Advance(r) /\ NoFault /\ UNCHANGED <<attached, state, seen, others, page>>
  <2>1. Looks(r)
    BY <1>2 DEF Looks, Advance
  <2>2. Calm(r) /\ Applying(r) /\ Exact(r) => attached[r] \subseteq conf[r].items
    BY <1>1, <1>2, Known
  <2>3. Calm(r) /\ op[r] = "delete" => IF kinds[r] = DefaultRoles THEN attached[r] = {} ELSE attached[r] \cap state[r].items = {}
    BY <1>1, <1>2, Known
  <2> QED BY <1>2, <2>1, <2>2, <2>3, PassedKept
<1>3. CASE Refuse(r, Surplus(r))
  <2>1. PICK items : items = Surplus(r)
    OBVIOUS
  <2>2. Refuse(r, items)
    BY <1>3, <2>1 DEF Refuse
  <2> QED BY <2>2, RefuseKept
<1>4. ASSUME NEW call \in Calls(r, Surplus(r)), Write(r, attached[r] \ call, seen[r] \ call)
      PROVE  Keeps(r)
  <2>1. call \subseteq Surplus(r)
    BY CallItems
  <2>2. PICK after, handled : after = attached[r] \ call /\ handled = seen[r] \ call
    OBVIOUS
  <2>3. Calm(r) /\ Applying(r) =>
          /\ kinds[r] # RealmClientScopes => handled \cap existing \subseteq after
          /\ Exact(r) => after \subseteq handled
          /\ ~Ahead(todo[r], "attach") /\ kinds[r] # RealmClientScopes => Present(r) \subseteq after
          /\ ~Ahead(todo[r], "detach") /\ Exact(r) => after \subseteq conf[r].items
    BY <1>1, <2>1, <2>2, Known DEF Present
  <2>4. Calm(r) /\ op[r] = "delete" =>
          IF kinds[r] = DefaultRoles THEN after \subseteq handled ELSE after \cap state[r].items \subseteq handled
    BY <1>1, <2>1, <2>2, Known
  <2>5. Leaves(r, after, handled)
    BY <1>1, <2>2, <2>3, <2>4 DEF Leaves
  <2>6. \/ /\ attached' = [attached EXCEPT ![r] = after] /\ seen' = [seen EXCEPT ![r] = handled]
           /\ NoFault /\ UNCHANGED <<todo, op, state, others, page>>
        \/ /\ attached' \in {attached, [attached EXCEPT ![r] = after]}
           /\ Fault(r) /\ Stops(r)
    BY <1>4, <2>2 DEF Write, Set
  <2> QED BY <2>5, <2>6, WriteKept
<1> QED BY <1>2, <1>3, <1>4 DEF Detach

\* Where an undisturbed operation attaches what no other list has.
LEMMA Free ==
  ASSUME IInv, NEW r \in Resources, At(r, "attach"), Calm(r), kinds[r] # RealmClientScopes
  PROVE  attached[Other(r)] \cap conf[r].items \subseteq others[r]
<1> todo[r] # <<>> /\ Head(todo[r]) = "attach" /\ Sets /\ kinds \in Kinds
  BY DEF At, IInv, Sets, TypeOK
<1>1. Applying(r) /\ Ahead(todo[r], "attach") /\ ~Ahead(todo[r], "verify") /\ SetOf(r) /\ Used(r)
  BY InProgram, InOperation DEF ProgramOf
<1>2. CASE kinds[r] = ClientScopes
  BY <1>1, <1>2 DEF SetOf, Works
<1>3. CASE kinds[r] # ClientScopes
  <2>1. kinds[r] \notin ScopeKinds
    BY <1>3 DEF ScopeKinds
  <2>2. ~Used(2)
    BY <2>1, KindPairs DEF Resources
  <2>3. r = 1
    BY <1>1, <2>2 DEF Resources
  <2> QED BY <2>2, <2>3 DEF Sets, Other
<1> QED BY <1>2, <1>3

\* An item to attach is in the other list: it was seen there, or the realm refuses it.
LEMMA TakenKept ==
  ASSUME IInv, NEW r \in Resources, At(r, "attach"), Quiet, Missing(r) \cap Taken(r) # {},
         Stops(r), UNCHANGED <<attached, events>>,
         Set(outcome, r, IF outcome[r] = "calm" THEN "refused" ELSE "none")
  PROVE  Keeps(r)
<1> Sets /\ todo[r] # <<>> /\ Head(todo[r]) = "attach" /\ events' \in 0 .. MaxEvents /\ kinds \in Kinds
  BY DEF IInv, Sets, TypeOK, At
<1>1. CASE ~Calm(r)
  <2>1. Set(outcome, r, "none")
    BY <1>1 DEF Calm, Set
  <2> QED BY <2>1, Unchanged, Halted
<1>2. CASE Calm(r)
  <2>1. Applying(r) /\ Wanted(r) = conf[r].items /\ Missing(r) \subseteq conf[r].items
    BY InOperation, WantsConfigured DEF Missing
  <2>2. /\ ProgramOf(r) /\ SetOf(r) /\ RefusalOf(r) /\ Ahead(todo[r], "attach") /\ ~Ahead(todo[r], "verify")
        /\ (kinds[r] \in ScopeKinds => ~Ahead(todo[r], "detach"))
    BY <2>1, InProgram
  <2>3. kinds[r] \in ScopeKinds
    BY <2>2 DEF Taken, RefusalOf, ScopeKinds
  <2>4. Exact(r)
    BY <2>3 DEF Exact, Exclusive
  <2>5. attached[r] \subseteq conf[r].items
    BY <1>2, <2>1, <2>2, <2>3, <2>4 DEF SetOf, Works
  <2>6. Refused(r) \/ ~Refused(Other(r))
    <3> DEFINE s == Other(r)
    <3> SUFFICES ASSUME ~Refused(r), Refused(s) PROVE FALSE
      OBVIOUS
    <3>1. s \in Resources /\ RefusalOf(s) /\ conf[r].items \cap conf[s].items = {}
      BY OtherOne DEF IInv, Sets, Disjoint, Resources, Other
    <3>2. others[r] \cap conf[r].items = {}
      BY <1>2, <2>1, <2>2 DEF Refused
    <3>3. kinds[r] = RealmClientScopes /\ attached[s] \cap conf[r].items # {}
      BY <2>1, <3>2 DEF Taken
    <3>4. kinds[s] = RealmClientScopes /\ kinds[s] # ClientScopes
      BY <2>3, <3>1, <3>3, KindPairs DEF Resources
    <3>5. others[s] = {}
      BY <3>1, <3>4 DEF RefusalOf
    <3>6. outcome[s] = "refused"
      BY <3>5 DEF Refused
    <3> QED BY <3>1, <3>3, <3>6 DEF RefusalOf
  <2>7. /\ op'[r] = "idle" /\ todo'[r] = <<>> /\ page'[r] = 0 /\ seen'[r] = {} /\ others'[r] = {} /\ outcome'[r] = "refused"
        /\ state'[r] = [state[r] EXCEPT !.tainted = @ \/ (op[r] = "create" /\ state[r].known)]
    BY <1>2 DEF Stops, Set, Enter, Sets, TypeOK, Calm
  <2>8. Touches(r) /\ Changes(r)
    BY <2>7, Unchanged DEF Touches, Stops, Set, Enter, Quiet
  <2>9. state[r] \in [known : BOOLEAN, tainted : BOOLEAN, items : SUBSET Items] /\ (state[r].tainted => state[r].known)
    BY Same
  <2>10. /\ state'[r] \in [known : BOOLEAN, tainted : BOOLEAN, items : SUBSET Items]
         /\ state'[r].known = state[r].known
         /\ state'[r].tainted = (state[r].tainted \/ (op[r] = "create" /\ state[r].known))
    BY <2>7, <2>9
  <2>11. state'[r].tainted => state'[r].known
    BY <2>9, <2>10
  <2>12. Fits(r)
    BY <2>7, <2>10, <2>11, EmptyOrderly DEF Fits
  <2>13. ProgramOf(r)'
    BY <2>7, EmptyOrderly DEF ProgramOf, Applying, At
  <2>14. SetOf(r)'
    BY <2>7 DEF SetOf, Knows, Lists, Works, Removes, Ended, Calm
  <2>15. RefusalOf(r)'
    BY <2>5, <2>7 DEF RefusalOf, Quiet
  <2> QED BY <2>6, <2>8, <2>12, <2>13, <2>14, <2>15 DEF Keeps
<1> QED BY <1>1, <1>2

LEMMA AttachKept == ASSUME IInv, NEW r \in Resources, Attach(r) PROVE Keeps(r)
<1> Sets /\ todo[r] # <<>> /\ Head(todo[r]) = "attach" /\ At(r, "attach") /\ Quiet /\ Other(r) \in Resources
  BY OtherOne DEF IInv, At, Attach
<1>1. /\ attached[r] \subseteq existing /\ attached[r] \cap attached[Other(r)] = {} /\ seen[r] \subseteq Items /\ existing \subseteq Items
      /\ Missing(r) = conf[r].items \ seen[r] /\ Wanted(r) = conf[r].items /\ Applying(r) /\ Ahead(todo[r], "attach")
  BY InProgram, InOperation, WantsConfigured DEF Sets, TypeOK, Resources, Other, Missing
\* Nothing to attach: all that is wanted is there.
<1>2. CASE Missing(r) = {} /\ Advance(r) /\ NoFault /\ UNCHANGED <<attached, state, seen, others, page>>
  <2>1. Looks(r)
    BY <1>2 DEF Looks, Advance
  <2>2. Calm(r) /\ kinds[r] # RealmClientScopes => Present(r) \subseteq attached[r]
    BY <1>1, <1>2, Known DEF Present
  <2> QED BY <1>2, <2>1, <2>2, PassedKept
<1>3. CASE Refuse(r, Missing(r) \ others[r])
  <2>1. PICK items : items = Missing(r) \ others[r]
    OBVIOUS
  <2>2. Refuse(r, items)
    BY <1>3, <2>1 DEF Refuse
  <2> QED BY <2>2, RefuseKept
<1>4. ASSUME NEW call \in Calls(r, Missing(r) \ others[r]), call \subseteq existing,
             Write(r, Attached(r, call), seen[r] \cup call)
      PROVE  Keeps(r)
  <2>1. call \subseteq (Missing(r) \cap existing) \ others[r]
    BY <1>4, CallItems
  <2>2. PICK after, handled : after = attached[r] \cup (call \ attached[Other(r)]) /\ handled = seen[r] \cup call
    OBVIOUS
  <2>3. Calm(r) /\ kinds[r] # RealmClientScopes => handled \cap existing \subseteq after
    BY <1>1, <2>1, <2>2, Known, Free
  <2>4. Calm(r) =>
          /\ Exact(r) => after \subseteq handled
          /\ ~Ahead(todo[r], "detach") /\ Exact(r) => after \subseteq conf[r].items
    BY <1>1, <2>1, <2>2, Known
  <2>5. /\ after \subseteq existing /\ after \cap attached[Other(r)] = {} /\ handled \subseteq Items
        /\ after \subseteq attached[r] \cup conf[r].items
    BY <1>1, <2>1, <2>2
  <2>6. Leaves(r, after, handled)
    BY <1>1, <2>3, <2>4, <2>5 DEF Leaves, Applying
  <2>7. \/ /\ attached' = [attached EXCEPT ![r] = after] /\ seen' = [seen EXCEPT ![r] = handled]
           /\ NoFault /\ UNCHANGED <<todo, op, state, others, page>>
        \/ /\ attached' \in {attached, [attached EXCEPT ![r] = after]}
           /\ Fault(r) /\ Stops(r)
    BY <1>4, <2>2 DEF Write, Set, Attached
  <2> QED BY <2>6, <2>7, WriteKept
<1>5. CASE /\ Missing(r) \cap Taken(r) # {}
           /\ Stops(r) /\ UNCHANGED <<attached, events>>
           /\ Set(outcome, r, IF outcome[r] = "calm" THEN "refused" ELSE "none")
  BY <1>5, TakenKept
<1> QED BY <1>2, <1>3, <1>4, <1>5 DEF Attach

LEMMA OrganizationKept == ASSUME IInv, NEW r \in Resources, DetachOrganization(r) PROVE Keeps(r)
<1> Sets /\ todo[r] # <<>> /\ Head(todo[r]) = "organization" /\ Quiet
  BY DEF IInv, At, DetachOrganization
<1>1. CASE Organization \notin Surplus(r) /\ Advance(r) /\ NoFault /\ UNCHANGED <<attached, state, seen, others, page>>
  <2>1. Looks(r)
    BY <1>1 DEF Looks, Advance
  <2> QED BY <1>1, <2>1, PassedKept
<1>2. PICK after : after = attached[r] \ {Organization}
  OBVIOUS
<1>3. after \subseteq existing /\ after \cap attached[Other(r)] = {} /\ after \subseteq attached[r]
  BY <1>2 DEF Sets, TypeOK, Resources, Other
<1>4. CASE /\ Organization \in Surplus(r)
           /\ attached' \in {attached, [attached EXCEPT ![r] = @ \ {Organization}]} /\ Fault(r) /\ Stops(r)
  <2>1. attached' = attached \/ attached' = [attached EXCEPT ![r] = after]
    BY <1>2, <1>4
  <2> QED BY <1>3, <1>4, <2>1, FailedKept
<1>5. CASE /\ Organization \in Surplus(r)
           /\ Set(attached, r, attached[r] \ {Organization}) /\ NoFault
           /\ Advance(r) /\ UNCHANGED <<state, seen, others, page>>
  <2>1. attached' = [attached EXCEPT ![r] = after] /\ outcome' = outcome /\ events' \in 0 .. MaxEvents
    BY <1>2, <1>5 DEF Set, NoFault, Sets, TypeOK
  <2>2. /\ attached'[r] = after /\ attached' = [attached EXCEPT ![r] = attached'[r]]
        /\ kinds' = kinds /\ conf' = conf /\ existing' = existing /\ attached'[Other(r)] = attached[Other(r)]
    BY <2>1, OtherOne DEF Sets, TypeOK, Quiet
  <2>3. /\ todo'[r] = Tail(todo[r]) /\ op'[r] = op[r]
        /\ seen'[r] = seen[r] /\ others'[r] = others[r] /\ page'[r] = page[r] /\ state'[r] = state[r]
        /\ todo' = [todo EXCEPT ![r] = todo'[r]] /\ op' = [op EXCEPT ![r] = op'[r]]
        /\ seen' = [seen EXCEPT ![r] = seen'[r]] /\ others' = [others EXCEPT ![r] = others'[r]]
        /\ page' = [page EXCEPT ![r] = page'[r]] /\ state' = [state EXCEPT ![r] = state'[r]] /\ Fits(r)
    BY <1>5, <2>1, Onward
  <2>4. outcome' = [outcome EXCEPT ![r] = outcome'[r]] /\ outcome'[r] = outcome[r]
    BY <2>1, Same
  <2>5. Touches(r) /\ Changes(r)
    BY <1>3, <2>1, <2>2, <2>3, <2>4 DEF Touches, Changes, Quiet
  <2>6. page[r] = 0 /\ Applying(r) /\ Applying(r)' /\ ~Ahead(todo'[r], "attach") /\ ~Ahead(todo'[r], "detach") /\ Wanted(r) = conf[r].items
    BY <2>3, InProgram, InOperation, WantsConfigured DEF Applying
  <2>7. ProgramOf(r)'
    BY <2>2, <2>3, <2>4, <2>6, Advanced
  <2>8. Knows(r)' /\ Removes(r)'
    BY <2>6 DEF Knows, Removes, Applying
  <2>9. Lists(r)'
    <3>1. attached'[r] \in SUBSET Items
      BY <1>3, <2>2, Same
    <3> QED BY <2>3, <2>6, <3>1, ListingBegins
  <2>10. Works(r)'
    <3>1. Organization \notin conf[r].items
      BY <1>5, <2>6 DEF Surplus
    <3>2. Works(r) /\ ~Ahead(todo[r], "attach") /\ ~Ahead(todo[r], "detach")
      BY <2>3, <2>6, InProgram DEF SetOf
    <3> QED BY <1>2, <2>2, <2>3, <2>4, <2>6, <3>1, <3>2 DEF Works, Calm, Applying, Exact, Exclusive, Present
  <2>11. Ended(r)' /\ RefusalOf(r)' /\ ~Refused(r)'
    BY <2>2, <2>3, <2>4, <2>6, InProgram DEF Ended, RefusalOf, Refused
  <2> QED BY <2>3, <2>5, <2>7, <2>8, <2>9, <2>10, <2>11 DEF Keeps, SetOf
<1>6. CASE Refuse(r, Surplus(r) \cap {Organization})
  <2>1. PICK items : items = Surplus(r) \cap {Organization}
    OBVIOUS
  <2>2. Refuse(r, items)
    BY <1>6, <2>1 DEF Refuse
  <2> QED BY <2>2, RefuseKept
<1> QED BY <1>1, <1>4, <1>5, <1>6 DEF DetachOrganization

-----------------------------------------------------------------------------
(* Everyone else                                                           *)

LEMMA InitKept == ASSUME Init PROVE IInv
<1>1. /\ kinds \in Kinds /\ existing = Items
      /\ attached \in [Resources -> SUBSET Items] /\ attached[1] \cap attached[2] = {}
      /\ (Used(2) \/ attached[2] = {})
      /\ conf \in [Resources -> Configurations] /\ Disjoint(conf)
  BY DEF Init
<1>2. /\ op = [r \in Resources |-> "idle"] /\ todo = [r \in Resources |-> <<>>]
      /\ seen = [r \in Resources |-> {}] /\ others = [r \in Resources |-> {}]
      /\ page = [r \in Resources |-> 0] /\ outcome = [r \in Resources |-> "none"] /\ events \in 0 .. MaxEvents
  BY BoundsAssumption DEF Init
<1>3. /\ state \in [Resources -> [known : BOOLEAN, tainted : BOOLEAN, items : SUBSET Items]]
      /\ \A r \in Resources : ~state[r].tainted
  <2>1. CASE state = [r \in Resources |-> None]
    BY <2>1 DEF None
  <2>2. CASE state = [r \in Resources |-> [known |-> Used(r), tainted |-> FALSE, items |-> attached[r]]]
    <3>1. \A r \in Resources : Used(r) \in BOOLEAN /\ attached[r] \in SUBSET Items
      BY <1>1 DEF Used
    <3> QED BY <2>2, <3>1
  <2> QED BY <2>1, <2>2 DEF Init
<1>4. TypeOK
  BY <1>1, <1>2, <1>3 DEF TypeOK
<1>5. Sets
  BY <1>1, <1>2, <1>4, EmptyOrderly DEF Sets
<1>6. \A r \in Resources : ProgramOf(r) /\ SetOf(r) /\ RefusalOf(r) /\ ~Refused(r)
  BY <1>2, EmptyOrderly DEF ProgramOf, Applying, At, SetOf, Knows, Lists, Works, Removes, Ended, RefusalOf, Refused, Calm
<1> QED BY <1>5, <1>6 DEF IInv, Resources

\* What a resource is doing goes on when nothing is claimed of it any more.
LEMMA DisturbedKept ==
  ASSUME IInv, Disturbs, Sets', UNCHANGED <<kinds, local>>,
         \A r \in Resources : op[r] # "idle" => state'[r] = state[r] /\ conf'[r] = conf[r]
  PROVE  IInv'
<1>1. \A r \in Resources : outcome'[r] = "none"
  BY DEF Disturbs
<1>2. op' = op /\ todo' = todo /\ seen' = seen /\ page' = page /\ others' = others /\ kinds' = kinds
  BY DEF local
<1>3. ASSUME NEW r \in Resources PROVE ProgramOf(r)'
  BY <1>1, <1>2 DEF IInv, ProgramOf, Applying, Used, At
<1>4. ASSUME NEW r \in Resources PROVE SetOf(r)' /\ RefusalOf(r)' /\ ~Refused(r)'
  BY <1>1, <1>2 DEF IInv, SetOf, Knows, Lists, Works, Removes, Ended, RefusalOf, Refused, Calm
<1> QED BY <1>3, <1>4 DEF IInv, Resources

LEMMA EditKept == ASSUME IInv, Edit PROVE IInv'
<1>1. PICK r \in Resources, c \in Configurations : op[r] = "idle" /\ conf' = [conf EXCEPT ![r] = c]
  BY DEF Edit
<1>2. \A s \in Resources : op[s] # "idle" => conf'[s] = conf[s]
  BY <1>1 DEF IInv, Sets, TypeOK
<1>3. conf' \in [Resources -> Configurations] /\ Disjoint(conf') /\ UNCHANGED <<kinds, existing, attached, state, local>>
  BY <1>1 DEF IInv, Sets, TypeOK, Edit
<1>4. events' \in 0 .. MaxEvents /\ outcome' = [s \in Resources |-> "none"]
  BY EventCounted DEF Edit, Disturbs
<1>5. TypeOK'
  BY <1>3, <1>4 DEF IInv, Sets, TypeOK, local
<1>6. Sets'
  BY <1>3, <1>5 DEF IInv, Sets, Used, local
<1> QED BY <1>2, <1>3, <1>6, DisturbedKept DEF Edit

LEMMA ImportKept == ASSUME IInv, NEW r \in Resources, Import(r) PROVE IInv'
<1>1. state' = [state EXCEPT ![r] = [None EXCEPT !.known = TRUE]] /\ op[r] = "idle" /\ UNCHANGED <<kinds, existing, attached, conf, local>>
  BY DEF Import, Set
<1>2. /\ [None EXCEPT !.known = TRUE] \in [known : BOOLEAN, tainted : BOOLEAN, items : SUBSET Items]
      /\ [None EXCEPT !.known = TRUE].known
  BY DEF None
<1>3. /\ state' \in [Resources -> [known : BOOLEAN, tainted : BOOLEAN, items : SUBSET Items]]
      /\ \A s \in Resources : state'[s].tainted => state'[s].known
      /\ \A s \in Resources : op[s] # "idle" => state'[s] = state[s]
  BY <1>1, <1>2 DEF IInv, Sets, TypeOK
<1>4. events' \in 0 .. MaxEvents /\ outcome' = [s \in Resources |-> "none"]
  BY EventCounted DEF Import, Disturbs
<1>5. TypeOK'
  BY <1>1, <1>3, <1>4 DEF IInv, Sets, TypeOK, local
<1>6. Sets'
  BY <1>1, <1>5 DEF IInv, Sets, Used, local
<1> QED BY <1>1, <1>3, <1>6, DisturbedKept DEF Import

LEMMA AdminKept == ASSUME IInv, AdminAttaches PROVE IInv'
<1>1. PICK r \in Resources, i \in existing :
        /\ Used(r) /\ i \notin attached[Other(r)]
        /\ attached' \in {[attached EXCEPT ![r] = @ \cup {i}], [attached EXCEPT ![r] = @ \ {i}]}
  BY DEF AdminAttaches
<1>2. UNCHANGED <<kinds, existing, conf, state, local>>
  BY DEF AdminAttaches
<1>3. PICK after : after \in {attached[r] \cup {i}, attached[r] \ {i}} /\ attached' = [attached EXCEPT ![r] = after]
  BY <1>1
<1>4. attached \in [Resources -> SUBSET existing] /\ attached[r] \cap attached[Other(r)] = {} /\ (Used(2) \/ attached[2] = {})
  BY DEF IInv, Sets, TypeOK, Resources, Other
<1>5. after \subseteq existing /\ after \cap attached[Other(r)] = {}
  BY <1>1, <1>3, <1>4
<1>6. attached' \in [Resources -> SUBSET existing] /\ attached'[r] = after /\ attached'[Other(r)] = attached[Other(r)]
  BY <1>3, <1>4, <1>5, OtherOne
<1>7. attached'[1] \cap attached'[2] = {} /\ (Used(2) \/ attached'[2] = {})
  BY <1>1, <1>4, <1>5, <1>6 DEF Resources, Other
<1>8. events' \in 0 .. MaxEvents /\ outcome' = [s \in Resources |-> "none"]
  BY EventCounted DEF AdminAttaches, Disturbs
<1>9. TypeOK'
  BY <1>2, <1>6, <1>7, <1>8 DEF IInv, Sets, TypeOK, local
<1>10. Sets'
  BY <1>2, <1>7, <1>9 DEF IInv, Sets, Used, local
<1> QED BY <1>2, <1>10, DisturbedKept DEF AdminAttaches

LEMMA DeletedKept == ASSUME IInv, ItemDeleted PROVE IInv'
<1>1. PICK i \in existing : existing' = existing \ {i} /\ attached' = [r \in Resources |-> attached[r] \ {i}]
  BY DEF ItemDeleted
<1>2. /\ kinds' = kinds /\ conf' = conf /\ state' = state
      /\ op' = op /\ todo' = todo /\ seen' = seen /\ page' = page /\ others' = others
  BY DEF ItemDeleted, local
<1>3. outcome' = [r \in Resources |-> IF kinds[r].paged THEN "none" ELSE outcome[r]] /\ events' \in 0 .. MaxEvents
  BY EventCounted DEF ItemDeleted
<1>4. Sets
  BY DEF IInv
<1>5. /\ outcome' \in [Resources -> {"none", "calm", "refused", "create", "update", "delete"}]
      /\ existing' \subseteq Items /\ attached' \in [Resources -> SUBSET existing'] /\ attached'[1] \cap attached'[2] = {}
      /\ (Used(2) \/ attached'[2] = {})
  BY <1>1, <1>3, <1>4 DEF Sets, TypeOK, Resources
<1>6. TypeOK'
  BY <1>2, <1>3, <1>4, <1>5 DEF Sets, TypeOK
<1>7. Sets'
  BY <1>2, <1>4, <1>5, <1>6 DEF Sets, Used
<1>8. ASSUME NEW r \in Resources
      PROVE  ProgramOf(r)' /\ SetOf(r)' /\ RefusalOf(r)' /\ (Refused(r)' => Refused(r))
  <2>1. attached'[r] = attached[r] \ {i} /\ attached'[Other(r)] = attached[Other(r)] \ {i} /\ outcome'[r] \in {outcome[r], "none"}
    BY <1>1, <1>3, OtherOne
  <2>2. ProgramOf(r) /\ SetOf(r) /\ RefusalOf(r)
    BY DEF IInv
  <2>3. ProgramOf(r)'
    BY <1>2, <2>1, <2>2 DEF ProgramOf, Applying, Used, At
  <2>4. Knows(r)'
    BY <1>1, <1>2, <2>1, <2>2 DEF SetOf, Knows, Calm, Applying, Exact, Exclusive
  <2>5. Lists(r)'
    BY <1>2, <1>3 DEF Lists, Calm
  <2>6. Works(r)'
    BY <1>1, <1>2, <2>1, <2>2 DEF SetOf, Works, Calm, Applying, Exact, Exclusive, Present
  <2>7. Removes(r)'
    BY <1>2, <2>1, <2>2 DEF SetOf, Removes, Calm
  <2>8. Ended(r)'
    BY <1>1, <1>2, <2>1, <2>2 DEF SetOf, Ended, Exclusive, Present
  <2>9. RefusalOf(r)' /\ (Refused(r)' => Refused(r))
    BY <1>2, <2>1, <2>2 DEF RefusalOf, Refused, Calm, Applying
  <2> QED BY <2>3, <2>4, <2>5, <2>6, <2>7, <2>8, <2>9 DEF SetOf
<1> QED BY <1>7, <1>8 DEF IInv, Resources

-----------------------------------------------------------------------------
(* The theorems.                                                           *)

LEMMA StepsKept == ASSUME IInv, NEW r \in Resources, Step(r) PROVE Keeps(r)
BY RefreshKept, PlanCreateKept, PlanUpdateKept, PlanDeleteKept, PlanNothingKept, ListKept, TryKept, ClaimKept,
   ResolveKept, DetachKept, VerifyKept, AttachKept, CompareKept, OrganizationKept, AppliedKept DEF Step

LEMMA NextKept == ASSUME IInv, [Next]_vars PROVE IInv'
<1>1. ASSUME NEW r \in Resources, Step(r) PROVE IInv'
  BY <1>1, StepsKept, StepKept
<1>2. ASSUME NEW r \in Resources, Import(r) PROVE IInv'
  BY <1>2, ImportKept
<1>3. CASE Edit
  BY <1>3, EditKept
<1>4. CASE AdminAttaches
  BY <1>4, AdminKept
<1>5. CASE ItemDeleted
  BY <1>5, DeletedKept
<1>6. CASE UNCHANGED vars
  <2>1. /\ kinds' = kinds /\ existing' = existing /\ attached' = attached /\ conf' = conf /\ state' = state
        /\ op' = op /\ todo' = todo /\ seen' = seen /\ page' = page /\ others' = others
        /\ outcome' = outcome /\ events' = events
    BY <1>6 DEF vars, local
  <2>2. Sets'
    BY <2>1 DEF IInv, Sets, TypeOK, Used
  <2>3. \A r \in Resources : (ProgramOf(r) /\ RefusalOf(r))' /\ (Refused(r)' <=> Refused(r))
    BY <2>1 DEF IInv, ProgramOf, RefusalOf, Refused, Calm, Applying, Used, At
  <2>4. \A r \in Resources : SetOf(r)'
    BY <2>1 DEF IInv, SetOf, Knows, Lists, Works, Removes, Ended, Calm, Applying, Exact, Exclusive, Present, Before, At
  <2> QED BY <2>2, <2>3, <2>4 DEF IInv, Resources
<1> QED BY <1>1, <1>2, <1>3, <1>4, <1>5, <1>6 DEF Next

LEMMA Invariant == Spec => []IInv
<1>1. Init => IInv
  BY InitKept
<1>2. IInv /\ [Next]_vars => IInv'
  BY NextKept
<1> QED BY <1>1, <1>2, PTL DEF Spec

\* Each item is in one of the two lists at most, and a tainted resource is in the state,
\* whatever is interleaved.
THEOREM TypeCorrect == Spec => []TypeOK
<1>1. IInv => TypeOK
  BY DEF IInv, Sets
<1> QED BY <1>1, Invariant, PTL

\* An undisturbed Create or Update of a set of members, groups, roles or client scopes
\* leaves at least the configured set; an Update, and a Create of default roles, nothing
\* else.
THEOREM AppliedCorrect == Spec => []AppliedExact
<1>1. IInv => AppliedExact
  <2> SUFFICES ASSUME IInv, NEW r \in Resources, outcome[r] \in {"create", "update"}, kinds[r] # RealmClientScopes
               PROVE  /\ conf[r].items \cap existing \subseteq attached[r]
                      /\ outcome[r] = "update" \/ kinds[r] = DefaultRoles => attached[r] = conf[r].items \cap existing
    BY DEF AppliedExact
  <2>1. /\ Present(r) \subseteq attached[r] /\ attached[r] \subseteq existing
        /\ outcome[r] = "update" \/ kinds[r] = DefaultRoles => attached[r] \subseteq conf[r].items
    BY DEF IInv, SetOf, Ended, Exclusive, Sets, TypeOK
  <2> QED BY <2>1 DEF Present
<1> QED BY <1>1, Invariant, PTL

\* Two lists that exchange scopes in one undisturbed run are never both refused.
THEOREM NeverBothRefused == Spec => []NotBothRefused
<1>1. IInv => NotBothRefused
  BY DEF IInv, NotBothRefused, Refused
<1> QED BY <1>1, Invariant, PTL

\* Only the end of an operation is an outcome.
LEMMA DeleteEnds ==
  ASSUME IInv, NEW r \in Resources, [Next]_vars, outcome'[r] = "delete", outcome[r] # "delete"
  PROVE  Applied(r) /\ Calm(r) /\ op[r] = "delete"
<1>1. outcome \in [Resources -> {"none", "calm", "refused", "create", "update", "delete"}]
  BY DEF IInv, Sets, TypeOK
<1>2. CASE Edit \/ AdminAttaches \/ \E s \in Resources : Import(s)
  BY <1>2 DEF Edit, AdminAttaches, Import, Disturbs
<1>3. CASE ItemDeleted
  BY <1>3 DEF ItemDeleted
<1>4. CASE UNCHANGED vars
  BY <1>4 DEF vars
<1>5. ASSUME NEW s \in Resources, Step(s) PROVE Applied(r) /\ Calm(r) /\ op[r] = "delete"
  <2>1. s = r
    BY <1>1, <1>5, StepsKept DEF Keeps, Touches
  <2>2. CASE Applied(s)
    <3>1. outcome' = [outcome EXCEPT ![r] = IF outcome[r] = "calm" THEN op[r] ELSE "none"]
      BY <2>1, <2>2 DEF Applied, Set
    <3> QED BY <1>1, <2>1, <2>2, <3>1 DEF Calm
  <2>3. CASE ~Applied(s)
    <3>1. \/ outcome' = outcome
          \/ outcome' = [outcome EXCEPT ![r] = outcome'[r]] /\ outcome'[r] \in {"none", "calm", "refused"}
      BY <1>1, <1>5, <2>1, <2>3
         DEF Step, Refresh, PlanCreate, PlanUpdate, PlanDelete, PlanNothing, Plan, List, Try, Claim, Resolve, Lookup, Detach, Verify,
             Attach, Compare, DetachOrganization, Write, Refuse, NoFault, Fault, Set
    <3> QED BY <3>1
  <2> QED BY <2>2, <2>3
<1> QED BY <1>2, <1>3, <1>4, <1>5 DEF Next

\* An undisturbed Delete leaves nothing attached that the state knew of, and of the default
\* roles nothing at all.
THEOREM DestroyedCorrect == Spec => DestroyedIsDetached
<1> DEFINE A == \A r \in Resources : outcome'[r] = "delete" /\ outcome[r] # "delete" =>
                  attached'[r] \cap (IF kinds[r] = DefaultRoles THEN Items ELSE state[r].items) = {}
<1>1. ASSUME IInv, [Next]_vars PROVE A
  <2> SUFFICES ASSUME NEW r \in Resources, outcome'[r] = "delete", outcome[r] # "delete"
               PROVE  attached'[r] \cap (IF kinds[r] = DefaultRoles THEN Items ELSE state[r].items) = {}
    OBVIOUS
  <2>1. Applied(r) /\ Calm(r) /\ op[r] = "delete"
    BY <1>1, DeleteEnds
  <2>2. attached'[r] = attached[r] /\ \A l : ~Ahead(todo[r], l)
    BY <2>1, NothingAhead DEF Applied, Begin
  <2>3. Removes(r)
    BY <1>1 DEF IInv, SetOf
  <2> QED BY <2>1, <2>2, <2>3 DEF Removes
<1>2. IInv /\ [Next]_vars => [A]_vars
  BY <1>1
<1> QED BY <1>2, Invariant, PTL DEF Spec, DestroyedIsDetached

=============================================================================

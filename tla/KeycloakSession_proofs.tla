------------------------ MODULE KeycloakSession_proofs ------------------------
(***************************************************************************)
(* What a call of the session may do and return, for any set of concurrent *)
(* operations, any number of faults and stacks of any depth.               *)
(***************************************************************************)
EXTENDS KeycloakSession, SequenceTheorems, TLAPS

-----------------------------------------------------------------------------
(* Stacks.                                                                 *)

LEMMA StackTop ==
  ASSUME NEW s \in Seq(Frame), s # <<>>
  PROVE  /\ Len(s) \in Nat /\ Len(s) >= 1
         /\ Head(s) = s[1] /\ Head(s) \in Frame
         /\ Tail(s) \in Seq(Frame) /\ Len(Tail(s)) = Len(s) - 1
         /\ \A i \in 1..Len(s) - 1 : Tail(s)[i] = s[i + 1]
         /\ Tail(s) = <<>> <=> Len(s) = 1
         /\ \A i \in 1..Len(s) : s[i] \in Frame
<1>1. Len(s) \in Nat /\ Len(s) >= 1 /\ Head(s) = s[1]
  BY EmptySeq
<1>2. Head(s) \in Frame /\ Tail(s) \in Seq(Frame) /\ Len(Tail(s)) = Len(s) - 1
  BY HeadTailProperties
<1>3. \A i \in 1..Len(s) - 1 : Tail(s)[i] = s[i + 1]
  BY <1>2, HeadTailProperties
<1>4. Tail(s) = <<>> <=> Len(s) = 1
  <2>1. Len(Tail(s)) = 0 <=> Len(s) = 1
    BY <1>1, <1>2
  <2>2. Tail(s) = <<>> <=> Len(Tail(s)) = 0
    BY <1>2, EmptySeq
  <2> QED BY <2>1, <2>2
<1>5. \A i \in 1..Len(s) : s[i] \in Frame
  BY ElementOfSeq
<1> QED BY <1>1, <1>2, <1>3, <1>4, <1>5

\* Goto and LoginInstead: another top on the same frames.
LEMMA Relabelled ==
  ASSUME NEW s \in Seq(Frame), s # <<>>, NEW f \in Frame
  PROVE  LET t == <<f>> \o Tail(s)
         IN  /\ t \in Seq(Frame) /\ t # <<>> /\ Len(t) = Len(s) /\ Head(t) = f /\ t[1] = f
             /\ \A i \in 2..Len(s) : t[i] = s[i]
<1> DEFINE t == <<f>> \o Tail(s)
<1>1. <<f>> \in Seq(Frame) /\ Len(<<f>>) = 1 /\ <<f>>[1] = f
  OBVIOUS
<1>2. t \in Seq(Frame) /\ Len(t) = Len(s)
  BY <1>1, StackTop, ConcatProperties
<1>3. \A i \in 1..Len(s) : t[i] = IF i <= 1 THEN f ELSE Tail(s)[i - 1]
  BY <1>1, StackTop, ConcatProperties
<1>4. t # <<>> /\ t[1] = f
  BY <1>2, <1>3, StackTop, EmptySeq
<1>5. \A i \in 2..Len(s) : t[i] = s[i]
  BY <1>3, StackTop
<1> QED BY <1>2, <1>4, <1>5, StackTop

\* Call: a new top above the relabelled frame.
LEMMA Pushed ==
  ASSUME NEW s \in Seq(Frame), s # <<>>, NEW f \in Frame, NEW g \in Frame
  PROVE  LET t == <<g, f>> \o Tail(s)
         IN  /\ t \in Seq(Frame) /\ t # <<>> /\ Len(t) = Len(s) + 1 /\ Head(t) = g
             /\ t[1] = g /\ t[2] = f
             /\ \A i \in 3..Len(s) + 1 : t[i] = s[i - 1]
<1> DEFINE t == <<g, f>> \o Tail(s)
<1>1. <<g, f>> \in Seq(Frame) /\ Len(<<g, f>>) = 2 /\ <<g, f>>[1] = g /\ <<g, f>>[2] = f
  OBVIOUS
<1>2. t \in Seq(Frame) /\ Len(t) = Len(s) + 1
  BY <1>1, StackTop, ConcatProperties
<1>3. \A i \in 1..Len(s) + 1 : t[i] = IF i <= 2 THEN <<g, f>>[i] ELSE Tail(s)[i - 2]
  BY <1>1, StackTop, ConcatProperties
<1>4. t # <<>> /\ t[1] = g /\ t[2] = f
  BY <1>1, <1>2, <1>3, StackTop, EmptySeq
<1>5. \A i \in 3..Len(s) + 1 : t[i] = s[i - 1]
  BY <1>3, StackTop
<1> QED BY <1>2, <1>4, <1>5, StackTop

-----------------------------------------------------------------------------
(* Types.  A token a goroutine is about to store is one the server issued. *)

TypeInv == TypeOK /\ \A o \in Ops : http[o].token \in 0..issued

LEMMA TypeInit == Init => TypeInv
<1> SUFFICES ASSUME Init PROVE TypeInv
  OBVIOUS
<1>1. issued \in {0, 1} /\ issued \in 0..MaxTokens /\ live \subseteq 1..issued /\ faults \in 0..MaxFaults
  BY OpsAssumption DEF Init
<1>2. accessToken \in (0..issued) \X (0..issued)
  BY <1>1 DEF Init
<1>3. Idle \in Exchange /\ Idle.token = 0
  BY DEF Idle, Exchange, Status
<1>4. http \in [Ops -> Exchange] /\ \A o \in Ops : http[o].token \in 0..issued
  BY <1>1, <1>3 DEF Init
<1>5. ret \in [Ops -> Result] /\ stack \in [Ops -> Seq(Frame)]
  <2>1. PICK mix \in Mixes : ret = [o \in Ops |-> IF o \in mix THEN "none" ELSE "unasked"]
    BY DEF Init
  <2> QED BY <2>1 DEF Init, Result
<1> QED BY <1>1, <1>2, <1>4, <1>5 DEF Init, TypeInv, TypeOK

LEMMA FrameParts ==
  ASSUME NEW f \in Frame, NEW l \in {"enter", "tested", "loggedIn", "wait", "refreshed", "resent",
                                     "post", "store", "gotInfo"}
  PROVE  /\ [f EXCEPT !.pc = l] \in Frame
         /\ [f EXCEPT !.pc = l].proc = f.proc /\ [f EXCEPT !.pc = l].pc = l
BY DEF Frame

\* What Goto, Call and Return do to the functions they update.
LEMMA GotoTypes ==
  ASSUME stack \in [Ops -> Seq(Frame)], NEW o \in Ops, stack[o] # <<>>,
         NEW l \in {"enter", "tested", "loggedIn", "wait", "refreshed", "resent", "post", "store", "gotInfo"},
         Goto(o, l)
  PROVE  stack' \in [Ops -> Seq(Frame)]
<1> DEFINE f == [Head(stack[o]) EXCEPT !.pc = l]
<1>1. f \in Frame
  BY StackTop, FrameParts
<1>2. <<f>> \o Tail(stack[o]) \in Seq(Frame)
  BY <1>1, Relabelled
<1> QED BY <1>2 DEF Goto

LEMMA CallTypes ==
  ASSUME stack \in [Ops -> Seq(Frame)], NEW o \in Ops, stack[o] # <<>>,
         NEW l \in {"enter", "tested", "loggedIn", "wait", "refreshed", "resent", "post", "store", "gotInfo"},
         NEW q \in API \cup Auth, NEW e \in {"enter", "post"}, Call(o, l, q, e)
  PROVE  stack' \in [Ops -> Seq(Frame)]
<1> DEFINE f == [Head(stack[o]) EXCEPT !.pc = l]
           g == [proc |-> q, pc |-> e]
<1>1. f \in Frame /\ g \in Frame
  <2>1. f \in Frame
    BY StackTop, FrameParts
  <2>2. g \in Frame
    BY DEF Frame
  <2> QED BY <2>1, <2>2
<1>2. <<g, f>> \o Tail(stack[o]) \in Seq(Frame)
  BY <1>1, Pushed
<1> QED BY <1>2 DEF Call

LEMMA ReturnTypes ==
  ASSUME stack \in [Ops -> Seq(Frame)], ret \in [Ops -> Result], NEW o \in Ops, stack[o] # <<>>,
         NEW r \in Result, Return(o, r)
  PROVE  stack' \in [Ops -> Seq(Frame)] /\ ret' \in [Ops -> Result]
<1>1. Tail(stack[o]) \in Seq(Frame)
  BY StackTop
<1> QED BY <1>1 DEF Return

\* What one exchange may become.
LEMMA ExchangeTypes ==
  /\ Idle \in Exchange /\ Idle.token = 0 /\ Idle.at = "idle"
  /\ \A a \in {"idle", "asked", "answered"}, t \in Nat, s \in Status :
       /\ [at |-> a, token |-> t, status |-> s] \in Exchange
       /\ [at |-> a, token |-> t, status |-> s].at = a
       /\ [at |-> a, token |-> t, status |-> s].token = t
       /\ [at |-> a, token |-> t, status |-> s].status = s
  /\ \A x \in Exchange : x.token \in Nat /\ x.status \in Status
  /\ Status \subseteq Result
BY DEF Idle, Exchange, Status, Result

LEMMA HeaderTypes ==
  ASSUME TypeInv
  PROVE  issued \in Nat /\ Header \in 0..issued /\ Header \in Nat
BY OpsAssumption DEF TypeInv, TypeOK, Header, Torn

HttpTypes == http \in [Ops -> Exchange] /\ \A o \in Ops : http[o].token \in 0..issued

LEMMA HttpSet ==
  ASSUME TypeInv, NEW o \in Ops, NEW a \in {"idle", "asked", "answered"}, NEW s \in Status,
         issued' \in Nat, issued' >= issued, NEW t \in 0..issued',
         http' = [http EXCEPT ![o] = [at |-> a, token |-> t, status |-> s]]
  PROVE  HttpTypes'
<1>1. issued \in Nat /\ t \in Nat
  BY HeaderTypes
<1> DEFINE x == [at |-> a, token |-> t, status |-> s]
<1>2. x \in Exchange /\ x.token = t
  BY <1>1, ExchangeTypes
<1>3. \A p \in Ops : http[p].token \in 0..issued'
  BY <1>1 DEF TypeInv
<1> HIDE DEF x
<1>4. http' = [http EXCEPT ![o] = x]
  BY DEF x
<1> QED BY <1>2, <1>3, <1>4 DEF TypeInv, TypeOK, HttpTypes

LEMMA HttpIdle ==
  ASSUME TypeInv, NEW o \in Ops, issued' = issued, http' = [http EXCEPT ![o] = Idle]
  PROVE  HttpTypes'
BY ExchangeTypes, HeaderTypes DEF TypeInv, TypeOK, HttpTypes

LEMMA HttpKept ==
  ASSUME TypeInv, issued' = issued, http' = http
  PROVE  HttpTypes'
BY DEF TypeInv, TypeOK, HttpTypes

SharedTypes ==
  /\ initialLogin \in BOOLEAN /\ version \in BOOLEAN
  /\ accessToken \in (0..issued) \X (0..issued)
  /\ issued \in 0..MaxTokens /\ live \subseteq 1..issued /\ faults \in 0..MaxFaults
StackTypes == stack \in [Ops -> Seq(Frame)] /\ ret \in [Ops -> Result]
HistoryTypes ==
  /\ received \in [Ops -> Nat] /\ applied \in [Ops -> Nat]
  /\ answer \in [Ops -> Status \cup {"none"}]
  /\ disturbed \in [Ops -> BOOLEAN]

LEMMA TypePartsNext ==
  ASSUME SharedTypes', StackTypes', HttpTypes', HistoryTypes'
  PROVE  TypeInv'
BY DEF TypeInv, TypeOK, SharedTypes, StackTypes, HttpTypes, HistoryTypes

LEMMA TopType ==
  ASSUME TypeInv, NEW o \in Ops, stack[o] # <<>>
  PROVE  Head(stack[o]) \in Frame /\ Head(stack[o]).proc \in API \cup Auth \cup {"version"}
BY StackTop DEF TypeInv, TypeOK, Frame

LEMMA KeptShared ==
  ASSUME TypeInv, UNCHANGED <<client, server>>
  PROVE  SharedTypes'
BY DEF TypeInv, TypeOK, SharedTypes, client, server

LEMMA KeptHistory ==
  ASSUME TypeInv, UNCHANGED history
  PROVE  HistoryTypes'
BY DEF TypeInv, TypeOK, HistoryTypes, history

LEMMA DoTypes ==
  ASSUME TypeInv, NEW o \in Ops, stack[o] # <<>>, NEW l \in {"wait", "resent"},
         AddRequestHeadersAndDo(o, l)
  PROVE  TypeInv'
<1> USE DEF StackTypes
<1>1. CASE Transmit(o, l)
  <2>1. SharedTypes'
    BY <1>1, KeptShared DEF Transmit
  <2>2. stack' \in [Ops -> Seq(Frame)] /\ ret' \in [Ops -> Result]
    BY <1>1, GotoTypes DEF Transmit, TypeInv, TypeOK
  <2>3. HttpTypes'
    <3>1. issued' = issued /\ Header \in 0..issued' /\ issued' \in Nat /\ issued' >= issued
      BY <1>1, HeaderTypes DEF Transmit, server
    <3>2. http' = [http EXCEPT ![o] = [at |-> "asked", token |-> Header, status |-> "ok"]]
      BY <1>1 DEF Transmit
    <3> QED BY <3>1, <3>2, HttpSet DEF Status
  <2>4. disturbed' \in [Ops -> BOOLEAN]
    BY <1>1 DEF Transmit, TypeInv, TypeOK, Torn
  <2>5. HistoryTypes'
    BY <1>1, <2>4 DEF Transmit, TypeInv, TypeOK, HistoryTypes
  <2> QED BY <2>1, <2>2, <2>3, <2>5, TypePartsNext
<1>2. CASE LocalError(o)
  <2>1. SharedTypes'
    BY <1>2, KeptShared DEF LocalError
  <2>2. stack' \in [Ops -> Seq(Frame)] /\ ret' \in [Ops -> Result]
    BY <1>2, ReturnTypes DEF LocalError, TypeInv, TypeOK, Result, Status
  <2>3. HttpTypes'
    BY <1>2, HttpKept DEF LocalError, server
  <2>4. HistoryTypes'
    BY <1>2 DEF LocalError, TypeInv, TypeOK, HistoryTypes
  <2> QED BY <2>1, <2>2, <2>3, <2>4, TypePartsNext
<1>3. CASE Crash
  <2>1. SharedTypes'
    BY <1>3, KeptShared DEF Crash
  <2>2. stack' \in [Ops -> Seq(Frame)] /\ ret' \in [Ops -> Result]
    BY <1>3 DEF Crash, TypeInv, TypeOK, Result
  <2>3. HttpTypes'
    BY <1>3, ExchangeTypes, HeaderTypes DEF Crash, HttpTypes, server
  <2>4. HistoryTypes'
    BY <1>3 DEF Crash, TypeInv, TypeOK, HistoryTypes
  <2> QED BY <2>1, <2>2, <2>3, <2>4, TypePartsNext
<1> QED BY <1>1, <1>2, <1>3 DEF AddRequestHeadersAndDo

LEMMA StoreTypes ==
  ASSUME TypeInv, NEW o \in Ops, StoreFirstWord(o) \/ StoreSecondWord(o)
  PROVE  TypeInv'
<1>1. stack[o] # <<>> /\ http[o].token \in 0..issued /\ accessToken \in (0..issued) \X (0..issued)
  BY DEF StoreFirstWord, StoreSecondWord, At, TypeInv, TypeOK
<1>2. PICK a \in 0..issued, b \in 0..issued : accessToken = <<a, b>>
  BY <1>1
<1>3. CASE StoreFirstWord(o)
  <2>1. accessToken' = <<http[o].token, b>>
    BY <1>2, <1>3 DEF StoreFirstWord
  <2>2. SharedTypes'
    <3>1. <<http[o].token, b>> \in (0..issued) \X (0..issued)
      BY <1>1
    <3>2. UNCHANGED <<initialLogin, version, issued, live, faults>>
      BY <1>3 DEF StoreFirstWord, server
    <3> QED BY <2>1, <3>1, <3>2 DEF TypeInv, TypeOK, SharedTypes
  <2>3. StackTypes'
    BY <1>1, <1>3, GotoTypes DEF StoreFirstWord, TypeInv, TypeOK, StackTypes
  <2>4. HttpTypes' /\ HistoryTypes'
    BY <1>3, HttpKept, KeptHistory DEF StoreFirstWord, server
  <2> QED BY <2>2, <2>3, <2>4, TypePartsNext
<1>4. CASE StoreSecondWord(o)
  <2>1. accessToken' = <<a, http[o].token>>
    BY <1>2, <1>4 DEF StoreSecondWord
  <2>2. SharedTypes'
    <3>1. <<a, http[o].token>> \in (0..issued) \X (0..issued)
      BY <1>1
    <3>2. UNCHANGED <<initialLogin, version, issued, live, faults>>
      BY <1>4 DEF StoreSecondWord, server
    <3> QED BY <2>1, <3>1, <3>2 DEF TypeInv, TypeOK, SharedTypes
  <2>3. StackTypes'
    <3>1. CASE Return(o, "ok")
      BY <1>1, <3>1, ReturnTypes DEF TypeInv, TypeOK, StackTypes, Result, Status
    <3>2. CASE Call(o, "gotInfo", "info", "enter") /\ UNCHANGED ret
      BY <1>1, <3>2, CallTypes DEF TypeInv, TypeOK, StackTypes, API
    <3> QED BY <1>4, <3>1, <3>2 DEF StoreSecondWord
  <2>4. HttpTypes'
    BY <1>4, HttpIdle DEF StoreSecondWord, server
  <2>5. disturbed' \in [Ops -> BOOLEAN]
    BY <1>4 DEF StoreSecondWord, TypeInv, TypeOK
  <2>6. HistoryTypes'
    BY <1>4, <2>5 DEF StoreSecondWord, TypeInv, TypeOK, HistoryTypes
  <2> QED BY <2>2, <2>3, <2>4, <2>6, TypePartsNext
<1> QED BY <1>3, <1>4

\* The steps that end with a Return, and those that end with a Call.
LEMMA ReturningTypes ==
  ASSUME TypeInv, NEW o \in Ops,
         \/ DelayedLoginFailed(o) \/ RefreshFailed(o) \/ SendRequestReturns(o)
         \/ CredentialsFailed(o) \/ LoginReturns(o) \/ VersionKnown(o) \/ VersionReturns(o)
  PROVE  TypeInv'
<1> USE DEF At
<1>1. ret[o] \in Result /\ http[o].status \in Result /\ {"authError", "ok"} \subseteq Result
  <2>1. http[o] \in Exchange /\ ret[o] \in Result
    BY DEF TypeInv, TypeOK
  <2>2. {"authError", "ok"} \subseteq Result
    BY DEF Result, Status
  <2> QED BY <2>1, <2>2, ExchangeTypes
<1>2. \E r \in Result : stack[o] # <<>> /\ Return(o, r)
  BY <1>1 DEF DelayedLoginFailed, RefreshFailed, SendRequestReturns, CredentialsFailed,
              LoginReturns, VersionKnown, VersionReturns
<1>3. StackTypes'
  BY <1>2, ReturnTypes DEF StackTypes, TypeInv, TypeOK
<1>4. UNCHANGED <<initialLogin, accessToken, server, history>> /\ version' \in BOOLEAN
      /\ (http' = http \/ http' = [http EXCEPT ![o] = Idle])
  BY DEF DelayedLoginFailed, RefreshFailed, SendRequestReturns, CredentialsFailed,
         LoginReturns, VersionKnown, VersionReturns, client, TypeInv, TypeOK
<1>5. SharedTypes' /\ HistoryTypes'
  BY <1>4, KeptHistory DEF SharedTypes, TypeInv, TypeOK, server
<1>6. HttpTypes'
  BY <1>4, HttpKept, HttpIdle DEF server
<1> QED BY <1>3, <1>5, <1>6, TypePartsNext

LEMMA CallingTypes ==
  ASSUME TypeInv, NEW o \in Ops,
         \/ TestInitialLogin(o) \/ DelayedLogin(o) \/ RefreshOnDenied(o) \/ LoginInstead(o)
         \/ VersionLogin(o) \/ PostCredentials(o)
  PROVE  TypeInv'
<1> USE DEF At
<1>1. UNCHANGED <<accessToken, version, server, ret, history>> /\ initialLogin' \in BOOLEAN
      /\ stack[o] # <<>>
  BY DEF TestInitialLogin, DelayedLogin, RefreshOnDenied, LoginInstead, VersionLogin,
         PostCredentials, client, TypeInv, TypeOK
<1>2. SharedTypes' /\ HistoryTypes'
  BY <1>1, KeptHistory DEF SharedTypes, TypeInv, TypeOK, server
<1>3. HttpTypes'
  <2>1. CASE PostCredentials(o)
    <3>1. issued' = issued /\ 0 \in 0..issued' /\ issued' \in Nat /\ issued' >= issued
      BY <1>1, HeaderTypes DEF server
    <3>2. http' = [http EXCEPT ![o] = [at |-> "asked", token |-> 0, status |-> "ok"]]
      BY <2>1 DEF PostCredentials
    <3> QED BY <3>1, <3>2, HttpSet DEF Status
  <2>2. CASE ~PostCredentials(o)
    BY <1>1, <2>2, HttpKept, HttpIdle
       DEF TestInitialLogin, DelayedLogin, RefreshOnDenied, LoginInstead, VersionLogin, server
  <2> QED BY <2>1, <2>2
<1>4. stack' \in [Ops -> Seq(Frame)]
  <2>1. CASE DelayedLogin(o) \/ RefreshOnDenied(o) \/ VersionLogin(o)
    BY <1>1, <2>1, CallTypes DEF DelayedLogin, RefreshOnDenied, VersionLogin, Auth, TypeInv, TypeOK
  <2>2. CASE LoginInstead(o)
    <3> DEFINE f == [proc |-> "login", pc |-> "post"]
    <3>1. f \in Frame
      BY DEF Frame, Auth
    <3>2. <<f>> \o Tail(stack[o]) \in Seq(Frame)
      BY <1>1, <3>1, Relabelled DEF TypeInv, TypeOK
    <3> QED BY <2>2, <3>2 DEF LoginInstead, TypeInv, TypeOK
  <2>3. CASE PostCredentials(o) \/ TestInitialLogin(o)
    BY <1>1, <2>3, GotoTypes DEF PostCredentials, TestInitialLogin, TypeInv, TypeOK
  <2> QED BY <2>1, <2>2, <2>3
<1> QED BY <1>1, <1>2, <1>3, <1>4, TypePartsNext DEF StackTypes, TypeInv, TypeOK

\* No answer is sent again: newHttpClient keeps no retrying transport.
LEMMA NoResending == \A s : ~Resends(s)
BY DEF Resends, newHttpClient

LEMMA Delivered ==
  ASSUME NEW o, NEW t, NEW s, http \in [Ops -> Exchange], Deliver(o, t, s)
  PROVE  http' = [http EXCEPT ![o] = [at |-> "answered", token |-> t, status |-> s]]
BY NoResending DEF Deliver

LEMMA ServerTypes ==
  ASSUME TypeInv, NEW o \in Ops, ServerStep(o)
  PROVE  TypeInv'
<1>1. http \in [Ops -> Exchange] /\ http[o].token \in 0..issued /\ issued \in Nat
      /\ MaxTokens \in Nat /\ faults \in Nat /\ MaxFaults \in Nat /\ issued \in 0..MaxTokens
  BY HeaderTypes, OpsAssumption DEF TypeInv, TypeOK
<1>2. CASE TokenIssued(o)
  <2>1. issued' = issued + 1 /\ issued < MaxTokens /\ live' = live \cup {issued + 1}
        /\ UNCHANGED <<initialLogin, accessToken, version, faults, stack, ret, history>>
    BY <1>2 DEF TokenIssued, client
  <2>2. issued' \in Nat /\ issued' >= issued /\ issued + 1 \in 0..issued' /\ issued' \in 0..MaxTokens
    BY <1>1, <2>1
  <2>3. http' = [http EXCEPT ![o] = [at |-> "answered", token |-> issued + 1, status |-> "ok"]]
    BY <1>1, <1>2, Delivered DEF TokenIssued
  <2>4. HttpTypes'
    BY <2>2, <2>3, HttpSet DEF Status
  <2>5. accessToken' \in (0..issued') \X (0..issued') /\ live' \subseteq 1..issued'
    BY <1>1, <2>1 DEF TypeInv, TypeOK
  <2>6. SharedTypes'
    BY <2>1, <2>2, <2>5 DEF SharedTypes, TypeInv, TypeOK
  <2>7. StackTypes' /\ HistoryTypes'
    BY <2>1, KeptHistory DEF StackTypes, TypeInv, TypeOK
  <2> QED BY <2>4, <2>6, <2>7, TypePartsNext
<1>3. CASE ~TokenIssued(o)
  <2>1. /\ UNCHANGED <<initialLogin, accessToken, version, issued, live, stack, ret>>
        /\ \/ faults' = faults /\ UNCHANGED disturbed
           \/ Fault(o)
    BY <1>3 DEF ServerStep, TokenRefused, AdminAnswers, AdminFails, Answer, client
  <2>2. SharedTypes' /\ StackTypes'
    BY <1>1, <2>1 DEF Fault, SharedTypes, StackTypes, TypeInv, TypeOK
  <2>3. PICK t \in 0..issued, s \in Status : Deliver(o, t, s)
    BY <1>1, <1>3 DEF ServerStep, TokenRefused, AdminAnswers, AdminFails, Answer, Status
  <2>4. HttpTypes'
    <3>1. issued' = issued /\ issued' \in Nat /\ issued' >= issued /\ t \in 0..issued'
      BY <1>1, <2>1
    <3>2. http' = [http EXCEPT ![o] = [at |-> "answered", token |-> t, status |-> s]]
      BY <1>1, <2>3, Delivered
    <3> QED BY <3>1, <3>2, HttpSet
  <2>5. disturbed' \in [Ops -> BOOLEAN]
    BY <2>1 DEF Fault, TypeInv, TypeOK
  <2>6. \/ UNCHANGED <<received, applied, answer>>
        \/ \E u \in Status, n \in {0, 1} : Answer(o, u, n)
    BY <1>3 DEF ServerStep, TokenRefused, AdminAnswers, AdminFails, Status
  <2>7. received' \in [Ops -> Nat] /\ applied' \in [Ops -> Nat]
        /\ answer' \in [Ops -> Status \cup {"none"}]
    <3>1. CASE UNCHANGED <<received, applied, answer>>
      BY <3>1 DEF TypeInv, TypeOK
    <3>2. ASSUME NEW u \in Status, NEW n \in {0, 1}, Answer(o, u, n)
          PROVE  /\ received' \in [Ops -> Nat] /\ applied' \in [Ops -> Nat]
                 /\ answer' \in [Ops -> Status \cup {"none"}]
      <4>1. applied[o] \in Nat /\ applied[o] + n \in Nat
        BY DEF TypeInv, TypeOK
      <4>2. CASE Own(o)
        BY <3>2, <4>1, <4>2 DEF Answer, TypeInv, TypeOK
      <4>3. CASE ~Own(o)
        BY <3>2, <4>3 DEF Answer, TypeInv, TypeOK
      <4> QED BY <4>2, <4>3
    <3> QED BY <2>6, <3>1, <3>2
  <2> QED BY <2>2, <2>4, <2>5, <2>7, TypePartsNext DEF HistoryTypes
<1> QED BY <1>2, <1>3

LEMMA StartTypes ==
  ASSUME TypeInv, NEW o \in Ops, Start(o)
  PROVE  TypeInv'
<1>1. SharedTypes' /\ HttpTypes'
  BY KeptShared, HttpKept DEF Start, server
<1> DEFINE f == [proc |-> IF o \in VersionOps THEN "version" ELSE "call", pc |-> "enter"]
<1>2. f \in Frame
  BY DEF Frame, API
<1>3. <<f>> \in Seq(Frame)
  BY <1>2
<1>4. StackTypes'
  BY <1>3 DEF Start, StackTypes, TypeInv, TypeOK
<1>5. HistoryTypes'
  BY DEF Start, HistoryTypes, TypeInv, TypeOK
<1> QED BY <1>1, <1>4, <1>5, TypePartsNext

LEMMA ExpireTypes ==
  ASSUME TypeInv, Expire
  PROVE  TypeInv'
<1>1. SharedTypes'
  BY OpsAssumption DEF Expire, client, SharedTypes, TypeInv, TypeOK
<1>2. StackTypes' /\ HttpTypes' /\ HistoryTypes'
  BY DEF Expire, StackTypes, HttpTypes, HistoryTypes, TypeInv, TypeOK
<1> QED BY <1>1, <1>2, TypePartsNext

LEMMA TypeNext == TypeInv /\ [Next]_vars => TypeInv'
<1> SUFFICES ASSUME TypeInv, [Next]_vars PROVE TypeInv'
  OBVIOUS
<1>1. ASSUME NEW o \in Ops, ClientStep(o) PROVE TypeInv'
  <2>1. CASE SendFirst(o) \/ SendAgain(o)
    BY <1>1, <2>1, DoTypes DEF SendFirst, SendAgain, At
  <2> QED BY <1>1, <2>1, StoreTypes, ReturningTypes, CallingTypes DEF ClientStep
<1>2. CASE UNCHANGED vars
  <2>1. SharedTypes' /\ HttpTypes' /\ HistoryTypes'
    BY <1>2, KeptShared, HttpKept, KeptHistory DEF vars, server
  <2>2. StackTypes'
    BY <1>2 DEF vars, StackTypes, TypeInv, TypeOK
  <2> QED BY <2>1, <2>2, TypePartsNext
<1> QED BY <1>1, <1>2, StartTypes, ServerTypes, ExpireTypes DEF Next

\* Every variable keeps its type, and no token is stored that was not issued.
THEOREM SessionTypes == Spec => []TypeOK
<1>1. TypeInv => TypeOK
  BY DEF TypeInv
<1> QED BY <1>1, TypeInit, TypeNext, PTL DEF Spec

-----------------------------------------------------------------------------
(* What is always true of one operation, of its stack s, the value r last  *)
(* returned, its exchange h, the number n of times its request was carried *)
(* out and the last answer b to it; d, whether it was disturbed; w, the    *)
(* second word of the shared token, the last one a goroutine stores, and L,*)
(* the live tokens.                                                        *)

\* Frames below the top wait for the one above; only the bottom one is the
\* caller's own request.
Suspended == {"loggedIn", "refreshed", "gotInfo"}
Shape(o, s) ==
  /\ \A i \in 2..Len(s) : s[i].pc \in Suspended
  /\ \A i \in 1..Len(s) : s[i].proc \in {"call", "version"} => i = Len(s)
  /\ s # <<>> => s[Len(s)].proc = IF o \in VersionOps THEN "version" ELSE "call"

\* An exchange is under way only while the top frame waits for it or stores it.
Fits(s, h) ==
  /\ h.at = "asked" => s # <<>> /\ Head(s).pc \in {"wait", "resent"}
  /\ h.at = "answered" => s # <<>> /\ Head(s).pc \in {"wait", "resent", "store"}
  /\ s # <<>> /\ Head(s).pc = "store" => h.at = "answered"

Once(n, r) ==
  /\ n <= 1
  /\ r = "ok" => n = 1
  /\ r \in {"notFound", "denied"} => n = 0

Sending(s) == s # <<>> /\ Head(s).proc = "call" /\ Head(s).pc \in {"wait", "resent"}

\* The request was carried out only if its last answer is being read, or was the
\* one returned: what leads to a second sending is a refusal.
Carried(o, s, r, h, n, b) ==
  /\ n <= 1
  /\ o \in VersionOps => n = 0
  /\ s = <<>> /\ r = "none" => n = 0
  /\ s = <<>> /\ r \in {"ok", "notFound", "denied"} /\ o \notin VersionOps => b = r /\ Once(n, r)
  /\ s # <<>> /\ ~Sending(s) => n = 0
  /\ Sending(s) /\ h.at # "answered" => n = 0
  /\ Sending(s) /\ h.at = "answered" => b = h.status /\ Once(n, b)

\* An undisturbed operation asks for the server's version, and goes on after a
\* login or a Refresh, only with a live token stored, however many other
\* goroutines are storing theirs.
Trusted(f, w, L) ==
  /\ f.proc = "info" => f.pc \notin {"refreshed", "resent"} /\ w \in L
  /\ f.pc = "gotInfo" => w \in L
Backed(s, w, L) == \A i \in 1..Len(s) : Trusted(s[i], w, L)

Sound(s, r, h, w, L) ==
  /\ Backed(s, w, L)
  /\ s = <<>> /\ r \notin {"none", "unasked"} => r \in {"ok", "notFound"}
  /\ s # <<>> /\ Head(s).pc \in Suspended => r = "ok" /\ w \in L
  /\ s # <<>> /\ h.at # "idle" /\ (Head(s).proc = "info" \/ Head(s).pc = "resent") => h.token \in L
  /\ s # <<>> /\ h.at = "answered" =>
       /\ Head(s).proc \in Auth => h.status = "ok" /\ h.token \in L
       /\ Head(s).proc = "info" => h.status = "ok"
       /\ Head(s).proc = "call" => h.status \in {"ok", "notFound", "denied"}
       /\ Head(s).proc = "call" /\ Head(s).pc = "resent" => h.status # "denied"

Good(o, s, r, h, n, b, d, w, L) ==
  /\ Shape(o, s) /\ Fits(s, h)
  /\ Carried(o, s, r, h, n, b)
  /\ d \/ o \in Forbidden \/ Sound(s, r, h, w, L)

OpInv(o) == Good(o, stack[o], ret[o], http[o], applied[o], answer[o], disturbed[o],
                 accessToken[2], live)
SessionInv == \A o \in Ops : OpInv(o)

LEMMA Popped ==
  ASSUME NEW o, NEW s \in Seq(Frame), s # <<>>, Shape(o, s)
  PROVE  /\ Shape(o, Tail(s))
         /\ Tail(s) # <<>> => Head(Tail(s)).pc \in Suspended
         /\ Head(s).proc \in {"call", "version"} <=> Tail(s) = <<>>
         /\ Head(s).proc = "call" => o \notin VersionOps
         /\ Head(s).proc = "version" => o \in VersionOps
         /\ \A w, L : Backed(s, w, L) => Backed(Tail(s), w, L) /\ Trusted(Head(s), w, L)
<1> DEFINE u == Tail(s)
<1>1. /\ Len(s) \in Nat /\ Len(s) >= 1 /\ Head(s) = s[1]
      /\ u \in Seq(Frame) /\ Len(u) = Len(s) - 1
      /\ \A i \in 1..Len(s) - 1 : u[i] = s[i + 1]
      /\ u = <<>> <=> Len(s) = 1
  BY StackTop
<1>2. u # <<>> => Head(u) = u[1]
  BY <1>1, StackTop
<1> HIDE DEF u
<1>3. ASSUME NEW i \in 1..Len(u)
      PROVE  i + 1 \in 2..Len(s) /\ i + 1 \in 1..Len(s) /\ u[i] = s[i + 1]
             /\ (i + 1 = Len(s) => i = Len(u))
  BY <1>1
<1>4. \A i \in 1..Len(u) : u[i].pc \in Suspended
                           /\ (u[i].proc \in {"call", "version"} => i = Len(u))
  BY <1>3 DEF Shape
<1>5. u # <<>> => u[Len(u)].proc = IF o \in VersionOps THEN "version" ELSE "call"
  <2>1. ASSUME u # <<>> PROVE u[Len(u)] = s[Len(s)]
    BY <1>1, <2>1
  <2> QED BY <2>1 DEF Shape
<1>6. u # <<>> => Head(u).pc \in Suspended
  BY <1>1, <1>2 DEF Shape
<1>7. Head(s).proc \in {"call", "version"} <=> u = <<>>
  <2>1. ASSUME u = <<>> PROVE Head(s).proc \in {"call", "version"}
    BY <1>1, <2>1 DEF Shape
  <2>2. ASSUME Head(s).proc \in {"call", "version"} PROVE 1 = Len(s)
    <3>1. 1 \in 1..Len(s) /\ s[1].proc \in {"call", "version"}
      BY <1>1, <2>2
    <3> QED BY <3>1 DEF Shape
  <2> QED BY <1>1, <2>1, <2>2
<1>8. /\ Head(s).proc = "call" => o \notin VersionOps
      /\ Head(s).proc = "version" => o \in VersionOps
  <2>1. u = <<>> => Head(s).proc = IF o \in VersionOps THEN "version" ELSE "call"
    BY <1>1 DEF Shape
  <2> QED BY <1>7, <2>1
<1>9. ASSUME NEW w, NEW L, Backed(s, w, L) PROVE Backed(u, w, L) /\ Trusted(Head(s), w, L)
  <2>1. \A i \in 1..Len(u) : Trusted(u[i], w, L)
    BY <1>3, <1>9 DEF Backed
  <2>2. 1 \in 1..Len(s)
    BY <1>1
  <2> QED BY <1>1, <1>9, <2>1, <2>2 DEF Backed
<1>10. Shape(o, u)
  <2>1. \A i \in 2..Len(u) : u[i].pc \in Suspended
    BY <1>1, <1>4
  <2> QED BY <1>4, <1>5, <2>1 DEF Shape
<1> QED BY <1>6, <1>7, <1>8, <1>9, <1>10 DEF u

LEMMA NewTop ==
  ASSUME NEW o, NEW s \in Seq(Frame), s # <<>>, Shape(o, s), NEW f \in Frame,
         f.proc = Head(s).proc \/ {f.proc, Head(s).proc} \subseteq Auth
  PROVE  /\ Shape(o, <<f>> \o Tail(s))
         /\ \A w, L : Backed(s, w, L) /\ Trusted(f, w, L) => Backed(<<f>> \o Tail(s), w, L)
<1> DEFINE t == <<f>> \o Tail(s)
<1>1. /\ Len(s) \in Nat /\ Len(s) >= 1 /\ Head(s) = s[1]
      /\ Len(t) = Len(s) /\ t[1] = f
      /\ \A i \in 2..Len(s) : t[i] = s[i]
  BY StackTop, Relabelled
<1> HIDE DEF t
<1>2. f.proc \in {"call", "version"} => s[1].proc = f.proc
  BY <1>1 DEF Auth
<1>3. s[1].proc \in {"call", "version"} => s[1].proc = f.proc
  BY <1>1 DEF Auth
<1>4. Shape(o, t)
  BY <1>1, <1>2, <1>3 DEF Shape
<1>5. ASSUME NEW w, NEW L, Backed(s, w, L), Trusted(f, w, L) PROVE Backed(t, w, L)
  BY <1>1, <1>5 DEF Backed
<1> QED BY <1>4, <1>5 DEF t

LEMMA NewFrame ==
  ASSUME NEW o, NEW s \in Seq(Frame), s # <<>>, Shape(o, s), NEW f \in Frame, NEW g \in Frame,
         f.proc = Head(s).proc, f.pc \in Suspended, g.proc \in {"info"} \cup Auth
  PROVE  /\ Shape(o, <<g, f>> \o Tail(s))
         /\ \A w, L : Backed(s, w, L) /\ Trusted(f, w, L) /\ Trusted(g, w, L)
                      => Backed(<<g, f>> \o Tail(s), w, L)
<1> DEFINE t == <<g, f>> \o Tail(s)
<1>1. /\ Len(s) \in Nat /\ Len(s) >= 1 /\ Head(s) = s[1]
      /\ t # <<>> /\ Len(t) = Len(s) + 1 /\ t[1] = g /\ t[2] = f
      /\ \A i \in 3..Len(s) + 1 : t[i] = s[i - 1]
  BY StackTop, Pushed
<1> HIDE DEF t
<1>2. g.proc \notin {"call", "version"}
  BY DEF Auth
<1>3. \A i \in 2..Len(t) : t[i].pc \in Suspended
  BY <1>1 DEF Shape
<1>4. \A i \in 1..Len(t) : t[i].proc \in {"call", "version"} => i = Len(t)
  BY <1>1, <1>2 DEF Shape
<1>5. t[Len(t)].proc = IF o \in VersionOps THEN "version" ELSE "call"
  BY <1>1 DEF Shape
<1>6. ASSUME NEW w, NEW L, Backed(s, w, L), Trusted(f, w, L), Trusted(g, w, L)
      PROVE  Backed(t, w, L)
  BY <1>1, <1>6 DEF Backed
<1> QED BY <1>3, <1>4, <1>5, <1>6 DEF Shape, t

\* A step of the operation that ends with a Return of r ...
LEMMA GoodReturn ==
  ASSUME NEW o, NEW s \in Seq(Frame), s # <<>>, NEW r0, NEW r, NEW h0, NEW h, NEW n, NEW b,
         NEW d0, NEW d, NEW w0, NEW w, NEW L0, NEW L,
         Good(o, s, r0, h0, n, b, d0, w0, L0), h.at = "idle",
         Head(s).proc = "call" =>
           r # "none" /\ (r \in {"ok", "notFound", "denied"} => b = r /\ Once(n, r)),
         \/ d \/ o \in Forbidden
         \/ /\ Backed(s, w, L)
            /\ Tail(s) = <<>> => r \in {"ok", "notFound"}
            /\ Tail(s) # <<>> => r = "ok" /\ w \in L
  PROVE  Good(o, Tail(s), r, h, n, b, d, w, L)
<1> DEFINE u == Tail(s)
<1>1. /\ Shape(o, u)
      /\ u # <<>> => Head(u).pc \in Suspended
      /\ Head(s).proc \in {"call", "version"} <=> u = <<>>
      /\ Head(s).proc = "call" => o \notin VersionOps
      /\ Head(s).proc = "version" => o \in VersionOps
      /\ Backed(s, w, L) => Backed(u, w, L)
  BY Popped DEF Good
<1> HIDE DEF u
<1>2. Fits(u, h)
  BY <1>1 DEF Fits, Suspended
<1>3. ~Sending(u)
  BY <1>1 DEF Sending, Suspended
<1>4. Carried(o, u, r, h, n, b)
  <2>1. n <= 1 /\ (o \in VersionOps => n = 0) /\ (u # <<>> => n = 0)
    BY <1>1 DEF Good, Carried, Sending
  <2>2. u = <<>> /\ o \notin VersionOps => Head(s).proc = "call"
    BY <1>1
  <2> QED BY <1>3, <2>1, <2>2 DEF Carried
<1>5. d \/ o \in Forbidden \/ Sound(u, r, h, w, L)
  BY <1>1 DEF Sound, u
<1> QED BY <1>1, <1>2, <1>4, <1>5 DEF Good, u

\* ... one that ends with a Call ...
LEMMA GoodCall ==
  ASSUME NEW o, NEW s \in Seq(Frame), s # <<>>, NEW r, NEW h0, NEW h, NEW n, NEW b,
         NEW d0, NEW d, NEW w0, NEW w, NEW L0, NEW L,
         Good(o, s, r, h0, n, b, d0, w0, L0), h.at = "idle", n = 0,
         NEW f \in Frame, NEW g \in Frame, f.proc = Head(s).proc, f.pc \in Suspended,
         g.proc \in {"info"} \cup Auth, g.pc \in {"enter", "post"},
         \/ d \/ o \in Forbidden
         \/ Backed(s, w, L) /\ Trusted(f, w, L) /\ Trusted(g, w, L)
  PROVE  Good(o, <<g, f>> \o Tail(s), r, h, n, b, d, w, L)
<1> DEFINE t == <<g, f>> \o Tail(s)
<1>1. Shape(o, t) /\ t # <<>> /\ Head(t) = g
  BY NewFrame, Pushed DEF Good
<1>2. Backed(s, w, L) /\ Trusted(f, w, L) /\ Trusted(g, w, L) => Backed(t, w, L)
  BY NewFrame DEF Good
<1> HIDE DEF t
<1>3. Fits(t, h) /\ ~Sending(t) /\ Head(t).pc \notin Suspended
  BY <1>1 DEF Fits, Sending, Suspended
<1>4. Carried(o, t, r, h, n, b)
  BY <1>1, <1>3 DEF Carried
<1>5. d \/ o \in Forbidden \/ Sound(t, r, h, w, L)
  BY <1>1, <1>2, <1>3 DEF Sound
<1> QED BY <1>1, <1>3, <1>4, <1>5 DEF Good, t

\* ... and one that leaves the top frame at another place.
LEMMA GoodTop ==
  ASSUME NEW o, NEW s \in Seq(Frame), s # <<>>, NEW r, NEW h0, NEW h, NEW n, NEW b,
         NEW d0, NEW d, NEW w0, NEW w, NEW L0, NEW L,
         Good(o, s, r, h0, n, b, d0, w0, L0), n = 0,
         NEW f \in Frame, f.proc = Head(s).proc \/ {f.proc, Head(s).proc} \subseteq Auth,
         f.pc \notin Suspended,
         h.at = "asked" => f.pc \in {"wait", "resent"},
         h.at = "answered" => f.pc = "store" /\ f.proc \in Auth,
         f.pc = "store" => h.at = "answered",
         \/ d \/ o \in Forbidden
         \/ /\ Backed(s, w, L) /\ Trusted(f, w, L)
            /\ h.at # "idle" /\ (f.proc = "info" \/ f.pc = "resent") => h.token \in L
            /\ h.at = "answered" => h.status = "ok" /\ h.token \in L
  PROVE  Good(o, <<f>> \o Tail(s), r, h, n, b, d, w, L)
<1> DEFINE t == <<f>> \o Tail(s)
<1>1. Shape(o, t) /\ t # <<>> /\ Head(t) = f
  BY NewTop, Relabelled DEF Good
<1>2. Backed(s, w, L) /\ Trusted(f, w, L) => Backed(t, w, L)
  BY NewTop DEF Good
<1> HIDE DEF t
<1>3. Fits(t, h) /\ (h.at = "answered" => ~Sending(t))
  BY <1>1 DEF Fits, Sending
<1>4. Carried(o, t, r, h, n, b)
  BY <1>1, <1>3 DEF Carried
<1>5. d \/ o \in Forbidden \/ Sound(t, r, h, w, L)
  BY <1>1, <1>2, <1>3 DEF Sound, Auth
<1> QED BY <1>1, <1>3, <1>4, <1>5 DEF Good, t

\* What the others do: they store live tokens, or disturb it; tokens are added.
LEMMA GoodKept ==
  ASSUME NEW o, NEW s, NEW r, NEW h, NEW n, NEW b, NEW d0, NEW d, NEW w0, NEW w, NEW L0, NEW L,
         Good(o, s, r, h, n, b, d0, w0, L0),
         d \/ (~d0 /\ L0 \subseteq L /\ (w = w0 \/ w \in L))
  PROVE  Good(o, s, r, h, n, b, d, w, L)
<1>1. ASSUME Sound(s, r, h, w0, L0), L0 \subseteq L, w = w0 \/ w \in L
      PROVE  Sound(s, r, h, w, L)
  <2>1. Backed(s, w, L)
    BY <1>1 DEF Sound, Backed, Trusted
  <2> QED BY <1>1, <2>1 DEF Sound
<1> QED BY <1>1 DEF Good

LEMMA OthersKept ==
  ASSUME SessionInv, NEW o \in Ops, OpInv(o)', disturbed \in [Ops -> BOOLEAN],
         \A p \in Ops \ {o} :
           /\ stack'[p] = stack[p] /\ ret'[p] = ret[p] /\ http'[p] = http[p]
           /\ applied'[p] = applied[p] /\ answer'[p] = answer[p]
           /\ \/ disturbed'[p]
              \/ /\ disturbed'[p] = disturbed[p] /\ live \subseteq live'
                 /\ accessToken'[2] = accessToken[2] \/ accessToken'[2] \in live'
  PROVE  SessionInv'
<1> SUFFICES ASSUME NEW p \in Ops, p # o PROVE OpInv(p)'
  BY DEF SessionInv
<1>1. Good(p, stack[p], ret[p], http[p], applied[p], answer[p], disturbed[p], accessToken[2], live)
  BY DEF SessionInv, OpInv
<1>2. disturbed'[p] \/ (~disturbed[p] /\ live \subseteq live'
                        /\ (accessToken'[2] = accessToken[2] \/ accessToken'[2] \in live'))
  OBVIOUS
<1>3. Good(p, stack[p], ret[p], http[p], applied[p], answer[p], disturbed'[p], accessToken'[2], live')
  BY <1>1, <1>2, GoodKept
<1> QED BY <1>3 DEF OpInv

\* The values of one operation that its steps update.
Unmoved(o) ==
  \A p \in Ops \ {o} :
    /\ stack'[p] = stack[p] /\ ret'[p] = ret[p] /\ http'[p] = http[p]
    /\ applied'[p] = applied[p] /\ answer'[p] = answer[p] /\ disturbed'[p] = disturbed[p]

LEMMA QuietStep ==
  ASSUME TypeInv, SessionInv, NEW o \in Ops, Unmoved(o), OpInv(o)', live \subseteq live',
         accessToken'[2] = accessToken[2] \/ accessToken'[2] \in live'
  PROVE  SessionInv'
BY OthersKept DEF Unmoved, TypeInv, TypeOK

\* What the invariants say of the operation that takes a step.
LEMMA Mine ==
  ASSUME TypeInv, SessionInv, NEW o \in Ops
  PROVE  /\ Good(o, stack[o], ret[o], http[o], applied[o], answer[o], disturbed[o], accessToken[2], live)
         /\ stack[o] \in Seq(Frame) /\ http[o] \in Exchange /\ http[o].at \in {"idle", "asked", "answered"}
         /\ http[o].status \in Status /\ ret[o] \in Result /\ disturbed[o] \in BOOLEAN
         /\ o \in Forbidden => o \notin VersionOps
BY OpsAssumption DEF TypeInv, TypeOK, SessionInv, OpInv, Exchange

\* Where no exchange can be under way.
LEMMA NoExchange ==
  ASSUME TypeInv, SessionInv, NEW o \in Ops, stack[o] # <<>>,
         Head(stack[o]).pc \notin {"wait", "resent", "store"}
  PROVE  http[o].at = "idle"
BY Mine DEF Good, Fits

Settled(o) == http' = [http EXCEPT ![o] = Idle] \/ (http' = http /\ http[o].at = "idle")

LEMMA Settles ==
  ASSUME TypeInv, NEW o \in Ops, Settled(o)
  PROVE  http'[o].at = "idle" /\ \A p \in Ops \ {o} : http'[p] = http[p]
BY ExchangeTypes DEF TypeInv, TypeOK, Settled

LEMMA Returning ==
  ASSUME TypeInv, SessionInv, NEW o \in Ops, NEW r, stack[o] # <<>>, Return(o, r), Settled(o),
         UNCHANGED <<accessToken, live, applied, answer, disturbed>>,
         Head(stack[o]).proc = "call" =>
           /\ r # "none"
           /\ r \in {"ok", "notFound", "denied"} => answer[o] = r /\ Once(applied[o], r),
         \/ disturbed[o] \/ o \in Forbidden
         \/ /\ Tail(stack[o]) = <<>> => r \in {"ok", "notFound"}
            /\ Tail(stack[o]) # <<>> => r = "ok" /\ accessToken[2] \in live
  PROVE  SessionInv'
<1>1. stack'[o] = Tail(stack[o]) /\ ret'[o] = r /\ http'[o].at = "idle" /\ Unmoved(o)
  BY Settles DEF Return, Unmoved, TypeInv, TypeOK
<1>2. disturbed[o] \/ o \in Forbidden \/ Backed(stack[o], accessToken[2], live)
  BY Mine DEF Good, Sound
<1>3. Good(o, Tail(stack[o]), r, http'[o], applied[o], answer[o], disturbed[o], accessToken[2], live)
  BY <1>1, <1>2, Mine, GoodReturn
<1>4. OpInv(o)'
  BY <1>1, <1>3 DEF OpInv
<1> QED BY <1>1, <1>4, QuietStep

LEMMA DelayedLoginFailedStep ==
  ASSUME TypeInv, SessionInv, NEW o \in Ops, DelayedLoginFailed(o) \/ RefreshFailed(o)
  PROVE  SessionInv'
<1>1. stack[o] # <<>> /\ Head(stack[o]).pc \in {"loggedIn", "refreshed"} /\ ret[o] # "ok"
      /\ Return(o, "authError")
      /\ UNCHANGED <<accessToken, live, http, applied, answer, disturbed>>
  BY DEF DelayedLoginFailed, RefreshFailed, At, client, server, history
<1>2. Settled(o)
  BY <1>1, NoExchange DEF Settled
<1>3. disturbed[o] \/ o \in Forbidden
  BY <1>1, Mine DEF Good, Sound, Suspended
<1> QED BY <1>1, <1>2, <1>3, Returning

LEMMA SendRequestReturnsStep ==
  ASSUME TypeInv, SessionInv, NEW o \in Ops, SendRequestReturns(o)
  PROVE  SessionInv'
<1> DEFINE s == stack[o]
           h == http[o]
<1>1. /\ s # <<>> /\ Head(s).proc \in API /\ h.at = "answered" /\ Return(o, h.status)
      /\ \/ Head(s).pc = "wait" /\ h.status # "denied"
         \/ Head(s).pc = "resent"
      /\ UNCHANGED <<accessToken, live, applied, answer, disturbed>> /\ Settled(o)
  BY DEF SendRequestReturns, At, client, server, history, Settled
<1>2. /\ Good(o, s, ret[o], h, applied[o], answer[o], disturbed[o], accessToken[2], live)
      /\ s \in Seq(Frame) /\ h.status \in Status
  BY Mine
<1>3. /\ Head(s).proc \in {"call", "version"} <=> Tail(s) = <<>>
      /\ Backed(s, accessToken[2], live) => Trusted(Head(s), accessToken[2], live)
  BY <1>1, <1>2, Popped DEF Good
<1>4. Head(s).proc = "call" => answer[o] = h.status /\ Once(applied[o], h.status)
  BY <1>1, <1>2 DEF Good, Carried, Sending
<1>5. h.status # "none"
  BY <1>2 DEF Status
<1>6. ASSUME ~disturbed[o], o \notin Forbidden
      PROVE  /\ Tail(s) = <<>> => h.status \in {"ok", "notFound"}
             /\ Tail(s) # <<>> => h.status = "ok" /\ accessToken[2] \in live
  <2>1. Sound(s, ret[o], h, accessToken[2], live)
    BY <1>2, <1>6 DEF Good
  <2>2. CASE Head(s).proc = "call"
    BY <1>1, <1>3, <2>1, <2>2 DEF Sound
  <2>3. CASE Head(s).proc = "info"
    BY <1>1, <1>3, <2>1, <2>3 DEF Sound, Trusted
  <2> QED BY <1>1, <2>2, <2>3 DEF API
<1> QED BY <1>1, <1>4, <1>5, <1>6, Returning

LEMMA CredentialsFailedStep ==
  ASSUME TypeInv, SessionInv, NEW o \in Ops, CredentialsFailed(o)
  PROVE  SessionInv'
<1>1. /\ stack[o] # <<>> /\ Head(stack[o]).proc \in Auth /\ http[o].at = "answered"
      /\ ~Storable(Head(stack[o]).proc, http[o].status) /\ Return(o, "authError")
      /\ UNCHANGED <<accessToken, live, applied, answer, disturbed>> /\ Settled(o)
  BY DEF CredentialsFailed, At, client, server, history, Settled
<1>2. disturbed[o] \/ o \in Forbidden
  BY <1>1, Mine DEF Good, Sound, Storable
<1> QED BY <1>1, <1>2, Returning

LEMMA InnerReturnsStep ==
  ASSUME TypeInv, SessionInv, NEW o \in Ops,
         LoginReturns(o) \/ VersionKnown(o) \/ VersionReturns(o)
  PROVE  SessionInv'
<1>1. /\ stack[o] # <<>> /\ Head(stack[o]).proc \in {"login", "version"}
      /\ Head(stack[o]).pc \in {"gotInfo", "enter", "loggedIn"}
      /\ \/ Head(stack[o]).pc \in {"gotInfo", "loggedIn"} /\ Return(o, ret[o])
         \/ Head(stack[o]).proc = "version" /\ Return(o, "ok")
      /\ UNCHANGED <<accessToken, live, http, applied, answer, disturbed>>
  BY DEF LoginReturns, VersionKnown, VersionReturns, At, client, server, history
<1>2. Settled(o)
  BY <1>1, NoExchange DEF Settled
<1>3. Head(stack[o]).proc = "version" => Tail(stack[o]) = <<>>
  BY <1>1, Mine, Popped DEF Good
<1>4. Head(stack[o]).pc \in {"gotInfo", "loggedIn"} =>
        disturbed[o] \/ o \in Forbidden \/ (ret[o] = "ok" /\ accessToken[2] \in live)
  BY <1>1, Mine DEF Good, Sound, Suspended
<1>5. CASE Head(stack[o]).pc \in {"gotInfo", "loggedIn"} /\ Return(o, ret[o])
  BY <1>1, <1>2, <1>4, <1>5, Returning
<1>6. CASE Head(stack[o]).proc = "version" /\ Return(o, "ok")
  BY <1>1, <1>2, <1>3, <1>6, Returning
<1> QED BY <1>1, <1>5, <1>6

\* The frame a Goto or a Call leaves in the place of the top one.
LEMMA TopFrame ==
  ASSUME NEW s \in Seq(Frame), s # <<>>,
         NEW l \in {"enter", "tested", "loggedIn", "wait", "refreshed", "resent", "post", "store", "gotInfo"}
  PROVE  LET f == [Head(s) EXCEPT !.pc = l]
         IN  f \in Frame /\ f.proc = Head(s).proc /\ f.pc = l
BY StackTop, FrameParts

LEMMA Calling ==
  ASSUME TypeInv, SessionInv, NEW o \in Ops, stack[o] # <<>>, applied[o] = 0,
         NEW l \in {"loggedIn", "refreshed"}, NEW q \in Auth, Call(o, l, q, "post"), Settled(o),
         UNCHANGED <<accessToken, live, ret, applied, answer, disturbed>>,
         disturbed[o] \/ o \in Forbidden \/ Head(stack[o]).proc # "info" \/ l = "loggedIn"
  PROVE  SessionInv'
<1> DEFINE s == stack[o]
           f == [Head(s) EXCEPT !.pc = l]
           g == [proc |-> q, pc |-> "post"]
<1>1. /\ stack'[o] = <<g, f>> \o Tail(s) /\ http'[o].at = "idle" /\ Unmoved(o)
  BY Settles DEF Call, Unmoved, TypeInv, TypeOK
<1>2. /\ Good(o, s, ret[o], http[o], applied[o], answer[o], disturbed[o], accessToken[2], live)
      /\ s \in Seq(Frame)
  BY Mine
<1>3. f \in Frame /\ f.proc = Head(s).proc /\ f.pc = l
  <2>1. l \in {"enter", "tested", "loggedIn", "wait", "refreshed", "resent", "post", "store", "gotInfo"}
    OBVIOUS
  <2> QED BY <1>2, <2>1, TopFrame
<1>4. g \in Frame /\ g.proc = q /\ g.pc = "post" /\ Trusted(g, accessToken[2], live)
  BY DEF Frame, Auth, Trusted
<1>5. \/ disturbed[o] \/ o \in Forbidden
      \/ Backed(s, accessToken[2], live) /\ Trusted(Head(s), accessToken[2], live)
  BY <1>2, Popped DEF Good, Sound
<1>6. \/ disturbed[o] \/ o \in Forbidden
      \/ Backed(s, accessToken[2], live) /\ Trusted(f, accessToken[2], live)
  BY <1>3, <1>5 DEF Trusted
<1> HIDE DEF f, g
<1>7. f.pc \in Suspended /\ g.proc \in {"info"} \cup Auth /\ g.pc \in {"enter", "post"}
  BY <1>3, <1>4 DEF Suspended
<1> DEFINE v == accessToken[2]
           a == answer[o]
           r == ret[o]
           h == http[o]
           i == http'[o]
           d == disturbed[o]
<1> HIDE DEF v, a, r, h, i, d
<1>8. Good(o, s, r, h, 0, a, d, v, live)
  BY <1>2 DEF v, a, r, h, i, d
<1>9. i.at = "idle" /\ (d \/ o \in Forbidden \/ (Backed(s, v, live) /\ Trusted(f, v, live)
                                                /\ Trusted(g, v, live)))
  BY <1>1, <1>4, <1>6 DEF v, d, i
<1>10. Good(o, <<g, f>> \o Tail(s), r, i, 0, a, d, v, live)
  BY <1>2, <1>3, <1>4, <1>7, <1>8, <1>9, GoodCall
<1>11. OpInv(o)'
  BY <1>1, <1>10 DEF OpInv, v, a, r, i, d
<1> QED BY <1>1, <1>11, QuietStep

LEMMA CallingStep ==
  ASSUME TypeInv, SessionInv, NEW o \in Ops, DelayedLogin(o) \/ VersionLogin(o) \/ RefreshOnDenied(o)
  PROVE  SessionInv'
<1> DEFINE s == stack[o]
<1>1. /\ Good(o, s, ret[o], http[o], applied[o], answer[o], disturbed[o], accessToken[2], live)
  BY Mine
<1>2. CASE DelayedLogin(o) \/ VersionLogin(o)
  <2>1. /\ s # <<>> /\ Head(s).pc \in {"enter", "tested"}
        /\ Call(o, "loggedIn", "login", "post")
        /\ UNCHANGED <<accessToken, live, http, ret, applied, answer, disturbed>>
    BY <1>2 DEF DelayedLogin, VersionLogin, At, client, server, history
  <2>2. Settled(o) /\ applied[o] = 0
    BY <1>1, <2>1, NoExchange DEF Settled, Good, Carried, Sending
  <2> QED BY <2>1, <2>2, Calling DEF Auth
<1>3. CASE RefreshOnDenied(o)
  <2>1. /\ s # <<>> /\ Head(s).pc = "wait" /\ Call(o, "refreshed", "refresh", "post")
        /\ http[o].at = "answered" /\ http[o].status = "denied" /\ Settled(o)
        /\ UNCHANGED <<accessToken, live, ret, applied, answer, disturbed>>
    BY <1>3 DEF RefreshOnDenied, At, client, server, history, Settled
  <2>2. applied[o] = 0
    BY <1>1, <2>1 DEF Good, Carried, Once
  <2>3. disturbed[o] \/ o \in Forbidden \/ Head(s).proc # "info"
    BY <1>1, <2>1 DEF Good, Sound
  <2> QED BY <2>1, <2>2, <2>3, Calling DEF Auth
<1> QED BY <1>2, <1>3

LEMMA TestInitialLoginStep ==
  ASSUME TypeInv, SessionInv, NEW o \in Ops, TestInitialLogin(o)
  PROVE  SessionInv'
<1> DEFINE s == stack[o]
           f == [Head(s) EXCEPT !.pc = "tested"]
<1>1. /\ s # <<>> /\ Head(s).pc = "enter"
      /\ Good(o, s, ret[o], http[o], applied[o], answer[o], disturbed[o], accessToken[2], live)
      /\ s \in Seq(Frame)
  BY Mine DEF TestInitialLogin, At
<1>2. f \in Frame /\ f.proc = Head(s).proc /\ f.pc = "tested"
  BY <1>1, TopFrame
<1>3. /\ stack'[o] = <<f>> \o Tail(s) /\ Unmoved(o)
      /\ UNCHANGED <<accessToken, live, ret, http, applied, answer, disturbed>>
  BY DEF TestInitialLogin, Goto, Unmoved, client, server, history, TypeInv, TypeOK
<1>4. http[o].at = "idle" /\ applied[o] = 0
  BY <1>1, NoExchange DEF Good, Carried, Sending
<1>5. f.pc \notin Suspended /\ f.pc \notin {"store", "resent"}
  BY <1>2 DEF Suspended
<1>6. \/ disturbed[o] \/ o \in Forbidden
      \/ Backed(s, accessToken[2], live) /\ Trusted(f, accessToken[2], live)
  BY <1>1, <1>2, Popped DEF Good, Sound, Trusted
<1> HIDE DEF f
<1>7. Good(o, <<f>> \o Tail(s), ret[o], http[o], applied[o], answer[o], disturbed[o],
           accessToken[2], live)
  BY <1>1, <1>2, <1>4, <1>5, <1>6, GoodTop
<1>8. OpInv(o)'
  BY <1>3, <1>7 DEF OpInv
<1> QED BY <1>3, <1>8, QuietStep

LEMMA TransmitStep ==
  ASSUME TypeInv, SessionInv, NEW o \in Ops, NEW l \in {"wait", "resent"},
         l = "wait" => SendFirst(o), l = "resent" => SendAgain(o), Transmit(o, l)
  PROVE  SessionInv'
<1> DEFINE s == stack[o]
           f == [Head(s) EXCEPT !.pc = l]
           d == disturbed[o] \/ Torn
<1>1. /\ s # <<>> /\ Head(s).pc \in {"enter", "loggedIn", "refreshed"}
      /\ l = "resent" => Head(s).pc = "refreshed" /\ ret[o] = "ok"
      /\ Head(s).pc = "refreshed" => l = "resent"
  BY DEF SendFirst, SendAgain, At
<1>2. /\ Good(o, s, ret[o], http[o], applied[o], answer[o], disturbed[o], accessToken[2], live)
      /\ s \in Seq(Frame)
  BY Mine
<1>3. f \in Frame /\ f.proc = Head(s).proc /\ f.pc = l
  <2>1. l \in {"enter", "tested", "loggedIn", "wait", "refreshed", "resent", "post", "store", "gotInfo"}
    OBVIOUS
  <2> QED BY <1>1, <1>2, <2>1, TopFrame
<1>4. /\ stack'[o] = <<f>> \o Tail(s) /\ disturbed'[o] = d
      /\ http'[o] = [at |-> "asked", token |-> Header, status |-> "ok"]
      /\ UNCHANGED <<accessToken, live, ret, applied, answer>>
  BY DEF Transmit, Goto, client, server, TypeInv, TypeOK
<1>5. \A p \in Ops \ {o} : stack'[p] = stack[p] /\ http'[p] = http[p] /\ disturbed'[p] = disturbed[p]
  BY DEF Transmit, Goto, TypeInv, TypeOK
<1>6. http'[o].at = "asked" /\ http'[o].token = Header
  BY <1>4
<1>7. applied[o] = 0
  BY <1>1, <1>2 DEF Good, Carried, Sending
<1>8. ~d => Header = accessToken[2]
  BY DEF Header, Torn
<1>9. \/ d \/ o \in Forbidden
      \/ /\ Backed(s, accessToken[2], live) /\ Trusted(Head(s), accessToken[2], live)
         /\ Head(s).pc = "refreshed" => accessToken[2] \in live
  BY <1>1, <1>2, Popped DEF Good, Sound, Suspended
<1>10. \/ d \/ o \in Forbidden
       \/ /\ Backed(s, accessToken[2], live) /\ Trusted(f, accessToken[2], live)
          /\ f.proc = "info" \/ f.pc = "resent" => Header \in live
  BY <1>1, <1>3, <1>8, <1>9 DEF Trusted
<1> HIDE DEF f, d
<1>11. Good(o, <<f>> \o Tail(s), ret[o], http'[o], applied[o], answer[o], d, accessToken[2], live)
  <2> DEFINE v == accessToken[2]
             b == answer[o]
             r == ret[o]
             h == http[o]
             i == http'[o]
             c == disturbed[o]
  <2>1. Good(o, s, r, h, 0, b, c, v, live)
    BY <1>2, <1>7
  <2>2. f.pc \notin Suspended /\ f.pc # "store" /\ f.pc \in {"wait", "resent"}
    BY <1>3 DEF Suspended
  <2>3. i.at = "asked" /\ i.token = Header
    BY <1>6
  <2>4. d \/ o \in Forbidden
        \/ /\ Backed(s, v, live) /\ Trusted(f, v, live)
           /\ f.proc = "info" \/ f.pc = "resent" => i.token \in live
    BY <1>10, <2>3
  <2> HIDE DEF v, b, r, h, i, c
  <2>5. Good(o, <<f>> \o Tail(s), r, i, 0, b, d, v, live)
    BY <1>1, <1>2, <1>3, <2>1, <2>2, <2>3, <2>4, GoodTop
  <2> QED BY <1>7, <2>5 DEF v, b, r, i
<1>12. OpInv(o)' /\ Unmoved(o)
  BY <1>4, <1>5, <1>11 DEF OpInv, Unmoved
<1> QED BY <1>4, <1>12, QuietStep

LEMMA LocalErrorStep ==
  ASSUME TypeInv, SessionInv, NEW o \in Ops, SendFirst(o) \/ SendAgain(o), LocalError(o)
  PROVE  SessionInv'
<1>1. stack[o] # <<>> /\ Head(stack[o]).pc \in {"enter", "loggedIn", "refreshed"}
  BY DEF SendFirst, SendAgain, At
<1>2. /\ stack'[o] = Tail(stack[o]) /\ ret'[o] = "lost" /\ disturbed'[o] = TRUE
      /\ UNCHANGED <<accessToken, live, http, applied, answer>>
  BY DEF LocalError, Return, client, server, TypeInv, TypeOK
<1>3. Unmoved(o)
  BY <1>2 DEF LocalError, Return, Unmoved, TypeInv, TypeOK
<1>4. http[o].at = "idle"
  BY <1>1, NoExchange
<1>5. Good(o, Tail(stack[o]), "lost", http[o], applied[o], answer[o], TRUE, accessToken[2], live)
  BY <1>1, <1>4, Mine, GoodReturn
<1>6. OpInv(o)'
  BY <1>2, <1>5 DEF OpInv
<1> QED BY <1>2, <1>3, <1>6, QuietStep

LEMMA CrashStep ==
  ASSUME TypeInv, SessionInv, Crash
  PROVE  SessionInv'
<1> SUFFICES ASSUME NEW p \in Ops PROVE OpInv(p)'
  BY DEF SessionInv
<1>1. /\ stack'[p] = <<>> /\ http'[p].at = "idle" /\ disturbed'[p] = TRUE
      /\ ret'[p] = IF ret[p] = "none" \/ stack[p] # <<>> THEN "crashed" ELSE ret[p]
      /\ UNCHANGED <<applied, answer>>
  BY ExchangeTypes DEF Crash
<1>2. Carried(p, stack[p], ret[p], http[p], applied[p], answer[p])
  BY Mine DEF Good
<1>3. Carried(p, <<>>, ret'[p], http'[p], applied[p], answer[p])
  BY <1>1, <1>2 DEF Carried, Sending
<1>4. Shape(p, <<>>) /\ Fits(<<>>, http'[p])
  BY <1>1 DEF Shape, Fits
<1> QED BY <1>1, <1>3, <1>4 DEF OpInv, Good

LEMMA StartStep ==
  ASSUME TypeInv, SessionInv, NEW o \in Ops, Start(o)
  PROVE  SessionInv'
<1> DEFINE f == [proc |-> IF o \in VersionOps THEN "version" ELSE "call", pc |-> "enter"]
<1>1. /\ stack[o] = <<>> /\ ret[o] = "none" /\ stack'[o] = <<f>> /\ disturbed'[o] = FALSE
      /\ UNCHANGED <<accessToken, live, ret, http, applied, answer>> /\ Unmoved(o)
  BY DEF Start, Unmoved, client, server, TypeInv, TypeOK
<1>2. /\ f.proc = (IF o \in VersionOps THEN "version" ELSE "call") /\ f.pc = "enter"
      /\ <<f>> # <<>> /\ Head(<<f>>) = f /\ Len(<<f>>) = 1 /\ <<f>>[1] = f
  OBVIOUS
<1>3. http[o].at = "idle" /\ applied[o] = 0
  BY <1>1, Mine DEF Good, Fits, Carried
<1> HIDE DEF f
<1>4. Shape(o, <<f>>) /\ Fits(<<f>>, http[o]) /\ Backed(<<f>>, accessToken[2], live)
  BY <1>2, <1>3 DEF Shape, Fits, Backed, Trusted
<1>5. Carried(o, <<f>>, ret[o], http[o], applied[o], answer[o])
  BY <1>2, <1>3 DEF Carried, Sending
<1>6. Sound(<<f>>, ret[o], http[o], accessToken[2], live)
  BY <1>2, <1>3, <1>4 DEF Sound, Suspended
<1>7. OpInv(o)'
  BY <1>1, <1>4, <1>5, <1>6 DEF OpInv, Good
<1> QED BY <1>1, <1>3, <1>7, OthersKept DEF Unmoved, TypeInv, TypeOK

\* The next place of login or Refresh, or login instead of Refresh.
LEMMA AuthTop ==
  ASSUME TypeInv, SessionInv, NEW o \in Ops, stack[o] # <<>>, Head(stack[o]).proc \in Auth,
         NEW f \in Frame, f.proc \in Auth, f.pc \in {"post", "wait", "store"},
         stack'[o] = <<f>> \o Tail(stack[o]),
         http'[o].at = "asked" => f.pc = "wait",
         http'[o].at = "answered" => f.pc = "store" /\ http'[o] = http[o] /\ http[o].at = "answered",
         f.pc = "store" => http'[o].at = "answered",
         Unmoved(o), UNCHANGED <<live, ret, applied, answer, disturbed>>,
         accessToken'[2] = accessToken[2]
  PROVE  SessionInv'
<1> DEFINE s == stack[o]
<1>1. /\ Good(o, s, ret[o], http[o], applied[o], answer[o], disturbed[o], accessToken[2], live)
      /\ s \in Seq(Frame)
  BY Mine
<1>2. applied[o] = 0
  BY <1>1 DEF Good, Carried, Sending, Auth
<1>3. f.pc \notin Suspended /\ f.proc # "info" /\ f.pc # "resent"
      /\ Trusted(f, accessToken[2], live)
  BY DEF Suspended, Auth, Trusted
<1>4. \/ disturbed[o] \/ o \in Forbidden
      \/ /\ Backed(s, accessToken[2], live)
         /\ http'[o].at = "answered" => http'[o].status = "ok" /\ http'[o].token \in live
  BY <1>1 DEF Good, Sound
<1>5. Good(o, <<f>> \o Tail(s), ret[o], http'[o], applied[o], answer[o], disturbed[o],
           accessToken[2], live)
  BY <1>1, <1>2, <1>3, <1>4, GoodTop
<1>6. OpInv(o)'
  BY <1>5 DEF OpInv
<1> QED BY <1>6, QuietStep

LEMMA PostCredentialsStep ==
  ASSUME TypeInv, SessionInv, NEW o \in Ops, PostCredentials(o)
  PROVE  SessionInv'
<1> DEFINE s == stack[o]
           f == [Head(s) EXCEPT !.pc = "wait"]
<1>1. s # <<>> /\ Head(s).proc \in Auth /\ s \in Seq(Frame)
  BY Mine DEF PostCredentials, At
<1>2. f \in Frame /\ f.proc = Head(s).proc /\ f.pc = "wait"
  BY <1>1, TopFrame
<1>3. /\ stack'[o] = <<f>> \o Tail(s) /\ Unmoved(o)
      /\ http'[o] = [at |-> "asked", token |-> 0, status |-> "ok"]
      /\ UNCHANGED <<accessToken, live, ret, applied, answer, disturbed>>
  BY DEF PostCredentials, Goto, Unmoved, client, server, history, TypeInv, TypeOK
<1>4. http'[o].at = "asked"
  BY <1>3
<1> HIDE DEF f
<1> QED BY <1>1, <1>2, <1>3, <1>4, AuthTop

LEMMA StoreFirstWordStep ==
  ASSUME TypeInv, SessionInv, NEW o \in Ops, StoreFirstWord(o)
  PROVE  SessionInv'
<1> DEFINE s == stack[o]
           f == [Head(s) EXCEPT !.pc = "store"]
<1>1. s # <<>> /\ Head(s).proc \in Auth /\ s \in Seq(Frame) /\ http[o].at = "answered"
  BY Mine DEF StoreFirstWord, At
<1>2. f \in Frame /\ f.proc = Head(s).proc /\ f.pc = "store"
  BY <1>1, TopFrame
<1>3. /\ stack'[o] = <<f>> \o Tail(s) /\ Unmoved(o)
      /\ UNCHANGED <<live, ret, http, applied, answer, disturbed>>
  BY DEF StoreFirstWord, Goto, Unmoved, server, history, TypeInv, TypeOK
<1>4. accessToken'[2] = accessToken[2]
  BY DEF StoreFirstWord, TypeInv, TypeOK
<1> HIDE DEF f
<1> QED BY <1>1, <1>2, <1>3, <1>4, AuthTop

LEMMA LoginInsteadStep ==
  ASSUME TypeInv, SessionInv, NEW o \in Ops, LoginInstead(o)
  PROVE  SessionInv'
<1> DEFINE f == [proc |-> "login", pc |-> "post"]
<1>1. stack[o] # <<>> /\ Head(stack[o]).proc \in Auth
  BY DEF LoginInstead, At, Auth
<1>2. f \in Frame /\ f.proc \in Auth /\ f.pc = "post"
  BY DEF Frame, Auth
<1>3. /\ stack'[o] = <<f>> \o Tail(stack[o]) /\ http'[o] = Idle
      /\ UNCHANGED <<accessToken, live, ret, applied, answer, disturbed>> /\ Unmoved(o)
  BY DEF LoginInstead, Unmoved, client, server, history, TypeInv, TypeOK
<1>4. http'[o].at = "idle"
  BY <1>3, ExchangeTypes
<1> HIDE DEF f
<1> QED BY <1>1, <1>2, <1>3, <1>4, AuthTop

LEMMA StoreSecondWordStep ==
  ASSUME TypeInv, SessionInv, NEW o \in Ops, StoreSecondWord(o)
  PROVE  SessionInv'
<1> DEFINE s == stack[o]
           w == http[o].token
<1>1. /\ s # <<>> /\ Head(s).proc \in Auth /\ Head(s).pc = "store"
      /\ UNCHANGED <<live, applied, answer>> /\ Settled(o)
  BY DEF StoreSecondWord, At, server, Settled
<1>2. /\ Good(o, s, ret[o], http[o], applied[o], answer[o], disturbed[o], accessToken[2], live)
      /\ s \in Seq(Frame) /\ http[o].at \in {"idle", "asked", "answered"}
  BY Mine
<1>3. accessToken'[2] = w
  BY DEF StoreSecondWord, TypeInv, TypeOK
<1>4. disturbed'[o] = disturbed[o] /\ http'[o].at = "idle"
      /\ \A p \in Ops \ {o} : http'[p] = http[p]
  BY <1>1, Settles DEF StoreSecondWord, TypeInv, TypeOK
<1>5. \A p \in Ops \ {o} : disturbed'[p] \/ (disturbed'[p] = disturbed[p] /\ accessToken'[2] \in live')
  <2> SUFFICES ASSUME NEW p \in Ops, p # o
               PROVE  disturbed'[p] \/ (disturbed'[p] = disturbed[p] /\ accessToken'[2] \in live')
    OBVIOUS
  <2>1. disturbed'[p] = (disturbed[p] \/ (p # o /\ w \notin live))
    BY DEF StoreSecondWord
  <2>2. disturbed[p] \in BOOLEAN
    BY DEF TypeInv, TypeOK
  <2>3. CASE w \in live
    BY <1>1, <1>3, <2>1, <2>2, <2>3
  <2>4. CASE w \notin live
    BY <2>1, <2>4
  <2> QED BY <2>3, <2>4
<1>6. applied[o] = 0
  BY <1>1, <1>2 DEF Good, Carried, Sending, Auth
<1>7. \/ disturbed[o] \/ o \in Forbidden
      \/ Backed(s, w, live) /\ w \in live
  <2> SUFFICES ASSUME ~disturbed[o], o \notin Forbidden PROVE Backed(s, w, live) /\ w \in live
    OBVIOUS
  <2>1. w \in live
    BY <1>1, <1>2 DEF Good, Sound, Fits
  <2> QED BY <1>2, <2>1 DEF Good, Sound, Backed, Trusted
<1>8. CASE Head(s).proc = "refresh" /\ Return(o, "ok")
  <2>1. stack'[o] = Tail(s) /\ ret'[o] = "ok"
        /\ \A p \in Ops \ {o} : stack'[p] = stack[p] /\ ret'[p] = ret[p]
    BY <1>8 DEF Return, TypeInv, TypeOK
  <2>2. Good(o, Tail(s), "ok", http'[o], applied[o], answer[o], disturbed[o], w, live)
    <3> DEFINE v == accessToken[2]
               a == answer[o]
               n == applied[o]
               r == ret[o]
               h == http[o]
               i == http'[o]
               d == disturbed[o]
    <3> HIDE DEF v, a, n, r, h, i, d
    <3>1. Good(o, s, r, h, n, a, d, v, live) /\ i.at = "idle"
      BY <1>2, <1>4 DEF v, a, n, r, h, i, d
    <3>2. d \/ o \in Forbidden \/ (Backed(s, w, live) /\ w \in live)
      BY <1>7 DEF d
    <3>3. Head(s).proc # "call"
      BY <1>8
    <3>4. Tail(s) # <<>>
      BY <1>1, <1>2, <1>8, Popped DEF Good
    <3>5. Good(o, Tail(s), "ok", i, n, a, d, w, live)
      BY <1>1, <1>2, <3>1, <3>2, <3>3, <3>4, GoodReturn
    <3> QED BY <3>5 DEF n, a, d, i
  <2>3. OpInv(o)'
    BY <1>1, <1>3, <1>4, <2>1, <2>2 DEF OpInv
  <2> QED BY <1>1, <1>4, <1>5, <2>1, <2>3, OthersKept DEF TypeInv, TypeOK
<1>9. CASE Head(s).proc = "login" /\ Call(o, "gotInfo", "info", "enter") /\ UNCHANGED ret
  <2> DEFINE f == [Head(s) EXCEPT !.pc = "gotInfo"]
             g == [proc |-> "info", pc |-> "enter"]
  <2>1. stack'[o] = <<g, f>> \o Tail(s) /\ \A p \in Ops \ {o} : stack'[p] = stack[p]
    BY <1>9 DEF Call, TypeInv, TypeOK
  <2>2. f \in Frame /\ f.proc = Head(s).proc /\ f.pc = "gotInfo"
    BY <1>1, <1>2, TopFrame
  <2>3. g \in Frame /\ g.proc = "info" /\ g.pc = "enter"
    BY DEF Frame, API
  <2> HIDE DEF f, g
  <2>4. f.proc # "info" /\ f.pc \in Suspended
    BY <1>9, <2>2 DEF Suspended
  <2>5. \/ disturbed[o] \/ o \in Forbidden
        \/ Backed(s, w, live) /\ Trusted(f, w, live) /\ Trusted(g, w, live)
    BY <1>7, <2>3, <2>4 DEF Trusted
  <2>6. Good(o, <<g, f>> \o Tail(s), ret[o], http'[o], applied[o], answer[o], disturbed[o], w, live)
    BY <1>1, <1>2, <1>4, <1>6, <2>2, <2>3, <2>4, <2>5, GoodCall
  <2>7. OpInv(o)'
    BY <1>1, <1>3, <1>4, <1>9, <2>1, <2>6 DEF OpInv
  <2> QED BY <1>1, <1>4, <1>5, <1>9, <2>1, <2>7, OthersKept DEF TypeInv, TypeOK
<1> QED BY <1>8, <1>9 DEF StoreSecondWord, At

LEMMA ExpireStep ==
  ASSUME TypeInv, SessionInv, Expire
  PROVE  SessionInv'
<1> SUFFICES ASSUME NEW p \in Ops PROVE OpInv(p)'
  BY DEF SessionInv
<1>1. disturbed'[p] = TRUE /\ UNCHANGED <<accessToken, stack, ret, http, applied, answer>>
  BY DEF Expire, client
<1>2. Good(p, stack[p], ret[p], http[p], applied[p], answer[p], disturbed[p], accessToken[2], live)
  BY Mine
<1>3. Good(p, stack[p], ret[p], http[p], applied[p], answer[p], TRUE, accessToken[2], live')
  <2> DEFINE d == disturbed[p]
             w == accessToken[2]
             h == http[p]
  <2> HIDE DEF d, w, h
  <2>1. Good(p, stack[p], ret[p], h, applied[p], answer[p], d, w, live)
    BY <1>2 DEF d, w, h
  <2>2. Good(p, stack[p], ret[p], h, applied[p], answer[p], TRUE, w, live')
    BY <2>1, GoodKept
  <2> QED BY <2>2 DEF w, h
<1> QED BY <1>1, <1>3 DEF OpInv

\* An answer of the server or the network to the exchange under way.
LEMMA GoodAnswer ==
  ASSUME NEW o, NEW s, NEW r, NEW h0, NEW h, NEW n0, NEW n, NEW b0, NEW b, NEW d0, NEW d,
         NEW w, NEW L0, NEW L,
         Good(o, s, r, h0, n0, b0, d0, w, L0), s # <<>>, h0.at = "asked", h.at = "answered",
         L0 \subseteq L,
         Head(s).proc # "call" => n = n0,
         Head(s).proc = "call" => o \notin VersionOps /\ b = h.status /\ Once(n, b),
         \/ d \/ o \in Forbidden
         \/ /\ ~d0
            /\ Head(s).proc \in Auth => h.status = "ok" /\ h.token \in L
            /\ Head(s).proc \notin Auth => h.token = h0.token
            /\ h0.token \in L => h.status # "denied"
            /\ h.status \in {"ok", "denied"} \/ (h.status = "notFound" /\ Head(s).proc = "call")
  PROVE  Good(o, s, r, h, n, b, d, w, L)
<1>1. Shape(o, s) /\ Fits(s, h) /\ Head(s).pc \in {"wait", "resent"}
  BY DEF Good, Fits
<1>2. Carried(o, s, r, h, n, b)
  BY <1>1 DEF Good, Carried, Sending, Once
<1>3. ASSUME Sound(s, r, h0, w, L0), ~d, ~d0, o \notin Forbidden PROVE Sound(s, r, h, w, L)
  <2>1. Backed(s, w, L)
    BY <1>3 DEF Sound, Backed, Trusted
  <2>2. Head(s).proc = "info" \/ Head(s).pc = "resent" => h0.token \in L
    BY <1>3 DEF Sound
  <2>3. Head(s).proc = "info" => h.token \in L /\ h.status = "ok"
    BY <1>3, <2>2 DEF Auth
  <2>4. Head(s).proc = "call" => h.status \in {"ok", "notFound", "denied"}
    BY <1>3
  <2>5. Head(s).pc = "resent" => h.token \in L /\ h.status # "denied"
    BY <1>3, <2>2
  <2>6. Head(s).proc \in Auth => h.status = "ok" /\ h.token \in L
    BY <1>3
  <2> QED BY <1>1, <2>1, <2>3, <2>4, <2>5, <2>6 DEF Sound, Suspended
<1> QED BY <1>1, <1>2, <1>3 DEF Good

LEMMA Answering ==
  ASSUME TypeInv, SessionInv, NEW o \in Ops, Asked(o, API \cup Auth),
         http'[o].at = "answered", Unmoved(o),
         UNCHANGED <<accessToken, stack, ret>>, live \subseteq live',
         Head(stack[o]).proc # "call" => applied'[o] = applied[o],
         Head(stack[o]).proc = "call" => answer'[o] = http'[o].status /\ Once(applied'[o], answer'[o]),
         \/ disturbed'[o]
         \/ /\ disturbed'[o] = disturbed[o]
            /\ o \in Forbidden
               \/ /\ Head(stack[o]).proc \in Auth => http'[o].status = "ok" /\ http'[o].token \in live'
                  /\ Head(stack[o]).proc \notin Auth => http'[o].token = http[o].token
                  /\ http[o].token \in live' => http'[o].status # "denied"
                  /\ \/ http'[o].status \in {"ok", "denied"}
                     \/ http'[o].status = "notFound" /\ Head(stack[o]).proc = "call"
  PROVE  SessionInv'
<1> DEFINE s == stack[o]
           h == http[o]
           i == http'[o]
           a == answer[o]
           b == answer'[o]
           m == applied[o]
           n == applied'[o]
           c == disturbed[o]
           d == disturbed'[o]
           v == accessToken[2]
           r == ret[o]
<1>1. Good(o, s, r, h, m, a, c, v, live) /\ s # <<>> /\ h.at = "asked"
      /\ (Head(s).proc = "call" => o \notin VersionOps) /\ c \in BOOLEAN
  <2>1. Good(o, s, r, h, m, a, c, v, live) /\ s \in Seq(Frame) /\ c \in BOOLEAN
    BY Mine
  <2>2. s # <<>> /\ h.at = "asked"
    BY DEF Asked
  <2>3. Head(s).proc = "call" => o \notin VersionOps
    BY <2>1, <2>2, Popped DEF Good
  <2> QED BY <2>1, <2>2, <2>3
<1>2. Head(s).proc # "call" => n = m
  OBVIOUS
<1>3. Head(s).proc = "call" => o \notin VersionOps /\ b = i.status /\ Once(n, b)
  BY <1>1
<1>4. d \/ o \in Forbidden
      \/ /\ ~c
         /\ Head(s).proc \in Auth => i.status = "ok" /\ i.token \in live'
         /\ Head(s).proc \notin Auth => i.token = h.token
         /\ h.token \in live' => i.status # "denied"
         /\ i.status \in {"ok", "denied"} \/ (i.status = "notFound" /\ Head(s).proc = "call")
  BY <1>1
<1>5. i.at = "answered"
  OBVIOUS
<1> HIDE DEF s, h, i, a, b, m, n, c, d, v, r
<1>6. Good(o, s, r, i, n, b, d, v, live')
  BY <1>1, <1>2, <1>3, <1>4, <1>5, GoodAnswer
<1>7. OpInv(o)'
  BY <1>6 DEF OpInv, s, r, i, n, b, d, v
<1> QED BY <1>7, QuietStep

\* Only the exchange of o, and what is known of its answer, changes.
LEMMA ServerMoves ==
  ASSUME TypeInv, NEW o \in Ops, ServerStep(o)
  PROVE  Unmoved(o) /\ UNCHANGED <<accessToken, stack, ret>>
<1>1. UNCHANGED <<accessToken, stack, ret>>
  BY DEF ServerStep, TokenIssued, TokenRefused, AdminAnswers, AdminFails, Answer, client
<1>2. ASSUME NEW p \in Ops, p # o PROVE http'[p] = http[p]
  <2>1. PICK t, st : Deliver(o, t, st)
    BY DEF ServerStep, TokenIssued, TokenRefused, AdminAnswers, AdminFails, Answer
  <2>2. http \in [Ops -> Exchange]
    BY DEF TypeInv, TypeOK
  <2>3. http' = [http EXCEPT ![o] = [at |-> "answered", token |-> t, status |-> st]]
    BY <2>1, <2>2, Delivered
  <2> QED BY <1>2, <2>2, <2>3
<1>3. ASSUME NEW p \in Ops, p # o PROVE disturbed'[p] = disturbed[p]
  <2>1. disturbed' = disturbed \/ disturbed' = [disturbed EXCEPT ![o] = TRUE]
    BY DEF ServerStep, TokenIssued, TokenRefused, AdminAnswers, AdminFails, Fault, history
  <2> QED BY <1>3, <2>1 DEF TypeInv, TypeOK
<1>4. ASSUME NEW p \in Ops, p # o PROVE applied'[p] = applied[p] /\ answer'[p] = answer[p]
  <2>1. UNCHANGED <<applied, answer>> \/ \E u, n : Answer(o, u, n)
    BY DEF ServerStep, TokenIssued, TokenRefused, AdminAnswers, AdminFails, history
  <2> QED BY <1>4, <2>1 DEF Answer, TypeInv, TypeOK
<1> QED BY <1>1, <1>2, <1>3, <1>4 DEF Unmoved

LEMMA TokenStep ==
  ASSUME TypeInv, SessionInv, NEW o \in Ops, TokenIssued(o) \/ TokenRefused(o)
  PROVE  SessionInv'
<1>1. /\ Unmoved(o) /\ UNCHANGED <<accessToken, stack, ret>>
      /\ http \in [Ops -> Exchange] /\ disturbed \in [Ops -> BOOLEAN]
  BY ServerMoves DEF ServerStep, TypeInv, TypeOK
<1>2. /\ Asked(o, API \cup Auth) /\ Head(stack[o]).proc \in Auth /\ Head(stack[o]).proc # "call"
      /\ UNCHANGED <<applied, answer>> /\ live \subseteq live'
  BY DEF TokenIssued, TokenRefused, Asked, Auth, history
<1>3. CASE TokenIssued(o)
  <2>1. http' = [http EXCEPT ![o] = [at |-> "answered", token |-> issued + 1, status |-> "ok"]]
    BY <1>1, <1>3, Delivered DEF TokenIssued
  <2>2. http'[o].at = "answered" /\ http'[o].token = issued + 1 /\ http'[o].status = "ok"
    BY <1>1, <2>1
  <2>3. disturbed'[o] = disturbed[o] /\ issued + 1 \in live'
    BY <1>3 DEF TokenIssued, history
  <2> QED BY <1>1, <1>2, <2>2, <2>3, Answering
<1>4. CASE TokenRefused(o)
  <2>1. PICK st : Deliver(o, 0, st)
    BY <1>4 DEF TokenRefused
  <2>2. http' = [http EXCEPT ![o] = [at |-> "answered", token |-> 0, status |-> st]]
    BY <1>1, <2>1, Delivered
  <2>3. http'[o].at = "answered" /\ disturbed'[o]
    BY <1>1, <1>4, <2>2 DEF TokenRefused, Fault
  <2> QED BY <1>1, <1>2, <2>3, Answering
<1> QED BY <1>3, <1>4

\* n is what the answer adds to the count, never to one that is not 0.
LEMMA Answered ==
  ASSUME TypeInv, SessionInv, NEW o \in Ops, Asked(o, API), NEW st \in Status, NEW n \in {0, 1},
         Answer(o, st, n), Own(o) => Once(n, st)
  PROVE  /\ http'[o].at = "answered" /\ http'[o].status = st /\ http'[o].token = http[o].token
         /\ Head(stack[o]).proc # "call" => applied'[o] = applied[o]
         /\ Head(stack[o]).proc = "call" => answer'[o] = st /\ Once(applied'[o], st)
<1>1. http' = [http EXCEPT ![o] = [at |-> "answered", token |-> http[o].token, status |-> st]]
  BY Delivered DEF Answer, TypeInv, TypeOK
<1>2. http'[o].at = "answered" /\ http'[o].status = st /\ http'[o].token = http[o].token
  BY <1>1 DEF TypeInv, TypeOK
<1>3. CASE ~Own(o)
  BY <1>2, <1>3 DEF Answer, Own, TypeInv, TypeOK
<1>4. CASE Own(o)
  <2>1. applied[o] = 0
    BY <1>4, Mine DEF Good, Carried, Asked, Own
  <2>2. applied'[o] = n /\ answer'[o] = st
    BY <1>4, <2>1 DEF Answer, TypeInv, TypeOK
  <2> QED BY <1>2, <1>4, <2>2 DEF Own
<1> QED BY <1>3, <1>4

LEMMA AdminStep ==
  ASSUME TypeInv, SessionInv, NEW o \in Ops, AdminAnswers(o) \/ AdminFails(o)
  PROVE  SessionInv'
<1>1. Unmoved(o) /\ UNCHANGED <<accessToken, stack, ret>>
  BY ServerMoves DEF ServerStep
<1>2. /\ Asked(o, API) /\ Asked(o, API \cup Auth) /\ Head(stack[o]).proc \notin Auth
      /\ UNCHANGED live
  BY DEF AdminAnswers, AdminFails, Asked, Answer, API, Auth
<1>3. CASE AdminFails(o)
  <2>1. PICK st \in Status, n \in {0, 1} : Answer(o, st, n) /\ (Own(o) => Once(n, st))
    BY <1>3 DEF AdminFails, Once, Status
  <2>2. disturbed'[o]
    BY <1>3 DEF AdminFails, Fault, TypeInv, TypeOK
  <2>3. /\ http'[o].at = "answered" /\ http'[o].status = st
        /\ Head(stack[o]).proc # "call" => applied'[o] = applied[o]
        /\ Head(stack[o]).proc = "call" => answer'[o] = st /\ Once(applied'[o], st)
    BY <1>2, <2>1, Answered
  <2> QED BY <1>1, <1>2, <2>2, <2>3, Answering
<1>4. CASE AdminAnswers(o)
  <2>1. PICK st \in {"ok", "denied", "notFound"}, n \in {0, 1} :
          /\ Answer(o, st, n) /\ (Own(o) => Once(n, st))
          /\ st = "denied" <=> ~Authorised(o)
          /\ st = "notFound" => Own(o)
    BY <1>4 DEF AdminAnswers, Once
  <2>2. disturbed'[o] = disturbed[o] /\ st \in Status
    BY <1>4 DEF AdminAnswers, Status
  <2>3. o \in Forbidden \/ (http[o].token \in live' => st # "denied")
    BY <1>2, <2>1 DEF Authorised
  <2>4. /\ http'[o].at = "answered" /\ http'[o].status = st /\ http'[o].token = http[o].token
        /\ Head(stack[o]).proc # "call" => applied'[o] = applied[o]
        /\ Head(stack[o]).proc = "call" => answer'[o] = st /\ Once(applied'[o], st)
    BY <1>2, <2>1, <2>2, Answered
  <2>5. st \in {"ok", "denied"} \/ (st = "notFound" /\ Head(stack[o]).proc = "call")
    BY <2>1 DEF Own
  <2> QED BY <1>1, <1>2, <2>2, <2>3, <2>4, <2>5, Answering
<1> QED BY <1>3, <1>4

LEMMA SessionInit == Init => SessionInv
<1> SUFFICES ASSUME Init, NEW o \in Ops PROVE OpInv(o)
  BY DEF SessionInv
<1>1. /\ stack[o] = <<>> /\ ret[o] \in {"none", "unasked"} /\ http[o].at = "idle" /\ applied[o] = 0
  BY ExchangeTypes DEF Init
<1>2. Shape(o, <<>>) /\ Fits(<<>>, http[o]) /\ Sound(<<>>, ret[o], http[o], accessToken[2], live)
  BY <1>1 DEF Shape, Fits, Sound, Backed
<1>3. Carried(o, <<>>, ret[o], http[o], 0, answer[o])
  BY <1>1 DEF Carried, Sending
<1> QED BY <1>1, <1>2, <1>3 DEF OpInv, Good

LEMMA SessionNext == TypeInv /\ SessionInv /\ [Next]_vars => SessionInv'
<1> SUFFICES ASSUME TypeInv, SessionInv, [Next]_vars PROVE SessionInv'
  OBVIOUS
<1>1. ASSUME NEW o \in Ops, ClientStep(o) PROVE SessionInv'
  <2>1. CASE SendFirst(o)
    <3>1. Transmit(o, "wait") \/ LocalError(o) \/ Crash
      BY <2>1 DEF SendFirst, AddRequestHeadersAndDo
    <3>2. ASSUME Transmit(o, "wait") PROVE SessionInv'
      BY <2>1, <3>2, TransmitStep
    <3> QED BY <2>1, <3>1, <3>2, LocalErrorStep, CrashStep
  <2>2. CASE SendAgain(o)
    <3>1. Transmit(o, "resent") \/ LocalError(o) \/ Crash
      BY <2>2 DEF SendAgain, AddRequestHeadersAndDo
    <3>2. ASSUME Transmit(o, "resent") PROVE SessionInv'
      BY <2>2, <3>2, TransmitStep
    <3> QED BY <2>2, <3>1, <3>2, LocalErrorStep, CrashStep
  <2> QED
    BY <1>1, <2>1, <2>2, TestInitialLoginStep, CallingStep, DelayedLoginFailedStep,
       SendRequestReturnsStep,
       PostCredentialsStep, LoginInsteadStep, CredentialsFailedStep, StoreFirstWordStep,
       StoreSecondWordStep, InnerReturnsStep
       DEF ClientStep
<1>2. CASE UNCHANGED vars
  <2>1. UNCHANGED <<accessToken, live, stack, ret, http, applied, answer, disturbed>>
    BY <1>2 DEF vars, client, server, history
  <2> QED BY <2>1 DEF SessionInv, OpInv
<1> QED BY <1>1, <1>2, StartStep, TokenStep, AdminStep, ExpireStep DEF Next, ServerStep

LEMMA SessionAlways == Spec => [](TypeInv /\ SessionInv)
BY TypeInit, SessionInit, TypeNext, SessionNext, PTL DEF Spec

-----------------------------------------------------------------------------
(* What a caller of sendRequest may rely on.                               *)

\* The server carries out a caller's request at most once, with any number of
\* concurrent logins, refreshes, expiries, lost answers and torn headers: only a
\* refusal is followed by a second sending.
THEOREM NeverAppliedTwice == Spec => []AppliedAtMostOnce
<1>1. TypeInv /\ SessionInv => AppliedAtMostOnce
  BY Mine DEF AppliedAtMostOnce, Good, Carried
<1> QED BY <1>1, SessionAlways, PTL

\* What it returns is the server's answer to that request and to none of those
\* nested in the call: "ok" means carried out once, "notFound" and "denied" not.
THEOREM OutcomesTruthful == Spec => []OutcomeTruthful
<1>1. ASSUME TypeInv, SessionInv, NEW o \in Ops \ VersionOps, Ended(o),
             ret[o] \in {"ok", "notFound", "denied"}
      PROVE  answer[o] = ret[o] /\ applied[o] = IF ret[o] = "ok" THEN 1 ELSE 0
  BY <1>1, Mine DEF Ended, AtRest, Good, Carried, Once
<1>2. TypeInv /\ SessionInv => OutcomeTruthful
  BY <1>1 DEF OutcomeTruthful
<1> QED BY <1>2, SessionAlways, PTL

\* An operation that meets no fault, no half-written token and no dead token of
\* another succeeds, whatever credentials earlier ones left.
THEOREM UndisturbedCallsSucceed == Spec => []CallRecovers
<1>1. ASSUME TypeInv, SessionInv, NEW o \in Ops \ Forbidden, Ended(o), ~disturbed[o]
      PROVE  ret[o] \in {"ok", "notFound"}
  BY <1>1, Mine DEF Ended, AtRest, Good, Sound
<1>2. TypeInv /\ SessionInv => CallRecovers
  BY <1>1 DEF CallRecovers
<1> QED BY <1>2, SessionAlways, PTL
=============================================================================

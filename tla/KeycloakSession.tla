--------------------------- MODULE KeycloakSession ---------------------------
(***************************************************************************)
(* The HTTP session of the provider: one KeycloakClient, created when the  *)
(* provider is configured, used by every resource operation Terraform runs *)
(* concurrently, and protected by no lock.                                 *)
(*                                                                         *)
(* Operation o is one goroutine that calls sendRequest (or Version).  The  *)
(* Go procedures call each other (sendRequest -> login -> GetServerInfo -> *)
(* sendRequest -> Refresh -> login -> ...), so each operation has a stack  *)
(* of frames; ret[o] is the value the last returning procedure left.  The  *)
(* server, the network and the expiry of tokens are the environment.       *)
(***************************************************************************)
EXTENDS Naturals, Sequences, FiniteSets

CONSTANTS
  Ops,          \* the operations
  Mixes,        \* the sets of operations that may run together
  VersionOps,   \* those that ask for the server version (Version)
  Forbidden,    \* those whose request the server refuses to any token
  MaxFaults,    \* how often the environment misbehaves (bound)
  MaxTokens     \* how many tokens the server issues (bound, never reached)

ASSUME OpsAssumption ==
  /\ VersionOps \subseteq Ops
  /\ Mixes \subseteq SUBSET Ops
  /\ Forbidden \subseteq Ops \ VersionOps
  /\ MaxFaults \in Nat
  /\ MaxTokens \in Nat \ {0}

VARIABLES
  initialLogin, \* KeycloakClient.initialLogin
  accessToken,  \* clientCredentials.AccessToken: the two words of the string
  version,      \* is KeycloakClient.version set
  issued,       \* tokens the server has issued, numbered from 1; 0 is ""
  live,         \* the tokens it accepts now
  faults,       \* misbehaviours of the environment so far
  stack, ret,   \* per operation: procedure frames, last returned value
  http,         \* per operation: its one outstanding HTTP exchange
  received,     \* per operation: times the server received its own request
  applied,      \* per operation: times the server carried it out
  answer,       \* per operation: the last answer to its own request
  disturbed     \* per operation: met a fault, or another's bad token, since it began

client == <<initialLogin, accessToken, version>>
server == <<issued, live, faults>>
history == <<received, applied, answer, disturbed>>
vars == <<client, server, stack, ret, http, history>>

-----------------------------------------------------------------------------
(* Answers and results.  "denied" is 401 or 403 (at the token endpoint: any *)
(* error but 400 with a JSON body), "notFound" any ApiError of another 4xx, *)
(* "serverError" 429 or 5xx, "garbled" an unparsable body, "lost" an error  *)
(* of http.Client.Do; "authError" wraps a failed login or Refresh with      *)
(* fmt.Errorf, which drops the ApiError.  "none" is before the call returns, *)
(* "unasked" if there is none.                                              *)

Status == {"ok", "denied", "badRequest", "notFound", "serverError", "garbled", "lost"}
Result == Status \cup {"none", "authError", "crashed", "unasked"}

API == {"call", "info"}             \* frames of sendRequest
Auth == {"login", "refresh"}        \* frames that use the token endpoint
Frame == [proc : API \cup Auth \cup {"version"},
          pc : {"enter", "tested", "loggedIn", "wait", "refreshed", "resent", "post",
                "store", "gotInfo"}]
Exchange == [at : {"idle", "asked", "answered"}, token : Nat, status : Status]
Idle == [at |-> "idle", token |-> 0, status |-> "ok"]

At(o, procs, l) ==
  stack[o] # <<>> /\ Head(stack[o]).proc \in procs /\ Head(stack[o]).pc = l

Goto(o, l) == stack' = [stack EXCEPT ![o] = <<[Head(@) EXCEPT !.pc = l]>> \o Tail(@)]

Call(o, l, proc, entry) ==
  stack' = [stack EXCEPT ![o] =
              <<[proc |-> proc, pc |-> entry], [Head(@) EXCEPT !.pc = l]>> \o Tail(@)]

Return(o, r) ==
  /\ stack' = [stack EXCEPT ![o] = Tail(@)]
  /\ ret' = [ret EXCEPT ![o] = r]

\* The client as NewKeycloakClient leaves it: logged in, or, when the
\* initial_login argument is false, with empty credentials.
Init ==
  /\ initialLogin \in BOOLEAN
  /\ version = initialLogin
  /\ issued = IF initialLogin THEN 1 ELSE 0
  /\ accessToken = <<issued, issued>>
  /\ live = 1..issued
  /\ faults = 0
  /\ stack = [o \in Ops |-> <<>>]
  /\ \E mix \in Mixes : ret = [o \in Ops |-> IF o \in mix THEN "none" ELSE "unasked"]
  /\ http = [o \in Ops |-> Idle]
  /\ received = [o \in Ops |-> 0]
  /\ applied = [o \in Ops |-> 0]
  /\ answer = [o \in Ops |-> "none"]
  /\ disturbed = [o \in Ops |-> FALSE]

Start(o) ==
  /\ stack[o] = <<>> /\ ret[o] = "none"
  /\ stack' = [stack EXCEPT ![o] =
       <<[proc |-> IF o \in VersionOps THEN "version" ELSE "call", pc |-> "enter"]>>]
  /\ disturbed' = [disturbed EXCEPT ![o] = FALSE]
  /\ UNCHANGED <<client, server, ret, http, received, applied, answer>>

-----------------------------------------------------------------------------
(* sendRequest                                                             *)

\* The header addRequestHeaders builds from the shared string: its two words
\* disagree while another goroutine is storing, and the bytes are then junk.
Torn == accessToken[1] # accessToken[2]
Header == IF Torn THEN 0 ELSE accessToken[1]

Transmit(o, l) ==
  /\ http' = [http EXCEPT ![o] = [at |-> "asked", token |-> Header, status |-> "ok"]]
  /\ Goto(o, l)
  /\ disturbed' = [disturbed EXCEPT ![o] = @ \/ Torn]
  /\ UNCHANGED <<client, server, ret, received, applied, answer>>

\* Junk bytes may be refused by net/http before anything is sent ...
LocalError(o) ==
  /\ Torn
  /\ Return(o, "lost")
  /\ disturbed' = [disturbed EXCEPT ![o] = TRUE]
  /\ UNCHANGED <<client, server, http, received, applied, answer>>

\* ... and a nil data pointer with a length kills the provider process.
Crash ==
  /\ Torn /\ 0 \in {accessToken[1], accessToken[2]}
  /\ stack' = [p \in Ops |-> <<>>]
  /\ ret' = [p \in Ops |-> IF ret[p] = "none" \/ stack[p] # <<>> THEN "crashed" ELSE ret[p]]
  /\ http' = [p \in Ops |-> Idle]
  /\ disturbed' = [p \in Ops |-> TRUE]
  /\ UNCHANGED <<client, server, received, applied, answer>>

AddRequestHeadersAndDo(o, l) == Transmit(o, l) \/ LocalError(o) \/ Crash

\* initialLogin is set before the login it stands for is attempted, but after it
\* was looked at: two goroutines may both find it unset.
TestInitialLogin(o) ==
  /\ At(o, API, "enter") /\ ~initialLogin
  /\ Goto(o, "tested")
  /\ UNCHANGED <<client, server, ret, http, history>>

DelayedLogin(o) ==
  /\ At(o, API, "tested")
  /\ initialLogin' = TRUE
  /\ Call(o, "loggedIn", "login", "post")
  /\ UNCHANGED <<accessToken, version, server, ret, http, history>>

SendFirst(o) ==
  /\ \/ At(o, API, "enter") /\ initialLogin
     \/ At(o, API, "loggedIn") /\ ret[o] = "ok"
  /\ AddRequestHeadersAndDo(o, "wait")

\* Mutant: the error of the login is returned unwrapped, ApiError and all.
LoginErrorUnwrapped(o) ==
  /\ At(o, API, "loggedIn") /\ ret[o] # "ok"
  /\ Return(o, ret[o])
  /\ UNCHANGED <<client, server, http, history>>

DelayedLoginFailed(o) ==
  /\ At(o, API, "loggedIn") /\ ret[o] # "ok"
  /\ Return(o, "authError")
  /\ UNCHANGED <<client, server, http, history>>

RefreshOnDenied(o) ==
  /\ At(o, API, "wait")
  /\ http[o].at = "answered" /\ http[o].status = "denied"
  /\ http' = [http EXCEPT ![o] = Idle]
  /\ Call(o, "refreshed", "refresh", "post")
  /\ UNCHANGED <<client, server, ret, history>>

SendAgain(o) ==
  /\ At(o, API, "refreshed") /\ ret[o] = "ok"
  /\ AddRequestHeadersAndDo(o, "resent")

RefreshFailed(o) ==
  /\ At(o, API, "refreshed") /\ ret[o] # "ok"
  /\ Return(o, "authError")
  /\ UNCHANGED <<client, server, http, history>>

\* Mutant: the answer to the first attempt is final too.
ReturnsFirstAnswer(o) ==
  /\ At(o, API, "wait") \/ At(o, API, "resent")
  /\ http[o].at = "answered"
  /\ Return(o, http[o].status)
  /\ http' = [http EXCEPT ![o] = Idle]
  /\ UNCHANGED <<client, server, history>>

\* Mutant: without httpClient.Timeout, an answer that is lost is waited for.
ReturnsAnswersOnly(o) ==
  /\ \/ At(o, API, "wait") /\ http[o].status # "denied"
     \/ At(o, API, "resent")
  /\ http[o].at = "answered" /\ http[o].status # "lost"
  /\ Return(o, http[o].status)
  /\ http' = [http EXCEPT ![o] = Idle]
  /\ UNCHANGED <<client, server, history>>

\* Any answer to the second attempt is final, and any but 401/403 to the first.
SendRequestReturns(o) ==
  /\ \/ At(o, API, "wait") /\ http[o].status # "denied"
     \/ At(o, API, "resent")
  /\ http[o].at = "answered"
  /\ Return(o, http[o].status)
  /\ http' = [http EXCEPT ![o] = Idle]
  /\ UNCHANGED <<client, server, history>>

-----------------------------------------------------------------------------
(* login and Refresh: both POST the same form to the token endpoint        *)

PostCredentials(o) ==
  /\ At(o, Auth, "post")
  /\ http' = [http EXCEPT ![o] = [at |-> "asked", token |-> 0, status |-> "ok"]]
  /\ Goto(o, "wait")
  /\ UNCHANGED <<client, server, ret, history>>

\* login stores only what came with 200; Refresh stores whatever JSON came with
\* any status but 400, so the body of an error leaves it the token "".
Storable(proc, status) == status = "ok" \/ (proc = "refresh" /\ status = "denied")

\* The unsynchronised assignment of the shared string, one word at a time.
StoreFirstWord(o) ==
  /\ At(o, Auth, "wait") /\ http[o].at = "answered"
  /\ Storable(Head(stack[o]).proc, http[o].status)
  /\ accessToken' = [accessToken EXCEPT ![1] = http[o].token]
  /\ Goto(o, "store")
  /\ UNCHANGED <<initialLogin, version, server, ret, http, history>>

\* Refresh then returns; login goes on to ask for the server's version.
StoreSecondWord(o) ==
  /\ At(o, Auth, "store")
  /\ accessToken' = [accessToken EXCEPT ![2] = http[o].token]
  /\ disturbed' = [p \in Ops |-> disturbed[p] \/ (p # o /\ http[o].token \notin live)]
  /\ http' = [http EXCEPT ![o] = Idle]
  /\ \/ At(o, {"refresh"}, "store") /\ Return(o, "ok")
     \/ At(o, {"login"}, "store") /\ Call(o, "gotInfo", "info", "enter") /\ UNCHANGED ret
  /\ UNCHANGED <<initialLogin, version, server, received, applied, answer>>

\* Mutant: Refresh logs in and then goes on with the body of the 400.
LoginThenParse(o) ==
  /\ At(o, {"refresh"}, "wait")
  /\ http[o].at = "answered" /\ http[o].status = "badRequest"
  /\ Call(o, "parse", "login", "post")
  /\ http' = [http EXCEPT ![o] = Idle]
  /\ UNCHANGED <<client, server, ret, history>>

LoginInstead(o) ==
  /\ At(o, {"refresh"}, "wait")
  /\ http[o].at = "answered" /\ http[o].status = "badRequest"
  /\ stack' = [stack EXCEPT ![o] = <<[proc |-> "login", pc |-> "post"]>> \o Tail(@)]
  /\ http' = [http EXCEPT ![o] = Idle]
  /\ UNCHANGED <<client, server, ret, history>>

CredentialsFailed(o) ==
  /\ At(o, Auth, "wait") /\ http[o].at = "answered"
  /\ ~Storable(Head(stack[o]).proc, http[o].status)
  /\ ~(Head(stack[o]).proc = "refresh" /\ http[o].status = "badRequest")
  /\ Return(o, "authError")
  /\ http' = [http EXCEPT ![o] = Idle]
  /\ UNCHANGED <<client, server, history>>

LoginReturns(o) ==
  /\ At(o, {"login"}, "gotInfo")
  /\ version' = (version \/ ret[o] = "ok")
  /\ Return(o, ret[o])
  /\ UNCHANGED <<initialLogin, accessToken, server, http, history>>

-----------------------------------------------------------------------------
(* Version                                                                 *)

VersionKnown(o) ==
  /\ At(o, {"version"}, "enter") /\ version
  /\ Return(o, "ok")
  /\ UNCHANGED <<client, server, http, history>>

VersionLogin(o) ==
  /\ At(o, {"version"}, "enter") /\ ~version
  /\ Call(o, "loggedIn", "login", "post")
  /\ UNCHANGED <<client, server, ret, http, history>>

VersionReturns(o) ==
  /\ At(o, {"version"}, "loggedIn")
  /\ Return(o, ret[o])
  /\ UNCHANGED <<client, server, http, history>>

-----------------------------------------------------------------------------
(* The transport.  newHttpClient builds a retrying client around           *)
(* RetryPolicy and then assigns httpClient.Transport, which is where the   *)
(* retrying round-tripper was: an answer goes to the caller whatever the   *)
(* policy says of it.                                                      *)

RetryPolicy(status) == status = "serverError"
\* Mutant: the retrying transport is kept.
RetryingHttpClient == [transport |-> "retryablehttp"]
newHttpClient == [transport |-> "http.Transport"]
Resends(status) == newHttpClient.transport = "retryablehttp" /\ RetryPolicy(status)

Deliver(o, t, s) ==
  http' = [http EXCEPT ![o] = IF Resends(s) THEN @ ELSE [at |-> "answered", token |-> t, status |-> s]]

Fault(o) ==
  /\ faults < MaxFaults
  /\ faults' = faults + 1
  /\ disturbed' = [disturbed EXCEPT ![o] = TRUE]

Asked(o, procs) == stack[o] # <<>> /\ Head(stack[o]).proc \in procs /\ http[o].at = "asked"

TokenIssued(o) ==
  /\ Asked(o, Auth)
  /\ issued < MaxTokens
  /\ issued' = issued + 1
  /\ live' = live \cup {issued + 1}
  /\ Deliver(o, issued + 1, "ok")
  /\ UNCHANGED <<client, faults, stack, ret, history>>

TokenRefused(o) ==
  /\ Asked(o, Auth)
  /\ Fault(o)
  /\ \E s \in {"badRequest", "denied", "garbled", "lost"} : Deliver(o, 0, s)
  /\ UNCHANGED <<client, issued, live, stack, ret, received, applied, answer>>

Own(o) == Head(stack[o]).proc = "call"
Authorised(o) == http[o].token \in live /\ ~(Own(o) /\ o \in Forbidden)

\* The server answers; n is what it adds to the count of applications.
Answer(o, s, n) ==
  /\ Deliver(o, http[o].token, s)
  /\ answer' = [answer EXCEPT ![o] = IF Own(o) THEN s ELSE @]
  /\ received' = [received EXCEPT ![o] = IF Own(o) THEN @ + 1 ELSE @]
  /\ applied' = [applied EXCEPT ![o] = IF Own(o) THEN @ + n ELSE @]
  /\ UNCHANGED <<client, issued, live, stack, ret>>

AdminAnswers(o) ==
  /\ Asked(o, API)
  /\ \/ ~Authorised(o) /\ Answer(o, "denied", 0)
     \/ Authorised(o) /\ Answer(o, "ok", 1)
     \/ Authorised(o) /\ Own(o) /\ Answer(o, "notFound", 0)
  /\ UNCHANGED <<faults, disturbed>>

\* An error of the server or the network, before or after it did the work.
AdminFails(o) ==
  /\ Asked(o, API)
  /\ Fault(o)
  /\ \/ \E s \in {"serverError", "lost"} : Answer(o, s, 0)
     \/ Authorised(o) /\ \E s \in {"serverError", "lost", "garbled"} : Answer(o, s, 1)
     \/ Authorised(o) /\ ~Own(o) /\ Answer(o, "notFound", 0)

\* A token expires, or a new realm makes it insufficient (sendRequest's comment).
Expire ==
  /\ faults < MaxFaults
  /\ faults' = faults + 1
  /\ \E t \in live : live' = live \ {t}
  /\ disturbed' = [o \in Ops |-> TRUE]
  /\ UNCHANGED <<client, issued, stack, ret, http, received, applied, answer>>

-----------------------------------------------------------------------------
ClientStep(o) ==
  \/ TestInitialLogin(o) \/ DelayedLogin(o) \/ SendFirst(o) \/ DelayedLoginFailed(o)
  \/ RefreshOnDenied(o) \/ SendAgain(o) \/ RefreshFailed(o) \/ SendRequestReturns(o)
  \/ PostCredentials(o) \/ LoginInstead(o) \/ CredentialsFailed(o)
  \/ StoreFirstWord(o) \/ StoreSecondWord(o) \/ LoginReturns(o)
  \/ VersionKnown(o) \/ VersionLogin(o) \/ VersionReturns(o)

ServerStep(o) == TokenIssued(o) \/ TokenRefused(o) \/ AdminAnswers(o) \/ AdminFails(o)

AtRest(o) == stack[o] = <<>> /\ ret[o] # "none"
Finished == \A o \in Ops : AtRest(o)

Next ==
  \/ \E o \in Ops : Start(o) \/ ClientStep(o) \/ ServerStep(o)
  \/ Expire
  \/ Finished /\ UNCHANGED vars

Spec == Init /\ [][Next]_vars

\* A goroutine is never stopped by the provider, and httpClient.Timeout bounds
\* the wait for an answer ("lost" is an answer).
FairSpec == Spec /\ \A o \in Ops : WF_vars(Start(o) \/ ClientStep(o) \/ ServerStep(o))
-----------------------------------------------------------------------------
TypeOK ==
  /\ initialLogin \in BOOLEAN /\ version \in BOOLEAN
  /\ accessToken \in (0..issued) \X (0..issued)
  /\ issued \in 0..MaxTokens /\ live \subseteq 1..issued /\ faults \in 0..MaxFaults
  /\ stack \in [Ops -> Seq(Frame)] /\ ret \in [Ops -> Result]
  /\ http \in [Ops -> Exchange]
  /\ received \in [Ops -> Nat] /\ applied \in [Ops -> Nat]
  /\ answer \in [Ops -> Status \cup {"none"}]
  /\ disturbed \in [Ops -> BOOLEAN]

Ended(o) == AtRest(o) /\ ret[o] # "unasked"

\* No request is carried out twice: the second sending that follows a 401 or
\* 403 is the only one, and those are refusals.  A POST that creates an object
\* or a DELETE whose answer was lost is left to the caller.
AppliedAtMostOnce == \A o \in Ops : applied[o] <= 1

\* What sendRequest returns is about the caller's own request: success means it
\* was carried out once; "not found", on which handleNotFoundError drops the
\* resource from the Terraform state, and "denied" are the server's last answer
\* to that request and to none of the logins, refreshes and server-info
\* requests nested in the call, and it was not carried out.
OutcomeTruthful ==
  \A o \in Ops \ VersionOps :
    Ended(o) /\ ret[o] \in {"ok", "notFound", "denied"} =>
      /\ answer[o] = ret[o]
      /\ applied[o] = IF ret[o] = "ok" THEN 1 ELSE 0

\* Whatever earlier operations left behind (a failed login, empty or expired
\* credentials, an unknown version), an operation that itself meets no fault,
\* no half-written token and no dead token stored by another one succeeds.
CallRecovers ==
  \A o \in Ops \ Forbidden :
    Ended(o) /\ ~disturbed[o] => ret[o] \in {"ok", "notFound"}

\* All operations end, however login, Refresh and sendRequest call each other.
Terminates == <>Finished

\* The comment of RetryPolicy and the change log ("Retry on timeout, when server
\* doesn't respond"): a 429 or 5xx reaches the caller only after a retry.
ServerErrorsAreRetried ==
  \A o \in Ops : Ended(o) /\ ret[o] = "serverError" => received[o] > 1

\* The comment of sendRequest ("refreshes credentials on 403 or 401 errors"):
\* a Refresh that returns no error leaves credentials to send.
RefreshYieldsCredentials ==
  \A o \in Ops : At(o, API, "refreshed") /\ ret[o] = "ok" => accessToken # <<0, 0>>
=============================================================================

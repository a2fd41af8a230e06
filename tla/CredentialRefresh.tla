------------------------- MODULE CredentialRefresh -------------------------
(***************************************************************************)
(* The coordinator that every Go client derived from one root shares       *)
(* (go/pkg/hey/credential_refresh.go), driven by the requests that sign    *)
(* through it and by the 401s they bring back (client.go, answer401 and    *)
(* renewal), over a provider that may renew its token on its own.          *)
(*                                                                         *)
(* A request is a goroutine that signs, is sent, and on a first 401 asks   *)
(* the coordinator whether to sign and send once more.  A refresh is a     *)
(* goroutine of its own, named by the request that started it: a request   *)
(* starts at most one, which the proofs establish.  Every critical section *)
(* of the coordinator's mutex is one action; the strategy, the provider    *)
(* and the refresher run outside it, between two actions.                  *)
(*                                                                         *)
(* A context has no variable: wherever the code selects on ctx.Done() an   *)
(* action lets the context win, at any moment and over a ready channel.    *)
(***************************************************************************)
EXTENDS Naturals

CONSTANTS
  Requests,  \* the requests, and the refreshes they may start
  NoRun,     \* inFlight = nil, and a request that waits on no refresh
  Named,     \* TRUE: the SDK's BearerAuth signs, and names its credential
  Pinned,    \* TRUE: the provider hands out one token whatever is refreshed
             \* (AuthManager with HEY_TOKEN set)
  MaxToken   \* bound: the provider's tokens are the versions 1 .. MaxToken

ASSUME NoRunAssumption    == NoRun \notin Requests
ASSUME NamedAssumption    == Named \in BOOLEAN
ASSUME PinnedAssumption   == Pinned \in BOOLEAN
ASSUME MaxTokenAssumption == MaxToken \in Nat \ {0}

VARIABLES
  \* credentialRefresh, guarded by mu
  refreshes,   \* refreshes that renewed the credentials
  runs,        \* refreshes that ran to an answer
  inFlight,    \* the refresh running now, or NoRun
  renewed,     \* how the last refresh ended
  busy,        \* a signing or a refresh holds the turn
  credential,  \* the last credential signed with; 0 stands for ""
  \* the provider
  token,       \* the token it would hand out now
  \* each request
  pc,          \* where its goroutine stands
  attempt,     \* 1, or 2 once its 401 was answered with a resend
  held,        \* the token authenticate() read
  gen,         \* redirectState.signedUnder
  signedWith,  \* the token it went out with
  waits,       \* the refreshRun whose done channel it selects on
  \* each refreshRun
  rpc,         \* where its goroutine stands
  from,        \* the generation it refreshes from
  rejected,    \* the token whose 401 started it
  outcome      \* how it ended; run.renewed is RunRenewed below

coordinator == <<refreshes, runs, inFlight, renewed, busy, credential>>
request     == <<pc, attempt, held, gen, signedWith, waits>>
refreshRun  == <<rpc, from, rejected, outcome>>
vars        == <<coordinator, token, request, refreshRun>>

Generation == [refreshes : Nat, runs : Nat]

\* take() loops over a wait: "arriving" has not waited yet, "woken" has.
Taking    == {"arriving", "woken"}
Terminal  == {"over", "refused"}
RequestPC == Taking \cup {"turnWait", "refreshWait", "signing", "signed",
                          "sent", "answering", "waiting"} \cup Terminal
RunPC     == Taking \cup {"none", "turnWait", "renewing", "asking",
                          "finishing", "closing", "done"}
Outcome   == {"none", "renewed", "failed", "overtaken", "gaveUp"}

\* The counts as one record, as generation() reads them.
Current == [refreshes |-> refreshes, runs |-> runs]

\* run.renewed: set by a renewal, and by a run that found one already counted.
RunRenewed(x) == outcome[x] \in {"renewed", "overtaken"}

Init ==
  /\ refreshes = 0 /\ runs = 0 /\ inFlight = NoRun /\ renewed = FALSE
  /\ busy = FALSE /\ credential = 0 /\ token = 1
  /\ pc = [q \in Requests |-> "arriving"]
  /\ attempt = [q \in Requests |-> 1]
  /\ held = [q \in Requests |-> 0]
  /\ gen = [q \in Requests |-> [refreshes |-> 0, runs |-> 0]]
  /\ signedWith = [q \in Requests |-> 0]
  /\ waits = [q \in Requests |-> NoRun]
  /\ rpc = [x \in Requests |-> "none"]
  /\ from = [x \in Requests |-> [refreshes |-> 0, runs |-> 0]]
  /\ rejected = [x \in Requests |-> 0]
  /\ outcome = [x \in Requests |-> "none"]

-----------------------------------------------------------------------------
(* The turn.                                                               *)

\* Mutant: the turn is given back and nobody is woken.
WakeNobody(f) == f

\* What closing freed does to the goroutines asleep on it.
Wake(f) == [p \in Requests |-> IF f[p] = "turnWait" THEN "woken" ELSE f[p]]

\* A signer's view of take: the turn is free and no refresh is in flight.
SignerMayTake == ~busy /\ inFlight = NoRun

\* give(), for a goroutine that leaves the other pcs as f and g.
Give(f, g) == busy' = FALSE /\ pc' = Wake(f) /\ rpc' = Wake(g)

-----------------------------------------------------------------------------
(* sign, on the request's goroutine.                                       *)

TakeTurn(q) ==
  /\ pc[q] \in Taking
  /\ SignerMayTake
  /\ busy' = TRUE
  /\ pc' = [pc EXCEPT ![q] = "signing"]
  /\ UNCHANGED <<refreshes, runs, inFlight, renewed, credential, token,
                 attempt, held, gen, signedWith, waits, refreshRun>>

SleepOnTurn(q) ==
  /\ pc[q] \in Taking
  /\ busy
  /\ pc' = [pc EXCEPT ![q] = "turnWait"]
  /\ UNCHANGED <<coordinator, token, attempt, held, gen, signedWith, waits,
                 refreshRun>>

SleepOnRefresh(q) ==
  /\ pc[q] \in Taking
  /\ ~busy /\ inFlight # NoRun
  /\ pc' = [pc EXCEPT ![q] = "refreshWait"]
  /\ waits' = [waits EXCEPT ![q] = inFlight]
  /\ UNCHANGED <<coordinator, token, attempt, held, gen, signedWith,
                 refreshRun>>

WakeFromRefresh(q) ==
  /\ pc[q] = "refreshWait"
  /\ rpc[waits[q]] = "done"
  /\ pc' = [pc EXCEPT ![q] = "woken"]
  /\ waits' = [waits EXCEPT ![q] = NoRun]
  /\ UNCHANGED <<coordinator, token, attempt, held, gen, signedWith,
                 refreshRun>>

\* ctx ends first: the request is not signed.
AbandonSigning(q) ==
  /\ pc[q] \in {"turnWait", "woken", "refreshWait"}
  /\ pc' = [pc EXCEPT ![q] = "over"]
  /\ waits' = [waits EXCEPT ![q] = NoRun]
  /\ UNCHANGED <<coordinator, token, attempt, held, gen, signedWith,
                 refreshRun>>

\* authenticate() reads the token, outside mu.
Authenticate(q) ==
  /\ pc[q] = "signing"
  /\ held' = [held EXCEPT ![q] = token]
  /\ pc' = [pc EXCEPT ![q] = "signed"]
  /\ UNCHANGED <<coordinator, token, attempt, gen, signedWith, waits,
                 refreshRun>>

\* authenticate() returns an error or panics: the turn goes back either way.
AuthenticateFails(q) ==
  /\ pc[q] = "signing"
  /\ Give([pc EXCEPT ![q] = "over"], rpc)
  /\ UNCHANGED <<refreshes, runs, inFlight, renewed, credential, token,
                 attempt, held, gen, signedWith, waits, from, rejected,
                 outcome>>

\* Mutant: the generation is the one read before the signing was counted.
StampBeforeCount == Current

\* The counts in the same critical section as the renewal just counted.
Stamp == [refreshes |-> refreshes', runs |-> runs']

\* A credential other than the last one is a renewal of the provider's own.
ProviderRenewed(q) == Named /\ credential # 0 /\ held[q] # credential

FinishSigning(q) ==
  /\ pc[q] = "signed"
  /\ refreshes' = refreshes + (IF ProviderRenewed(q) THEN 1 ELSE 0)
  /\ runs' = runs + (IF ProviderRenewed(q) THEN 1 ELSE 0)
  /\ credential' = IF Named THEN held[q] ELSE credential
  /\ gen' = [gen EXCEPT ![q] = Stamp]
  /\ signedWith' = [signedWith EXCEPT ![q] = held[q]]
  /\ Give([pc EXCEPT ![q] = "sent"], rpc)
  /\ UNCHANGED <<inFlight, renewed, token, attempt, held, waits, from,
                 rejected, outcome>>

-----------------------------------------------------------------------------
(* The answer the server gives.                                            *)

\* Anything but a 401: the request is over.
Respond(q) ==
  /\ pc[q] = "sent"
  /\ pc' = [pc EXCEPT ![q] = "over"]
  /\ UNCHANGED <<coordinator, token, attempt, held, gen, signedWith, waits,
                 refreshRun>>

\* A 401: the first asks the coordinator, the second is the caller's.
Reject(q) ==
  /\ pc[q] = "sent"
  /\ pc' = [pc EXCEPT ![q] = IF attempt[q] = 1 THEN "answering" ELSE "refused"]
  /\ UNCHANGED <<coordinator, token, attempt, held, gen, signedWith, waits,
                 refreshRun>>

-----------------------------------------------------------------------------
(* answer, on the request's goroutine.                                     *)

\* What the request does with the answer: sign again, or give the 401 back.
Told(q, yes) ==
  /\ pc' = [pc EXCEPT ![q] = IF yes THEN "arriving" ELSE "refused"]
  /\ attempt' = [attempt EXCEPT ![q] = IF yes THEN 2 ELSE @]
  /\ waits' = [waits EXCEPT ![q] = NoRun]
  /\ UNCHANGED <<coordinator, token, held, gen, signedWith, refreshRun>>

AnswerOvertaken(q) ==
  /\ pc[q] = "answering"
  /\ refreshes # gen[q].refreshes
  /\ Told(q, TRUE)

\* Mutant: a 401 on credentials a refresh failed to renew runs another.
NeverAlreadyFailed(q) == FALSE

\* A refresh of these very credentials ran and failed.
AlreadyFailed(q) == runs # gen[q].runs

AnswerShared(q) ==
  /\ pc[q] = "answering"
  /\ refreshes = gen[q].refreshes
  /\ inFlight = NoRun
  /\ AlreadyFailed(q)
  /\ Told(q, renewed)

\* Mutant: a 401 is read as one signed now, as a send without a state is.
StartRefreshAsOfNow(q) ==
  /\ pc[q] = "answering"
  /\ inFlight = NoRun
  /\ inFlight' = q
  /\ rpc' = [rpc EXCEPT ![q] = "arriving"]
  /\ from' = [from EXCEPT ![q] = Current]
  /\ rejected' = [rejected EXCEPT ![q] = signedWith[q]]
  /\ pc' = [pc EXCEPT ![q] = "waiting"]
  /\ waits' = [waits EXCEPT ![q] = q]
  /\ UNCHANGED <<refreshes, runs, renewed, busy, credential, token, attempt,
                 held, gen, signedWith, outcome>>

StartRefresh(q) ==
  /\ pc[q] = "answering"
  /\ refreshes = gen[q].refreshes
  /\ inFlight = NoRun
  /\ ~AlreadyFailed(q)
  /\ inFlight' = q
  /\ rpc' = [rpc EXCEPT ![q] = "arriving"]
  /\ from' = [from EXCEPT ![q] = gen[q]]
  /\ rejected' = [rejected EXCEPT ![q] = signedWith[q]]
  /\ pc' = [pc EXCEPT ![q] = "waiting"]
  /\ waits' = [waits EXCEPT ![q] = q]
  /\ UNCHANGED <<refreshes, runs, renewed, busy, credential, token, attempt,
                 held, gen, signedWith, outcome>>

JoinRefresh(q) ==
  /\ pc[q] = "answering"
  /\ refreshes = gen[q].refreshes
  /\ inFlight # NoRun
  /\ pc' = [pc EXCEPT ![q] = "waiting"]
  /\ waits' = [waits EXCEPT ![q] = inFlight]
  /\ UNCHANGED <<coordinator, token, attempt, held, gen, signedWith,
                 refreshRun>>

\* Mutant: whichever run was waited on is the request's answer.
AnyRunIsOwn(q) == TRUE

OwnRun(q) == from[waits[q]] = gen[q]

\* run.done is closed, and the run was for this request's own generation.
TakeRunsAnswer(q) ==
  /\ pc[q] = "waiting"
  /\ rpc[waits[q]] = "done"
  /\ OwnRun(q)
  /\ Told(q, RunRenewed(waits[q]))

\* run.done is closed, and the run was for another generation.
AskAgain(q) ==
  /\ pc[q] = "waiting"
  /\ rpc[waits[q]] = "done"
  /\ ~OwnRun(q)
  /\ pc' = [pc EXCEPT ![q] = "answering"]
  /\ waits' = [waits EXCEPT ![q] = NoRun]
  /\ UNCHANGED <<coordinator, token, attempt, held, gen, signedWith,
                 refreshRun>>

\* ctx ends first: the refresh goes on for the others.
AbandonAnswer(q) ==
  /\ pc[q] = "waiting"
  /\ pc' = [pc EXCEPT ![q] = "over"]
  /\ waits' = [waits EXCEPT ![q] = NoRun]
  /\ UNCHANGED <<coordinator, token, attempt, held, gen, signedWith,
                 refreshRun>>

-----------------------------------------------------------------------------
(* refresh, on the run's own goroutine.                                    *)

RunSleeps(x) ==
  /\ rpc[x] \in Taking
  /\ busy
  /\ rpc' = [rpc EXCEPT ![x] = "turnWait"]
  /\ UNCHANGED <<coordinator, token, request, from, rejected, outcome>>

\* Mutant: the timeout bounds the renewal but not the wait for the turn.
RunWaitsForGood(x) == FALSE

\* The timeout ends the wait for the turn: nothing is counted.
RunGivesUp(x) ==
  /\ rpc[x] \in {"turnWait", "woken"}
  /\ inFlight' = NoRun
  /\ rpc' = [rpc EXCEPT ![x] = "closing"]
  /\ outcome' = [outcome EXCEPT ![x] = "gaveUp"]
  /\ UNCHANGED <<refreshes, runs, renewed, busy, credential, token, request,
                 from, rejected>>

\* Mutant: the counts are not read again once the turn is held.
NeverOvertaken(x) == FALSE

\* A signing counted a renewal while the run waited for the turn.
Overtaken(x) == refreshes # from[x].refreshes

RunOvertaken(x) ==
  /\ rpc[x] \in Taking
  /\ ~busy
  /\ Overtaken(x)
  /\ inFlight' = NoRun
  /\ outcome' = [outcome EXCEPT ![x] = "overtaken"]
  /\ Give(pc, [rpc EXCEPT ![x] = "closing"])
  /\ UNCHANGED <<refreshes, runs, renewed, credential, token, attempt, held,
                 gen, signedWith, waits, from, rejected>>

\* Mutant: the refresh does not wait for the signing under way.
RunBargesIn(x) ==
  /\ rpc[x] \in Taking
  /\ ~Overtaken(x)
  /\ busy' = TRUE
  /\ rpc' = [rpc EXCEPT ![x] = "renewing"]
  /\ UNCHANGED <<refreshes, runs, inFlight, renewed, credential, token,
                 request, from, rejected, outcome>>

\* The turn is held from here: renew() is called outside mu.
RunTakesTurn(x) ==
  /\ rpc[x] \in Taking
  /\ ~busy
  /\ ~Overtaken(x)
  /\ busy' = TRUE
  /\ rpc' = [rpc EXCEPT ![x] = "renewing"]
  /\ UNCHANGED <<refreshes, runs, inFlight, renewed, credential, token,
                 request, from, rejected, outcome>>

\* renewal's first half: a bearer provider is asked what it would sign with,
\* and "asking" goes on to the refresher itself.
AskProvider(x) ==
  /\ rpc[x] = "renewing"
  /\ \/ /\ Named
        /\ rpc' = [rpc EXCEPT ![x] = "finishing"]
        /\ outcome' = [outcome EXCEPT ![x] = "failed"]
     \/ /\ Named /\ token # rejected[x]
        /\ rpc' = [rpc EXCEPT ![x] = "finishing"]
        /\ outcome' = [outcome EXCEPT ![x] = "renewed"]
     \/ /\ Named => token = rejected[x]
        /\ rpc' = [rpc EXCEPT ![x] = "asking"]
        /\ UNCHANGED outcome
  /\ UNCHANGED <<coordinator, token, request, from, rejected>>

RefresherRenews(x) ==
  /\ rpc[x] = "asking"
  /\ Pinned \/ token < MaxToken
  /\ token' = IF Pinned THEN token ELSE token + 1
  /\ rpc' = [rpc EXCEPT ![x] = "finishing"]
  /\ outcome' = [outcome EXCEPT ![x] = "renewed"]
  /\ UNCHANGED <<coordinator, request, from, rejected>>

RefresherFails(x) ==
  /\ rpc[x] = "asking"
  /\ rpc' = [rpc EXCEPT ![x] = "finishing"]
  /\ outcome' = [outcome EXCEPT ![x] = "failed"]
  /\ UNCHANGED <<coordinator, token, request, from, rejected>>

\* What the counts become once renew has answered.
CountAnswer(x) ==
  /\ refreshes' = refreshes + (IF RunRenewed(x) THEN 1 ELSE 0)
  /\ runs' = runs + 1
  /\ renewed' = RunRenewed(x)
  /\ credential' = IF RunRenewed(x) THEN 0 ELSE credential

FinishRun(x) ==
  /\ rpc[x] = "finishing"
  /\ CountAnswer(x)
  /\ inFlight' = NoRun
  /\ Give(pc, [rpc EXCEPT ![x] = "closing"])
  /\ UNCHANGED <<token, attempt, held, gen, signedWith, waits, from,
                 rejected, outcome>>

\* close(run.done), after mu was given up.
CloseRun(x) ==
  /\ rpc[x] = "closing"
  /\ rpc' = [rpc EXCEPT ![x] = "done"]
  /\ UNCHANGED <<coordinator, token, request, from, rejected, outcome>>

-----------------------------------------------------------------------------
(* The provider, on its own account: an expiring token renewed as it is    *)
(* handed out, a login, another process's refresh.                         *)
ProviderRenews ==
  /\ ~Pinned
  /\ token < MaxToken
  /\ token' = token + 1
  /\ UNCHANGED <<coordinator, request, refreshRun>>

Sign(q) ==
  \/ TakeTurn(q) \/ SleepOnTurn(q) \/ SleepOnRefresh(q) \/ WakeFromRefresh(q)
  \/ Authenticate(q) \/ AuthenticateFails(q) \/ FinishSigning(q)

Ask(q) ==
  \/ AnswerOvertaken(q) \/ AnswerShared(q) \/ StartRefresh(q)
  \/ JoinRefresh(q) \/ TakeRunsAnswer(q) \/ AskAgain(q)

Refresh(x) ==
  \/ RunSleeps(x) \/ RunGivesUp(x) \/ RunOvertaken(x) \/ RunTakesTurn(x)
  \/ AskProvider(x) \/ RefresherRenews(x) \/ RefresherFails(x)
  \/ FinishRun(x) \/ CloseRun(x)

Done == /\ \A q \in Requests : pc[q] \in Terminal
        /\ \A x \in Requests : rpc[x] \in {"none", "done"}
        /\ UNCHANGED vars

Next ==
  \/ \E q \in Requests : Sign(q) \/ Respond(q) \/ Reject(q) \/ Ask(q)
  \/ \E q \in Requests : AbandonSigning(q) \/ AbandonAnswer(q)
  \/ \E x \in Requests : Refresh(x)
  \/ ProviderRenews
  \/ Done

Spec == Init /\ [][Next]_vars

-----------------------------------------------------------------------------
(* Fairness.  A goroutine that can run does; a send is bounded by its      *)
(* client's timeout and a refresh by its own.  The provider renews when it *)
(* likes, no context need ever end, and the strategy may hang.             *)
Fairness ==
  /\ \A q \in Requests : /\ WF_vars(Sign(q) /\ pc[q] # "signing")
                         /\ WF_vars(Respond(q) \/ Reject(q))
                         /\ WF_vars(Ask(q))
  /\ \A x \in Requests : WF_vars(Refresh(x))

FairSpec == Spec /\ Fairness

\* The strategy always returns, or panics.
StrategyReturns ==
  \A q \in Requests : WF_vars(Authenticate(q) \/ AuthenticateFails(q))

-----------------------------------------------------------------------------
(* Properties.                                                             *)

\* The type invariant.
TypeOK ==
  /\ refreshes \in Nat /\ runs \in Nat
  /\ inFlight \in Requests \cup {NoRun}
  /\ renewed \in BOOLEAN /\ busy \in BOOLEAN
  /\ credential \in Nat /\ token \in Nat \ {0}
  /\ pc \in [Requests -> RequestPC]
  /\ attempt \in [Requests -> {1, 2}]
  /\ held \in [Requests -> Nat]
  /\ gen \in [Requests -> Generation]
  /\ signedWith \in [Requests -> Nat]
  /\ waits \in [Requests -> Requests \cup {NoRun}]
  /\ rpc \in [Requests -> RunPC]
  /\ from \in [Requests -> Generation]
  /\ rejected \in [Requests -> Nat]
  /\ outcome \in [Requests -> Outcome]

Signing  == {q \in Requests : pc[q] \in {"signing", "signed"}}
Renewing == {x \in Requests : rpc[x] \in {"renewing", "asking", "finishing"}}

\* Signing and refreshing go one at a time, and never together: the strategy
\* and the refresher are never inside the provider at once, and the turn is
\* busy exactly while one of them holds it.
TurnIsExclusive ==
  /\ \A q, r \in Signing : q = r
  /\ \A x, y \in Renewing : x = y
  /\ Signing = {} \/ Renewing = {}
  /\ busy <=> (Signing # {} \/ Renewing # {})

\* A run that reached renew(), whatever came of it.
Ran(x) == x \in Renewing \/ outcome[x] \in {"renewed", "failed"}

\* "A refresh runs once for all the requests the stale credentials earned it
\* on", a failure included: no two runs renew for one generation.
OneRefreshPerGeneration ==
  \A x, y \in Requests : Ran(x) /\ Ran(y) /\ from[x] = from[y] => x = y

\* "A set of credentials is refreshed once however many requests were signed
\* with it": no token is the rejected one of two runs that renewed.
OneRenewalPerCredential ==
  \A x, y \in Requests :
    outcome[x] = "renewed" /\ outcome[y] = "renewed"
      /\ rejected[x] = rejected[y] => x = y

\* A request that has been signed and sent, whatever became of it.
Signed(q) == signedWith[q] # 0

\* "The credentials a request went out with and the counts it was signed
\* under cannot disagree": a later count of renewals is a newer token and,
\* when the strategy names its credential, one count is one token.
CountsFollowCredentials ==
  \A q, r \in Requests : Signed(q) /\ Signed(r) =>
    /\ gen[q].refreshes < gen[r].refreshes => signedWith[q] < signedWith[r]
    /\ Named /\ gen[q].refreshes = gen[r].refreshes
         => signedWith[q] = signedWith[r]

\* A 401 answered "renewed" is worth the resend: the second signing carries a
\* newer token than the rejected one, under a later count.
ResendCarriesNewerToken ==
  [][\A q \in Requests :
       attempt[q] = 2 /\ pc[q] = "signed" /\ pc'[q] = "sent"
         => /\ signedWith'[q] > signedWith[q]
            /\ gen'[q].refreshes > gen[q].refreshes]_vars

\* A first 401 is given back to the caller only for a refresh of exactly the
\* credentials it was signed with that failed or was given up: never for an
\* older run's answer, nor for a failure from before the request was signed.
RefusalIsOwn ==
  \A q \in Requests : pc[q] = "refused" /\ attempt[q] = 1 =>
    \E x \in Requests : /\ from[x] = gen[q]
                       /\ outcome[x] \in {"failed", "gaveUp"}

\* With a strategy that always returns, every request ends and every run's
\* waiters are released: no wakeup is lost and no failure keeps the turn.
EveryRequestEnds ==
  StrategyReturns =>
    \A q \in Requests : <>[](pc[q] \in Terminal /\ rpc[q] \in {"none", "done"})

\* A 401 is always answered, even while a strategy hangs in Authenticate.
EveryRejectionIsAnswered ==
  \A q \in Requests :
    pc[q] = "answering" ~> pc[q] \notin {"answering", "waiting"}

-----------------------------------------------------------------------------
(* The strengthening that makes the invariants above inductive.            *)

\* A run in flight: started, and its answer not yet counted.
Live == {x \in Requests : rpc[x] \in Taking \cup {"turnWait", "renewing",
                                                 "asking", "finishing"}}

\* inFlight names the one live run.
OneLiveRun == \A x \in Requests : x \in Live <=> inFlight = x

\* Where a request and the run it may have started stand to each other: it
\* starts one only from its first 401, waits for that one's answer, and the
\* generation of the run is its own for as long as it waits.
RunsAndRequests ==
  \A q \in Requests :
    /\ pc[q] \in {"answering", "waiting"} => attempt[q] = 1
    /\ pc[q] = "waiting" => /\ waits[q] \in Requests
                            /\ waits[q] = q => from[q] = gen[q]
    /\ rpc[q] # "none" => \/ attempt[q] = 2
                          \/ pc[q] \in Terminal
                          \/ pc[q] = "waiting" /\ waits[q] = q
    /\ outcome[q] # "none" <=> rpc[q] \in {"finishing", "closing", "done"}
    /\ rpc[q] = "finishing" => outcome[q] \in {"renewed", "failed"}

\* A run whose answer is counted, or that left without one.
Ended(x) == rpc[x] \in {"closing", "done"}

\* A request's generation against the counts: one that was tried and is not
\* renewed has the failed run to show for it.
RequestCounts(q) ==
  /\ gen[q].refreshes <= refreshes /\ gen[q].runs <= runs
  /\ refreshes = gen[q].refreshes /\ runs # gen[q].runs =>
       /\ renewed = FALSE
       /\ \E x \in Requests : Ended(x) /\ outcome[x] = "failed"
                             /\ from[x] = gen[q]

\* A run's generation against the counts: a live run that was not overtaken
\* refreshes the credentials of now, an ended one those of an earlier count.
RunCounts(x) ==
  /\ x \in Live => from[x].refreshes <= refreshes
  /\ x \in Live /\ from[x].refreshes = refreshes => from[x].runs = runs
  /\ x \in Renewing => from[x].refreshes = refreshes
  /\ Ended(x) /\ outcome[x] \in {"renewed", "failed"} => from[x].runs < runs
  /\ Ended(x) /\ RunRenewed(x) => from[x].refreshes < refreshes

CountsInOrder ==
  \A q \in Requests : RequestCounts(q) /\ RunCounts(q)

\* No token is newer than the provider's, and a signer's is not older than the
\* last credential signed with.
TokenBounds ==
  /\ credential <= token
  /\ \A q \in Requests :
       /\ held[q] <= token /\ signedWith[q] <= token
       /\ pc[q] = "signed" => credential <= held[q]

\* A bearer client's last credential is what every request of the count of now
\* was signed with, and what a refresh of the count of now was started for.
LastCredential ==
  Named => \A q \in Requests :
    /\ Signed(q) /\ gen[q].refreshes = refreshes => signedWith[q] = credential
    /\ q \in Live /\ from[q].refreshes = refreshes
         => rejected[q] = credential /\ credential # 0

\* A request signed under an earlier count went out with an older token than
\* the provider's and than the one a signing under way has read.
OldTokens ==
  \A q \in Requests :
    /\ Signed(q) /\ gen[q].refreshes < refreshes =>
         /\ signedWith[q] < token
         /\ \A r \in Requests : pc[r] = "signed" => signedWith[q] < held[r]
    /\ \A x \in Requests : rpc[x] = "finishing" /\ outcome[x] = "renewed"
                            => signedWith[q] < token

TokensInOrder == TokenBounds /\ LastCredential /\ OldTokens

\* A request that was sent was signed with some token, and one told to resend
\* is behind the count.
ResendIsDue ==
  \A q \in Requests :
    /\ pc[q] = "signed" => held[q] # 0
    /\ pc[q] \in {"sent", "answering", "waiting"} => Signed(q)
    /\ attempt[q] = 2 /\ pc[q] \in Taking \cup {"turnWait", "refreshWait",
                                               "signing", "signed"}
         => Signed(q) /\ gen[q].refreshes < refreshes

IInv ==
  /\ TypeOK /\ TurnIsExclusive /\ OneLiveRun /\ RunsAndRequests
  /\ CountsInOrder /\ TokensInOrder /\ ResendIsDue
=============================================================================

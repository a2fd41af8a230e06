----------------------------- MODULE RetryLoop -----------------------------
(***************************************************************************)
(* How often one request of the Go client is sent: the generated loop      *)
(* (go/pkg/generated/client.gen.go doWithRetry, doAttempts), and the       *)
(* hand-written sends (go/pkg/hey/client.go doRequestURLWithBudget,        *)
(* singleRequest, doBodyRequest, sendBodyRequest; attachments.go Upload),  *)
(* with what the server may have done each time.                           *)
(*                                                                         *)
(* The refresher's answer is any answer here; CredentialRefresh is the     *)
(* module about it, and Exchange about the hops that make up a send.  How  *)
(* long a wait takes is left out.                                          *)
(***************************************************************************)
EXTENDS Integers

CONSTANTS
  Kinds,    \* the request may be "generated", or "unsigned" if it is of an
            \* operation HEY takes without credentials; a hand-written "write"
            \* (POST, PATCH), "read" (any other method) or "form"
            \* (doBodyRequest); or the "upload" of an attachment to its storage
  MaxSends  \* bound: the sends a policy or WithMaxRetries may grant

ASSUME SendsAssumption ==
  /\ MaxSends \in Nat \ {0}
  /\ Kinds \subseteq {"generated", "unsigned", "write", "read", "form", "upload"}

VARIABLES
  kind, idempotent,
  budget,    \* the sends the policy under the client's settings grants
  declared,  \* the policy names the statuses that earn another send
  pc, attempt,
  last,      \* the last send the loop under way may make
  status, followed,  \* the latest answer, and whether a redirect led to it
  sends,
  applied,   \* how many times the server carried the request out
  renewed,   \* the send whose 401 a refresh answered, or 0
  cut        \* the context ended before a send that was due

policy == <<kind, idempotent, budget, declared>>
answer == <<status, followed>>
vars   == <<policy, pc, attempt, last, answer, sends, applied, renewed, cut>>

\* "listed" is a status the policy names and "transient" one that only the SDK
\* calls transient; "lost" is a transport failure.
Status == {"none", "ok", "listed", "transient", "fatal", "refused", "lost"}
PC     == {"ready", "answered", "waiting", "over"}

\* A request that is not idempotent gets one send, whatever its policy.
Allowed == IF idempotent THEN budget ELSE 1

Init ==
  /\ kind \in Kinds
  /\ idempotent \in CASE kind \in {"generated", "unsigned"} -> BOOLEAN
                      [] kind = "read"                     -> {TRUE}
                      [] OTHER                             -> {FALSE}
  /\ budget \in 1 .. MaxSends
  /\ declared \in IF kind \in {"generated", "unsigned"} THEN {TRUE} ELSE BOOLEAN
  /\ pc = "ready" /\ attempt = 1 /\ last = Allowed
  /\ status = "none" /\ followed = FALSE
  /\ sends = 0 /\ applied = 0 /\ renewed = 0 /\ cut = FALSE

Ends == pc' = "over" /\ UNCHANGED <<attempt, last>>

-----------------------------------------------------------------------------
(* One send.                                                               *)

\* An unsigned operation and a form take a redirect for their answer.
FollowsRedirects == kind \notin {"unsigned", "form"}

\* What the server may have done by the time it answers so: unless a redirect
\* answered first, a request that is refused did not go through.
Applications(s, f) ==
  CASE s = "ok" /\ ~f      -> {1}
    [] s = "refused" /\ ~f -> {0}
    [] OTHER               -> {0, 1}

IsAnswered(s, f, n) ==
  /\ pc = "ready"
  /\ status' = s /\ followed' = f /\ applied' = applied + n
  /\ sends' = sends + 1
  /\ pc' = "answered"
  /\ UNCHANGED <<policy, attempt, last, renewed, cut>>

Send ==
  \E s \in Status \ {"none"} :
  \E f \in IF FollowsRedirects THEN BOOLEAN ELSE {FALSE} :
  \E n \in Applications(s, f) : IsAnswered(s, f, n)

\* The request cannot be built or signed, or its context ended.
SignFails ==
  /\ pc = "ready"
  /\ Ends
  /\ cut' = TRUE
  /\ UNCHANGED <<policy, answer, sends, applied, renewed>>

-----------------------------------------------------------------------------
(* A 401.                                                                  *)

\* Mutant: the redirect that answered a write is forgotten.
NothingWentThrough == FALSE

\* A write HEY answered with a redirect may already be made.
WentThrough == followed /\ ~idempotent

\* The generated client asks once a request, the others on the first send; what
\* is not signed does not ask.
AsksRefresher ==
  /\ status = "refused"
  /\ kind \notin {"unsigned", "upload"}
  /\ IF kind = "generated" THEN renewed = 0 ELSE attempt = 1

\* Mutant: what is left of the budget, which may be nothing.
WhatIsLeft == Allowed

\* Mutant: the budget over again.
FreshBudget == attempt + Allowed

\* What is left of the budget, and one send at least.
Granted == IF Allowed - attempt > 1 THEN Allowed ELSE attempt + 1

ResumeLoop ==
  /\ kind = "generated"
  /\ last' = Granted
  /\ attempt' = attempt + 1
  /\ pc' = IF attempt' <= last' THEN "ready" ELSE "over"

SendWriteAgain ==
  /\ kind \in {"write", "form"}
  /\ attempt' = 2
  /\ pc' = "ready"
  /\ UNCHANGED last

\* To the hand-written loop it is one more transient failure, out of budget on
\* the last send.
ResendRead ==
  /\ kind = "read"
  /\ pc' = IF attempt >= budget THEN "over" ELSE "waiting"
  /\ UNCHANGED <<attempt, last>>

RefreshRenews ==
  /\ pc = "answered"
  /\ AsksRefresher
  /\ renewed' = sends
  /\ IF WentThrough THEN Ends ELSE ResumeLoop \/ SendWriteAgain \/ ResendRead
  /\ UNCHANGED <<policy, answer, sends, applied, cut>>

\* The refresh failed, or the request's context ended while it ran.
RefreshFails ==
  /\ pc = "answered"
  /\ AsksRefresher
  /\ Ends
  /\ UNCHANGED <<policy, answer, sends, applied, renewed, cut>>

-----------------------------------------------------------------------------
(* Any other answer.                                                       *)

EarnsAnother ==
  /\ kind \in {"generated", "unsigned", "read"}
  /\ \/ status \in {"lost", "listed"}
     \/ status = "transient" /\ ~declared

Backoff ==
  /\ pc = "answered"
  /\ EarnsAnother
  /\ attempt < last
  /\ pc' = "waiting"
  /\ UNCHANGED <<policy, attempt, last, answer, sends, applied, renewed, cut>>

\* The answer is the caller's.
Answer ==
  /\ pc = "answered"
  /\ ~AsksRefresher
  /\ ~(EarnsAnother /\ attempt < last)
  /\ Ends
  /\ UNCHANGED <<policy, answer, sends, applied, renewed, cut>>

DelayElapses ==
  /\ pc = "waiting"
  /\ pc' = "ready"
  /\ attempt' = attempt + 1
  /\ UNCHANGED <<policy, last, answer, sends, applied, renewed, cut>>

ContextEnds ==
  /\ pc = "waiting"
  /\ Ends
  /\ cut' = TRUE
  /\ UNCHANGED <<policy, answer, sends, applied, renewed>>

Over == pc = "over" /\ UNCHANGED vars

Next ==
  \/ Send \/ SignFails \/ RefreshRenews \/ RefreshFails
  \/ Backoff \/ Answer \/ DelayElapses \/ ContextEnds \/ Over

Spec == Init /\ [][Next]_vars

-----------------------------------------------------------------------------
(* Properties.                                                             *)

\* The type invariant.
TypeOK ==
  /\ kind \in Kinds /\ idempotent \in BOOLEAN /\ declared \in BOOLEAN
  /\ budget \in 1 .. MaxSends
  /\ pc \in PC /\ attempt \in 1 .. MaxSends + 1
  /\ last \in 1 .. MaxSends + 1
  /\ status \in Status /\ followed \in BOOLEAN
  /\ sends \in 0 .. MaxSends + 1 /\ applied \in 0 .. MaxSends + 1
  /\ renewed \in 0 .. MaxSends + 1 /\ cut \in BOOLEAN

\* "Sent again it could be made twice": the server carries a request that is
\* not idempotent out once at the most, through failures, redirects and a
\* refreshed 401, whichever way it was sent.
NoWriteTwice == ~idempotent => applied <= 1

\* "Sent at most n+1 times, or as many times as its policy allows when that is
\* fewer", and once more for the 401 a refresh answered.
SendsAreBounded == sends <= Allowed + (IF renewed # 0 THEN 1 ELSE 0)

\* The request does not end on a 401 that a refresh answered, unless it may
\* already be made or is cut off.
EarnsSend ==
  pc = "over" /\ renewed # 0 /\ ~cut => WentThrough \/ sends > renewed

\* "The one resend after a 401 that a credential refresh answered is granted
\* on top when those sends are already spent": so it is for every operation,
\* and for a hand-written write or form.
RefreshEarnsSend == kind # "read" => EarnsSend

\* And for a hand-written read, which is told of no exception.
RefreshEarnsRead == kind = "read" => EarnsSend
=============================================================================

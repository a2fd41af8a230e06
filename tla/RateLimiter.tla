---------------------------- MODULE RateLimiter ----------------------------
(***************************************************************************)
(* The client's token bucket and the pause a Retry-After puts it into      *)
(* (go/pkg/hey/rate_limit.go; resilience.go OnRequestEnd).  Goroutines ask *)
(* with Allow, Wait and Reserve while the answers to other requests set    *)
(* the pause.  Each method holds mu while it decides and is one action;    *)
(* Wait is one per turn of its loop, with its sleep in between, and        *)
(* SetRetryAfterDuration reads the clock before it takes mu, so that is    *)
(* two.  RespectRetryAfter is on, as it is by default.                     *)
(*                                                                         *)
(* The code counts tokens in floating point; here a token is Cost shares   *)
(* and a tick adds Rate of them, so that part of a token can be there.     *)
(***************************************************************************)
EXTENDS Integers

CONSTANTS
  Waiters,       \* the goroutines in Wait
  Responders,    \* the requests whose answers set the pause
  Burst, Cost, Rate,
  Second,        \* the ticks in a second, the longest Reserve makes one wait
  RetryAfters,   \* the Retry-After values a response may carry, 0 for none
  DefaultPause,  \* the 60 seconds of a 429 that carries none
  MaxTime        \* bound: the ticks of the clock

ASSUME BucketAssumption ==
  /\ Burst \in Nat \ {0} /\ Cost \in Nat \ {0} /\ Rate \in Nat \ {0}
  /\ Second \in Nat \ {0} /\ MaxTime \in Nat
  /\ RetryAfters \subseteq Nat /\ DefaultPause \in Nat \ {0}

VARIABLES
  tokens,           \* in shares; a reservation takes it below zero
  lastRefill,
  retryAfterUntil,  \* 0 is the zero time
  now,
  heard,    \* the pause each responder is about to set, or 0
  wake,     \* when each sleeping Wait looks again, or 0
  alone,    \* history: the sleepers for a token nobody was granted one since
  since,    \* history: when an interval of time began, and
  granted,  \* the tokens granted in it
  promised  \* history: the latest time any response asked to wait for

bucket  == <<tokens, lastRefill, retryAfterUntil>>
history == <<alone, since, granted, promised>>
vars    == <<bucket, now, heard, wake, history>>

Init ==
  /\ tokens = Burst * Cost /\ lastRefill = 0 /\ retryAfterUntil = 0
  /\ now = 0
  /\ heard = [g \in Responders |-> 0]
  /\ wake = [g \in Waiters |-> 0]
  /\ alone = {} /\ since = 0 /\ granted = 0 /\ promised = 0

-----------------------------------------------------------------------------
(* The bucket.                                                             *)

\* Mutant: what an idle client has not used is all still there.
RefilledForGood == tokens + Rate * (now - lastRefill)

\* refill.
Refilled ==
  LET added == tokens + Rate * (now - lastRefill)
  IN  IF added > Burst * Cost THEN Burst * Cost ELSE added

Paused == retryAfterUntil # 0 /\ now < retryAfterUntil

\* Every method starts so once the pause is over.
Refill ==
  /\ ~Paused
  /\ retryAfterUntil' = 0
  /\ lastRefill' = now

\* A token granted from what is there, or ahead of it.
Grant ==
  /\ tokens' = Refilled - Cost
  /\ granted' = granted + 1
  /\ alone' = {}
  /\ UNCHANGED <<since, promised>>

NoGrant == tokens' = Refilled /\ UNCHANGED <<since, granted, promised>>

Allow ==
  /\ Refill
  /\ \/ Refilled >= Cost /\ Grant
     \/ Refilled < Cost /\ NoGrant /\ UNCHANGED alone
  /\ UNCHANGED <<now, heard, wake>>

-----------------------------------------------------------------------------
(* Wait: a goroutine that sleeps and looks again.                          *)

\* Mutant: the sleep is not rounded up.
SleepShort == (Cost - Refilled) \div Rate

\* The code adds a millisecond to a duration rounded down.
Sleep == (Cost - Refilled) \div Rate + 1

MayLook(g) == wake[g] <= now

WaitOutPause(g) ==
  /\ MayLook(g)
  /\ Paused
  /\ wake' = [wake EXCEPT ![g] = retryAfterUntil]
  /\ alone' = alone \ {g}
  /\ UNCHANGED <<bucket, now, heard, since, granted, promised>>

WaitForToken(g) ==
  /\ MayLook(g)
  /\ Refill
  /\ Refilled < Cost
  /\ NoGrant
  /\ wake' = [wake EXCEPT ![g] = now + Sleep]
  /\ alone' = alone \cup {g}
  /\ UNCHANGED <<now, heard>>

WaitIsOver(g) ==
  /\ MayLook(g)
  /\ Refill
  /\ Refilled >= Cost
  /\ Grant
  /\ wake' = [wake EXCEPT ![g] = 0]
  /\ UNCHANGED <<now, heard>>

\* ctx ends first.
AbandonWait(g) ==
  /\ wake[g] # 0
  /\ wake' = [wake EXCEPT ![g] = 0]
  /\ alone' = alone \ {g}
  /\ UNCHANGED <<bucket, now, heard, since, granted, promised>>

-----------------------------------------------------------------------------
(* Reserve: a token ahead of time, no more than a second of them.          *)

\* Mutant: a reservation however far ahead.
ReserveAlways == TRUE

WithinASecond == Cost - Refilled <= Rate * Second

Reserve ==
  /\ Refill
  /\ \/ (Refilled >= Cost \/ WithinASecond) /\ Grant
     \/ Refilled < Cost /\ ~WithinASecond /\ NoGrant /\ UNCHANGED alone
  /\ UNCHANGED <<now, heard, wake>>

-----------------------------------------------------------------------------
(* OnRequestEnd: what a response asks the client to wait.                  *)

\* A 503 that carries no Retry-After asks for nothing.
Pauses == {IF r = 0 THEN DefaultPause ELSE r : r \in RetryAfters}

\* SetRetryAfterDuration reads the clock.
HearRetryAfter(g) ==
  /\ heard[g] = 0
  /\ \E d \in Pauses : heard' = [heard EXCEPT ![g] = now + d]
  /\ UNCHANGED <<bucket, now, wake, history>>

\* Mutant: the last response heard is the one that counts.
LastHeard(g) == heard[g]

\* SetRetryAfter: a pause is only ever made longer.
Later(g) == IF heard[g] > retryAfterUntil THEN heard[g] ELSE retryAfterUntil

SetRetryAfter(g) ==
  /\ heard[g] # 0
  /\ retryAfterUntil' = Later(g)
  /\ promised' = IF heard[g] > promised THEN heard[g] ELSE promised
  /\ heard' = [heard EXCEPT ![g] = 0]
  /\ UNCHANGED <<tokens, lastRefill, now, wake, alone, since, granted>>

Tick ==
  /\ now < MaxTime
  /\ now' = now + 1
  /\ UNCHANGED <<bucket, heard, wake, history>>

\* History only: the interval the grants are counted in begins again.
BeginInterval ==
  /\ since' = now /\ granted' = 0
  /\ UNCHANGED <<bucket, now, heard, wake, alone, promised>>

Next ==
  \/ Allow \/ Reserve
  \/ \E g \in Waiters :
       WaitOutPause(g) \/ WaitForToken(g) \/ WaitIsOver(g) \/ AbandonWait(g)
  \/ \E g \in Responders : HearRetryAfter(g) \/ SetRetryAfter(g)
  \/ Tick \/ BeginInterval

Spec == Init /\ [][Next]_vars

-----------------------------------------------------------------------------
(* Properties.                                                             *)

\* The type invariant.
TypeOK ==
  /\ tokens \in -(Rate * Second) .. Burst * Cost
  /\ now \in 0 .. MaxTime /\ lastRefill \in 0 .. now /\ since \in 0 .. now
  /\ retryAfterUntil \in Nat /\ promised \in Nat /\ granted \in Nat
  /\ heard \in [Responders -> Nat] /\ wake \in [Waiters -> Nat]
  /\ alone \subseteq Waiters

\* In any interval of time the client is granted a burst and what the interval
\* itself adds, and no more than a second of it in advance, whoever asks and
\* however.
RateIsKept ==
  granted * Cost <= Burst * Cost + Rate * (now - since) + Rate * Second

\* No token is granted before the latest time any response asked to wait for:
\* a pause that is over, a shorter one or one that is set late cancels none.
RetryAfterIsKept ==
  [][granted' = granted + 1 => now >= promised]_vars

\* A Wait that nobody overtakes sleeps once: when it looks again its token is
\* there.
WakesInTime ==
  \A g \in alone : tokens + Rate * (wake[g] - lastRefill) >= Cost
=============================================================================

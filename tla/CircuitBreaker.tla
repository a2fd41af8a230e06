--------------------------- MODULE CircuitBreaker ---------------------------
(***************************************************************************)
(* One scope's circuit breaker (go/pkg/hey/circuit_breaker.go) and the     *)
(* operations that ask it for leave and report back to it, at any time and *)
(* in any order: an operation admitted while the breaker was closed may    *)
(* report when it has opened, half-opened or closed again.                 *)
(*                                                                         *)
(* Every method holds mu from start to end and is one action.  The clock   *)
(* is kept as the time since the last failure, which is all Allow reads of *)
(* it, and stops counting at OpenTimeout.  The failure rate is a whole     *)
(* percentage, compared without the code's floating point.                 *)
(***************************************************************************)
EXTENDS Integers, FiniteSets, Sequences

CONSTANTS
  Operations,        \* the operations of the scope
  FailureThreshold,  \* config.FailureThreshold, and so on
  SuccessThreshold,
  OpenTimeout,       \* in ticks
  WindowSize,
  FailureRate        \* in percent

ASSUME ThresholdAssumption ==
  /\ FailureThreshold \in Nat \ {0} /\ SuccessThreshold \in Nat \ {0}
  /\ OpenTimeout \in Nat \ {0} /\ WindowSize \in Nat \ {0}
  /\ FailureRate \in 1 .. 100

VARIABLES
  state, failures, successes, window, windowIndex, windowFilled,
  age,      \* ticks since lastFailureTime, OpenTimeout at the most
  call,     \* the state each operation was admitted in, or "none"
  reported, \* history: the outcomes reported, newest last, no more than Depth
  heard     \* history: the reports made since the breaker last half-opened

window_     == <<window, windowIndex, windowFilled>>
history     == <<reported, heard>>
breakerVars == <<state, failures, successes, window_, age, call, history>>

State == {"closed", "open", "halfOpen"}

\* Bound: no decision looks further back than the longer of the two.
Depth == IF WindowSize > FailureThreshold THEN WindowSize ELSE FailureThreshold

\* newCircuitBreaker: the window starts full of FALSE, which is "failed".
BreakerInit ==
  /\ state = "closed" /\ failures = 0 /\ successes = 0
  /\ window = [i \in 0 .. WindowSize - 1 |-> FALSE]
  /\ windowIndex = 0 /\ windowFilled = FALSE
  /\ age = OpenTimeout
  /\ call = [o \in Operations |-> "none"]
  /\ reported = << >> /\ heard = 0

-----------------------------------------------------------------------------
(* Allow.                                                                  *)

\* Mutant: the timeout is over one tick early.
TimeoutEndsEarly == age >= OpenTimeout - 1

TimeoutIsOver == age >= OpenTimeout

\* Mutant: each probe let by starts the count of successes again.
AdmitAfresh(o) ==
  /\ call[o] = "none"
  /\ state # "open" \/ TimeoutIsOver
  /\ state' = IF state = "open" THEN "halfOpen" ELSE state
  /\ successes' = IF state = "closed" THEN successes ELSE 0
  /\ heard' = IF state = "open" THEN 0 ELSE heard
  /\ call' = [call EXCEPT ![o] = state']
  /\ UNCHANGED <<failures, window_, age, reported>>

Admit(o) ==
  /\ call[o] = "none"
  /\ state # "open" \/ TimeoutIsOver
  /\ state' = IF state = "open" THEN "halfOpen" ELSE state
  /\ successes' = IF state = "open" THEN 0 ELSE successes
  /\ heard' = IF state = "open" THEN 0 ELSE heard
  /\ call' = [call EXCEPT ![o] = state']
  /\ UNCHANGED <<failures, window_, age, reported>>

\* Mutant: a refusal counts as a failure would.
RefuseExtends(o) ==
  /\ call[o] = "none"
  /\ state = "open" /\ ~TimeoutIsOver
  /\ age' = 0
  /\ UNCHANGED <<state, failures, successes, window_, call, history>>

\* ErrCircuitOpen: the operation is over before it starts.
Refuse(o) ==
  /\ call[o] = "none"
  /\ state = "open" /\ ~TimeoutIsOver
  /\ UNCHANGED breakerVars

-----------------------------------------------------------------------------
(* RecordSuccess and RecordFailure.                                        *)

\* Mutant: the window is full one slot early.
RecordShort(success) ==
  /\ window' = [window EXCEPT ![windowIndex] = success]
  /\ windowIndex' = (windowIndex + 1) % WindowSize
  /\ windowFilled' = (windowFilled \/ windowIndex' = WindowSize - 1)

RecordInWindow(success) ==
  /\ window' = [window EXCEPT ![windowIndex] = success]
  /\ windowIndex' = (windowIndex + 1) % WindowSize
  /\ windowFilled' = (windowFilled \/ windowIndex' = 0)

\* checkFailureRate, of the window as the failure just recorded left it.
FailureRateReached ==
  /\ windowFilled'
  /\ Cardinality({i \in DOMAIN window' : ~window'[i]}) * 100
       >= FailureRate * WindowSize

Record(o, success) ==
  /\ call' = [call EXCEPT ![o] = "none"]
  /\ RecordInWindow(success)
  /\ LET all == Append(reported, success)
     IN  reported' = IF Len(all) > Depth THEN Tail(all) ELSE all
  /\ heard' = IF state = "halfOpen" THEN heard + 1 ELSE 0

RecordSuccess(o) ==
  \/ /\ state = "closed"
     /\ Record(o, TRUE)
     /\ failures' = 0
     /\ UNCHANGED <<state, successes, age>>
  \/ /\ state = "halfOpen"
     /\ Record(o, TRUE)
     /\ IF successes + 1 >= SuccessThreshold
          THEN state' = "closed" /\ failures' = 0 /\ successes' = 0
          ELSE successes' = successes + 1 /\ UNCHANGED <<state, failures>>
     /\ UNCHANGED age
  \/ /\ state = "open"
     /\ Record(o, TRUE)
     /\ UNCHANGED <<state, failures, successes, age>>

\* Mutant: one failure more than the threshold.
TripsLate == failures' > FailureThreshold \/ FailureRateReached

Trips == failures' >= FailureThreshold \/ FailureRateReached

RecordFailure(o) ==
  /\ Record(o, FALSE)
  /\ age' = 0
  /\ \/ /\ state = "closed"
        /\ failures' = failures + 1
        /\ state' = IF Trips THEN "open" ELSE "closed"
        /\ UNCHANGED successes
     \/ /\ state = "halfOpen"
        /\ state' = "open" /\ successes' = 0
        /\ UNCHANGED failures
     \/ /\ state = "open"
        /\ UNCHANGED <<state, failures, successes>>

\* The operation ends and says nothing: an error that is no fault of the
\* server's, or a gate behind the breaker that refused it.
SayNothing(o) ==
  /\ call' = [call EXCEPT ![o] = "none"]
  /\ UNCHANGED <<state, failures, successes, window_, age, history>>

BreakerTick ==
  /\ age < OpenTimeout
  /\ age' = age + 1
  /\ UNCHANGED <<state, failures, successes, window_, call, history>>

-----------------------------------------------------------------------------
(* Properties.                                                             *)

\* The type invariant.
BreakerTypeOK ==
  /\ state \in State
  /\ failures \in 0 .. FailureThreshold
  /\ successes \in 0 .. SuccessThreshold - 1
  /\ window \in [0 .. WindowSize - 1 -> BOOLEAN]
  /\ windowIndex \in 0 .. WindowSize - 1 /\ windowFilled \in BOOLEAN
  /\ age \in 0 .. OpenTimeout
  /\ call \in [Operations -> State \cup {"none"}]
  /\ reported \in Seq(BOOLEAN) /\ Len(reported) <= Depth
  /\ heard \in 0 .. SuccessThreshold

\* The outcomes the failure rate is taken over, by the reports themselves.
Latest(s) == SubSeq(s, Len(s) - WindowSize + 1, Len(s))

RateOf(s) == Cardinality({i \in DOMAIN s : ~s[i]}) * 100

\* The breaker's own rule, by the reports: FailureThreshold failures in a row,
\* or a full window whose failures reach the rate.
Unhealthy(s) ==
  \/ /\ Len(s) >= FailureThreshold
     /\ \A i \in Len(s) - FailureThreshold + 1 .. Len(s) : ~s[i]
  \/ /\ Len(s) >= WindowSize
     /\ RateOf(Latest(s)) >= FailureRate * WindowSize

\* The counters and the ring decide as the whole history of reports would: a
\* closed breaker opens on a failure that makes the history unhealthy, and on
\* no other report, whatever opened and closed it before.
OpensOnUnhealthyHistory ==
  [][state = "closed" /\ reported' # reported =>
       (state' = "open") <=> (~reported'[Len(reported')] /\ Unhealthy(reported'))]_breakerVars

\* A half-open breaker has heard of no failure for OpenTimeout: it opened up
\* that late, and a failure that anyone reports, operations admitted before it
\* opened included, is never ignored while it is half-open.
HalfOpenIsQuiet == state = "halfOpen" => age = OpenTimeout

\* A breaker that has opened closes on the report that makes SuccessThreshold
\* since it half-opened, none of them a failure, and on no other step: however
\* many probes are let by in between, and whether a report is a probe's or that
\* of an operation let by before the breaker opened.  Successes heard while it
\* was open, or when it was half-open before, count for nothing.
ClosesWhenProven ==
  [][state # "closed" =>
       (state' = "closed") <=> ( /\ state = "halfOpen"
                                 /\ heard' = SuccessThreshold
                                 /\ reported'[Len(reported')] )]_breakerVars
=============================================================================

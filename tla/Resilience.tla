----------------------------- MODULE Resilience -----------------------------
(***************************************************************************)
(* The gate every operation of one scope goes through, and the report it   *)
(* makes when it ends (go/pkg/hey/resilience.go, helpers.go instrument):   *)
(* the circuit breaker, then the bulkhead (bulkhead.go), then the rate     *)
(* limiter, each able to refuse after the ones before it let it by.        *)
(*                                                                         *)
(* The rate limiter is the client's, not the scope's, so what it answers   *)
(* here is any answer; RateLimiter is the module about it.                 *)
(***************************************************************************)
EXTENDS CircuitBreaker

CONSTANTS
  MaxConcurrent,  \* bulkhead slots
  OptionLists,    \* the options clients are made with, first to last
  MaxLost         \* bound: the operations whose start hook may panic

\* What an option's hooks hold: all three with WithResilience, one with each of
\* the others.
Layers == {"breaker", "bulkhead", "limiter"}

ASSUME GateAssumption ==
  /\ MaxConcurrent \in Nat \ {0} /\ MaxLost \in Nat
  /\ \A l \in OptionLists : l # << >> /\ l \in Seq(SUBSET Layers)

VARIABLES
  options,  \* the client's own list
  patient,  \* MaxWait > 0
  pc,     \* where each operation's goroutine stands
  slots,  \* len(sem)
  lost    \* releases left in pendingReleases that nobody will look up

config   == <<options, patient>>
gateVars == <<config, pc, slots, lost>>
vars     == <<breakerVars, gateVars>>

\* "limiting" and "starting" hold a pending release, "running" an active one.
PC == {"idle", "acquiring", "limiting", "starting", "running", "reporting"}

\* Each option wraps the hooks of those before it.  All of them hear how an
\* operation ended; instrument asks the outermost alone for leave.
Configured == UNION {options[i] : i \in DOMAIN options}
Gating     == options[Len(options)]

Init ==
  /\ BreakerInit
  /\ options \in OptionLists /\ patient \in BOOLEAN
  /\ pc = [o \in Operations |-> "idle"]
  /\ slots = 0 /\ lost = 0

Moves(o, to) == pc' = [pc EXCEPT ![o] = to]

\* A release is called once for each acquire: the bulkhead is asked only when
\* it gates.
Release == slots' = IF "bulkhead" \in Gating THEN slots - 1 ELSE slots

-----------------------------------------------------------------------------
(* OnOperationGate.                                                        *)

AskBreaker(o) ==
  /\ pc[o] = "idle"
  /\ \/ "breaker" \in Gating /\ Admit(o)
     \/ "breaker" \notin Gating /\ UNCHANGED breakerVars
  /\ Moves(o, "acquiring")
  /\ UNCHANGED <<config, slots, lost>>

BreakerRefuses(o) ==
  /\ pc[o] = "idle"
  /\ "breaker" \in Gating
  /\ Refuse(o)
  /\ UNCHANGED gateVars

\* Mutant: the semaphore has room for one more.
AcquireOneMore(o) ==
  /\ pc[o] = "acquiring"
  /\ slots <= MaxConcurrent /\ slots' = slots + 1
  /\ Moves(o, "limiting")
  /\ UNCHANGED <<config, breakerVars, lost>>

\* Acquire gets a slot, and its release is stored as pending.
AcquireSlot(o) ==
  /\ pc[o] = "acquiring"
  /\ \/ "bulkhead" \in Gating /\ slots < MaxConcurrent /\ slots' = slots + 1
     \/ "bulkhead" \notin Gating /\ UNCHANGED slots
  /\ Moves(o, "limiting")
  /\ UNCHANGED <<config, breakerVars, lost>>

\* MaxWait or the context runs out, in a race with a slot that comes free; a
\* bulkhead that does not wait refuses only when it is full.
SlotRefused(o) ==
  /\ pc[o] = "acquiring"
  /\ "bulkhead" \in Gating
  /\ patient \/ slots = MaxConcurrent
  /\ Moves(o, "idle")
  /\ SayNothing(o)
  /\ UNCHANGED <<config, slots, lost>>

LimiterAllows(o) ==
  /\ pc[o] = "limiting"
  /\ Moves(o, "starting")
  /\ UNCHANGED <<config, breakerVars, slots, lost>>

\* Mutant: the slot is not given back.
LimiterRefusesAndKeeps(o) ==
  /\ pc[o] = "limiting"
  /\ "limiter" \in Gating
  /\ Moves(o, "idle")
  /\ SayNothing(o)
  /\ UNCHANGED <<config, slots, lost>>

LimiterRefuses(o) ==
  /\ pc[o] = "limiting"
  /\ "limiter" \in Gating
  /\ Release
  /\ Moves(o, "idle")
  /\ SayNothing(o)
  /\ UNCHANGED <<config, lost>>

-----------------------------------------------------------------------------
(* OnOperationStart, and the operation itself.                             *)

\* The pending release becomes the active one.
Start(o) ==
  /\ pc[o] = "starting"
  /\ Moves(o, "running")
  /\ UNCHANGED <<config, breakerVars, slots, lost>>

\* The caller's own start hook panics before that, and before the deferred
\* OnOperationEnd is set up: the release stays pending for good.
StartPanics(o) ==
  /\ pc[o] = "starting"
  /\ "bulkhead" \in Gating => lost < MaxLost
  /\ lost' = IF "bulkhead" \in Gating THEN lost + 1 ELSE lost
  /\ Moves(o, "idle")
  /\ SayNothing(o)
  /\ UNCHANGED <<config, slots>>

-----------------------------------------------------------------------------
(* OnOperationEnd: the slot first, then the breaker.                       *)

EndOperation(o) ==
  /\ pc[o] = "running"
  /\ Release
  /\ Moves(o, "reporting")
  /\ UNCHANGED <<config, breakerVars, lost>>

\* err = nil, which is also what the deferred call sees of a panic.
ReportSuccess(o) == RecordSuccess(o)

\* shouldTripCircuit: a network error, a 5xx, an error that is not the SDK's.
ReportFailure(o) == RecordFailure(o)

\* A cancelled or expired context, a 4xx.
ReportNothing(o) == SayNothing(o)

Report(o) ==
  /\ pc[o] = "reporting"
  /\ IF "breaker" \in Configured
       THEN ReportSuccess(o) \/ ReportFailure(o) \/ ReportNothing(o)
       ELSE UNCHANGED breakerVars
  /\ Moves(o, "idle")
  /\ UNCHANGED <<config, slots, lost>>

Tick == BreakerTick /\ UNCHANGED gateVars

Next ==
  \/ \E o \in Operations :
       \/ AskBreaker(o) \/ BreakerRefuses(o)
       \/ AcquireSlot(o) \/ SlotRefused(o)
       \/ LimiterAllows(o) \/ LimiterRefuses(o)
       \/ Start(o) \/ StartPanics(o)
       \/ EndOperation(o) \/ Report(o)
  \/ Tick

Spec == Init /\ [][Next]_vars

\* Time passes.  No operation need ever be tried, or end.
FairSpec == Spec /\ WF_vars(Tick)

-----------------------------------------------------------------------------
(* Properties.                                                             *)

\* The type invariant.
TypeOK ==
  /\ BreakerTypeOK
  /\ options \in OptionLists /\ patient \in BOOLEAN
  /\ pc \in [Operations -> PC]
  /\ slots \in 0 .. MaxConcurrent
  /\ lost \in 0 .. MaxLost

Holding == {o \in Operations : pc[o] \in {"limiting", "starting", "running"}}

\* A slot is taken for each operation between its acquire and its end, and for
\* nothing else but the start hooks that panicked: whichever gate refuses, and
\* whatever the order operations start and end in, none is lost or returned
\* twice, so that no more operations run at once than there are slots.
SlotsAreHeld ==
  "bulkhead" \in Gating => slots = Cardinality(Holding) + lost

\* An open breaker that gates lets a probe through in the end: the failures of
\* operations admitted earlier put that off, but there are only so many of them.
OpenEndsInProbe ==
  state = "open" /\ "breaker" \in Gating ~> state # "open" \/ TimeoutIsOver
=============================================================================

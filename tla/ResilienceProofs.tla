-------------------------- MODULE ResilienceProofs ---------------------------
(***************************************************************************)
(* Theorems about the gate of one scope, Resilience over CircuitBreaker,   *)
(* for any operations, thresholds, slots and stacks of options.  The       *)
(* operations need not be finitely many: those that hold a slot are.       *)
(***************************************************************************)
EXTENDS Resilience, FiniteSetTheorems, SequenceTheorems, TLAPS

USE ThresholdAssumption, GateAssumption

\* The history kept is no shorter than either of the breaker's counts needs.
LEMMA DepthIsEnough ==
  Depth \in Nat \ {0} /\ Depth >= WindowSize /\ Depth >= FailureThreshold
  BY DEF Depth

\* A report is added to the history, which drops its oldest.
LEMMA HistoryKeepsType ==
  ASSUME NEW s \in Seq(BOOLEAN), Len(s) <= Depth, NEW b \in BOOLEAN
  PROVE  LET all  == Append(s, b)
             kept == IF Len(all) > Depth THEN Tail(all) ELSE all
         IN  kept \in Seq(BOOLEAN) /\ Len(kept) <= Depth
<1> DEFINE all == Append(s, b)
           kept == IF Len(all) > Depth THEN Tail(all) ELSE all
<1> SUFFICES kept \in Seq(BOOLEAN) /\ Len(kept) <= Depth
  OBVIOUS
<1>1. all \in Seq(BOOLEAN) /\ Len(all) = Len(s) + 1 /\ all # << >>
  BY AppendProperties
<1>2. Tail(all) \in Seq(BOOLEAN) /\ Len(Tail(all)) = Len(s)
  BY <1>1, HeadTailProperties
<1> HIDE DEF all
<1>3. CASE Len(all) > Depth
  BY <1>2, <1>3
<1>4. CASE ~(Len(all) > Depth)
  BY <1>1, <1>4, DepthIsEnough
<1>q. QED
  BY <1>3, <1>4

-----------------------------------------------------------------------------
\* The counters of the breaker: a closed one is below its threshold, and the
\* successes of a half-open one are the reports made since it half-opened.
BreakerCounts ==
  /\ BreakerTypeOK
  /\ state = "closed" => failures < FailureThreshold
  /\ state = "halfOpen" => successes = heard

\* What an operation tells the breaker at its end.
Reports(o) == RecordSuccess(o) \/ RecordFailure(o)

\* One step of the breaker, whichever part of the gate takes it.
BreakerStep ==
  \/ \E o \in Operations : Admit(o) \/ Reports(o) \/ SayNothing(o)
  \/ BreakerTick
  \/ UNCHANGED breakerVars

\* Whichever part of the gate steps, the breaker takes one of its own steps or none.
LEMMA GateStepsBreaker == ASSUME [Next]_vars PROVE BreakerStep
<1>1. ASSUME NEW o \in Operations, AskBreaker(o) \/ BreakerRefuses(o)
      PROVE  BreakerStep
  BY <1>1 DEF AskBreaker, BreakerRefuses, Refuse, BreakerStep
<1>2. ASSUME NEW o \in Operations,
             AcquireSlot(o) \/ SlotRefused(o) \/ LimiterAllows(o)
      PROVE  BreakerStep
  BY <1>2 DEF AcquireSlot, SlotRefused, LimiterAllows, BreakerStep
<1>3. ASSUME NEW o \in Operations,
             LimiterRefuses(o) \/ Start(o) \/ StartPanics(o) \/ EndOperation(o)
      PROVE  BreakerStep
  BY <1>3 DEF LimiterRefuses, Start, StartPanics, EndOperation, BreakerStep
<1>4. ASSUME NEW o \in Operations, Report(o) PROVE BreakerStep
  BY <1>4 DEF Report, ReportSuccess, ReportFailure, ReportNothing, BreakerStep,
    Reports
<1>5. CASE Tick \/ UNCHANGED vars
  BY <1>5 DEF Tick, vars, BreakerStep
<1>q. QED
  BY <1>1, <1>2, <1>3, <1>4, <1>5 DEF Next

\* Recording an outcome keeps the types of what it writes.
LEMMA RecordKeepsType ==
  ASSUME BreakerCounts, NEW o \in Operations, NEW b \in BOOLEAN, Record(o, b)
  PROVE  /\ window' \in [0 .. WindowSize - 1 -> BOOLEAN]
         /\ windowIndex' \in 0 .. WindowSize - 1 /\ windowFilled' \in BOOLEAN
         /\ call' \in [Operations -> State \cup {"none"}]
         /\ reported' \in Seq(BOOLEAN) /\ Len(reported') <= Depth
         /\ heard' \in 0 .. SuccessThreshold
<1> USE DEF BreakerCounts
<1>1. window' \in [0 .. WindowSize - 1 -> BOOLEAN]
  BY DEF Record, RecordInWindow, BreakerTypeOK
<1>2. windowIndex' \in 0 .. WindowSize - 1
  BY DEF Record, RecordInWindow, BreakerTypeOK
<1>3. windowFilled' \in BOOLEAN
  BY DEF Record, RecordInWindow, BreakerTypeOK
<1>4. call' \in [Operations -> State \cup {"none"}]
  BY DEF Record, BreakerTypeOK
<1>5. reported' \in Seq(BOOLEAN) /\ Len(reported') <= Depth
  BY HistoryKeepsType DEF Record, BreakerTypeOK
<1>6. heard' \in 0 .. SuccessThreshold
  BY DEF Record, BreakerTypeOK
<1>q. QED
  BY <1>1, <1>2, <1>3, <1>4, <1>5, <1>6

\* The breaker's counts hold in every state.
LEMMA BreakerCounted == Spec => []BreakerCounts
<1>1. Init => BreakerCounts
  <2> SUFFICES ASSUME Init PROVE BreakerCounts
    OBVIOUS
  <2> USE DEF Init, BreakerInit
  <2>1. state \in State /\ call \in [Operations -> State \cup {"none"}]
    BY DEF State
  <2>2. /\ failures \in 0 .. FailureThreshold
        /\ successes \in 0 .. SuccessThreshold - 1
        /\ windowIndex \in 0 .. WindowSize - 1 /\ age \in 0 .. OpenTimeout
        /\ failures < FailureThreshold /\ heard \in 0 .. SuccessThreshold
    OBVIOUS
  <2>3. /\ window \in [0 .. WindowSize - 1 -> BOOLEAN]
        /\ windowFilled \in BOOLEAN
    BY Zenon
  <2>4. reported \in Seq(BOOLEAN) /\ Len(reported) <= Depth
    BY EmptySeq, DepthIsEnough
  <2>q. QED
    BY <2>1, <2>2, <2>3, <2>4 DEF BreakerCounts, BreakerTypeOK
<1>2. BreakerCounts /\ [Next]_vars => BreakerCounts'
  <2> SUFFICES ASSUME BreakerCounts, BreakerStep PROVE BreakerCounts'
    BY GateStepsBreaker
  <2> USE DEF BreakerCounts
  <2>1. ASSUME NEW o \in Operations, Admit(o) PROVE BreakerCounts'
    BY <2>1 DEF Admit, BreakerTypeOK, State, window_, history
  <2>2. ASSUME NEW o \in Operations, RecordSuccess(o) PROVE BreakerCounts'
    <3>1. Record(o, TRUE) /\ age' = age
      BY <2>2 DEF RecordSuccess
    <3>2. /\ state' \in State /\ failures' \in 0 .. FailureThreshold
          /\ successes' \in 0 .. SuccessThreshold - 1
          /\ state' = "closed" => failures' < FailureThreshold
          /\ state' = "halfOpen" => successes' = heard'
      BY <2>2 DEF RecordSuccess, Record, BreakerTypeOK, State
    <3>q. QED
      BY <3>1, <3>2, RecordKeepsType DEF BreakerTypeOK
  <2>3. ASSUME NEW o \in Operations, RecordFailure(o) PROVE BreakerCounts'
    <3>0. Record(o, FALSE) /\ age' = 0
      BY <2>3 DEF RecordFailure
    <3>1. age' \in 0 .. OpenTimeout
      BY <3>0
    <3>2. /\ state' \in State /\ failures' \in 0 .. FailureThreshold
          /\ successes' \in 0 .. SuccessThreshold - 1
          /\ state' = "closed" => failures' < FailureThreshold
          /\ state' # "halfOpen"
      <4>1. CASE state = "closed"
        <5>1. /\ failures' = failures + 1 /\ successes' = successes
              /\ state' = IF Trips THEN "open" ELSE "closed"
          BY <2>3, <4>1 DEF RecordFailure
        <5>2. failures' \in 0 .. FailureThreshold
          BY <4>1, <5>1 DEF BreakerTypeOK
        <5>3. ~Trips => failures' < FailureThreshold
          BY <5>2 DEF Trips
        <5>q. QED
          BY <5>1, <5>2, <5>3 DEF BreakerTypeOK, State
      <4>2. CASE state # "closed"
        BY <2>3, <4>2 DEF RecordFailure, BreakerTypeOK, State
      <4>q. QED
        BY <4>1, <4>2
    <3>q. QED
      BY <3>0, <3>1, <3>2, RecordKeepsType, FALSE \in BOOLEAN DEF BreakerTypeOK
  <2>4. ASSUME NEW o \in Operations, SayNothing(o) PROVE BreakerCounts'
    BY <2>4 DEF SayNothing, BreakerTypeOK, window_, history
  <2>5. CASE BreakerTick
    BY <2>5 DEF BreakerTick, BreakerTypeOK, window_, history
  <2>6. CASE UNCHANGED breakerVars
    BY <2>6 DEF breakerVars, BreakerTypeOK, window_, history
  <2>q. QED
    BY <2>1, <2>2, <2>3, <2>4, <2>5, <2>6 DEF BreakerStep, Reports
<1>q. QED
  BY <1>1, <1>2, PTL DEF Spec

\* A half-open breaker has heard of no failure since its timeout was over: a
\* failure reopens it, whoever reports it and however long ago it was let by.
THEOREM HalfOpenQuiet == Spec => []HalfOpenIsQuiet
<1>1. Init => HalfOpenIsQuiet
  BY DEF Init, BreakerInit, HalfOpenIsQuiet
<1>2. BreakerCounts /\ HalfOpenIsQuiet /\ [Next]_vars => HalfOpenIsQuiet'
  <2> SUFFICES ASSUME BreakerCounts, HalfOpenIsQuiet, BreakerStep
               PROVE  HalfOpenIsQuiet'
    BY GateStepsBreaker
  <2> USE DEF HalfOpenIsQuiet, BreakerCounts, BreakerTypeOK
  <2>1. ASSUME NEW o \in Operations, Admit(o) PROVE HalfOpenIsQuiet'
    BY <2>1 DEF Admit, TimeoutIsOver
  <2>2. ASSUME NEW o \in Operations, RecordSuccess(o) PROVE HalfOpenIsQuiet'
    BY <2>2 DEF RecordSuccess
  <2>3. ASSUME NEW o \in Operations, RecordFailure(o) PROVE HalfOpenIsQuiet'
    BY <2>3 DEF RecordFailure
  <2>4. ASSUME NEW o \in Operations, SayNothing(o) PROVE HalfOpenIsQuiet'
    BY <2>4 DEF SayNothing
  <2>5. CASE BreakerTick
    BY <2>5 DEF BreakerTick
  <2>6. CASE UNCHANGED breakerVars
    BY <2>6 DEF breakerVars
  <2>q. QED
    BY <2>1, <2>2, <2>3, <2>4, <2>5, <2>6 DEF BreakerStep, Reports
<1>q. QED
  BY <1>1, <1>2, BreakerCounted, PTL DEF Spec

-----------------------------------------------------------------------------
\* What a slot is taken for.
HeldSlots ==
  /\ TypeOK
  /\ IsFiniteSet(Holding)
  /\ SlotsAreHeld

\* An operation that starts or stops holding a slot changes their number by one.
LEMMA OneMoreHolds ==
  ASSUME IsFiniteSet(Holding), NEW o \in Operations,
         o \notin Holding, Holding' = Holding \cup {o}
  PROVE  IsFiniteSet(Holding') /\ Cardinality(Holding') = Cardinality(Holding) + 1
  BY FS_AddElement

\* A slot given back is one holder less.
LEMMA OneLessHolds ==
  ASSUME IsFiniteSet(Holding), NEW o \in Operations,
         o \in Holding, Holding' = Holding \ {o}
  PROVE  /\ IsFiniteSet(Holding')
         /\ Cardinality(Holding') = Cardinality(Holding) - 1
         /\ Cardinality(Holding') \in Nat
  BY FS_RemoveElement, FS_CardinalityType

\* A move of one operation, by where it goes.
LEMMA MovesHolding ==
  ASSUME TypeOK, NEW o \in Operations, NEW to \in PC, Moves(o, to)
  PROVE  /\ pc' \in [Operations -> PC]
         /\ to \in {"limiting", "starting", "running"}
              => Holding' = Holding \cup {o}
         /\ to \notin {"limiting", "starting", "running"}
              => Holding' = Holding \ {o}
<1>1. /\ pc' = [pc EXCEPT ![o] = to] /\ pc \in [Operations -> PC]
  BY DEF Moves, TypeOK
<1>2. /\ pc'[o] = to /\ \A p \in Operations \ {o} : pc'[p] = pc[p]
  BY <1>1
<1>q. QED
  BY <1>1, <1>2 DEF Holding

\* The slots taken are the holders', whatever ends an operation.
LEMMA SlotsHeld == Spec => []HeldSlots
<1>1. BreakerCounts /\ Init => HeldSlots
  <2> SUFFICES ASSUME BreakerCounts, Init PROVE HeldSlots
    OBVIOUS
  <2>1. Holding = {}
    BY DEF Init, Holding
  <2>2. IsFiniteSet(Holding) /\ Cardinality(Holding) = 0
    BY <2>1, FS_EmptySet
  <2>3. TypeOK
    BY DEF Init, TypeOK, BreakerCounts, PC
  <2>q. QED
    BY <2>2, <2>3 DEF HeldSlots, SlotsAreHeld, Init
<1>2. HeldSlots /\ BreakerCounts' /\ [Next]_vars => HeldSlots'
  <2> SUFFICES ASSUME HeldSlots, BreakerCounts', [Next]_vars PROVE HeldSlots'
    OBVIOUS
  <2>1. /\ TypeOK /\ IsFiniteSet(Holding) /\ Cardinality(Holding) \in Nat
        /\ lost \in 0 .. MaxLost /\ slots \in 0 .. MaxConcurrent
        /\ "bulkhead" \in Gating => slots = Cardinality(Holding) + lost
    BY FS_CardinalityType DEF HeldSlots, SlotsAreHeld, TypeOK
  <2>2. UNCHANGED config
    BY DEF Next, AskBreaker, BreakerRefuses, AcquireSlot, SlotRefused,
      LimiterAllows, LimiterRefuses, Start, StartPanics, EndOperation, Report,
      Tick, vars, gateVars
  <2>3. Gating' = Gating /\ options' \in OptionLists /\ patient' \in BOOLEAN
    BY <2>1, <2>2 DEF Gating, config, TypeOK
  \* It is enough to show what a step does to the slots and who holds them.
  <2>4. ASSUME pc' \in [Operations -> PC], slots' \in 0 .. MaxConcurrent,
               lost' \in 0 .. MaxLost, IsFiniteSet(Holding'),
               "bulkhead" \in Gating => slots' = Cardinality(Holding') + lost'
        PROVE  HeldSlots'
    BY <2>3, <2>4 DEF HeldSlots, SlotsAreHeld, TypeOK, BreakerCounts
  <2>5. ASSUME pc' \in [Operations -> PC], Holding' = Holding,
               UNCHANGED <<slots, lost>>
        PROVE  HeldSlots'
    BY <2>1, <2>4, <2>5
  <2>6. ASSUME NEW o \in Operations, o \in Holding, Release, lost' = lost,
               pc' \in [Operations -> PC], Holding' = Holding \ {o}
        PROVE  HeldSlots'
    <3>1. /\ IsFiniteSet(Holding') /\ Cardinality(Holding') \in Nat
          /\ Cardinality(Holding') = Cardinality(Holding) - 1
      BY <2>1, <2>6, OneLessHolds
    <3>2. slots' = IF "bulkhead" \in Gating THEN slots - 1 ELSE slots
      BY <2>6 DEF Release
    <3>3. slots' \in 0 .. MaxConcurrent
      BY <2>1, <3>1, <3>2
    <3>q. QED
      BY <2>1, <2>4, <2>6, <3>1, <3>2, <3>3
  <2>7. ASSUME NEW o \in Operations, AskBreaker(o) PROVE HeldSlots'
    <3>1. pc' \in [Operations -> PC] /\ Holding' = Holding \ {o} /\ o \notin Holding
      BY <2>1, <2>7, MovesHolding DEF AskBreaker, PC, Holding
    <3>2. Holding' = Holding
      BY <3>1
    <3>q. QED
      BY <2>5, <2>7, <3>1, <3>2 DEF AskBreaker
  <2>8. ASSUME NEW o \in Operations, BreakerRefuses(o) PROVE HeldSlots'
    BY <2>1, <2>5, <2>8 DEF BreakerRefuses, gateVars, Holding, TypeOK
  <2>9. ASSUME NEW o \in Operations, AcquireSlot(o) PROVE HeldSlots'
    <3>1. /\ pc' \in [Operations -> PC] /\ Holding' = Holding \cup {o}
          /\ o \notin Holding
      BY <2>1, <2>9, MovesHolding DEF AcquireSlot, PC, Holding
    <3>2. /\ IsFiniteSet(Holding')
          /\ Cardinality(Holding') = Cardinality(Holding) + 1
      BY <2>1, <3>1, OneMoreHolds
    <3>3. /\ lost' = lost /\ slots' \in 0 .. MaxConcurrent
          /\ "bulkhead" \in Gating => slots' = slots + 1
      BY <2>1, <2>9 DEF AcquireSlot
    <3>q. QED
      BY <2>1, <2>4, <3>1, <3>2, <3>3
  <2>10. ASSUME NEW o \in Operations, SlotRefused(o) PROVE HeldSlots'
    <3>1. pc' \in [Operations -> PC] /\ Holding' = Holding \ {o} /\ o \notin Holding
      BY <2>1, <2>10, MovesHolding DEF SlotRefused, PC, Holding
    <3>2. Holding' = Holding
      BY <3>1
    <3>q. QED
      BY <2>5, <2>10, <3>1, <3>2 DEF SlotRefused
  <2>11. ASSUME NEW o \in Operations, LimiterAllows(o) \/ Start(o)
         PROVE  HeldSlots'
    <3>1. pc' \in [Operations -> PC] /\ Holding' = Holding \cup {o} /\ o \in Holding
      BY <2>1, <2>11, MovesHolding DEF LimiterAllows, Start, PC, Holding
    <3>2. Holding' = Holding
      BY <3>1
    <3>q. QED
      BY <2>5, <2>11, <3>1, <3>2 DEF LimiterAllows, Start
  <2>12. ASSUME NEW o \in Operations, LimiterRefuses(o) \/ EndOperation(o)
         PROVE  HeldSlots'
    <3>1. pc' \in [Operations -> PC] /\ Holding' = Holding \ {o} /\ o \in Holding
      BY <2>1, <2>12, MovesHolding DEF LimiterRefuses, EndOperation, PC, Holding
    <3>q. QED
      BY <2>6, <2>12, <3>1 DEF LimiterRefuses, EndOperation
  <2>13. ASSUME NEW o \in Operations, StartPanics(o) PROVE HeldSlots'
    <3>1. pc' \in [Operations -> PC] /\ Holding' = Holding \ {o} /\ o \in Holding
      BY <2>1, <2>13, MovesHolding DEF StartPanics, PC, Holding
    <3>2. /\ IsFiniteSet(Holding') /\ Cardinality(Holding') \in Nat
          /\ Cardinality(Holding') = Cardinality(Holding) - 1
      BY <2>1, <3>1, OneLessHolds
    <3>3. /\ slots' = slots /\ lost' \in 0 .. MaxLost
          /\ "bulkhead" \in Gating => lost' = lost + 1
      BY <2>1, <2>13 DEF StartPanics
    <3>q. QED
      BY <2>1, <2>4, <3>1, <3>2, <3>3
  <2>14. ASSUME NEW o \in Operations, Report(o) PROVE HeldSlots'
    <3>1. pc' \in [Operations -> PC] /\ Holding' = Holding \ {o} /\ o \notin Holding
      BY <2>1, <2>14, MovesHolding DEF Report, PC, Holding
    <3>2. Holding' = Holding
      BY <3>1
    <3>q. QED
      BY <2>5, <2>14, <3>1, <3>2 DEF Report
  <2>15. CASE Tick \/ UNCHANGED vars
    BY <2>1, <2>5, <2>15 DEF Tick, vars, gateVars, Holding, TypeOK
  <2>q. QED
    BY <2>7, <2>8, <2>9, <2>10, <2>11, <2>12, <2>13, <2>14, <2>15 DEF Next
<1>q. QED
  BY <1>1, <1>2, BreakerCounted, PTL DEF Spec

\* The variables of the gate and of the breaker keep their types, the slots in
\* use among them: no release is called that took none, and no acquire gets by
\* a full bulkhead.
THEOREM GateTypeCorrect == Spec => []TypeOK
  BY SlotsHeld, PTL DEF HeldSlots

\* Whichever gate refuses an operation and whoever else is at the gate, the
\* bulkhead's slots are the operations that hold one and those whose start hook
\* panicked.
THEOREM SlotsAreForHolders == Spec => []SlotsAreHeld
  BY SlotsHeld, PTL DEF HeldSlots

-----------------------------------------------------------------------------
\* Where the report that slot i of the window holds is in the history.
Place(i) ==
  IF i < windowIndex THEN Len(reported) - windowIndex + 1 + i
                     ELSE Len(reported) - WindowSize - windowIndex + 1 + i

\* The ring holds the latest reports, and is full when there are enough.
RingIsHistory ==
  /\ windowFilled <=> Len(reported) >= WindowSize
  /\ ~windowFilled => windowIndex = Len(reported)
  /\ \A i \in 0 .. WindowSize - 1 : Place(i) >= 1 => window[i] = reported[Place(i)]

\* The counter of a closed breaker is the number of failures since the latest
\* success.
FailuresAreCounted ==
  state = "closed" =>
    /\ failures <= Len(reported)
    /\ \A i \in Len(reported) - failures + 1 .. Len(reported) : ~reported[i]
    /\ failures < Len(reported) => reported[Len(reported) - failures]

\* The ring's next index.
LEMMA NextIndex ==
  ASSUME NEW i \in 0 .. WindowSize - 1
  PROVE  (i + 1) % WindowSize = IF i + 1 = WindowSize THEN 0 ELSE i + 1
  OBVIOUS

\* How many reports a record drops: the oldest, once there are Depth of them.
Drops == Len(reported) + 1 - Len(reported')

\* Recording a result appends it to the history, which drops its oldest.
LEMMA RecordAppends ==
  ASSUME BreakerTypeOK, NEW o \in Operations, NEW b \in BOOLEAN, Record(o, b)
  PROVE  /\ Drops = IF Len(reported) < Depth THEN 0 ELSE 1
         /\ Len(reported) \in Nat /\ Len(reported') \in Nat
         /\ Len(reported') <= Depth /\ reported'[Len(reported')] = b
         /\ \A k \in 1 .. Len(reported') - 1 : reported'[k] = reported[k + Drops]
<1> DEFINE all == Append(reported, b)
           n == Len(reported)
<1>1. reported \in Seq(BOOLEAN) /\ n \in Nat /\ n <= Depth
  BY DEF BreakerTypeOK
<1>2. /\ all \in Seq(BOOLEAN) /\ all # << >> /\ Len(all) = n + 1
      /\ all[n + 1] = b /\ \A k \in 1 .. n : all[k] = reported[k]
  BY <1>1, AppendProperties
<1>3. reported' = IF Len(all) > Depth THEN Tail(all) ELSE all
  BY DEF Record
<1>4. /\ Len(Tail(all)) = n /\ \A k \in 1 .. n : Tail(all)[k] = all[k + 1]
  BY <1>1, <1>2, HeadTailProperties
<1> HIDE DEF all
<1>5. CASE n < Depth
  <2>1. reported' = all
    BY <1>1, <1>2, <1>3, <1>5, DepthIsEnough
  <2>q. QED
    BY <1>1, <1>2, <1>5, <2>1, DepthIsEnough DEF Drops
<1>6. CASE ~(n < Depth)
  <2>1. reported' = Tail(all) /\ n = Depth
    BY <1>1, <1>2, <1>3, <1>6, DepthIsEnough
  <2>q. QED
    BY <1>1, <1>2, <1>4, <1>6, <2>1, DepthIsEnough DEF Drops
<1>q. QED
  BY <1>5, <1>6

\* The ring holds the history's last results after one more.
LEMMA RecordKeepsRing ==
  ASSUME BreakerTypeOK, RingIsHistory,
         NEW o \in Operations, NEW b \in BOOLEAN, Record(o, b)
  PROVE  RingIsHistory'
<1> DEFINE n == Len(reported)
           m == Len(reported')
<1>0. /\ reported'[m] = b
      /\ \A k \in 1 .. m - 1 : reported'[k] = reported[k + Drops]
  BY RecordAppends
<1>1. /\ n \in Nat /\ m \in Nat /\ n <= Depth /\ m <= Depth
      /\ \/ n < Depth /\ m = n + 1 /\ Drops = 0
         \/ n = Depth /\ m = n /\ Drops = 1
  <2>1. /\ n \in Nat /\ m \in Nat /\ n <= Depth /\ m <= Depth
        /\ Drops = (IF n < Depth THEN 0 ELSE 1)
    BY RecordAppends DEF BreakerTypeOK
  <2>2. Drops = n + 1 - m
    BY DEF Drops
  <2> HIDE DEF n, m
  <2>q. QED
    BY <2>1, <2>2, DepthIsEnough
<1>2. /\ windowIndex \in 0 .. WindowSize - 1 /\ windowFilled \in BOOLEAN
      /\ window \in [0 .. WindowSize - 1 -> BOOLEAN]
  BY DEF BreakerTypeOK
<1>3. /\ window' = [window EXCEPT ![windowIndex] = b]
      /\ windowFilled' <=> windowFilled \/ windowIndex' = 0
      /\ \/ windowIndex + 1 = WindowSize /\ windowIndex' = 0
         \/ windowIndex + 1 < WindowSize /\ windowIndex' = windowIndex + 1
  <2>1. /\ window' = [window EXCEPT ![windowIndex] = b]
        /\ windowIndex' = (windowIndex + 1) % WindowSize
        /\ windowFilled' = (windowFilled \/ windowIndex' = 0)
    BY DEF Record, RecordInWindow
  <2>2. windowIndex' = IF windowIndex + 1 = WindowSize THEN 0 ELSE windowIndex + 1
    BY <1>2, <2>1, NextIndex
  <2>3. windowFilled' <=> windowFilled \/ windowIndex' = 0
    BY <2>1
  <2>4. \/ windowIndex + 1 = WindowSize /\ windowIndex' = 0
        \/ windowIndex + 1 < WindowSize /\ windowIndex' = windowIndex + 1
    BY <1>2, <2>2
  <2>q. QED
    BY <2>1, <2>3, <2>4
<1>4. /\ windowFilled' <=> m >= WindowSize
      /\ ~windowFilled' => windowIndex' = m
  <2>1. /\ windowFilled <=> n >= WindowSize
        /\ ~windowFilled => windowIndex = n
    BY DEF RingIsHistory
  <2> HIDE DEF n, m
  <2>2. CASE windowFilled
    BY <1>1, <1>3, <2>1, <2>2, DepthIsEnough
  <2>3. CASE ~windowFilled
    BY <1>1, <1>2, <1>3, <2>1, <2>3, DepthIsEnough
  <2>q. QED
    BY <2>2, <2>3
<1>5. ASSUME NEW i \in 0 .. WindowSize - 1, Place(i)' >= 1
      PROVE  window'[i] = reported'[Place(i)']
  <2> HIDE DEF n, m
  <2>1. Place(i)' = IF i < windowIndex' THEN m - windowIndex' + 1 + i
                                        ELSE m - WindowSize - windowIndex' + 1 + i
    BY DEF Place, m
  <2>2. CASE i = windowIndex
    <3>1. Place(i)' = m
      BY <1>1, <1>2, <1>3, <2>1, <2>2
    <3>q. QED
      BY <1>0, <1>2, <1>3, <2>2, <3>1
  <2>3. CASE i # windowIndex
    <3>1. Place(i) = IF i < windowIndex THEN n - windowIndex + 1 + i
                                        ELSE n - WindowSize - windowIndex + 1 + i
      BY DEF Place, n
    <3>2. /\ Place(i)' \in Int /\ Place(i) = Place(i)' + Drops
          /\ Place(i)' <= m - 1
      <4>1. CASE windowIndex' = 0
        BY <1>1, <1>2, <1>3, <2>1, <2>3, <3>1, <4>1
      <4>2. CASE windowIndex' = windowIndex + 1
        BY <1>1, <1>2, <1>3, <2>1, <2>3, <3>1, <4>2
      <4>q. QED
        BY <1>3, <4>1, <4>2
    <3>3. window'[i] = window[i]
      BY <1>2, <1>3, <2>3
    <3>4. window[i] = reported[Place(i)]
      BY <1>1, <1>5, <3>2 DEF RingIsHistory
    <3>5. reported'[Place(i)'] = reported[Place(i)' + Drops]
      BY <1>0, <1>1, <1>5, <3>2
    <3>q. QED
      BY <3>2, <3>3, <3>4, <3>5
  <2>q. QED
    BY <2>2, <2>3
<1>q. QED
  BY <1>4, <1>5 DEF RingIsHistory

\* The ring holds the history's last results in every state.
LEMMA RingKept == Spec => []RingIsHistory
<1>1. Init => RingIsHistory
  <2> SUFFICES ASSUME Init PROVE RingIsHistory
    OBVIOUS
  <2>1. Len(reported) = 0 /\ windowIndex = 0 /\ windowFilled = FALSE
    BY DEF Init, BreakerInit
  <2>2. ASSUME NEW i \in 0 .. WindowSize - 1 PROVE ~(Place(i) >= 1)
    BY <2>1 DEF Place
  <2>q. QED
    BY <2>1, <2>2 DEF RingIsHistory
<1>2. BreakerCounts /\ RingIsHistory /\ [Next]_vars => RingIsHistory'
  <2> SUFFICES ASSUME BreakerCounts, RingIsHistory, BreakerStep
               PROVE  RingIsHistory'
    BY GateStepsBreaker
  <2>1. ASSUME NEW o \in Operations, NEW b \in BOOLEAN, Record(o, b)
        PROVE  RingIsHistory'
    BY <2>1, RecordKeepsRing DEF BreakerCounts
  <2>2. ASSUME NEW o \in Operations, Reports(o) PROVE RingIsHistory'
    BY <2>1, <2>2, TRUE \in BOOLEAN, FALSE \in BOOLEAN
      DEF Reports, RecordSuccess, RecordFailure
  <2>3. CASE UNCHANGED <<window_, reported>>
    BY <2>3 DEF window_, RingIsHistory, Place
  <2>q. QED
    BY <2>2, <2>3 DEF BreakerStep, Admit, SayNothing, BreakerTick, breakerVars,
      history
<1>q. QED
  BY <1>1, <1>2, BreakerCounted, PTL DEF Spec

\* The consecutive failures counted are those the history ends with.
LEMMA FailuresCounted == Spec => []FailuresAreCounted
<1>1. Init => FailuresAreCounted
  BY DEF Init, BreakerInit, FailuresAreCounted
<1>2. BreakerCounts /\ BreakerCounts' /\ FailuresAreCounted /\ [Next]_vars
        => FailuresAreCounted'
  <2> SUFFICES ASSUME BreakerCounts, BreakerCounts', FailuresAreCounted,
                      BreakerStep
               PROVE  FailuresAreCounted'
    BY GateStepsBreaker
  <2>1. ASSUME NEW o \in Operations, RecordSuccess(o), state' = "closed"
        PROVE  FailuresAreCounted'
    <3>1. Record(o, TRUE) /\ failures' = 0
      BY <2>1 DEF RecordSuccess
    <3>2. Len(reported') \in Nat /\ reported'[Len(reported')] = TRUE
      BY <3>1, RecordAppends, TRUE \in BOOLEAN DEF BreakerCounts
    <3>q. QED
      BY <3>1, <3>2 DEF FailuresAreCounted
  <2>2. ASSUME NEW o \in Operations, RecordFailure(o), state' = "closed"
        PROVE  FailuresAreCounted'
    <3> DEFINE n == Len(reported)
               m == Len(reported')
    <3>1. /\ Record(o, FALSE) /\ state = "closed" /\ failures' = failures + 1
      BY <2>2 DEF RecordFailure
    <3>2. /\ n \in Nat /\ m \in Nat /\ reported'[m] = FALSE /\ m <= Depth
          /\ Drops = (IF n < Depth THEN 0 ELSE 1)
          /\ \A k \in 1 .. m - 1 : reported'[k] = reported[k + Drops]
      BY <3>1, RecordAppends, FALSE \in BOOLEAN DEF BreakerCounts
    <3>3. Drops = n + 1 - m
      BY DEF Drops
    <3>4. /\ failures \in Nat /\ failures < FailureThreshold /\ n <= Depth
      BY <3>1 DEF BreakerCounts, BreakerTypeOK
    <3>5. /\ failures <= n
          /\ \A i \in n - failures + 1 .. n : ~reported[i]
          /\ failures < n => reported[n - failures]
      BY <3>1 DEF FailuresAreCounted
    <3> HIDE DEF n, m
    <3>6. /\ failures' <= m
          /\ m - failures' + 1 + Drops = n - failures + 1
      BY <3>1, <3>2, <3>3, <3>4, <3>5, DepthIsEnough
    <3>7. ASSUME NEW i \in m - failures' + 1 .. m PROVE ~reported'[i]
      <4>1. CASE i = m
        BY <3>2, <4>1
      <4>2. CASE i # m
        <5>1. /\ i \in 1 .. m - 1 /\ i + Drops \in n - failures + 1 .. n
          BY <3>1, <3>2, <3>3, <3>4, <3>6, <4>2
        <5>q. QED
          BY <3>2, <3>5, <5>1
      <4>q. QED
        BY <4>1, <4>2
    <3>8. ASSUME failures' < m PROVE reported'[m - failures']
      <4>1. /\ m - failures' \in 1 .. m - 1
            /\ (m - failures') + Drops = n - failures
        BY <3>1, <3>2, <3>3, <3>4, <3>6, <3>8
      <4>2. failures < n
        BY <3>1, <3>2, <3>3, <3>4, <3>8, <4>1
      <4>q. QED
        BY <3>2, <3>5, <4>1, <4>2
    <3>q. QED
      BY <3>6, <3>7, <3>8 DEF FailuresAreCounted, m
  <2>3. CASE UNCHANGED <<failures, reported>> /\ (state' = "closed" => state = "closed")
    BY <2>3 DEF FailuresAreCounted
  <2>4. ASSUME NEW o \in Operations, Admit(o) \/ SayNothing(o)
        PROVE  FailuresAreCounted'
    BY <2>3, <2>4 DEF Admit, SayNothing, history
  <2>5. CASE BreakerTick \/ UNCHANGED breakerVars
    BY <2>3, <2>5 DEF BreakerTick, breakerVars, history
  <2>6. CASE state' # "closed"
    BY <2>6 DEF FailuresAreCounted
  <2>q. QED
    BY <2>1, <2>2, <2>4, <2>5, <2>6 DEF BreakerStep, Reports
<1>q. QED
  BY <1>1, <1>2, BreakerCounted, PTL DEF Spec

\* A full ring has as many failures as the latest reports have.
LEMMA SameFailures ==
  ASSUME BreakerTypeOK, RingIsHistory, Len(reported) >= WindowSize
  PROVE  Cardinality({i \in DOMAIN window : ~window[i]}) * 100
           = RateOf(Latest(reported))
<1> DEFINE n == Len(reported)
           s == Latest(reported)
           A == {i \in 0 .. WindowSize - 1 : ~window[i]}
           B == {i \in 1 .. WindowSize : ~s[i]}
           To(i) == IF i < windowIndex THEN WindowSize - windowIndex + 1 + i
                                       ELSE i - windowIndex + 1
           Back(j) == IF j <= WindowSize - windowIndex THEN j + windowIndex - 1
                                       ELSE j + windowIndex - 1 - WindowSize
           f == [i \in A |-> To(i)]
<1>1. /\ n \in Nat /\ n >= WindowSize /\ windowIndex \in 0 .. WindowSize - 1
      /\ window \in [0 .. WindowSize - 1 -> BOOLEAN]
      /\ reported \in Seq(BOOLEAN)
  BY DEF BreakerTypeOK
<1>2. /\ Len(s) = WindowSize /\ s \in Seq(BOOLEAN)
      /\ \A j \in 1 .. WindowSize : s[j] = reported[n - WindowSize + j]
  <2>1. \A i \in n - WindowSize + 1 .. n : reported[i] \in BOOLEAN
    BY <1>1, ElementOfSeq
  <2>2. /\ n - WindowSize + 1 \in Int /\ n - WindowSize + 1 <= n
        /\ n - (n - WindowSize + 1) + 1 = WindowSize
    BY <1>1
  <2>3. /\ Len(s) = WindowSize /\ s \in Seq(BOOLEAN)
        /\ \A j \in 1 .. WindowSize : s[j] = reported[(n - WindowSize + 1) + j - 1]
    BY <1>1, <2>1, <2>2, SubSeqProperties DEF Latest
  <2>4. \A j \in 1 .. WindowSize : (n - WindowSize + 1) + j - 1 = n - WindowSize + j
    BY <1>1
  <2>q. QED
    BY <2>3, <2>4
<1>3. ASSUME NEW i \in 0 .. WindowSize - 1
      PROVE  /\ To(i) \in 1 .. WindowSize /\ Back(To(i)) = i
             /\ window[i] = s[To(i)]
  <2>1. /\ To(i) \in 1 .. WindowSize /\ Back(To(i)) = i
        /\ Place(i) = n - WindowSize + To(i) /\ Place(i) >= 1
    BY <1>1, <1>3 DEF Place
  <2>q. QED
    BY <1>2, <2>1 DEF RingIsHistory
<1>4. ASSUME NEW j \in 1 .. WindowSize
      PROVE  Back(j) \in 0 .. WindowSize - 1 /\ To(Back(j)) = j
  BY <1>1, <1>4
<1> HIDE DEF n, s, To, Back
<1>5. f \in [A -> B]
  BY <1>3
<1>6. f \in Injection(A, B)
  <2>1. ASSUME NEW i \in A, NEW j \in A, f[i] = f[j] PROVE i = j
    BY <1>3, <2>1
  <2>q. QED
    BY <1>5, <2>1 DEF Injection, IsInjective
<1>7. f \in Surjection(A, B)
  <2>1. ASSUME NEW j \in B PROVE \E i \in A : f[i] = j
    <3>1. Back(j) \in A /\ f[Back(j)] = j
      BY <1>3, <1>4
    <3>q. QED
      BY <3>1
  <2>q. QED
    BY <1>5, <2>1 DEF Surjection
<1>8. ExistsBijection(A, B)
  BY <1>6, <1>7 DEF Bijection, ExistsBijection
<1>9. IsFiniteSet(A)
  <2>1. IsFiniteSet(0 .. WindowSize - 1)
    BY FS_Interval
  <2>q. QED
    BY <2>1, FS_Subset
<1>10. Cardinality(A) = Cardinality(B)
  BY <1>8, <1>9, FS_Bijection
<1>11. {i \in DOMAIN window : ~window[i]} = A
  BY <1>1
<1>12. {i \in DOMAIN s : ~s[i]} = B
  BY <1>2
<1>q. QED
  BY <1>10, <1>11, <1>12 DEF RateOf, s

\* What the trailing failures of the history come to, by the counter: a failure
\* that a closed breaker records makes the threshold of them, or it does not.
LEMMA CounterDecides ==
  ASSUME BreakerCounts, FailuresAreCounted, state = "closed",
         NEW o \in Operations, RecordFailure(o)
  PROVE  failures' >= FailureThreshold <=>
           /\ Len(reported') >= FailureThreshold
           /\ \A i \in Len(reported') - FailureThreshold + 1 .. Len(reported') :
                ~reported'[i]
<1> DEFINE n == Len(reported)
           m == Len(reported')
<1>1. Record(o, FALSE) /\ failures' = failures + 1
  BY DEF RecordFailure
<1>2. /\ n \in Nat /\ m \in Nat /\ reported'[m] = FALSE /\ m <= Depth
      /\ Drops = (IF n < Depth THEN 0 ELSE 1)
      /\ \A k \in 1 .. m - 1 : reported'[k] = reported[k + Drops]
  BY <1>1, RecordAppends, FALSE \in BOOLEAN DEF BreakerCounts
<1>3. Drops = n + 1 - m
  BY DEF Drops
<1>4. /\ failures \in Nat /\ failures < FailureThreshold /\ n <= Depth
  BY DEF BreakerCounts, BreakerTypeOK
<1>5. /\ failures <= n
      /\ \A i \in n - failures + 1 .. n : ~reported[i]
      /\ failures < n => reported[n - failures]
  BY DEF FailuresAreCounted
<1> HIDE DEF n, m
<1>6. CASE failures + 1 = FailureThreshold
  <2>1. m >= FailureThreshold
    BY <1>2, <1>3, <1>4, <1>5, <1>6, DepthIsEnough
  <2>2. ASSUME NEW i \in m - FailureThreshold + 1 .. m PROVE ~reported'[i]
    <3>1. CASE i = m
      BY <1>2, <3>1
    <3>2. CASE i # m
      <4>1. i \in 1 .. m - 1 /\ i + Drops \in n - failures + 1 .. n
        BY <1>2, <1>3, <1>4, <1>6, <2>1, <3>2
      <4>q. QED
        BY <1>2, <1>5, <4>1
    <3>q. QED
      BY <3>1, <3>2
  <2>q. QED
    BY <1>1, <1>4, <1>6, <2>1, <2>2 DEF m
<1>7. CASE failures + 1 < FailureThreshold
  <2>1. ASSUME m >= FailureThreshold
        PROVE  /\ m - failures - 1 \in m - FailureThreshold + 1 .. m
               /\ reported'[m - failures - 1]
    <3>1. /\ m - failures - 1 \in m - FailureThreshold + 1 .. m
          /\ m - failures - 1 \in 1 .. m - 1
          /\ (m - failures - 1) + Drops = n - failures /\ failures < n
      BY <1>2, <1>3, <1>4, <1>5, <1>7, <2>1, DepthIsEnough
    <3>q. QED
      BY <1>2, <1>5, <3>1
  <2>2. ~(failures' >= FailureThreshold)
    BY <1>1, <1>4, <1>7
  <2>q. QED
    BY <2>1, <2>2 DEF m
<1>q. QED
  BY <1>4, <1>6, <1>7

\* The counter and the ring, with their resets and wrap-around, decide as the
\* whole history of reports would: no failure that makes it unhealthy is let go,
\* and nothing else opens a closed breaker.
THEOREM OpensWhenUnhealthy == Spec => OpensOnUnhealthyHistory
<1> DEFINE Opens == (state' = "open") <=>
                      (~reported'[Len(reported')] /\ Unhealthy(reported'))
<1>1. BreakerCounts /\ BreakerCounts' /\ RingIsHistory' /\ FailuresAreCounted
        /\ [Next]_vars
        => (state = "closed" /\ reported' # reported => Opens)
  <2> SUFFICES ASSUME BreakerCounts, BreakerCounts', RingIsHistory',
                      FailuresAreCounted, BreakerStep,
                      state = "closed", reported' # reported
               PROVE  Opens
    BY GateStepsBreaker
  <2>1. PICK o \in Operations : RecordSuccess(o) \/ RecordFailure(o)
    BY DEF BreakerStep, Admit, SayNothing, BreakerTick, breakerVars, history,
      Reports
  <2>2. CASE RecordSuccess(o)
    <3>1. Record(o, TRUE) /\ state' = "closed"
      BY <2>2 DEF RecordSuccess
    <3>2. reported'[Len(reported')] = TRUE
      BY <3>1, RecordAppends, TRUE \in BOOLEAN DEF BreakerCounts
    <3>q. QED
      BY <3>1, <3>2
  <2>3. CASE RecordFailure(o)
    <3>1. /\ Record(o, FALSE)
          /\ state' = IF Trips THEN "open" ELSE "closed"
      BY <2>3 DEF RecordFailure
    <3>2. reported'[Len(reported')] = FALSE /\ Len(reported') \in Nat
      BY <3>1, RecordAppends, FALSE \in BOOLEAN DEF BreakerCounts
    <3>3. windowFilled' <=> Len(reported') >= WindowSize
      BY DEF RingIsHistory
    <3>4. Len(reported') >= WindowSize =>
            Cardinality({i \in DOMAIN window' : ~window'[i]}) * 100
              = RateOf(Latest(reported'))
      <4>1. (BreakerTypeOK /\ RingIsHistory /\ Len(reported) >= WindowSize =>
               Cardinality({i \in DOMAIN window : ~window[i]}) * 100
                 = RateOf(Latest(reported)))'
        BY SameFailures, PTL
      <4>q. QED
        BY <4>1 DEF BreakerCounts
    <3>5. FailureRateReached <=>
            /\ Len(reported') >= WindowSize
            /\ RateOf(Latest(reported')) >= FailureRate * WindowSize
      BY <3>3, <3>4 DEF FailureRateReached
    <3>6. Trips <=> Unhealthy(reported')
      BY <2>3, <3>5, CounterDecides DEF Trips, Unhealthy
    <3>q. QED
      BY <3>1, <3>2, <3>6
  <2>q. QED
    BY <2>1, <2>2, <2>3
<1>q. QED
  BY <1>1, BreakerCounted, RingKept, FailuresCounted, PTL
    DEF Spec, OpensOnUnhealthyHistory

-----------------------------------------------------------------------------
\* However probes and late reports interleave, a breaker that has opened closes
\* on the report that makes SuccessThreshold since it half-opened, all of them
\* successes, and on no other step.
THEOREM ClosesProven == Spec => ClosesWhenProven
<1> DEFINE Proven == /\ state = "halfOpen"
                     /\ heard' = SuccessThreshold
                     /\ reported'[Len(reported')]
<1>1. BreakerCounts /\ [Next]_vars
        => (state # "closed" => ((state' = "closed") <=> Proven))
  <2> SUFFICES ASSUME BreakerCounts, BreakerStep, state # "closed"
               PROVE  (state' = "closed") <=> Proven
    BY GateStepsBreaker
  <2>1. /\ successes \in 0 .. SuccessThreshold - 1
        /\ state = "halfOpen" => heard = successes
    BY DEF BreakerCounts, BreakerTypeOK
  \* What is not a report closes nothing, and is not counted.
  <2>2. CASE /\ state' = state \/ state' = "halfOpen"
             /\ heard' = heard \/ heard' = 0
    BY <2>1, <2>2
  <2>3. ASSUME NEW o \in Operations, Admit(o) \/ SayNothing(o)
        PROVE  (state' = "closed") <=> Proven
    BY <2>2, <2>3 DEF Admit, SayNothing, history
  <2>4. CASE BreakerTick \/ UNCHANGED breakerVars
    BY <2>2, <2>4 DEF BreakerTick, breakerVars, history
  <2>5. ASSUME NEW o \in Operations, RecordSuccess(o)
        PROVE  (state' = "closed") <=> Proven
    <3>1. Record(o, TRUE)
      BY <2>5 DEF RecordSuccess
    <3>2. /\ reported'[Len(reported')] = TRUE
          /\ state = "halfOpen" => heard' = successes + 1
      BY <2>1, <3>1, RecordAppends, TRUE \in BOOLEAN DEF BreakerCounts, Record
    <3>3. CASE state = "halfOpen"
      BY <2>1, <2>5, <3>2, <3>3 DEF RecordSuccess
    <3>4. CASE state # "halfOpen"
      BY <2>5, <3>4 DEF RecordSuccess
    <3>q. QED
      BY <3>3, <3>4
  <2>6. ASSUME NEW o \in Operations, RecordFailure(o)
        PROVE  (state' = "closed") <=> Proven
    <3>1. Record(o, FALSE) /\ state' # "closed"
      BY <2>6 DEF RecordFailure
    <3>2. reported'[Len(reported')] = FALSE
      BY <3>1, RecordAppends, FALSE \in BOOLEAN DEF BreakerCounts
    <3>q. QED
      BY <3>1, <3>2
  <2>q. QED
    BY <2>3, <2>4, <2>5, <2>6 DEF BreakerStep, Reports
<1>q. QED
  BY <1>1, BreakerCounted, PTL DEF Spec, ClosesWhenProven
=============================================================================

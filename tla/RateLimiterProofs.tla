-------------------------- MODULE RateLimiterProofs --------------------------
(***************************************************************************)
(* Theorems about RateLimiter for every burst, rate and number of          *)
(* goroutines: how much is granted in any interval, that a pause holds     *)
(* every grant back, and that a sleep is long enough.                      *)
(***************************************************************************)
EXTENDS RateLimiter, TLAPS

\* What the bucket holds at the most, and how far a reservation overdraws it.
Full  == Burst * Cost
Ahead == Rate * Second

\* The bucket holds at least one request, in the units of the clock.
LEMMA BucketNumbers ==
  Full \in Nat /\ Ahead \in Nat /\ Full >= Cost
  BY BucketAssumption DEF Full, Ahead

\* What a stretch of time adds.
Added(t) == Rate * t

\* What a stretch of time adds to the bucket.
LEMMA AddedIsNumber ==
  ASSUME NEW s \in Int
  PROVE  Added(s) \in Int /\ (s >= 0 => Added(s) \in Nat)
  BY BucketAssumption DEF Added

\* Two stretches add what the whole does: refills may be split.
LEMMA AddedIsLinear ==
  ASSUME NEW s \in Int, NEW t \in Int
  PROVE  Added(s + t) = Added(s) + Added(t)
  BY BucketAssumption DEF Added

\* A sleep rounded up is long enough for what is missing.
LEMMA RoundedUp ==
  ASSUME NEW a \in Nat
  PROVE  /\ a \div Rate \in Nat
         /\ Added(a \div Rate + 1) >= a
  BY BucketAssumption DEF Added

\* What refill leaves: no more than a burst, no less than was there, and what
\* the time since added when that is below a burst.
LEMMA RefilledWithin ==
  ASSUME tokens \in Int, tokens <= Full, now \in Int, lastRefill \in Int,
         lastRefill <= now
  PROVE  /\ Refilled \in Int /\ Refilled <= Full /\ Refilled >= tokens
         /\ Refilled = Full \/ Refilled = tokens + Added(now - lastRefill)
         /\ Refilled <= tokens + Added(now - lastRefill)
<1>1. Added(now - lastRefill) \in Nat
  <2>1. now - lastRefill \in Nat
    OBVIOUS
  <2>q. QED
    BY <2>1, AddedIsNumber
<1>2. Refilled = IF tokens + Added(now - lastRefill) > Full
                   THEN Full ELSE tokens + Added(now - lastRefill)
  BY DEF Refilled, Added, Full
<1>3. CASE tokens + Added(now - lastRefill) > Full
  BY <1>1, <1>2, <1>3, BucketNumbers
<1>4. CASE ~(tokens + Added(now - lastRefill) > Full)
  BY <1>1, <1>2, <1>4, BucketNumbers
<1>q. QED
  BY <1>3, <1>4

-----------------------------------------------------------------------------
\* A token is granted in one way, by whichever method: from what is there, or
\* within a second of it.
Granting ==
  /\ Refill /\ Grant
  /\ Refilled >= Cost \/ WithinASecond

\* A bucket that is looked at and has no token to grant.
Withholding == Refill /\ NoGrant /\ Refilled < Cost

\* Nothing of the bucket changes but its pause, nor the count of grants.
Leaving == UNCHANGED <<tokens, lastRefill, granted>>

\* A step grants, withholds, lets a waiter leave, or is the clock's.
LEMMA StepKinds ==
  ASSUME [Next]_vars
  PROVE  \/ Granting /\ now' = now
         \/ Withholding /\ now' = now
         \/ Leaving /\ UNCHANGED <<since, now>>
         \/ Tick
         \/ BeginInterval
<1>1. CASE Allow
  BY <1>1 DEF Allow, Granting, Withholding
<1>2. CASE Reserve
  BY <1>2 DEF Reserve, Granting, Withholding
<1>3. ASSUME NEW g \in Waiters,
             \/ WaitOutPause(g) \/ WaitForToken(g) \/ WaitIsOver(g)
             \/ AbandonWait(g)
      PROVE  \/ Granting /\ now' = now
             \/ Withholding /\ now' = now
             \/ Leaving /\ UNCHANGED <<since, now>>
  BY <1>3 DEF WaitOutPause, WaitForToken, WaitIsOver, AbandonWait, Granting,
    Withholding, Leaving, bucket
<1>4. ASSUME NEW g \in Responders, HearRetryAfter(g) \/ SetRetryAfter(g)
      PROVE  Leaving /\ UNCHANGED <<since, now>>
  BY <1>4 DEF HearRetryAfter, SetRetryAfter, Leaving, bucket, history
<1>5. CASE UNCHANGED vars
  BY <1>5 DEF vars, bucket, history, Leaving
<1>q. QED
  BY <1>1, <1>2, <1>3, <1>4, <1>5 DEF Next

\* The variables keep their types: the tokens stay within a burst above and a
\* second's worth below zero, whoever asks and whenever.
THEOREM LimiterTypeCorrect == Spec => []TypeOK
<1>1. Init => TypeOK
  <2> SUFFICES ASSUME Init PROVE TypeOK
    OBVIOUS
  <2>1. tokens \in -Ahead .. Full /\ now \in 0 .. MaxTime
    BY BucketNumbers, BucketAssumption DEF Init, Full
  <2>q. QED
    BY <2>1 DEF Init, TypeOK, Full, Ahead
<1>2. TypeOK /\ [Next]_vars => TypeOK'
  <2> SUFFICES ASSUME TypeOK, [Next]_vars PROVE TypeOK'
    OBVIOUS
  <2>1. /\ tokens \in Int /\ -Ahead <= tokens /\ tokens <= Full
        /\ now \in 0 .. MaxTime /\ lastRefill \in 0 .. now
        /\ since \in 0 .. now /\ granted \in Nat
    BY BucketNumbers DEF TypeOK, Full, Ahead
  <2>2. /\ Refilled \in Int /\ Refilled <= Full /\ Refilled >= -Ahead
        /\ Refilled >= tokens
    BY <2>1, BucketNumbers, RefilledWithin, BucketAssumption
  <2>3. /\ tokens' \in -Ahead .. Full /\ now' \in 0 .. MaxTime
        /\ lastRefill' \in 0 .. now' /\ since' \in 0 .. now'
        /\ granted' \in Nat
    <3>1. CASE Granting /\ now' = now
      <4>1. Refilled - Cost >= -Ahead /\ Refilled - Cost <= Full
        BY <3>1, <2>2, BucketNumbers, BucketAssumption
          DEF Granting, WithinASecond, Ahead
      <4>q. QED
        BY <3>1, <4>1, <2>1, <2>2, BucketNumbers, BucketAssumption
          DEF Granting, Refill, Grant
    <3>2. CASE Withholding /\ now' = now
      BY <3>2, <2>1, <2>2, BucketNumbers DEF Withholding, Refill, NoGrant
    <3>3. CASE Leaving /\ UNCHANGED <<since, now>>
      BY <3>3, <2>1, BucketNumbers DEF Leaving
    <3>4. CASE Tick
      BY <3>4, <2>1, BucketNumbers, BucketAssumption
        DEF Tick, bucket, history
    <3>5. CASE BeginInterval
      BY <3>5, <2>1, BucketNumbers DEF BeginInterval, bucket
    <3>q. QED
      BY <3>1, <3>2, <3>3, <3>4, <3>5, StepKinds
  <2> DEFINE Others ==
        /\ retryAfterUntil \in Nat /\ promised \in Nat
        /\ heard \in [Responders -> Nat] /\ wake \in [Waiters -> Nat]
        /\ alone \subseteq Waiters
  <2>4. Others'
    <3>1. CASE Allow \/ Reserve
      BY <3>1 DEF Allow, Reserve, Refill, Grant, NoGrant, TypeOK
    <3>2. ASSUME NEW g \in Waiters, WaitForToken(g)
          PROVE  wake' \in [Waiters -> Nat]
      <4>1. Cost - Refilled \in Nat
        BY <3>2, <2>2, BucketAssumption DEF WaitForToken
      <4>2. Sleep \in Nat
        BY <4>1, RoundedUp DEF Sleep
      <4>q. QED
        BY <3>2, <4>2, <2>1 DEF WaitForToken, TypeOK
    <3>3. ASSUME NEW g \in Waiters,
                 \/ WaitOutPause(g) \/ WaitForToken(g) \/ WaitIsOver(g)
                 \/ AbandonWait(g)
          PROVE  Others'
      BY <3>2, <3>3 DEF WaitOutPause, WaitForToken, WaitIsOver, AbandonWait,
        Refill, Grant, NoGrant, bucket, TypeOK
    <3>4. ASSUME NEW g \in Responders, HearRetryAfter(g)
          PROVE  Others'
      <4>1. PICK d \in Pauses : heard' = [heard EXCEPT ![g] = now + d]
        BY <3>4 DEF HearRetryAfter
      <4>2. d \in Nat
        BY BucketAssumption DEF Pauses
      <4>q. QED
        BY <3>4, <4>1, <4>2, <2>1 DEF HearRetryAfter, bucket, history, TypeOK
    <3>5. ASSUME NEW g \in Responders, SetRetryAfter(g)
          PROVE  Others'
      BY <3>5 DEF SetRetryAfter, Later, TypeOK
    <3>6. CASE Tick \/ BeginInterval \/ UNCHANGED vars
      BY <3>6 DEF Tick, BeginInterval, vars, bucket, history, TypeOK
    <3>q. QED
      BY <3>1, <3>3, <3>4, <3>5, <3>6 DEF Next
  <2>q. QED
    BY <2>3, <2>4 DEF TypeOK, Full, Ahead
<1>q. QED
  BY <1>1, <1>2, PTL DEF Spec

-----------------------------------------------------------------------------
\* What was granted in the interval and what is there to be granted came from a
\* burst and from the interval.
GrantsAreFunded == granted * Cost + Refilled <= Full + Added(now - since)

\* The numbers the steps below reckon with.
LEMMA Reckoning ==
  ASSUME TypeOK
  PROVE  /\ tokens \in Int /\ -Ahead <= tokens /\ tokens <= Full
         /\ now \in Nat /\ lastRefill \in Nat /\ lastRefill <= now
         /\ since \in Nat /\ since <= now /\ granted \in Nat
         /\ granted * Cost \in Nat
         /\ Added(now - since) \in Nat
         /\ Refilled \in Int /\ Refilled <= Full /\ Refilled >= tokens
         /\ Refilled = Full \/ Refilled = tokens + Added(now - lastRefill)
<1>1. /\ tokens \in Int /\ -Ahead <= tokens /\ tokens <= Full
      /\ now \in Nat /\ lastRefill \in Nat /\ lastRefill <= now
      /\ since \in Nat /\ since <= now /\ granted \in Nat
  BY BucketNumbers, BucketAssumption DEF TypeOK, Full, Ahead
<1>2. granted * Cost \in Nat
  BY <1>1, BucketAssumption
<1>3. now - since \in Nat
  BY <1>1
<1>q. QED
  BY <1>1, <1>2, <1>3, AddedIsNumber, RefilledWithin

\* A bucket that was just refilled holds its tokens as they are.
LEMMA NothingAdded ==
  ASSUME NEW t \in Int, t <= Full, NEW n \in Int
  PROVE  (IF t + Added(n - n) > Full THEN Full ELSE t + Added(n - n)) = t
<1>1. n - n = 0
  OBVIOUS
<1>2. Added(0) = 0
  BY BucketAssumption DEF Added
<1>3. t + Added(n - n) = t
  BY <1>1, <1>2
<1>q. QED
  BY <1>3, BucketNumbers

\* A bucket refilled now is as it is written down.
LEMMA JustRefilled ==
  ASSUME tokens' \in Int, tokens' <= Full, now' \in Int, lastRefill' = now'
  PROVE  Refilled' = tokens'
<1>1. Refilled' = IF tokens' + Added(now' - now') > Full
                    THEN Full ELSE tokens' + Added(now' - now')
  BY DEF Refilled, Full, Added
<1>q. QED
  BY <1>1, NothingAdded

\* What was granted in an interval was in the bucket or came since.
LEMMA GrantsFunded == Spec => []GrantsAreFunded
<1>1. Init => GrantsAreFunded
  <2> SUFFICES ASSUME Init PROVE GrantsAreFunded
    OBVIOUS
  <2>1. /\ granted = 0 /\ now = 0 /\ since = 0 /\ lastRefill = 0
        /\ tokens = Full
    BY DEF Init, Full
  <2>2. granted * Cost = 0 /\ Added(now - since) = 0
    BY <2>1, BucketAssumption DEF Added
  <2>3. Refilled <= Full /\ Refilled \in Int
    BY <2>1, BucketNumbers, RefilledWithin
  <2>q. QED
    BY <2>2, <2>3, BucketNumbers DEF GrantsAreFunded
<1>2. TypeOK /\ TypeOK' /\ GrantsAreFunded /\ [Next]_vars => GrantsAreFunded'
  <2> SUFFICES ASSUME TypeOK, TypeOK', GrantsAreFunded, [Next]_vars
               PROVE  GrantsAreFunded'
    OBVIOUS
  <2> USE Reckoning, BucketNumbers
  <2>0. /\ tokens' \in Int /\ tokens' <= Full /\ now' \in Nat
        /\ granted' \in Nat /\ Cost \in Nat
    BY BucketAssumption DEF TypeOK, Full, Ahead
  <2>1. CASE Granting /\ now' = now
    <3>1. Refilled' = Refilled - Cost
      BY <2>0, <2>1, JustRefilled DEF Granting, Refill, Grant
    <3>2. granted' * Cost = granted * Cost + Cost /\ since' = since
      BY <2>0, <2>1 DEF Granting, Grant
    <3>q. QED
      BY <2>0, <2>1, <3>1, <3>2 DEF GrantsAreFunded
  <2>2. CASE Withholding /\ now' = now
    <3>1. Refilled' = Refilled
      BY <2>0, <2>2, JustRefilled DEF Withholding, Refill, NoGrant
    <3>q. QED
      BY <2>2, <3>1 DEF GrantsAreFunded, Withholding, NoGrant
  <2>3. CASE Leaving /\ UNCHANGED <<since, now>>
    BY <2>3 DEF Leaving, GrantsAreFunded, Refilled
  <2>4. CASE Tick
    <3>1. /\ UNCHANGED <<tokens, lastRefill, granted, since>>
          /\ now' = now + 1
      BY <2>4 DEF Tick, bucket, history
    <3>2. /\ Added(now' - since') = Added(now - since) + Rate
          /\ Added(now' - lastRefill') = Added(now - lastRefill) + Rate
      <4>1. Added(1) = Rate
        BY BucketAssumption DEF Added
      <4>2. now' - since' = (now - since) + 1
            /\ now' - lastRefill' = (now - lastRefill) + 1
        BY <3>1
      <4>3. now - since \in Int /\ now - lastRefill \in Int /\ 1 \in Int
        OBVIOUS
      <4>4. /\ Added((now - since) + 1) = Added(now - since) + Added(1)
            /\ Added((now - lastRefill) + 1) = Added(now - lastRefill) + Added(1)
        BY <4>3, AddedIsLinear
      <4>q. QED
        BY <4>1, <4>2, <4>4
    <3>3. Refilled' <= Refilled + Rate /\ Refilled' \in Int
      <4>1. Refilled = IF tokens + Added(now - lastRefill) > Full THEN Full
                         ELSE tokens + Added(now - lastRefill)
        BY DEF Refilled, Added, Full
      <4>2. Refilled' = IF tokens + Added(now' - lastRefill') > Full THEN Full
                          ELSE tokens + Added(now' - lastRefill')
        BY <3>1 DEF Refilled, Added, Full
      <4>3. Added(now - lastRefill) \in Nat /\ Rate \in Nat
        <5>1. now - lastRefill \in Nat
          OBVIOUS
        <5>q. QED
          BY <5>1, AddedIsNumber, BucketAssumption
      <4>q. QED
        BY <3>2, <4>1, <4>2, <4>3
    <3>q. QED
      BY <3>1, <3>2, <3>3, BucketAssumption DEF GrantsAreFunded
  <2>5. CASE BeginInterval
    <3>1. /\ UNCHANGED <<tokens, lastRefill, now>> /\ granted' = 0
          /\ since' = now
      BY <2>5 DEF BeginInterval, bucket
    <3>2. granted' * Cost = 0 /\ Added(now' - since') = 0
      BY <2>0, <3>1, BucketAssumption DEF Added
    <3>3. Refilled' = Refilled
      BY <3>1 DEF Refilled
    <3>q. QED
      BY <3>2, <3>3 DEF GrantsAreFunded
  <2>q. QED
    BY <2>1, <2>2, <2>3, <2>4, <2>5, StepKinds
<1>q. QED
  BY <1>1, <1>2, LimiterTypeCorrect, PTL DEF Spec

\* Whatever Allow, Wait and Reserve answer and whoever asks, the tokens granted
\* in an interval are a burst, what the interval added, and a second's worth
\* that Reserve took in advance.
THEOREM RateKept == Spec => []RateIsKept
<1>1. TypeOK /\ GrantsAreFunded => RateIsKept
  <2> SUFFICES ASSUME TypeOK, GrantsAreFunded PROVE RateIsKept
    OBVIOUS
  <2>1. granted * Cost <= Full + Added(now - since) + Ahead
    BY Reckoning, BucketNumbers DEF GrantsAreFunded
  <2>q. QED
    BY <2>1 DEF RateIsKept, Full, Added, Ahead
<1>q. QED
  BY <1>1, LimiterTypeCorrect, GrantsFunded, PTL

-----------------------------------------------------------------------------
\* The longest wait any response asked for is over, or the bucket is in it.
PromiseIsKept == promised <= now \/ promised <= retryAfterUntil

\* No pause is cut short: a shorter one never takes a longer one's place, and
\* the zero time is put back only when the pause is over.
THEOREM RetryAfterKept == Spec => RetryAfterIsKept
<1>1. Init => PromiseIsKept
  BY DEF Init, PromiseIsKept
<1>2. ASSUME TypeOK, PromiseIsKept, ~Paused PROVE promised <= now
  BY <1>2 DEF TypeOK, PromiseIsKept, Paused
<1>3. TypeOK /\ PromiseIsKept /\ [Next]_vars => PromiseIsKept'
  <2> SUFFICES ASSUME TypeOK, PromiseIsKept, [Next]_vars PROVE PromiseIsKept'
    OBVIOUS
  <2>1. ASSUME Refill, UNCHANGED <<promised, now>> PROVE PromiseIsKept'
    BY <1>2, <2>1 DEF Refill, PromiseIsKept
  <2>2. CASE Allow \/ Reserve
    BY <2>1, <2>2 DEF Allow, Reserve, Grant, NoGrant
  <2>3. ASSUME NEW g \in Waiters, WaitForToken(g) \/ WaitIsOver(g)
        PROVE  PromiseIsKept'
    BY <2>1, <2>3 DEF WaitForToken, WaitIsOver, Grant, NoGrant
  <2>4. ASSUME NEW g \in Waiters, WaitOutPause(g) \/ AbandonWait(g)
        PROVE  PromiseIsKept'
    BY <2>4 DEF WaitOutPause, AbandonWait, bucket, PromiseIsKept
  <2>5. ASSUME NEW g \in Responders, HearRetryAfter(g) PROVE PromiseIsKept'
    BY <2>5 DEF HearRetryAfter, bucket, history, PromiseIsKept
  <2>6. ASSUME NEW g \in Responders, SetRetryAfter(g) PROVE PromiseIsKept'
    BY <2>6 DEF SetRetryAfter, Later, PromiseIsKept, TypeOK
  <2>7. CASE Tick \/ BeginInterval \/ UNCHANGED vars
    BY <2>7 DEF Tick, BeginInterval, vars, bucket, history, PromiseIsKept, TypeOK
  <2>q. QED
    BY <2>2, <2>3, <2>4, <2>5, <2>6, <2>7 DEF Next
<1>4. TypeOK /\ PromiseIsKept /\ [Next]_vars
        => (granted' = granted + 1 => now >= promised)
  <2> SUFFICES ASSUME TypeOK, PromiseIsKept, [Next]_vars, granted' = granted + 1
               PROVE  now >= promised
    OBVIOUS
  <2>1. ~Paused
    BY StepKinds DEF Granting, Withholding, Refill, Leaving, Tick, BeginInterval,
      history, TypeOK
  <2>q. QED
    BY <1>2, <2>1 DEF TypeOK
<1>q. QED
  BY <1>1, <1>3, <1>4, LimiterTypeCorrect, PTL DEF Spec, RetryAfterIsKept

-----------------------------------------------------------------------------
\* Nobody who sleeps for a token that nobody else was granted sleeps too short:
\* the sleep is rounded up, and a bucket that is looked at meanwhile has only
\* what it had and the time added.
THEOREM WakesTimely == Spec => []WakesInTime
<1> DEFINE Enough(g) == tokens + Added(wake[g] - lastRefill) >= Cost
<1>0. WakesInTime <=> \A g \in alone : Enough(g)
  BY DEF WakesInTime, Added
<1>1. Init => WakesInTime
  BY DEF Init, WakesInTime
<1>2. TypeOK /\ WakesInTime /\ [Next]_vars => WakesInTime'
  <2> SUFFICES ASSUME TypeOK, WakesInTime, [Next]_vars,
                      NEW g \in alone'
               PROVE  Enough(g)'
    BY DEF WakesInTime, Added
  <2> HIDE DEF Enough
  <2> USE Reckoning, BucketNumbers
  \* What was asleep and slept long enough does still.
  <2>1. ASSUME g \in alone, UNCHANGED <<tokens, lastRefill>>, wake'[g] = wake[g]
        PROVE  Enough(g)'
    BY <1>0, <2>1 DEF Enough
  <2>2. ASSUME g \in alone, Withholding, wake'[g] = wake[g]
        PROVE  Enough(g)'
    <3>1. wake[g] \in Nat /\ Cost \in Nat /\ Enough(g)
      BY <1>0, <2>2, BucketAssumption DEF TypeOK
    <3>2. Refilled = tokens + Added(now - lastRefill)
      BY <2>2, <3>1 DEF Withholding
    <3>3. /\ tokens' = Refilled /\ lastRefill' = now
      BY <2>2 DEF Withholding, NoGrant, Refill
    <3>4. Added((now - lastRefill) + (wake[g] - now))
            = Added(now - lastRefill) + Added(wake[g] - now)
      <4>1. now - lastRefill \in Int /\ wake[g] - now \in Int
        BY <3>1
      <4>q. QED
        BY <4>1, AddedIsLinear
    <3>5. (now - lastRefill) + (wake[g] - now) = wake[g] - lastRefill
      BY <3>1
    <3>6. /\ Added(now - lastRefill) \in Int /\ Added(wake[g] - now) \in Int
      BY <3>1, AddedIsNumber
    <3>q. QED
      BY <2>2, <3>1, <3>2, <3>3, <3>4, <3>5, <3>6 DEF Enough
  <2>3. CASE Granting
    BY <2>3 DEF Granting, Grant
  <2>4. CASE Allow \/ Reserve
    <3>1. CASE alone' = {}
      BY <3>1
    <3>2. CASE Withholding /\ UNCHANGED <<alone, wake>>
      BY <2>2, <3>2
    <3>q. QED
      BY <2>4, <3>1, <3>2 DEF Allow, Reserve, Grant, Withholding
  <2>5. ASSUME NEW w \in Waiters, WaitForToken(w) PROVE Enough(g)'
    <3>1. Withholding
      BY <2>5 DEF WaitForToken, Withholding
    <3>2. CASE g = w
      <4>1. Cost - Refilled \in Nat
        BY <2>5, BucketAssumption DEF WaitForToken
      <4>2. /\ Sleep \in Nat /\ Added(Sleep) >= Cost - Refilled
            /\ Added(Sleep) \in Int
        BY <4>1, RoundedUp, AddedIsNumber DEF Sleep
      <4>3. /\ wake'[g] = now + Sleep /\ lastRefill' = now /\ tokens' = Refilled
        BY <2>5, <3>2 DEF WaitForToken, Refill, NoGrant, TypeOK
      <4>4. wake'[g] - lastRefill' = Sleep
        BY <4>2, <4>3
      <4>q. QED
        BY <4>1, <4>2, <4>3, <4>4, BucketAssumption DEF Enough
    <3>3. CASE g # w
      BY <2>2, <2>5, <3>1, <3>3 DEF WaitForToken, TypeOK
    <3>q. QED
      BY <3>2, <3>3
  <2>6. ASSUME NEW w \in Waiters, WaitOutPause(w) \/ AbandonWait(w)
        PROVE  Enough(g)'
    BY <2>1, <2>6 DEF WaitOutPause, AbandonWait, bucket, TypeOK
  <2>7. ASSUME NEW w \in Waiters, WaitIsOver(w) PROVE Enough(g)'
    BY <2>7 DEF WaitIsOver, Grant
  <2>8. ASSUME NEW w \in Responders, HearRetryAfter(w) \/ SetRetryAfter(w)
        PROVE  Enough(g)'
    BY <2>1, <2>8 DEF HearRetryAfter, SetRetryAfter, bucket, history
  <2>9. CASE Tick \/ BeginInterval \/ UNCHANGED vars
    BY <2>1, <2>9 DEF Tick, BeginInterval, vars, bucket, history
  <2>q. QED
    BY <2>4, <2>5, <2>6, <2>7, <2>8, <2>9 DEF Next
<1>q. QED
  BY <1>1, <1>2, LimiterTypeCorrect, PTL DEF Spec
=============================================================================

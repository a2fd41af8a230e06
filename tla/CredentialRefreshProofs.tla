---------------------- MODULE CredentialRefreshProofs -----------------------
(***************************************************************************)
(* What holds of the credential refresh coordinator for any number of      *)
(* requests and tokens.  The inductive invariant is IInv, proved one part  *)
(* at a time: types, the turn, requests against runs, the counts, and the  *)
(* tokens.  Each part takes the ones before it as facts of every state.    *)
(* Nothing here depends on fairness.                                       *)
(***************************************************************************)
EXTENDS CredentialRefreshRefinement, TLAPS

USE NoRunAssumption, NamedAssumption, PinnedAssumption, MaxTokenAssumption

\* Every variable of the coordinator, of a request and of a run keeps its
\* type: take, sign, answer and refresh write nothing else.
THEOREM TypeCorrect == Spec => []TypeOK
<1>1. Init => TypeOK
  <2> SUFFICES ASSUME Init PROVE TypeOK
    OBVIOUS
  <2> USE DEF Init
  <2>1. /\ refreshes \in Nat /\ runs \in Nat /\ credential \in Nat
        /\ token \in Nat \ {0} /\ inFlight \in Requests \cup {NoRun}
    OBVIOUS
  <2>2. renewed \in BOOLEAN /\ busy \in BOOLEAN
    BY Zenon
  <2>3. /\ pc \in [Requests -> RequestPC] /\ rpc \in [Requests -> RunPC]
        /\ outcome \in [Requests -> Outcome]
    BY DEF RequestPC, RunPC, Outcome, Taking
  <2>4. /\ attempt \in [Requests -> {1, 2}] /\ held \in [Requests -> Nat]
        /\ signedWith \in [Requests -> Nat] /\ rejected \in [Requests -> Nat]
        /\ waits \in [Requests -> Requests \cup {NoRun}]
    OBVIOUS
  <2>5. gen \in [Requests -> Generation] /\ from \in [Requests -> Generation]
    BY DEF Generation
  <2>q. QED
    BY <2>1, <2>2, <2>3, <2>4, <2>5 DEF TypeOK
<1>2. TypeOK /\ [Next]_vars => TypeOK'
  <2> SUFFICES ASSUME TypeOK, [Next]_vars PROVE TypeOK'
    OBVIOUS
  <2> USE DEF TypeOK, Generation, RequestPC, RunPC, Outcome, Taking, Terminal,
    coordinator, request, refreshRun
  <2>1. ASSUME NEW q \in Requests, TakeTurn(q) PROVE TypeOK'
    BY <2>1 DEF TakeTurn, SignerMayTake
  <2>2. ASSUME NEW q \in Requests, SleepOnTurn(q) PROVE TypeOK'
    BY <2>2 DEF SleepOnTurn
  <2>3. ASSUME NEW q \in Requests, SleepOnRefresh(q) PROVE TypeOK'
    BY <2>3 DEF SleepOnRefresh
  <2>4. ASSUME NEW q \in Requests, WakeFromRefresh(q) PROVE TypeOK'
    BY <2>4 DEF WakeFromRefresh
  <2>5. ASSUME NEW q \in Requests, AbandonSigning(q) PROVE TypeOK'
    BY <2>5 DEF AbandonSigning
  <2>6. ASSUME NEW q \in Requests, Authenticate(q) PROVE TypeOK'
    BY <2>6 DEF Authenticate
  <2>7. ASSUME NEW q \in Requests, AuthenticateFails(q) PROVE TypeOK'
    BY <2>7 DEF AuthenticateFails, Give, Wake
  <2>8. ASSUME NEW q \in Requests, FinishSigning(q) PROVE TypeOK'
    <3>1. refreshes' \in Nat /\ runs' \in Nat /\ credential' \in Nat
      BY <2>8 DEF FinishSigning
    <3>2. pc' \in [Requests -> RequestPC] /\ rpc' \in [Requests -> RunPC]
      BY <2>8 DEF FinishSigning, Give, Wake
    <3>3. gen' \in [Requests -> Generation]
      BY <2>8, <3>1 DEF FinishSigning, Stamp
    <3>4. signedWith' \in [Requests -> Nat] /\ busy' \in BOOLEAN
      BY <2>8 DEF FinishSigning, Give
    <3>q. QED
      BY <2>8, <3>1, <3>2, <3>3, <3>4 DEF FinishSigning
  <2>9. ASSUME NEW q \in Requests, Respond(q) PROVE TypeOK'
    BY <2>9 DEF Respond
  <2>10. ASSUME NEW q \in Requests, Reject(q) PROVE TypeOK'
    BY <2>10 DEF Reject
  <2>11. ASSUME NEW q \in Requests, AnswerOvertaken(q) PROVE TypeOK'
    BY <2>11 DEF AnswerOvertaken, Told
  <2>12. ASSUME NEW q \in Requests, AnswerShared(q) PROVE TypeOK'
    BY <2>12 DEF AnswerShared, Told
  <2>13. ASSUME NEW q \in Requests, StartRefresh(q) PROVE TypeOK'
    BY <2>13 DEF StartRefresh, AlreadyFailed
  <2>14. ASSUME NEW q \in Requests, JoinRefresh(q) PROVE TypeOK'
    BY <2>14 DEF JoinRefresh
  <2>15. ASSUME NEW q \in Requests, TakeRunsAnswer(q) PROVE TypeOK'
    BY <2>15 DEF TakeRunsAnswer, Told, RunRenewed, OwnRun
  <2>16. ASSUME NEW q \in Requests, AskAgain(q) PROVE TypeOK'
    BY <2>16 DEF AskAgain, OwnRun
  <2>17. ASSUME NEW q \in Requests, AbandonAnswer(q) PROVE TypeOK'
    BY <2>17 DEF AbandonAnswer
  <2>18. ASSUME NEW x \in Requests, RunSleeps(x) PROVE TypeOK'
    BY <2>18 DEF RunSleeps
  <2>19. ASSUME NEW x \in Requests, RunGivesUp(x) PROVE TypeOK'
    BY <2>19 DEF RunGivesUp
  <2>20. ASSUME NEW x \in Requests, RunOvertaken(x) PROVE TypeOK'
    BY <2>20 DEF RunOvertaken, Give, Wake, Overtaken
  <2>21. ASSUME NEW x \in Requests, RunTakesTurn(x) PROVE TypeOK'
    BY <2>21 DEF RunTakesTurn
  <2>22. ASSUME NEW x \in Requests, AskProvider(x) PROVE TypeOK'
    BY <2>22 DEF AskProvider
  <2>23. ASSUME NEW x \in Requests, RefresherRenews(x) PROVE TypeOK'
    BY <2>23 DEF RefresherRenews
  <2>24. ASSUME NEW x \in Requests, RefresherFails(x) PROVE TypeOK'
    BY <2>24 DEF RefresherFails
  <2>25. ASSUME NEW x \in Requests, FinishRun(x) PROVE TypeOK'
    <3>1. refreshes' \in Nat /\ runs' \in Nat /\ credential' \in Nat
      BY <2>25 DEF FinishRun, CountAnswer
    <3>2. pc' \in [Requests -> RequestPC] /\ rpc' \in [Requests -> RunPC]
      BY <2>25 DEF FinishRun, Give, Wake
    <3>3. renewed' \in BOOLEAN
      <4>1. renewed' = RunRenewed(x)
        BY <2>25 DEF FinishRun, CountAnswer
      <4>q. QED
        BY <4>1 DEF RunRenewed
    <3>4. busy' \in BOOLEAN
      BY <2>25, Zenon DEF FinishRun, Give
    <3>q. QED
      BY <2>25, <3>1, <3>2, <3>3, <3>4 DEF FinishRun
  <2>26. ASSUME NEW x \in Requests, CloseRun(x) PROVE TypeOK'
    BY <2>26 DEF CloseRun
  <2>27. CASE ProviderRenews
    BY <2>27 DEF ProviderRenews
  <2>28. CASE UNCHANGED vars
    BY <2>28 DEF vars
  <2>q. QED
    BY <2>1, <2>2, <2>3, <2>4, <2>5, <2>6, <2>7, <2>8, <2>9, <2>10, <2>11,
      <2>12, <2>13, <2>14, <2>15, <2>16, <2>17, <2>18, <2>19, <2>20, <2>21,
        <2>22, <2>23, <2>24, <2>25, <2>26, <2>27, <2>28 DEF Next, Sign, Ask,
          Refresh, Done
<1>3. QED
  BY <1>1, <1>2, PTL DEF Spec

\* The turn and the one run in flight go together: RunTakesTurn is barred by
\* busy, TakeTurn by busy and inFlight.
TurnInv == TurnIsExclusive /\ OneLiveRun

\* take and give keep the turn exclusive, and inFlight names the live run:
\* StartRefresh is the only start and needs inFlight = nil.
LEMMA TurnIsKept == Spec => []TurnInv
<1>1. Init => TurnInv
  BY DEF Init, TurnInv, TurnIsExclusive, OneLiveRun, Signing, Renewing, Live,
    Taking
<1>2. TypeOK /\ TurnInv /\ [Next]_vars => TurnInv'
  <2> SUFFICES ASSUME TypeOK, TurnInv, [Next]_vars PROVE TurnInv'
    OBVIOUS
  <2> USE DEF TypeOK, TurnInv, TurnIsExclusive, OneLiveRun, Signing, Renewing,
    Live, Taking, coordinator, request, refreshRun
  <2>1. ASSUME NEW q \in Requests, TakeTurn(q) PROVE TurnInv'
    BY <2>1 DEF TakeTurn, SignerMayTake
  <2>2. ASSUME NEW q \in Requests, SleepOnTurn(q) PROVE TurnInv'
    BY <2>2 DEF SleepOnTurn
  <2>3. ASSUME NEW q \in Requests, SleepOnRefresh(q) PROVE TurnInv'
    BY <2>3 DEF SleepOnRefresh
  <2>4. ASSUME NEW q \in Requests, WakeFromRefresh(q) PROVE TurnInv'
    BY <2>4 DEF WakeFromRefresh
  <2>5. ASSUME NEW q \in Requests, AbandonSigning(q) PROVE TurnInv'
    BY <2>5 DEF AbandonSigning
  <2>6. ASSUME NEW q \in Requests, Authenticate(q) PROVE TurnInv'
    BY <2>6 DEF Authenticate
  <2>7. ASSUME NEW q \in Requests, AuthenticateFails(q) PROVE TurnInv'
    BY <2>7 DEF AuthenticateFails, Give, Wake
  <2>8. ASSUME NEW q \in Requests, FinishSigning(q) PROVE TurnInv'
    BY <2>8 DEF FinishSigning, Give, Wake, Stamp, ProviderRenewed
  <2>9. ASSUME NEW q \in Requests, Respond(q) PROVE TurnInv'
    BY <2>9 DEF Respond
  <2>10. ASSUME NEW q \in Requests, Reject(q) PROVE TurnInv'
    BY <2>10 DEF Reject
  <2>11. ASSUME NEW q \in Requests, AnswerOvertaken(q) PROVE TurnInv'
    BY <2>11 DEF AnswerOvertaken, Told
  <2>12. ASSUME NEW q \in Requests, AnswerShared(q) PROVE TurnInv'
    BY <2>12 DEF AnswerShared, Told
  <2>13. ASSUME NEW q \in Requests, StartRefresh(q) PROVE TurnInv'
    BY <2>13 DEF StartRefresh, AlreadyFailed
  <2>14. ASSUME NEW q \in Requests, JoinRefresh(q) PROVE TurnInv'
    BY <2>14 DEF JoinRefresh
  <2>15. ASSUME NEW q \in Requests, TakeRunsAnswer(q) PROVE TurnInv'
    BY <2>15 DEF TakeRunsAnswer, Told, RunRenewed, OwnRun
  <2>16. ASSUME NEW q \in Requests, AskAgain(q) PROVE TurnInv'
    BY <2>16 DEF AskAgain, OwnRun
  <2>17. ASSUME NEW q \in Requests, AbandonAnswer(q) PROVE TurnInv'
    BY <2>17 DEF AbandonAnswer
  <2>18. ASSUME NEW x \in Requests, RunSleeps(x) PROVE TurnInv'
    BY <2>18 DEF RunSleeps
  <2>19. ASSUME NEW x \in Requests, RunGivesUp(x) PROVE TurnInv'
    BY <2>19 DEF RunGivesUp
  <2>20. ASSUME NEW x \in Requests, RunOvertaken(x) PROVE TurnInv'
    BY <2>20 DEF RunOvertaken, Give, Wake, Overtaken
  <2>21. ASSUME NEW x \in Requests, RunTakesTurn(x) PROVE TurnInv'
    BY <2>21 DEF RunTakesTurn
  <2>22. ASSUME NEW x \in Requests, AskProvider(x) PROVE TurnInv'
    BY <2>22 DEF AskProvider
  <2>23. ASSUME NEW x \in Requests, RefresherRenews(x) PROVE TurnInv'
    BY <2>23 DEF RefresherRenews
  <2>24. ASSUME NEW x \in Requests, RefresherFails(x) PROVE TurnInv'
    BY <2>24 DEF RefresherFails
  <2>25. ASSUME NEW x \in Requests, FinishRun(x) PROVE TurnInv'
    BY <2>25 DEF FinishRun, Give, Wake, CountAnswer, RunRenewed
  <2>26. ASSUME NEW x \in Requests, CloseRun(x) PROVE TurnInv'
    BY <2>26 DEF CloseRun
  <2>27. CASE ProviderRenews
    BY <2>27 DEF ProviderRenews
  <2>28. CASE UNCHANGED vars
    BY <2>28 DEF vars
  <2>q. QED
    BY <2>1, <2>2, <2>3, <2>4, <2>5, <2>6, <2>7, <2>8, <2>9, <2>10, <2>11,
      <2>12, <2>13, <2>14, <2>15, <2>16, <2>17, <2>18, <2>19, <2>20, <2>21,
        <2>22, <2>23, <2>24, <2>25, <2>26, <2>27, <2>28 DEF Next, Sign, Ask,
          Refresh, Done
<1>3. QED
  BY <1>1, <1>2, TypeCorrect, PTL DEF Spec

\* Signing and refreshing go one at a time and never together (take, give),
\* and busy says exactly whether one of them holds the turn.
THEOREM TurnExclusion == Spec => []TurnIsExclusive
<1>1. TurnInv => TurnIsExclusive
  BY DEF TurnInv
<1>q. QED
  BY <1>1, TurnIsKept, PTL

\* A request starts a run only from its first 401 and waits for that one, so
\* it starts at most one: the model may name a run by its request.
LEMMA RunsAndRequestsAreKept == Spec => []RunsAndRequests
<1>1. Init => RunsAndRequests
  BY DEF Init, RunsAndRequests, TurnInv, TurnIsExclusive, OneLiveRun, Signing,
    Renewing, Live, Taking, Terminal
<1>2. TypeOK /\ TurnInv /\ RunsAndRequests /\ [Next]_vars => RunsAndRequests'
  <2> SUFFICES ASSUME TypeOK, TurnInv, RunsAndRequests,
    [Next]_vars PROVE RunsAndRequests'
    OBVIOUS
  <2> USE DEF TypeOK, coordinator, request, refreshRun, RunsAndRequests,
    TurnInv, TurnIsExclusive, OneLiveRun, Signing, Renewing, Live, Taking,
      Terminal
  <2>1. ASSUME NEW q \in Requests, TakeTurn(q) PROVE RunsAndRequests'
    BY <2>1 DEF TakeTurn, SignerMayTake
  <2>2. ASSUME NEW q \in Requests, SleepOnTurn(q) PROVE RunsAndRequests'
    BY <2>2 DEF SleepOnTurn
  <2>3. ASSUME NEW q \in Requests, SleepOnRefresh(q) PROVE RunsAndRequests'
    BY <2>3 DEF SleepOnRefresh
  <2>4. ASSUME NEW q \in Requests, WakeFromRefresh(q) PROVE RunsAndRequests'
    BY <2>4 DEF WakeFromRefresh
  <2>5. ASSUME NEW q \in Requests, AbandonSigning(q) PROVE RunsAndRequests'
    BY <2>5 DEF AbandonSigning
  <2>6. ASSUME NEW q \in Requests, Authenticate(q) PROVE RunsAndRequests'
    BY <2>6 DEF Authenticate
  <2>7. ASSUME NEW q \in Requests, AuthenticateFails(q) PROVE RunsAndRequests'
    BY <2>7 DEF AuthenticateFails, Give, Wake
  <2>8. ASSUME NEW q \in Requests, FinishSigning(q) PROVE RunsAndRequests'
    BY <2>8 DEF FinishSigning, Give, Wake, Stamp, ProviderRenewed
  <2>9. ASSUME NEW q \in Requests, Respond(q) PROVE RunsAndRequests'
    BY <2>9 DEF Respond
  <2>10. ASSUME NEW q \in Requests, Reject(q) PROVE RunsAndRequests'
    BY <2>10 DEF Reject
  <2>11. ASSUME NEW q \in Requests, AnswerOvertaken(q) PROVE RunsAndRequests'
    BY <2>11 DEF AnswerOvertaken, Told
  <2>12. ASSUME NEW q \in Requests, AnswerShared(q) PROVE RunsAndRequests'
    BY <2>12 DEF AnswerShared, Told
  <2>13. ASSUME NEW q \in Requests, StartRefresh(q) PROVE RunsAndRequests'
    BY <2>13 DEF StartRefresh, AlreadyFailed
  <2>14. ASSUME NEW q \in Requests, JoinRefresh(q) PROVE RunsAndRequests'
    BY <2>14 DEF JoinRefresh
  <2>15. ASSUME NEW q \in Requests, TakeRunsAnswer(q) PROVE RunsAndRequests'
    BY <2>15 DEF TakeRunsAnswer, Told, RunRenewed, OwnRun
  <2>16. ASSUME NEW q \in Requests, AskAgain(q) PROVE RunsAndRequests'
    BY <2>16 DEF AskAgain, OwnRun
  <2>17. ASSUME NEW q \in Requests, AbandonAnswer(q) PROVE RunsAndRequests'
    BY <2>17 DEF AbandonAnswer
  <2>18. ASSUME NEW x \in Requests, RunSleeps(x) PROVE RunsAndRequests'
    BY <2>18 DEF RunSleeps
  <2>19. ASSUME NEW x \in Requests, RunGivesUp(x) PROVE RunsAndRequests'
    BY <2>19 DEF RunGivesUp
  <2>20. ASSUME NEW x \in Requests, RunOvertaken(x) PROVE RunsAndRequests'
    BY <2>20 DEF RunOvertaken, Give, Wake, Overtaken
  <2>21. ASSUME NEW x \in Requests, RunTakesTurn(x) PROVE RunsAndRequests'
    BY <2>21 DEF RunTakesTurn
  <2>22. ASSUME NEW x \in Requests, AskProvider(x) PROVE RunsAndRequests'
    BY <2>22 DEF AskProvider
  <2>23. ASSUME NEW x \in Requests, RefresherRenews(x) PROVE RunsAndRequests'
    BY <2>23 DEF RefresherRenews
  <2>24. ASSUME NEW x \in Requests, RefresherFails(x) PROVE RunsAndRequests'
    BY <2>24 DEF RefresherFails
  <2>25. ASSUME NEW x \in Requests, FinishRun(x) PROVE RunsAndRequests'
    BY <2>25 DEF FinishRun, Give, Wake, CountAnswer, RunRenewed
  <2>26. ASSUME NEW x \in Requests, CloseRun(x) PROVE RunsAndRequests'
    BY <2>26 DEF CloseRun
  <2>27. CASE ProviderRenews
    BY <2>27 DEF ProviderRenews
  <2>28. CASE UNCHANGED vars
    BY <2>28 DEF vars
  <2>q. QED
    BY <2>1, <2>2, <2>3, <2>4, <2>5, <2>6, <2>7, <2>8, <2>9, <2>10, <2>11,
      <2>12, <2>13, <2>14, <2>15, <2>16, <2>17, <2>18, <2>19, <2>20, <2>21,
        <2>22, <2>23, <2>24, <2>25, <2>26, <2>27, <2>28 DEF Next, Sign, Ask,
          Refresh, Done
<1>3. QED
  BY <1>1, <1>2, TypeCorrect, TurnIsKept, PTL DEF Spec

\* Arithmetic: a count at most another and not equal to it is below it.
LEMMA AtMostAndOther ==
  \A m, n \in Nat : m <= n /\ n # m => m < n
  OBVIOUS

\* A request about to start a refresh has not started one before: answer
\* is asked once, on the first 401.
LEMMA NotStartedYet ==
  ASSUME RunsAndRequests, NEW q \in Requests, pc[q] = "answering"
  PROVE  rpc[q] = "none" /\ outcome[q] = "none"
<1>1. attempt[q] = 1
  BY DEF RunsAndRequests
<1>2. rpc[q] = "none"
  BY <1>1 DEF RunsAndRequests, Terminal
<1>q. QED
  BY <1>2 DEF RunsAndRequests

\* A run that is over and did not renew failed or gave up: refresh has no
\* other way out.
LEMMA NotRenewed ==
  ASSUME TypeOK, RunsAndRequests, NEW x \in Requests, rpc[x] = "done",
         ~RunRenewed(x)
  PROVE  outcome[x] \in {"failed", "gaveUp"}
<1>1. outcome[x] # "none"
  BY DEF RunsAndRequests
<1>2. outcome[x] \in Outcome
  BY DEF TypeOK
<1>q. QED
  BY <1>1, <1>2 DEF Outcome, RunRenewed

\* A failed run is counted in runs and not in refreshes.
LEMMA FailureIsCounted ==
  ASSUME NEW x \in Requests, FinishRun(x), outcome[x] = "failed",
         refreshes \in Nat
  PROVE  refreshes' = refreshes /\ runs' = runs + 1 /\ renewed' = FALSE
<1>1. ~RunRenewed(x)
  BY DEF RunRenewed
<1>2. /\ refreshes' = refreshes + (IF RunRenewed(x) THEN 1 ELSE 0)
      /\ runs' = runs + 1 /\ renewed' = RunRenewed(x)
  BY DEF FinishRun, CountAnswer
<1>3. renewed' = FALSE
  BY <1>1, <1>2
<1>q. QED
  BY <1>1, <1>2, <1>3

\* The counts only grow, and a generation that was tried and not renewed has
\* its failed run to show for it, in answer and refresh alike.
LEMMA CountsAreKept == Spec => []CountsInOrder
<1>1. Init => CountsInOrder
  <2> SUFFICES ASSUME Init, NEW q \in Requests
               PROVE  RequestCounts(q) /\ RunCounts(q)
    BY DEF CountsInOrder
  <2>1. RequestCounts(q)
    BY DEF Init, RequestCounts
  <2>2. RunCounts(q)
    <3>1. rpc[q] = "none"
      BY DEF Init
    <3>q. QED
      BY <3>1 DEF RunCounts, Live, Taking, Renewing, Ended
  <2>q. QED
    BY <2>1, <2>2
<1>2. TypeOK /\ TurnInv /\ RunsAndRequests /\ CountsInOrder /\ [Next]_vars
        => CountsInOrder'
  <2> SUFFICES ASSUME TypeOK, TurnInv, RunsAndRequests, CountsInOrder,
    [Next]_vars PROVE CountsInOrder'
    OBVIOUS
  <2> USE DEF TypeOK, coordinator, request, refreshRun, CountsInOrder,
    RequestCounts, RunCounts, RunsAndRequests, TurnInv, TurnIsExclusive,
      OneLiveRun, Signing, Renewing, Live, Taking, Terminal, Ended,
        RunRenewed, Generation
  <2>1. ASSUME NEW q \in Requests, TakeTurn(q) PROVE CountsInOrder'
    BY <2>1 DEF TakeTurn, SignerMayTake
  <2>2. ASSUME NEW q \in Requests, SleepOnTurn(q) PROVE CountsInOrder'
    BY <2>2 DEF SleepOnTurn
  <2>3. ASSUME NEW q \in Requests, SleepOnRefresh(q) PROVE CountsInOrder'
    BY <2>3 DEF SleepOnRefresh
  <2>4. ASSUME NEW q \in Requests, WakeFromRefresh(q) PROVE CountsInOrder'
    BY <2>4 DEF WakeFromRefresh
  <2>5. ASSUME NEW q \in Requests, AbandonSigning(q) PROVE CountsInOrder'
    BY <2>5 DEF AbandonSigning
  <2>6. ASSUME NEW q \in Requests, Authenticate(q) PROVE CountsInOrder'
    BY <2>6 DEF Authenticate
  <2>7. ASSUME NEW q \in Requests, AuthenticateFails(q) PROVE CountsInOrder'
    BY <2>7 DEF AuthenticateFails, Give, Wake
  <2>8. ASSUME NEW q \in Requests, FinishSigning(q) PROVE CountsInOrder'
    <3>1. ASSUME NEW r \in Requests PROVE RequestCounts(r)'
      BY <2>8 DEF FinishSigning, Give, Wake, Stamp, ProviderRenewed
    <3>2. ASSUME NEW r \in Requests PROVE RunCounts(r)'
      BY <2>8 DEF FinishSigning, Give, Wake, Stamp, ProviderRenewed
    <3>q. QED
      BY <3>1, <3>2
  <2>9. ASSUME NEW q \in Requests, Respond(q) PROVE CountsInOrder'
    BY <2>9 DEF Respond
  <2>10. ASSUME NEW q \in Requests, Reject(q) PROVE CountsInOrder'
    BY <2>10 DEF Reject
  <2>11. ASSUME NEW q \in Requests, AnswerOvertaken(q) PROVE CountsInOrder'
    BY <2>11 DEF AnswerOvertaken, Told
  <2>12. ASSUME NEW q \in Requests, AnswerShared(q) PROVE CountsInOrder'
    BY <2>12 DEF AnswerShared, Told
  <2>13. ASSUME NEW q \in Requests, StartRefresh(q) PROVE CountsInOrder'
    <3>1. ASSUME NEW r \in Requests PROVE RequestCounts(r)'
      <4>1. rpc[q] = "none"
        BY <2>13 DEF StartRefresh
      <4>2. ASSUME NEW x \in Requests, Ended(x), outcome[x] = "failed"
            PROVE  Ended(x)' /\ outcome'[x] = "failed" /\ from'[x] = from[x]
        BY <2>13, <4>1, <4>2 DEF StartRefresh
      <4>3. /\ refreshes' = refreshes /\ runs' = runs /\ renewed' = renewed
            /\ gen' = gen
        BY <2>13 DEF StartRefresh
      <4>q. QED
        BY <4>2, <4>3
    <3>2. ASSUME NEW r \in Requests PROVE RunCounts(r)'
      BY <2>13 DEF StartRefresh, AlreadyFailed
    <3>q. QED
      BY <3>1, <3>2
  <2>14. ASSUME NEW q \in Requests, JoinRefresh(q) PROVE CountsInOrder'
    BY <2>14 DEF JoinRefresh
  <2>15. ASSUME NEW q \in Requests, TakeRunsAnswer(q) PROVE CountsInOrder'
    BY <2>15 DEF TakeRunsAnswer, Told, RunRenewed, OwnRun
  <2>16. ASSUME NEW q \in Requests, AskAgain(q) PROVE CountsInOrder'
    BY <2>16 DEF AskAgain, OwnRun
  <2>17. ASSUME NEW q \in Requests, AbandonAnswer(q) PROVE CountsInOrder'
    BY <2>17 DEF AbandonAnswer
  <2>18. ASSUME NEW x \in Requests, RunSleeps(x) PROVE CountsInOrder'
    BY <2>18 DEF RunSleeps
  <2>19. ASSUME NEW x \in Requests, RunGivesUp(x) PROVE CountsInOrder'
    BY <2>19 DEF RunGivesUp
  <2>20. ASSUME NEW x \in Requests, RunOvertaken(x) PROVE CountsInOrder'
    <3>1. ASSUME NEW r \in Requests PROVE RequestCounts(r)'
      BY <2>20 DEF RunOvertaken, Give, Wake, Overtaken
    <3>2. ASSUME NEW r \in Requests PROVE RunCounts(r)'
      <4>1. from[x].refreshes < refreshes
        <5>1. x \in Live /\ refreshes # from[x].refreshes
          BY <2>20 DEF RunOvertaken, Overtaken
        <5>2. from[x].refreshes <= refreshes
          BY <5>1
        <5>3. from[x].refreshes \in Nat /\ refreshes \in Nat
          OBVIOUS
        <5>q. QED
          BY <5>1, <5>2, <5>3, AtMostAndOther
      <4>2. CASE r = x
        BY <2>20, <4>1, <4>2 DEF RunOvertaken, Give, Wake
      <4>3. CASE r # x
        <5>1. r \notin Live
          BY <2>20, <4>3 DEF RunOvertaken
        <5>2. rpc'[r] = rpc[r] /\ outcome'[r] = outcome[r]
          BY <2>20, <4>3, <5>1 DEF RunOvertaken, Give, Wake
        <5>3. RunCounts(r)
          OBVIOUS
        <5>q. QED
          BY <2>20, <5>1, <5>2, <5>3 DEF RunOvertaken
      <4>q. QED
        BY <4>2, <4>3
    <3>q. QED
      BY <3>1, <3>2
  <2>21. ASSUME NEW x \in Requests, RunTakesTurn(x) PROVE CountsInOrder'
    <3>1. ASSUME NEW r \in Requests PROVE RequestCounts(r)'
      BY <2>21 DEF RunTakesTurn
    <3>2. ASSUME NEW r \in Requests PROVE RunCounts(r)'
      <4>1. CASE r = x
        BY <2>21, <4>1 DEF RunTakesTurn, Overtaken
      <4>2. CASE r # x
        <5>1. r \notin Live
          BY <2>21, <4>2 DEF RunTakesTurn
        <5>2. rpc'[r] = rpc[r]
          BY <2>21, <4>2 DEF RunTakesTurn
        <5>3. RunCounts(r)
          OBVIOUS
        <5>q. QED
          BY <2>21, <5>1, <5>2, <5>3 DEF RunTakesTurn
      <4>q. QED
        BY <4>1, <4>2
    <3>q. QED
      BY <3>1, <3>2
  <2>22. ASSUME NEW x \in Requests, AskProvider(x) PROVE CountsInOrder'
    BY <2>22 DEF AskProvider
  <2>23. ASSUME NEW x \in Requests, RefresherRenews(x) PROVE CountsInOrder'
    BY <2>23 DEF RefresherRenews
  <2>24. ASSUME NEW x \in Requests, RefresherFails(x) PROVE CountsInOrder'
    BY <2>24 DEF RefresherFails
  <2>25. ASSUME NEW x \in Requests, FinishRun(x) PROVE CountsInOrder'
    <3>1. ASSUME NEW r \in Requests PROVE RequestCounts(r)'
      <4>1. /\ x \in Live /\ x \in Renewing /\ from[x].refreshes = refreshes
            /\ from[x].runs = runs
        BY <2>25 DEF FinishRun
      <4>2. /\ rpc'[x] = "closing" /\ gen' = gen /\ from' = from
            /\ outcome' = outcome
        BY <2>25 DEF FinishRun, Give, Wake
      <4>3. ASSUME NEW y \in Requests, Ended(y) PROVE Ended(y)'
        BY <2>25, <4>3 DEF FinishRun, Give, Wake
      <4>4. CASE outcome[x] = "renewed"
        <5>1. refreshes' = refreshes + 1 /\ runs' = runs + 1
          BY <2>25, <4>4 DEF FinishRun, CountAnswer
        <5>q. QED
          BY <4>2, <5>1
      <4>5. CASE outcome[x] = "failed"
        <5>1. refreshes' = refreshes /\ runs' = runs + 1 /\ renewed' = FALSE
          BY <2>25, <4>5, FailureIsCounted
        <5>2. CASE refreshes = gen[r].refreshes /\ runs = gen[r].runs
          <6>1. from[x] = gen[r]
            BY <4>1, <5>2
          <6>q. QED
            BY <4>2, <4>5, <5>1, <6>1
        <5>3. CASE refreshes = gen[r].refreshes /\ runs # gen[r].runs
          BY <4>2, <4>3, <5>1, <5>3
        <5>4. CASE refreshes # gen[r].refreshes
          BY <4>2, <5>1, <5>4
        <5>q. QED
          BY <5>2, <5>3, <5>4
      <4>q. QED
        BY <2>25, <4>4, <4>5 DEF FinishRun
    <3>2. ASSUME NEW r \in Requests PROVE RunCounts(r)'
      BY <2>25 DEF FinishRun, Give, Wake, CountAnswer, RunRenewed
    <3>q. QED
      BY <3>1, <3>2
  <2>26. ASSUME NEW x \in Requests, CloseRun(x) PROVE CountsInOrder'
    BY <2>26 DEF CloseRun
  <2>27. CASE ProviderRenews
    BY <2>27 DEF ProviderRenews
  <2>28. CASE UNCHANGED vars
    BY <2>28 DEF vars
  <2>q. QED
    BY <2>1, <2>2, <2>3, <2>4, <2>5, <2>6, <2>7, <2>8, <2>9, <2>10, <2>11,
      <2>12, <2>13, <2>14, <2>15, <2>16, <2>17, <2>18, <2>19, <2>20, <2>21,
        <2>22, <2>23, <2>24, <2>25, <2>26, <2>27, <2>28 DEF Next, Sign, Ask,
          Refresh, Done
<1>3. QED
  BY <1>1, <1>2, TypeCorrect, TurnIsKept, RunsAndRequestsAreKept, PTL DEF Spec

\* "A refresh runs once for all the requests the stale credentials earned it
\* on": no two runs renew for one generation, failures included.
THEOREM OneRefresh == Spec => []OneRefreshPerGeneration
<1>1. Init => OneRefreshPerGeneration
  BY DEF Init, OneRefreshPerGeneration, Ran, RunsAndRequests, CountsInOrder,
    RequestCounts, RunCounts, TurnInv, TurnIsExclusive, OneLiveRun, Signing,
      Renewing, Live, Taking, Terminal, Ended, RunRenewed, Generation
<1>2. TypeOK /\ TurnInv /\ RunsAndRequests /\ CountsInOrder /\
        OneRefreshPerGeneration /\ [Next]_vars
        => OneRefreshPerGeneration'
  <2> SUFFICES ASSUME TypeOK, TurnInv, RunsAndRequests, CountsInOrder,
    OneRefreshPerGeneration, [Next]_vars PROVE OneRefreshPerGeneration'
    OBVIOUS
  <2> USE DEF TypeOK, coordinator, request, refreshRun,
    OneRefreshPerGeneration, Ran, RunsAndRequests, CountsInOrder,
      RequestCounts, RunCounts, TurnInv, TurnIsExclusive, OneLiveRun, Signing,
        Renewing, Live, Taking, Terminal, Ended, RunRenewed, Generation
  <2>1. ASSUME NEW q \in Requests, TakeTurn(q) PROVE OneRefreshPerGeneration'
    BY <2>1 DEF TakeTurn, SignerMayTake
  <2>2. ASSUME NEW q \in Requests, SleepOnTurn(q) PROVE OneRefreshPerGeneration'
    BY <2>2 DEF SleepOnTurn
  <2>3. ASSUME NEW q \in Requests,
    SleepOnRefresh(q) PROVE OneRefreshPerGeneration'
    BY <2>3 DEF SleepOnRefresh
  <2>4. ASSUME NEW q \in Requests,
    WakeFromRefresh(q) PROVE OneRefreshPerGeneration'
    BY <2>4 DEF WakeFromRefresh
  <2>5. ASSUME NEW q \in Requests,
    AbandonSigning(q) PROVE OneRefreshPerGeneration'
    BY <2>5 DEF AbandonSigning
  <2>6. ASSUME NEW q \in Requests,
    Authenticate(q) PROVE OneRefreshPerGeneration'
    BY <2>6 DEF Authenticate
  <2>7. ASSUME NEW q \in Requests,
    AuthenticateFails(q) PROVE OneRefreshPerGeneration'
    BY <2>7 DEF AuthenticateFails, Give, Wake
  <2>8. ASSUME NEW q \in Requests,
    FinishSigning(q) PROVE OneRefreshPerGeneration'
    BY <2>8 DEF FinishSigning, Give, Wake, Stamp, ProviderRenewed
  <2>9. ASSUME NEW q \in Requests, Respond(q) PROVE OneRefreshPerGeneration'
    BY <2>9 DEF Respond
  <2>10. ASSUME NEW q \in Requests, Reject(q) PROVE OneRefreshPerGeneration'
    BY <2>10 DEF Reject
  <2>11. ASSUME NEW q \in Requests,
    AnswerOvertaken(q) PROVE OneRefreshPerGeneration'
    BY <2>11 DEF AnswerOvertaken, Told
  <2>12. ASSUME NEW q \in Requests,
    AnswerShared(q) PROVE OneRefreshPerGeneration'
    BY <2>12 DEF AnswerShared, Told
  <2>13. ASSUME NEW q \in Requests,
    StartRefresh(q) PROVE OneRefreshPerGeneration'
    <3>1. rpc[q] = "none" /\ outcome[q] = "none"
      BY <2>13, NotStartedYet DEF StartRefresh
    <3>2. \A x \in Requests : Ran(x)' => Ran(x) /\ x # q /\ from'[x] = from[x]
      BY <2>13, <3>1 DEF StartRefresh
    <3>q. QED
      BY <3>2
  <2>14. ASSUME NEW q \in Requests,
    JoinRefresh(q) PROVE OneRefreshPerGeneration'
    BY <2>14 DEF JoinRefresh
  <2>15. ASSUME NEW q \in Requests,
    TakeRunsAnswer(q) PROVE OneRefreshPerGeneration'
    BY <2>15 DEF TakeRunsAnswer, Told, RunRenewed, OwnRun
  <2>16. ASSUME NEW q \in Requests, AskAgain(q) PROVE OneRefreshPerGeneration'
    BY <2>16 DEF AskAgain, OwnRun
  <2>17. ASSUME NEW q \in Requests,
    AbandonAnswer(q) PROVE OneRefreshPerGeneration'
    BY <2>17 DEF AbandonAnswer
  <2>18. ASSUME NEW x \in Requests, RunSleeps(x) PROVE OneRefreshPerGeneration'
    BY <2>18 DEF RunSleeps
  <2>19. ASSUME NEW x \in Requests, RunGivesUp(x) PROVE OneRefreshPerGeneration'
    BY <2>19 DEF RunGivesUp
  <2>20. ASSUME NEW x \in Requests,
    RunOvertaken(x) PROVE OneRefreshPerGeneration'
    BY <2>20 DEF RunOvertaken, Give, Wake, Overtaken
  <2>21. ASSUME NEW x \in Requests,
    RunTakesTurn(x) PROVE OneRefreshPerGeneration'
    <3>1. /\ x \in Live /\ from[x].refreshes = refreshes
          /\ from' = from /\ outcome' = outcome /\ outcome[x] = "none"
      BY <2>21 DEF RunTakesTurn, Overtaken
    <3>2. from[x].runs = runs
      BY <3>1
    <3>3. ASSUME NEW y \in Requests, Ran(y) PROVE from[y].runs < runs
      <4>1. Ended(y) /\ outcome[y] \in {"renewed", "failed"}
        BY <2>21, <3>3 DEF RunTakesTurn
      <4>q. QED
        BY <4>1
    <3>4. \A y \in Requests : Ran(y)' => Ran(y) \/ y = x
      BY <2>21 DEF RunTakesTurn
    <3>q. QED
      BY <3>1, <3>2, <3>3, <3>4
  <2>22. ASSUME NEW x \in Requests,
    AskProvider(x) PROVE OneRefreshPerGeneration'
    BY <2>22 DEF AskProvider
  <2>23. ASSUME NEW x \in Requests,
    RefresherRenews(x) PROVE OneRefreshPerGeneration'
    BY <2>23 DEF RefresherRenews
  <2>24. ASSUME NEW x \in Requests,
    RefresherFails(x) PROVE OneRefreshPerGeneration'
    BY <2>24 DEF RefresherFails
  <2>25. ASSUME NEW x \in Requests, FinishRun(x) PROVE OneRefreshPerGeneration'
    BY <2>25 DEF FinishRun, Give, Wake, CountAnswer, RunRenewed
  <2>26. ASSUME NEW x \in Requests, CloseRun(x) PROVE OneRefreshPerGeneration'
    BY <2>26 DEF CloseRun
  <2>27. CASE ProviderRenews
    BY <2>27 DEF ProviderRenews
  <2>28. CASE UNCHANGED vars
    BY <2>28 DEF vars
  <2>q. QED
    BY <2>1, <2>2, <2>3, <2>4, <2>5, <2>6, <2>7, <2>8, <2>9, <2>10, <2>11,
      <2>12, <2>13, <2>14, <2>15, <2>16, <2>17, <2>18, <2>19, <2>20, <2>21,
        <2>22, <2>23, <2>24, <2>25, <2>26, <2>27, <2>28 DEF Next, Sign, Ask,
          Refresh, Done
<1>3. QED
  BY <1>1, <1>2, TypeCorrect, TurnIsKept, RunsAndRequestsAreKept,
    CountsAreKept, PTL DEF Spec

\* answer gives a first 401 back only for a failed or abandoned refresh of
\* exactly the generation the request was signed under.
THEOREM RefusalsAreOwn == Spec => []RefusalIsOwn
<1>1. Init => RefusalIsOwn
  BY DEF Init, RefusalIsOwn, RunsAndRequests, CountsInOrder, RequestCounts,
    RunCounts, TurnInv, TurnIsExclusive, OneLiveRun, Signing, Renewing, Live,
      Taking, Terminal, Ended, RunRenewed, Generation
<1>2. TypeOK /\ TurnInv /\ RunsAndRequests /\ CountsInOrder /\ RefusalIsOwn /\
        [Next]_vars
        => RefusalIsOwn'
  <2> SUFFICES ASSUME TypeOK, TurnInv, RunsAndRequests, CountsInOrder,
    RefusalIsOwn, [Next]_vars PROVE RefusalIsOwn'
    OBVIOUS
  <2> USE DEF TypeOK, coordinator, request, refreshRun, RefusalIsOwn,
    RunsAndRequests, CountsInOrder, RequestCounts, RunCounts, TurnInv,
      TurnIsExclusive, OneLiveRun, Signing, Renewing, Live, Taking, Terminal,
        Ended, RunRenewed, Generation
  <2>1. ASSUME NEW q \in Requests, TakeTurn(q) PROVE RefusalIsOwn'
    BY <2>1 DEF TakeTurn, SignerMayTake
  <2>2. ASSUME NEW q \in Requests, SleepOnTurn(q) PROVE RefusalIsOwn'
    BY <2>2 DEF SleepOnTurn
  <2>3. ASSUME NEW q \in Requests, SleepOnRefresh(q) PROVE RefusalIsOwn'
    BY <2>3 DEF SleepOnRefresh
  <2>4. ASSUME NEW q \in Requests, WakeFromRefresh(q) PROVE RefusalIsOwn'
    BY <2>4 DEF WakeFromRefresh
  <2>5. ASSUME NEW q \in Requests, AbandonSigning(q) PROVE RefusalIsOwn'
    BY <2>5 DEF AbandonSigning
  <2>6. ASSUME NEW q \in Requests, Authenticate(q) PROVE RefusalIsOwn'
    BY <2>6 DEF Authenticate
  <2>7. ASSUME NEW q \in Requests, AuthenticateFails(q) PROVE RefusalIsOwn'
    BY <2>7 DEF AuthenticateFails, Give, Wake
  <2>8. ASSUME NEW q \in Requests, FinishSigning(q) PROVE RefusalIsOwn'
    BY <2>8 DEF FinishSigning, Give, Wake, Stamp, ProviderRenewed
  <2>9. ASSUME NEW q \in Requests, Respond(q) PROVE RefusalIsOwn'
    BY <2>9 DEF Respond
  <2>10. ASSUME NEW q \in Requests, Reject(q) PROVE RefusalIsOwn'
    BY <2>10 DEF Reject
  <2>11. ASSUME NEW q \in Requests, AnswerOvertaken(q) PROVE RefusalIsOwn'
    BY <2>11 DEF AnswerOvertaken, Told
  <2>12. ASSUME NEW q \in Requests, AnswerShared(q) PROVE RefusalIsOwn'
    <3>1. RequestCounts(q) /\ refreshes = gen[q].refreshes /\ runs # gen[q].runs
      BY <2>12 DEF AnswerShared, AlreadyFailed
    <3>2. \E x \in Requests : from[x] = gen[q] /\ outcome[x] = "failed"
      BY <3>1
    <3>3. gen' = gen /\ from' = from /\ outcome' = outcome
      BY <2>12 DEF AnswerShared, Told
    <3>4. \A r \in Requests : r # q => /\ pc'[r] = pc[r]
                                       /\ attempt'[r] = attempt[r]
      BY <2>12 DEF AnswerShared, Told
    <3>q. QED
      BY <3>2, <3>3, <3>4
  <2>13. ASSUME NEW q \in Requests, StartRefresh(q) PROVE RefusalIsOwn'
    <3>1. outcome[q] = "none"
      BY <2>13, NotStartedYet DEF StartRefresh
    <3>2. gen' = gen /\ outcome' = outcome
      BY <2>13 DEF StartRefresh
    <3>3. \A x \in Requests : x # q => from'[x] = from[x]
      BY <2>13 DEF StartRefresh
    <3>4. \A r \in Requests : pc'[r] = "refused" /\ attempt'[r] = 1
             => pc[r] = "refused" /\ attempt[r] = 1
      BY <2>13 DEF StartRefresh
    <3>5. \A x \in Requests : outcome[x] \in {"failed", "gaveUp"}
             => from'[x] = from[x]
      BY <3>1, <3>3
    <3>6. ASSUME NEW r \in Requests, pc'[r] = "refused", attempt'[r] = 1
          PROVE  \E x \in Requests : from'[x] = gen'[r]
                                    /\ outcome'[x] \in {"failed", "gaveUp"}
      <4>1. PICK x \in Requests : from[x] = gen[r]
                                  /\ outcome[x] \in {"failed", "gaveUp"}
        BY <3>4, <3>6
      <4> HIDE DEF TypeOK, RefusalIsOwn, RunsAndRequests, CountsInOrder,
        RequestCounts, RunCounts, TurnInv, TurnIsExclusive, OneLiveRun, Signing,
          Renewing, Live, Taking, Ended, RunRenewed, Generation
      <4>2. from'[x] = gen'[r]
        BY <3>2, <3>5, <4>1
      <4>3. outcome'[x] \in {"failed", "gaveUp"}
        BY <3>2, <4>1
      <4>q. QED
        BY <4>2, <4>3
    <3>q. QED
      BY <3>6
  <2>14. ASSUME NEW q \in Requests, JoinRefresh(q) PROVE RefusalIsOwn'
    BY <2>14 DEF JoinRefresh
  <2>15. ASSUME NEW q \in Requests, TakeRunsAnswer(q) PROVE RefusalIsOwn'
    <3>1. waits[q] \in Requests /\ from[waits[q]] = gen[q]
      BY <2>15 DEF TakeRunsAnswer, OwnRun
    <3>2. CASE RunRenewed(waits[q])
      BY <2>15, <3>2 DEF TakeRunsAnswer, Told
    <3>3. CASE ~RunRenewed(waits[q])
      <4>1. outcome[waits[q]] \in {"failed", "gaveUp"}
        BY <2>15, <3>1, <3>3, NotRenewed DEF TakeRunsAnswer
      <4>2. gen' = gen /\ from' = from /\ outcome' = outcome
        BY <2>15 DEF TakeRunsAnswer, Told
      <4>3. \A r \in Requests : r # q => /\ pc'[r] = pc[r]
                                         /\ attempt'[r] = attempt[r]
        BY <2>15 DEF TakeRunsAnswer, Told
      <4>q. QED
        BY <3>1, <4>1, <4>2, <4>3
    <3>q. QED
      BY <3>2, <3>3
  <2>16. ASSUME NEW q \in Requests, AskAgain(q) PROVE RefusalIsOwn'
    BY <2>16 DEF AskAgain, OwnRun
  <2>17. ASSUME NEW q \in Requests, AbandonAnswer(q) PROVE RefusalIsOwn'
    BY <2>17 DEF AbandonAnswer
  <2>18. ASSUME NEW x \in Requests, RunSleeps(x) PROVE RefusalIsOwn'
    BY <2>18 DEF RunSleeps
  <2>19. ASSUME NEW x \in Requests, RunGivesUp(x) PROVE RefusalIsOwn'
    BY <2>19 DEF RunGivesUp
  <2>20. ASSUME NEW x \in Requests, RunOvertaken(x) PROVE RefusalIsOwn'
    BY <2>20 DEF RunOvertaken, Give, Wake, Overtaken
  <2>21. ASSUME NEW x \in Requests, RunTakesTurn(x) PROVE RefusalIsOwn'
    BY <2>21 DEF RunTakesTurn
  <2>22. ASSUME NEW x \in Requests, AskProvider(x) PROVE RefusalIsOwn'
    BY <2>22 DEF AskProvider
  <2>23. ASSUME NEW x \in Requests, RefresherRenews(x) PROVE RefusalIsOwn'
    BY <2>23 DEF RefresherRenews
  <2>24. ASSUME NEW x \in Requests, RefresherFails(x) PROVE RefusalIsOwn'
    BY <2>24 DEF RefresherFails
  <2>25. ASSUME NEW x \in Requests, FinishRun(x) PROVE RefusalIsOwn'
    BY <2>25 DEF FinishRun, Give, Wake, CountAnswer, RunRenewed
  <2>26. ASSUME NEW x \in Requests, CloseRun(x) PROVE RefusalIsOwn'
    BY <2>26 DEF CloseRun
  <2>27. CASE ProviderRenews
    BY <2>27 DEF ProviderRenews
  <2>28. CASE UNCHANGED vars
    BY <2>28 DEF vars
  <2>q. QED
    BY <2>1, <2>2, <2>3, <2>4, <2>5, <2>6, <2>7, <2>8, <2>9, <2>10, <2>11,
      <2>12, <2>13, <2>14, <2>15, <2>16, <2>17, <2>18, <2>19, <2>20, <2>21,
        <2>22, <2>23, <2>24, <2>25, <2>26, <2>27, <2>28 DEF Next, Sign, Ask,
          Refresh, Done
<1>3. QED
  BY <1>1, <1>2, TypeCorrect, TurnIsKept, RunsAndRequestsAreKept,
    CountsAreKept, PTL DEF Spec

\* A request that answer told to sign again is behind the count of renewals.
LEMMA ResendsAreDue == Spec => []ResendIsDue
<1>1. Init => ResendIsDue
  <2>1. ASSUME Init, NEW q \in Requests
        PROVE  pc[q] = "arriving" /\ attempt[q] = 1
    BY <2>1 DEF Init
  <2>2. ASSUME Init, NEW q \in Requests
        PROVE  attempt[q] # 2
    BY <2>1, <2>2
  <2>3. ASSUME Init, NEW q \in Requests
        PROVE  pc[q] \notin {"signed", "sent", "answering", "waiting"}
    BY <2>1, <2>3
  <2>q. QED
    BY <2>2, <2>3, Zenon DEF ResendIsDue
<1>2. TypeOK /\ TurnInv /\ RunsAndRequests /\ CountsInOrder /\ ResendIsDue /\
        [Next]_vars
        => ResendIsDue'
  <2> SUFFICES ASSUME TypeOK, TurnInv, RunsAndRequests, CountsInOrder,
    ResendIsDue, [Next]_vars PROVE ResendIsDue'
    OBVIOUS
  <2> USE DEF TypeOK, coordinator, request, refreshRun, ResendIsDue, Signed,
    RunsAndRequests, CountsInOrder, RequestCounts, RunCounts, TurnInv,
      TurnIsExclusive, OneLiveRun, Signing, Renewing, Live, Taking, Terminal,
        Ended, RunRenewed, Generation
  <2>1. ASSUME NEW q \in Requests, TakeTurn(q) PROVE ResendIsDue'
    BY <2>1 DEF TakeTurn, SignerMayTake
  <2>2. ASSUME NEW q \in Requests, SleepOnTurn(q) PROVE ResendIsDue'
    BY <2>2 DEF SleepOnTurn
  <2>3. ASSUME NEW q \in Requests, SleepOnRefresh(q) PROVE ResendIsDue'
    BY <2>3 DEF SleepOnRefresh
  <2>4. ASSUME NEW q \in Requests, WakeFromRefresh(q) PROVE ResendIsDue'
    BY <2>4 DEF WakeFromRefresh
  <2>5. ASSUME NEW q \in Requests, AbandonSigning(q) PROVE ResendIsDue'
    BY <2>5 DEF AbandonSigning
  <2>6. ASSUME NEW q \in Requests, Authenticate(q) PROVE ResendIsDue'
    BY <2>6 DEF Authenticate
  <2>7. ASSUME NEW q \in Requests, AuthenticateFails(q) PROVE ResendIsDue'
    BY <2>7 DEF AuthenticateFails, Give, Wake
  <2>8. ASSUME NEW q \in Requests, FinishSigning(q) PROVE ResendIsDue'
    BY <2>8 DEF FinishSigning, Give, Wake, Stamp, ProviderRenewed
  <2>9. ASSUME NEW q \in Requests, Respond(q) PROVE ResendIsDue'
    BY <2>9 DEF Respond
  <2>10. ASSUME NEW q \in Requests, Reject(q) PROVE ResendIsDue'
    BY <2>10 DEF Reject
  <2>11. ASSUME NEW q \in Requests, AnswerOvertaken(q) PROVE ResendIsDue'
    <3>1. /\ gen[q].refreshes <= refreshes /\ gen[q].refreshes # refreshes
          /\ gen[q].refreshes \in Nat /\ refreshes \in Nat
      BY <2>11 DEF AnswerOvertaken
    <3>2. gen[q].refreshes < refreshes /\ signedWith[q] # 0
      BY <2>11, <3>1, AtMostAndOther DEF AnswerOvertaken
    <3>q. QED
      BY <2>11, <3>2 DEF AnswerOvertaken, Told
  <2>12. ASSUME NEW q \in Requests, AnswerShared(q) PROVE ResendIsDue'
    <3>1. RequestCounts(q) /\ refreshes = gen[q].refreshes /\ runs # gen[q].runs
      BY <2>12 DEF AnswerShared, AlreadyFailed
    <3>2. ~renewed
      BY <3>1
    <3>q. QED
      BY <2>12, <3>2 DEF AnswerShared, Told
  <2>13. ASSUME NEW q \in Requests, StartRefresh(q) PROVE ResendIsDue'
    BY <2>13 DEF StartRefresh, AlreadyFailed
  <2>14. ASSUME NEW q \in Requests, JoinRefresh(q) PROVE ResendIsDue'
    BY <2>14 DEF JoinRefresh
  <2>15. ASSUME NEW q \in Requests, TakeRunsAnswer(q) PROVE ResendIsDue'
    <3>1. waits[q] \in Requests /\ from[waits[q]] = gen[q] /\ signedWith[q] # 0
      BY <2>15 DEF TakeRunsAnswer, OwnRun
    <3>2. CASE RunRenewed(waits[q])
      <4>1. Ended(waits[q]) /\ RunCounts(waits[q])
        BY <2>15, <3>1 DEF TakeRunsAnswer
      <4>2. gen[q].refreshes < refreshes
        BY <3>1, <3>2, <4>1
      <4>q. QED
        BY <2>15, <3>1, <4>2 DEF TakeRunsAnswer, Told
    <3>3. CASE ~RunRenewed(waits[q])
      BY <2>15, <3>3 DEF TakeRunsAnswer, Told
    <3>q. QED
      BY <3>2, <3>3
  <2>16. ASSUME NEW q \in Requests, AskAgain(q) PROVE ResendIsDue'
    BY <2>16 DEF AskAgain, OwnRun
  <2>17. ASSUME NEW q \in Requests, AbandonAnswer(q) PROVE ResendIsDue'
    BY <2>17 DEF AbandonAnswer
  <2>18. ASSUME NEW x \in Requests, RunSleeps(x) PROVE ResendIsDue'
    BY <2>18 DEF RunSleeps
  <2>19. ASSUME NEW x \in Requests, RunGivesUp(x) PROVE ResendIsDue'
    BY <2>19 DEF RunGivesUp
  <2>20. ASSUME NEW x \in Requests, RunOvertaken(x) PROVE ResendIsDue'
    BY <2>20 DEF RunOvertaken, Give, Wake, Overtaken
  <2>21. ASSUME NEW x \in Requests, RunTakesTurn(x) PROVE ResendIsDue'
    BY <2>21 DEF RunTakesTurn
  <2>22. ASSUME NEW x \in Requests, AskProvider(x) PROVE ResendIsDue'
    BY <2>22 DEF AskProvider
  <2>23. ASSUME NEW x \in Requests, RefresherRenews(x) PROVE ResendIsDue'
    BY <2>23 DEF RefresherRenews
  <2>24. ASSUME NEW x \in Requests, RefresherFails(x) PROVE ResendIsDue'
    BY <2>24 DEF RefresherFails
  <2>25. ASSUME NEW x \in Requests, FinishRun(x) PROVE ResendIsDue'
    BY <2>25 DEF FinishRun, Give, Wake, CountAnswer, RunRenewed
  <2>26. ASSUME NEW x \in Requests, CloseRun(x) PROVE ResendIsDue'
    BY <2>26 DEF CloseRun
  <2>27. CASE ProviderRenews
    BY <2>27 DEF ProviderRenews
  <2>28. CASE UNCHANGED vars
    BY <2>28 DEF vars
  <2>q. QED
    BY <2>1, <2>2, <2>3, <2>4, <2>5, <2>6, <2>7, <2>8, <2>9, <2>10, <2>11,
      <2>12, <2>13, <2>14, <2>15, <2>16, <2>17, <2>18, <2>19, <2>20, <2>21,
        <2>22, <2>23, <2>24, <2>25, <2>26, <2>27, <2>28 DEF Next, Sign, Ask,
          Refresh, Done
<1>3. QED
  BY <1>1, <1>2, TypeCorrect, TurnIsKept, RunsAndRequestsAreKept,
    CountsAreKept, PTL DEF Spec

\* No token anyone holds is newer than the provider's.
LEMMA TokensAreBounded == Spec => []TokenBounds
<1>1. Init => TokenBounds
  BY DEF Init, TokenBounds, TurnInv, TurnIsExclusive, Signing, Renewing
<1>2. TypeOK /\ TurnInv /\ TokenBounds /\ [Next]_vars => TokenBounds'
  <2> SUFFICES ASSUME TypeOK, TurnInv, TokenBounds,
    [Next]_vars PROVE TokenBounds'
    OBVIOUS
  <2> USE DEF TypeOK, coordinator, request, refreshRun, TokenBounds, TurnInv,
    TurnIsExclusive, Signing, Renewing
  <2>1. ASSUME NEW q \in Requests, TakeTurn(q) PROVE TokenBounds'
    BY <2>1 DEF TakeTurn, SignerMayTake
  <2>2. ASSUME NEW q \in Requests, SleepOnTurn(q) PROVE TokenBounds'
    BY <2>2 DEF SleepOnTurn
  <2>3. ASSUME NEW q \in Requests, SleepOnRefresh(q) PROVE TokenBounds'
    BY <2>3 DEF SleepOnRefresh
  <2>4. ASSUME NEW q \in Requests, WakeFromRefresh(q) PROVE TokenBounds'
    BY <2>4 DEF WakeFromRefresh
  <2>5. ASSUME NEW q \in Requests, AbandonSigning(q) PROVE TokenBounds'
    BY <2>5 DEF AbandonSigning
  <2>6. ASSUME NEW q \in Requests, Authenticate(q) PROVE TokenBounds'
    BY <2>6 DEF Authenticate
  <2>7. ASSUME NEW q \in Requests, AuthenticateFails(q) PROVE TokenBounds'
    BY <2>7 DEF AuthenticateFails, Give, Wake
  <2>8. ASSUME NEW q \in Requests, FinishSigning(q) PROVE TokenBounds'
    BY <2>8 DEF FinishSigning, Give, Wake, Stamp, ProviderRenewed
  <2>9. ASSUME NEW q \in Requests, Respond(q) PROVE TokenBounds'
    BY <2>9 DEF Respond
  <2>10. ASSUME NEW q \in Requests, Reject(q) PROVE TokenBounds'
    BY <2>10 DEF Reject
  <2>11. ASSUME NEW q \in Requests, AnswerOvertaken(q) PROVE TokenBounds'
    BY <2>11 DEF AnswerOvertaken, Told
  <2>12. ASSUME NEW q \in Requests, AnswerShared(q) PROVE TokenBounds'
    BY <2>12 DEF AnswerShared, Told
  <2>13. ASSUME NEW q \in Requests, StartRefresh(q) PROVE TokenBounds'
    BY <2>13 DEF StartRefresh, AlreadyFailed
  <2>14. ASSUME NEW q \in Requests, JoinRefresh(q) PROVE TokenBounds'
    BY <2>14 DEF JoinRefresh
  <2>15. ASSUME NEW q \in Requests, TakeRunsAnswer(q) PROVE TokenBounds'
    BY <2>15 DEF TakeRunsAnswer, Told, RunRenewed, OwnRun
  <2>16. ASSUME NEW q \in Requests, AskAgain(q) PROVE TokenBounds'
    BY <2>16 DEF AskAgain, OwnRun
  <2>17. ASSUME NEW q \in Requests, AbandonAnswer(q) PROVE TokenBounds'
    BY <2>17 DEF AbandonAnswer
  <2>18. ASSUME NEW x \in Requests, RunSleeps(x) PROVE TokenBounds'
    BY <2>18 DEF RunSleeps
  <2>19. ASSUME NEW x \in Requests, RunGivesUp(x) PROVE TokenBounds'
    BY <2>19 DEF RunGivesUp
  <2>20. ASSUME NEW x \in Requests, RunOvertaken(x) PROVE TokenBounds'
    BY <2>20 DEF RunOvertaken, Give, Wake, Overtaken
  <2>21. ASSUME NEW x \in Requests, RunTakesTurn(x) PROVE TokenBounds'
    BY <2>21 DEF RunTakesTurn
  <2>22. ASSUME NEW x \in Requests, AskProvider(x) PROVE TokenBounds'
    BY <2>22 DEF AskProvider
  <2>23. ASSUME NEW x \in Requests, RefresherRenews(x) PROVE TokenBounds'
    BY <2>23 DEF RefresherRenews
  <2>24. ASSUME NEW x \in Requests, RefresherFails(x) PROVE TokenBounds'
    BY <2>24 DEF RefresherFails
  <2>25. ASSUME NEW x \in Requests, FinishRun(x) PROVE TokenBounds'
    BY <2>25 DEF FinishRun, Give, Wake, CountAnswer, RunRenewed
  <2>26. ASSUME NEW x \in Requests, CloseRun(x) PROVE TokenBounds'
    BY <2>26 DEF CloseRun
  <2>27. CASE ProviderRenews
    BY <2>27 DEF ProviderRenews
  <2>28. CASE UNCHANGED vars
    BY <2>28 DEF vars
  <2>q. QED
    BY <2>1, <2>2, <2>3, <2>4, <2>5, <2>6, <2>7, <2>8, <2>9, <2>10, <2>11,
      <2>12, <2>13, <2>14, <2>15, <2>16, <2>17, <2>18, <2>19, <2>20, <2>21,
        <2>22, <2>23, <2>24, <2>25, <2>26, <2>27, <2>28 DEF Next, Sign, Ask,
          Refresh, Done
<1>3. QED
  BY <1>1, <1>2, TypeCorrect, TurnIsKept, PTL DEF Spec

\* The coordinator's credential is the token of the count of now: FinishSigning
\* writes it with the count, and CountAnswer forgets it.
LEMMA CredentialIsLast == Spec => []LastCredential
<1>1. Init => LastCredential
  BY DEF Init, LastCredential, Signed, CountsInOrder, RequestCounts,
    RunCounts, ResendIsDue, Ended, RunRenewed, TurnInv, TurnIsExclusive,
      OneLiveRun, Signing, Renewing, Live, Taking, Terminal, Generation
<1>2. TypeOK /\ TurnInv /\ RunsAndRequests /\ CountsInOrder /\ ResendIsDue /\
        LastCredential /\ [Next]_vars
        => LastCredential'
  <2> SUFFICES ASSUME TypeOK, TurnInv, RunsAndRequests, CountsInOrder,
    ResendIsDue, LastCredential, [Next]_vars PROVE LastCredential'
    OBVIOUS
  <2> USE DEF TypeOK, coordinator, request, refreshRun, LastCredential,
    Signed, CountsInOrder, RequestCounts, RunCounts, ResendIsDue, Ended,
      RunRenewed, TurnInv, TurnIsExclusive, OneLiveRun, Signing, Renewing,
        Live, Taking, Terminal, Generation
  <2>1. ASSUME NEW q \in Requests, TakeTurn(q) PROVE LastCredential'
    BY <2>1 DEF TakeTurn, SignerMayTake
  <2>2. ASSUME NEW q \in Requests, SleepOnTurn(q) PROVE LastCredential'
    BY <2>2 DEF SleepOnTurn
  <2>3. ASSUME NEW q \in Requests, SleepOnRefresh(q) PROVE LastCredential'
    BY <2>3 DEF SleepOnRefresh
  <2>4. ASSUME NEW q \in Requests, WakeFromRefresh(q) PROVE LastCredential'
    BY <2>4 DEF WakeFromRefresh
  <2>5. ASSUME NEW q \in Requests, AbandonSigning(q) PROVE LastCredential'
    BY <2>5 DEF AbandonSigning
  <2>6. ASSUME NEW q \in Requests, Authenticate(q) PROVE LastCredential'
    BY <2>6 DEF Authenticate
  <2>7. ASSUME NEW q \in Requests, AuthenticateFails(q) PROVE LastCredential'
    BY <2>7 DEF AuthenticateFails, Give, Wake
  <2>8. ASSUME NEW q \in Requests, FinishSigning(q) PROVE LastCredential'
    BY <2>8 DEF FinishSigning, Give, Wake, Stamp, ProviderRenewed
  <2>9. ASSUME NEW q \in Requests, Respond(q) PROVE LastCredential'
    BY <2>9 DEF Respond
  <2>10. ASSUME NEW q \in Requests, Reject(q) PROVE LastCredential'
    BY <2>10 DEF Reject
  <2>11. ASSUME NEW q \in Requests, AnswerOvertaken(q) PROVE LastCredential'
    BY <2>11 DEF AnswerOvertaken, Told
  <2>12. ASSUME NEW q \in Requests, AnswerShared(q) PROVE LastCredential'
    BY <2>12 DEF AnswerShared, Told
  <2>13. ASSUME NEW q \in Requests, StartRefresh(q) PROVE LastCredential'
    BY <2>13 DEF StartRefresh, AlreadyFailed
  <2>14. ASSUME NEW q \in Requests, JoinRefresh(q) PROVE LastCredential'
    BY <2>14 DEF JoinRefresh
  <2>15. ASSUME NEW q \in Requests, TakeRunsAnswer(q) PROVE LastCredential'
    BY <2>15 DEF TakeRunsAnswer, Told, RunRenewed, OwnRun
  <2>16. ASSUME NEW q \in Requests, AskAgain(q) PROVE LastCredential'
    BY <2>16 DEF AskAgain, OwnRun
  <2>17. ASSUME NEW q \in Requests, AbandonAnswer(q) PROVE LastCredential'
    BY <2>17 DEF AbandonAnswer
  <2>18. ASSUME NEW x \in Requests, RunSleeps(x) PROVE LastCredential'
    BY <2>18 DEF RunSleeps
  <2>19. ASSUME NEW x \in Requests, RunGivesUp(x) PROVE LastCredential'
    BY <2>19 DEF RunGivesUp
  <2>20. ASSUME NEW x \in Requests, RunOvertaken(x) PROVE LastCredential'
    BY <2>20 DEF RunOvertaken, Give, Wake, Overtaken
  <2>21. ASSUME NEW x \in Requests, RunTakesTurn(x) PROVE LastCredential'
    BY <2>21 DEF RunTakesTurn
  <2>22. ASSUME NEW x \in Requests, AskProvider(x) PROVE LastCredential'
    BY <2>22 DEF AskProvider
  <2>23. ASSUME NEW x \in Requests, RefresherRenews(x) PROVE LastCredential'
    BY <2>23 DEF RefresherRenews
  <2>24. ASSUME NEW x \in Requests, RefresherFails(x) PROVE LastCredential'
    BY <2>24 DEF RefresherFails
  <2>25. ASSUME NEW x \in Requests, FinishRun(x) PROVE LastCredential'
    BY <2>25 DEF FinishRun, Give, Wake, CountAnswer, RunRenewed
  <2>26. ASSUME NEW x \in Requests, CloseRun(x) PROVE LastCredential'
    BY <2>26 DEF CloseRun
  <2>27. CASE ProviderRenews
    BY <2>27 DEF ProviderRenews
  <2>28. CASE UNCHANGED vars
    BY <2>28 DEF vars
  <2>q. QED
    BY <2>1, <2>2, <2>3, <2>4, <2>5, <2>6, <2>7, <2>8, <2>9, <2>10, <2>11,
      <2>12, <2>13, <2>14, <2>15, <2>16, <2>17, <2>18, <2>19, <2>20, <2>21,
        <2>22, <2>23, <2>24, <2>25, <2>26, <2>27, <2>28 DEF Next, Sign, Ask,
          Refresh, Done
<1>3. QED
  BY <1>1, <1>2, TypeCorrect, TurnIsKept, RunsAndRequestsAreKept,
    CountsAreKept, ResendsAreDue, PTL DEF Spec

\* With a provider that renews its token, an earlier count of renewals means
\* an older token, for what was sent and for what is being signed.
LEMMA OldTokensAreOlder ==
  ASSUME ~Pinned PROVE Spec => []OldTokens
<1>1. Init => OldTokens
  BY DEF Init, OldTokens, TokenBounds, LastCredential, Signed, CountsInOrder,
    RequestCounts, RunCounts, ResendIsDue, Ended, RunRenewed, TurnInv,
      TurnIsExclusive, OneLiveRun, Signing, Renewing, Live, Taking, Terminal,
        Generation
<1>2. TypeOK /\ TurnInv /\ RunsAndRequests /\ CountsInOrder /\ ResendIsDue /\
        TokenBounds /\ LastCredential /\ OldTokens /\ [Next]_vars
        => OldTokens'
  <2> SUFFICES ASSUME TypeOK, TurnInv, RunsAndRequests, CountsInOrder,
    ResendIsDue, TokenBounds, LastCredential, OldTokens,
      [Next]_vars PROVE OldTokens'
    OBVIOUS
  <2> USE DEF TypeOK, coordinator, request, refreshRun, OldTokens,
    TokenBounds, LastCredential, Signed, CountsInOrder, RequestCounts,
      RunCounts, ResendIsDue, Ended, RunRenewed, TurnInv, TurnIsExclusive,
        OneLiveRun, Signing, Renewing, Live, Taking, Terminal, Generation
  <2>1. ASSUME NEW q \in Requests, TakeTurn(q) PROVE OldTokens'
    BY <2>1 DEF TakeTurn, SignerMayTake
  <2>2. ASSUME NEW q \in Requests, SleepOnTurn(q) PROVE OldTokens'
    BY <2>2 DEF SleepOnTurn
  <2>3. ASSUME NEW q \in Requests, SleepOnRefresh(q) PROVE OldTokens'
    BY <2>3 DEF SleepOnRefresh
  <2>4. ASSUME NEW q \in Requests, WakeFromRefresh(q) PROVE OldTokens'
    BY <2>4 DEF WakeFromRefresh
  <2>5. ASSUME NEW q \in Requests, AbandonSigning(q) PROVE OldTokens'
    BY <2>5 DEF AbandonSigning
  <2>6. ASSUME NEW q \in Requests, Authenticate(q) PROVE OldTokens'
    BY <2>6 DEF Authenticate
  <2>7. ASSUME NEW q \in Requests, AuthenticateFails(q) PROVE OldTokens'
    BY <2>7 DEF AuthenticateFails, Give, Wake
  <2>8. ASSUME NEW q \in Requests, FinishSigning(q) PROVE OldTokens'
    <3>1. /\ Renewing = {} /\ token' = token /\ outcome' = outcome
          /\ credential <= held[q] /\ held[q] <= token
          /\ refreshes' \in {refreshes, refreshes + 1}
          /\ gen'[q].refreshes = refreshes'
      BY <2>8 DEF FinishSigning, Stamp
    <3>2. \A x \in Requests : rpc'[x] # "finishing"
      BY <2>8, <3>1 DEF FinishSigning, Give, Wake
    <3>3. \A r \in Requests : pc'[r] # "signed"
      BY <2>8 DEF FinishSigning, Give, Wake
    <3>4. ASSUME NEW r \in Requests, Signed(r)', gen'[r].refreshes < refreshes'
          PROVE  signedWith'[r] < token
      <4>1. /\ r # q /\ Signed(r) /\ signedWith'[r] = signedWith[r]
            /\ gen'[r] = gen[r]
        BY <2>8, <3>1, <3>4 DEF FinishSigning
      <4>2. CASE gen[r].refreshes < refreshes
        BY <4>1, <4>2
      <4>3. CASE gen[r].refreshes = refreshes
        <5>1. refreshes' # refreshes
          BY <3>4, <4>1, <4>3
        <5>2. Named /\ held[q] # credential
          BY <2>8, <5>1 DEF FinishSigning, ProviderRenewed
        <5>3. signedWith[r] = credential
          BY <4>1, <4>3, <5>2
        <5>q. QED
          BY <3>1, <4>1, <5>2, <5>3
      <4>4. /\ gen[r].refreshes <= refreshes
            /\ gen[r].refreshes \in Nat /\ refreshes \in Nat
        OBVIOUS
      <4>5. gen[r].refreshes < refreshes \/ gen[r].refreshes = refreshes
        BY <4>4, AtMostAndOther, Zenon
      <4>q. QED
        BY <4>2, <4>3, <4>5, Zenon
    <3>q. QED
      BY <3>1, <3>2, <3>3, <3>4, SMTT(40)
  <2>9. ASSUME NEW q \in Requests, Respond(q) PROVE OldTokens'
    BY <2>9 DEF Respond
  <2>10. ASSUME NEW q \in Requests, Reject(q) PROVE OldTokens'
    BY <2>10 DEF Reject
  <2>11. ASSUME NEW q \in Requests, AnswerOvertaken(q) PROVE OldTokens'
    BY <2>11 DEF AnswerOvertaken, Told
  <2>12. ASSUME NEW q \in Requests, AnswerShared(q) PROVE OldTokens'
    BY <2>12 DEF AnswerShared, Told
  <2>13. ASSUME NEW q \in Requests, StartRefresh(q) PROVE OldTokens'
    BY <2>13 DEF StartRefresh, AlreadyFailed
  <2>14. ASSUME NEW q \in Requests, JoinRefresh(q) PROVE OldTokens'
    BY <2>14 DEF JoinRefresh
  <2>15. ASSUME NEW q \in Requests, TakeRunsAnswer(q) PROVE OldTokens'
    BY <2>15 DEF TakeRunsAnswer, Told, RunRenewed, OwnRun
  <2>16. ASSUME NEW q \in Requests, AskAgain(q) PROVE OldTokens'
    BY <2>16 DEF AskAgain, OwnRun
  <2>17. ASSUME NEW q \in Requests, AbandonAnswer(q) PROVE OldTokens'
    BY <2>17 DEF AbandonAnswer
  <2>18. ASSUME NEW x \in Requests, RunSleeps(x) PROVE OldTokens'
    BY <2>18 DEF RunSleeps
  <2>19. ASSUME NEW x \in Requests, RunGivesUp(x) PROVE OldTokens'
    BY <2>19 DEF RunGivesUp
  <2>20. ASSUME NEW x \in Requests, RunOvertaken(x) PROVE OldTokens'
    BY <2>20 DEF RunOvertaken, Give, Wake, Overtaken
  <2>21. ASSUME NEW x \in Requests, RunTakesTurn(x) PROVE OldTokens'
    BY <2>21 DEF RunTakesTurn
  <2>22. ASSUME NEW x \in Requests, AskProvider(x) PROVE OldTokens'
    <3>1. /\ token' = token /\ pc' = pc /\ held' = held /\ gen' = gen
          /\ signedWith' = signedWith /\ refreshes' = refreshes
      BY <2>22 DEF AskProvider
    <3>2. \A y \in Requests : y # x => /\ rpc'[y] = rpc[y]
                                       /\ outcome'[y] = outcome[y]
      BY <2>22 DEF AskProvider
    <3>3. ASSUME rpc'[x] = "finishing", outcome'[x] = "renewed",
                 NEW q \in Requests
          PROVE  signedWith[q] < token
      <4>1. Named /\ token # rejected[x] /\ x \in Live /\ x \in Renewing
        BY <2>22, <3>3 DEF AskProvider
      <4>2. from[x].refreshes = refreshes
        BY <4>1
      <4>3. token # credential
        BY <4>1, <4>2
      <4>4. CASE signedWith[q] = 0
        BY <4>4
      <4>5. CASE signedWith[q] # 0 /\ gen[q].refreshes < refreshes
        BY <4>5
      <4>6. CASE signedWith[q] # 0 /\ gen[q].refreshes = refreshes
        BY <4>1, <4>3, <4>6
      <4>7. /\ gen[q].refreshes <= refreshes
            /\ gen[q].refreshes \in Nat /\ refreshes \in Nat
        OBVIOUS
      <4>8. gen[q].refreshes < refreshes \/ gen[q].refreshes = refreshes
        BY <4>7, AtMostAndOther, Zenon
      <4>q. QED
        BY <4>4, <4>5, <4>6, <4>8, Zenon
    <3>q. QED
      BY <3>1, <3>2, <3>3
  <2>23. ASSUME NEW x \in Requests, RefresherRenews(x) PROVE OldTokens'
    <3>1. token' = token + 1
      BY <2>23 DEF RefresherRenews
    <3>2. /\ pc' = pc /\ held' = held /\ gen' = gen
          /\ signedWith' = signedWith /\ refreshes' = refreshes
      BY <2>23 DEF RefresherRenews
    <3>3. \A q \in Requests : signedWith'[q] < token'
      BY <3>1, <3>2
    <3>q. QED
      BY <3>2, <3>3
  <2>24. ASSUME NEW x \in Requests, RefresherFails(x) PROVE OldTokens'
    BY <2>24 DEF RefresherFails
  <2>25. ASSUME NEW x \in Requests, FinishRun(x) PROVE OldTokens'
    <3>1. /\ token' = token /\ held' = held /\ gen' = gen
          /\ signedWith' = signedWith /\ outcome' = outcome /\ x \in Renewing
      BY <2>25 DEF FinishRun
    <3>2. \A r \in Requests : pc[r] # "signed" /\ pc'[r] # "signed"
      BY <2>25, <3>1 DEF FinishRun, Give, Wake
    <3>3. \A y \in Requests : rpc'[y] # "finishing"
      BY <2>25 DEF FinishRun, Give, Wake
    <3>4. CASE outcome[x] = "renewed"
      <4>1. \A q \in Requests : signedWith[q] < token
        BY <2>25, <3>4 DEF FinishRun
      <4>q. QED
        BY <3>1, <3>2, <3>3, <4>1
    <3>5. CASE outcome[x] = "failed"
      <4>1. refreshes' = refreshes
        BY <2>25, <3>5, FailureIsCounted
      <4>q. QED
        BY <3>1, <3>2, <3>3, <4>1
    <3>q. QED
      BY <2>25, <3>4, <3>5 DEF FinishRun, RunsAndRequests
  <2>26. ASSUME NEW x \in Requests, CloseRun(x) PROVE OldTokens'
    BY <2>26 DEF CloseRun
  <2>27. CASE ProviderRenews
    BY <2>27 DEF ProviderRenews
  <2>28. CASE UNCHANGED vars
    BY <2>28 DEF vars
  <2>q. QED
    BY <2>1, <2>2, <2>3, <2>4, <2>5, <2>6, <2>7, <2>8, <2>9, <2>10, <2>11,
      <2>12, <2>13, <2>14, <2>15, <2>16, <2>17, <2>18, <2>19, <2>20, <2>21,
        <2>22, <2>23, <2>24, <2>25, <2>26, <2>27, <2>28 DEF Next, Sign, Ask,
          Refresh, Done
<1>3. QED
  BY <1>1, <1>2, TypeCorrect, TurnIsKept, RunsAndRequestsAreKept,
    CountsAreKept, ResendsAreDue, TokensAreBounded, CredentialIsLast,
      PTL DEF Spec

\* "The credentials a request went out with and the counts it was signed
\* under cannot disagree", unless the provider's token is pinned.
THEOREM CountsFollow ==
  ASSUME ~Pinned PROVE Spec => []CountsFollowCredentials
<1>1. Init => CountsFollowCredentials
  BY DEF Init, CountsFollowCredentials, OldTokens, TokenBounds,
    LastCredential, Signed, CountsInOrder, RequestCounts, ResendIsDue,
      TurnInv, TurnIsExclusive, OneLiveRun, Signing, Renewing, Live, Taking,
        Terminal, Generation
<1>2. TypeOK /\ TurnInv /\ CountsInOrder /\ ResendIsDue /\ TokenBounds /\
        LastCredential /\ OldTokens /\ CountsFollowCredentials /\
        [Next]_vars
        => CountsFollowCredentials'
  <2> SUFFICES ASSUME TypeOK, TurnInv, CountsInOrder, ResendIsDue,
    TokenBounds, LastCredential, OldTokens, CountsFollowCredentials,
      [Next]_vars PROVE CountsFollowCredentials'
    OBVIOUS
  <2> USE DEF TypeOK, coordinator, request, refreshRun,
    CountsFollowCredentials, OldTokens, TokenBounds, LastCredential, Signed,
      CountsInOrder, RequestCounts, ResendIsDue, TurnInv, TurnIsExclusive,
        OneLiveRun, Signing, Renewing, Live, Taking, Terminal, Generation
  <2>1. ASSUME NEW q \in Requests, TakeTurn(q) PROVE CountsFollowCredentials'
    BY <2>1 DEF TakeTurn, SignerMayTake
  <2>2. ASSUME NEW q \in Requests, SleepOnTurn(q) PROVE CountsFollowCredentials'
    BY <2>2 DEF SleepOnTurn
  <2>3. ASSUME NEW q \in Requests,
    SleepOnRefresh(q) PROVE CountsFollowCredentials'
    BY <2>3 DEF SleepOnRefresh
  <2>4. ASSUME NEW q \in Requests,
    WakeFromRefresh(q) PROVE CountsFollowCredentials'
    BY <2>4 DEF WakeFromRefresh
  <2>5. ASSUME NEW q \in Requests,
    AbandonSigning(q) PROVE CountsFollowCredentials'
    BY <2>5 DEF AbandonSigning
  <2>6. ASSUME NEW q \in Requests,
    Authenticate(q) PROVE CountsFollowCredentials'
    BY <2>6 DEF Authenticate
  <2>7. ASSUME NEW q \in Requests,
    AuthenticateFails(q) PROVE CountsFollowCredentials'
    BY <2>7 DEF AuthenticateFails, Give, Wake
  <2>8. ASSUME NEW q \in Requests,
    FinishSigning(q) PROVE CountsFollowCredentials'
    <3>1. /\ credential <= held[q] /\ held[q] # 0
          /\ refreshes' \in {refreshes, refreshes + 1}
          /\ gen'[q].refreshes = refreshes' /\ signedWith'[q] = held[q]
      BY <2>8 DEF FinishSigning, Stamp
    <3>2. \A r \in Requests : r # q => /\ gen'[r] = gen[r]
                                       /\ signedWith'[r] = signedWith[r]
      BY <2>8 DEF FinishSigning
    <3>3. \A r \in Requests : /\ gen[r].refreshes <= refreshes
                              /\ gen[r].refreshes \in Nat /\ refreshes \in Nat
      OBVIOUS
    <3>4. ASSUME NEW r \in Requests, r # q, signedWith[r] # 0
          PROVE  /\ gen[r].refreshes < refreshes' => signedWith[r] < held[q]
                 /\ Named /\ gen[r].refreshes = refreshes'
                      => signedWith[r] = held[q]
      <4>1. CASE gen[r].refreshes < refreshes
        <5>1. signedWith[r] < held[q]
          BY <2>8, <3>4, <4>1 DEF FinishSigning
        <5>2. gen[r].refreshes # refreshes'
          BY <3>1, <3>3, <4>1
        <5>q. QED
          BY <5>1, <5>2
      <4>2. CASE gen[r].refreshes = refreshes /\ refreshes' = refreshes
        <5>1. Named => signedWith[r] = credential
          BY <3>4, <4>2
        <5>2. Named => held[q] = credential
          BY <2>8, <3>3, <3>4, <4>2, <5>1 DEF FinishSigning, ProviderRenewed
        <5>q. QED
          BY <3>3, <4>2, <5>1, <5>2
      <4>3. CASE gen[r].refreshes = refreshes /\ refreshes' # refreshes
        <5>1. Named /\ held[q] # credential
          BY <2>8, <4>3 DEF FinishSigning, ProviderRenewed
        <5>2. signedWith[r] = credential
          BY <3>4, <4>3, <5>1
        <5>3. credential \in Nat /\ held[q] \in Nat
          OBVIOUS
        <5>4. signedWith[r] < held[q]
          BY <3>1, <5>1, <5>2, <5>3, AtMostAndOther
        <5>q. QED
          BY <4>3, <5>4
      <4>q. QED
        BY <3>3, <4>1, <4>2, <4>3, AtMostAndOther
    <3>5. \A r \in Requests : ~(refreshes' < gen[r].refreshes)
      BY <3>1, <3>3
    <3>6. ASSUME NEW r \in Requests, NEW t \in Requests,
                 Signed(r)', Signed(t)'
          PROVE  /\ gen'[r].refreshes < gen'[t].refreshes
                      => signedWith'[r] < signedWith'[t]
                 /\ Named /\ gen'[r].refreshes = gen'[t].refreshes
                      => signedWith'[r] = signedWith'[t]
      <4>1. CASE r # q /\ t # q
        BY <3>2, <3>6, <4>1
      <4>2. CASE r # q /\ t = q
        BY <3>1, <3>2, <3>4, <3>6, <4>2
      <4>3. CASE r = q /\ t # q
        BY <3>1, <3>2, <3>4, <3>5, <3>6, <4>3
      <4>4. CASE r = q /\ t = q
        BY <3>1, <3>3, <4>4
      <4>q. QED
        BY <4>1, <4>2, <4>3, <4>4
    <3>q. QED
      BY <3>6
  <2>9. ASSUME NEW q \in Requests, Respond(q) PROVE CountsFollowCredentials'
    BY <2>9 DEF Respond
  <2>10. ASSUME NEW q \in Requests, Reject(q) PROVE CountsFollowCredentials'
    BY <2>10 DEF Reject
  <2>11. ASSUME NEW q \in Requests,
    AnswerOvertaken(q) PROVE CountsFollowCredentials'
    BY <2>11 DEF AnswerOvertaken, Told
  <2>12. ASSUME NEW q \in Requests,
    AnswerShared(q) PROVE CountsFollowCredentials'
    BY <2>12 DEF AnswerShared, Told
  <2>13. ASSUME NEW q \in Requests,
    StartRefresh(q) PROVE CountsFollowCredentials'
    BY <2>13 DEF StartRefresh, AlreadyFailed
  <2>14. ASSUME NEW q \in Requests,
    JoinRefresh(q) PROVE CountsFollowCredentials'
    BY <2>14 DEF JoinRefresh
  <2>15. ASSUME NEW q \in Requests,
    TakeRunsAnswer(q) PROVE CountsFollowCredentials'
    BY <2>15 DEF TakeRunsAnswer, Told, RunRenewed, OwnRun
  <2>16. ASSUME NEW q \in Requests, AskAgain(q) PROVE CountsFollowCredentials'
    BY <2>16 DEF AskAgain, OwnRun
  <2>17. ASSUME NEW q \in Requests,
    AbandonAnswer(q) PROVE CountsFollowCredentials'
    BY <2>17 DEF AbandonAnswer
  <2>18. ASSUME NEW x \in Requests, RunSleeps(x) PROVE CountsFollowCredentials'
    BY <2>18 DEF RunSleeps
  <2>19. ASSUME NEW x \in Requests, RunGivesUp(x) PROVE CountsFollowCredentials'
    BY <2>19 DEF RunGivesUp
  <2>20. ASSUME NEW x \in Requests,
    RunOvertaken(x) PROVE CountsFollowCredentials'
    BY <2>20 DEF RunOvertaken, Give, Wake, Overtaken
  <2>21. ASSUME NEW x \in Requests,
    RunTakesTurn(x) PROVE CountsFollowCredentials'
    BY <2>21 DEF RunTakesTurn
  <2>22. ASSUME NEW x \in Requests,
    AskProvider(x) PROVE CountsFollowCredentials'
    BY <2>22 DEF AskProvider
  <2>23. ASSUME NEW x \in Requests,
    RefresherRenews(x) PROVE CountsFollowCredentials'
    BY <2>23 DEF RefresherRenews
  <2>24. ASSUME NEW x \in Requests,
    RefresherFails(x) PROVE CountsFollowCredentials'
    BY <2>24 DEF RefresherFails
  <2>25. ASSUME NEW x \in Requests, FinishRun(x) PROVE CountsFollowCredentials'
    BY <2>25 DEF FinishRun, Give, Wake, CountAnswer, RunRenewed
  <2>26. ASSUME NEW x \in Requests, CloseRun(x) PROVE CountsFollowCredentials'
    BY <2>26 DEF CloseRun
  <2>27. CASE ProviderRenews
    BY <2>27 DEF ProviderRenews
  <2>28. CASE UNCHANGED vars
    BY <2>28 DEF vars
  <2>q. QED
    BY <2>1, <2>2, <2>3, <2>4, <2>5, <2>6, <2>7, <2>8, <2>9, <2>10, <2>11,
      <2>12, <2>13, <2>14, <2>15, <2>16, <2>17, <2>18, <2>19, <2>20, <2>21,
        <2>22, <2>23, <2>24, <2>25, <2>26, <2>27, <2>28 DEF Next, Sign, Ask,
          Refresh, Done
<1>3. QED
  BY <1>1, <1>2, TypeCorrect, TurnIsKept, RunsAndRequestsAreKept,
    CountsAreKept, ResendsAreDue, TokensAreBounded, CredentialIsLast,
      OldTokensAreOlder, PTL DEF Spec

\* The second signing of a request carries a newer token than the one that
\* was rejected, under a later count, unless the token is pinned.
THEOREM ResendIsWorthIt ==
  ASSUME ~Pinned PROVE Spec => ResendCarriesNewerToken
<1> DEFINE Step == \A q \in Requests :
                     attempt[q] = 2 /\ pc[q] = "signed" /\ pc'[q] = "sent"
                       => /\ signedWith'[q] > signedWith[q]
                          /\ gen'[q].refreshes > gen[q].refreshes
<1>1. TypeOK /\ ResendIsDue /\ OldTokens /\ [Next]_vars => [Step]_vars
  <2> SUFFICES ASSUME TypeOK, ResendIsDue, OldTokens, [Next]_vars,
                      NEW q \in Requests, attempt[q] = 2, pc[q] = "signed",
                      pc'[q] = "sent"
               PROVE  /\ signedWith'[q] > signedWith[q]
                      /\ gen'[q].refreshes > gen[q].refreshes
    OBVIOUS
  <2> DEFINE Worth == /\ signedWith'[q] > signedWith[q]
                      /\ gen'[q].refreshes > gen[q].refreshes
  <2> SUFFICES Worth
    OBVIOUS
  <2> USE DEF TypeOK, coordinator, request, refreshRun
  <2>1. ASSUME NEW r \in Requests, TakeTurn(r) PROVE Worth
    BY <2>1 DEF TakeTurn, SignerMayTake
  <2>2. ASSUME NEW r \in Requests, SleepOnTurn(r) PROVE Worth
    BY <2>2 DEF SleepOnTurn
  <2>3. ASSUME NEW r \in Requests, SleepOnRefresh(r) PROVE Worth
    BY <2>3 DEF SleepOnRefresh
  <2>4. ASSUME NEW r \in Requests, WakeFromRefresh(r) PROVE Worth
    BY <2>4 DEF WakeFromRefresh
  <2>5. ASSUME NEW r \in Requests, AbandonSigning(r) PROVE Worth
    BY <2>5 DEF AbandonSigning
  <2>6. ASSUME NEW r \in Requests, Authenticate(r) PROVE Worth
    BY <2>6 DEF Authenticate
  <2>7. ASSUME NEW r \in Requests, AuthenticateFails(r) PROVE Worth
    BY <2>7 DEF AuthenticateFails, Give, Wake
  <2>8. ASSUME NEW r \in Requests, FinishSigning(r) PROVE Worth
    <3>1. r = q
      BY <2>8 DEF FinishSigning, Give, Wake
    <3>2. Signed(q) /\ gen[q].refreshes < refreshes
      BY DEF ResendIsDue
    <3>3. signedWith[q] < held[q]
      BY <3>2 DEF OldTokens
    <3>4. /\ signedWith'[q] = held[q] /\ gen'[q].refreshes = refreshes'
          /\ refreshes' \in {refreshes, refreshes + 1}
      BY <2>8, <3>1 DEF FinishSigning, Stamp
    <3>q. QED
      BY <3>2, <3>3, <3>4 DEF Generation
  <2>9. ASSUME NEW r \in Requests, Respond(r) PROVE Worth
    BY <2>9 DEF Respond
  <2>10. ASSUME NEW r \in Requests, Reject(r) PROVE Worth
    BY <2>10 DEF Reject
  <2>11. ASSUME NEW r \in Requests, AnswerOvertaken(r) PROVE Worth
    BY <2>11 DEF AnswerOvertaken, Told
  <2>12. ASSUME NEW r \in Requests, AnswerShared(r) PROVE Worth
    BY <2>12 DEF AnswerShared, Told
  <2>13. ASSUME NEW r \in Requests, StartRefresh(r) PROVE Worth
    BY <2>13 DEF StartRefresh, AlreadyFailed
  <2>14. ASSUME NEW r \in Requests, JoinRefresh(r) PROVE Worth
    BY <2>14 DEF JoinRefresh
  <2>15. ASSUME NEW r \in Requests, TakeRunsAnswer(r) PROVE Worth
    BY <2>15 DEF TakeRunsAnswer, Told, RunRenewed, OwnRun
  <2>16. ASSUME NEW r \in Requests, AskAgain(r) PROVE Worth
    BY <2>16 DEF AskAgain, OwnRun
  <2>17. ASSUME NEW r \in Requests, AbandonAnswer(r) PROVE Worth
    BY <2>17 DEF AbandonAnswer
  <2>18. ASSUME NEW x \in Requests, RunSleeps(x) PROVE Worth
    BY <2>18 DEF RunSleeps
  <2>19. ASSUME NEW x \in Requests, RunGivesUp(x) PROVE Worth
    BY <2>19 DEF RunGivesUp
  <2>20. ASSUME NEW x \in Requests, RunOvertaken(x) PROVE Worth
    BY <2>20 DEF RunOvertaken, Give, Wake, Overtaken
  <2>21. ASSUME NEW x \in Requests, RunTakesTurn(x) PROVE Worth
    BY <2>21 DEF RunTakesTurn
  <2>22. ASSUME NEW x \in Requests, AskProvider(x) PROVE Worth
    BY <2>22 DEF AskProvider
  <2>23. ASSUME NEW x \in Requests, RefresherRenews(x) PROVE Worth
    BY <2>23 DEF RefresherRenews
  <2>24. ASSUME NEW x \in Requests, RefresherFails(x) PROVE Worth
    BY <2>24 DEF RefresherFails
  <2>25. ASSUME NEW x \in Requests, FinishRun(x) PROVE Worth
    BY <2>25 DEF FinishRun, Give, Wake, CountAnswer, RunRenewed
  <2>26. ASSUME NEW x \in Requests, CloseRun(x) PROVE Worth
    BY <2>26 DEF CloseRun
  <2>27. CASE ProviderRenews
    BY <2>27 DEF ProviderRenews
  <2>28. CASE UNCHANGED vars
    BY <2>28 DEF vars
  <2>q. QED
    BY <2>1, <2>2, <2>3, <2>4, <2>5, <2>6, <2>7, <2>8, <2>9, <2>10, <2>11,
      <2>12, <2>13, <2>14, <2>15, <2>16, <2>17, <2>18, <2>19, <2>20, <2>21,
        <2>22, <2>23, <2>24, <2>25, <2>26, <2>27, <2>28 DEF Next, Sign, Ask,
          Refresh, Done
<1>2. QED
  BY <1>1, TypeCorrect, ResendsAreDue, OldTokensAreOlder, PTL
     DEF Spec, ResendCarriesNewerToken

-----------------------------------------------------------------------------
(* Runs, like requests, follow the provider's tokens.                      *)

\* IInv is the invariant of every reachable state, unless the provider's token
\* is pinned.
THEOREM Inductive == ASSUME ~Pinned PROVE Spec => []IInv
<1>1. TypeOK /\ TurnInv /\ RunsAndRequests /\ CountsInOrder /\ ResendIsDue
        /\ TokenBounds /\ LastCredential /\ OldTokens => IInv
  BY DEF IInv, TurnInv, TokensInOrder
<1>q. QED
  BY <1>1, TypeCorrect, TurnIsKept, RunsAndRequestsAreKept, CountsAreKept,
    ResendsAreDue, TokensAreBounded, CredentialIsLast, OldTokensAreOlder, PTL

\* What a run is started for, against the counts and the tokens: what OldTokens
\* and CountsFollowCredentials say of requests, for runs, whose request may have
\* been signed again since.
Started(x) == rpc[x] # "none"

RunTokens(x) ==
  Started(x) =>
    /\ rejected[x] # 0 /\ rejected[x] <= token /\ from[x].refreshes <= refreshes
    /\ Named /\ from[x].refreshes = refreshes => rejected[x] = credential
    /\ from[x].refreshes < refreshes =>
         /\ rejected[x] < token
         /\ \A r \in Requests : pc[r] = "signed" => rejected[x] < held[r]
    /\ \A y \in Requests : rpc[y] = "finishing" /\ outcome[y] = "renewed"
                            => rejected[x] < token
    /\ \A q \in Requests : Signed(q) /\ from[x].refreshes < gen[q].refreshes
                            => rejected[x] < signedWith[q]
    /\ \A y \in Requests : Started(y) /\ from[x].refreshes < from[y].refreshes
                            => rejected[x] < rejected[y]

RunsFollowCredentials == \A x \in Requests : RunTokens(x)

\* Two runs that renewed did so from different counts.
OneRenewalPerCount ==
  \A x, y \in Requests :
    outcome[x] = "renewed" /\ outcome[y] = "renewed"
      /\ from[x].refreshes = from[y].refreshes => x = y

\* A step that reads and counts no token, and ends no renewal.
Calm ==
  /\ UNCHANGED <<token, refreshes, credential, held, gen, signedWith, from, rejected>>
  /\ \A u \in Requests :
       /\ rpc'[u] = "none" <=> rpc[u] = "none"
       /\ pc'[u] = "signed" => pc[u] = "signed"
       /\ outcome'[u] = "renewed" => outcome[u] = "renewed"
       /\ rpc'[u] = "finishing" /\ outcome'[u] = "renewed" => rpc[u] = "finishing"

\* Which of the coordinator's steps are not calm.
LEMMA CalmSteps ==
  ASSUME TypeOK, [Next]_vars
  PROVE  \/ Calm \/ ProviderRenews
         \/ \E q \in Requests : Authenticate(q) \/ FinishSigning(q) \/ StartRefresh(q)
         \/ \E x \in Requests : AskProvider(x) \/ RefresherRenews(x) \/ FinishRun(x)
<1> USE DEF TypeOK, Calm, coordinator, request, refreshRun, Taking
<1>1. ASSUME NEW q \in Requests, TakeTurn(q) \/ SleepOnTurn(q) \/ SleepOnRefresh(q)
      PROVE  Calm
  BY <1>1 DEF TakeTurn, SleepOnTurn, SleepOnRefresh
<1>2. ASSUME NEW q \in Requests, WakeFromRefresh(q) \/ AbandonSigning(q)
      PROVE  Calm
  BY <1>2 DEF WakeFromRefresh, AbandonSigning
<1>3. ASSUME NEW q \in Requests, AuthenticateFails(q)
      PROVE  Calm
  BY <1>3 DEF AuthenticateFails, Give, Wake
<1>4. ASSUME NEW q \in Requests, Respond(q) \/ Reject(q)
      PROVE  Calm
  BY <1>4 DEF Respond, Reject
<1>5. ASSUME NEW q \in Requests, AnswerOvertaken(q) \/ AnswerShared(q) \/ TakeRunsAnswer(q)
      PROVE  Calm
  BY <1>5 DEF AnswerOvertaken, AnswerShared, TakeRunsAnswer, Told
<1>6. ASSUME NEW q \in Requests, JoinRefresh(q) \/ AskAgain(q) \/ AbandonAnswer(q)
      PROVE  Calm
  BY <1>6 DEF JoinRefresh, AskAgain, AbandonAnswer
<1>7. ASSUME NEW x \in Requests, RunSleeps(x) \/ RunGivesUp(x) \/ RunTakesTurn(x)
      PROVE  Calm
  BY <1>7 DEF RunSleeps, RunGivesUp, RunTakesTurn
<1>8. ASSUME NEW x \in Requests, RunOvertaken(x)
      PROVE  Calm
  BY <1>8 DEF RunOvertaken, Give, Wake
<1>9. ASSUME NEW x \in Requests, RefresherFails(x) \/ CloseRun(x)
      PROVE  Calm
  BY <1>9 DEF RefresherFails, CloseRun
<1>10. CASE UNCHANGED vars
  BY <1>10 DEF vars
<1>q. QED
  BY <1>1, <1>2, <1>3, <1>4, <1>5, <1>6, <1>7, <1>8, <1>9, <1>10
  DEF Next, Sign, Ask, Refresh, Done

\* The numbers the order of runs is about.
LEMMA RunsAreTyped ==
  ASSUME TypeOK, NEW x \in Requests
  PROVE  /\ from[x].refreshes \in Nat /\ gen[x].refreshes \in Nat /\ rejected[x] \in Nat
         /\ signedWith[x] \in Nat /\ held[x] \in Nat /\ token \in Nat
         /\ refreshes \in Nat /\ credential \in Nat
  BY DEF TypeOK, Generation

\* Each step keeps a run in order: StartRefresh takes the last credential's
\* count, FinishSigning and FinishRun move the count past older tokens.
LEMMA RunsStayInOrder ==
  ASSUME ~Pinned, IInv, RunsFollowCredentials, [Next]_vars, NEW x \in Requests
  PROVE  RunTokens(x)'
<1>t. TypeOK
  BY DEF IInv
<1>n. \A y \in Requests :
        /\ from[y].refreshes \in Nat /\ gen[y].refreshes \in Nat /\ rejected[y] \in Nat
        /\ signedWith[y] \in Nat /\ held[y] \in Nat /\ token \in Nat
        /\ refreshes \in Nat /\ credential \in Nat
  BY <1>t, RunsAreTyped
<1>x. \A y \in Requests : RunTokens(y)
  BY DEF RunsFollowCredentials
<1>1. CASE Calm
  <2>1. /\ UNCHANGED <<token, refreshes, credential, held, gen, signedWith, from, rejected>>
        /\ \A u \in Requests :
             /\ Started(u)' <=> Started(u)
             /\ pc'[u] = "signed" => pc[u] = "signed"
             /\ rpc'[u] = "finishing" /\ outcome'[u] = "renewed"
                  => rpc[u] = "finishing" /\ outcome[u] = "renewed"
    BY <1>1 DEF Calm, Started
  <2>q. QED
    BY <1>x, <2>1 DEF RunTokens, Signed
<1>2. CASE ProviderRenews
  <2>1. token' = token + 1 /\ UNCHANGED <<coordinator, request, refreshRun>>
    BY <1>2 DEF ProviderRenews
  <2>2. UNCHANGED <<refreshes, credential, held, gen, signedWith, from, rejected, pc, rpc,
                    outcome>>
    BY <2>1 DEF coordinator, request, refreshRun
  <2>3. rejected[x] <= token => rejected[x] <= token + 1 /\ rejected[x] < token + 1
    BY <1>n
  <2>q. QED
    BY <1>x, <2>1, <2>2, <2>3 DEF RunTokens, Started, Signed
<1>3. ASSUME NEW q \in Requests, Authenticate(q)
      PROVE  RunTokens(x)'
  <2>1. /\ held' = [held EXCEPT ![q] = token] /\ pc' = [pc EXCEPT ![q] = "signed"]
        /\ UNCHANGED <<refreshes, credential, token, gen, signedWith, from, rejected, rpc,
                       outcome>>
    BY <1>3 DEF Authenticate, coordinator, refreshRun
  <2>2. \A r \in Requests : pc'[r] = "signed" =>
          held'[r] = token \/ (held'[r] = held[r] /\ pc[r] = "signed")
    BY <1>t, <2>1 DEF TypeOK
  <2>q. QED
    BY <1>x, <2>1, <2>2 DEF RunTokens, Started, Signed
<1>4. ASSUME NEW q \in Requests, FinishSigning(q)
      PROVE  RunTokens(x)'
  <2>1. /\ pc[q] = "signed"
        /\ refreshes' = refreshes + (IF ProviderRenewed(q) THEN 1 ELSE 0)
        /\ credential' = IF Named THEN held[q] ELSE credential
        /\ gen' = [gen EXCEPT ![q] = Stamp]
        /\ signedWith' = [signedWith EXCEPT ![q] = held[q]]
        /\ UNCHANGED <<token, held, from, rejected, outcome>>
        /\ pc' = Wake([pc EXCEPT ![q] = "sent"]) /\ rpc' = Wake(rpc)
    BY <1>4 DEF FinishSigning, Give
  <2>2. credential <= held[q] /\ held[q] <= token
    BY <2>1 DEF IInv, TokensInOrder, TokenBounds
  <2>3. /\ \A u \in Requests : Started(u)' <=> Started(u)
        /\ \A u \in Requests : pc'[u] # "signed"
        /\ \A u \in Requests : rpc'[u] = "finishing" <=> rpc[u] = "finishing"
    <3>1. \A u \in Requests \ {q} : pc[u] # "signed"
      BY <2>1 DEF IInv, TurnIsExclusive, Signing
    <3>2. \A u \in Requests : pc'[u] # "signed"
      BY <1>t, <2>1, <3>1 DEF Wake, TypeOK
    <3>q. QED
      BY <2>1, <3>2 DEF Wake, Started
  <2>4. \/ refreshes' = refreshes /\ (Named => credential = 0 \/ held[q] = credential)
        \/ /\ refreshes' = refreshes + 1 /\ Named /\ credential # 0
           /\ held[q] # credential
    BY <1>n, <2>1 DEF ProviderRenewed
  <2>5. gen'[q].refreshes = refreshes' /\ signedWith'[q] = held[q]
        /\ \A u \in Requests \ {q} : gen'[u] = gen[u] /\ signedWith'[u] = signedWith[u]
    BY <1>t, <2>1 DEF Stamp, TypeOK
  <2>6. ASSUME Started(x)
        PROVE  /\ from[x].refreshes <= refreshes'
               /\ from[x].refreshes = refreshes' /\ Named => rejected[x] = held[q]
               /\ from[x].refreshes < refreshes' => rejected[x] < held[q] /\ rejected[x] < token
    <3>1. /\ rejected[x] # 0 /\ from[x].refreshes <= refreshes
          /\ Named /\ from[x].refreshes = refreshes => rejected[x] = credential
          /\ from[x].refreshes < refreshes => rejected[x] < token /\ rejected[x] < held[q]
      BY <1>x, <2>1, <2>6 DEF RunTokens
    <3>2. CASE refreshes' = refreshes
      <4>1. Named => credential = 0 \/ held[q] = credential
        BY <1>n, <2>4, <3>2
      <4>q. QED
        BY <3>1, <3>2, <4>1
    <3>3. CASE refreshes' # refreshes
      <4>1. /\ refreshes' = refreshes + 1 /\ Named /\ held[q] # credential
        BY <2>4, <3>3
      <4>2. credential < held[q] /\ credential < token
        BY <1>n, <2>2, <4>1
      <4>3. from[x].refreshes <= refreshes' /\ from[x].refreshes # refreshes'
        BY <1>n, <3>1, <4>1
      <4>4. CASE from[x].refreshes = refreshes
        BY <3>1, <4>1, <4>2, <4>3, <4>4
      <4>5. CASE from[x].refreshes < refreshes
        BY <3>1, <4>3, <4>5
      <4>q. QED
        BY <1>n, <3>1, <4>4, <4>5
    <3>q. QED
      BY <3>2, <3>3
  <2>7. ASSUME Started(x), NEW u \in Requests, Signed(u)',
               from[x].refreshes < gen'[u].refreshes
        PROVE  rejected[x] < signedWith'[u]
    <3>1. CASE u = q
      BY <2>5, <2>6, <2>7, <3>1
    <3>2. CASE u # q
      BY <1>x, <2>5, <2>7, <3>2 DEF RunTokens, Signed
    <3>q. QED
      BY <3>1, <3>2
  <2>8. Started(x) => rejected[x] # 0 /\ rejected[x] <= token
    BY <1>x DEF RunTokens
  <2>9. Started(x) => /\ Named => credential' = held[q]
                      /\ \A y \in Requests : rpc'[y] = "finishing" /\ outcome'[y] = "renewed"
                                              => rejected[x] < token
                      /\ \A y \in Requests : Started(y)' /\ from[x].refreshes < from[y].refreshes
                                              => rejected[x] < rejected[y]
    BY <1>x, <2>1, <2>3 DEF RunTokens
  <2>q. QED
    BY <2>1, <2>3, <2>6, <2>7, <2>8, <2>9 DEF RunTokens
<1>5. ASSUME NEW q \in Requests, StartRefresh(q)
      PROVE  RunTokens(x)'
  <2>1. /\ pc[q] = "answering" /\ refreshes = gen[q].refreshes /\ inFlight = NoRun
        /\ rpc' = [rpc EXCEPT ![q] = "arriving"] /\ from' = [from EXCEPT ![q] = gen[q]]
        /\ rejected' = [rejected EXCEPT ![q] = signedWith[q]]
        /\ pc' = [pc EXCEPT ![q] = "waiting"]
        /\ UNCHANGED <<refreshes, credential, token, held, gen, signedWith, outcome>>
    BY <1>5 DEF StartRefresh
  <2>2. /\ signedWith[q] # 0 /\ signedWith[q] <= token
        /\ Named => signedWith[q] = credential
    BY <1>n, <2>1 DEF IInv, TokensInOrder, TokenBounds, LastCredential, ResendIsDue, Signed
  <2>3. \A y \in Requests : rpc[y] # "finishing" /\ rpc'[y] # "finishing"
    BY <1>t, <2>1 DEF IInv, OneLiveRun, Live, TypeOK
  <2>4. \A u \in Requests : gen[u].refreshes <= refreshes
    BY DEF IInv, CountsInOrder, RequestCounts
  <2>5. /\ from'[q].refreshes = refreshes /\ rejected'[q] = signedWith[q]
        /\ \A y \in Requests \ {q} : /\ from'[y] = from[y] /\ rejected'[y] = rejected[y]
                                     /\ Started(y)' <=> Started(y)
        /\ \A u \in Requests : pc'[u] = "signed" => pc[u] = "signed"
    BY <1>t, <2>1 DEF TypeOK, Started
  <2>6. \A y \in Requests \ {q} : Started(y) => from[y].refreshes <= refreshes
    BY <1>x DEF RunTokens
  <2>7. CASE x = q
    <3>1. \A u \in Requests : ~(from'[x].refreshes < gen[u].refreshes)
      BY <1>n, <2>4, <2>5, <2>7
    <3>2. \A y \in Requests : Started(y)' => ~(from'[x].refreshes < from'[y].refreshes)
      BY <1>n, <2>5, <2>6, <2>7
    <3>3. refreshes <= refreshes /\ ~(refreshes < refreshes)
      BY <1>n
    <3>q. QED
      BY <2>1, <2>2, <2>3, <2>5, <2>7, <3>1, <3>2, <3>3 DEF RunTokens
  <2>8. CASE x # q
    <3> SUFFICES ASSUME Started(x)
                 PROVE  RunTokens(x)'
      BY <2>5, <2>8 DEF RunTokens
    <3>1. from[x].refreshes < refreshes => rejected[x] < signedWith[q]
      BY <1>x, <2>1, <2>2 DEF RunTokens, Signed
    <3>2. \A y \in Requests : Started(y)' /\ from'[x].refreshes < from'[y].refreshes
                               => rejected'[x] < rejected'[y]
      BY <1>x, <2>5, <2>8, <3>1 DEF RunTokens
    <3>3. \A u \in Requests : Signed(u)' /\ from'[x].refreshes < gen'[u].refreshes
                               => rejected'[x] < signedWith'[u]
      BY <1>x, <2>1, <2>5, <2>8 DEF RunTokens, Signed
    <3>q. QED
      BY <1>x, <2>1, <2>3, <2>5, <2>8, <3>2, <3>3 DEF RunTokens
  <2>q. QED
    BY <2>7, <2>8
<1>6. ASSUME NEW y \in Requests, AskProvider(y)
      PROVE  RunTokens(x)'
  <2>1. /\ rpc[y] = "renewing" /\ \E to \in {"finishing", "asking"} : rpc' = [rpc EXCEPT ![y] = to]
        /\ UNCHANGED <<token, refreshes, credential, held, gen, signedWith, from, rejected, pc>>
        /\ \A u \in Requests \ {y} : outcome'[u] = outcome[u]
    BY <1>t, <1>6 DEF AskProvider, coordinator, request, TypeOK
  <2>2. \A u \in Requests : Started(u)' <=> Started(u)
    BY <1>t, <2>1 DEF Started, TypeOK
  <2>3. ASSUME rpc'[y] = "finishing", outcome'[y] = "renewed", Started(x)
        PROVE  rejected[x] < token
    <3>1. Named /\ token # rejected[y]
      BY <1>t, <1>6, <2>3 DEF AskProvider, TypeOK
    <3>2. from[y].refreshes = refreshes
      BY <2>1 DEF IInv, CountsInOrder, RunCounts, Renewing
    <3>3. rejected[y] = credential
      BY <1>x, <2>1, <3>1, <3>2 DEF RunTokens, Started
    <3>4. CASE from[x].refreshes = refreshes
      <4>1. rejected[x] = credential /\ rejected[x] <= token
        BY <1>x, <2>3, <3>1, <3>4 DEF RunTokens
      <4>q. QED
        BY <1>n, <3>1, <3>3, <4>1
    <3>5. CASE from[x].refreshes # refreshes
      <4>1. from[x].refreshes < refreshes
        BY <1>n, <1>x, <2>3, <3>5 DEF RunTokens
      <4>q. QED
        BY <1>x, <2>3, <4>1 DEF RunTokens
    <3>q. QED
      BY <3>4, <3>5
  <2>4. \A u \in Requests : Started(x) /\ rpc'[u] = "finishing" /\ outcome'[u] = "renewed"
                             => rejected[x] < token
    <3> SUFFICES ASSUME NEW u \in Requests, Started(x), rpc'[u] = "finishing",
                        outcome'[u] = "renewed"
                 PROVE  rejected[x] < token
      OBVIOUS
    <3>1. CASE u = y
      BY <2>3, <3>1
    <3>2. CASE u # y
      <4>1. rpc[u] = "finishing" /\ outcome[u] = "renewed"
        BY <1>t, <2>1, <3>2 DEF TypeOK
      <4>q. QED
        BY <1>x, <4>1 DEF RunTokens
    <3>q. QED
      BY <3>1, <3>2
  <2>q. QED
    BY <1>x, <2>1, <2>2, <2>4 DEF RunTokens, Signed
<1>7. ASSUME NEW y \in Requests, RefresherRenews(y), ~Pinned
      PROVE  RunTokens(x)'
  <2>1. /\ token' = token + 1 /\ rpc[y] = "asking"
        /\ rpc' = [rpc EXCEPT ![y] = "finishing"]
        /\ UNCHANGED <<refreshes, credential, held, gen, signedWith, from, rejected, pc>>
    BY <1>7 DEF RefresherRenews, coordinator, request
  <2>2. \A u \in Requests : Started(u)' <=> Started(u)
    BY <1>t, <2>1 DEF Started, TypeOK
  <2>3. rejected[x] <= token => rejected[x] <= token + 1 /\ rejected[x] < token + 1
    BY <1>n
  <2>q. QED
    BY <1>x, <2>1, <2>2, <2>3 DEF RunTokens, Signed
<1>8. ASSUME NEW y \in Requests, FinishRun(y)
      PROVE  RunTokens(x)'
  <2>1. /\ rpc[y] = "finishing" /\ CountAnswer(y)
        /\ UNCHANGED <<token, held, gen, signedWith, from, rejected, outcome>>
        /\ pc' = Wake(pc) /\ rpc' = Wake([rpc EXCEPT ![y] = "closing"])
    BY <1>8 DEF FinishRun, Give
  <2>2. /\ \A u \in Requests : Started(u)' <=> Started(u)
        /\ \A u \in Requests : pc'[u] # "signed"
        /\ \A u \in Requests : rpc'[u] = "finishing" => rpc[u] = "finishing"
    <3>1. \A u \in Requests : pc[u] # "signed"
      BY <2>1 DEF IInv, TurnIsExclusive, Signing, Renewing
    <3>q. QED
      BY <1>t, <2>1, <3>1 DEF Wake, Started, TypeOK
  <2>3. outcome[y] \in {"renewed", "failed"}
    BY <2>1 DEF IInv, RunsAndRequests
  <2>4. CASE outcome[y] = "failed"
    <3>1. refreshes' = refreshes /\ credential' = credential
      BY <1>n, <2>1, <2>4 DEF CountAnswer, RunRenewed
    <3>q. QED
      BY <1>x, <2>1, <2>2, <3>1 DEF RunTokens, Signed
  <2>5. CASE outcome[y] = "renewed"
    <3>1. refreshes' = refreshes + 1
      BY <1>n, <2>1, <2>5 DEF CountAnswer, RunRenewed
    <3>2. Started(x) => /\ from[x].refreshes <= refreshes' /\ from[x].refreshes # refreshes'
                        /\ rejected[x] < token
      BY <1>n, <1>x, <2>1, <2>5, <3>1 DEF RunTokens
    <3>q. QED
      BY <1>x, <2>1, <2>2, <3>2 DEF RunTokens, Signed
  <2>q. QED
    BY <2>3, <2>4, <2>5
<1>q. QED
  BY <1>t, <1>1, <1>2, <1>3, <1>4, <1>5, <1>6, <1>7, <1>8, CalmSteps

\* At the start no run was started, and a run is started for the last token
\* signed with: what is said of runs holds of every state.
LEMMA RunsAreInOrder == ASSUME ~Pinned PROVE Spec => []RunsFollowCredentials
<1>1. Init => RunsFollowCredentials
  BY DEF Init, RunsFollowCredentials, RunTokens, Started
<1>2. IInv /\ RunsFollowCredentials /\ [Next]_vars => RunsFollowCredentials'
  BY RunsStayInOrder DEF RunsFollowCredentials
<1>q. QED
  BY <1>1, <1>2, Inductive, PTL DEF Spec

\* Two runs never renew one count: a run that renews holds the turn and is of
\* the count of now, and those that renewed before it left that count behind.
LEMMA CountIsRenewedOnce == ASSUME ~Pinned PROVE Spec => []OneRenewalPerCount
<1>1. Init => OneRenewalPerCount
  BY DEF Init, OneRenewalPerCount
<1>2. ASSUME IInv, OneRenewalPerCount, [Next]_vars
      PROVE  OneRenewalPerCount'
  <2>t. TypeOK
    BY <1>2 DEF IInv
  <2>n. refreshes \in Nat /\ \A y \in Requests : from[y].refreshes \in Nat
    BY <2>t, RunsAreTyped DEF TypeOK
  <2>1. ASSUME from' = from,
               \A u \in Requests : outcome'[u] = "renewed" => outcome[u] = "renewed"
        PROVE  OneRenewalPerCount'
    BY <1>2, <2>1 DEF OneRenewalPerCount
  <2>2. CASE Calm
    BY <2>1, <2>2 DEF Calm
  <2>3. CASE ProviderRenews
    BY <2>1, <2>3 DEF ProviderRenews, refreshRun
  <2>4. ASSUME NEW q \in Requests, Authenticate(q) \/ FinishSigning(q)
        PROVE  OneRenewalPerCount'
    BY <2>1, <2>4 DEF Authenticate, FinishSigning, refreshRun
  <2>5. ASSUME NEW q \in Requests, StartRefresh(q)
        PROVE  OneRenewalPerCount'
    <3>1. outcome[q] = "none"
      BY <1>2, <2>5, NotStartedYet DEF IInv, StartRefresh
    <3>2. outcome' = outcome /\ \A u \in Requests \ {q} : from'[u] = from[u]
      BY <2>t, <2>5 DEF StartRefresh, TypeOK
    <3>q. QED
      BY <1>2, <3>1, <3>2 DEF OneRenewalPerCount
  <2>6. ASSUME NEW y \in Requests, AskProvider(y) \/ RefresherRenews(y)
        PROVE  OneRenewalPerCount'
    <3>1. /\ y \in Renewing /\ from' = from
          /\ \A u \in Requests \ {y} : outcome'[u] = outcome[u]
      BY <2>t, <2>6 DEF AskProvider, RefresherRenews, Renewing, TypeOK
    <3>2. from[y].refreshes = refreshes
      BY <1>2, <3>1 DEF IInv, CountsInOrder, RunCounts
    <3>3. \A u \in Requests \ {y} : outcome[u] = "renewed" => Ended(u)
      BY <1>2, <3>1 DEF IInv, TurnIsExclusive, RunsAndRequests, Renewing, Ended
    <3>4. \A u \in Requests \ {y} : outcome[u] = "renewed"
                                     => from[u].refreshes < refreshes
      BY <1>2, <3>3 DEF IInv, CountsInOrder, RunCounts, RunRenewed
    <3>5. \A u \in Requests \ {y} : outcome'[u] = "renewed"
                                     => from'[u].refreshes # from'[y].refreshes
      BY <2>n, <3>1, <3>2, <3>4
    <3>q. QED
      BY <1>2, <3>1, <3>5 DEF OneRenewalPerCount
  <2>7. ASSUME NEW y \in Requests, FinishRun(y)
        PROVE  OneRenewalPerCount'
    BY <2>1, <2>7 DEF FinishRun
  <2>q. QED
    BY <1>2, <2>t, <2>2, <2>3, <2>4, <2>5, <2>6, <2>7, CalmSteps
<1>q. QED
  BY <1>1, <1>2, Inductive, PTL DEF Spec

\* "A set of credentials is refreshed once however many requests were signed
\* with it": no token is the rejected one of two runs that renewed.
THEOREM OneRenewal == ASSUME ~Pinned PROVE Spec => []OneRenewalPerCredential
<1>1. ASSUME IInv, RunsFollowCredentials, OneRenewalPerCount,
             NEW x \in Requests, NEW y \in Requests,
             outcome[x] = "renewed", outcome[y] = "renewed", rejected[x] = rejected[y]
      PROVE  x = y
  <2>1. TypeOK /\ Started(x) /\ Started(y)
    BY <1>1 DEF IInv, RunsAndRequests, Started
  <2>2. /\ from[x].refreshes \in Nat /\ rejected[x] \in Nat
        /\ from[y].refreshes \in Nat /\ rejected[y] \in Nat
    BY <2>1, RunsAreTyped
  <2>3. /\ from[x].refreshes < from[y].refreshes => rejected[x] < rejected[y]
        /\ from[y].refreshes < from[x].refreshes => rejected[y] < rejected[x]
    BY <1>1, <2>1 DEF RunsFollowCredentials, RunTokens
  <2>4. from[x].refreshes = from[y].refreshes
    BY <1>1, <2>2, <2>3
  <2>q. QED
    BY <1>1, <2>4 DEF OneRenewalPerCount
<1>2. IInv /\ RunsFollowCredentials /\ OneRenewalPerCount => OneRenewalPerCredential
  BY <1>1 DEF OneRenewalPerCredential
<1>q. QED
  BY <1>2, Inductive, RunsAreInOrder, CountIsRenewedOnce, PTL

-----------------------------------------------------------------------------
(* The coordinator implements the promises of CredentialGenerations.       *)

\* A live run was started for the credentials its own request still has: the
\* request waits for it, or its context ended first.
RunIsItsRequests ==
  \A x \in Live : gen[x] = from[x] /\ pc[x] \in {"waiting", "over"}

\* Of a live run's request only answer's two ways out of waiting move it, and
\* the one that is not its context's end needs the run done.
LEMMA RunsAreTheirRequests == Spec => []RunIsItsRequests
<1>1. Init => RunIsItsRequests
  BY DEF Init, RunIsItsRequests, Live, Taking
<1>2. ASSUME TypeOK, RunsAndRequests, RunIsItsRequests, [Next]_vars
      PROVE  RunIsItsRequests'
  <2>t. TypeOK
    BY <1>2
  <2>a. \A x \in Requests : x \in Live => /\ gen[x] = from[x] /\ pc[x] \in {"waiting", "over"}
                                          /\ pc[x] = "waiting" => waits[x] = x
    <3> SUFFICES ASSUME NEW x \in Requests, x \in Live
                 PROVE  /\ gen[x] = from[x] /\ pc[x] \in {"waiting", "over"}
                        /\ pc[x] = "waiting" => waits[x] = x
      OBVIOUS
    <3>1. gen[x] = from[x] /\ pc[x] \in {"waiting", "over"} /\ rpc[x] # "none"
      BY <1>2 DEF RunIsItsRequests, Live, Taking
    <3>2. pc[x] = "waiting" => attempt[x] = 1
      BY <1>2 DEF RunsAndRequests
    <3>3. pc[x] = "waiting" => waits[x] = x
      BY <1>2, <3>1, <3>2 DEF RunsAndRequests, Terminal
    <3>q. QED
      BY <3>1, <3>3
  <2>1. ASSUME UNCHANGED <<gen, from>>, \A x \in Requests : x \in Live' => x \in Live,
               \A x \in Requests : x \in Live' => pc'[x] = pc[x] \/ pc'[x] = "over"
        PROVE  RunIsItsRequests'
    <3>1. ASSUME NEW x \in Requests, x \in Live'
          PROVE  gen'[x] = from'[x] /\ pc'[x] \in {"waiting", "over"}
      BY <2>a, <2>1, <3>1
    <3>q. QED
      BY <3>1 DEF RunIsItsRequests, Live
  <2>2. ASSUME NEW q \in Requests,
               \/ TakeTurn(q) \/ SleepOnTurn(q) \/ SleepOnRefresh(q) \/ WakeFromRefresh(q)
               \/ Authenticate(q) \/ Respond(q) \/ Reject(q) \/ AbandonSigning(q)
               \/ AbandonAnswer(q) \/ JoinRefresh(q) \/ AskAgain(q)
               \/ AnswerOvertaken(q) \/ AnswerShared(q) \/ TakeRunsAnswer(q)
        PROVE  RunIsItsRequests'
    <3>1. UNCHANGED <<gen, from, rpc>> /\ \A u \in Requests \ {q} : pc'[u] = pc[u]
      BY <2>t, <2>2
      DEF TakeTurn, SleepOnTurn, SleepOnRefresh, WakeFromRefresh, Authenticate, Respond,
          Reject, AbandonSigning, AbandonAnswer, JoinRefresh, AskAgain, AnswerOvertaken,
          AnswerShared, TakeRunsAnswer, Told, refreshRun, TypeOK
    <3>2. q \in Live => pc[q] \in {"waiting", "over"} /\ (pc[q] = "waiting" => waits[q] = q)
      BY <2>a
    <3>3. q \in Live => rpc[q] # "done"
      BY DEF Live, Taking
    <3>4. q \in Live => pc'[q] = "over"
      BY <2>t, <2>2, <3>2, <3>3
      DEF TakeTurn, SleepOnTurn, SleepOnRefresh, WakeFromRefresh, Authenticate, Respond,
          Reject, AbandonSigning, AbandonAnswer, JoinRefresh, AskAgain, AnswerOvertaken,
          AnswerShared, TakeRunsAnswer, Taking, TypeOK
    <3>5. Live' = Live
      BY <3>1 DEF Live
    <3>q. QED
      BY <2>1, <3>1, <3>4, <3>5
  <2>3. ASSUME NEW q \in Requests, AuthenticateFails(q) \/ FinishSigning(q)
        PROVE  RunIsItsRequests'
    <3>1. /\ pc[q] \in {"signing", "signed"} /\ from' = from
          /\ \A u \in Requests \ {q} : gen'[u] = gen[u]
          /\ rpc' = Wake(rpc)
          /\ \E to \in {"over", "sent"} : pc' = Wake([pc EXCEPT ![q] = to])
      BY <2>t, <2>3 DEF AuthenticateFails, FinishSigning, Give, TypeOK
    <3>2. q \notin Live
      BY <2>a, <3>1
    <3>3. \A x \in Requests : x \in Live' <=> x \in Live
      BY <3>1 DEF Live, Wake, Taking
    <3>4. \A x \in Live : gen'[x] = gen[x] /\ pc'[x] = pc[x]
      BY <2>t, <2>a, <3>1, <3>2 DEF Wake, TypeOK, Live
    <3>5. ASSUME NEW x \in Requests, x \in Live'
          PROVE  gen'[x] = from'[x] /\ pc'[x] \in {"waiting", "over"}
      BY <2>a, <3>1, <3>3, <3>4, <3>5
    <3>q. QED
      BY <3>5 DEF RunIsItsRequests, Live
  <2>4. ASSUME NEW q \in Requests, StartRefresh(q)
        PROVE  RunIsItsRequests'
    <3>1. /\ gen' = gen /\ from'[q] = gen[q] /\ pc'[q] = "waiting"
          /\ \A u \in Requests \ {q} : from'[u] = from[u] /\ pc'[u] = pc[u] /\ rpc'[u] = rpc[u]
      BY <2>t, <2>4 DEF StartRefresh, TypeOK
    <3>2. ASSUME NEW x \in Requests, x \in Live'
          PROVE  gen'[x] = from'[x] /\ pc'[x] \in {"waiting", "over"}
      <4>1. CASE x = q
        BY <3>1, <4>1
      <4>2. CASE x # q
        <5>1. x \in Live
          BY <3>1, <3>2, <4>2 DEF Live
        <5>q. QED
          BY <2>a, <3>1, <4>2, <5>1
      <4>q. QED
        BY <4>1, <4>2
    <3>q. QED
      BY <3>2 DEF RunIsItsRequests, Live
  <2>5. ASSUME NEW x \in Requests, Refresh(x)
        PROVE  RunIsItsRequests'
    <3>1. /\ UNCHANGED <<gen, from>> /\ (pc' = pc \/ pc' = Wake(pc))
          /\ rpc[x] # "none" /\ rpc[x] # "done"
          /\ \A u \in Requests \ {x} : rpc'[u] = rpc[u] \/ (rpc[u] = "turnWait" /\ rpc'[u] = "woken")
      BY <2>t, <2>5
      DEF Refresh, RunSleeps, RunGivesUp, RunOvertaken, RunTakesTurn, AskProvider,
          RefresherRenews, RefresherFails, FinishRun, CloseRun, Give, Wake, coordinator,
          request, Taking, TypeOK
    <3>2. x \in Live' => x \in Live
      BY <2>t, <2>5
      DEF Refresh, RunSleeps, RunGivesUp, RunOvertaken, RunTakesTurn, AskProvider,
          RefresherRenews, RefresherFails, FinishRun, CloseRun, Give, Wake, coordinator,
          request, Taking, TypeOK, Live
    <3>3. \A u \in Requests : u \in Live' => u \in Live
      BY <3>1, <3>2 DEF Live, Taking
    <3>4. \A u \in Requests : u \in Live' => pc'[u] = pc[u]
      BY <2>a, <3>1, <3>3 DEF Wake
    <3>q. QED
      BY <2>1, <3>1, <3>3, <3>4
  <2>6. CASE ProviderRenews \/ UNCHANGED vars
    <3>1. UNCHANGED <<gen, from, rpc, pc>>
      BY <2>6 DEF ProviderRenews, vars, request, refreshRun
    <3>q. QED
      BY <2>1, <3>1 DEF Live
  <2>q. QED
    BY <1>2, <2>2, <2>3, <2>4, <2>5, <2>6 DEF Next, Sign, Ask, Done
<1>q. QED
  BY <1>1, <1>2, TypeCorrect, RunsAndRequestsAreKept, PTL DEF Spec

\* The promise's variables that are sets of the coordinator's: the generation
\* being renewed, and those that were not renewed.
Underway == {from[x] : x \in Renewing}
Lost     == {from[x] : x \in Unrenewed}

\* What the turn, the runs and the requests are known to be when a step is
\* taken: everything the refinement needs of a reachable state.
Sound ==
  /\ TypeOK /\ TurnInv /\ RunsAndRequests /\ CountsInOrder /\ ResendIsDue
  /\ RunIsItsRequests

\* The steps of the promise, as what they do to the coordinator.
RunsStand == Underway' = Underway /\ Lost' = Lost
CountsStand == UNCHANGED <<refreshes, runs>>
StatesStand(R) == \A r \in R : AbstractState(r)' = AbstractState(r)

\* One request's abstract state moves and the others stand.
LEMMA OneMoves ==
  ASSUME NEW q \in Requests, StatesStand(Requests \ {q})
  PROVE  [r \in Requests |-> AbstractState(r)]'
           = [[r \in Requests |-> AbstractState(r)] EXCEPT ![q] = AbstractState(q)']
<1> DEFINE f == [r \in Requests |-> AbstractState(r)]
<1>1. \A r \in Requests : f'[r] = [f EXCEPT ![q] = AbstractState(q)'][r]
  BY DEF StatesStand
<1>2. f' = [r \in Requests |-> f'[r]] /\ DOMAIN [f EXCEPT ![q] = AbstractState(q)'] = Requests
  OBVIOUS
<1>q. QED
  BY <1>1, <1>2

\* Nothing the promise speaks of has changed.
LEMMA StepStutters ==
  ASSUME CountsStand, RunsStand, gen' = gen, StatesStand(Requests)
  PROVE  UNCHANGED Promise!vars
<1>1. [r \in Requests |-> AbstractState(r)]' = [r \in Requests |-> AbstractState(r)]
  BY DEF StatesStand
<1>q. QED
  BY <1>1 DEF Promise!vars, CountsStand, RunsStand, Underway, Lost

\* A step that moves one request's state and nothing else is a resend, a
\* refusal or a departure when the promise's own guard holds.
LEMMA StepAnswers ==
  ASSUME NEW q \in Requests, CountsStand, RunsStand, gen' = gen,
         StatesStand(Requests \ {q}),
         \/ /\ AbstractState(q) = "signed" /\ AbstractState(q)' = "renewed"
            /\ refreshes > gen[q].refreshes
         \/ /\ AbstractState(q)' = "refused"
            /\ \/ AbstractState(q) = "signed" /\ gen[q] \in Lost
              \/ AbstractState(q) = "resigned"
         \/ AbstractState(q) # "refused" /\ AbstractState(q)' = "over"
  PROVE  Promise!Next
<1>1. [r \in Requests |-> AbstractState(r)]'
        = [[r \in Requests |-> AbstractState(r)] EXCEPT ![q] = AbstractState(q)']
  BY OneMoves
<1>2. UNCHANGED <<refreshes, runs, {from[x] : x \in Renewing}, {from[x] : x \in Unrenewed}, gen>>
  BY DEF CountsStand, RunsStand, Underway, Lost
<1>3. CASE /\ AbstractState(q) = "signed" /\ AbstractState(q)' = "renewed"
           /\ refreshes > gen[q].refreshes
  <2>1. Promise!Resend(q)
    BY <1>1, <1>2, <1>3 DEF Promise!Resend
  <2>q. QED
    BY <2>1 DEF Promise!Next
<1>4. CASE /\ AbstractState(q)' = "refused"
           /\ \/ AbstractState(q) = "signed" /\ gen[q] \in Lost
              \/ AbstractState(q) = "resigned"
  <2>1. Promise!Refuse(q)
    BY <1>1, <1>2, <1>4 DEF Promise!Refuse, Lost
  <2>q. QED
    BY <2>1 DEF Promise!Next
<1>5. CASE AbstractState(q) # "refused" /\ AbstractState(q)' = "over"
  <2>1. Promise!Leave(q)
    BY <1>1, <1>2, <1>5 DEF Promise!Leave
  <2>q. QED
    BY <2>1 DEF Promise!Next
<1>q. QED
  BY <1>3, <1>4, <1>5

\* The generations being renewed and those not renewed are the same when the
\* runs that have them are.
LEMMA RunsStandStill ==
  ASSUME \A x \in Requests : /\ x \in Renewing' <=> x \in Renewing
                             /\ x \in Unrenewed' <=> x \in Unrenewed
                             /\ x \in Renewing \/ x \in Unrenewed => from'[x] = from[x]
  PROVE  RunsStand
<1>1. Renewing' = Renewing /\ Unrenewed' = Unrenewed
  BY DEF Renewing, Unrenewed
<1>2. \A x \in Renewing \cup Unrenewed : from'[x] = from[x]
  BY DEF Renewing, Unrenewed
<1>q. QED
  BY <1>1, <1>2 DEF RunsStand, Underway, Lost

\* A step that leaves the runs alone, but for waking those asleep on the turn.
LEMMA WokenRunsStand ==
  ASSUME TypeOK, UNCHANGED <<from, outcome>>, rpc' = rpc \/ rpc' = Wake(rpc)
  PROVE  RunsStand
<1>1. \A x \in Requests : rpc'[x] = rpc[x] \/ (rpc[x] = "turnWait" /\ rpc'[x] = "woken")
  BY DEF Wake, TypeOK
<1>2. \A x \in Requests : /\ x \in Renewing' <=> x \in Renewing
                          /\ x \in Unrenewed' <=> x \in Unrenewed
  BY <1>1 DEF Renewing, Unrenewed
<1>q. QED
  BY <1>2, RunsStandStill

\* A request that is woken, or does not move, is where it was to a reader of
\* the promises.
LEMMA WokenRequestsStand ==
  ASSUME NEW R \in SUBSET Requests, 
         \A r \in R : /\ attempt'[r] = attempt[r]
                      /\ pc'[r] = pc[r] \/ (pc[r] = "turnWait" /\ pc'[r] = "woken")
  PROVE  StatesStand(R)
<1>1. ASSUME NEW r \in R
      PROVE  AbstractState(r)' = AbstractState(r)
  <2>1. CASE pc'[r] = pc[r]
    BY <1>1, <2>1 DEF AbstractState
  <2>2. CASE pc[r] = "turnWait" /\ pc'[r] = "woken"
    BY <1>1, <2>2 DEF AbstractState, Taking
  <2>q. QED
    BY <1>1, <2>1, <2>2
<1>q. QED
  BY <1>1 DEF StatesStand

\* Steps of a request that the promise does not speak of: it takes or waits
\* for the turn, reads its token, waits for a run, asks again.
LEMMA WaitsAreHidden ==
  ASSUME Sound, NEW q \in Requests,
         \/ TakeTurn(q) \/ SleepOnTurn(q) \/ SleepOnRefresh(q) \/ WakeFromRefresh(q)
         \/ Authenticate(q) \/ JoinRefresh(q) \/ AskAgain(q)
         \/ (Reject(q) /\ attempt[q] = 1)
  PROVE  UNCHANGED Promise!vars
<1>t. TypeOK
  BY DEF Sound
<1>1. /\ UNCHANGED <<refreshes, runs, gen, attempt, from, outcome, rpc>>
      /\ \A r \in Requests \ {q} : pc'[r] = pc[r]
  BY <1>t
  DEF TakeTurn, SleepOnTurn, SleepOnRefresh, WakeFromRefresh, Authenticate, JoinRefresh,
      AskAgain, Reject, coordinator, refreshRun, TypeOK
<1>2. LET early == Taking \cup {"turnWait", "refreshWait", "signing", "signed"}
          late  == {"sent", "answering", "waiting"}
      IN  (pc[q] \in early /\ pc'[q] \in early) \/ (pc[q] \in late /\ pc'[q] \in late)
  BY <1>t
  DEF TakeTurn, SleepOnTurn, SleepOnRefresh, WakeFromRefresh, Authenticate, JoinRefresh,
      AskAgain, Reject, Taking, TypeOK
<1>3. AbstractState(q)' = AbstractState(q)
  BY <1>1, <1>2 DEF AbstractState, Taking
<1>4. StatesStand(Requests \ {q})
  BY <1>1, WokenRequestsStand
<1>5. StatesStand(Requests)
  BY <1>3, <1>4 DEF StatesStand
<1>6. RunsStand
  BY <1>t, <1>1, WokenRunsStand
<1>q. QED
  BY <1>1, <1>5, <1>6, StepStutters DEF CountsStand

\* Steps of a run that the promise does not speak of: it waits for the turn,
\* finds its credentials renewed, calls the refresher, closes its channel.
LEMMA RunsStepsAreHidden ==
  ASSUME Sound, NEW x \in Requests,
         \/ RunSleeps(x) \/ RunOvertaken(x) \/ AskProvider(x) \/ RefresherRenews(x)
         \/ RefresherFails(x) \/ CloseRun(x)
  PROVE  UNCHANGED Promise!vars
<1>t. TypeOK /\ RunsAndRequests
  BY DEF Sound
<1>1. /\ UNCHANGED <<refreshes, runs, gen, attempt, from>>
      /\ pc' = pc \/ pc' = Wake(pc)
      /\ \A y \in Requests \ {x} :
           /\ outcome'[y] = outcome[y]
           /\ rpc'[y] = rpc[y] \/ (rpc[y] = "turnWait" /\ rpc'[y] = "woken")
  BY <1>t
  DEF RunSleeps, RunOvertaken, AskProvider, RefresherRenews, RefresherFails, CloseRun,
      coordinator, request, Give, Wake, TypeOK
<1>2. \A r \in Requests : pc'[r] = pc[r] \/ (pc[r] = "turnWait" /\ pc'[r] = "woken")
  BY <1>1 DEF Wake
<1>3. StatesStand(Requests)
  BY <1>1, <1>2, WokenRequestsStand
<1>4. x \in Renewing' <=> x \in Renewing
  BY <1>t
  DEF RunSleeps, RunOvertaken, AskProvider, RefresherRenews, RefresherFails, CloseRun,
      Give, Wake, TypeOK, Renewing, Taking
<1>5. x \in Unrenewed' <=> x \in Unrenewed
  <2>1. CASE RunSleeps(x)
    BY <1>t, <2>1 DEF RunSleeps, TypeOK, Unrenewed, Taking
  <2>2. CASE RunOvertaken(x)
    BY <1>t, <2>2 DEF RunOvertaken, Give, Wake, TypeOK, Unrenewed, Taking
  <2>3. CASE AskProvider(x) \/ RefresherRenews(x) \/ RefresherFails(x)
    BY <1>t, <2>3 DEF AskProvider, RefresherRenews, RefresherFails, TypeOK, Unrenewed
  <2>4. CASE CloseRun(x)
    BY <1>t, <2>4 DEF CloseRun, TypeOK, Unrenewed
  <2>q. QED
    BY <2>1, <2>2, <2>3, <2>4
<1>6. \A y \in Requests : /\ y \in Renewing' <=> y \in Renewing
                          /\ y \in Unrenewed' <=> y \in Unrenewed
  BY <1>1, <1>4, <1>5 DEF Renewing, Unrenewed
<1>7. RunsStand
  BY <1>1, <1>6, RunsStandStill
<1>q. QED
  BY <1>1, <1>3, <1>7, StepStutters DEF CountsStand

\* StartRefresh makes a run of a request that had none, and nothing of it can
\* be seen before it takes the turn.
LEMMA StartIsHidden ==
  ASSUME Sound, NEW q \in Requests, StartRefresh(q)
  PROVE  UNCHANGED Promise!vars
<1>t. TypeOK /\ RunsAndRequests
  BY DEF Sound
<1>1. rpc[q] = "none" /\ outcome[q] = "none"
  BY <1>t, NotStartedYet DEF StartRefresh
<1>2. /\ UNCHANGED <<refreshes, runs, gen, attempt, outcome>>
      /\ pc[q] = "answering" /\ pc'[q] = "waiting" /\ rpc'[q] = "arriving"
      /\ \A r \in Requests \ {q} : pc'[r] = pc[r] /\ rpc'[r] = rpc[r] /\ from'[r] = from[r]
  BY <1>t DEF StartRefresh, TypeOK
<1>3. AbstractState(q)' = AbstractState(q)
  BY <1>2 DEF AbstractState, Taking
<1>4. StatesStand(Requests \ {q})
  BY <1>2, WokenRequestsStand
<1>5. \A x \in Requests : /\ x \in Renewing' <=> x \in Renewing
                          /\ x \in Unrenewed' <=> x \in Unrenewed
                          /\ x \in Renewing \/ x \in Unrenewed => from'[x] = from[x]
  BY <1>1, <1>2 DEF Renewing, Unrenewed
<1>6. RunsStand
  BY <1>5, RunsStandStill
<1>q. QED
  BY <1>2, <1>3, <1>4, <1>6, StepStutters DEF CountsStand, StatesStand

\* The answers that end a request without its 401 being given back: the server's
\* own, an error of the strategy, the end of its context.
LEMMA DeparturesAreLeaves ==
  ASSUME Sound, NEW q \in Requests,
         Respond(q) \/ AbandonSigning(q) \/ AbandonAnswer(q) \/ AuthenticateFails(q)
  PROVE  Promise!Next
<1>t. TypeOK
  BY DEF Sound
<1>1. /\ UNCHANGED <<refreshes, runs, gen, attempt, from, outcome>>
      /\ rpc' = rpc \/ rpc' = Wake(rpc)
      /\ \A r \in Requests \ {q} :
           pc'[r] = pc[r] \/ (pc[r] = "turnWait" /\ pc'[r] = "woken")
      /\ pc[q] \notin Terminal /\ pc'[q] = "over"
  BY <1>t
  DEF Respond, AbandonSigning, AbandonAnswer, AuthenticateFails, Give, Wake, coordinator,
      refreshRun, TypeOK, Terminal
<1>2. AbstractState(q) # "refused" /\ AbstractState(q)' = "over"
  <2>1. pc[q] # "refused"
    BY <1>1 DEF Terminal
  <2>2. AbstractState(q)' = "over"
    BY <1>1 DEF AbstractState, Taking
  <2>q. QED
    BY <2>1, <2>2 DEF AbstractState
<1>3. StatesStand(Requests \ {q})
  BY <1>1, WokenRequestsStand
<1>4. RunsStand
  BY <1>t, <1>1, WokenRunsStand
<1>q. QED
  BY <1>1, <1>2, <1>3, <1>4, StepAnswers DEF CountsStand

\* A second 401 is the caller's.
LEMMA SecondRejectionIsRefusal ==
  ASSUME Sound, NEW q \in Requests, Reject(q), attempt[q] # 1
  PROVE  Promise!Next
<1>t. TypeOK
  BY DEF Sound
<1>1. /\ UNCHANGED <<refreshes, runs, gen, attempt, from, outcome, rpc>>
      /\ \A r \in Requests \ {q} : pc'[r] = pc[r]
      /\ pc[q] = "sent" /\ pc'[q] = "refused"
  BY <1>t DEF Reject, coordinator, refreshRun, TypeOK
<1>2. AbstractState(q) = "resigned" /\ AbstractState(q)' = "refused"
  BY <1>1 DEF AbstractState, Taking
<1>3. StatesStand(Requests \ {q})
  BY <1>1, WokenRequestsStand
<1>4. RunsStand
  BY <1>t, <1>1, WokenRunsStand
<1>q. QED
  BY <1>1, <1>2, <1>3, <1>4, StepAnswers DEF CountsStand

\* The coordinator's answers: "renewed" only when the count is past the
\* request's own, and "not renewed" only with a lost refresh of its generation.
LEMMA AnswersAreOwed ==
  ASSUME Sound, NEW q \in Requests,
         AnswerOvertaken(q) \/ AnswerShared(q) \/ TakeRunsAnswer(q)
  PROVE  Promise!Next
<1>t. TypeOK /\ RunsAndRequests /\ CountsInOrder
  BY DEF Sound
<1>n. refreshes \in Nat /\ \A x \in Requests : /\ gen[x].refreshes \in Nat
                                               /\ from[x].refreshes \in Nat
  BY <1>t DEF TypeOK, Generation
<1>1. PICK yes \in BOOLEAN :
        /\ Told(q, yes)
        /\ pc[q] \in {"answering", "waiting"}
        /\ yes => refreshes > gen[q].refreshes
        /\ ~yes => gen[q] \in Lost
  <2>1. CASE AnswerOvertaken(q)
    <3>1. Told(q, TRUE) /\ pc[q] = "answering" /\ refreshes # gen[q].refreshes
      BY <2>1 DEF AnswerOvertaken
    <3>2. gen[q].refreshes <= refreshes
      BY <1>t DEF CountsInOrder, RequestCounts
    <3>3. refreshes > gen[q].refreshes
      BY <1>n, <3>1, <3>2
    <3>4. TRUE \in BOOLEAN
      OBVIOUS
    <3>q. QED
      BY <3>1, <3>3, <3>4, Zenon
  <2>2. CASE AnswerShared(q)
    <3>1. /\ Told(q, renewed) /\ pc[q] = "answering" /\ refreshes = gen[q].refreshes
          /\ runs # gen[q].runs
      BY <2>2 DEF AnswerShared, AlreadyFailed
    <3>2. PICK x \in Requests : Ended(x) /\ outcome[x] = "failed" /\ from[x] = gen[q]
      BY <1>t, <3>1 DEF CountsInOrder, RequestCounts
    <3>3. renewed = FALSE
      BY <1>t, <3>1 DEF CountsInOrder, RequestCounts
    <3>4. gen[q] \in Lost
      BY <3>2 DEF Lost, Unrenewed, Ended
    <3>q. QED
      BY <3>1, <3>3, <3>4
  <2>3. CASE TakeRunsAnswer(q)
    <3> DEFINE x == waits[q]
    <3>1. /\ Told(q, RunRenewed(x)) /\ pc[q] = "waiting" /\ rpc[x] = "done"
          /\ from[x] = gen[q]
      BY <2>3 DEF TakeRunsAnswer, OwnRun
    <3>2. x \in Requests
      BY <1>t, <3>1 DEF RunsAndRequests
    <3> HIDE DEF x
    <3>3. RunRenewed(x) => refreshes > gen[q].refreshes
      BY <1>n, <1>t, <3>1, <3>2 DEF CountsInOrder, RunCounts, Ended
    <3>4. ~RunRenewed(x) => gen[q] \in Lost
      <4>1. ~RunRenewed(x) => outcome[x] \in {"failed", "gaveUp"}
        BY <1>t, <3>1, <3>2, NotRenewed
      <4>q. QED
        BY <3>1, <3>2, <4>1 DEF Lost, Unrenewed
    <3>5. RunRenewed(x) \in BOOLEAN
      BY DEF RunRenewed
    <3>q. QED
      BY <3>1, <3>3, <3>4, <3>5
  <2>q. QED
    BY <2>1, <2>2, <2>3
<1>2. attempt[q] = 1
  BY <1>t, <1>1 DEF RunsAndRequests
<1>3. /\ UNCHANGED <<refreshes, runs, gen, from, outcome, rpc>>
      /\ \A r \in Requests \ {q} : pc'[r] = pc[r] /\ attempt'[r] = attempt[r]
  BY <1>t, <1>1 DEF Told, coordinator, refreshRun, TypeOK
<1>4. StatesStand(Requests \ {q})
  BY <1>3, WokenRequestsStand
<1>5. RunsStand
  BY <1>t, <1>3, WokenRunsStand
<1>6. AbstractState(q) = "signed"
  BY <1>1, <1>2 DEF AbstractState, Taking
<1>7. CASE yes
  <2>1. pc'[q] = "arriving" /\ attempt'[q] = 2
    BY <1>t, <1>1, <1>7 DEF Told, TypeOK
  <2>2. AbstractState(q)' = "renewed"
    BY <2>1 DEF AbstractState, Taking
  <2>q. QED
    BY <1>1, <1>3, <1>4, <1>5, <1>6, <1>7, <2>2, StepAnswers DEF CountsStand
<1>8. CASE ~yes
  <2>1. pc'[q] = "refused"
    BY <1>t, <1>1, <1>8 DEF Told, TypeOK
  <2>2. AbstractState(q)' = "refused"
    BY <2>1 DEF AbstractState, Taking
  <2>q. QED
    BY <1>1, <1>3, <1>4, <1>5, <1>6, <1>8, <2>2, StepAnswers DEF CountsStand
<1>q. QED
  BY <1>7, <1>8

\* The steps the promise speaks of.

\* The generation is stamped in the critical section that counts the renewal,
\* and no run is between taking the turn and giving it back.
LEMMA FinishingIsSigning ==
  ASSUME Sound, NEW q \in Requests, FinishSigning(q)
  PROVE  Promise!Next
<1>t. TypeOK /\ TurnInv /\ ResendIsDue
  BY DEF Sound
<1>1. /\ pc[q] = "signed"
      /\ gen' = [gen EXCEPT ![q] = Stamp]
      /\ UNCHANGED <<attempt, from, outcome>>
      /\ rpc' = Wake(rpc)
      /\ \A r \in Requests \ {q} :
           pc'[r] = pc[r] \/ (pc[r] = "turnWait" /\ pc'[r] = "woken")
      /\ pc'[q] = "sent"
  BY <1>t DEF FinishSigning, Give, Wake, TypeOK
<1>2. \/ UNCHANGED <<refreshes, runs>>
      \/ refreshes' = refreshes + 1 /\ runs' = runs + 1
  BY <1>t DEF FinishSigning, TypeOK
<1>3. Renewing = {}
  BY <1>t, <1>1 DEF TurnInv, TurnIsExclusive, Signing
<1>4. {from[x] : x \in Renewing} = {}
  BY <1>3
<1>5. StatesStand(Requests \ {q})
  BY <1>1, WokenRequestsStand
<1>6. RunsStand
  BY <1>t, <1>1, WokenRunsStand
<1>7. UNCHANGED <<{from[x] : x \in Renewing}, {from[x] : x \in Unrenewed}>>
  BY <1>6 DEF RunsStand, Underway, Lost
<1>8. \/ AbstractState(q) = "unsigned" /\ AbstractState(q)' = "signed"
      \/ /\ AbstractState(q) = "renewed" /\ AbstractState(q)' = "resigned"
         /\ refreshes' > gen[q].refreshes
  <2>1. CASE attempt[q] = 1
    BY <1>1, <2>1 DEF AbstractState, Taking
  <2>2. CASE attempt[q] # 1
    <3>1. attempt[q] = 2
      BY <1>t, <2>2 DEF TypeOK
    <3>2. gen[q].refreshes < refreshes
      BY <1>t, <1>1, <3>1 DEF ResendIsDue
    <3>3. refreshes \in Nat /\ gen[q].refreshes \in Nat
      BY <1>t DEF TypeOK, Generation
    <3>4. refreshes' > gen[q].refreshes
      BY <1>2, <3>2, <3>3
    <3>q. QED
      BY <1>1, <2>2, <3>4 DEF AbstractState, Taking
  <2>q. QED
    BY <2>1, <2>2
<1>9. [r \in Requests |-> AbstractState(r)]'
        = [[r \in Requests |-> AbstractState(r)] EXCEPT ![q] = AbstractState(q)']
  BY <1>5, OneMoves
<1>10. Promise!Sign(q)
  BY <1>1, <1>2, <1>4, <1>7, <1>8, <1>9 DEF Promise!Sign, Promise!Now, Stamp
<1>q. QED
  BY <1>10 DEF Promise!Next

\* A run that takes the turn renews the credentials of now, which its own
\* request was signed with.
LEMMA TakingIsBeginning ==
  ASSUME Sound, NEW x \in Requests, RunTakesTurn(x)
  PROVE  Promise!Next
<1>t. TypeOK /\ TurnInv /\ CountsInOrder /\ RunIsItsRequests
  BY DEF Sound
<1>1. /\ rpc[x] \in Taking /\ busy = FALSE /\ refreshes = from[x].refreshes
      /\ rpc' = [rpc EXCEPT ![x] = "renewing"]
      /\ UNCHANGED <<refreshes, runs, pc, attempt, gen, from, outcome>>
  BY <1>t DEF RunTakesTurn, Overtaken, request, TypeOK
<1>2. x \in Live
  BY <1>1 DEF Live
<1>3. from[x] = [refreshes |-> refreshes, runs |-> runs]
  <2>1. from[x].runs = runs
    BY <1>t, <1>1, <1>2 DEF CountsInOrder, RunCounts
  <2>2. from[x] \in Generation
    BY <1>t DEF TypeOK
  <2>q. QED
    BY <1>1, <2>1, <2>2 DEF Generation
<1>4. gen[x] = [refreshes |-> refreshes, runs |-> runs] /\ AbstractState(x) # "unsigned"
  <2>1. gen[x] = from[x] /\ pc[x] \in {"waiting", "over"}
    BY <1>t, <1>2 DEF RunIsItsRequests
  <2>2. AbstractState(x) # "unsigned"
    BY <2>1 DEF AbstractState, Taking
  <2>q. QED
    BY <1>3, <2>1, <2>2
<1>5. Renewing = {}
  BY <1>t, <1>1 DEF TurnInv, TurnIsExclusive
<1>6. Renewing' = {x}
  BY <1>t, <1>1, <1>5 DEF Renewing, TypeOK
<1>7. {from[y] : y \in Renewing} = {}
  BY <1>5
<1>8. {from[y] : y \in Renewing}' = {[refreshes |-> refreshes, runs |-> runs]}
  BY <1>1, <1>3, <1>6
<1>9. Unrenewed' = Unrenewed
  BY <1>t, <1>1 DEF Unrenewed, TypeOK, Taking
<1>10. {from[y] : y \in Unrenewed}' = {from[y] : y \in Unrenewed}
  BY <1>1, <1>9
<1>11. StatesStand(Requests)
  BY <1>1, WokenRequestsStand
<1>12. [r \in Requests |-> AbstractState(r)]' = [r \in Requests |-> AbstractState(r)]
  BY <1>11 DEF StatesStand
<1>13. [r \in Requests |-> AbstractState(r)][x] # "unsigned"
  BY <1>4
<1>14. Promise!Begin
  BY <1>1, <1>4, <1>7, <1>8, <1>10, <1>12, <1>13 DEF Promise!Begin, Promise!Now
<1>q. QED
  BY <1>14 DEF Promise!Next

\* The refresher's answer is counted as the turn is given back, and leaves the
\* generation renewed or lost.
LEMMA FinishingIsEnding ==
  ASSUME Sound, NEW x \in Requests, FinishRun(x)
  PROVE  Promise!Next
<1>t. TypeOK /\ TurnInv /\ RunsAndRequests
  BY DEF Sound
<1>1. /\ rpc[x] = "finishing" /\ rpc'[x] = "closing"
      /\ UNCHANGED <<attempt, gen, from, outcome>>
      /\ \A y \in Requests \ {x} :
           rpc'[y] = rpc[y] \/ (rpc[y] = "turnWait" /\ rpc'[y] = "woken")
      /\ \A r \in Requests : pc'[r] = pc[r] \/ (pc[r] = "turnWait" /\ pc'[r] = "woken")
      /\ refreshes' = refreshes + (IF RunRenewed(x) THEN 1 ELSE 0)
      /\ runs' = runs + 1
  BY <1>t DEF FinishRun, CountAnswer, Give, Wake, TypeOK
<1>2. outcome[x] \in {"renewed", "failed"}
  BY <1>t, <1>1 DEF RunsAndRequests
<1>3. Renewing = {x}
  BY <1>t, <1>1 DEF TurnInv, TurnIsExclusive, Renewing
<1>4. Renewing' = {}
  <2>1. \A y \in Requests \ {x} : y \notin Renewing
    BY <1>3
  <2>q. QED
    BY <1>1, <2>1 DEF Renewing
<1>5. {from[y] : y \in Renewing} = {from[x]} /\ {from[y] : y \in Renewing}' = {}
  BY <1>3, <1>4
<1>6. \A y \in Requests \ {x} : y \in Unrenewed' <=> y \in Unrenewed
  BY <1>1 DEF Unrenewed
<1>7. x \notin Unrenewed /\ (x \in Unrenewed' <=> outcome[x] = "failed")
  BY <1>1, <1>2 DEF Unrenewed
<1>8. StatesStand(Requests)
  BY <1>1, WokenRequestsStand
<1>9. [r \in Requests |-> AbstractState(r)]' = [r \in Requests |-> AbstractState(r)]
  BY <1>8 DEF StatesStand
<1>10. \/ refreshes' = refreshes + 1
          /\ UNCHANGED {from[y] : y \in Unrenewed}
       \/ /\ {from[y] : y \in Unrenewed}' = {from[y] : y \in Unrenewed} \cup {from[x]}
          /\ refreshes' = refreshes
  <2>1. CASE outcome[x] = "renewed"
    <3>1. Unrenewed' = Unrenewed
      BY <1>6, <1>7, <2>1 DEF Unrenewed
    <3>2. refreshes' = refreshes + 1
      BY <1>1, <2>1 DEF RunRenewed
    <3>q. QED
      BY <1>1, <3>1, <3>2
  <2>2. CASE outcome[x] = "failed"
    <3>1. Unrenewed' = Unrenewed \cup {x}
      BY <1>6, <1>7, <2>2 DEF Unrenewed
    <3>2. refreshes' = refreshes
      BY <1>t, <1>1, <2>2 DEF RunRenewed, TypeOK
    <3>q. QED
      BY <1>1, <3>1, <3>2
  <2>q. QED
    BY <1>2, <2>1, <2>2
<1>11. Promise!End
  BY <1>1, <1>5, <1>9, <1>10 DEF Promise!End
<1>q. QED
  BY <1>11 DEF Promise!Next

\* The timeout of a run that waits for the turn loses its own request's
\* generation and counts nothing.
LEMMA TimeoutIsGivingUp ==
  ASSUME Sound, NEW x \in Requests, RunGivesUp(x)
  PROVE  Promise!Next
<1>t. TypeOK /\ RunsAndRequests /\ RunIsItsRequests
  BY DEF Sound
<1>1. /\ rpc[x] \in {"turnWait", "woken"} /\ rpc'[x] = "closing" /\ outcome'[x] = "gaveUp"
      /\ UNCHANGED <<refreshes, runs, pc, attempt, gen, from>>
      /\ \A y \in Requests \ {x} : rpc'[y] = rpc[y] /\ outcome'[y] = outcome[y]
  BY <1>t DEF RunGivesUp, request, TypeOK
<1>2. gen[x] = from[x]
  BY <1>t, <1>1 DEF RunIsItsRequests, Live, Taking
<1>3. Renewing' = Renewing
  BY <1>1 DEF Renewing
<1>4. Unrenewed' = Unrenewed \cup {x}
  BY <1>1 DEF Unrenewed
<1>5. {from[y] : y \in Renewing}' = {from[y] : y \in Renewing}
  BY <1>1, <1>3
<1>6. {from[y] : y \in Unrenewed}' = {from[y] : y \in Unrenewed} \cup {gen[x]}
  BY <1>1, <1>2, <1>4
<1>7. StatesStand(Requests)
  BY <1>1, WokenRequestsStand
<1>8. [r \in Requests |-> AbstractState(r)]' = [r \in Requests |-> AbstractState(r)]
  BY <1>7 DEF StatesStand
<1>9. Promise!GiveUp
  BY <1>1, <1>5, <1>6, <1>8 DEF Promise!GiveUp
<1>q. QED
  BY <1>9 DEF Promise!Next

\* No request is signed while a generation is being renewed, a refresh is of
\* the credentials of now and leaves that generation behind, and every answer
\* to a 401 is about the generation of the request it is given to.
THEOREM PromiseIsKept == Spec => KeepsPromise
<1>1. Init => Promise!Init
  <2> SUFFICES ASSUME Init PROVE Promise!Init
    OBVIOUS
  <2>1. Renewing = {} /\ Unrenewed = {}
    BY DEF Init, Renewing, Unrenewed
  <2>2. \A q \in Requests : AbstractState(q) = "unsigned"
    BY DEF Init, AbstractState, Taking
  <2>3. {from[x] : x \in Renewing} = {} /\ {from[x] : x \in Unrenewed} = {}
    BY <2>1
  <2>q. QED
    BY <2>2, <2>3 DEF Init, Promise!Init, Promise!Now
<1>2. ASSUME Sound, [Next]_vars
      PROVE  [Promise!Next]_(Promise!vars)
  <2>t. TypeOK
    BY <1>2 DEF Sound
  <2>1. ASSUME NEW q \in Requests, Sign(q)
        PROVE  [Promise!Next]_(Promise!vars)
    BY <1>2, <2>1, WaitsAreHidden, DeparturesAreLeaves, FinishingIsSigning DEF Sign
  <2>2. ASSUME NEW q \in Requests, Respond(q) \/ AbandonSigning(q) \/ AbandonAnswer(q)
        PROVE  [Promise!Next]_(Promise!vars)
    BY <1>2, <2>2, DeparturesAreLeaves
  <2>3. ASSUME NEW q \in Requests, Reject(q)
        PROVE  [Promise!Next]_(Promise!vars)
    BY <1>2, <2>3, WaitsAreHidden, SecondRejectionIsRefusal
  <2>4. ASSUME NEW q \in Requests, Ask(q)
        PROVE  [Promise!Next]_(Promise!vars)
    BY <1>2, <2>4, WaitsAreHidden, StartIsHidden, AnswersAreOwed DEF Ask
  <2>5. ASSUME NEW x \in Requests, Refresh(x)
        PROVE  [Promise!Next]_(Promise!vars)
    BY <1>2, <2>5, RunsStepsAreHidden, TakingIsBeginning, FinishingIsEnding,
      TimeoutIsGivingUp DEF Refresh
  <2>6. CASE ProviderRenews \/ UNCHANGED vars
    <3>1. UNCHANGED <<refreshes, runs, gen, attempt, pc, from, outcome, rpc>>
      BY <2>6 DEF ProviderRenews, vars, coordinator, request, refreshRun
    <3>2. RunsStand
      BY <2>t, <3>1, WokenRunsStand
    <3>3. StatesStand(Requests)
      BY <3>1, WokenRequestsStand
    <3>4. CountsStand /\ gen' = gen
      BY <3>1 DEF CountsStand
    <3>q. QED
      BY <3>2, <3>3, <3>4, StepStutters
  <2>q. QED
    BY <1>2, <2>1, <2>2, <2>3, <2>4, <2>5, <2>6 DEF Next, Done
<1>3. TypeOK /\ TurnInv /\ RunsAndRequests /\ CountsInOrder /\ ResendIsDue
        /\ RunIsItsRequests => Sound
  BY DEF Sound
<1>q. QED
  BY <1>1, <1>2, <1>3, TypeCorrect, TurnIsKept, RunsAndRequestsAreKept, CountsAreKept,
    ResendsAreDue, RunsAreTheirRequests, PTL DEF Spec, KeepsPromise, Promise!Spec
=============================================================================

--------------------------- MODULE ExchangeProofs ---------------------------
(***************************************************************************)
(* Theorems about RetryLoop and Exchange for every grant of sends and      *)
(* limit of hops.  First what one request may cost, whether a write can be *)
(* made twice, and whether the refresh of a 401 earns the send promised    *)
(* for it.  Then that a chain of hops is one send of that loop, which      *)
(* keeps the credentials at HEY's origin, and that a refresh renews        *)
(* credentials that were sent there.                                       *)
(***************************************************************************)
EXTENDS Exchange, TLAPS

\* The sends the request may make, once a refresh has answered its 401.
Limit == Allowed + (IF renewed # 0 THEN 1 ELSE 0)

\* What the kinds of request say about idempotency.
KindFixes ==
  /\ kind = "read" => idempotent
  /\ kind \in {"write", "form", "upload"} => ~idempotent

\* The attempt counts the sends, and neither exceeds the limit.
SendsAreCounted ==
  /\ last <= Limit
  /\ renewed <= sends /\ applied <= sends
  /\ pc = "ready"    => sends = attempt - 1 /\ attempt <= Limit
  /\ pc = "answered" => sends = attempt /\ attempt <= Limit
  /\ pc = "waiting"  => sends = attempt /\ attempt < Limit
  /\ pc = "over"     => sends <= Limit

\* No loop sends a write of its own accord: the last send it may make is the
\* one under way.  Only a refused write that no redirect answered is resent.
WriteIsDue ==
  ~idempotent =>
    /\ pc # "waiting"
    /\ last <= attempt
    /\ applied <= 1
    /\ pc = "ready" => applied = 0
    /\ pc = "answered" /\ status = "refused" /\ ~followed => applied = 0

\* After a refresh the request is ready to be sent, or was sent.
ResendIsDue ==
  kind # "read" /\ renewed # 0 =>
    /\ pc \in {"answered", "waiting"} => sends > renewed
    /\ pc = "over" => cut \/ WentThrough \/ sends > renewed
-----------------------------------------------------------------------------
\* What granting a send on top of the budget comes to.
LEMMA GrantIsOneOnTop ==
  ASSUME TypeOK
  PROVE  /\ Granted \in Nat
         /\ Granted = Allowed \/ Granted = attempt + 1
         /\ Granted >= attempt + 1
  BY SendsAssumption DEF TypeOK, Granted, Allowed

\* The types and the counts bound each other: neither is inductive alone.
Counting == TypeOK /\ KindFixes /\ SendsAreCounted

\* Sends, attempts and the renewal stay within what the policy grants.
LEMMA Counted == Spec => []Counting
<1> USE SendsAssumption DEF Counting, TypeOK, KindFixes, SendsAreCounted, Limit,
  Allowed, PC, Status
<1>1. Init => Counting
  <2> SUFFICES ASSUME Init PROVE Counting
    OBVIOUS
  <2>1. KindFixes /\ idempotent \in BOOLEAN /\ declared \in BOOLEAN
    <3>1. kind \in {"generated", "unsigned", "write", "read", "form", "upload"}
      BY DEF Init
    <3>2. CASE kind \in {"generated", "unsigned"}
      BY <3>2 DEF Init
    <3>3. CASE kind = "read"
      BY <3>3 DEF Init
    <3>4. CASE kind \in {"write", "form", "upload"}
      BY <3>4 DEF Init
    <3>q. QED
      BY <3>1, <3>2, <3>3, <3>4
  <2>2. Allowed \in 1 .. MaxSends
    BY <2>1 DEF Init
  <2>3. /\ kind \in Kinds /\ budget \in 1 .. MaxSends
        /\ pc = "ready" /\ attempt = 1 /\ last = Allowed
        /\ status = "none" /\ followed = FALSE
        /\ sends = 0 /\ applied = 0 /\ renewed = 0 /\ cut = FALSE
    BY DEF Init
  <2>4. TypeOK
    <3>1. followed \in BOOLEAN /\ cut \in BOOLEAN
      BY <2>3
    <3>2. /\ attempt \in 1 .. MaxSends + 1 /\ last \in 1 .. MaxSends + 1
          /\ sends \in 0 .. MaxSends + 1 /\ applied \in 0 .. MaxSends + 1
          /\ renewed \in 0 .. MaxSends + 1
      BY <2>2, <2>3
    <3>3. pc \in PC /\ status \in Status
      BY <2>3
    <3>q. QED
      BY <2>1, <2>3, <3>1, <3>2, <3>3, Zenon
  <2>5. SendsAreCounted
    BY <2>2, <2>3
  <2>q. QED
    BY <2>1, <2>4, <2>5
<1>2. Counting /\ [Next]_vars => Counting'
  <2> SUFFICES ASSUME Counting, [Next]_vars PROVE Counting'
    OBVIOUS
  <2>1. CASE Send
    <3>1. PICK s \in Status \ {"none"}, f \in BOOLEAN, n \in {0, 1} :
            status' = s /\ followed' = f /\ applied' = applied + n
      BY <2>1 DEF Send, IsAnswered, Applications
    <3>2. /\ pc = "ready" /\ sends' = sends + 1 /\ pc' = "answered"
          /\ UNCHANGED <<kind, idempotent, budget, declared, attempt, last,
                         renewed, cut>>
      BY <2>1 DEF Send, IsAnswered, policy
    <3>q. QED
      BY <3>1, <3>2
  <2>2. CASE SignFails
    BY <2>2 DEF SignFails, Ends, policy, answer
  <2>3. CASE RefreshRenews
    <3>1. /\ pc = "answered" /\ sends = attempt /\ renewed' = sends
          /\ attempt <= Allowed \/ renewed # 0
          /\ Allowed \in 1 .. MaxSends /\ Allowed' = Allowed
          /\ attempt \in Nat \ {0} /\ sends' = sends
      BY <2>3 DEF RefreshRenews, policy, answer
    <3>2. attempt <= Allowed
      BY <2>3, <3>1 DEF RefreshRenews, AsksRefresher
    <3>3. Limit' = Allowed + 1 /\ KindFixes' /\ renewed' \in 1 .. MaxSends
      BY <2>3, <3>1, <3>2 DEF RefreshRenews, policy
    <3>4. CASE WentThrough
      BY <2>3, <3>1, <3>2, <3>3, <3>4 DEF RefreshRenews, Ends, policy, answer
    <3>5. CASE ~WentThrough /\ ResumeLoop
      <4>1. /\ Granted \in Nat /\ Granted <= Allowed + 1
            /\ Granted >= attempt + 1
        BY <3>1, <3>2, GrantIsOneOnTop
      <4>2. /\ last' = Granted /\ attempt' = attempt + 1 /\ pc' = "ready"
        BY <3>1, <3>5, <4>1 DEF ResumeLoop
      <4>q. QED
        BY <2>3, <3>1, <3>2, <3>3, <4>1, <4>2 DEF RefreshRenews, policy, answer
    <3>6. CASE ~WentThrough /\ SendWriteAgain
      <4>1. attempt = 1 /\ attempt' = 2 /\ pc' = "ready" /\ last' = last
        BY <2>3, <3>6 DEF RefreshRenews, AsksRefresher, SendWriteAgain
      <4>2. last <= Allowed + 1
        BY <3>1, <3>2
      <4>q. QED
        BY <2>3, <3>1, <3>2, <3>3, <4>1, <4>2 DEF RefreshRenews, policy, answer
    <3>7. CASE ~WentThrough /\ ResendRead
      <4>1. last <= Allowed + 1 /\ attempt' = attempt /\ last' = last
            /\ pc' \in {"over", "waiting"}
        BY <3>1, <3>2, <3>7 DEF ResendRead
      <4>q. QED
        BY <2>3, <3>1, <3>2, <3>3, <4>1 DEF RefreshRenews, policy, answer
    <3>q. QED
      BY <2>3, <3>4, <3>5, <3>6, <3>7 DEF RefreshRenews
  <2>4. CASE RefreshFails
    BY <2>4 DEF RefreshFails, AsksRefresher, Ends, policy, answer
  <2>5. CASE Backoff
    BY <2>5 DEF Backoff, EarnsAnother, policy, answer
  <2>6. CASE Answer
    BY <2>6 DEF Answer, AsksRefresher, EarnsAnother, Ends, policy, answer
  <2>7. CASE DelayElapses
    BY <2>7 DEF DelayElapses, policy, answer
  <2>8. CASE ContextEnds
    BY <2>8 DEF ContextEnds, Ends, policy, answer
  <2>9. CASE Over
    BY <2>9 DEF Over, vars, policy, answer
  <2>10. CASE UNCHANGED vars
    BY <2>10 DEF vars, policy, answer
  <2>q. QED
    BY <2>1, <2>2, <2>3, <2>4, <2>5, <2>6, <2>7, <2>8, <2>9, <2>10 DEF Next
<1>q. QED
  BY <1>1, <1>2, PTL DEF Spec

\* The variables keep their types: no loop sends beyond what its policy and
\* one refresh grant it.
THEOREM RetryTypeCorrect == Spec => []TypeOK
  BY Counted, PTL DEF Counting

\* No request costs more sends than its policy allows it, but one more for the
\* 401 that a refresh answered: doAttempts counts its resend among the sends,
\* and the hand-written sends resend once.
THEOREM SendsBounded == Spec => []SendsAreBounded
<1>1. Counting => SendsAreBounded
  <2> SUFFICES ASSUME Counting PROVE SendsAreBounded
    OBVIOUS
  <2> USE SendsAssumption DEF Counting, TypeOK, SendsAreCounted, PC
  <2>1. Limit \in Nat
    BY DEF Limit, Allowed
  <2>2. sends <= Limit
    BY <2>1
  <2>q. QED
    BY <2>2 DEF SendsAreBounded, Limit
<1>q. QED
  BY <1>1, Counted, PTL

\* A request that is not idempotent is carried out once at the most, whatever
\* its sends were answered and whether or not its 401 was refreshed: only a
\* send that was refused before any redirect is made again.
THEOREM WritesOnce == Spec => []NoWriteTwice
<1> USE SendsAssumption DEF WriteIsDue, Counting, TypeOK, KindFixes,
  SendsAreCounted, Allowed, PC, Status
<1>1. Init => WriteIsDue
  BY DEF Init
<1>2. Counting /\ WriteIsDue /\ [Next]_vars => WriteIsDue'
  <2> SUFFICES ASSUME Counting, WriteIsDue, [Next]_vars PROVE WriteIsDue'
    OBVIOUS
  <2>1. CASE Send
    BY <2>1 DEF Send, IsAnswered, Applications, policy
  <2>2. CASE SignFails
    BY <2>2 DEF SignFails, Ends, policy, answer
  <2>3. CASE RefreshRenews
    BY <2>3, GrantIsOneOnTop DEF RefreshRenews, AsksRefresher, WentThrough,
      ResumeLoop, SendWriteAgain, ResendRead, Ends, policy, answer
  <2>4. CASE RefreshFails
    BY <2>4 DEF RefreshFails, AsksRefresher, Ends, policy, answer
  <2>5. CASE Backoff
    BY <2>5 DEF Backoff, EarnsAnother, policy, answer
  <2>6. CASE Answer
    BY <2>6 DEF Answer, AsksRefresher, EarnsAnother, Ends, policy, answer
  <2>7. CASE DelayElapses
    BY <2>7 DEF DelayElapses, policy, answer
  <2>8. CASE ContextEnds
    BY <2>8 DEF ContextEnds, Ends, policy, answer
  <2>9. CASE Over
    BY <2>9 DEF Over, vars, policy, answer
  <2>10. CASE UNCHANGED vars
    BY <2>10 DEF vars, policy, answer
  <2>q. QED
    BY <2>1, <2>2, <2>3, <2>4, <2>5, <2>6, <2>7, <2>8, <2>9, <2>10 DEF Next
<1>3. WriteIsDue => NoWriteTwice
  BY DEF NoWriteTwice
<1>q. QED
  BY <1>1, <1>2, <1>3, Counted, PTL DEF Spec

\* A refresh that answered a 401 earns its request another send, whatever was
\* left of the budget: all operations and the hand-written writes and forms
\* have it, unless a redirect says the write is made or the context ends.
THEOREM RefreshEarns == Spec => []RefreshEarnsSend
<1> USE SendsAssumption DEF ResendIsDue, Counting, TypeOK, KindFixes,
  SendsAreCounted, Allowed, PC, Status
<1>1. Init => ResendIsDue
  BY DEF Init
<1>2. Counting /\ ResendIsDue /\ [Next]_vars => ResendIsDue'
  <2> SUFFICES ASSUME Counting, ResendIsDue, [Next]_vars PROVE ResendIsDue'
    OBVIOUS
  <2>1. CASE Send
    BY <2>1 DEF Send, IsAnswered, Applications, policy
  <2>2. CASE SignFails
    BY <2>2 DEF SignFails, Ends, policy, answer
  <2>3. CASE RefreshRenews
    BY <2>3, GrantIsOneOnTop DEF RefreshRenews, AsksRefresher, WentThrough,
      ResumeLoop, SendWriteAgain, ResendRead, Ends, policy, answer
  <2>4. CASE RefreshFails
    BY <2>4 DEF RefreshFails, WentThrough, AsksRefresher, Ends, policy, answer
  <2>5. CASE Backoff
    BY <2>5 DEF Backoff, EarnsAnother, policy, answer
  <2>6. CASE Answer
    BY <2>6 DEF Answer, AsksRefresher, EarnsAnother, Ends,
      WentThrough, policy, answer
  <2>7. CASE DelayElapses
    BY <2>7 DEF DelayElapses, policy, answer
  <2>8. CASE ContextEnds
    BY <2>8 DEF ContextEnds, WentThrough, Ends, policy, answer
  <2>9. CASE Over
    BY <2>9 DEF Over, WentThrough, vars, policy, answer
  <2>10. CASE UNCHANGED vars
    BY <2>10 DEF vars, WentThrough, policy, answer
  <2>q. QED
    BY <2>1, <2>2, <2>3, <2>4, <2>5, <2>6, <2>7, <2>8, <2>9, <2>10 DEF Next
<1>3. ResendIsDue => RefreshEarnsSend
  BY DEF RefreshEarnsSend, EarnsSend
<1>q. QED
  BY <1>1, <1>2, <1>3, Counted, PTL DEF Spec

-----------------------------------------------------------------------------
\* The types the hops are told apart by.
ChainTypes ==
  /\ named \in {"Authorization", "Strategy"}
  /\ hop \in Nat /\ made \in {0, 1} /\ writes \in BOOLEAN /\ out \in BOOLEAN
  /\ unauthenticated \in BOOLEAN /\ left \in BOOLEAN

\* A chain that lost its write to a redirect has followed one.
HopsAreFollowed ==
  /\ out /\ ~writes => hop > 0
  /\ hop > 0 => FollowsRedirects

\* The request that was answered, or will be, was started.
IsStarted == out \/ pc = "answered"

\* A chain that is taken for one that never left the origin is at home, and
\* carries what it was signed with.
HomeIsSigned ==
  IsStarted /\ ~unauthenticated =>
    /\ at = Start
    /\ kind \notin {"unsigned", "upload"} => named \in carried

\* The redirect state tells whether the chain has been off its origin.
ChainIsKnown ==
  ChainTypes /\ HopsAreFollowed /\ left = unauthenticated /\ HomeIsSigned

\* Every step of a chain keeps the redirect state true to where it has been.
LEMMA ChainKnown == ExchangeSpec => []ChainIsKnown
<1> USE DEF ChainIsKnown, ChainTypes, HopsAreFollowed, HomeIsSigned, IsStarted
<1>1. ExchangeInit => ChainIsKnown
  <2> SUFFICES ASSUME ExchangeInit PROVE ChainIsKnown
    OBVIOUS
  <2>1. /\ named \in {"Authorization", "Strategy"} /\ hop = 0 /\ made = 0
        /\ out = FALSE /\ pc = "ready" /\ writes = FALSE
        /\ unauthenticated = FALSE /\ left = FALSE
    BY DEF ExchangeInit, NoChain, Init
  <2>2. /\ writes \in BOOLEAN /\ out \in BOOLEAN
        /\ unauthenticated \in BOOLEAN /\ left \in BOOLEAN
    BY <2>1, Zenon
  <2>3. hop \in Nat /\ made \in {0, 1} /\ HopsAreFollowed
    BY <2>1
  <2>4. left = unauthenticated /\ HomeIsSigned
    BY <2>1, Zenon
  <2>q. QED
    BY <2>1, <2>2, <2>3, <2>4, Zenon
<1>2. ChainIsKnown /\ [ExchangeNext]_exchangeVars => ChainIsKnown'
  <2> SUFFICES ASSUME ChainIsKnown, [ExchangeNext]_exchangeVars
               PROVE  ChainIsKnown'
    OBVIOUS
  <2>1. CASE StartSend
    <3>1. /\ kind' = kind /\ named' = named /\ pc' = pc
          /\ hop' = 0 /\ made' = 0 /\ writes' = TRUE /\ out' = TRUE
          /\ unauthenticated' = FALSE /\ left' = FALSE /\ at' = Start
          /\ carried' = Stripped(WithCookies(FirstHeaders, Start))
      BY <2>1 DEF StartSend, vars, client, policy
    <3>2. FirstHeaders \subseteq carried'
      BY <3>1 DEF Stripped, WithCookies
    <3>3. kind \notin {"unsigned", "upload"} => named \in carried'
      BY <3>2 DEF FirstHeaders, CredentialHeaders
    <3>4. Start' = Start
      BY <3>1 DEF Start
    <3>5. /\ writes' \in BOOLEAN /\ out' \in BOOLEAN
          /\ unauthenticated' \in BOOLEAN /\ left' \in BOOLEAN
          /\ left' = unauthenticated'
      BY <3>1, Zenon
    <3>6. hop' \in Nat /\ made' \in {0, 1} /\ HopsAreFollowed'
      BY <3>1
    <3>7. HomeIsSigned'
      BY <3>1, <3>3, <3>4
    <3>q. QED
      BY <3>1, <3>5, <3>6, <3>7
  <2>2. ASSUME NEW to \in Origins, NEW keeps \in BOOLEAN, Follow(to, keeps)
        PROVE  ChainIsKnown'
    <3>1. /\ kind' = kind /\ named' = named /\ pc' = pc /\ out' = out
          /\ out /\ FollowsRedirects /\ hop' = hop + 1 /\ at' = to
          /\ unauthenticated' = (unauthenticated \/ to # Start)
          /\ left' = (left \/ to # Start)
          /\ writes' = (writes /\ keeps) /\ made' \in {0, 1, made}
          /\ carried' = Stripped(WithCookies(PolicyRulesHop(to), to))
      BY <2>2 DEF Follow, LeavesOrigin, vars, client, policy
    <3>2. FollowsRedirects' /\ Start' = Start
      BY <3>1 DEF FollowsRedirects, Start
    <3>3. ASSUME ~unauthenticated', kind \notin {"unsigned", "upload"}
          PROVE  named \in carried'
      <4>1. to = Start /\ Copied(to) = FirstHeaders
        BY <3>1, <3>3 DEF Copied
      <4>2. named \in FirstHeaders
        BY <3>3 DEF FirstHeaders, CredentialHeaders
      <4>3. named \in PolicyRulesHop(to)
        BY <3>3, <4>1, <4>2 DEF PolicyRulesHop, Offered
      <4>q. QED
        BY <3>1, <3>3, <4>3 DEF Stripped, WithCookies
    <3>4. ChainTypes'
      BY <3>1
    <3>5. HopsAreFollowed'
      BY <3>1, <3>2
    <3>6. left' = unauthenticated'
      BY <3>1
    <3>7. HomeIsSigned'
      BY <3>1, <3>2, <3>3
    <3>q. QED
      BY <3>4, <3>5, <3>6, <3>7
  <2>3. ASSUME NEW s \in Status \ {"none"}, NEW n \in {0, 1}, Settle(s, n)
        PROVE  ChainIsKnown'
    BY <2>3 DEF Settle, IsAnswered, FollowsRedirects, Start,
      policy, client, wire, chain
  <2>4. CASE Between
    <3>1. /\ kind' = kind /\ pc' # "answered"
          /\ UNCHANGED <<client, out, wire, chain>> /\ ~out
      <4>1. ~out /\ UNCHANGED <<client, out, wire, chain>>
        BY <2>4 DEF Between
      <4>2. CASE RefreshRenews
        <5>1. kind' = kind
          BY <4>2 DEF RefreshRenews, policy
        <5>2. Ends \/ ResumeLoop \/ SendWriteAgain \/ ResendRead
          BY <4>2 DEF RefreshRenews
        <5>3. pc' \in {"ready", "waiting", "over"}
          BY <5>2 DEF Ends, ResumeLoop, SendWriteAgain, ResendRead
        <5>q. QED
          BY <4>1, <5>1, <5>3
      <4>3. CASE SignFails \/ RefreshFails \/ Answer \/ ContextEnds
        BY <4>1, <4>3 DEF SignFails, RefreshFails, Answer, ContextEnds, Ends,
          policy
      <4>4. CASE Backoff \/ DelayElapses \/ Over
        BY <4>1, <4>4 DEF Backoff, DelayElapses, Over, vars, policy
      <4>q. QED
        BY <2>4, <4>2, <4>3, <4>4 DEF Between
    <3>q. QED
      BY <3>1 DEF FollowsRedirects, Start, client, wire, chain
  <2>5. CASE UNCHANGED exchangeVars
    BY <2>5 DEF FollowsRedirects, Start, exchangeVars, vars, policy, client, wire,
      chain
  <2>q. QED
    BY <2>1, <2>2, <2>3, <2>4, <2>5 DEF ExchangeNext
<1>q. QED
  BY <1>1, <1>2, PTL DEF ExchangeSpec

-----------------------------------------------------------------------------
\* A chain of hops is one send to the retry loop: whatever method the redirects
\* left it, the server has done no more than one send lets it.
THEOREM ExchangeImplements == ExchangeSpec => ImplementsRetryLoop
<1>1. ExchangeInit => Init
  BY DEF ExchangeInit
<1>2. ChainIsKnown /\ [ExchangeNext]_exchangeVars => [Next]_vars
  <2> SUFFICES ASSUME ChainIsKnown, [ExchangeNext]_exchangeVars
               PROVE  [Next]_vars
    OBVIOUS
  <2>1. CASE StartSend
    BY <2>1 DEF StartSend
  <2>2. ASSUME NEW to \in Origins, NEW keeps \in BOOLEAN, Follow(to, keeps)
        PROVE  [Next]_vars
    BY <2>2 DEF Follow
  <2>3. ASSUME NEW s \in Status \ {"none"}, NEW n \in {0, 1}, Settle(s, n)
        PROVE  [Next]_vars
    <3>1. /\ out /\ IsAnswered(s, WasFollowed, n)
          /\ n \in IF writes THEN Applications(s, FALSE) ELSE {made}
      BY <2>3 DEF Settle
    <3>2. WasFollowed \in IF FollowsRedirects THEN BOOLEAN ELSE {FALSE}
      <4>1. WasFollowed \in BOOLEAN /\ (WasFollowed => FollowsRedirects)
        BY DEF ChainIsKnown, HopsAreFollowed, WasFollowed
      <4>q. QED
        BY <4>1, Zenon
    <3>3. n \in Applications(s, WasFollowed)
      <4>1. CASE WasFollowed
        BY <4>1 DEF Applications
      <4>2. CASE ~WasFollowed
        <5>1. writes
          BY <3>1, <4>2 DEF ChainIsKnown, HopsAreFollowed, WasFollowed
        <5>q. QED
          BY <3>1, <4>2, <5>1 DEF Applications
      <4>q. QED
        BY <4>1, <4>2
    <3>4. Send
      BY <3>1, <3>2, <3>3 DEF Send
    <3>q. QED
      BY <3>4 DEF Next
  <2>4. CASE Between
    BY <2>4 DEF Between, Next
  <2>5. CASE UNCHANGED exchangeVars
    BY <2>5 DEF exchangeVars
  <2>q. QED
    BY <2>1, <2>2, <2>3, <2>4, <2>5 DEF ExchangeNext
<1>q. QED
  BY <1>1, <1>2, ChainKnown, PTL DEF ExchangeSpec, Spec, ImplementsRetryLoop

\* Whatever chains of hops its sends become, a write is made once at the most.
THEOREM ChainsWriteOnce == ExchangeSpec => []NoWriteTwice
  BY ExchangeImplements, WritesOnce, PTL DEF ImplementsRetryLoop

\* A chain that has been off the origin carries neither credentials nor cookies,
\* there or back home, whatever the caller's policy puts on its hops, and no hop
\* carries the validator of the first.
THEOREM StayHome == ExchangeSpec => []CredentialsStayHome
<1>1. ExchangeInit => CredentialsStayHome
  BY DEF ExchangeInit, NoChain, CredentialsStayHome
<1>2. ChainIsKnown /\ CredentialsStayHome /\ [ExchangeNext]_exchangeVars
        => CredentialsStayHome'
  <2> SUFFICES ASSUME ChainIsKnown, CredentialsStayHome,
                      [ExchangeNext]_exchangeVars
               PROVE  CredentialsStayHome'
    OBVIOUS
  <2>1. CASE StartSend
    BY <2>1 DEF StartSend, CredentialsStayHome
  <2>2. ASSUME NEW to \in Origins, NEW keeps \in BOOLEAN, Follow(to, keeps)
        PROVE  CredentialsStayHome'
    <3>1. /\ left' = unauthenticated'
          /\ carried' = Stripped(WithCookies(PolicyRulesHop(to), to))
      BY <2>2 DEF Follow, LeavesOrigin, ChainIsKnown
    <3>2. /\ FirstHeaders \subseteq CredentialHeaders \cup {"If-None-Match"}
          /\ CredentialHeaders \subseteq {"Authorization", "Strategy"}
      BY DEF FirstHeaders, CredentialHeaders, ChainIsKnown, ChainTypes
    <3>3. PolicyRulesHop(to) \subseteq CredentialHeaders
      BY <3>2 DEF PolicyRulesHop, Offered, Copied
    <3>4. "If-None-Match" \notin carried'
      BY <3>1, <3>2, <3>3 DEF Stripped, WithCookies
    <3>5. ASSUME left' PROVE carried' = {}
      BY <3>1, <3>3, <3>5 DEF Stripped, WithCookies, SecretsIn
    <3>q. QED
      BY <3>4, <3>5 DEF CredentialsStayHome
  <2>3. ASSUME NEW s \in Status \ {"none"}, NEW n \in {0, 1}, Settle(s, n)
        PROVE  CredentialsStayHome'
    BY <2>3 DEF Settle, wire, chain, CredentialsStayHome
  <2>4. CASE Between
    BY <2>4 DEF Between, wire, chain, CredentialsStayHome
  <2>5. CASE UNCHANGED exchangeVars
    BY <2>5 DEF exchangeVars, wire, chain, CredentialsStayHome
  <2>q. QED
    BY <2>1, <2>2, <2>3, <2>4, <2>5 DEF ExchangeNext
<1>q. QED
  BY <1>1, <1>2, ChainKnown, PTL DEF ExchangeSpec

\* A refresh renews credentials that HEY itself refused: the request whose 401
\* it answers ended at the origin and carried them, so that a 401 met on a hop
\* without any renews nothing.
THEOREM RenewsRefused == ExchangeSpec => RenewsWhatWasRefused
<1>1. ChainIsKnown /\ [ExchangeNext]_exchangeVars
        => (renewed' # renewed => at = Start /\ named \in carried)
  <2> SUFFICES ASSUME ChainIsKnown, [ExchangeNext]_exchangeVars,
                      renewed' # renewed
               PROVE  at = Start /\ named \in carried
    OBVIOUS
  <2>1. RefusedByHome /\ RefreshRenews
    BY DEF ExchangeNext, StartSend, Follow, Settle, IsAnswered, Between,
      SignFails, RefreshFails, Backoff, Answer, DelayElapses, ContextEnds, Over,
      exchangeVars, vars
  <2>2. /\ pc = "answered" /\ ~unauthenticated
        /\ kind \notin {"unsigned", "upload"}
    BY <2>1 DEF RefusedByHome, RefreshRenews, AsksRefresher
  <2>q. QED
    BY <2>2 DEF ChainIsKnown, HomeIsSigned, IsStarted
<1>q. QED
  BY <1>1, ChainKnown, PTL DEF ExchangeSpec, RenewsWhatWasRefused

\* The types of what a hop carries and of what a client is made of, beside
\* those the chain is told apart by.
HopTypes ==
  /\ jar \in BOOLEAN /\ restores \in BOOLEAN /\ validated \in BOOLEAN
  /\ at \in Origins /\ hop \in 0 .. MaxHops /\ carried \subseteq Headers

\* Nothing but the headers a client knows goes out on a hop, the redirects
\* followed are no more than the limit, and the loop's own types hold of it.
THEOREM ExchangeTypeCorrect == ExchangeSpec => []ExchangeTypeOK
<1>1. ExchangeInit => HopTypes
  <2> SUFFICES ASSUME ExchangeInit PROVE HopTypes
    OBVIOUS
  <2>1. /\ jar \in BOOLEAN /\ restores \in BOOLEAN
        /\ at = "home" /\ hop = 0 /\ carried = {} /\ validated = FALSE
    BY DEF ExchangeInit, NoChain
  <2>2. validated \in BOOLEAN
    BY <2>1, Zenon
  <2>3. /\ at \in Origins /\ hop \in 0 .. MaxHops /\ carried \subseteq Headers
    BY <2>1, HopsAssumption DEF Origins
  <2>q. QED
    BY <2>1, <2>2, <2>3 DEF HopTypes
<1>2. ASSUME ChainIsKnown, HopTypes, [ExchangeNext]_exchangeVars
      PROVE  HopTypes'
  <2>1. CASE StartSend
    <3>1. /\ UNCHANGED client /\ at' = Start /\ hop' = 0
          /\ validated' \in IF kind \in {"generated", "read"} THEN BOOLEAN ELSE {FALSE}
          /\ carried' = Stripped(WithCookies(FirstHeaders, Start))
      BY <2>1 DEF StartSend
    <3>2. carried' \subseteq Headers
      BY <1>2, <3>1 DEF Stripped, WithCookies, FirstHeaders, CredentialHeaders, Headers,
        ChainIsKnown, ChainTypes
    <3>3. at' \in Origins /\ hop' \in 0 .. MaxHops
      BY <3>1, HopsAssumption DEF Start, Origins
    <3>4. validated' \in BOOLEAN
      BY <3>1, Zenon
    <3>q. QED
      BY <1>2, <3>1, <3>2, <3>3, <3>4 DEF HopTypes, client
  <2>2. ASSUME NEW to \in Origins, NEW keeps \in BOOLEAN, Follow(to, keeps)
        PROVE  HopTypes'
    <3>1. /\ UNCHANGED <<client, validated>> /\ at' = to /\ hop' = hop + 1 /\ hop < MaxHops
          /\ carried' = Stripped(WithCookies(PolicyRulesHop(to), to))
      BY <2>2 DEF Follow, HopsLeft
    <3>2. CredentialHeaders \subseteq {"Authorization", "Strategy"}
      BY <1>2 DEF CredentialHeaders, ChainIsKnown, ChainTypes
    <3>3. PolicyRulesHop(to) \subseteq {"Authorization", "Strategy"}
      BY <3>2 DEF PolicyRulesHop, Offered, Copied, FirstHeaders
    <3>4. carried' \subseteq Headers
      BY <3>1, <3>3 DEF Stripped, WithCookies, Headers
    <3>5. hop' \in 0 .. MaxHops
      BY <1>2, <3>1, HopsAssumption DEF HopTypes
    <3>q. QED
      BY <1>2, <3>1, <3>4, <3>5 DEF HopTypes, client
  <2>3. ASSUME NEW s \in Status \ {"none"}, NEW n \in {0, 1}, Settle(s, n)
        PROVE  HopTypes'
    BY <1>2, <2>3 DEF Settle, HopTypes, client, wire, chain
  <2>4. CASE Between
    BY <1>2, <2>4 DEF Between, HopTypes, client, wire, chain
  <2>5. CASE UNCHANGED exchangeVars
    BY <1>2, <2>5 DEF exchangeVars, HopTypes, client, wire, chain
  <2>q. QED
    BY <1>2, <2>1, <2>2, <2>3, <2>4, <2>5 DEF ExchangeNext
<1>3. TypeOK /\ ChainIsKnown /\ HopTypes => ExchangeTypeOK
  BY DEF ChainIsKnown, ChainTypes, HopTypes, ExchangeTypeOK
<1>q. QED
  BY <1>1, <1>2, <1>3, ChainKnown, ExchangeImplements, RetryTypeCorrect, PTL
  DEF ExchangeSpec, ImplementsRetryLoop
=============================================================================

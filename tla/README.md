# TLA+ for the HEY SDK

The repository holds the HEY SDK in five languages over one Smithy contract.
These modules are about the Go SDK (`go/pkg/hey` and the retry loop of
`go/pkg/generated/client.gen.go`), which keeps the most state and is the one the
others' comments refer to. They model the parts of it that concurrent requests,
failures, clocks and the disk can bring out of step.

## The system

A `hey.Client` is shared by any number of goroutines. A request goes through
these parts, from the caller down:

| part | state it keeps | operations | what is hard about it |
|---|---|---|---|
| resilience hooks (`resilience.go`, `helpers.go instrument`) | slots held, pending and active releases | gate, start, end of every operation | a refusal after an earlier layer said yes; hooks that panic; options that wrap each other |
| circuit breaker (`circuit_breaker.go`) | state, counters, ring of outcomes, time of the last failure | Allow, RecordSuccess, RecordFailure | reports that arrive in a state other than the one they were admitted in |
| bulkhead (`bulkhead.go`) | a semaphore | Acquire, release | a wait that times out as a slot comes free |
| rate limiter (`rate_limit.go`) | tokens, last refill, pause | Allow, Wait, Reserve, SetRetryAfter | tokens below zero, pauses heard out of order, rounding |
| request sending and retries (`client.go`, `client.gen.go`) | attempt, budget | the send loops | a write that must not be made twice; a 401 on the last send |
| credential refresh (`credential_refresh.go`, `client.go answer401, renewal`) | counts of refreshes and runs, the refresh in flight, the turn, the last credential | sign, answer, refresh | many requests' 401s against refreshes and signings that move what they were signed with |
| auth manager and store (`auth.go`) | a mutex; the keyring or `credentials.json` | AccessToken, Refresh, SetUserID, Logout, over Load, Save, Delete | a rotation lost before it is saved; managers and processes that share the store |
| response cache (`cache.go`, `generated_cache.go`) | body, headers, ETag of each key, in three files | lookup, revalidate, SetResponse, Invalidate, Clear | answers applied to an entry that has changed; writes that stop part way |
| redirects (`client.go redirectPolicy`, `http.go`) | followed, unauthenticated, headers set by the strategy | one step per hop | credentials that must stay off a chain that leaves the origin, against a jar and a caller's policy that put them back |
| pagination, changes feeds (`pagination.go`, `calendar_changes.go`, `postings.go`) | the page or cursor of a walk, what it gathered | next page | limits and caps that meet on one page; a feed that moves under a walk, and walks given up half way |
| body limit (`body_limit.go`) | bytes that remain | Read | a body of exactly the limit |
| account scope, identity caches (`account_scope.go`, `client.go`) | the jar and the cache a root client and those derived from it share; sender and user ID | a hop's URL and cookies, ForAccount, DefaultSenderID | an account named in a path, a redirect, a cookie or an entry of another client's |

`instrument` asks the gate, then calls a generated operation; the generated (or a
hand-written) loop sends one or more requests; each send is signed through
`prepareAPIRequest`, which takes the coordinator's turn; the doer of the
generated client looks the cache up before the send and writes it after; a 401
goes to the coordinator, which answers whether to sign and send again; the end
of every request sets the rate limiter's pause and the end of every operation
reports to the breaker.

The remaining parts keep no state of their own (service wrappers, OAuth
exchanges, errors, URLs) or are other implementations of the contract;
`PROJECT.json` lists them.

## Modules

### CredentialRefresh

Models `credentialRefresh` whole: `take`, `give`, `sign`, `answer`, `refresh`,
driven by `prepareAPIRequest`, `singleRequest`'s 401 case, `answer401` and
`renewal`. The mutex `mu` makes each critical section one action; between two of
them the strategy, the provider and the refresher run. The variables carry the
code's names (`refreshes`, `runs`, `inFlight`, `renewed`, `busy`, `credential`);
`freed` is the set of goroutines asleep on it, those whose pc is `"turnWait"`,
and closing it (`Wake`) moves them to `"woken"`, from where they look again.

| code | actions |
|---|---|
| `sign`, `take(ctx, true)` | `TakeTurn`, `SleepOnTurn`, `SleepOnRefresh`, `WakeFromRefresh`, `AbandonSigning` |
| the strategy | `Authenticate`, `AuthenticateFails` (an error or a panic), `ProviderRenews` |
| `sign`, after the strategy | `FinishSigning` |
| the server | `Respond`, `Reject` |
| `answer` | `AnswerOvertaken`, `AnswerShared`, `StartRefresh`, `JoinRefresh`, `TakeRunsAnswer`, `AskAgain`, `AbandonAnswer` |
| `refresh`, `take(ctx, false)` | `RunSleeps`, `RunGivesUp`, `RunOvertaken`, `RunTakesTurn` |
| `renewal` and the refresher | `AskProvider`, `RefresherRenews`, `RefresherFails` |
| `refresh`, after renew | `FinishRun`, `CloseRun` |

A token is a number, larger when newer. A context is not a variable: an action
lets it end wherever the code selects on it. A refresh is named by the request
that started it; that a request starts at most one is part of `RunsAndRequests`
and proved. A send without a redirect state, which the code reads as signed now,
is left out: every send path registers one.

`CredentialGenerations` states what the comments promise, with no turns,
channels or goroutines; `CredentialRefreshRefinement` maps the coordinator to it.

### CircuitBreaker and Resilience

`CircuitBreaker` is one scope's breaker and the operations that report to it.
The clock is the ticks since the last failure. The failure rate is a whole
percentage, so the code's comparison of floating-point numbers is not modelled.
`Resilience` EXTENDS it and adds `OnOperationGate`, `OnOperationStart`,
`OnOperationEnd` and `instrument`'s order of calling them: the breaker, the slot,
the limiter, the start hook, the operation, the release, the report. `options` is
the list of `With...` options of the client, each wrapping the hooks of those
before it; the outermost hooks gate and all of them hear the end.

### RateLimiter

The token bucket in shares of a token (`Cost` to the token, `Rate` to the tick),
so that part of a token can be there. `Wait` is a goroutine that sleeps until
`wake` and looks again; `heard` is the pause a response is about to set, between
reading the clock and taking the lock. `alone`, `since`, `granted` and `promised`
are history. `RespectRetryAfter` is taken as set, as it is by default.

### RetryLoop and Exchange

`RetryLoop` is one request of one of six kinds: a generated operation
(`doWithRetry`, `doAttempts`), signed or not; a hand-written POST or PATCH, or
any other hand-written request (`doRequestURLWithBudget`); a form
(`doBodyRequest`); the upload of an attachment to its storage. Each send is
answered in any way and the server may or may not have carried the request out;
the refresher answers in any way. How long a wait takes is left out.

`Exchange` EXTENDS it and makes a send out of hops: `StartSend`, any number of
`Follow`, and the answer that `Settle` gives the loop. What a hop carries is built
in the order the code and net/http build it: the first request's headers
(`Copied`, net/http's), what a policy of the caller's puts back (`Offered`), the
SDK's policy after it (`PolicyRulesHop`), the jar's cookies (`WithCookies`,
net/http's), and the transport's own strip (`Stripped`). Origins are HEY's, another port of its host (which cookies
do not tell from it) and another host. `followed` and `unauthenticated` are the
fields of `redirectState`. The loop's steps are RetryLoop's own, joined to a wire
that is idle; `ImplementsRetryLoop` is RetryLoop's whole specification and proved, so
whatever is proved of a send there holds of the chain of hops here.

### AccountScope

Reads of the root client of an identity and of the clients `ForAccount` derives from
it, at once and on one path. A URL is the filter in its query and a body the account
it presents. HEY may take the account from the URL, from a filter cookie the strategy
sets with its own (`session`) or from one the jar keeps; where they disagree any of
them may win (`Renditions`, external). `granted` is history: what HEY's cookies to the
root client have named.

| code | actions |
|---|---|
| `prepareAPIRequest`'s scope, `Cache.Key`, `lookup` | `Begin` |
| `accountScopedTransport.RoundTrip`, the scoped jar's `Cookies` | `Send` |
| the scoped jar's `SetCookies` | `AnswerSetsCookie`, in every answer |
| a redirect | `Redirect` |
| 200 and `SetResponse`, 304, anything else | `Fresh`, `NotModified`, `EndsOtherwise` |

Unsigned operations and hops that leave HEY present no account and are left out; what
such a hop carries is `Exchange`'s. Writes of the cache that fail are `ResponseCache`'s.

### AuthManager

Threads of managers over one store. A method of a manager holds its mutex, so its
steps are split only where another manager can come between: after the load, the
issuer's answer, the reading of the whole file (`Prepare`) and the rename
(`Commit`). The keyring has an item for each origin and needs no `Prepare`. Tokens
are the number of the issuer's answer they came with; an issuer takes one refresh
token at a time and may rotate it (`Issue`). `Causes` names the accidents a run
allows: a caller that cancels, an answer cut off, a save that fails, a process
that ends. `lost` is history, of what may have cost an origin its login. An issuer is taken to send an access token with every 200: the code
stores what it sends, an empty one too.

| code | actions |
|---|---|
| `AccessToken` | `HandOutStored`, or `StartRefresh` and, after the refresh, `Reload` |
| `Refresh` | `StartRefresh` |
| `refreshLocked` | `Issue`, `IssueFails`, `AnswerIsCut`, then the save |
| `SetUserID`, `Logout` | `SetUserID`, `Logout`, then the save |
| `CredentialStore` | `Prepare`, `Commit`, `SaveFails` |

### CollectionWalk

The five loops that read a collection page by page: `GetAllWithLimit` ("all"),
`FollowPagination` ("follow"), `AllCalendarChanges`, `AllRecordingChanges` and
`PostingsService.AllChanges`. The collection is `1..log` and grows while they
read; a page is a stretch of it of any length. `page` is the loop's counter,
`asked` what the next page is asked with, `gathered` and `next` what the loop has
of the items and of `NextCursor`. A page that cannot be read and a Link to another
origin are one action, `PageFails`: either gives the caller nil and an error.
External are the server (`Ends`, `LinkAfter`, `TooOld`) and the caller of a feed,
who does as the comments say: apply what came, resume from `NextCursor` or from
the cursor there was, and read in full when told to. An item that changes twice is
two changes; that a server might take the first off its list between two pages is
not modelled.

### ResponseCache

One key of the cache under conditional reads. A body and its headers are the
version of the resource they came with, an ETag names one. A method of the cache
is one action, since it holds the lock; `Reach` says how many of its writes were
made, all of them unless `WritesFail`, and `Leavings` which of the parts a removal
leaves. An entry past the bound of the read that looks it up is a miss to the
generated client and an error to `singleRequest` once its 304 comes. The latter is an
`AnsweredElsewhere`, an answer the entry has no part in, as is another status, or one
that a redirect led to.

## Runs

| run | question | bounds and why they are enough |
|---|---|---|
| `refresh` | Do the coordinator's invariants hold, and does it implement its promises? | 3 requests: two that share a generation and one signed later meet in every order; 3 tokens: one rejected, one renewed, one renewed by the provider in between. `MaxToken` also bounds the counts. |
| `refresh_ends` | Does everything end? | 2 requests and the refresh of each; liveness without symmetry. |
| `gate` | Are slots accounted for, under each option on its own and two stacked either way; does the breaker open and close as the history of reports would, and reopen? | 3 operations (two late and one probe) over 2 slots; one start hook that panics (`MaxLost`); a window of 3 over a threshold of 2, so that either rule can trip alone; a timeout of 2 ticks. |
| `limiter` | Is the rate kept, the pause kept, a sleep long enough? | A burst of 2, a token every tick and a half, 5 instants, two responses and one sleeper, with Allow and Reserve from anyone at any time. |
| `retries` | How often is a request sent, and made; what does each of its hops carry? | 3 sends, so that a budget can be spent, spared and exceeded by the one that a 401 earns; 2 redirects, enough to leave the origin and come back, and to reach the limit of hops; every kind of request, client, jar and policy. |
| `retries_read` | Violated: does a refreshed 401 earn a hand-written read a send? | 4 sends, without hops |
| `accounts` | Whose mail does each client of an identity give? | 2 reads, each begun again and again by the root client or one scoped to either of 2 accounts, which is every pair of clients that can meet in the jar and the cache, and leaves what earlier reads stored there. |
| `cache` | Is an entry one version and a 304 answered from the one it confirms? | 2 overlapping reads, 2 versions the resource changes between and back, 2 names of each. |
| `cache_failing` | Violated: does that survive a write that fails? | 1 read |
| `auth` | What can cost a login its refresh token, whose saves can take it back, in which order are tokens handed out? | 2 threads of one manager and 1 of another, on one origin or on two; 2 answers of an issuer, the login's and the one that rotates its token. |
| `auth_cancelled` | Violated: is a rotating refresh token spent once? | 2 threads of one manager, cancelled requests the only accident |
| `walk` | Is what a walk gives whole, within its limit, and enough to follow a feed with? | A collection of up to 5 on pages of 2 or fewer; caps from one page to every item on a page of its own; limits of none, 2 and 3, which fall on a page's end and inside it; cursors up to 3 behind; one failed page and one new version. |

Every property of a passing run has a mutant: an operator beside the definition
it mutates, marked `Mutant`, that the run must refute.

### Fairness

`FairSpec` of `CredentialRefresh` is weakly fair to every goroutine step: a
goroutine that can run does, a send is bounded by its client's timeout and a
refresh by its own, so an answer comes and `RunGivesUp` is not put off for good.
It is not fair to the strategy, which may hang in `Authenticate`; that it returns
is the premise of `EveryRequestEnds` alone (`StrategyReturns`). Nothing is assumed
of contexts, of the provider, or of the order goroutines are woken in.
`Resilience`'s assumes only that time passes. `CollectionWalk`'s assumes that a page
is answered one way or another, which the client's timeout sees to, and that the
caller of a feed goes on following it; that it catches up is promised of nobody
else.

## What the checks found

Each is a run whose property, quoted from a comment or the README, is violated:

1. `retries_read`: a hand-written read on its last send loses the send that a
   refreshed 401 earns it.
2. `cache_failing`: an entry's three files are written one after the other, and
   a write that fails leaves a newer body under an older ETag.
3. `auth_cancelled`: the refresh `AccessToken` makes of a token near its expiry is
   on the context of the request being signed. Cancelled after the issuer rotated
   the token, it drops the new one, and the next request presents the spent one.

Met on the way, and checked by no run of their own:

- With `HEY_TOKEN` set, `AccessToken` keeps returning it, so every renewal is of the
  same credential and the refresh token is spent on a token nobody signs with, where
  `auth_strategy.go:22` promises "one refresh per set of credentials". `Pinned` is
  this case: `OneRenewalPerCredential` fails of two requests with `Pinned = TRUE`.
- A half-open breaker lets every call through until one reports, where
  `circuit_breaker.go:12` speaks of "limited requests", and counts the successes of
  operations admitted before it opened as well. `ClosesWhenProven` is what does hold.
- Of several resilience options only the last one gates, though all of them hear
  how an operation ended: a breaker given before a bulkhead opens and holds nothing
  back. `Gating` and `Configured` say so, and `SlotsAreHeld` and `OpenEndsInProbe` are
  about the option that gates.
- A walk of a feed that MaxPages cuts short gives no `NextPage` and no `NextCursor`,
  which `calendar_changes.go:77` calls the sign that nothing changed. Its caller
  resumes from the cursor it had and reads the same pages again, for good if the feed
  never answers 409: `CatchesUp` is promised only where the cap is enough for an
  increment (`CapIsEnough`), and fails without that premise.
- Two managers on one store, in one process or in two, can spend one refresh token
  twice and take back each other's change. `LoginIsKept` says that the goroutines of
  one cannot.

## Proofs

`CredentialRefreshProofs` proves, for any set of requests, any bound on tokens,
named or nameless credentials:

| theorem | states |
|---|---|
| `TypeCorrect` | `Spec => []TypeOK` |
| `TurnExclusion` | `Spec => []TurnIsExclusive` |
| `OneRefresh` | `Spec => []OneRefreshPerGeneration` |
| `RefusalsAreOwn` | `Spec => []RefusalIsOwn` |
| `CountsFollow` | `Spec => []CountsFollowCredentials`, if the token is not pinned |
| `ResendIsWorthIt` | `ResendCarriesNewerToken` of every behaviour, if the token is not pinned |
| `Inductive` | `Spec => []IInv`, if the token is not pinned |
| `OneRenewal` | `Spec => []OneRenewalPerCredential`, if the token is not pinned |
| `PromiseIsKept` | `Spec => KeepsPromise`: the coordinator implements `CredentialGenerations` |

Assumed are the four named assumptions on the constants and, where said,
`~Pinned`, without which a renewal is of the rejected token itself.

The invariants are not inductive as they stand. `TurnIsExclusive` needs `inFlight`
to name the one live run (`OneLiveRun`) and a request to start a run at most once
(`RunsAndRequests`). `OneRefreshPerGeneration` and `RefusalIsOwn` need where a
generation stands against the counts (`CountsInOrder`): one whose refresh ended is
behind them, one whose runs moved and whose refreshes did not has the failed run
to show for it. The two about tokens need that no signing holds a token older than
the last credential, and that a request behind the count went out with an older
token than the provider's (`TokensInOrder`, `ResendIsDue`). Their conjunction is
`IInv`, which the `refresh` run checks as well. There is one lemma for each
conjunct and one step for each action that can disturb it; the first four
theorems, and the refinement, rest on the conjuncts that hold with a pinned token
too.

`OneRenewal` says of runs what `TokensInOrder` says of requests, whose run may
outlive the generation they carry: a run of an earlier count rejected an older token
(`RunsFollowCredentials`), and no two runs renewed one count (`OneRenewalPerCount`).
Most steps read no token and count nothing (`CalmSteps`), so each of the two is
proved over the few that do.

The refinement has one lemma for each kind of step. `WaitsAreHidden`,
`RunsStepsAreHidden` and `StartIsHidden` are the steps a reader of the promises does
not see; `FinishingIsSigning`, `TakingIsBeginning`, `FinishingIsEnding`,
`TimeoutIsGivingUp`, `AnswersAreOwed`, `SecondRejectionIsRefusal` and
`DeparturesAreLeaves` are those that keep one. `Begin` and `GiveUp` speak of a
request that still has the generation the run is of, which is why a live run's own
request must be waiting for it, or gone (`RunIsItsRequests`).

`ExchangeProofs` begins with the retry loop, for any grant of sends and any of the six
kinds:

| theorem | states |
|---|---|
| `RetryTypeCorrect` | `Spec => []TypeOK` |
| `SendsBounded` | `Spec => []SendsAreBounded` |
| `WritesOnce` | `Spec => []NoWriteTwice` |
| `RefreshEarns` | `Spec => []RefreshEarnsSend` |

The types bound the counts and the counts the types (an attempt stays within its
bound because it counts the sends), so `Counting` is proved of both together. A
write is made once because its loop is never left a send of its own accord
(`last <= attempt`) and its resend follows a refusal that no redirect came before
(`WriteIsDue`). A refreshed 401 earns its send because the request is ready to be
sent and a send follows it (`ResendIsDue`).

`ResponseCacheProofs` proves, for any number of reads and versions:

| theorem | states |
|---|---|
| `CacheTypeCorrect` | `Spec => []TypeOK`, writes failing or not |
| `EntryOneVersion` | `Spec => []EntryIsOneVersion`, if no write fails |
| `AnswersConfirmed` | `Spec => []AnswerIsConfirmed`, if no write fails |

The entry stays one version because what a read found was (`SeenIsOneVersion`)
and a 304 names the version it found (`NotModifiedIsOfSeen`), so that writing what
was found back writes the version that is there. `~WritesFail` is needed, as
`cache_failing` shows.

`ExchangeProofs` goes on with the chains of hops, for any limit of hops and any grant
of sends:

| theorem | states |
|---|---|
| `ExchangeImplements` | `ExchangeSpec => ImplementsRetryLoop` |
| `ChainsWriteOnce` | `ExchangeSpec => []NoWriteTwice`, by the two specifications' theorems |
| `StayHome` | `ExchangeSpec => []CredentialsStayHome` |
| `RenewsRefused` | `ExchangeSpec => RenewsWhatWasRefused` |
| `ExchangeTypeCorrect` | `ExchangeSpec => []ExchangeTypeOK`, the loop's part of it by the refinement |

They rest on `ChainIsKnown`: `unauthenticated` tells whether the chain has been off
its origin, a chain that has not is signed, and one that lost its write followed a
redirect, which is why the answer it settles with is one the loop allows a redirected
send. The stripping alone empties a chain that is off its origin; that no hop
carries the validator needs the policy to have ruled each hop.

`RateLimiterProofs` proves, for any burst, rate and pauses, and any number of
goroutines:

| theorem | states |
|---|---|
| `LimiterTypeCorrect` | `Spec => []TypeOK` |
| `RateKept` | `Spec => []RateIsKept` |
| `RetryAfterKept` | `Spec => RetryAfterIsKept` |
| `WakesTimely` | `Spec => []WakesInTime` |

`RateIsKept` follows from an account of the tokens: what was granted in the interval
and what the bucket would hold if it were refilled now came from a burst and from
the interval (`GrantsAreFunded`). Refilling early or late leaves that sum alone,
since two stretches of time add what the whole does. A pause is kept because the
longest one heard is over or still in the limiter (`PromiseIsKept`).

`ResilienceProofs` proves, for any operations, thresholds, window, slots and stacks
of options:

| theorem | states |
|---|---|
| `GateTypeCorrect` | `Spec => []TypeOK` |
| `SlotsAreForHolders` | `Spec => []SlotsAreHeld` |
| `HalfOpenQuiet` | `Spec => []HalfOpenIsQuiet` |
| `OpensWhenUnhealthy` | `Spec => OpensOnUnhealthyHistory` |
| `ClosesProven` | `Spec => ClosesWhenProven` |

The operations may be infinitely many; the slots are counted because those that
hold one are finitely many in every state (`HeldSlots`). `OpensOnUnhealthyHistory`
compares the counter and the ring with the whole history: the ring holds its last
reports, each at the place `Place` names, through wrapping and through states that
write to it without deciding (`RingIsHistory`), and the counter is the run of
failures the history ends with (`FailuresAreCounted`). `ClosesWhenProven` compares the
code's counter of successes, which the breaker resets in one state and counts in
another, with the history's own (`heard`): while half-open the two are one number,
below the threshold (`BreakerCounts`).

`AuthManagerProofs` proves, for any threads, managers, origins and accidents:

| theorem | states |
|---|---|
| `ManagerTypeCorrect` | `Spec => []TypeOK` |
| `LoginSurvives` | `Spec => []LoginIsKept` |
| `ManagersOwnSavesFit` | `Spec => []OnlyOthersClobber`: a save takes back another manager's only |
| `TokensComeInOrder` | `Spec => HandedInOrder` |
| `SpentOnceUnlessLost` | a token about to be presented is unspent, unless another manager writes where it is kept or its successor was dropped |
| `SpentOnceAlone` | `Spec => []SpentOnce`, if there is one manager and no accident |

A login survives because the token a refresh rotated to is known to the issuer and
to the thread it answered and to nobody else (`RotatedIsSecret`): nobody else can
have the issuer rotate it away, and no save takes it back unnoticed. That rests on
what a method in progress holds (`Midway`) and on all tokens having been issued
(`TokensAreIssued`). What a thread has read is still what the store holds, unless
another manager shares it (`ReadIsCurrent`), since the mutex is one thread's
(`MutexIsOneThreads`). `SpentOnceUnlessLost` is a consequence of these; its
exceptions are the ones `auth_cancelled` and a second manager exploit.

`CollectionWalkProofs` proves, for any log, page size, caps, limits and horizon:

| theorem | states |
|---|---|
| `WalkTypeCorrect` | `Spec => []TypeOK` |
| `LimitKept` | `Spec => []LimitIsKept` |
| `IncrementWhole` | `Spec => []IncrementIsWhole` |
| `CallerSkipsNone` | the caller of a feed holds every change up to its cursor |
| `StopsWithReason` | `Spec => StopsForAReason` |

While a walk reads, what it gathered is the stretch of the collection from where it
began to the page it asks for (`Reading`, in `WalkInv`). The lemmas about stretches
(`SpansJoin`, `SpansCut`) say that pages join without a gap and that trimming to the
limit leaves a stretch. A feed has no limit, which the model writes 0, so `TypeOK`
admits 0 whether or not it is one of `Limits`.

`AccountScopeProofs` proves, for any reads and accounts:

| theorem | states |
|---|---|
| `AccountTypeCorrect` | `Spec => []TypeOK` |
| `AnswersScoped` | `Spec => []AnswersAreScoped` |
| `RootUndisturbed` | `Spec => []RootIsUndisturbed` |

An entry of the cache is of the URL that keys it (`EntriesAreKeyed`) and a scoped
read's key is its account's (`KeysAreScoped`), so a 304 confirms a body of the account
that was asked for. The jar holds nothing but what HEY set on the root client
(`JarIsGranted`), since the scoped jars let no filter cookie through.

Each module but `CredentialRefreshProofs`, of which the above says it, assumes what its
component's `ASSUME` names of the constants.
Each inductive invariant above was checked by TLC on the instances of the runs before
it was proved.

With these, every safety invariant and every action property of a passing run is
proved, and both refinements. Only model-checked is liveness (`EveryRequestEnds`,
`EveryRejectionIsAnswered`, `OpenEndsInProbe`, `CatchesUp`): the prover has no rule
for fairness and ENABLED. What a recursive definition computes on all data is out of
its reach too; no module has one. The properties of the violated runs are not
theorems, but what two of them take is: `AnswersConfirmed` without a failing write,
`SpentOnceAlone` without an accident. `RefreshEarns` is what holds in place of `RefreshEarnsRead`.

## Plan

What is left: the theorems that would say more than the runs do.

1. An abstract specification of the limiter, a log of grants and pauses, which
   `RateLimiter` implements.
2. One of the gate, what its callers are told of slots and breakers, which
   `Resilience` implements under every stack of options.

## Not modelled

Wording, logging, JSON and header formats, URL building; the floating point of
the limiter and of the failure rate; the registries of breakers and bulkheads,
which hand each scope one object for good; another process on the cache
directory, which `cache.go` says is not locked out; a 200 of the token endpoint without an access token; the account of unsigned
operations and of hops off HEY; undefined behaviour, of which none was met.

`client.gen.go` is most of the implementation's lines. Past its retry loop it is a
request builder, a sender and a parser for each of the contract's operations,
generated from one template, with no state and no choice of its own; a model of it
would repeat the contract. The service wrappers (`contacts.go`, `topics.go` and
their like) each make one generated call between `instrument`'s hooks. OAuth
exchanges and discovery are one request each. `ForAccount` checks an identity it fetches and keeps nothing of it but seeds of the
caches; `cappedBody` is one reader with a counter; the caches of sender, user and box IDs are looked at and filled under one
mutex. The SDKs in Kotlin, Rust, Swift and TypeScript are other implementations of
the same contract, and the contract's generators and the conformance tests are no
part of the running SDK.

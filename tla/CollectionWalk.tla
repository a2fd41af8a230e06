--------------------------- MODULE CollectionWalk ---------------------------
(***************************************************************************)
(* Walks of a collection that the server gives page by page                *)
(* (src/go/pkg/hey/pagination.go, calendar_changes.go and postings.go).    *)
(*                                                                         *)
(* Five walks share one shape, a loop over pages that gathers what each    *)
(* one holds and follows its Link until there is none, the limit is met or *)
(* MaxPages were read:                                                     *)
(*   "all"       GetAllWithLimit, from the first page on                   *)
(*   "follow"    FollowPagination, from a first page the caller has        *)
(*   "calendar"  AllCalendarChanges                                        *)
(*   "recording" AllRecordingChanges                                       *)
(*   "posting"   PostingsService.AllChanges                                *)
(* The last three read a feed of changes from a cursor, and their caller   *)
(* follows the feed: it applies what a walk gave and resumes from the      *)
(* NextCursor, or from the cursor it had when there is none.               *)
(*                                                                         *)
(* The server is external. Its collection is 1..log and only grows, while  *)
(* walks go on; a page is a stretch of it, of any length up to PageSize;   *)
(* the feeds of recordings and postings answer 409 to a cursor more than   *)
(* Horizon changes behind or of another version.                           *)
(***************************************************************************)
EXTENDS Naturals, Sequences

CONSTANTS Kinds,      \* the walks to look at
          Caps,       \* the values of MaxPages
          Limits,     \* the limits a caller asks for, 0 for none
          PageSize,   \* the most items the server puts on a page
          Horizon,    \* how far behind a cursor of a feed may be
          LogLimit,   \* bound: the size the collection grows to
          FaultLimit  \* bound: the pages that fail or link elsewhere

Lists     == {"all", "follow"}
Versioned == {"recording", "posting"}
Feeds     == {"calendar"} \cup Versioned

ASSUME WalkAssumption ==
  /\ Kinds \subseteq Lists \cup Feeds
  /\ Caps \subseteq Nat \ {0} /\ Limits \subseteq Nat
  /\ PageSize \in Nat \ {0} /\ Horizon \in Nat
  /\ LogLimit \in Nat /\ FaultLimit \in Nat

VARIABLES
  kind, cap, limit,  \* the walk, MaxPages and the limit of the call
  log,               \* how many items or changes the server has
  version,           \* the version its feed speaks
  faults,            \* pages that failed or linked elsewhere so far
  phase,             \* "idle", "reading", or how the walk ended
  page,              \* the loop's counter
  asked,             \* what the page being read was asked with
  first,             \* the items of the first page of a "follow"
  gathered,          \* allResults, or what a feed's walk gathered
  next,              \* NextCursor of what was gathered
  cursor,            \* the cursor the caller of a feed holds
  held               \* the changes the caller of a feed has applied

call   == <<kind, cap, limit>>
server == <<log, version>>
caller == <<cursor, held>>
vars   == <<call, server, faults, phase, page, asked, first, gathered,
            next, caller>>

None == [since |-> 0, page |-> 0, version |-> 0]  \* nil
Cursor(since, from, v) == [since |-> since, page |-> from, version |-> v]
Cursors == [since : 0..LogLimit, page : 0..LogLimit, version : 0..2]

Span(from, to) == [i \in 1..(to - from) |-> from + i]

\* The version a URL the server issues carries: calendar_changes_url has
\* none.
Speaks == IF kind = "calendar" THEN 0 ELSE version

Init ==
  /\ kind \in Kinds /\ cap \in Caps
  /\ limit \in IF kind \in Lists THEN Limits ELSE {0}
  /\ log \in 0..LogLimit /\ version = 1 /\ faults = 0
  /\ phase = "idle" /\ page = 1 /\ asked = None
  /\ first = <<>> /\ gathered = <<>> /\ next = None
  /\ cursor = Cursor(0, 0, Speaks) /\ held = {}

-----------------------------------------------------------------------------
(* The server.                                                             *)

Grow ==
  /\ log < LogLimit /\ log' = log + 1
  /\ UNCHANGED <<call, version, faults, phase, page, asked, first, gathered,
                 next, caller>>

SpeakNewer ==
  /\ kind \in Versioned /\ version = 1 /\ version' = 2
  /\ UNCHANGED <<call, log, faults, phase, page, asked, first, gathered,
                 next, caller>>

TooOld(c) ==
  kind \in Versioned /\ (log - c.since > Horizon \/ c.version # version)

\* A page asked for with a page token starts there, another one after
\* since; it has an item at least unless there is none left.
Begins(c) == IF c.page = 0 THEN c.since ELSE c.page

Ends(c) == {to \in Begins(c)..log :
              /\ to - Begins(c) <= PageSize
              /\ to = Begins(c) => to = log}

\* The Link of a page: the next page while there is one; after it a feed
\* gives a fresh since, unless nothing changed.
LinkAfter(c, to) ==
  IF to < log THEN Cursor(c.since, to, Speaks)
  ELSE IF kind \in Feeds /\ to > c.since THEN Cursor(to, 0, Speaks)
  ELSE None

-----------------------------------------------------------------------------
(* The walks.                                                              *)

\* nextCalendarChangesCursor and its like for postings: a cursor with a
\* page is the next page, one without is where to resume.
NextPage(link)   == IF link.page # 0 THEN link ELSE None
NextCursor(link) == IF link.page # 0 THEN None ELSE link

\* Mutant: each page's changes replace what was gathered before it.
KeepLastPage(items) == IF kind \in Feeds THEN items ELSE gathered \o items
Gather(items) == gathered \o items

StartAll ==
  /\ phase = "idle" /\ kind = "all"
  /\ phase' = "reading" /\ page' = 1 /\ asked' = None
  /\ gathered' = <<>>
  /\ UNCHANGED <<call, server, faults, first, next, caller>>

\* Mutant: a limit of zero is a limit.
ZeroLimits(count) == count >= limit
LimitMet(count) == limit > 0 /\ count >= limit

\* Mutant: the cap is not asked before the second page.
FollowsPastCap(count, link) == LimitMet(count) \/ link = None

\* FollowPagination's early returns: the limit met by the first page, no
\* next page, and a cap of one page.
NothingToFollow(count, link) ==
  LimitMet(count) \/ link = None \/ cap < 2

StartFollow ==
  /\ phase = "idle" /\ kind = "follow"
  /\ \E to \in Ends(None) :
       LET link == LinkAfter(None, to) IN
       /\ first' = Span(0, to) /\ gathered' = <<>>
       /\ IF NothingToFollow(to, link)
            THEN /\ phase' = "given" /\ page' = 1 /\ asked' = None
            ELSE /\ phase' = "reading" /\ page' = 2 /\ asked' = link
  /\ UNCHANGED <<call, server, faults, next, caller>>

StartFeed ==
  /\ phase = "idle" /\ kind \in Feeds
  /\ phase' = "reading" /\ page' = 1 /\ asked' = cursor
  /\ gathered' = <<>> /\ next' = None
  /\ UNCHANGED <<call, server, faults, first, caller>>

\* Mutant: FollowPagination leaves the first page out of the count.
TruncateOwn(items) ==
  IF Len(items) > limit THEN SubSeq(items, 1, limit) ELSE items

\* What is left of the items at the limit: FollowPagination counts the
\* first page and drops the excess from the end of its own.
Truncate(items) ==
  LET excess == Len(first) + Len(items) - limit
  IN  CASE kind = "all" -> SubSeq(items, 1, limit)
        [] kind = "follow" /\ excess > 0 /\ Len(items) > excess
             -> SubSeq(items, 1, Len(items) - excess)
        [] OTHER -> items

Goes(link) == page' = page + 1 /\ asked' = link /\ UNCHANGED phase
Stops(how) == phase' = how /\ UNCHANGED <<page, asked>>

ReadListPage ==
  /\ phase = "reading" /\ kind \in Lists
  /\ \E to \in Ends(asked) :
       LET link  == LinkAfter(asked, to)
           items == Gather(Span(Begins(asked), to))
       IN  IF LimitMet(Len(first) + Len(items))
             THEN gathered' = Truncate(items) /\ Stops("given")
             ELSE /\ gathered' = items
                  /\ IF link = None \/ page = cap THEN Stops("given")
                     ELSE Goes(link)
  /\ UNCHANGED <<call, server, faults, first, next, caller>>

ReadFeedPage ==
  /\ phase = "reading" /\ kind \in Feeds /\ ~TooOld(asked)
  /\ \E to \in Ends(asked) :
       LET link == LinkAfter(asked, to) IN
       /\ gathered' = Gather(Span(Begins(asked), to))
       /\ next' = NextCursor(link)
       /\ IF NextPage(link) = None \/ page = cap THEN Stops("given")
          ELSE Goes(NextPage(link))
  /\ UNCHANGED <<call, server, faults, first, caller>>

\* Mutant: a 409 is an error like any other.
ConflictIsError ==
  /\ phase = "reading" /\ TooOld(asked)
  /\ gathered' = <<>> /\ next' = None /\ Stops("failed")
  /\ UNCHANGED <<call, server, faults, first, caller>>

\* A 409 of a versioned feed: whatever was gathered is dropped, and the
\* answer is FullSyncRequired alone.
Conflict ==
  /\ phase = "reading" /\ TooOld(asked)
  /\ gathered' = <<>> /\ next' = None /\ Stops("full")
  /\ UNCHANGED <<call, server, faults, first, caller>>

\* A page that cannot be read or decoded, or whose Link leaves the origin.
\* The walk returns nil and the error.
PageFails ==
  /\ phase = "reading" /\ faults < FaultLimit
  /\ faults' = faults + 1
  /\ gathered' = <<>> /\ next' = None /\ Stops("failed")
  /\ UNCHANGED <<call, server, first, caller>>

-----------------------------------------------------------------------------
(* The caller. Of a feed it applies the changes, or reads the collection   *)
(* whole with the fresh cursor that comes with it.                         *)

Applied == held \cup {gathered[i] : i \in DOMAIN gathered}

TakeChanges ==
  /\ phase = "given" /\ kind \in Feeds
  /\ held' = Applied
  /\ cursor' = IF next = None THEN cursor ELSE next
  /\ phase' = "idle"
  /\ UNCHANGED <<call, server, faults, page, asked, first, gathered, next>>

ReadInFull ==
  /\ phase = "full"
  /\ held' = 1..log /\ cursor' = Cursor(log, 0, Speaks)
  /\ phase' = "idle"
  /\ UNCHANGED <<call, server, faults, page, asked, first, gathered, next>>

TakeOther ==
  /\ phase = "failed" \/ (phase = "given" /\ kind \in Lists)
  /\ phase' = "idle" /\ first' = <<>> /\ gathered' = <<>>
  /\ UNCHANGED <<call, server, faults, page, asked, next, caller>>

Walk == StartAll \/ StartFollow \/ StartFeed \/ ReadListPage
          \/ ReadFeedPage \/ Conflict
Take == TakeChanges \/ ReadInFull \/ TakeOther
Next == Grow \/ SpeakNewer \/ Walk \/ PageFails \/ Take

Spec == Init /\ [][Next]_vars

\* The server answers or the client's own timeout ends the read, and the
\* caller of a feed goes on following it.
FairSpec == Spec /\ WF_vars(Walk) /\ WF_vars(Take)

-----------------------------------------------------------------------------
(* Properties.                                                             *)

\* The type invariant: no page past MaxPages is asked for, among others.
TypeOK ==
  /\ kind \in Kinds /\ cap \in Caps /\ limit \in Limits \cup {0}
  /\ log \in 0..LogLimit /\ version \in 1..2 /\ faults \in 0..FaultLimit
  /\ phase \in {"idle", "reading", "given", "full", "failed"}
  /\ page \in 1..cap
  /\ asked \in Cursors /\ next \in Cursors /\ cursor \in Cursors
  /\ first \in Seq(1..log) /\ gathered \in Seq(1..log)
  /\ held \subseteq 1..log

\* A list is given from its start without a gap, and with a limit the
\* first page and the rest hold no more than it, unless the caller's first
\* page alone did.
LimitIsKept ==
  phase = "given" /\ kind \in Lists =>
    LET count == Len(first) + Len(gathered)
    IN  /\ gathered = Span(Len(first), count)
        /\ limit > 0 /\ Len(first) < limit => count <= limit

\* A list stops where the limit is met to the item, where the server has
\* no more, or at MaxPages: never short of all three, whatever page they
\* meet on.
StopsForAReason ==
  [][phase = "reading" /\ phase' = "given" /\ kind \in Lists
       => \/ Len(first) + Len(gathered') \in {log} \cup ({limit} \ {0})
          \/ page = cap]_vars

\* What a walk of a feed gives with a NextCursor is every change from the
\* caller's cursor to that one, each once and in order; with none it is
\* the beginning of it.
IncrementIsWhole ==
  phase = "given" /\ kind \in Feeds =>
    gathered = Span(cursor.since, IF next = None
                                    THEN cursor.since + Len(gathered)
                                    ELSE next.since)

\* MaxPages pages carry the longest increment the server gives: a feed that
\* answers 409 beyond Horizon gives none longer than that.
CapIsEnough == cap >= IF kind = "calendar" THEN LogLimit ELSE Horizon

\* A caller that keeps following a feed holds every change in the end, through
\* failed pages, cuts at MaxPages, full reads and a newer version of the feed,
\* as long as the cap is enough for an increment.
CatchesUp ==
  kind \in Feeds /\ CapIsEnough =>
    \A n \in 1..LogLimit : log >= n ~> 1..n \subseteq held
=============================================================================

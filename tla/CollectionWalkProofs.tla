------------------------ MODULE CollectionWalkProofs ------------------------
(***************************************************************************)
(* Theorems about CollectionWalk for any collection, pages, caps, limits   *)
(* and horizon: what a walk gives is one stretch of the collection, and    *)
(* the caller of a feed skips no change.                                   *)
(***************************************************************************)
EXTENDS CollectionWalk, SequenceTheorems, TLAPS

USE WalkAssumption

-----------------------------------------------------------------------------
(* Stretches of the collection.                                            *)

\* The entries from one point of the log to another, as a sequence.
LEMMA SpanIsASeq ==
  ASSUME NEW a \in Nat, NEW b \in Nat, a <= b, NEW n \in Nat, b <= n
  PROVE  /\ Span(a, b) \in Seq(1..n) /\ Len(Span(a, b)) = b - a
         /\ \A i \in 1..(b - a) : Span(a, b)[i] = a + i
<1>1. b - a \in Nat /\ \A i \in 1..(b - a) : a + i \in 1..n
  OBVIOUS
<1>2. Span(a, b) \in [1..(b - a) -> 1..n]
  BY <1>1 DEF Span
<1>3. Span(a, b) \in Seq(1..n)
  BY <1>1, <1>2, SeqDef
<1>4. Len(Span(a, b)) = b - a
  BY <1>1, <1>2, <1>3, LenProperties
<1>q. QED
  BY <1>3, <1>4 DEF Span

\* A page that starts where the gathered items end carries them on.
LEMMA SpansJoin ==
  ASSUME NEW a \in Nat, NEW b \in Nat, NEW c \in Nat, a <= b, b <= c
  PROVE  Span(a, b) \o Span(b, c) = Span(a, c)
<1> DEFINE s == Span(a, b)
           t == Span(b, c)
           u == Span(a, c)
<1>0. a <= c /\ c <= c
  OBVIOUS
<1>1. /\ s \in Seq(1..c) /\ Len(s) = b - a /\ \A i \in 1..(b - a) : s[i] = a + i
      /\ t \in Seq(1..c) /\ Len(t) = c - b /\ \A i \in 1..(c - b) : t[i] = b + i
      /\ u \in Seq(1..c) /\ Len(u) = c - a /\ \A i \in 1..(c - a) : u[i] = a + i
  BY <1>0, SpanIsASeq
<1> HIDE DEF s, t, u
<1>2. /\ s \o t \in Seq(1..c) /\ Len(s \o t) = Len(s) + Len(t)
      /\ \A i \in 1..(Len(s) + Len(t)) :
           (s \o t)[i] = IF i <= Len(s) THEN s[i] ELSE t[i - Len(s)]
  BY <1>1, ConcatProperties
<1>3. Len(s) + Len(t) = c - a
  BY <1>1
<1>4. ASSUME NEW i \in 1..(c - a)
      PROVE  (s \o t)[i] = u[i]
  <2>1. CASE i <= b - a
    BY <1>1, <1>2, <1>3, <2>1
  <2>2. CASE ~(i <= b - a)
    <3>1. i - (b - a) \in 1..(c - b) /\ b + (i - (b - a)) = a + i
      BY <2>2
    <3>2. (s \o t)[i] = t[i - (b - a)]
      BY <1>1, <1>2, <1>3, <2>2
    <3>3. t[i - (b - a)] = b + (i - (b - a)) /\ u[i] = a + i
      BY <1>1, <3>1
    <3>q. QED
      BY <3>1, <3>2, <3>3
  <2>q. QED
    BY <2>1, <2>2
<1>5. s \o t = u
  BY <1>1, <1>2, <1>3, <1>4, SeqEqual
<1>q. QED
  BY <1>5 DEF s, t, u

\* The first n of a span are a span: what trimming to the limit leaves.
LEMMA SpansCut ==
  ASSUME NEW a \in Nat, NEW b \in Nat, NEW n \in Nat, a + n <= b
  PROVE  SubSeq(Span(a, b), 1, n) = Span(a, a + n)
<1> DEFINE s == Span(a, b)
           u == Span(a, a + n)
<1>0. a <= b /\ b <= b /\ a + n \in Nat /\ a <= a + n /\ (a + n) - a = n
  OBVIOUS
<1>1. /\ s \in Seq(1..b) /\ Len(s) = b - a /\ \A i \in 1..(b - a) : s[i] = a + i
      /\ u \in Seq(1..b) /\ Len(u) = n /\ \A i \in 1..n : u[i] = a + i
  BY <1>0, SpanIsASeq
<1> HIDE DEF s, u
<1>2. \A i \in 1..n : i \in 1..(b - a) /\ s[i] = a + i /\ s[i] \in 1..b
  BY <1>1
<1>3. /\ SubSeq(s, 1, n) \in Seq(1..b)
      /\ Len(SubSeq(s, 1, n)) = IF 1 <= n THEN n - 1 + 1 ELSE 0
      /\ \A i \in 1..(n - 1 + 1) : SubSeq(s, 1, n)[i] = s[1 + i - 1]
  BY <1>2, SubSeqProperties
<1>4. Len(SubSeq(s, 1, n)) = n
  BY <1>3
<1>5. ASSUME NEW i \in 1..n
      PROVE  SubSeq(s, 1, n)[i] = u[i]
  <2>1. i \in 1..(n - 1 + 1) /\ 1 + i - 1 = i
    OBVIOUS
  <2>2. SubSeq(s, 1, n)[i] = s[i]
    BY <1>3, <2>1
  <2>q. QED
    BY <1>1, <1>2, <2>2
<1>6. SubSeq(s, 1, n) = u
  BY <1>1, <1>3, <1>4, <1>5, SeqEqual
<1>q. QED
  BY <1>6 DEF s, u

-----------------------------------------------------------------------------
(* Pages and their links.                                                  *)

\* A page begins and ends in the log, and its link is a cursor.
LEMMA PagesAreTyped ==
  ASSUME TypeOK, NEW c \in Cursors, NEW to \in Ends(c)
  PROVE  /\ c.since \in Nat /\ c.page \in Nat
         /\ Begins(c) \in Nat /\ to \in 0..LogLimit /\ log \in Nat
         /\ Begins(c) <= to /\ to <= log
         /\ to = Begins(c) => to = log
         /\ Speaks \in 0..2
         /\ LinkAfter(c, to) \in Cursors /\ None \in Cursors
         /\ NextPage(LinkAfter(c, to)) \in Cursors
         /\ NextCursor(LinkAfter(c, to)) \in Cursors
<1>1. c.since \in 0..LogLimit /\ c.page \in 0..LogLimit /\ log \in 0..LogLimit
  BY DEF Cursors, TypeOK
<1>2. /\ Begins(c) \in 0..LogLimit /\ to \in 0..LogLimit
      /\ Begins(c) <= to /\ to <= log /\ (to = Begins(c) => to = log)
  BY <1>1 DEF Begins, Ends
<1>3. Speaks \in 0..2
  BY DEF Speaks, TypeOK
<1>4. LinkAfter(c, to) \in Cursors /\ None \in Cursors
  BY <1>1, <1>2, <1>3 DEF LinkAfter, Cursor, None, Cursors
<1>q. QED
  BY <1>1, <1>2, <1>3, <1>4 DEF NextPage, NextCursor

\* Where a page ends tells whether its link goes on, and a feed's where to
\* resume.
LEMMA LinksTell ==
  ASSUME TypeOK, NEW c \in Cursors, NEW to \in Ends(c), c.since <= Begins(c)
  PROVE  LET link == LinkAfter(c, to)
         IN  \/ /\ to < log /\ to > 0 /\ link # None
                /\ link = Cursor(c.since, to, Speaks)
                /\ NextPage(link) = link /\ NextCursor(link) = None
             \/ /\ to = log /\ NextPage(link) = None
                /\ kind \in Lists => link = None
                /\ kind \in Feeds => NextCursor(link) = link
                /\ \/ link = Cursor(to, 0, Speaks) /\ to > c.since
                   \/ link = None /\ (kind \in Feeds => to = c.since)
<1> DEFINE link == LinkAfter(c, to)
<1>1. /\ c.since \in Nat /\ Begins(c) \in Nat /\ to \in Nat /\ log \in Nat
      /\ Begins(c) <= to /\ to <= log /\ (to = Begins(c) => to = log)
  BY PagesAreTyped
<1>2. CASE to < log
  <2>1. to > 0 /\ link = Cursor(c.since, to, Speaks)
    BY <1>1, <1>2 DEF LinkAfter
  <2>2. link.page = to /\ None.page = 0
    BY <2>1 DEF Cursor, None
  <2>q. QED
    BY <1>1, <1>2, <2>1, <2>2 DEF NextPage, NextCursor
<1>3. CASE to = log /\ kind \in Feeds /\ to > c.since
  <2>1. link = Cursor(to, 0, Speaks)
    BY <1>1, <1>3 DEF LinkAfter
  <2>2. link.page = 0
    BY <2>1 DEF Cursor
  <2>q. QED
    BY <1>1, <1>3, <2>1, <2>2 DEF NextPage, NextCursor, Lists, Feeds, Versioned
<1>4. CASE to = log /\ ~(kind \in Feeds /\ to > c.since)
  <2>1. link = None /\ None.page = 0 /\ (kind \in Feeds => to = c.since)
    BY <1>1, <1>4 DEF LinkAfter, None
  <2>q. QED
    BY <1>1, <1>4, <2>1 DEF NextPage, NextCursor
<1>q. QED
  BY <1>1, <1>2, <1>3, <1>4

-----------------------------------------------------------------------------
(* The inductive invariant.                                                *)

\* What was gathered reaches from where the walk began to the page asked for,
\* which the server has; a list has not met its limit yet; and the cursors a
\* caller keeps are where to resume, never a page.
Reading ==
  /\ asked.since <= Begins(asked) /\ Begins(asked) <= log
  /\ kind \in Lists =>
       /\ asked.since = 0 /\ Len(first) <= Begins(asked)
       /\ gathered = Span(Len(first), Begins(asked))
       /\ ~LimitMet(Begins(asked))
  /\ kind \in Feeds =>
       /\ asked.since = cursor.since
       /\ gathered = Span(cursor.since, Begins(asked))

Standing ==
  /\ kind # "follow" => first = <<>>
  /\ cursor.page = 0 /\ cursor.since <= log
  /\ next.page = 0 /\ next.since <= log
  /\ phase = "reading" => Reading

\* A list's page: what is gathered with it, and what is left of that at the
\* limit.
LEMMA ListPages ==
  ASSUME TypeOK, Standing, phase = "reading", kind \in Lists, NEW to \in Ends(asked)
  PROVE  LET items == Gather(Span(Begins(asked), to))
             f     == Len(first)
         IN  /\ f \in Nat /\ f <= to
             /\ items = Span(f, to) /\ f + Len(items) = to
             /\ LimitMet(to) =>
                  /\ limit \in Nat /\ f < limit /\ limit <= to /\ limit > 0
                  /\ Truncate(items) = Span(f, limit)
<1> DEFINE items == Gather(Span(Begins(asked), to))
           f == Len(first)
           b == Begins(asked)
<1>1. /\ b \in Nat /\ to \in Nat /\ b <= to /\ asked \in Cursors
  BY PagesAreTyped DEF TypeOK
<1>2. /\ f \in Nat /\ f <= b /\ gathered = Span(f, b) /\ ~LimitMet(b)
  BY LenProperties DEF TypeOK, Standing, Reading
<1>3. limit \in Nat
  BY DEF TypeOK
<1>4. items = Span(f, to) /\ f <= to /\ f + Len(items) = to
  <2>1. items = Span(f, to)
    BY <1>1, <1>2, SpansJoin DEF Gather
  <2>2. f <= to /\ to <= to
    BY <1>1, <1>2
  <2>3. Len(Span(f, to)) = to - f
    BY <1>1, <1>2, <2>2, SpanIsASeq
  <2>q. QED
    BY <1>1, <1>2, <2>1, <2>2, <2>3
<1> HIDE DEF items, f, b
<1>5. ASSUME LimitMet(to)
      PROVE  f < limit /\ limit <= to /\ limit > 0 /\ Truncate(items) = Span(f, limit)
  <2>1. limit > 0 /\ limit <= to /\ b < limit
    BY <1>1, <1>2, <1>3, <1>5 DEF LimitMet
  <2>2. f < limit
    BY <1>1, <1>2, <1>3, <2>1
  <2>3. CASE kind = "all"
    <3>1. f = 0
      BY <2>3, EmptySeq DEF Standing, f
    <3>a. 0 \in Nat /\ 0 + limit = limit /\ 0 + limit <= to /\ items = Span(0, to)
      BY <1>3, <1>4, <2>1, <3>1
    <3>2. SubSeq(items, 1, limit) = Span(0, 0 + limit)
      BY <1>1, <1>3, <3>a, SpansCut
    <3>q. QED
      BY <2>1, <2>2, <2>3, <3>a, <3>1, <3>2 DEF Truncate
  <2>4. CASE kind = "follow"
    <3> DEFINE excess == f + Len(items) - limit
    <3>2. Len(items) = to - f
      <4>1. to - f \in Nat /\ f <= to /\ to <= to
        BY <1>1, <1>2, <1>4
      <4>q. QED
        BY <1>1, <1>2, <1>4, <4>1, SpanIsASeq
    <3>1. excess = to - limit
      BY <1>1, <1>2, <1>3, <3>2
    <3>3. CASE excess > 0
      <4>1. Len(items) > excess /\ Len(items) - excess = limit - f /\ limit - f \in Nat
            /\ f + (limit - f) <= to /\ f + (limit - f) = limit
        BY <1>1, <1>2, <1>3, <2>1, <2>2, <3>1, <3>2
      <4>2. Truncate(items) = SubSeq(items, 1, limit - f)
        BY <2>4, <3>3, <4>1 DEF Truncate, f
      <4>3. SubSeq(items, 1, limit - f) = Span(f, f + (limit - f))
        <5> DEFINE n == limit - f
        <5>1. f \in Nat /\ to \in Nat /\ n \in Nat /\ f + n <= to
          BY <1>1, <1>2, <4>1
        <5> HIDE DEF n
        <5>2. SubSeq(Span(f, to), 1, n) = Span(f, f + n)
          BY <5>1, SpansCut
        <5>q. QED
          BY <1>4, <5>2 DEF n
      <4>q. QED
        BY <2>1, <2>2, <4>1, <4>2, <4>3
    <3>4. CASE ~(excess > 0)
      <4>1. to = limit
        BY <1>1, <1>3, <2>1, <3>1, <3>4
      <4>2. Truncate(items) = items
        BY <2>4, <3>4 DEF Truncate, f
      <4>q. QED
        BY <1>4, <2>1, <2>2, <4>1, <4>2
    <3>q. QED
      BY <3>3, <3>4
  <2>q. QED
    BY <2>3, <2>4 DEF Lists
<1>q. QED
  BY <1>2, <1>3, <1>4, <1>5 DEF items, f

\* The caller of a feed has every change up to its cursor: it resumes from
\* none it skipped.
NoneSkipped == kind \in Feeds => 1..cursor.since \subseteq held

WalkInv == TypeOK /\ Standing /\ LimitIsKept /\ IncrementIsWhole /\ NoneSkipped

\* From a point to itself there is nothing.
LEMMA EmptySpan ==
  ASSUME NEW a \in Nat
  PROVE  Span(a, a) = <<>>
<1>1. a <= a /\ a - a = 0
  OBVIOUS
<1>2. Span(a, a) \in Seq(1..a) /\ Len(Span(a, a)) = 0
  BY <1>1, SpanIsASeq
<1>q. QED
  BY <1>2, EmptySeq

\* The numbers of a call.
LEMMA CallsAreTyped ==
  ASSUME TypeOK
  PROVE  /\ limit \in Nat /\ cap \in Nat /\ page \in 1..cap /\ log \in 0..LogLimit
         /\ Len(first) \in Nat /\ Len(gathered) \in Nat
         /\ cursor.since \in Nat /\ next.since \in Nat
         /\ None \in Cursors /\ None.since = 0 /\ None.page = 0
         /\ Lists \cap Feeds = {} /\ kind \in Lists \cup Feeds
         /\ "all" \in Lists /\ "follow" \in Lists /\ "follow" \notin Feeds
<1>1. Len(first) \in Nat /\ Len(gathered) \in Nat
  BY LenProperties DEF TypeOK
<1>q. QED
  BY <1>1 DEF TypeOK, Cursors, None, Lists, Feeds, Versioned

\* Nothing is gathered before the first call.
LEMMA WalkStarts == Init => WalkInv
<1> SUFFICES ASSUME Init PROVE WalkInv
  OBVIOUS
<1>1. cursor = [since |-> 0, page |-> 0, version |-> Speaks] /\ Speaks \in 0..2
  BY DEF Init, Cursor, Speaks
<1>2. TypeOK
  <2>1. cursor \in Cursors /\ None \in Cursors
    BY <1>1 DEF Cursors, None
  <2>2. limit \in Limits \cup {0} /\ 1 \in 1..cap
    BY DEF Init
  <2>3. <<>> \in Seq(1..log)
    BY EmptySeq
  <2>q. QED
    BY <2>1, <2>2, <2>3 DEF Init, TypeOK
<1>3. Standing
  BY <1>1 DEF Init, Standing, None
<1>4. NoneSkipped
  BY <1>1 DEF NoneSkipped
<1>q. QED
  BY <1>2, <1>3, <1>4 DEF Init, WalkInv, LimitIsKept, IncrementIsWhole

-----------------------------------------------------------------------------
(* The steps.                                                              *)

\* The log grows, or the server comes to speak a newer version, under the walk.
LEMMA GrowKeeps ==
  ASSUME WalkInv, Grow \/ SpeakNewer \/ UNCHANGED vars
  PROVE  WalkInv'
<1> USE DEF WalkInv
<1>1. /\ UNCHANGED <<call, faults, phase, page, asked, first, gathered, next, caller>>
      /\ log' \in 0..LogLimit /\ log <= log' /\ version' \in 1..2
  BY DEF Grow, SpeakNewer, vars, server, TypeOK
<1>2. TypeOK'
  <2>1. 1..log \subseteq 1..log'
    BY <1>1 DEF TypeOK
  <2>2. first' \in Seq(1..log') /\ gathered' \in Seq(1..log')
    BY <1>1, <2>1, SeqMonotonic DEF TypeOK
  <2>q. QED
    BY <1>1, <2>1, <2>2 DEF TypeOK, call, caller
<1>3. Standing'
  <2>1. log \in Nat /\ log' \in Nat /\ cursor.since \in Nat /\ next.since \in Nat
        /\ (phase = "reading" => Begins(asked) \in Nat)
    BY <1>1, CallsAreTyped DEF TypeOK, Begins, Cursors
  <2>2. cursor.since <= log' /\ next.since <= log'
        /\ (phase = "reading" => Begins(asked) <= log')
    BY <1>1, <2>1 DEF Standing, Reading
  <2>q. QED
    BY <1>1, <2>2 DEF Standing, Reading, LimitMet, Begins, call, caller
<1>q. QED
  BY <1>1, <1>2, <1>3 DEF LimitIsKept, IncrementIsWhole, NoneSkipped, call, caller

\* A walk over all pages, or of a feed, starts with nothing gathered.
LEMMA StartsKeep ==
  ASSUME WalkInv, StartAll \/ StartFeed
  PROVE  WalkInv'
<1> USE DEF WalkInv
<1>t. /\ limit \in Nat /\ cap \in Nat /\ page \in 1..cap /\ log \in 0..LogLimit
      /\ cursor.since \in Nat /\ None.since = 0 /\ None.page = 0 /\ None \in Cursors
      /\ Lists \cap Feeds = {} /\ "all" \in Lists
  BY CallsAreTyped
<1>1. /\ UNCHANGED <<call, server, faults, first, caller>> /\ phase' = "reading"
      /\ page' = 1 /\ gathered' = <<>> /\ next' \in {None, next}
      /\ \/ kind = "all" /\ asked' = None
         \/ kind \in Feeds /\ asked' = cursor
  BY DEF StartAll, StartFeed
<1>2. TypeOK'
  <2>1. <<>> \in Seq(1..log) /\ 1 \in 1..cap
    BY <1>t, EmptySeq
  <2>q. QED
    BY <1>t, <1>1, <2>1 DEF TypeOK, call, server, caller
<1>3. Reading'
  <2>1. CASE kind = "all"
    <3>1. asked' = None /\ kind' = kind /\ limit' = limit /\ first' = first /\ log' = log
      BY <1>t, <1>1, <2>1 DEF call, server
    <3>2. Len(first) = 0 /\ Begins(None) = 0
      BY <1>t, <2>1, EmptySeq DEF Standing, Begins
    <3>3. gathered' = Span(0, 0) /\ kind \notin Feeds
      BY <1>t, <1>1, <2>1, EmptySpan
    <3>q. QED
      BY <1>t, <2>1, <3>1, <3>2, <3>3 DEF Reading, LimitMet, Begins
  <2>2. CASE kind \in Feeds
    <3>1. asked' = cursor /\ kind' = kind /\ cursor' = cursor /\ log' = log
      BY <1>t, <1>1, <2>2 DEF call, server, caller
    <3>2. Begins(cursor) = cursor.since /\ cursor.since <= log
      BY DEF Standing, Begins
    <3>3. gathered' = Span(cursor.since, cursor.since) /\ kind \notin Lists
      BY <1>t, <1>1, <2>2, EmptySpan
    <3>q. QED
      BY <1>t, <2>2, <3>1, <3>2, <3>3 DEF Reading, Begins
  <2>q. QED
    BY <1>1, <2>1, <2>2
<1>4. Standing'
  BY <1>t, <1>1, <1>3 DEF Standing, call, server, caller
<1>q. QED
  BY <1>1, <1>2, <1>4 DEF LimitIsKept, IncrementIsWhole, NoneSkipped, call, caller

\* A walk after a page the caller has starts where that page ends.
LEMMA FollowKeeps ==
  ASSUME WalkInv, StartFollow
  PROVE  WalkInv'
<1> USE DEF WalkInv
<1>t. /\ limit \in Nat /\ cap \in Nat /\ log \in 0..LogLimit
      /\ None.since = 0 /\ None.page = 0 /\ None \in Cursors
      /\ "follow" \in Lists /\ "follow" \notin Feeds
  BY CallsAreTyped
<1>0. /\ kind = "follow" /\ UNCHANGED <<call, server, faults, next, caller>>
      /\ gathered' = <<>>
  BY DEF StartFollow
<1>1. PICK to \in Ends(None) :
        LET link == LinkAfter(None, to) IN
        /\ first' = Span(0, to)
        /\ IF NothingToFollow(to, link)
             THEN phase' = "given" /\ page' = 1 /\ asked' = None
             ELSE phase' = "reading" /\ page' = 2 /\ asked' = link
  BY DEF StartFollow
<1> DEFINE link == LinkAfter(None, to)
<1>2. to \in Nat /\ 0 <= to /\ to <= log /\ link \in Cursors /\ None.since <= Begins(None)
  BY <1>t, PagesAreTyped DEF Begins
<1>3. /\ Span(0, to) \in Seq(1..log) /\ Len(Span(0, to)) = to
      /\ Span(to, to) = <<>> /\ <<>> \in Seq(1..log) /\ Len(<<>>) = 0
  BY <1>t, <1>2, SpanIsASeq, EmptySpan, EmptySeq
<1>4. \/ phase' = "given" /\ page' = 1 /\ asked' = None
      \/ /\ phase' = "reading" /\ page' = 2 /\ asked' = link
         /\ ~LimitMet(to) /\ link # None /\ 2 <= cap
  BY <1>t, <1>1 DEF NothingToFollow
<1>5. link # None => link.since = 0 /\ link.page = to /\ to > 0
  BY <1>t, <1>0, <1>2, LinksTell DEF Cursor
<1> HIDE DEF link
<1>6. TypeOK'
  <2>1. asked' \in Cursors /\ page' \in 1..cap
    BY <1>t, <1>2, <1>4 DEF TypeOK
  <2>q. QED
    BY <1>0, <1>1, <1>3, <1>4, <2>1 DEF TypeOK, call, server, caller
<1>7. phase' = "reading" => Reading'
  <2> SUFFICES ASSUME phase' = "reading" PROVE Reading'
    OBVIOUS
  <2>1. asked' = link /\ asked'.since = 0 /\ asked'.page = to /\ to > 0 /\ ~LimitMet(to)
    BY <1>4, <1>5
  <2>2. Begins(asked)' = to
    BY <1>2, <2>1 DEF Begins
  <2>3. first' = Span(0, to)
    BY <1>1
  <2>q. QED
    BY <1>t, <1>0, <1>2, <1>3, <2>1, <2>2, <2>3 DEF Reading, LimitMet, call, server, caller
<1>8. Standing'
  BY <1>0, <1>7 DEF Standing, call, server, caller
<1>9. LimitIsKept'
  <2>1. first' = Span(0, to) /\ Len(first') = to /\ Len(gathered') = 0 /\ to + 0 = to
    BY <1>0, <1>1, <1>2, <1>3
  <2>q. QED
    BY <1>t, <1>0, <1>2, <1>3, <2>1 DEF LimitIsKept, call
<1>q. QED
  BY <1>t, <1>0, <1>6, <1>8, <1>9 DEF IncrementIsWhole, NoneSkipped, call, caller

\* A page of a list is gathered, trimmed to the limit, and the walk ends or
\* follows its link; it ends with the limit, the whole log or the last page.
LEMMA ListPageKeeps ==
  ASSUME WalkInv, ReadListPage
  PROVE  /\ WalkInv'
         /\ phase' = "given" =>
              \/ Len(first) + Len(gathered') \in {log} \cup ({limit} \ {0})
              \/ page = cap
<1> USE DEF WalkInv
<1>t. /\ limit \in Nat /\ cap \in Nat /\ page \in 1..cap /\ log \in 0..LogLimit
      /\ asked \in Cursors /\ Lists \cap Feeds = {}
  BY CallsAreTyped DEF TypeOK
<1>0. /\ phase = "reading" /\ kind \in Lists /\ kind \notin Feeds
      /\ UNCHANGED <<call, server, faults, first, next, caller>>
  BY <1>t DEF ReadListPage
<1> DEFINE f == Len(first)
<1>1. PICK to \in Ends(asked) :
        LET link  == LinkAfter(asked, to)
            items == Gather(Span(Begins(asked), to))
        IN  IF LimitMet(f + Len(items))
              THEN gathered' = Truncate(items) /\ Stops("given")
              ELSE /\ gathered' = items
                   /\ IF link = None \/ page = cap THEN Stops("given")
                      ELSE Goes(link)
  BY DEF ReadListPage
<1> DEFINE link  == LinkAfter(asked, to)
           items == Gather(Span(Begins(asked), to))
<1>2. /\ f \in Nat /\ f <= to /\ items = Span(f, to) /\ f + Len(items) = to
      /\ LimitMet(to) => /\ f < limit /\ limit <= to /\ limit > 0
                         /\ Truncate(items) = Span(f, limit)
  BY <1>0, ListPages
<1>3. /\ to \in Nat /\ to <= log /\ link \in Cursors
      /\ asked.since <= Begins(asked) /\ asked.since = 0
  BY <1>t, <1>0, PagesAreTyped DEF Standing, Reading
<1>4. \/ link = None /\ to = log
      \/ link.since = 0 /\ link.page = to /\ to > 0 /\ to < log
  BY <1>t, <1>0, <1>3, LinksTell DEF Cursor
\* What is gathered ends at upto, for a reason unless the walk goes on.
<1> DEFINE Outcome(upto) ==
             /\ gathered' = Span(f, upto) /\ f <= upto /\ upto <= log
             /\ limit > 0 /\ f < limit => upto <= limit
             /\ \/ /\ phase' = "given" /\ page' = page /\ asked' = asked
                   /\ upto \in {log} \cup ({limit} \ {0}) \/ page = cap
                \/ /\ phase' = "reading" /\ page' = page + 1 /\ page + 1 <= cap
                   /\ asked' = link /\ link.since = 0 /\ link.page = upto
                   /\ upto > 0 /\ ~LimitMet(upto)
<1>5. ASSUME LimitMet(to) PROVE Outcome(limit)
  <2>1. gathered' = Span(f, limit) /\ phase' = "given" /\ page' = page /\ asked' = asked
    BY <1>1, <1>2, <1>5 DEF Stops
  <2>2. f <= limit /\ limit <= log /\ limit \in {log} \cup ({limit} \ {0}) /\ limit <= limit
    BY <1>t, <1>2, <1>3, <1>5
  <2>q. QED
    BY <1>t, <2>1, <2>2
<1>6. ASSUME ~LimitMet(to) PROVE Outcome(to)
  <2>1. gathered' = Span(f, to) /\ (limit > 0 => to <= limit)
    BY <1>t, <1>1, <1>2, <1>3, <1>6 DEF LimitMet
  <2>2. IF link = None \/ page = cap THEN Stops("given") ELSE Goes(link)
    BY <1>1, <1>2, <1>6
  <2>3. CASE link = None \/ page = cap
    <3>1. to \in {log} \/ page = cap
      BY <1>t, <1>3, <1>4, <2>3 DEF None
    <3>q. QED
      BY <1>2, <1>3, <2>1, <2>2, <2>3, <3>1 DEF Stops
  <2>4. CASE ~(link = None \/ page = cap)
    <3>1. page + 1 <= cap
      BY <1>t, <2>4
    <3>q. QED
      BY <1>0, <1>2, <1>3, <1>4, <1>6, <2>1, <2>2, <2>4, <3>1 DEF Goes
  <2>q. QED
    BY <2>3, <2>4
<1> HIDE DEF Outcome
<1>a. PICK upto \in Nat : Outcome(upto)
  BY <1>t, <1>3, <1>5, <1>6
<1> USE DEF Outcome
<1>7. Outcome(upto)
  BY <1>a
<1> HIDE DEF link, items
<1>8. gathered' \in Seq(1..log) /\ Len(gathered') = upto - f /\ f + Len(gathered') = upto
  <2>1. f \in Nat /\ log \in Nat /\ f <= upto /\ upto <= log /\ gathered' = Span(f, upto)
    BY <1>t, <1>2, <1>7
  <2>2. gathered' \in Seq(1..log) /\ Len(gathered') = upto - f
    BY <2>1, SpanIsASeq
  <2>q. QED
    BY <2>1, <2>2
<1>9. TypeOK'
  <2>1. page' \in 1..cap /\ asked' \in Cursors /\ phase' \in {"given", "reading"}
    BY <1>t, <1>3, <1>7
  <2>q. QED
    BY <1>0, <1>8, <2>1 DEF TypeOK, call, server, caller
<1>10. phase' = "reading" => Reading'
  <2> SUFFICES ASSUME phase' = "reading" PROVE Reading'
    OBVIOUS
  <2>1. Begins(asked)' = upto /\ asked'.since = 0 /\ ~LimitMet(upto)
    BY <1>7 DEF Begins
  <2>q. QED
    BY <1>0, <1>7, <2>1 DEF Reading, LimitMet, call, server, caller
<1>11. Standing'
  BY <1>0, <1>10 DEF Standing, call, server, caller
<1>12. LimitIsKept'
  <2>1. gathered' = Span(f, f + Len(gathered'))
    BY <1>7, <1>8
  <2>2. limit > 0 /\ f < limit => f + Len(gathered') <= limit
    BY <1>7, <1>8
  <2>q. QED
    BY <1>0, <2>1, <2>2 DEF LimitIsKept, call
<1>13. phase' = "given" => \/ f + Len(gathered') \in {log} \cup ({limit} \ {0})
                           \/ page = cap
  BY <1>7, <1>8
<1>q. QED
  BY <1>0, <1>9, <1>11, <1>12, <1>13 DEF IncrementIsWhole, NoneSkipped, call, caller

\* A page of a feed is gathered after what came before it.
LEMMA FeedPageKeeps ==
  ASSUME WalkInv, ReadFeedPage
  PROVE  WalkInv'
<1> USE DEF WalkInv
<1>t. /\ cap \in Nat /\ page \in 1..cap /\ log \in 0..LogLimit /\ cursor.since \in Nat
      /\ asked \in Cursors /\ Lists \cap Feeds = {} /\ None.since = 0 /\ None.page = 0
  BY CallsAreTyped DEF TypeOK
<1>0. /\ phase = "reading" /\ kind \in Feeds /\ kind \notin Lists
      /\ UNCHANGED <<call, server, faults, first, caller>>
  BY <1>t DEF ReadFeedPage
<1> DEFINE b == Begins(asked)
           s == cursor.since
<1>1. PICK to \in Ends(asked) :
        LET link == LinkAfter(asked, to) IN
        /\ gathered' = Gather(Span(b, to))
        /\ next' = NextCursor(link)
        /\ IF NextPage(link) = None \/ page = cap THEN Stops("given")
           ELSE Goes(NextPage(link))
  BY DEF ReadFeedPage
<1> DEFINE link == LinkAfter(asked, to)
<1>2. /\ b \in Nat /\ to \in Nat /\ b <= to /\ to <= log
      /\ NextPage(link) \in Cursors /\ NextCursor(link) \in Cursors
  BY <1>t, PagesAreTyped
<1>3. /\ asked.since = s /\ asked.since <= b /\ gathered = Span(s, b) /\ s <= b
  BY <1>0 DEF Standing, Reading
<1>4. gathered' = Span(s, to) /\ s <= to
  <2>1. gathered' = gathered \o Span(b, to)
    BY <1>1 DEF Gather
  <2>2. Span(s, b) \o Span(b, to) = Span(s, to)
    BY <1>t, <1>2, <1>3, SpansJoin
  <2>3. s <= to
    BY <1>t, <1>2, <1>3
  <2>q. QED
    BY <1>3, <2>1, <2>2, <2>3
<1>5. gathered' \in Seq(1..log) /\ Len(gathered') = to - s /\ s + Len(gathered') = to
  <2>1. s \in Nat /\ log \in Nat
    BY <1>t
  <2>2. gathered' \in Seq(1..log) /\ Len(gathered') = to - s
    BY <1>2, <1>4, <2>1, SpanIsASeq
  <2>q. QED
    BY <1>2, <2>1, <2>2
<1>6. \/ /\ NextPage(link) # None /\ NextPage(link).page = to /\ NextPage(link).since = s
         /\ to > 0 /\ next' = None
      \/ /\ NextPage(link) = None
         /\ \/ next' # None /\ next'.since = to /\ next'.page = 0
            \/ next' = None
  <2>1. \/ /\ to > 0 /\ link # None /\ link = Cursor(s, to, Speaks)
           /\ NextPage(link) = link /\ NextCursor(link) = None
        \/ /\ NextPage(link) = None /\ NextCursor(link) = link
           /\ \/ link = Cursor(to, 0, Speaks) /\ to > s
              \/ link = None
    BY <1>t, <1>0, <1>3, LinksTell
  <2>2. to > s => to > 0
    BY <1>t, <1>2
  <2>q. QED
    BY <1>t, <1>1, <2>1, <2>2 DEF Cursor
<1> HIDE DEF link
<1>7. \/ phase' = "given" /\ page' = page /\ asked' = asked
      \/ /\ phase' = "reading" /\ page' = page + 1 /\ page + 1 <= cap
         /\ asked' = NextPage(link) /\ NextPage(link) # None
  <2>1. page = cap \/ page + 1 <= cap
    BY <1>t
  <2>q. QED
    BY <1>0, <1>1, <2>1 DEF Stops, Goes, link
<1>8. TypeOK'
  <2>1. page' \in 1..cap /\ asked' \in Cursors /\ phase' \in {"given", "reading"}
    BY <1>t, <1>2, <1>7
  <2>2. next' \in Cursors
    BY <1>1, <1>2 DEF link
  <2>q. QED
    BY <1>0, <1>5, <2>1, <2>2 DEF TypeOK, call, server, caller
<1>9. phase' = "reading" => Reading'
  <2> SUFFICES ASSUME phase' = "reading" PROVE Reading'
    OBVIOUS
  <2>1. asked'.page = to /\ asked'.since = s /\ to > 0
    BY <1>6, <1>7
  <2>2. Begins(asked)' = to
    BY <1>2, <2>1 DEF Begins
  <2>q. QED
    BY <1>0, <1>2, <1>4, <2>1, <2>2 DEF Reading, call, server, caller
<1>10. Standing'
  <2>1. next'.page = 0 /\ next'.since <= log
    BY <1>t, <1>2, <1>6
  <2>q. QED
    BY <1>0, <1>9, <2>1 DEF Standing, call, server, caller
<1>11. IncrementIsWhole'
  <2>1. phase' = "given" =>
          gathered' = Span(s, IF next' = None THEN s + Len(gathered') ELSE next'.since)
    BY <1>4, <1>5, <1>6, <1>7
  <2>q. QED
    BY <1>0, <2>1 DEF IncrementIsWhole, call, caller
<1>q. QED
  BY <1>0, <1>8, <1>10, <1>11 DEF LimitIsKept, NoneSkipped, call, caller

\* A conflict or a failed page ends the walk with nothing given.
LEMMA EndsKeep ==
  ASSUME WalkInv, Conflict \/ PageFails
  PROVE  WalkInv'
<1> USE DEF WalkInv
<1>t. log \in 0..LogLimit /\ None.since = 0 /\ None.page = 0 /\ None \in Cursors
      /\ <<>> \in Seq(1..log)
  BY CallsAreTyped, EmptySeq
<1>1. /\ UNCHANGED <<call, server, page, asked, first, caller>>
      /\ gathered' = <<>> /\ next' = None /\ phase' \in {"full", "failed"}
      /\ faults' \in 0..FaultLimit
  BY DEF Conflict, PageFails, Stops, TypeOK
<1>2. TypeOK'
  BY <1>t, <1>1 DEF TypeOK, call, server, caller
<1>3. Standing'
  BY <1>t, <1>1 DEF Standing, call, server, caller
<1>q. QED
  BY <1>1, <1>2, <1>3 DEF LimitIsKept, IncrementIsWhole, NoneSkipped, call, caller

\* The caller takes what it is given, and with it the cursor to go on from.
LEMMA TakesKeep ==
  ASSUME WalkInv, Take
  PROVE  WalkInv'
<1> USE DEF WalkInv
<1>t. /\ log \in 0..LogLimit /\ cursor.since \in Nat /\ next.since \in Nat
      /\ <<>> \in Seq(1..log)
  BY CallsAreTyped, EmptySeq
<1>0. /\ phase' = "idle" /\ UNCHANGED <<call, server, faults, page, asked, next>>
      /\ first' \in {first, <<>>} /\ gathered' \in {gathered, <<>>}
  BY DEF Take, TakeChanges, ReadInFull, TakeOther
\* The caller's cursor and what it holds, in the three ways to take an answer.
<1>1. /\ held' \subseteq 1..log /\ cursor' \in Cursors
      /\ cursor'.page = 0 /\ cursor'.since <= log
      /\ kind \in Feeds => 1..cursor'.since \subseteq held'
  <2>1. CASE TakeChanges
    <3>1. \A i \in DOMAIN gathered : gathered[i] \in 1..log
      BY ElementOfSeq, LenProperties DEF TypeOK
    <3>2. held' = held \cup {gathered[i] : i \in DOMAIN gathered} /\ kind \in Feeds
          /\ cursor' = IF next = None THEN cursor ELSE next
      BY <2>1 DEF TakeChanges, Applied
    <3>3. held' \subseteq 1..log
      BY <3>1, <3>2 DEF TypeOK
    <3>4. cursor' \in Cursors /\ cursor'.page = 0 /\ cursor'.since <= log
      BY <3>2 DEF TypeOK, Standing
    <3>5. CASE next = None
      BY <3>2, <3>3, <3>4, <3>5 DEF NoneSkipped
    <3>6. CASE next # None
      <4>1. gathered = Span(cursor.since, next.since)
        BY <2>1, <3>6 DEF TakeChanges, IncrementIsWhole
      <4>2. ASSUME NEW n \in 1..next.since
            PROVE  n \in held'
        <5>1. CASE n <= cursor.since
          BY <1>t, <3>2, <5>1 DEF NoneSkipped
        <5>2. CASE ~(n <= cursor.since)
          <6>1. n - cursor.since \in 1..(next.since - cursor.since)
            BY <1>t, <5>2
          <6>2. n - cursor.since \in DOMAIN gathered
                /\ gathered[n - cursor.since] = cursor.since + (n - cursor.since)
            BY <4>1, <6>1 DEF Span
          <6>3. gathered[n - cursor.since] = n
            BY <1>t, <6>2
          <6>q. QED
            BY <3>2, <6>2, <6>3
        <5>q. QED
          BY <5>1, <5>2
      <4>q. QED
        BY <3>2, <3>3, <3>4, <3>6, <4>2
    <3>q. QED
      BY <3>5, <3>6
  <2>2. CASE ReadInFull
    <3>1. held' = 1..log /\ cursor' = Cursor(log, 0, Speaks)
      BY <2>2 DEF ReadInFull
    <3>2. Speaks \in 0..2
      BY DEF Speaks, TypeOK
    <3>3. cursor' = [since |-> log, page |-> 0, version |-> Speaks]
      BY <3>1 DEF Cursor
    <3>q. QED
      BY <1>t, <3>1, <3>2, <3>3 DEF Cursors
  <2>3. CASE TakeOther
    BY <2>3 DEF TakeOther, caller, TypeOK, Standing, NoneSkipped
  <2>q. QED
    BY <2>1, <2>2, <2>3 DEF Take
<1>2. TypeOK'
  BY <1>t, <1>0, <1>1 DEF TypeOK, call, server
<1>3. Standing'
  BY <1>0, <1>1 DEF Standing, call, server
<1>q. QED
  BY <1>0, <1>1, <1>2, <1>3 DEF LimitIsKept, IncrementIsWhole, NoneSkipped, call

\* The walk's invariant holds of every state.
LEMMA WalkAlways == Spec => []WalkInv
<1>1. WalkInv /\ [Next]_vars => WalkInv'
  BY GrowKeeps, StartsKeep, FollowKeeps, ListPageKeeps, FeedPageKeeps, EndsKeep, TakesKeep
  DEF Next, Walk
<1>q. QED
  BY <1>1, WalkStarts, PTL DEF Spec

\* The type invariant holds: no page past MaxPages is asked for.
THEOREM WalkTypeCorrect == Spec => []TypeOK
<1>1. WalkInv => TypeOK
  BY DEF WalkInv
<1>q. QED
  BY <1>1, WalkAlways, PTL

\* A list is given from its start without a gap, and with a limit the first
\* page and the rest hold no more than it, unless the caller's first page did.
THEOREM LimitKept == Spec => []LimitIsKept
<1>1. WalkInv => LimitIsKept
  BY DEF WalkInv
<1>q. QED
  BY <1>1, WalkAlways, PTL

\* A walk of a feed that ends with a NextCursor gives every change up to it,
\* each once and in order.
THEOREM IncrementWhole == Spec => []IncrementIsWhole
<1>1. WalkInv => IncrementIsWhole
  BY DEF WalkInv
<1>q. QED
  BY <1>1, WalkAlways, PTL

\* The caller of a feed has every change up to the cursor it resumes from,
\* through pages that fail, cuts at MaxPages, 409s and a newer version.
THEOREM CallerSkipsNone == Spec => []NoneSkipped
<1>1. WalkInv => NoneSkipped
  BY DEF WalkInv
<1>q. QED
  BY <1>1, WalkAlways, PTL

\* A list stops at the limit, at the server's last item or at MaxPages, and
\* never short of all three.
THEOREM StopsWithReason == Spec => StopsForAReason
<1> DEFINE Reasoned ==
      phase = "reading" /\ phase' = "given" /\ kind \in Lists
       => \/ Len(first) + Len(gathered') \in {log} \cup ({limit} \ {0})
          \/ page = cap
<1>1. WalkInv /\ [Next]_vars => [Reasoned]_vars
  <2> SUFFICES ASSUME WalkInv, [Next]_vars, phase = "reading", phase' = "given",
                      kind \in Lists
               PROVE  \/ Len(first) + Len(gathered') \in {log} \cup ({limit} \ {0})
                      \/ page = cap
    OBVIOUS
  <2>1. ReadListPage \/ ReadFeedPage
    BY DEF Next, Walk, Take, Grow, SpeakNewer, StartAll, StartFollow, StartFeed,
      Conflict, PageFails, Stops, TakeChanges, ReadInFull, TakeOther, vars
  <2>2. ~ReadFeedPage
    BY CallsAreTyped DEF ReadFeedPage, WalkInv
  <2>q. QED
    BY <2>1, <2>2, ListPageKeeps
<1>q. QED
  BY <1>1, WalkAlways, PTL DEF Spec, StopsForAReason
=============================================================================

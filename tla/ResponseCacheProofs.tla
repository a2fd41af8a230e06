------------------------ MODULE ResponseCacheProofs -------------------------
(***************************************************************************)
(* Theorems about ResponseCache, for any number of overlapping reads and   *)
(* versions.  That the entry is one version needs every method's writes to *)
(* the disk to be made: the assumption is ~WritesFail, and a run shows it  *)
(* is needed.                                                              *)
(***************************************************************************)
EXTENDS ResponseCache, TLAPS

\* A 304 is the answer to an entry that was found, and names its version.
NotModifiedIsOfSeen ==
  \A r \in Reads : pc[r] = "answered" =>
    /\ got[r] # Unsent
    /\ got[r].status = 304 =>
         /\ seen[r].etag # Nothing
         /\ got[r].etag.version = seen[r].etag.version

\* What a read found is one version, as long as what it finds is.
SeenIsOneVersion ==
  \A r \in Reads : seen[r].etag # Nothing =>
    seen[r].body = seen[r].etag.version /\ seen[r].headers = seen[r].etag.version

Entry == [etag : ETags, body : Versions, headers : Versions]

\* The functions of the reads, which TypeOK leaves implicit.
ReadsOK ==
  /\ pc \in [Reads -> {"idle", "sent", "answered", "over"}]
  /\ seen \in [Reads -> {Miss} \cup Entry]
  /\ got \in [Reads -> {Unsent} \cup [status : {200, 304}, etag : ETags]]
  /\ answer \in [Reads -> {Unread} \cup [body : Versions, headers : Versions]]

\* What TypeOK says of one read.
ReadOK(r) ==
  /\ seen[r] = Miss \/ seen[r] \in Entry
  /\ got[r] = Unsent \/ got[r] \in [status : {200, 304}, etag : ETags]
  /\ answer[r] \in IF pc[r] = "over"
                   THEN [body : Versions, headers : Versions]
                   ELSE {Unread}
-----------------------------------------------------------------------------
\* A record with Nothing for a part is not one of a version.
LEMMA NothingApart ==
  /\ \A e \in ETags : e # Nothing /\ e.version \in Versions
  /\ \A e \in Entry : e # Miss /\ e.etag # Nothing
  /\ Miss.etag = Nothing
  BY CacheAssumption DEF ETags, Entry, Miss

Typed == TypeOK /\ ReadsOK /\ NotModifiedIsOfSeen

\* A read is answered from an entry it found whole, or from what came.
LEMMA ReadsTyped == Spec => []Typed
<1> USE CacheAssumption, NothingApart
    DEF Typed, TypeOK, ReadsOK, NotModifiedIsOfSeen, Reach
<1>1. Init => Typed
  BY DEF Init, ETags, Versions, Unsent
<1>2. Typed /\ [Next]_vars => Typed'
  <2> SUFFICES ASSUME Typed, [Next]_vars PROVE Typed'
    OBVIOUS
  <2>1. ASSUME NEW r \in Reads, Lookup(r) PROVE Typed'
    BY <2>1 DEF Lookup, Entry, entry
  <2>2. ASSUME NEW r \in Reads, ServerAnswers(r) PROVE Typed'
    BY <2>2 DEF ServerAnswers, entry, Unsent
  <2>3. ASSUME NEW r \in Reads, AnsweredElsewhere(r) PROVE Typed'
    BY <2>3 DEF AnsweredElsewhere, entry
  <2>4. ASSUME NEW r \in Reads, Revalidate(r) PROVE Typed'
    <3>1. seen[r] \in Entry /\ got[r].etag \in ETags
      BY <2>4 DEF Revalidate, Entry, Unsent
    <3>2. Confirmed(r) \in [body : Versions, headers : Versions]
      BY <3>1 DEF Confirmed, Entry
    <3>3. etag' \in ETags \cup {Nothing} /\ headers' \in Versions \cup {Nothing}
      BY <2>4, <3>1 DEF Revalidate, Entry
    <3>4. /\ UNCHANGED <<current, body, seen, got>>
          /\ pc' = [pc EXCEPT ![r] = "over"]
          /\ answer' = [answer EXCEPT ![r] = Confirmed(r)]
      BY <2>4 DEF Revalidate
    <3>5. ReadsOK' /\ NotModifiedIsOfSeen'
      BY <3>2, <3>4
    <3>6. ASSUME NEW x \in Reads PROVE ReadOK(x)'
      <4>1. CASE x = r
        BY <3>2, <3>4, <4>1 DEF ReadOK, Entry
      <4>2. CASE x # r
        BY <3>4, <4>2 DEF ReadOK, Entry
      <4>q. QED
        BY <4>1, <4>2
    <3>q. QED
      BY <3>3, <3>4, <3>5, <3>6 DEF ReadOK, Entry
  <2>5. ASSUME NEW r \in Reads, Store(r) PROVE Typed'
    <3>1. got[r].etag \in ETags /\ got[r].etag.version \in Versions
      BY <2>5 DEF Store, Unsent
    <3>2. /\ etag' \in ETags \cup {Nothing} /\ body' \in Versions \cup {Nothing}
          /\ headers' \in Versions \cup {Nothing}
      BY <2>5, <3>1 DEF Store
    <3>3. /\ UNCHANGED <<current, seen, got>>
          /\ pc' = [pc EXCEPT ![r] = "over"]
          /\ \E given \in [body : Versions, headers : Versions] :
               answer' = [answer EXCEPT ![r] = given]
      BY <2>5, <3>1 DEF Store
    <3>4. ReadsOK' /\ NotModifiedIsOfSeen'
      BY <3>3
    <3>5. ASSUME NEW x \in Reads PROVE ReadOK(x)'
      <4>1. CASE x = r
        BY <3>3, <4>1 DEF ReadOK, Entry
      <4>2. CASE x # r
        BY <3>3, <4>2 DEF ReadOK, Entry
      <4>q. QED
        BY <4>1, <4>2
    <3>q. QED
      BY <3>2, <3>3, <3>4, <3>5 DEF ReadOK, Entry
  <2>6. ASSUME NEW r \in Reads, Invalidate(r) PROVE Typed'
    BY <2>6 DEF Invalidate, Leavings, Remove
  <2>7. ASSUME NEW r \in Reads, Return(r) PROVE Typed'
    <3>1. /\ UNCHANGED <<current, etag, body, headers>>
          /\ pc' = [pc EXCEPT ![r] = "idle"]
          /\ seen' = [seen EXCEPT ![r] = Miss]
          /\ got' = [got EXCEPT ![r] = Unsent]
          /\ answer' = [answer EXCEPT ![r] = Unread]
      BY <2>7 DEF Return, entry
    <3>2. ReadsOK' /\ NotModifiedIsOfSeen'
      BY <3>1
    <3>3. ASSUME NEW x \in Reads PROVE ReadOK(x)'
      <4>1. CASE x = r
        BY <3>1, <4>1 DEF ReadOK, Entry
      <4>2. CASE x # r
        BY <3>1, <4>2 DEF ReadOK, Entry
      <4>q. QED
        BY <4>1, <4>2
    <3>q. QED
      BY <3>1, <3>2, <3>3 DEF ReadOK, Entry
  <2>8. CASE Clear
    BY <2>8 DEF Clear, Leavings, Remove, reads
  <2>9. CASE ResourceChanges
    BY <2>9 DEF ResourceChanges, entry, reads, ETags
  <2>10. CASE ResourceIsRenamed
    BY <2>10 DEF ResourceIsRenamed, entry, reads, ETags
  <2>11. CASE UNCHANGED vars
    BY <2>11 DEF vars, entry, reads
  <2> HIDE CacheAssumption, NothingApart
      DEF Typed, TypeOK, ReadsOK, NotModifiedIsOfSeen, Reach
  <2>q. QED
    BY <2>1, <2>2, <2>3, <2>4, <2>5, <2>6, <2>7, <2>8, <2>9, <2>10, <2>11
      DEF Next
<1>q. QED
  BY <1>1, <1>2, PTL DEF Spec

\* Every part of the entry and every read keeps its type, writes failing or
\* not: a caller is given a body and headers, never a part that is missing.
THEOREM CacheTypeCorrect == Spec => []TypeOK
  BY ReadsTyped, PTL DEF Typed

\* The entry and what was read of it are the same fact at two times.
LEMMA OneVersion ==
  ASSUME ~WritesFail PROVE Spec => [](EntryIsOneVersion /\ SeenIsOneVersion)
<1> DEFINE OneVersionInv == EntryIsOneVersion /\ SeenIsOneVersion
<1> USE CacheAssumption, NothingApart
    DEF EntryIsOneVersion, SeenIsOneVersion, Reach
<1>1. Init => OneVersionInv
  BY DEF Init
<1>2. Typed /\ OneVersionInv /\ [Next]_vars => OneVersionInv'
  <2> SUFFICES ASSUME Typed, OneVersionInv, [Next]_vars PROVE OneVersionInv'
    OBVIOUS
  <2> USE DEF Typed, ReadsOK
  <2>1. ASSUME NEW r \in Reads, Lookup(r) PROVE OneVersionInv'
    BY <2>1 DEF Lookup, Entry, entry
  <2>2. ASSUME NEW r \in Reads, ServerAnswers(r) PROVE OneVersionInv'
    BY <2>2 DEF ServerAnswers, entry
  <2>3. ASSUME NEW r \in Reads, AnsweredElsewhere(r) PROVE OneVersionInv'
    BY <2>3 DEF AnsweredElsewhere, entry
  <2>4. ASSUME NEW r \in Reads, Revalidate(r) PROVE OneVersionInv'
    <3>1. /\ seen' = seen /\ body' = body
          /\ headers' = IF StillThere(r) THEN seen[r].headers ELSE headers
          /\ etag' = IF StillThere(r) THEN got[r].etag ELSE etag
      BY <2>4 DEF Revalidate
    <3>2. /\ seen[r].etag # Nothing
          /\ got[r].etag.version = seen[r].etag.version
      BY <2>4 DEF Revalidate, NotModifiedIsOfSeen
    <3>3. CASE StillThere(r)
      BY <3>1, <3>2, <3>3 DEF StillThere
    <3>4. CASE ~StillThere(r)
      BY <3>1, <3>4
    <3>q. QED
      BY <3>3, <3>4
  <2>5. ASSUME NEW r \in Reads, Store(r) PROVE OneVersionInv'
    BY <2>5 DEF Store
  <2>6. ASSUME NEW r \in Reads, Invalidate(r) PROVE OneVersionInv'
    BY <2>6 DEF Invalidate, Leavings, Remove
  <2>7. ASSUME NEW r \in Reads, Return(r) PROVE OneVersionInv'
    BY <2>7 DEF Return, entry
  <2>8. CASE Clear
    BY <2>8 DEF Clear, Leavings, Remove, reads
  <2>9. CASE ResourceChanges
    BY <2>9 DEF ResourceChanges, entry, reads
  <2>10. CASE ResourceIsRenamed
    BY <2>10 DEF ResourceIsRenamed, entry, reads
  <2>11. CASE UNCHANGED vars
    BY <2>11 DEF vars, entry, reads
  <2>q. QED
    BY <2>1, <2>2, <2>3, <2>4, <2>5, <2>6, <2>7, <2>8, <2>9, <2>10, <2>11
      DEF Next
<1>q. QED
  BY <1>1, <1>2, ReadsTyped, PTL DEF Spec

\* When the writes to the disk are made, the entry's body and headers are of
\* the version its ETag names, whatever reads, changes and clears overlap.
THEOREM EntryOneVersion == ASSUME ~WritesFail PROVE Spec => []EntryIsOneVersion
  BY OneVersion, PTL

\* And a caller answered by a 304 is given the version the 304 was about.
THEOREM AnswersConfirmed == ASSUME ~WritesFail PROVE Spec => []AnswerIsConfirmed
<1> USE CacheAssumption, NothingApart DEF AnswerIsConfirmed
<1>1. Init => AnswerIsConfirmed
  BY DEF Init
<1>2. Typed /\ SeenIsOneVersion /\ AnswerIsConfirmed /\ [Next]_vars
        => AnswerIsConfirmed'
  <2> SUFFICES ASSUME Typed, SeenIsOneVersion, AnswerIsConfirmed, [Next]_vars
               PROVE  AnswerIsConfirmed'
    OBVIOUS
  <2> USE DEF Typed, ReadsOK
  <2>1. ASSUME NEW r \in Reads, Lookup(r) PROVE AnswerIsConfirmed'
    BY <2>1 DEF Lookup
  <2>2. ASSUME NEW r \in Reads, ServerAnswers(r) PROVE AnswerIsConfirmed'
    BY <2>2 DEF ServerAnswers
  <2>3. ASSUME NEW r \in Reads, AnsweredElsewhere(r) PROVE AnswerIsConfirmed'
    BY <2>3 DEF AnsweredElsewhere
  <2>4. ASSUME NEW r \in Reads, Revalidate(r) PROVE AnswerIsConfirmed'
    <3>1. Confirmed(r) = [body    |-> got[r].etag.version,
                          headers |-> got[r].etag.version]
      BY <2>4 DEF Revalidate, Confirmed, NotModifiedIsOfSeen, SeenIsOneVersion
    <3>q. QED
      BY <2>4, <3>1 DEF Revalidate
  <2>5. ASSUME NEW r \in Reads, Store(r) PROVE AnswerIsConfirmed'
    BY <2>5 DEF Store
  <2>6. ASSUME NEW r \in Reads, Invalidate(r) PROVE AnswerIsConfirmed'
    BY <2>6 DEF Invalidate, Leavings, Remove
  <2>7. ASSUME NEW r \in Reads, Return(r) PROVE AnswerIsConfirmed'
    BY <2>7 DEF Return
  <2>8. CASE Clear
    BY <2>8 DEF Clear, Leavings, Remove, reads
  <2>9. CASE ResourceChanges \/ ResourceIsRenamed
    BY <2>9 DEF ResourceChanges, ResourceIsRenamed, reads
  <2>10. CASE UNCHANGED vars
    BY <2>10 DEF vars, reads
  <2>q. QED
    BY <2>1, <2>2, <2>3, <2>4, <2>5, <2>6, <2>7, <2>8, <2>9, <2>10 DEF Next
<1>q. QED
  BY <1>1, <1>2, ReadsTyped, OneVersion, PTL DEF Spec
=============================================================================

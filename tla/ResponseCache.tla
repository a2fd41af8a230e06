--------------------------- MODULE ResponseCache ---------------------------
(***************************************************************************)
(* One entry of the response cache (go/pkg/hey/cache.go) under the reads   *)
(* that go through it at once (generated_cache.go Do and store; client.go  *)
(* singleRequest does the same): each looks the entry up, goes out         *)
(* conditional on what it found, and writes back what it was answered.     *)
(*                                                                         *)
(* The cache's lock makes each of its methods one action to the reads of   *)
(* this process.  To the disk a method is several writes, and a failed one *)
(* or the end of the process leaves those before it: an action says how    *)
(* many were made.  Another process on the same directory is not locked    *)
(* out, which the code says, and is left out here.                         *)
(*                                                                         *)
(* A body and the headers it came with are the version of the resource     *)
(* they describe.  An ETag names a version, and one version may come to be *)
(* named anew; the server compares by what is named.                       *)
(***************************************************************************)
EXTENDS Naturals

CONSTANTS
  Reads,        \* the requests for the resource, each made any number of times
  Nothing,      \* what is not on disk, or not at hand
  MaxVersion,   \* bound: the versions of the resource are 1 .. MaxVersion
  MaxName,      \* bound: the names of a version are 0 .. MaxName
  WritesFail    \* TRUE: a write may fail, or the process end, at any point

Versions == 1 .. MaxVersion
ETags    == [version : Versions, name : 0 .. MaxName]

ASSUME CacheAssumption ==
  /\ MaxVersion \in Nat \ {0} /\ MaxName \in Nat /\ WritesFail \in BOOLEAN
  /\ Nothing \notin Versions /\ Nothing \notin ETags

VARIABLES
  current,              \* the server's ETag for the resource
  etag, body, headers,  \* the entry on disk
  pc,
  seen,    \* the entry each read found: its ETag, body and headers
  got,     \* what it was answered: the status and the server's ETag then
  answer   \* what the caller is given: the body and the headers

entry == <<etag, body, headers>>
reads == <<pc, seen, got, answer>>
vars  == <<current, entry, reads>>

Miss   == [etag |-> Nothing, body |-> Nothing, headers |-> Nothing]
Unread == [body |-> Nothing, headers |-> Nothing]
Unsent == [status |-> 0, etag |-> Nothing]

Init ==
  /\ current = [version |-> 1, name |-> 0]
  /\ etag = Nothing /\ body = Nothing /\ headers = Nothing
  /\ pc = [r \in Reads |-> "idle"]
  /\ seen = [r \in Reads |-> Miss]
  /\ got = [r \in Reads |-> Unsent]
  /\ answer = [r \in Reads |-> Unread]

\* Of a method's writes, how many were made.
Reach(writes) == IF WritesFail THEN 0 .. writes ELSE {writes}

\* What removing leaves: a file that cannot be removed does not stop the others.
Leavings == IF WritesFail THEN SUBSET {"etag", "body", "headers"} ELSE {{}}

Remove(left) ==
  /\ etag' = IF "etag" \in left THEN etag ELSE Nothing
  /\ body' = IF "body" \in left THEN body ELSE Nothing
  /\ headers' = IF "headers" \in left THEN headers ELSE Nothing

-----------------------------------------------------------------------------
(* A read.                                                                 *)

\* lookup: an entry with a part missing is none, and Do takes one past this
\* request's bound for none.
Lookup(r) ==
  /\ pc[r] = "idle"
  /\ \/ seen' = [seen EXCEPT ![r] = Miss]
     \/ /\ Nothing \notin {etag, body, headers}
        /\ seen' = [seen EXCEPT ![r] =
             [etag |-> etag, body |-> body, headers |-> headers]]
  /\ pc' = [pc EXCEPT ![r] = "sent"]
  /\ UNCHANGED <<current, entry, got, answer>>

\* The server: the read is conditional if it found an entry.
ServerAnswers(r) ==
  /\ pc[r] = "sent"
  /\ LET known == seen[r].etag # Nothing /\ seen[r].etag.version = current.version
     IN  got' = [got EXCEPT ![r] = [status |-> IF known THEN 304 ELSE 200,
                                    etag   |-> current]]
  /\ pc' = [pc EXCEPT ![r] = "answered"]
  /\ UNCHANGED <<current, entry, seen, answer>>

\* Any other answer, one that a redirect led to, or a 304 for an entry past the
\* bound, which singleRequest makes an error of: the entry has no part in it.
AnsweredElsewhere(r) ==
  /\ pc[r] = "sent"
  /\ pc' = [pc EXCEPT ![r] = "idle"]
  /\ UNCHANGED <<current, entry, seen, got, answer>>

\* Mutant: the body and headers are read when the 304 has come.
OnDiskNow(r) == [body |-> body, headers |-> headers]

\* What a 304 is answered with.
Confirmed(r) == [body |-> seen[r].body, headers |-> seen[r].headers]

\* Mutant: whatever the entry is by now.
AnyEntry(r) == TRUE

\* revalidate's condition: the entry is the one the read found.
StillThere(r) == etag = seen[r].etag

\* A 304: the stored headers as the 304 updated them, then its ETag.
Revalidate(r) ==
  /\ pc[r] = "answered" /\ got[r].status = 304
  /\ \E writes \in Reach(2) :
       /\ headers' = IF StillThere(r) /\ writes >= 1 THEN seen[r].headers
                                                     ELSE headers
       /\ etag' = IF StillThere(r) /\ writes >= 2 THEN got[r].etag ELSE etag
  /\ answer' = [answer EXCEPT ![r] = Confirmed(r)]
  /\ pc' = [pc EXCEPT ![r] = "over"]
  /\ UNCHANGED <<current, body, seen, got>>

\* SetResponse of a 200: body, headers, ETag.
Store(r) ==
  /\ pc[r] = "answered" /\ got[r].status = 200
  /\ LET version == got[r].etag.version
     IN  /\ \E writes \in Reach(3) :
              /\ body' = IF writes >= 1 THEN version ELSE body
              /\ headers' = IF writes >= 2 THEN version ELSE headers
              /\ etag' = IF writes >= 3 THEN got[r].etag ELSE etag
         /\ answer' = [answer EXCEPT ![r] = [body |-> version,
                                             headers |-> version]]
  /\ pc' = [pc EXCEPT ![r] = "over"]
  /\ UNCHANGED <<current, seen, got>>

\* A 200 past the bound is not stored, and what was is removed.
Invalidate(r) ==
  /\ pc[r] = "answered" /\ got[r].status = 200
  /\ \E left \in Leavings : Remove(left)
  /\ pc' = [pc EXCEPT ![r] = "idle"]
  /\ UNCHANGED <<current, seen, got, answer>>

\* The caller has the answer.
Return(r) ==
  /\ pc[r] = "over"
  /\ pc' = [pc EXCEPT ![r] = "idle"]
  /\ seen' = [seen EXCEPT ![r] = Miss]
  /\ got' = [got EXCEPT ![r] = Unsent]
  /\ answer' = [answer EXCEPT ![r] = Unread]
  /\ UNCHANGED <<current, entry>>

-----------------------------------------------------------------------------
(* The caller, and the server.                                             *)

\* Clear: the responses and, once they are gone, etags.json.
Clear ==
  /\ \E left \in Leavings : (left # {} => "etag" \in left) /\ Remove(left)
  /\ UNCHANGED <<current, reads>>

\* The resource changes, or changes back.
ResourceChanges ==
  /\ \E v \in Versions \ {current.version} :
       current' = [version |-> v, name |-> 0]
  /\ UNCHANGED <<entry, reads>>

ResourceIsRenamed ==
  /\ current.name < MaxName
  /\ current' = [current EXCEPT !.name = @ + 1]
  /\ UNCHANGED <<entry, reads>>

Next ==
  \/ \E r \in Reads :
       \/ Lookup(r) \/ ServerAnswers(r) \/ AnsweredElsewhere(r)
       \/ Revalidate(r) \/ Store(r) \/ Invalidate(r) \/ Return(r)
  \/ Clear \/ ResourceChanges \/ ResourceIsRenamed

Spec == Init /\ [][Next]_vars

-----------------------------------------------------------------------------
(* Properties.                                                             *)

\* The type invariant.
TypeOK ==
  /\ current \in ETags
  /\ etag \in ETags \cup {Nothing}
  /\ body \in Versions \cup {Nothing} /\ headers \in Versions \cup {Nothing}
  /\ pc \in [Reads -> {"idle", "sent", "answered", "over"}]
  /\ \A r \in Reads :
       /\ \/ seen[r] = Miss
          \/ seen[r] \in [etag : ETags, body : Versions, headers : Versions]
       /\ got[r] = Unsent \/ got[r] \in [status : {200, 304}, etag : ETags]
       /\ answer[r] \in IF pc[r] = "over"
                        THEN [body : Versions, headers : Versions]
                        ELSE {Unread}

\* The entry on disk is one version: its body and its headers are the ones its
\* ETag names, however the reads of it overlap.
EntryIsOneVersion ==
  etag # Nothing => body = etag.version /\ headers = etag.version

\* "A 304 is answered from the version it confirms": body and headers are the
\* ones of the version the server named in its answer.
AnswerIsConfirmed ==
  \A r \in Reads : pc[r] = "over" =>
    answer[r] = [body |-> got[r].etag.version, headers |-> got[r].etag.version]
=============================================================================

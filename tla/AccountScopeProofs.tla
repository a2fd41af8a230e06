-------------------------- MODULE AccountScopeProofs -------------------------
(***************************************************************************)
(* Theorems about AccountScope for any reads and accounts, however the     *)
(* reads of the root client and the scoped ones interleave in the jar and  *)
(* the cache they share.                                                   *)
(***************************************************************************)
EXTENDS AccountScope, TLAPS

USE FilterAssumption

\* Who may be named to HEY by a request of the root client.
Named(r) == {Everyone, session, url[r]} \cup granted

\* An entry of the cache, and the one a read looked up, is of the URL that keys it.
EntriesAreKeyed ==
  /\ \A e \in cache : e.url = e.key
  /\ \A r \in Reads : \A e \in seen[r] : e.key = key[r] /\ e.url = key[r]

\* The key of a read is its URL's, and a scoped one's URL is that of its account
\* until a redirect names another, which goes no further than the transport.
KeysAreScoped ==
  \A r \in Reads :
    /\ key[r] # "none" =>
         url[r] = key[r] /\ (scope[r] # Everyone => url[r] = scope[r])
    /\ pc[r] = "sent" => presented[r] \in
         IF scope[r] = Everyone THEN Named(r) ELSE {scope[r]}

\* The jar holds nothing but what HEY set on the root client.
JarIsGranted == jar \in granted \cup {Everyone}

\* The bodies given are of the accounts they are meant to be of.
AnswersAreNamed == AnswersAreScoped /\ RootIsUndisturbed

Scoping ==
  TypeOK /\ EntriesAreKeyed /\ KeysAreScoped /\ JarIsGranted /\ AnswersAreNamed

\* A request names its scope's account, or those of the root client's sources.
LEMMA PresentedIsNamed ==
  ASSUME Scoping, NEW r \in Reads, NEW filter \in Filters,
         filter = OnTheWire(scope[r], url[r]),
         NEW account \in Renditions(filter, FilterCookies(scope[r]))
  PROVE  /\ account \in Filters
         /\ scope[r] # Everyone => account = scope[r]
         /\ scope[r] = Everyone => account \in {Everyone, session, url[r]} \cup granted
<1>1. /\ session \in Filters /\ jar \in Filters /\ jar \in granted \cup {Everyone}
      /\ scope[r] \in Filters /\ url[r] \in Filters
  BY DEF Scoping, TypeOK, JarIsGranted
<1>2. account = Everyone \/ account \in {filter} \cup FilterCookies(scope[r])
  BY DEF Renditions
<1>3. CASE scope[r] = Everyone
  BY <1>1, <1>2, <1>3 DEF OnTheWire, Scoped, FilterCookies, Filters
<1>4. CASE scope[r] # Everyone
  <2>1. filter = scope[r] /\ FilterCookies(scope[r]) = {}
    BY <1>4 DEF OnTheWire, Scoped, FilterCookies
  <2>2. account = scope[r]
    BY <1>4, <2>1 DEF Renditions
  <2>q. QED
    BY <1>1, <1>4, <2>2
<1>q. QED
  BY <1>3, <1>4

\* An answer's cookie leaves the jar with what HEY set on the root client, and
\* the history of that only grows.
LEMMA CookieIsGranted ==
  ASSUME Scoping, NEW r \in Reads, AnswerSetsCookie(r)
  PROVE  /\ jar' \in Filters /\ granted' \subseteq Filters
         /\ jar' \in granted' \cup {Everyone} /\ granted \subseteq granted'
  BY DEF Scoping, TypeOK, JarIsGranted, AnswerSetsCookie

\* The entry stored is of the URL that keys it, and the only one of its key.
LEMMA StoredIsKeyed ==
  ASSUME Scoping, NEW r \in Reads, key[r] # "none"
  PROVE  /\ Stored(r) \subseteq Entry
         /\ \A e \in Stored(r), f \in Stored(r) : e.key = f.key => e = f
         /\ \A e \in Stored(r) : e.url = e.key
<1> DEFINE new == [key |-> key[r], url |-> url[r], of |-> presented[r]]
<1>1. /\ key[r] \in Filters /\ url[r] = key[r] /\ presented[r] \in Filters
      /\ cache \subseteq Entry
      /\ \A e \in cache, f \in cache : e.key = f.key => e = f
      /\ \A e \in cache : e.url = e.key
  BY DEF Scoping, TypeOK, KeysAreScoped, EntriesAreKeyed
<1>2. new \in Entry /\ new.key = key[r] /\ new.url = new.key
  BY <1>1 DEF Entry
<1>3. \A e \in Stored(r) : e = new \/ (e \in cache /\ e.key # key[r])
  BY DEF Stored
<1> HIDE DEF new
<1>q. QED
  BY <1>1, <1>2, <1>3

\* A body given for the account its client is scoped to, or for one named to the
\* root client, leaves every other read as it was.
LEMMA GivingKeeps ==
  ASSUME Scoping, NEW r \in Reads, pc[r] = "sent",
         NEW account \in Filters, Gives(r, account),
         scope[r] # Everyone => account = scope[r],
         scope[r] = Everyone => account \in Named(r),
         cache' \subseteq Entry,
         \A e \in cache', f \in cache' : e.key = f.key => e = f,
         \A e \in cache' : e.url = e.key
  PROVE  Scoping'
<1>1. /\ jar' \in Filters /\ granted' \subseteq Filters
      /\ jar' \in granted' \cup {Everyone} /\ granted \subseteq granted'
  BY CookieIsGranted DEF Gives
<1>2. /\ UNCHANGED <<session, scope, url>>
      /\ pc' = [pc EXCEPT ![r] = "given"] /\ given' = [given EXCEPT ![r] = account]
      /\ key' = [key EXCEPT ![r] = "none"] /\ seen' = [seen EXCEPT ![r] = {}]
      /\ presented' = [presented EXCEPT ![r] = Everyone]
  BY DEF Gives
<1>3. TypeOK'
  BY <1>1, <1>2 DEF Scoping, TypeOK, Filters
<1>4. EntriesAreKeyed'
  BY <1>2 DEF Scoping, TypeOK, EntriesAreKeyed
<1>5. KeysAreScoped'
  BY <1>1, <1>2 DEF Scoping, TypeOK, KeysAreScoped, Named
<1>6. AnswersAreNamed'
  BY <1>1, <1>2 DEF Scoping, TypeOK, AnswersAreNamed, AnswersAreScoped,
    RootIsUndisturbed, Named
<1>q. QED
  BY <1>1, <1>3, <1>4, <1>5, <1>6 DEF Scoping, JarIsGranted

\* Every step of a read keeps what it, the others and what they share are for.
LEMMA Scopes == Spec => []Scoping
<1>1. Init => Scoping
  <2> SUFFICES ASSUME Init PROVE Scoping
    OBVIOUS
  <2>1. TypeOK
    BY DEF Init, TypeOK, Filters
  <2>2. EntriesAreKeyed /\ KeysAreScoped /\ JarIsGranted /\ AnswersAreNamed
    BY DEF Init, EntriesAreKeyed, KeysAreScoped, JarIsGranted, AnswersAreNamed,
      AnswersAreScoped, RootIsUndisturbed
  <2>q. QED
    BY <2>1, <2>2 DEF Scoping
<1>2. Scoping /\ [Next]_vars => Scoping'
  <2> SUFFICES ASSUME Scoping, [Next]_vars PROVE Scoping'
    OBVIOUS
  <2>1. ASSUME NEW r \in Reads, Begin(r) PROVE Scoping'
    <3>1. PICK s \in Filters, asked \in Filters, cached \in BOOLEAN :
            /\ scope' = [scope EXCEPT ![r] = s]
            /\ url' = [url EXCEPT ![r] = Scoped(s, asked)]
            /\ key' = [key EXCEPT ![r] = IF cached THEN Scoped(s, asked) ELSE "none"]
      BY <2>1 DEF Begin, KeyOf
    <3>2. /\ pc' = [pc EXCEPT ![r] = "ready"]
          /\ seen' = [seen EXCEPT ![r] = {e \in cache : e.key = key'[r]}]
          /\ given' = [given EXCEPT ![r] = Everyone]
          /\ UNCHANGED <<session, jar, cache, granted, presented>>
      BY <2>1 DEF Begin, shared
    <3>3. Scoped(s, asked) \in Filters /\ (s # Everyone => Scoped(s, asked) = s)
      BY DEF Scoped
    <3>4. TypeOK'
      BY <3>1, <3>2, <3>3 DEF Scoping, TypeOK, Filters
    <3>5. EntriesAreKeyed'
      BY <3>1, <3>2 DEF Scoping, TypeOK, EntriesAreKeyed
    <3>6. KeysAreScoped'
      BY <3>1, <3>2, <3>3 DEF Scoping, TypeOK, KeysAreScoped, Named
    <3>7. JarIsGranted' /\ AnswersAreNamed'
      BY <3>1, <3>2 DEF Scoping, TypeOK, JarIsGranted, AnswersAreNamed,
        AnswersAreScoped, RootIsUndisturbed
    <3>q. QED
      BY <3>4, <3>5, <3>6, <3>7 DEF Scoping
  <2>2. ASSUME NEW r \in Reads, Send(r) PROVE Scoping'
    <3>1. /\ pc' = [pc EXCEPT ![r] = "sent"] /\ pc[r] = "ready"
          /\ url' = [url EXCEPT ![r] = OnTheWire(scope[r], url[r])]
          /\ UNCHANGED <<session, jar, cache, granted, scope, key, seen, given>>
      BY <2>2 DEF Send, shared
    <3>2. OnTheWire(scope[r], url[r]) \in Filters
      BY DEF Scoping, TypeOK, OnTheWire, Scoped
    <3>3. url'[r] = OnTheWire(scope[r], url[r])
      BY <3>1 DEF Scoping, TypeOK
    <3>4. PICK account \in Renditions(url'[r], FilterCookies(scope[r])) :
            presented' = [presented EXCEPT ![r] = account]
      BY <2>2 DEF Send
    <3>5. /\ account \in Filters
          /\ scope[r] # Everyone => account = scope[r]
          /\ scope[r] = Everyone => account \in Named(r)
      BY <3>2, <3>3, <3>4, PresentedIsNamed DEF Named
    <3>6. /\ scope[r] = Everyone => url' = url
          /\ key[r] # "none" => url' = url
      BY <3>1 DEF Scoping, TypeOK, KeysAreScoped, OnTheWire, Scoped
    <3>7. TypeOK'
      BY <3>1, <3>2, <3>4, <3>5 DEF Scoping, TypeOK
    <3>8. EntriesAreKeyed' /\ JarIsGranted'
      BY <3>1 DEF Scoping, EntriesAreKeyed, JarIsGranted
    <3>9. KeysAreScoped'
      BY <3>1, <3>4, <3>5, <3>6 DEF Scoping, TypeOK, KeysAreScoped, Named
    <3>10. AnswersAreNamed'
      BY <3>1 DEF Scoping, TypeOK, AnswersAreNamed, AnswersAreScoped,
        RootIsUndisturbed
    <3>q. QED
      BY <3>7, <3>8, <3>9, <3>10 DEF Scoping
  <2>3. ASSUME NEW r \in Reads, Redirect(r) \/ EndsOtherwise(r) PROVE Scoping'
    <3>1. /\ jar' \in Filters /\ granted' \subseteq Filters
          /\ jar' \in granted' \cup {Everyone} /\ granted \subseteq granted'
      BY <2>3, CookieIsGranted DEF Redirect, EndsOtherwise
    <3>2. PICK to \in {"ready", "idle"}, s \in Filters, location \in Filters :
            /\ pc' = [pc EXCEPT ![r] = to]
            /\ scope' = [scope EXCEPT ![r] = s]
            /\ url' = [url EXCEPT ![r] = location]
      <4>1. CASE Redirect(r)
        <5>1. PICK location \in Filters : url' = [url EXCEPT ![r] = location]
          BY <4>1 DEF Redirect
        <5>2. /\ pc' = [pc EXCEPT ![r] = "ready"]
              /\ scope' = [scope EXCEPT ![r] = scope[r]] /\ scope[r] \in Filters
          BY <4>1 DEF Redirect, Scoping, TypeOK
        <5>q. QED
          BY <5>1, <5>2
      <4>2. CASE EndsOtherwise(r)
        BY <4>2 DEF EndsOtherwise, Filters
      <4>q. QED
        BY <2>3, <4>1, <4>2
    <3>3. /\ key' = [key EXCEPT ![r] = "none"] /\ seen' = [seen EXCEPT ![r] = {}]
          /\ presented' = [presented EXCEPT ![r] = Everyone]
          /\ UNCHANGED <<session, cache, given>>
      BY <2>3 DEF Redirect, EndsOtherwise
    <3>4. TypeOK'
      BY <3>1, <3>2, <3>3 DEF Scoping, TypeOK, Filters
    <3>5. EntriesAreKeyed'
      BY <3>3 DEF Scoping, TypeOK, EntriesAreKeyed
    <3>6. KeysAreScoped'
      BY <3>1, <3>2, <3>3 DEF Scoping, TypeOK, KeysAreScoped, Named
    <3>7. AnswersAreNamed'
      BY <3>1, <3>2, <3>3 DEF Scoping, TypeOK, AnswersAreNamed,
        AnswersAreScoped, RootIsUndisturbed
    <3>q. QED
      BY <3>1, <3>4, <3>5, <3>6, <3>7 DEF Scoping, JarIsGranted
  <2>4. ASSUME NEW r \in Reads, Fresh(r) PROVE Scoping'
    <3>1. /\ pc[r] = "sent" /\ Gives(r, presented[r])
          /\ cache' = cache \/ (key[r] # "none" /\ cache' = Stored(r))
      BY <2>4 DEF Fresh
    <3>2. /\ cache' \subseteq Entry
          /\ \A e \in cache', f \in cache' : e.key = f.key => e = f
          /\ \A e \in cache' : e.url = e.key
      BY <3>1, StoredIsKeyed DEF Scoping, TypeOK, EntriesAreKeyed
    <3>3. /\ presented[r] \in Filters
          /\ scope[r] # Everyone => presented[r] = scope[r]
          /\ scope[r] = Everyone => presented[r] \in Named(r)
      BY <3>1 DEF Scoping, TypeOK, KeysAreScoped
    <3>q. QED
      BY <3>1, <3>2, <3>3, GivingKeeps
  <2>5. ASSUME NEW r \in Reads, NotModified(r) PROVE Scoping'
    <3>1. PICK e \in seen[r] : Confirms(r, e) /\ Gives(r, e.of)
      BY <2>5 DEF NotModified
    <3>2. pc[r] = "sent" /\ cache' = cache
      BY <2>5 DEF NotModified
    \* The entry found is of the very URL whose answer confirms it.
    <3>3. e.url = url[r]
      <4>1. e \in Entry /\ e.key = key[r] /\ e.url = key[r]
        BY DEF Scoping, TypeOK, EntriesAreKeyed
      <4>2. key[r] # "none"
        BY <4>1 DEF Entry
      <4>q. QED
        BY <4>1, <4>2 DEF Scoping, KeysAreScoped
    <3>4. e.of = presented[r]
      BY <3>1, <3>3 DEF Confirms
    <3>5. /\ presented[r] \in Filters
          /\ scope[r] # Everyone => presented[r] = scope[r]
          /\ scope[r] = Everyone => presented[r] \in Named(r)
      BY <3>2 DEF Scoping, TypeOK, KeysAreScoped
    <3>6. /\ cache' \subseteq Entry
          /\ \A f \in cache', g \in cache' : f.key = g.key => f = g
          /\ \A f \in cache' : f.url = f.key
      BY <3>2 DEF Scoping, TypeOK, EntriesAreKeyed
    <3>q. QED
      BY <3>1, <3>2, <3>4, <3>5, <3>6, GivingKeeps
  <2>6. CASE UNCHANGED vars
    BY <2>6 DEF vars, shared, reads, Scoping, TypeOK, EntriesAreKeyed,
      KeysAreScoped, JarIsGranted, AnswersAreNamed, AnswersAreScoped,
      RootIsUndisturbed, Named
  <2>q. QED
    BY <2>1, <2>2, <2>3, <2>4, <2>5, <2>6 DEF Next
<1>q. QED
  BY <1>1, <1>2, PTL DEF Spec

-----------------------------------------------------------------------------
\* The variables keep their types, and the cache one entry for a key.
THEOREM AccountTypeCorrect == Spec => []TypeOK
  BY Scopes, PTL DEF Scoping

\* Whatever accounts its callers, redirects and cookies name, and whoever stored
\* the body a 304 confirms, a scoped client gives the mail of its own account.
THEOREM AnswersScoped == Spec => []AnswersAreScoped
  BY Scopes, PTL DEF Scoping, AnswersAreNamed

\* The root client gives no mail but of the accounts its own URLs, strategy and
\* cookies name, whatever clients were derived from it and share what it has.
THEOREM RootUndisturbed == Spec => []RootIsUndisturbed
  BY Scopes, PTL DEF Scoping, AnswersAreNamed
=============================================================================

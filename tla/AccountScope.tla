---------------------------- MODULE AccountScope ----------------------------
(***************************************************************************)
(* The account a read is presented for (go/pkg/hey/account_scope.go), when *)
(* the root client of one identity and the clients ForAccount derived from *)
(* it read the same path at once.  They share the strategy that signs, the *)
(* caller's cookie jar and the response cache (client.go singleRequest,    *)
(* generated_cache.go Do), and HEY takes the account from any of three     *)
(* places: the filter in a URL's query, a filter cookie the strategy sets, *)
(* and a filter cookie the jar keeps.                                      *)
(*                                                                         *)
(* A URL is told apart by the filter in its query alone, and a body by the *)
(* account it presents.  An answer that is never whole in the cache, and   *)
(* a hop that leaves HEY, are for ResponseCache and Exchange.              *)
(***************************************************************************)
EXTENDS FiniteSets

CONSTANTS
  Reads,     \* the goroutines that read
  Accounts,  \* the linked accounts
  Everyone   \* no filter: the mail of all accounts, and the root client's scope

Filters == Accounts \cup {Everyone}

ASSUME FilterAssumption == Everyone \notin Accounts /\ "none" \notin Filters

VARIABLES
  session,    \* the filter cookie the strategy sets with its own
  jar, cache, \* the filter cookie in the shared jar; the entries of the cache
  granted,    \* history: the filter cookies HEY set on the root client
  pc, scope,  \* where each read stands; the account of its client
  url, key,   \* the filter in the URL of its hop; the cache key, "none" without
  seen,       \* the entry the lookup found, if any
  presented,  \* the account HEY answers the hop with
  given       \* the account of the body the caller got

shared == <<session, jar, cache, granted>>
reads  == <<pc, scope, url, key, seen, presented, given>>
vars   == <<shared, reads>>

\* An entry's url is the one whose answer its ETag and body are from.
Entry == [key : Filters, url : Filters, of : Filters]

Init ==
  /\ session \in Filters
  /\ jar = Everyone /\ cache = {} /\ granted = {}
  /\ pc = [r \in Reads |-> "idle"] /\ scope = [r \in Reads |-> Everyone]
  /\ url = [r \in Reads |-> Everyone] /\ key = [r \in Reads |-> "none"]
  /\ seen = [r \in Reads |-> {}]
  /\ presented = [r \in Reads |-> Everyone] /\ given = [r \in Reads |-> Everyone]

-----------------------------------------------------------------------------
(* Before the request goes out.                                            *)

\* applyAccountScope, whatever filter the URL has.
Scoped(s, filter) == IF s = Everyone THEN filter ELSE s

\* Mutant: the entry is keyed by the URL the caller asked for.
KeyAsAsked(s, asked) == asked

\* Cache.Key, of the URL as prepareAPIRequest left it.
KeyOf(s, asked) == Scoped(s, asked)

\* A read of the root client or a scoped one, whose caller may have put a filter
\* in the path, through the cache or past it.
Begin(r) ==
  /\ pc[r] \in {"idle", "given"}
  /\ pc' = [pc EXCEPT ![r] = "ready"]
  /\ \E s \in Filters, asked \in Filters, cached \in BOOLEAN :
       /\ scope' = [scope EXCEPT ![r] = s]
       /\ url' = [url EXCEPT ![r] = Scoped(s, asked)]
       /\ key' = [key EXCEPT ![r] = IF cached THEN KeyOf(s, asked) ELSE "none"]
  /\ seen' = [seen EXCEPT ![r] = {e \in cache : e.key = key'[r]}]
  /\ given' = [given EXCEPT ![r] = Everyone]
  /\ UNCHANGED <<shared, presented>>

-----------------------------------------------------------------------------
(* One hop.                                                                *)

\* Mutant: only the URL first asked for is scoped.
LocationAsIs(s, filter) == filter

\* accountScopedTransport scopes every hop: a Location may name any account.
OnTheWire(s, filter) == Scoped(s, filter)

\* Mutant: the cookies go out as the strategy and the jar have them.
CookiesAsGiven(s) == {session, jar} \ {Everyone}

\* removeAccountFilterCookie, and Cookies of accountScopedCookieJar.
FilterCookies(s) == IF s = Everyone THEN {session, jar} \ {Everyone} ELSE {}

\* Whichever of the accounts a request names, and all of them if it names none.
Renditions(filter, cookies) ==
  LET named == ({filter} \cup cookies) \ {Everyone}
  IN  IF named = {} THEN {Everyone} ELSE named

Send(r) ==
  /\ pc[r] = "ready"
  /\ pc' = [pc EXCEPT ![r] = "sent"]
  /\ url' = [url EXCEPT ![r] = OnTheWire(scope[r], @)]
  /\ \E account \in Renditions(url'[r], FilterCookies(scope[r])) :
       presented' = [presented EXCEPT ![r] = account]
  /\ UNCHANGED <<shared, scope, key, seen, given>>

\* Mutant: the jar takes whatever cookie an answer sets.
JarKeepsAll(r) ==
  \/ UNCHANGED <<jar, granted>>
  \/ \E account \in Filters :
       /\ jar' = account
       /\ granted' = IF scope[r] = Everyone THEN granted \cup {account} ELSE granted

\* Any answer may set a filter cookie, and clear it: the jar takes it from the
\* root client, and accountScopedCookieJar drops it for the others.
AnswerSetsCookie(r) ==
  \/ UNCHANGED <<jar, granted>>
  \/ \E account \in Filters :
       /\ scope[r] = Everyone
       /\ jar' = account /\ granted' = granted \cup {account}

\* An answer reached through a redirect is another URL's: the entry is let go.
Redirect(r) ==
  /\ pc[r] = "sent"
  /\ AnswerSetsCookie(r)
  /\ pc' = [pc EXCEPT ![r] = "ready"]
  /\ \E location \in Filters : url' = [url EXCEPT ![r] = location]
  /\ key' = [key EXCEPT ![r] = "none"] /\ seen' = [seen EXCEPT ![r] = {}]
  /\ presented' = [presented EXCEPT ![r] = Everyone]
  /\ UNCHANGED <<session, cache, scope, given>>

-----------------------------------------------------------------------------
(* The answer.                                                             *)

Gives(r, account) ==
  /\ pc' = [pc EXCEPT ![r] = "given"]
  /\ given' = [given EXCEPT ![r] = account]
  /\ key' = [key EXCEPT ![r] = "none"] /\ seen' = [seen EXCEPT ![r] = {}]
  /\ presented' = [presented EXCEPT ![r] = Everyone]
  /\ AnswerSetsCookie(r)
  /\ UNCHANGED <<session, scope, url>>

\* Mutant: the body stored is added to those the key has.
StoredBeside(r) ==
  cache \cup {[key |-> key[r], url |-> url[r], of |-> presented[r]]}

\* SetResponse: the key's entry is replaced.
Stored(r) ==
  {e \in cache : e.key # key[r]}
    \cup {[key |-> key[r], url |-> url[r], of |-> presented[r]]}

\* A fresh 200, stored when it has an ETag and was not reached by a redirect.
Fresh(r) ==
  /\ pc[r] = "sent"
  /\ \/ UNCHANGED cache
     \/ key[r] # "none" /\ cache' = Stored(r)
  /\ Gives(r, presented[r])

\* What HEY confirms: an ETag tells the bodies of one URL apart, and says nothing
\* of another URL's.
Confirms(r, e) == e.url # url[r] \/ e.of = presented[r]

\* A 304 is answered with the body the lookup found.
NotModified(r) ==
  /\ pc[r] = "sent"
  /\ \E e \in seen[r] : Confirms(r, e) /\ Gives(r, e.of)
  /\ UNCHANGED cache

\* Any other status, or none.
EndsOtherwise(r) ==
  /\ pc[r] = "sent"
  /\ AnswerSetsCookie(r)
  /\ pc' = [pc EXCEPT ![r] = "idle"]
  /\ scope' = [scope EXCEPT ![r] = Everyone] /\ url' = [url EXCEPT ![r] = Everyone]
  /\ key' = [key EXCEPT ![r] = "none"] /\ seen' = [seen EXCEPT ![r] = {}]
  /\ presented' = [presented EXCEPT ![r] = Everyone]
  /\ UNCHANGED <<session, cache, given>>

Next ==
  \E r \in Reads :
    \/ Begin(r) \/ Send(r) \/ Redirect(r)
    \/ Fresh(r) \/ NotModified(r) \/ EndsOtherwise(r)

Spec == Init /\ [][Next]_vars

-----------------------------------------------------------------------------
(* Properties.                                                             *)

\* The type invariant: the cache has an entry for a key, or none.
TypeOK ==
  /\ session \in Filters /\ jar \in Filters
  /\ cache \subseteq Entry
  /\ \A e \in cache, f \in cache : e.key = f.key => e = f
  /\ granted \subseteq Filters
  /\ pc \in [Reads -> {"idle", "ready", "sent", "given"}]
  /\ scope \in [Reads -> Filters] /\ url \in [Reads -> Filters]
  /\ key \in [Reads -> Filters \cup {"none"}]
  /\ seen \in [Reads -> SUBSET Entry]
  /\ presented \in [Reads -> Filters] /\ given \in [Reads -> Filters]

\* A scoped client "presents HEY's mail data for one accessible linked account":
\* each body it gives is that account's, whatever filter the caller's path, a
\* redirect or a cookie names, and whichever client stored the cached one.
AnswersAreScoped ==
  \A r \in Reads : pc[r] = "given" /\ scope[r] # Everyone => given[r] = scope[r]

\* The clients derived from the root client leave it as it was: a body it gives
\* is of the account its URL, its strategy or HEY's cookies to it have named, or
\* of all of them, though it shares the jar and the cache with theirs.
RootIsUndisturbed ==
  \A r \in Reads :
    pc[r] = "given" /\ scope[r] = Everyone =>
      given[r] \in {Everyone, session, url[r]} \cup granted
=============================================================================

------------------------------ MODULE Exchange ------------------------------
(***************************************************************************)
(* The hops a send of RetryLoop is made of, and what each carries: the     *)
(* redirect policy and the transports of a client (go/pkg/hey/client.go    *)
(* redirectPolicy, NewClient; http.go credentialStrippingTransport) under  *)
(* net/http, which builds every hop from the first request's headers, asks *)
(* the policy, and only then adds the jar's cookies.  The account filter a *)
(* scoped client puts on its hops is for AccountScope.                     *)
(*                                                                         *)
(* A chain may leave the origin of its first URL and come back.  "port" is *)
(* another origin on HEY's host, which cookies do not tell from HEY's own; *)
(* "away" is another host, and where attachments are uploaded to.          *)
(***************************************************************************)
EXTENDS RetryLoop

\* The redirects followed: 9 without a policy of the caller's, since the tenth
\* is refused (len(via) >= 10), and as many as that policy takes with one.
CONSTANT MaxHops

ASSUME HopsAssumption == MaxHops \in Nat

VARIABLES
  named,    \* the header its strategy signs in: "Authorization" or one of its own
  jar,      \* the caller's http.Client has a jar with HEY's cookies
  restores, \* the caller's own policy puts the first request's headers on a hop
  out,      \* a request is on the wire
  at, hop,
  carried,  \* the headers it carries, of those below
  validated,        \* the first request carries If-None-Match
  writes, made,     \* it is still the write asked for; the write may be made
  unauthenticated,  \* redirectState
  left              \* history: the chain has been off its origin

client       == <<named, jar, restores>>
wire         == <<at, hop, carried>>
chain        == <<validated, writes, made, unauthenticated, left>>
exchangeVars == <<vars, client, out, wire, chain>>

Origins == {"home", "port", "away"}
Headers == {"Authorization", "Strategy", "Cookie", "If-None-Match"}

NoChain ==
  /\ at = "home" /\ hop = 0 /\ carried = {}
  /\ validated = FALSE /\ writes = FALSE /\ made = 0
  /\ unauthenticated = FALSE /\ left = FALSE

ExchangeInit ==
  /\ Init
  /\ named \in {"Authorization", "Strategy"}
  /\ jar \in BOOLEAN /\ restores \in BOOLEAN
  /\ out = FALSE /\ NoChain

-----------------------------------------------------------------------------
(* What a hop carries.                                                     *)

Start == IF kind = "upload" THEN "away" ELSE "home"

HostOf(o) == IF o = "away" THEN "storage" ELSE "hey"

\* noteCredentialHeaders: every header the strategy set, by its name.
CredentialHeaders == IF kind \in {"unsigned", "upload"} THEN {} ELSE {named}

FirstHeaders ==
  CredentialHeaders \cup (IF validated' THEN {"If-None-Match"} ELSE {})

\* net/http copies the first request's headers, Authorization to its host alone.
Copied(to) ==
  IF HostOf(to) = HostOf(Start) THEN FirstHeaders
                                ELSE FirstHeaders \ {"Authorization"}

\* With a policy of the caller's that puts all of them back.
Offered(to) == Copied(to) \cup (IF restores THEN FirstHeaders ELSE {})

SecretsIn(headers) == headers \intersect ({"Authorization"} \cup CredentialHeaders)

\* Mutant: what the caller's policy put on the hop is left there.
PolicyTrustsHop(to) ==
  Offered(to) \ (IF unauthenticated' THEN SecretsIn(Offered(to)) ELSE {})

\* redirectPolicy, after the caller's own.
PolicyRulesHop(to) ==
  Offered(to) \ ({"If-None-Match"} \cup
                    IF unauthenticated' THEN SecretsIn(Offered(to)) ELSE {})

WithCookies(headers, to) ==
  headers \cup
    (IF jar /\ kind # "form" /\ HostOf(to) = "hey" THEN {"Cookie"} ELSE {})

\* Mutant: the policy's own strip is the only one.
SentAsIs(headers) == headers

\* credentialStrippingTransport.
Stripped(headers) ==
  headers \ (IF unauthenticated' THEN {"Cookie"} \cup SecretsIn(headers) ELSE {})

-----------------------------------------------------------------------------
(* One send.                                                               *)

StartSend ==
  /\ pc = "ready" /\ ~out
  /\ out' = TRUE /\ at' = Start /\ hop' = 0
  /\ validated' \in IF kind \in {"generated", "read"} THEN BOOLEAN ELSE {FALSE}
  /\ writes' = TRUE /\ made' = 0 /\ unauthenticated' = FALSE /\ left' = FALSE
  /\ carried' = Stripped(WithCookies(FirstHeaders, Start))
  /\ UNCHANGED <<vars, client>>

\* Mutant: a hop back to the origin is signed as any other there.
NotThere(to) == to # Start

\* A hop off the origin, and every one after it.
LeavesOrigin(to) == unauthenticated \/ to # Start

\* Mutant: one hop more than the limit.
OneHopMore == hop <= MaxHops

HopsLeft == hop < MaxHops

\* The redirect keeps the method and body (307, 308), or asks for a GET: the
\* write was made, or it was not.
Follow(to, keeps) ==
  /\ out /\ FollowsRedirects /\ HopsLeft
  /\ at' = to /\ hop' = hop + 1
  /\ unauthenticated' = LeavesOrigin(to)
  /\ left' = (left \/ to # Start)
  /\ writes' = (writes /\ keeps)
  /\ made' \in IF writes /\ ~keeps THEN {0, 1} ELSE {made}
  /\ UNCHANGED <<vars, client, out, validated>>
  /\ carried' = Stripped(WithCookies(PolicyRulesHop(to), to))

WasFollowed == hop > 0

\* The answer the loop is given, or a failure: the caller's policy and the limit
\* of hops fail a send as the wire does.
Settle(s, n) ==
  /\ out /\ out' = FALSE
  /\ n \in IF writes THEN Applications(s, FALSE) ELSE {made}
  /\ IsAnswered(s, WasFollowed, n)
  /\ UNCHANGED <<client, wire, chain>>

-----------------------------------------------------------------------------
(* Between sends.                                                          *)

\* Mutant: whatever refused the request.
AnyRefusal == TRUE

\* answer401: a 401 from a hop without credentials rejects none of HEY's.
RefusedByHome == ~unauthenticated

Between ==
  /\ ~out
  /\ \/ RefusedByHome /\ RefreshRenews
     \/ SignFails \/ RefreshFails
     \/ Backoff \/ Answer \/ DelayElapses \/ ContextEnds \/ Over
  /\ UNCHANGED <<client, out, wire, chain>>

ExchangeNext ==
  \/ StartSend
  \/ \E to \in Origins, keeps \in BOOLEAN : Follow(to, keeps)
  \/ \E s \in Status \ {"none"}, n \in {0, 1} : Settle(s, n)
  \/ Between

ExchangeSpec == ExchangeInit /\ [][ExchangeNext]_exchangeVars

-----------------------------------------------------------------------------
(* Properties.                                                             *)

\* The type invariant.
ExchangeTypeOK ==
  /\ TypeOK
  /\ named \in {"Authorization", "Strategy"}
  /\ jar \in BOOLEAN /\ restores \in BOOLEAN /\ out \in BOOLEAN
  /\ at \in Origins /\ hop \in 0 .. MaxHops
  /\ carried \subseteq Headers
  /\ validated \in BOOLEAN /\ writes \in BOOLEAN /\ made \in {0, 1}
  /\ unauthenticated \in BOOLEAN /\ left \in BOOLEAN

\* "A hop off the origin goes out without the credentials the strategy set, as
\* does every hop after it, whether or not it comes back", and without the
\* jar's cookies; and "a hop never carries the validator of the URL asked for".
CredentialsStayHome ==
  /\ left => carried \intersect {"Authorization", "Strategy", "Cookie"} = {}
  /\ hop > 0 => "If-None-Match" \notin carried

\* The refresh renews credentials that were refused: the 401 it answers is HEY's
\* answer to a request that carried what the strategy signed it with.
RenewsWhatWasRefused ==
  [][renewed' # renewed => at = Start /\ named \in carried]_exchangeVars

\* To the retry loop it is one send, whatever its hops.
ImplementsRetryLoop == Spec
=============================================================================

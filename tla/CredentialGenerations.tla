------------------------ MODULE CredentialGenerations -----------------------
(***************************************************************************)
(* What the coordinator promises the requests of a client, without turns,  *)
(* mutexes, channels or goroutines: each signing is stamped with the       *)
(* generation of its credentials, no request is signed while a generation  *)
(* is being renewed, and the answer to a 401 is about the rejected         *)
(* request's own generation.  The promises are those of the comments on    *)
(* credentialRefresh, sign and answer in go/pkg/hey/credential_refresh.go. *)
(***************************************************************************)
EXTENDS Naturals

CONSTANT Requests

VARIABLES
  version,   \* renewals of the credentials so far
  attempts,  \* refreshes that ended, whether or not they renewed
  renewing,  \* the generation being renewed, as a set of at most one
  failed,    \* the generations a refresh failed to renew, or gave up on
  stamp,     \* the generation each request was last signed under
  state      \* what each request is doing

vars == <<version, attempts, renewing, failed, stamp, state>>

Now == [refreshes |-> version, runs |-> attempts]

Init ==
  /\ version = 0 /\ attempts = 0 /\ renewing = {} /\ failed = {}
  /\ stamp = [q \in Requests |-> Now]
  /\ state = [q \in Requests |-> "unsigned"]

\* Signing may find the credentials renewed by their provider and count it.
Sign(q) ==
  /\ renewing = {}
  /\ \/ UNCHANGED <<version, attempts>>
     \/ version' = version + 1 /\ attempts' = attempts + 1
  /\ stamp' = [stamp EXCEPT ![q] = Now']
  /\ \/ state[q] = "unsigned" /\ state' = [state EXCEPT ![q] = "signed"]
     \/ /\ state[q] = "renewed"
        /\ version' > stamp[q].refreshes
        /\ state' = [state EXCEPT ![q] = "resigned"]
  /\ UNCHANGED <<renewing, failed>>

\* A refresh is of the credentials of now, and a signed request's 401 asked.
Begin ==
  /\ renewing = {}
  /\ \E q \in Requests : stamp[q] = Now /\ state[q] # "unsigned"
  /\ renewing' = {Now}
  /\ UNCHANGED <<version, attempts, failed, stamp, state>>

End ==
  /\ renewing # {}
  /\ renewing' = {}
  /\ attempts' = attempts + 1
  /\ \/ version' = version + 1 /\ UNCHANGED failed
     \/ failed' = failed \cup renewing /\ UNCHANGED version
  /\ UNCHANGED <<stamp, state>>

\* A refresh that cannot start in time renews nothing and counts nothing.
GiveUp ==
  /\ \E q \in Requests : failed' = failed \cup {stamp[q]}
  /\ UNCHANGED <<version, attempts, renewing, stamp, state>>

Resend(q) ==
  /\ state[q] = "signed"
  /\ version > stamp[q].refreshes
  /\ state' = [state EXCEPT ![q] = "renewed"]
  /\ UNCHANGED <<version, attempts, renewing, failed, stamp>>

\* The 401 is the caller's: its own generation was not renewed, or it was
\* renewed already and rejected again.
Refuse(q) ==
  /\ \/ state[q] = "signed" /\ stamp[q] \in failed
     \/ state[q] = "resigned"
  /\ state' = [state EXCEPT ![q] = "refused"]
  /\ UNCHANGED <<version, attempts, renewing, failed, stamp>>

\* Any other end: an answer, an error, the request's context.
Leave(q) ==
  /\ state[q] # "refused"
  /\ state' = [state EXCEPT ![q] = "over"]
  /\ UNCHANGED <<version, attempts, renewing, failed, stamp>>

Next ==
  \/ Begin \/ End \/ GiveUp
  \/ \E q \in Requests : Sign(q) \/ Resend(q) \/ Refuse(q) \/ Leave(q)

Spec == Init /\ [][Next]_vars
=============================================================================

---------------------------- MODULE AuthManager -----------------------------
(***************************************************************************)
(* AuthManager over its CredentialStore (go/pkg/hey/auth.go): goroutines   *)
(* that read, refresh, change and delete the credentials of their          *)
(* manager's origin, and the issuers that rotate the refresh tokens.       *)
(*                                                                         *)
(* A manager's mutex is held from the start of each of its methods to the  *)
(* end.  Managers share no lock, be they in one process or in several: the *)
(* store is one keyring, an item for each origin, or one credentials.json, *)
(* a map of all origins read and replaced whole (a temporary file renamed  *)
(* over it).                                                               *)
(*                                                                         *)
(* Tokens are the number of the issuer's answer they came with.  Whether   *)
(* an access token is near its expiry is any answer, as an issuer may date *)
(* its tokens as it likes, or not at all.  HEY_TOKEN, which AccessToken    *)
(* answers with before any of this, is in CredentialRefresh (Pinned).      *)
(***************************************************************************)
EXTENDS Naturals

CONSTANTS
  Threads, Managers, Origins,
  ManagerOf,   \* the manager each thread calls
  NoCreds,     \* what the store holds for an origin nobody is logged in to
  Causes,      \* of the accidents below, those that may happen
  MaxIssued    \* bound: the answers of an issuer, the login's included

Accidents == {"cancelled", "cut", "unsaved", "crash"}

ASSUME ManagerAssumption ==
  /\ ManagerOf \in [Threads -> Managers]
  /\ Causes \subseteq Accidents
  /\ MaxIssued \in Nat \ {0}
  /\ NoCreds \notin [access : 1 .. MaxIssued, refresh : 0 .. MaxIssued]

VARIABLES
  origin, keyring,  \* each manager's origin, and where the store keeps things
  file,             \* what the store holds
  live, issued,     \* the refresh token each issuer takes, and its answers
  pc, op,
  base, creds,      \* the credentials each thread loaded, and those it saves
  seen,             \* the whole map, as its save read it
  handed,           \* the newest access token each manager has handed out
  lost              \* history: what befell each origin's credentials

config == <<origin, keyring>>
issuer == <<live, issued>>
local  == <<pc, op, base, creds, seen>>
vars   == <<config, file, issuer, local, handed, lost>>

\* A refresh of 0 is one that is missing, as the token endpoint or the install
\* ID may be: there is nothing to refresh with.
Tokens      == 1 .. MaxIssued
Credentials == [access : Tokens, refresh : {0} \cup Tokens]

Init ==
  /\ origin \in [Managers -> Origins] /\ keyring \in BOOLEAN
  /\ file \in [Origins -> {NoCreds} \cup [access : {1}, refresh : {0, 1}]]
  /\ live = [o \in Origins |-> 1] /\ issued = [o \in Origins |-> 1]
  /\ pc = [t \in Threads |-> "idle"] /\ op = [t \in Threads |-> "none"]
  /\ base = [t \in Threads |-> NoCreds] /\ creds = [t \in Threads |-> NoCreds]
  /\ seen = [t \in Threads |-> [o \in Origins |-> NoCreds]]
  /\ handed = [m \in Managers |-> 0]
  /\ lost = [o \in Origins |-> {}]

OriginOf(t) == origin[ManagerOf[t]]
Stored(t)   == file[OriginOf(t)]

\* Mutant: the methods of a manager overlap.
Unlocked(t) == pc[t] = "idle"

\* No thread is in a method of t's manager.
MutexIsFree(t) ==
  \A u \in Threads : ManagerOf[u] = ManagerOf[t] => pc[u] = "idle"

Forget(t) ==
  /\ op' = [op EXCEPT ![t] = "none"]
  /\ base' = [base EXCEPT ![t] = NoCreds]
  /\ creds' = [creds EXCEPT ![t] = NoCreds]
  /\ seen' = [seen EXCEPT ![t] = [o \in Origins |-> NoCreds]]

Return(t) == pc' = [pc EXCEPT ![t] = "idle"] /\ Forget(t)

Begin(t, method, to, new) ==
  /\ pc[t] = "idle" /\ MutexIsFree(t)
  /\ pc' = [pc EXCEPT ![t] = to]
  /\ op' = [op EXCEPT ![t] = method]
  /\ base' = [base EXCEPT ![t] = Stored(t)]
  /\ creds' = [creds EXCEPT ![t] = new]
  /\ UNCHANGED <<config, file, issuer, seen, handed, lost>>

HandOut(t) == handed' = [handed EXCEPT ![ManagerOf[t]] = Stored(t).access]

-----------------------------------------------------------------------------
(* The methods.                                                            *)

\* AccessToken of a stored token that is not near its expiry.
HandOutStored(t) ==
  /\ pc[t] = "idle" /\ MutexIsFree(t)
  /\ Stored(t) # NoCreds
  /\ HandOut(t)
  /\ UNCHANGED <<config, file, issuer, local, lost>>

\* Mutant: what is missing is not looked for.
StartAnyRefresh(t) ==
  /\ Stored(t) # NoCreds
  /\ \E method \in {"AccessToken", "Refresh"} :
       Begin(t, method, "posting", Stored(t))

\* AccessToken of one that is, and Refresh.
StartRefresh(t) ==
  /\ Stored(t) # NoCreds /\ Stored(t).refresh # 0
  /\ \E method \in {"AccessToken", "Refresh"} :
       Begin(t, method, "posting", Stored(t))

\* Everything is saved as it was loaded, but for the user ID.
SetUserID(t) ==
  /\ Stored(t) # NoCreds
  /\ Begin(t, "SetUserID", "saving", Stored(t))

Logout(t) == Begin(t, "Logout", "saving", NoCreds)

-----------------------------------------------------------------------------
(* refreshLocked.                                                          *)

\* Mutant: the refresh token stays the one there was.
RenewedInPart(t, n, rotates) == [access |-> n, refresh |-> base[t].refresh]

\* An answer without a refresh token leaves the one there was.  One without an
\* access token, which the code would store as well, no issuer gives.
Renewed(t, n, rotates) ==
  [access |-> n, refresh |-> IF rotates THEN n ELSE base[t].refresh]

\* The issuer takes the token, and may take another one from now on.
Issue(t) ==
  /\ pc[t] = "posting"
  /\ LET o == OriginOf(t)
         n == issued[o] + 1
     IN  /\ creds[t].refresh = live[o]
         /\ n <= MaxIssued
         /\ issued' = [issued EXCEPT ![o] = n]
         /\ \E rotates \in BOOLEAN :
              /\ live' = [live EXCEPT ![o] = IF rotates THEN n ELSE @]
              /\ creds' = [creds EXCEPT ![t] = Renewed(t, n, rotates)]
  /\ pc' = [pc EXCEPT ![t] = "answered"]
  /\ UNCHANGED <<config, file, op, base, seen, handed, lost>>

\* The issuer refuses the token or fails, or is not reached.
IssueFails(t) ==
  /\ pc[t] = "posting"
  /\ Return(t)
  /\ UNCHANGED <<config, file, issuer, handed, lost>>

Rotated(t) ==
  /\ pc[t] \in {"answered", "prepared"}
  /\ op[t] \in {"AccessToken", "Refresh"}
  /\ creds[t].refresh # base[t].refresh

\* The thread's call ends here: a token the issuer rotated is held by nobody.
Dropped(t) ==
  lost' = [lost EXCEPT ![OriginOf(t)] =
             IF Rotated(t) THEN @ \cup {"dropped"} ELSE @]

\* The context ends, or the answer is lost or cannot be read.  AccessToken
\* refreshes on the context of the request being signed, which its caller may
\* cancel; Refresh is given one that its callers cannot.
AnswerIsCut(t) ==
  /\ pc[t] = "answered"
  /\ \/ "cut" \in Causes
     \/ "cancelled" \in Causes /\ op[t] = "AccessToken"
  /\ Return(t)
  /\ Dropped(t)
  /\ UNCHANGED <<config, file, issuer, handed>>

-----------------------------------------------------------------------------
(* CredentialStore.                                                        *)

Saving(t) == pc[t] \in {"answered", "saving"}

\* The map is read, and written to a temporary file.
Prepare(t) ==
  /\ Saving(t) /\ ~keyring
  /\ seen' = [seen EXCEPT ![t] = file]
  /\ pc' = [pc EXCEPT ![t] = "prepared"]
  /\ UNCHANGED <<config, file, issuer, op, base, creds, handed, lost>>

\* What the store holds once the thread's save is through.
Written(t) ==
  [IF keyring THEN file ELSE seen[t] EXCEPT ![OriginOf(t)] = creds[t]]

\* The origins whose credentials the save takes back to what its thread read,
\* past a change another thread made since.
Clobbered(t) ==
  {o \in Origins :
     /\ Written(t)[o] # file[o]
     /\ IF o = OriginOf(t) THEN op[t] # "Logout" /\ file[o] # base[t]
                           ELSE file[o] # seen[t][o]}

\* The rename, or the keyring's Set or Delete.  AccessToken loads what it saved.
Commit(t) ==
  /\ IF keyring THEN Saving(t) ELSE pc[t] = "prepared"
  /\ file' = Written(t)
  /\ lost' = [o \in Origins |->
       IF o \in Clobbered(t) THEN lost[o] \cup {"clobbered"} ELSE lost[o]]
  /\ IF op[t] = "AccessToken"
       THEN pc' = [pc EXCEPT ![t] = "saved"] /\ UNCHANGED <<op, base, creds, seen>>
       ELSE Return(t)
  /\ UNCHANGED <<config, issuer, handed>>

\* Mutant: AccessToken hands out the token it could not save.
SaveFailsUnheard(t) ==
  /\ "unsaved" \in Causes
  /\ Saving(t) \/ pc[t] = "prepared"
  /\ Return(t)
  /\ Dropped(t)
  /\ handed' = IF op[t] = "AccessToken"
                 THEN [handed EXCEPT ![ManagerOf[t]] = creds[t].access]
                 ELSE handed
  /\ UNCHANGED <<config, file, issuer>>

SaveFails(t) ==
  /\ "unsaved" \in Causes
  /\ Saving(t) \/ pc[t] = "prepared"
  /\ Return(t)
  /\ Dropped(t)
  /\ UNCHANGED <<config, file, issuer, handed>>

Reload(t) ==
  /\ pc[t] = "saved"
  /\ IF Stored(t) = NoCreds THEN UNCHANGED handed ELSE HandOut(t)
  /\ Return(t)
  /\ UNCHANGED <<config, file, issuer, lost>>

-----------------------------------------------------------------------------
\* The manager's process ends, and starts again.
Crash(m) ==
  /\ "crash" \in Causes
  /\ LET gone == {t \in Threads : ManagerOf[t] = m}
     IN  /\ \E t \in gone : pc[t] # "idle"
         /\ pc' = [t \in Threads |-> IF t \in gone THEN "idle" ELSE pc[t]]
         /\ op' = [t \in Threads |-> IF t \in gone THEN "none" ELSE op[t]]
         /\ base' = [t \in Threads |-> IF t \in gone THEN NoCreds ELSE base[t]]
         /\ creds' = [t \in Threads |-> IF t \in gone THEN NoCreds ELSE creds[t]]
         /\ seen' = [t \in Threads |-> IF t \in gone
                       THEN [o \in Origins |-> NoCreds] ELSE seen[t]]
         /\ lost' = [lost EXCEPT ![origin[m]] =
              IF \E t \in gone : Rotated(t) THEN @ \cup {"dropped"} ELSE @]
  /\ UNCHANGED <<config, file, issuer, handed>>

Next ==
  \/ \E t \in Threads :
       \/ HandOutStored(t) \/ StartRefresh(t) \/ SetUserID(t) \/ Logout(t)
       \/ Issue(t) \/ IssueFails(t) \/ AnswerIsCut(t)
       \/ Prepare(t) \/ Commit(t) \/ SaveFails(t) \/ Reload(t)
  \/ \E m \in Managers : Crash(m)

Spec == Init /\ [][Next]_vars

-----------------------------------------------------------------------------
(* Properties.                                                             *)

\* The type invariant.
TypeOK ==
  /\ origin \in [Managers -> Origins] /\ keyring \in BOOLEAN
  /\ file \in [Origins -> Credentials \cup {NoCreds}]
  /\ live \in [Origins -> Tokens] /\ issued \in [Origins -> Tokens]
  /\ pc \in [Threads -> {"idle", "posting", "answered", "saving", "prepared",
                         "saved"}]
  /\ op \in [Threads -> {"none", "AccessToken", "Refresh", "SetUserID", "Logout"}]
  /\ base \in [Threads -> Credentials \cup {NoCreds}]
  /\ creds \in [Threads -> Credentials \cup {NoCreds}]
  /\ \A t \in Threads : pc[t] = "posting" => creds[t].refresh # 0
  /\ seen \in [Threads -> [Origins -> Credentials \cup {NoCreds}]]
  /\ handed \in [Managers -> {0} \cup Tokens]
  /\ lost \in [Origins -> SUBSET {"dropped", "clobbered"}]

\* Another manager may write where o's credentials are.
Shared(o) ==
  \E m, n \in Managers :
    m # n /\ IF keyring THEN origin[m] = o /\ origin[n] = o ELSE TRUE

\* A stored login can still be refreshed, unless a thread is about to save the
\* token that replaced it.  Four things end that and no other: the answer to
\* the refresh is cut off, its save fails, the process ends between the two, or
\* a save takes back another manager's, of the same origin, or of any when they
\* share the file.  The threads of one manager take nothing back from each other,
\* whatever they call.
LoginIsKept ==
  \A o \in Origins :
    \/ file[o] = NoCreds \/ file[o].refresh \in {0, live[o]}
    \/ "dropped" \in lost[o] \/ ("clobbered" \in lost[o] /\ Shared(o))
    \/ \E t \in Threads : OriginOf(t) = o /\ Rotated(t)

\* "The order the provider issued the credentials": a manager never hands out
\* an older access token after a newer one, through refreshes, failures and
\* crashes, unless another one took its save back.
HandedInOrder ==
  [][\A m \in Managers :
       \/ handed'[m] >= handed[m]
       \/ "clobbered" \in lost[origin[m]] /\ Shared(origin[m])]_vars

\* "A rotating refresh token is spent once": a token that is about to be
\* presented has not been spent yet.
SpentOnce ==
  \A t \in Threads : pc[t] = "posting" => creds[t].refresh = live[OriginOf(t)]
=============================================================================

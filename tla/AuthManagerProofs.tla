-------------------------- MODULE AuthManagerProofs --------------------------
(***************************************************************************)
(* Theorems about AuthManager for any threads, managers and origins, any   *)
(* accidents and any number of answers: what can cost a login its refresh  *)
(* token, whose changes can be taken back, and in which order tokens are   *)
(* handed out.                                                             *)
(***************************************************************************)
EXTENDS AuthManager, TLAPS

USE ManagerAssumption

\* What credentials are made of, and that nobody's are none of them.
LEMMA CredentialsAreSome ==
  /\ NoCreds \notin Credentials
  /\ Tokens \subseteq Nat /\ 1 \in Tokens
  /\ \A c \in Credentials : c.access \in Tokens /\ c.refresh \in {0} \cup Tokens
<1>1. {0} \cup Tokens = 0 .. MaxIssued
  BY DEF Tokens
<1>2. NoCreds \notin Credentials
  BY <1>1 DEF Credentials, Tokens
<1>q. QED
  BY <1>2 DEF Credentials, Tokens

-----------------------------------------------------------------------------
(* The steps, by what they do to a thread.                                 *)

\* A method that loads the credentials and goes on with them, or with none.
Begins(t) ==
  \/ /\ Stored(t) # NoCreds /\ Stored(t).refresh # 0
     /\ \E method \in {"AccessToken", "Refresh"} :
          Begin(t, method, "posting", Stored(t))
  \/ Stored(t) # NoCreds /\ Begin(t, "SetUserID", "saving", Stored(t))
  \/ Begin(t, "Logout", "saving", NoCreds)

\* A method that returns having written nothing.
Leaves(t) ==
  /\ Return(t) /\ UNCHANGED <<config, file, issuer>>
  /\ Dropped(t)

\* A token is handed out as the store has it, by a thread that then returns or
\* never left.
HandsOut(t) == HandOut(t) /\ Stored(t) # NoCreds /\ UNCHANGED <<config, file, lost>>

\* Every step but a token handed out as it is stored begins a method, is
\* answered, returns, reads the map, saves, or is the end of a process.
LEMMA ThreadSteps ==
  ASSUME TypeOK, [Next]_vars
  PROVE  \/ \E t \in Threads :
              \/ Begins(t) \/ Issue(t) \/ Leaves(t) \/ Prepare(t) \/ Commit(t)
         \/ \E m \in Managers : Crash(m)
         \/ UNCHANGED <<config, file, issuer, local, lost>>
<1>1. ASSUME NEW t \in Threads, HandOutStored(t)
      PROVE  UNCHANGED <<config, file, issuer, local, lost>>
  BY <1>1 DEF HandOutStored
<1>2. ASSUME NEW t \in Threads, StartRefresh(t) \/ SetUserID(t) \/ Logout(t)
      PROVE  Begins(t)
  BY <1>2 DEF StartRefresh, SetUserID, Logout, Begins
<1>3. ASSUME NEW t \in Threads, ~Rotated(t), lost' = lost
      PROVE  Dropped(t)
  <2>1. OriginOf(t) \in Origins
    BY DEF OriginOf, TypeOK
  <2>q. QED
    BY <1>3, <2>1 DEF Dropped, TypeOK
<1>4. ASSUME NEW t \in Threads, IssueFails(t) \/ Reload(t)
      PROVE  Leaves(t)
  BY <1>3, <1>4 DEF IssueFails, Reload, Leaves, Rotated
<1>5. ASSUME NEW t \in Threads, AnswerIsCut(t) \/ SaveFails(t)
      PROVE  Leaves(t)
  BY <1>5 DEF AnswerIsCut, SaveFails, Leaves
<1>6. CASE UNCHANGED vars
  BY <1>6 DEF vars
<1>q. QED
  BY <1>1, <1>2, <1>4, <1>5, <1>6 DEF Next

\* AccessToken hands out what the store holds, when it starts and once it saved.
LEMMA HandingSteps ==
  ASSUME [Next]_vars, handed' # handed
  PROVE  \E t \in Threads : HandsOut(t)
<1>1. PICK t \in Threads : HandOutStored(t) \/ Reload(t)
  BY DEF Next, StartRefresh, SetUserID, Logout, Begin, Issue, IssueFails,
    AnswerIsCut, Prepare, Commit, SaveFails, Crash, vars
<1>q. QED
  BY <1>1 DEF HandOutStored, Reload, HandsOut

-----------------------------------------------------------------------------
(* Types, and where a method stands with what it loaded.                   *)

\* What a thread in a method holds: a refresh or SetUserID has credentials, and
\* newer ones once an answer came; Logout has none to save.
Midway(t) ==
  /\ pc[t] = "posting" =>
       op[t] \in {"AccessToken", "Refresh"} /\ creds[t] = base[t]
  /\ pc[t] = "answered" => op[t] \in {"AccessToken", "Refresh"}
  /\ pc[t] = "saving" => op[t] \in {"SetUserID", "Logout"}
  /\ pc[t] = "prepared" => ~keyring /\ op[t] # "none"
  /\ op[t] \in {"AccessToken", "Refresh", "SetUserID"} =>
       /\ base[t] \in Credentials /\ creds[t] \in Credentials
       /\ base[t].access <= creds[t].access
  /\ op[t] = "SetUserID" => creds[t] = base[t]
  /\ op[t] = "Logout" => creds[t] = NoCreds

\* Nothing anybody holds of an origin is newer than its issuer's answers.
Within(c, o) == c # NoCreds => c.access <= issued[o] /\ c.refresh <= issued[o]

TokensAreIssued ==
  /\ \A o \in Origins :
       /\ live[o] <= issued[o] /\ Within(file[o], o)
       /\ \A t \in Threads : Within(seen[t][o], o)
  /\ \A t \in Threads : Within(base[t], OriginOf(t)) /\ Within(creds[t], OriginOf(t))

Holdings == TypeOK /\ (\A t \in Threads : Midway(t)) /\ TokensAreIssued

\* A thread's origin, and what the store holds for it.
LEMMA OriginsAreTyped ==
  ASSUME TypeOK, NEW t \in Threads
  PROVE  /\ OriginOf(t) \in Origins
         /\ Stored(t) \in Credentials \cup {NoCreds}
         /\ Stored(t) = file[OriginOf(t)]
  BY DEF OriginOf, Stored, TypeOK

\* A method returns and the thread is as it was before.
LEMMA ReturnForgets ==
  ASSUME TypeOK, NEW t \in Threads, Return(t)
  PROVE  /\ pc' = [pc EXCEPT ![t] = "idle"]
         /\ op' = [op EXCEPT ![t] = "none"]
         /\ base' = [base EXCEPT ![t] = NoCreds]
         /\ creds' = [creds EXCEPT ![t] = NoCreds]
         /\ seen' = [seen EXCEPT ![t] = [o \in Origins |-> NoCreds]]
  BY DEF Return, Forget

\* A method that returns leaves every other thread as it was.
LEMMA OthersGoOn ==
  ASSUME TypeOK, NEW t \in Threads, Return(t), NEW u \in Threads
  PROVE  /\ u # t => /\ pc'[u] = pc[u] /\ op'[u] = op[u] /\ base'[u] = base[u]
                     /\ creds'[u] = creds[u] /\ seen'[u] = seen[u]
         /\ u = t => /\ pc'[u] = "idle" /\ op'[u] = "none" /\ base'[u] = NoCreds
                     /\ creds'[u] = NoCreds
                     /\ seen'[u] = [o \in Origins |-> NoCreds]
<1>1. u # t => /\ pc'[u] = pc[u] /\ op'[u] = op[u] /\ base'[u] = base[u]
               /\ creds'[u] = creds[u] /\ seen'[u] = seen[u]
  BY ReturnForgets DEF TypeOK
<1>2. u = t => /\ pc'[u] = "idle" /\ op'[u] = "none" /\ base'[u] = NoCreds
               /\ creds'[u] = NoCreds
               /\ seen'[u] = [o \in Origins |-> NoCreds]
  BY ReturnForgets DEF TypeOK
<1>q. QED
  BY <1>1, <1>2

-----------------------------------------------------------------------------
(* The inductive invariants.                                               *)

\* A manager's mutex is held by one thread.
MutexIsOneThreads ==
  \A t, u \in Threads :
    ManagerOf[t] = ManagerOf[u] /\ pc[t] # "idle" /\ pc[u] # "idle" => t = u

Knows(c, o) == c # NoCreds /\ c.refresh = live[o]

\* The token a refresh rotated to is known to the issuer and to the thread it
\* answered, and to nobody else: nobody else can have the issuer rotate it away.
KnownToOnly(t, o) ==
  /\ ~Knows(file[o], o)
  /\ \A u \in Threads :
       /\ ~Knows(seen[u][o], o)
       /\ OriginOf(u) = o /\ u # t => ~Knows(creds[u], o)

RotatedIsSecret ==
  \A t \in Threads : Rotated(t) =>
    creds[t].refresh = live[OriginOf(t)] /\ KnownToOnly(t, OriginOf(t))

\* What a thread has read is still what the store holds.
ReadIsCurrent ==
  \A t \in Threads :
    /\ pc[t] \in {"posting", "answered", "saving", "prepared"} =>
         base[t] = Stored(t) \/ Shared(OriginOf(t))
    /\ pc[t] = "prepared" =>
         \A o \in Origins : seen[t][o] = file[o] \/ Shared(o)

\* The store holds no older token than a manager has handed out.
NotAhead(m) ==
  \/ "clobbered" \in lost[origin[m]]
  \/ file[origin[m]] = NoCreds
  \/ handed[m] <= file[origin[m]].access

NoneIsAhead == \A m \in Managers : NotAhead(m)

-----------------------------------------------------------------------------
(* The types.                                                              *)

\* Only stored tokens are handed out.
LEMMA HandedIsTyped ==
  ASSUME TypeOK, [Next]_vars
  PROVE  handed' \in [Managers -> {0} \cup Tokens]
<1>1. CASE handed' # handed
  <2>1. PICK t \in Threads : HandsOut(t)
    BY <1>1, HandingSteps
  <2>2. Stored(t).access \in Tokens
    BY <2>1, OriginsAreTyped, CredentialsAreSome DEF HandsOut
  <2>q. QED
    BY <2>1, <2>2 DEF HandsOut, HandOut, TypeOK
<1>q. QED
  BY <1>1 DEF TypeOK

\* The answer of an issuer, and what a thread makes of it.
LEMMA AnswersAreNewer ==
  ASSUME Holdings, NEW t \in Threads, Issue(t)
  PROVE  LET o == OriginOf(t)
             n == issued[o] + 1
         IN  /\ n \in Tokens /\ n > issued[o] /\ creds[t].refresh = live[o]
             /\ op[t] \in {"AccessToken", "Refresh"}
             /\ base[t] \in Credentials /\ creds[t] = base[t]
             /\ issued' = [issued EXCEPT ![o] = n]
             /\ \/ /\ live' = [live EXCEPT ![o] = n]
                   /\ creds' = [creds EXCEPT ![t] = [access |-> n, refresh |-> n]]
                \/ /\ live' = live
                   /\ creds' = [creds EXCEPT ![t] =
                        [access |-> n, refresh |-> base[t].refresh]]
<1> DEFINE o == OriginOf(t)
           n == issued[o] + 1
<1>1. o \in Origins /\ issued[o] \in Tokens
  BY OriginsAreTyped DEF Holdings, TypeOK
<1>2. n \in Tokens /\ n > issued[o] /\ creds[t].refresh = live[o]
  BY <1>1 DEF Issue, Tokens
<1>3. /\ op[t] \in {"AccessToken", "Refresh"}
      /\ base[t] \in Credentials /\ creds[t] = base[t]
  BY DEF Issue, Holdings, Midway
<1>4. issued' = [issued EXCEPT ![o] = n]
  BY DEF Issue
<1>5. PICK rotates \in BOOLEAN :
        /\ live' = [live EXCEPT ![o] = IF rotates THEN n ELSE @]
        /\ creds' = [creds EXCEPT ![t] = Renewed(t, n, rotates)]
  BY DEF Issue
<1>6. CASE rotates
  BY <1>2, <1>3, <1>4, <1>5, <1>6 DEF Renewed
<1>7. CASE ~rotates
  <2>1. live' = live
    BY <1>5, <1>7 DEF Holdings, TypeOK
  <2>q. QED
    BY <1>2, <1>3, <1>4, <1>5, <1>7, <2>1 DEF Renewed
<1>q. QED
  BY <1>6, <1>7

\* What a save writes, and where: its thread's credentials at its origin, and
\* elsewhere what is there or was when it read.
LEMMA SavesWrite ==
  ASSUME TypeOK, NEW t \in Threads, Commit(t)
  PROVE  /\ file' = Written(t)
         /\ Written(t) \in [Origins -> Credentials \cup {NoCreds}]
         /\ Written(t)[OriginOf(t)] = creds[t]
         /\ \A o \in Origins \ {OriginOf(t)} :
              Written(t)[o] = IF keyring THEN file[o] ELSE seen[t][o]
  BY OriginsAreTyped DEF Commit, Written, TypeOK

\* A method that returns leaves every thread typed.
LEMMA ReturnsAreTyped ==
  ASSUME TypeOK, NEW t \in Threads, Return(t)
  PROVE  /\ pc' \in [Threads -> {"idle", "posting", "answered", "saving", "prepared",
                                 "saved"}]
         /\ op' \in [Threads -> {"none", "AccessToken", "Refresh", "SetUserID", "Logout"}]
         /\ base' \in [Threads -> Credentials \cup {NoCreds}]
         /\ creds' \in [Threads -> Credentials \cup {NoCreds}]
         /\ seen' \in [Threads -> [Origins -> Credentials \cup {NoCreds}]]
         /\ \A u \in Threads : pc'[u] = "posting" => creds'[u].refresh # 0
<1> USE DEF TypeOK
<1>1. [o \in Origins |-> NoCreds] \in [Origins -> Credentials \cup {NoCreds}]
  OBVIOUS
<1>2. seen' \in [Threads -> [Origins -> Credentials \cup {NoCreds}]]
  BY <1>1, ReturnForgets
<1>3. \A u \in Threads : pc'[u] = "posting" => creds'[u].refresh # 0
  BY ReturnForgets
<1>q. QED
  BY <1>2, <1>3, ReturnForgets

\* Every step of the managers keeps the types.
LEMMA TypesAreKept ==
  ASSUME Holdings, [Next]_vars
  PROVE  TypeOK'
<1> USE DEF TypeOK, Holdings
<1>1. handed' \in [Managers -> {0} \cup Tokens]
  BY HandedIsTyped
<1>2. ASSUME NEW t \in Threads, Begins(t)
      PROVE  TypeOK'
  <2>1. PICK method \in {"AccessToken", "Refresh", "SetUserID", "Logout"},
             to \in {"posting", "saving"}, new \in {NoCreds, Stored(t)} :
          Begin(t, method, to, new) /\ (to = "posting" => new.refresh # 0)
    BY <1>2 DEF Begins
  <2>2. new \in Credentials \cup {NoCreds} /\ Stored(t) \in Credentials \cup {NoCreds}
    BY OriginsAreTyped
  <2>q. QED
    BY <1>1, <2>1, <2>2 DEF Begin, config, issuer
<1>3. ASSUME NEW t \in Threads, Issue(t)
      PROVE  TypeOK'
  <2> DEFINE o == OriginOf(t)
             n == issued[o] + 1
  <2>1. n \in Tokens /\ base[t].refresh \in {0} \cup Tokens
    BY <1>3, AnswersAreNewer, CredentialsAreSome
  <2>2. [access |-> n, refresh |-> n] \in Credentials
    BY <2>1 DEF Credentials
  <2>3. [access |-> n, refresh |-> base[t].refresh] \in Credentials
    BY <2>1 DEF Credentials
  <2>a. /\ issued' = [issued EXCEPT ![o] = n]
        /\ \/ /\ live' = [live EXCEPT ![o] = n]
              /\ creds' = [creds EXCEPT ![t] = [access |-> n, refresh |-> n]]
           \/ /\ live' = live
              /\ creds' = [creds EXCEPT ![t] =
                   [access |-> n, refresh |-> base[t].refresh]]
    BY <1>3, AnswersAreNewer
  <2> HIDE DEF n, o
  <2>b. live \in [Origins -> Tokens] /\ issued \in [Origins -> Tokens] /\ n \in Tokens
    BY <2>1
  <2>4. issued' \in [Origins -> Tokens] /\ live' \in [Origins -> Tokens]
    <3> HIDE DEF TypeOK, Holdings
    <3>q. QED
      BY <2>a, <2>b
  <2>5. creds' \in [Threads -> Credentials \cup {NoCreds}]
    BY <2>a, <2>2, <2>3
  <2>6. \A u \in Threads : pc'[u] = "posting" => creds'[u].refresh # 0
    BY <1>3, AnswersAreNewer DEF Issue
  <2>q. QED
    BY <1>1, <1>3, <2>4, <2>5, <2>6 DEF Issue, config
<1>4. ASSUME NEW t \in Threads, Leaves(t)
      PROVE  TypeOK'
  <2>1. lost' \in [Origins -> SUBSET {"dropped", "clobbered"}]
    BY <1>4, OriginsAreTyped DEF Leaves, Dropped
  <2>q. QED
    BY <1>1, <1>4, <2>1, ReturnsAreTyped DEF Leaves, config, issuer
<1>5. ASSUME NEW t \in Threads, Prepare(t)
      PROVE  TypeOK'
  BY <1>1, <1>5 DEF Prepare, config, issuer
<1>6. ASSUME NEW t \in Threads, Commit(t)
      PROVE  TypeOK'
  <2>1. file' \in [Origins -> Credentials \cup {NoCreds}]
    BY <1>6, SavesWrite
  <2>2. lost' \in [Origins -> SUBSET {"dropped", "clobbered"}]
    BY <1>6 DEF Commit
  <2>3. CASE op[t] = "AccessToken"
    BY <1>1, <1>6, <2>1, <2>2, <2>3 DEF Commit, config, issuer
  <2>4. CASE op[t] # "AccessToken"
    BY <1>1, <1>6, <2>1, <2>2, <2>4, ReturnsAreTyped DEF Commit, config, issuer
  <2>q. QED
    BY <2>3, <2>4
<1>7. ASSUME NEW m \in Managers, Crash(m)
      PROVE  TypeOK'
  <2>1. lost' \in [Origins -> SUBSET {"dropped", "clobbered"}]
    BY <1>7 DEF Crash
  <2>2. /\ pc' \in [Threads -> {"idle", "posting", "answered", "saving", "prepared",
                                "saved"}]
        /\ op' \in [Threads -> {"none", "AccessToken", "Refresh", "SetUserID", "Logout"}]
    BY <1>7 DEF Crash
  <2>3. /\ base' \in [Threads -> Credentials \cup {NoCreds}]
        /\ creds' \in [Threads -> Credentials \cup {NoCreds}]
        /\ seen' \in [Threads -> [Origins -> Credentials \cup {NoCreds}]]
    BY <1>7 DEF Crash
  <2>4. \A t \in Threads : pc'[t] = "posting" => creds'[t].refresh # 0
    BY <1>7 DEF Crash
  <2>q. QED
    BY <1>1, <1>7, <2>1, <2>2, <2>3, <2>4 DEF Crash, config, issuer
<1>8. CASE UNCHANGED <<config, file, issuer, local, lost>>
  BY <1>1, <1>8 DEF config, issuer, local
<1>q. QED
  BY <1>2, <1>3, <1>4, <1>5, <1>6, <1>7, <1>8, ThreadSteps

\* A method keeps what it loaded next to what it is about to save.
LEMMA MethodsAreKept ==
  ASSUME Holdings, [Next]_vars, NEW u \in Threads
  PROVE  Midway(u)'
<1> USE DEF TypeOK, Holdings, Midway
<1>1. ASSUME NEW t \in Threads, Begins(t)
      PROVE  Midway(u)'
  <2>1. PICK method \in {"AccessToken", "Refresh", "SetUserID", "Logout"},
             to \in {"posting", "saving"}, new \in {NoCreds, Stored(t)} :
          /\ Begin(t, method, to, new)
          /\ to = "posting" <=> method \in {"AccessToken", "Refresh"}
          /\ method = "Logout" => new = NoCreds
          /\ method # "Logout" => new = Stored(t) /\ Stored(t) # NoCreds
    BY <1>1 DEF Begins
  <2>2. method # "Logout" => new \in Credentials /\ new.access <= new.access
    <3>1. method # "Logout" => new \in Credentials
      BY <2>1, OriginsAreTyped
    <3>2. method # "Logout" => new.access \in Nat
      BY <3>1, CredentialsAreSome
    <3>q. QED
      BY <3>1, <3>2
  <2>3. CASE u = t
    <3>1. pc'[u] = to /\ op'[u] = method /\ base'[u] = Stored(t) /\ creds'[u] = new
      BY <2>1, <2>3 DEF Begin
    <3>q. QED
      BY <2>1, <2>2, <3>1
  <2>4. CASE u # t
    BY <2>1, <2>4 DEF Begin, config
  <2>q. QED
    BY <2>3, <2>4
<1>2. ASSUME NEW t \in Threads, Issue(t)
      PROVE  Midway(u)'
  <2> DEFINE n == issued[OriginOf(t)] + 1
  <2>a. /\ op[t] \in {"AccessToken", "Refresh"}
        /\ base[t] \in Credentials /\ creds[t] = base[t]
        /\ \E r \in {n, base[t].refresh} :
             creds' = [creds EXCEPT ![t] = [access |-> n, refresh |-> r]]
    BY <1>2, AnswersAreNewer
  <2>b. n \in Tokens /\ base[t].access <= n /\ base[t].refresh \in {0} \cup Tokens
    <3>1. issued[OriginOf(t)] \in Nat /\ base[t].access \in Nat
      BY <2>a, CredentialsAreSome, OriginsAreTyped
    <3>0. base[t].refresh \in {0} \cup Tokens /\ n \in Tokens /\ n > issued[OriginOf(t)]
      BY <1>2, <2>a, AnswersAreNewer, CredentialsAreSome
    <3>2. base[t].access <= issued[OriginOf(t)]
      BY <2>a, CredentialsAreSome DEF TokensAreIssued, Within
    <3>q. QED
      BY <3>0, <3>1, <3>2
  <2> HIDE DEF n
  <2>c. creds'[t] \in Credentials /\ creds'[t].access = n
    <3>1. PICK r \in {n, base[t].refresh} :
            creds' = [creds EXCEPT ![t] = [access |-> n, refresh |-> r]]
      BY <2>a
    <3>2. [access |-> n, refresh |-> r] \in Credentials
      BY <2>b DEF Credentials
    <3>q. QED
      BY <3>1, <3>2
  <2>d. u # t => creds'[u] = creds[u]
    BY <2>a
  <2>q. QED
    BY <1>2, <2>a, <2>b, <2>c, <2>d DEF Issue, config
<1>3. ASSUME NEW t \in Threads, Leaves(t)
      PROVE  Midway(u)'
  BY <1>3, ReturnForgets DEF Leaves, config
<1>4. ASSUME NEW t \in Threads, Prepare(t)
      PROVE  Midway(u)'
  BY <1>4 DEF Prepare, Saving, config
<1>5. ASSUME NEW t \in Threads, Commit(t)
      PROVE  Midway(u)'
  <2>1. CASE op[t] = "AccessToken"
    BY <1>5, <2>1 DEF Commit, config
  <2>2. CASE op[t] # "AccessToken"
    BY <1>5, <2>2, OthersGoOn DEF Commit, config
  <2>q. QED
    BY <2>1, <2>2
<1>6. ASSUME NEW m \in Managers, Crash(m)
      PROVE  Midway(u)'
  BY <1>6 DEF Crash, config
<1>7. CASE UNCHANGED <<config, file, issuer, local, lost>>
  BY <1>7 DEF config, local
<1>q. QED
  BY <1>1, <1>2, <1>3, <1>4, <1>5, <1>6, <1>7, ThreadSteps

\* What was issued stays issued as the issuer answers on.
LEMMA WithinGrows ==
  ASSUME NEW c \in Credentials \cup {NoCreds}, NEW o \in Origins, TypeOK,
         issued'[o] \in Tokens, issued'[o] >= issued[o], Within(c, o)
  PROVE  c # NoCreds => c.access <= issued'[o] /\ c.refresh <= issued'[o]
<1>1. c # NoCreds => c.access \in Nat /\ c.refresh \in Nat
  <2>1. {0} \cup Tokens \subseteq Nat
    BY CredentialsAreSome
  <2>q. QED
    BY <2>1, CredentialsAreSome
<1>2. issued[o] \in Nat /\ issued'[o] \in Nat
  BY CredentialsAreSome DEF TypeOK
<1>q. QED
  BY <1>1, <1>2 DEF Within

\* No step makes up a token: what is saved and read was answered once.
LEMMA TokensStayIssued ==
  ASSUME Holdings, [Next]_vars
  PROVE  TokensAreIssued'
<1> USE DEF TypeOK, Holdings
<1>a. TypeOK'
  BY TypesAreKept
<1>1. ASSUME NEW t \in Threads, Begins(t)
      PROVE  TokensAreIssued'
  <2>1. PICK method \in {"AccessToken", "Refresh", "SetUserID", "Logout"},
             to \in {"posting", "saving"}, new \in {NoCreds, Stored(t)} :
          Begin(t, method, to, new)
    BY <1>1 DEF Begins
  <2>2. OriginOf(t) \in Origins /\ Stored(t) = file[OriginOf(t)]
    BY OriginsAreTyped
  <2>3. Within(base'[t], OriginOf(t)) /\ Within(creds'[t], OriginOf(t))
    BY <2>1, <2>2 DEF Begin, TokensAreIssued, Within
  <2>q. QED
    BY <2>1, <2>3 DEF Begin, TokensAreIssued, Within, OriginOf, config, issuer
<1>2. ASSUME NEW t \in Threads, Issue(t)
      PROVE  TokensAreIssued'
  <2> DEFINE n == issued[OriginOf(t)] + 1
  <2>a. /\ n \in Tokens /\ n > issued[OriginOf(t)]
        /\ issued' = [issued EXCEPT ![OriginOf(t)] = n]
        /\ base[t] \in Credentials
        /\ live' = live \/ live' = [live EXCEPT ![OriginOf(t)] = n]
        /\ \E r \in {n, base[t].refresh} :
             creds' = [creds EXCEPT ![t] = [access |-> n, refresh |-> r]]
    BY <1>2, AnswersAreNewer
  <2>b. OriginOf(t) \in Origins /\ issued[OriginOf(t)] \in Nat /\ n \in Nat
    BY <2>a, OriginsAreTyped, CredentialsAreSome
  <2>c. base[t].refresh \in Nat /\ base[t].refresh <= issued[OriginOf(t)]
    <3>1. base[t].refresh \in {0} \cup Tokens /\ {0} \cup Tokens \subseteq Nat
      BY <2>a, CredentialsAreSome
    <3>2. base[t] # NoCreds
      BY <2>a, CredentialsAreSome
    <3>q. QED
      BY <3>1, <3>2 DEF TokensAreIssued, Within
  <2>d. \A o \in Origins : issued'[o] \in Tokens /\ issued'[o] >= issued[o]
    <3> SUFFICES ASSUME NEW o \in Origins
                 PROVE  issued'[o] \in Tokens /\ issued'[o] >= issued[o]
      OBVIOUS
    <3>1. issued[o] \in Nat /\ issued[o] \in Tokens
      BY CredentialsAreSome
    <3>q. QED
      BY <2>a, <2>b, <3>1
  <2>e. UNCHANGED <<file, seen, base, config>>
    BY <1>2 DEF Issue
  <2>f. \A u \in Threads : OriginOf(u)' = OriginOf(u) /\ OriginOf(u) \in Origins
    BY <2>e, OriginsAreTyped DEF OriginOf, config
  <2>g. \A o \in Origins : live'[o] <= issued'[o]
    <3> SUFFICES ASSUME NEW o \in Origins
                 PROVE  live'[o] <= issued'[o]
      OBVIOUS
    <3>1. /\ issued[o] \in Nat /\ live[o] \in Nat /\ live[o] <= issued[o]
          /\ issued'[o] \in Nat
      BY <2>d, CredentialsAreSome DEF TokensAreIssued
    <3>q. QED
      BY <2>a, <2>b, <2>d, <3>1
  <2>h. \A o \in Origins : Within(file[o], o)' /\ \A u \in Threads : Within(seen[u][o], o)'
    BY <2>d, <2>e, WithinGrows DEF Within, TokensAreIssued
  <2>i. \A u \in Threads : Within(base[u], OriginOf(u))'
    BY <2>d, <2>e, <2>f, WithinGrows DEF Within, TokensAreIssued
  <2>j. \A u \in Threads : Within(creds[u], OriginOf(u))'
    <3> SUFFICES ASSUME NEW u \in Threads
                 PROVE  Within(creds[u], OriginOf(u))'
      OBVIOUS
    <3>1. CASE u # t
      <4>1. creds'[u] = creds[u] /\ creds[u] \in Credentials \cup {NoCreds}
        BY <2>a, <3>1
      <4>2. Within(creds[u], OriginOf(u))
        BY DEF TokensAreIssued
      <4>q. QED
        BY <2>d, <2>f, <4>1, <4>2, WithinGrows DEF Within
    <3>2. CASE u = t
      <4>1. PICK r \in {n, base[t].refresh} :
              creds' = [creds EXCEPT ![t] = [access |-> n, refresh |-> r]]
        BY <2>a
      <4>2. creds'[t].access = n /\ creds'[t].refresh = r
        BY <4>1
      <4>3. issued'[OriginOf(t)] = n /\ n <= n /\ r <= n
        BY <2>a, <2>b, <2>c
      <4>q. QED
        BY <2>f, <3>2, <4>2, <4>3 DEF Within
    <3>q. QED
      BY <3>1, <3>2
  <2>q. QED
    BY <2>g, <2>h, <2>i, <2>j DEF TokensAreIssued
<1>3. ASSUME NEW t \in Threads, Leaves(t)
      PROVE  TokensAreIssued'
  BY <1>3, OthersGoOn DEF Leaves, TokensAreIssued, Within, OriginOf, config, issuer
<1>4. ASSUME NEW t \in Threads, Prepare(t)
      PROVE  TokensAreIssued'
  BY <1>4 DEF Prepare, TokensAreIssued, Within, OriginOf, config, issuer
<1>5. ASSUME NEW t \in Threads, Commit(t)
      PROVE  TokensAreIssued'
  <2>1. \A o \in Origins : Within(file'[o], o)
    BY <1>5, SavesWrite DEF TokensAreIssued, Within
  <2>2. UNCHANGED <<config, issuer>>
    BY <1>5 DEF Commit
  <2>3. CASE op[t] = "AccessToken"
    BY <1>5, <2>1, <2>2, <2>3
    DEF Commit, TokensAreIssued, Within, OriginOf, config, issuer
  <2>4. CASE op[t] # "AccessToken"
    BY <1>5, <2>1, <2>2, <2>4, OthersGoOn
    DEF Commit, TokensAreIssued, Within, OriginOf, config, issuer
  <2>q. QED
    BY <2>3, <2>4
<1>6. ASSUME NEW m \in Managers, Crash(m)
      PROVE  TokensAreIssued'
  BY <1>6 DEF Crash, TokensAreIssued, Within, OriginOf, config, issuer
<1>7. CASE UNCHANGED <<config, file, issuer, local, lost>>
  BY <1>7 DEF TokensAreIssued, Within, OriginOf, config, issuer, local
<1>q. QED
  BY <1>1, <1>2, <1>3, <1>4, <1>5, <1>6, <1>7, ThreadSteps

\* The stored logins are the issuers' first answers.
LEMMA HoldingsFromTheStart == Init => Holdings
<1> SUFFICES ASSUME Init PROVE Holdings
  OBVIOUS
<1>1. /\ {0, 1} \subseteq {0} \cup Tokens
      /\ [access : {1}, refresh : {0, 1}] \subseteq Credentials
  BY CredentialsAreSome DEF Credentials
<1>2. TypeOK
  <2>1. file \in [Origins -> Credentials \cup {NoCreds}]
    BY <1>1 DEF Init
  <2>2. live \in [Origins -> Tokens] /\ issued \in [Origins -> Tokens]
    BY CredentialsAreSome DEF Init
  <2>3. seen \in [Threads -> [Origins -> Credentials \cup {NoCreds}]]
    BY DEF Init
  <2>4. lost \in [Origins -> SUBSET {"dropped", "clobbered"}]
    BY DEF Init
  <2>q. QED
    BY <2>1, <2>2, <2>3, <2>4 DEF Init, TypeOK
<1>3. TokensAreIssued
  <2>1. \A o \in Origins : file[o] # NoCreds => file[o].access = 1 /\ file[o].refresh \in {0, 1}
    BY DEF Init
  <2>2. \A o \in Origins : live[o] = 1 /\ issued[o] = 1
    BY DEF Init
  <2>3. \A o \in Origins : live[o] <= issued[o] /\ Within(file[o], o)
    BY <2>1, <2>2 DEF Within
  <2>q. QED
    BY <2>3 DEF Init, TokensAreIssued, Within
<1>q. QED
  BY <1>2, <1>3 DEF Init, Holdings, Midway

\* Types, methods and issued tokens hold of every state together.
LEMMA HoldingsAlways == Spec => []Holdings
<1>1. Holdings /\ [Next]_vars => Holdings'
  BY TypesAreKept, MethodsAreKept, TokensStayIssued DEF Holdings
<1>q. QED
  BY <1>1, HoldingsFromTheStart, PTL DEF Spec

\* The type invariant holds.
THEOREM ManagerTypeCorrect == Spec => []TypeOK
<1>1. Holdings => TypeOK
  BY DEF Holdings
<1>q. QED
  BY <1>1, HoldingsAlways, PTL

-----------------------------------------------------------------------------
(* One thread in a manager at a time.                                      *)

\* A method starts only when no other of its manager runs.
LEMMA MutexIsKept ==
  ASSUME TypeOK, MutexIsOneThreads, [Next]_vars
  PROVE  MutexIsOneThreads'
<1> USE DEF MutexIsOneThreads
<1>1. ASSUME NEW t \in Threads, Begins(t)
      PROVE  MutexIsOneThreads'
  <2>1. MutexIsFree(t) /\ \E to \in {"posting", "saving"} : pc' = [pc EXCEPT ![t] = to]
    BY <1>1 DEF Begins, Begin
  <2>q. QED
    BY <2>1 DEF MutexIsFree, TypeOK
<1>2. ASSUME NEW t \in Threads, Issue(t) \/ Prepare(t)
      PROVE  MutexIsOneThreads'
  <2>1. pc[t] # "idle" /\ \E to \in {"answered", "prepared"} : pc' = [pc EXCEPT ![t] = to]
    BY <1>2 DEF Issue, Prepare, Saving
  <2>q. QED
    BY <2>1 DEF TypeOK
<1>3. ASSUME NEW t \in Threads, Leaves(t)
      PROVE  MutexIsOneThreads'
  BY <1>3, OthersGoOn DEF Leaves
<1>4. ASSUME NEW t \in Threads, Commit(t)
      PROVE  MutexIsOneThreads'
  <2>1. pc[t] # "idle" /\ \E to \in {"idle", "saved"} : pc' = [pc EXCEPT ![t] = to]
    BY <1>4 DEF Commit, Saving, Return
  <2>q. QED
    BY <2>1 DEF TypeOK
<1>5. ASSUME NEW m \in Managers, Crash(m)
      PROVE  MutexIsOneThreads'
  BY <1>5 DEF Crash, TypeOK
<1>6. CASE UNCHANGED <<config, file, issuer, local, lost>>
  BY <1>6 DEF local
<1>q. QED
  BY <1>1, <1>2, <1>3, <1>4, <1>5, <1>6, ThreadSteps

-----------------------------------------------------------------------------
(* A rotated token is its thread's alone.                                  *)

\* No step moves a manager to another origin.
LEMMA OriginsStay ==
  ASSUME TypeOK, [Next]_vars
  PROVE  UNCHANGED config /\ \A t \in Threads : OriginOf(t)' = OriginOf(t)
<1>1. UNCHANGED config
  BY DEF Next, HandOutStored, StartRefresh, SetUserID, Logout, Begin, Issue,
    IssueFails, AnswerIsCut, Prepare, Commit, SaveFails, Reload, Crash, vars
<1>q. QED
  BY <1>1 DEF OriginOf, config

\* Nobody learns a token but from the store, from what they hold or from the
\* issuer: without an answer, a secret stays one.
Learns(t, o) ==
  /\ live'[o] = live[o]
  /\ \A u \in Threads :
       /\ OriginOf(u) = o /\ u # t => creds'[u] \in {creds[u], file[o], NoCreds}
       /\ seen'[u][o] \in {seen[u][o], file[o], NoCreds}
  /\ \/ file'[o] \in {file[o], NoCreds}
     \/ \E u \in Threads :
          \/ file'[o] = seen[u][o]
          \/ OriginOf(u) = o /\ u # t /\ file'[o] = creds[u]

\* A rotated token stays known to its thread alone while nobody learns it.
LEMMA SecretsAreKept ==
  ASSUME TypeOK, [Next]_vars, NEW t \in Threads, NEW o \in Origins,
         KnownToOnly(t, o), Learns(t, o)
  PROVE  KnownToOnly(t, o)'
<1>1. ~Knows(file[o], o)'
  BY DEF KnownToOnly, Learns, Knows
<1>2. \A u \in Threads : ~Knows(seen[u][o], o)'
  BY DEF KnownToOnly, Learns, Knows
<1>3. \A u \in Threads : (OriginOf(u) = o)' /\ u # t => ~Knows(creds[u], o)'
  BY OriginsStay DEF KnownToOnly, Learns, Knows
<1>q. QED
  BY <1>1, <1>2, <1>3 DEF KnownToOnly

\* No step tells a rotated token to anybody but the store it is saved in, and
\* then it is no longer about to be saved.
LEMMA SecretsStay ==
  ASSUME Holdings, RotatedIsSecret, [Next]_vars
  PROVE  RotatedIsSecret'
<1> SUFFICES ASSUME NEW t \in Threads, NEW o \in Origins, o = OriginOf(t),
                    Rotated(t)'
             PROVE  creds'[t].refresh = live'[o] /\ KnownToOnly(t, o)'
  BY OriginsStay, OriginsAreTyped DEF RotatedIsSecret, Holdings
<1>t. TypeOK
  BY DEF Holdings
<1>s. Rotated(t) => creds[t].refresh = live[o] /\ KnownToOnly(t, o)
  BY DEF RotatedIsSecret
<1>k. ASSUME Rotated(t), creds'[t] = creds[t], Learns(t, o)
      PROVE  creds'[t].refresh = live'[o] /\ KnownToOnly(t, o)'
  BY <1>t, <1>s, <1>k, SecretsAreKept DEF Learns
<1>1. ASSUME NEW w \in Threads, Begins(w)
      PROVE  creds'[t].refresh = live'[o] /\ KnownToOnly(t, o)'
  <2>1. PICK method \in {"AccessToken", "Refresh", "SetUserID", "Logout"},
             to \in {"posting", "saving"}, new \in {NoCreds, Stored(w)} :
          Begin(w, method, to, new)
    BY <1>1 DEF Begins
  <2>2. w # t /\ Rotated(t) /\ creds'[t] = creds[t]
    BY <1>t, <2>1 DEF Begin, Rotated, TypeOK
  <2>3. Learns(t, o)
    BY <1>t, <2>1 DEF Begin, Learns, Stored, TypeOK, issuer
  <2>q. QED
    BY <1>k, <2>2, <2>3
<1>2. ASSUME NEW w \in Threads, Issue(w)
      PROVE  creds'[t].refresh = live'[o] /\ KnownToOnly(t, o)'
  <2> DEFINE n == issued[OriginOf(w)] + 1
  <2>a. /\ n > issued[OriginOf(w)] /\ creds[w].refresh = live[OriginOf(w)]
        /\ op[w] \in {"AccessToken", "Refresh"}
        /\ base[w] \in Credentials /\ creds[w] = base[w]
        /\ \/ /\ live' = [live EXCEPT ![OriginOf(w)] = n]
              /\ creds' = [creds EXCEPT ![w] = [access |-> n, refresh |-> n]]
           \/ /\ live' = live
              /\ creds' = [creds EXCEPT ![w] =
                   [access |-> n, refresh |-> base[w].refresh]]
    BY <1>2, AnswersAreNewer
  <2>b. /\ issued[OriginOf(w)] \in Nat /\ OriginOf(w) \in Origins
        /\ UNCHANGED <<file, seen, base, op>>
        /\ \A u \in Threads \ {w} : pc'[u] = pc[u]
    BY <1>2, <1>t, OriginsAreTyped, CredentialsAreSome DEF Issue, TypeOK
  <2> HIDE DEF n
  <2>c. \A u \in Threads \ {w} : creds'[u] = creds[u]
    BY <1>t, <2>a DEF TypeOK
  <2>1. CASE w = t
    <3>1. creds'[t].refresh # base[t].refresh
      BY <2>b, <2>1 DEF Rotated
    <3>2. live' = [live EXCEPT ![o] = n] /\ creds'[t].refresh = n /\ live'[o] = n
      BY <1>t, <2>a, <2>1, <3>1 DEF TypeOK
    <3>3. \A c \in Credentials \cup {NoCreds} : Within(c, o) /\ c # NoCreds => c.refresh # n
      <4> SUFFICES ASSUME NEW c \in Credentials, Within(c, o), c # NoCreds
                   PROVE  c.refresh # n
        BY CredentialsAreSome
      <4>1. c.refresh \in {0} \cup Tokens /\ {0} \cup Tokens \subseteq Nat
        BY CredentialsAreSome
      <4>2. c.refresh <= issued[o] /\ issued[o] \in Nat /\ n > issued[o]
        BY <2>a, <2>b, <2>1 DEF Within
      <4>q. QED
        BY <4>1, <4>2 DEF n
    <3>4. ~Knows(file[o], o)'
      BY <1>t, <2>b, <3>2, <3>3 DEF Knows, Holdings, TokensAreIssued, TypeOK
    <3>5. \A u \in Threads : ~Knows(seen[u][o], o)'
      BY <1>t, <2>b, <3>2, <3>3 DEF Knows, Holdings, TokensAreIssued, TypeOK
    <3>6. \A u \in Threads : OriginOf(u) = o /\ u # t => ~Knows(creds[u], o)'
      <4> SUFFICES ASSUME NEW u \in Threads, OriginOf(u) = o, u # t
                   PROVE  ~Knows(creds[u], o)'
        OBVIOUS
      <4>1. creds'[u] = creds[u] /\ Within(creds[u], o)
        BY <2>c, <2>1 DEF Holdings, TokensAreIssued
      <4>q. QED
        BY <1>t, <3>2, <3>3, <4>1 DEF Knows, TypeOK
    <3>q. QED
      BY <1>t, <3>2, <3>4, <3>5, <3>6, OriginsStay DEF KnownToOnly
  <2>2. CASE w # t
    <3>1. Rotated(t) /\ creds'[t] = creds[t]
      BY <2>b, <2>c, <2>2 DEF Rotated
    <3>2. OriginOf(w) # o
      BY <1>s, <2>2, <2>a, <3>1, CredentialsAreSome DEF KnownToOnly, Knows
    <3>3. Learns(t, o)
      BY <1>t, <2>a, <2>b, <3>2 DEF Learns, TypeOK
    <3>q. QED
      BY <1>k, <3>1, <3>3
  <2>q. QED
    BY <2>1, <2>2
<1>3. ASSUME NEW w \in Threads, Leaves(w)
      PROVE  creds'[t].refresh = live'[o] /\ KnownToOnly(t, o)'
  <2>1. w # t /\ Rotated(t) /\ creds'[t] = creds[t]
    BY <1>t, <1>3, OthersGoOn DEF Leaves, Rotated
  <2>2. Learns(t, o)
    BY <1>t, <1>3, OthersGoOn DEF Leaves, Learns, issuer
  <2>q. QED
    BY <1>k, <2>1, <2>2
<1>4. ASSUME NEW w \in Threads, Prepare(w)
      PROVE  creds'[t].refresh = live'[o] /\ KnownToOnly(t, o)'
  <2>1. op[w] \in {"AccessToken", "Refresh"} => pc[w] = "answered"
    BY <1>4 DEF Holdings, Midway, Prepare, Saving
  <2>2. Rotated(t) /\ creds'[t] = creds[t]
    BY <1>t, <1>4, <2>1 DEF Prepare, Rotated, TypeOK
  <2>3. Learns(t, o)
    BY <1>t, <1>4 DEF Prepare, Learns, issuer, TypeOK
  <2>q. QED
    BY <1>k, <2>2, <2>3
<1>5. ASSUME NEW w \in Threads, Commit(w)
      PROVE  creds'[t].refresh = live'[o] /\ KnownToOnly(t, o)'
  <2>1. \E to \in {"idle", "saved"} : pc' = [pc EXCEPT ![w] = to]
    BY <1>5 DEF Commit, Return
  <2>2. w # t /\ \A u \in Threads \ {w} :
          /\ pc'[u] = pc[u] /\ op'[u] = op[u] /\ base'[u] = base[u]
          /\ creds'[u] = creds[u] /\ seen'[u] = seen[u]
    <3>1. w # t
      BY <1>t, <2>1 DEF Rotated, TypeOK
    <3>2. CASE op[w] = "AccessToken"
      BY <1>t, <1>5, <2>1, <3>1, <3>2 DEF Commit, TypeOK
    <3>3. CASE op[w] # "AccessToken"
      BY <1>t, <1>5, <3>1, <3>3, OthersGoOn DEF Commit
    <3>q. QED
      BY <3>1, <3>2, <3>3
  <2>3. /\ creds'[w] \in {creds[w], NoCreds}
        /\ seen'[w][o] \in {seen[w][o], NoCreds}
    <3>1. CASE op[w] = "AccessToken"
      BY <1>5, <3>1 DEF Commit
    <3>2. CASE op[w] # "AccessToken"
      BY <1>t, <1>5, <3>2, OthersGoOn DEF Commit
    <3>q. QED
      BY <3>1, <3>2
  <2>4. \/ file'[o] \in {file[o], seen[w][o]}
        \/ OriginOf(w) = o /\ file'[o] = creds[w]
    BY <1>t, <1>5, SavesWrite
  <2>5. Learns(t, o)
    <3>1. live' = live
      BY <1>5 DEF Commit, issuer
    <3>q. QED
      BY <2>2, <2>3, <2>4, <3>1 DEF Learns
  <2>6. Rotated(t) /\ creds'[t] = creds[t]
    BY <2>2 DEF Rotated
  <2>q. QED
    BY <1>k, <2>5, <2>6
<1>6. ASSUME NEW m \in Managers, Crash(m)
      PROVE  creds'[t].refresh = live'[o] /\ KnownToOnly(t, o)'
  <2>1. Rotated(t) /\ creds'[t] = creds[t]
    BY <1>6 DEF Crash, Rotated
  <2>2. Learns(t, o)
    BY <1>6 DEF Crash, Learns, issuer
  <2>q. QED
    BY <1>k, <2>1, <2>2
<1>7. CASE UNCHANGED <<config, file, issuer, local, lost>>
  <2>1. Rotated(t) /\ creds'[t] = creds[t] /\ Learns(t, o)
    BY <1>7 DEF Rotated, Learns, issuer, local
  <2>q. QED
    BY <1>k, <2>1
<1>q. QED
  BY <1>t, <1>1, <1>2, <1>3, <1>4, <1>5, <1>6, <1>7, ThreadSteps

-----------------------------------------------------------------------------
(* What becomes of a login.                                                *)

\* A save that takes nothing back leaves an origin as it was, or saves what its
\* thread made of what is there.
LEMMA SavesThatFit ==
  ASSUME TypeOK, NEW t \in Threads, Commit(t), NEW o \in Origins
  PROVE  \/ "clobbered" \in lost'[o]
         \/ lost'[o] = lost[o] /\ file'[o] = file[o]
         \/ /\ lost'[o] = lost[o] /\ o = OriginOf(t) /\ file'[o] = creds[t]
            /\ op[t] = "Logout" \/ file[o] = base[t]
<1>1. lost'[o] = IF o \in Clobbered(t) THEN lost[o] \cup {"clobbered"} ELSE lost[o]
  BY DEF Commit
<1>2. CASE o \in Clobbered(t)
  BY <1>1, <1>2
<1>3. CASE o \notin Clobbered(t)
  BY <1>1, <1>3, SavesWrite DEF Clobbered
<1>q. QED
  BY <1>2, <1>3

\* A thread that is not in a refresh that rotated saves the refresh token it
\* loaded, or none.
LEMMA SavedTokens ==
  ASSUME Holdings, NEW t \in Threads, Commit(t)
  PROVE  /\ op[t] = "Logout" /\ creds[t] = NoCreds
         \/ /\ creds[t] # NoCreds /\ base[t] # NoCreds
            /\ creds[t].refresh = base[t].refresh \/ Rotated(t)
            /\ base[t].access <= creds[t].access
<1>1. op[t] \in {"AccessToken", "Refresh", "SetUserID", "Logout"}
  BY DEF Commit, Saving, Holdings, Midway, TypeOK
<1>2. op[t] \in {"AccessToken", "Refresh"} =>
        creds[t].refresh = base[t].refresh \/ Rotated(t)
  BY DEF Commit, Saving, Holdings, Midway, Rotated
<1>q. QED
  BY <1>1, <1>2, CredentialsAreSome DEF Holdings, Midway

LoginOf(o) ==
  \/ file[o] = NoCreds \/ file[o].refresh \in {0, live[o]}
  \/ lost[o] # {}
  \/ \E t \in Threads : OriginOf(t) = o /\ Rotated(t)

\* No step costs an origin its login but the four accidents.
LEMMA LoginStays ==
  ASSUME Holdings, RotatedIsSecret, [Next]_vars, NEW o \in Origins, LoginOf(o)
  PROVE  LoginOf(o)'
<1>t. TypeOK
  BY DEF Holdings
<1>k. ASSUME file'[o] = file[o], live'[o] = live[o],
             lost[o] # {} => lost'[o] # {},
             \A u \in Threads : OriginOf(u) = o /\ Rotated(u) => Rotated(u)' \/ lost'[o] # {}
      PROVE  LoginOf(o)'
  BY <1>t, <1>k, OriginsStay DEF LoginOf
<1>1. ASSUME NEW w \in Threads, Begins(w)
      PROVE  LoginOf(o)'
  <2>1. PICK method, to, new : Begin(w, method, to, new)
    BY <1>1 DEF Begins
  <2>2. \A u \in Threads : Rotated(u) => Rotated(u)'
    BY <1>t, <2>1 DEF Begin, Rotated, TypeOK
  <2>q. QED
    BY <1>k, <2>1, <2>2 DEF Begin, issuer
<1>2. ASSUME NEW w \in Threads, Issue(w)
      PROVE  LoginOf(o)'
  <2> DEFINE n == issued[OriginOf(w)] + 1
  <2>a. /\ n > issued[OriginOf(w)]
        /\ op[w] \in {"AccessToken", "Refresh"}
        /\ base[w] \in Credentials
        /\ \/ /\ live' = [live EXCEPT ![OriginOf(w)] = n]
              /\ creds' = [creds EXCEPT ![w] = [access |-> n, refresh |-> n]]
           \/ /\ live' = live
              /\ creds' = [creds EXCEPT ![w] =
                   [access |-> n, refresh |-> base[w].refresh]]
    BY <1>2, AnswersAreNewer
  <2>b. base[w].refresh # n
    <3>1. base[w].refresh \in {0} \cup Tokens /\ {0} \cup Tokens \subseteq Nat
          /\ base[w] # NoCreds
      BY <2>a, CredentialsAreSome
    <3>2. base[w].refresh <= issued[OriginOf(w)] /\ issued[OriginOf(w)] \in Nat
      BY <1>t, <3>1, OriginsAreTyped, CredentialsAreSome
      DEF Holdings, TokensAreIssued, Within, TypeOK
    <3>q. QED
      BY <2>a, <3>1, <3>2
  <2>c. /\ pc[w] = "posting" /\ pc' = [pc EXCEPT ![w] = "answered"]
        /\ UNCHANGED <<file, lost, op, base>>
    BY <1>2 DEF Issue
  <2> HIDE DEF n
  <2>d. \A u \in Threads \ {w} : creds'[u] = creds[u]
    BY <1>t, <2>a DEF TypeOK
  <2>e. \A u \in Threads : Rotated(u) => Rotated(u)'
    BY <1>t, <2>c, <2>d DEF Rotated, TypeOK
  <2>1. CASE live'[o] = live[o]
    BY <1>k, <2>1, <2>c, <2>e
  <2>2. CASE live'[o] # live[o]
    <3>1. OriginOf(w) = o /\ creds'[w].refresh = n
      BY <1>t, <2>a, <2>2 DEF TypeOK
    <3>2. Rotated(w)'
      BY <1>t, <2>a, <2>b, <2>c, <3>1 DEF Rotated, TypeOK
    <3>q. QED
      BY <1>t, <3>1, <3>2, OriginsStay DEF LoginOf
  <2>q. QED
    BY <2>1, <2>2
<1>3. ASSUME NEW w \in Threads, Leaves(w)
      PROVE  LoginOf(o)'
  <2>1. UNCHANGED <<file, live>> /\ Dropped(w) /\ Return(w)
    BY <1>3 DEF Leaves, issuer
  <2>2. lost'[o] = lost[o] \/ lost'[o] = lost[o] \cup {"dropped"}
    BY <1>t, <2>1 DEF Dropped, TypeOK
  <2>3. OriginOf(w) = o /\ Rotated(w) => lost'[o] # {}
    BY <1>t, <2>1 DEF Dropped, TypeOK
  <2>4. \A u \in Threads \ {w} : Rotated(u) => Rotated(u)'
    BY <1>t, <2>1, OthersGoOn DEF Rotated
  <2>q. QED
    BY <1>k, <2>1, <2>2, <2>3, <2>4
<1>4. ASSUME NEW w \in Threads, Prepare(w)
      PROVE  LoginOf(o)'
  <2>1. UNCHANGED <<file, live, lost, op, base, creds>>
        /\ pc' = [pc EXCEPT ![w] = "prepared"]
    BY <1>4 DEF Prepare, issuer
  <2>2. \A u \in Threads : Rotated(u) => Rotated(u)'
    BY <1>t, <2>1 DEF Rotated, TypeOK
  <2>q. QED
    BY <1>k, <2>1, <2>2
<1>5. ASSUME NEW w \in Threads, Commit(w)
      PROVE  LoginOf(o)'
  <2>1. live' = live
    BY <1>5 DEF Commit, issuer
  <2>2. \A u \in Threads \ {w} : Rotated(u) => Rotated(u)'
    <3>1. CASE op[w] = "AccessToken"
      BY <1>t, <1>5, <3>1 DEF Commit, Rotated, TypeOK
    <3>2. CASE op[w] # "AccessToken"
      BY <1>t, <1>5, <3>2, OthersGoOn DEF Commit, Rotated
    <3>q. QED
      BY <3>1, <3>2
  <2>3. CASE "clobbered" \in lost'[o]
    BY <2>3 DEF LoginOf
  <2>4. CASE lost'[o] = lost[o] /\ file'[o] = file[o]
    <3>1. CASE OriginOf(w) = o /\ Rotated(w)
      <4>1. file'[o] = creds[w] /\ creds[w].refresh = live[o]
        BY <1>t, <1>5, <3>1, SavesWrite DEF RotatedIsSecret
      <4>q. QED
        BY <2>1, <4>1 DEF LoginOf
    <3>2. CASE ~(OriginOf(w) = o /\ Rotated(w))
      BY <1>k, <2>1, <2>2, <2>4, <3>2
    <3>q. QED
      BY <3>1, <3>2
  <2>5. CASE /\ lost'[o] = lost[o] /\ o = OriginOf(w) /\ file'[o] = creds[w]
             /\ op[w] = "Logout" \/ file[o] = base[w]
    <3>1. CASE creds[w] = NoCreds
      BY <2>5, <3>1 DEF LoginOf
    <3>2. CASE Rotated(w)
      <4>1. creds[w].refresh = live[o]
        BY <2>5, <3>2 DEF RotatedIsSecret
      <4>q. QED
        BY <2>1, <2>5, <4>1 DEF LoginOf
    <3>3. CASE creds[w] # NoCreds /\ ~Rotated(w)
      <4>1. /\ file[o] = base[w] /\ file[o] # NoCreds
            /\ creds[w].refresh = base[w].refresh
        BY <1>5, <2>5, <3>3, SavedTokens DEF Holdings, Midway
      <4>2. \/ file'[o].refresh \in {0, live'[o]} \/ lost'[o] # {}
            \/ \E u \in Threads \ {w} : OriginOf(u) = o /\ Rotated(u)
        BY <2>1, <2>5, <3>3, <4>1 DEF LoginOf
      <4>q. QED
        BY <1>t, <2>2, <4>2, OriginsStay DEF LoginOf
    <3>q. QED
      BY <3>1, <3>2, <3>3
  <2>q. QED
    BY <1>t, <1>5, <2>3, <2>4, <2>5, SavesThatFit
<1>6. ASSUME NEW m \in Managers, Crash(m)
      PROVE  LoginOf(o)'
  <2>1. UNCHANGED <<file, live>>
    BY <1>6 DEF Crash, issuer
  <2>2. \A u \in Threads : ManagerOf[u] # m /\ Rotated(u) => Rotated(u)'
    BY <1>6 DEF Crash, Rotated
  <2>3. lost[o] \subseteq lost'[o]
    BY <1>6, <1>t DEF Crash, TypeOK
  <2>4. \A u \in Threads :
          ManagerOf[u] = m /\ OriginOf(u) = o /\ Rotated(u) => "dropped" \in lost'[o]
    <3> SUFFICES ASSUME NEW u \in Threads, ManagerOf[u] = m, OriginOf(u) = o, Rotated(u)
                 PROVE  "dropped" \in lost'[o]
      OBVIOUS
    <3>1. origin[m] = o
      BY DEF OriginOf
    <3>2. lost' = [lost EXCEPT ![o] = @ \cup {"dropped"}]
      BY <1>6, <3>1 DEF Crash
    <3>q. QED
      BY <1>t, <3>2 DEF TypeOK
  <2>q. QED
    BY <1>k, <2>1, <2>2, <2>3, <2>4
<1>7. CASE UNCHANGED <<config, file, issuer, local, lost>>
  BY <1>k, <1>7 DEF Rotated, issuer, local
<1>q. QED
  BY <1>t, <1>1, <1>2, <1>3, <1>4, <1>5, <1>6, <1>7, ThreadSteps

\* A rotated token is its thread's secret in every state.
LEMMA SecretsAlways == Spec => []RotatedIsSecret
<1>1. Init => RotatedIsSecret
  BY DEF Init, RotatedIsSecret, Rotated
<1>2. Holdings /\ RotatedIsSecret /\ [Next]_vars => RotatedIsSecret'
  BY SecretsStay
<1>q. QED
  BY <1>1, <1>2, HoldingsAlways, PTL DEF Spec

\* No origin is without its login, or a reason for that.
LoginsLast == \A o \in Origins : LoginOf(o)

\* A stored login can be refreshed unless an accident or a clobber befell it.
LEMMA LoginsAlways == Spec => []LoginsLast
<1>1. Init => LoginsLast
  BY DEF Init, LoginsLast, LoginOf
<1>2. Holdings /\ RotatedIsSecret /\ LoginsLast /\ [Next]_vars => LoginsLast'
  <2> SUFFICES ASSUME Holdings, RotatedIsSecret, LoginsLast, [Next]_vars
               PROVE  \A o \in Origins : LoginOf(o)'
    BY DEF LoginsLast
  <2>q. QED
    BY LoginStays DEF LoginsLast
<1>q. QED
  BY <1>1, <1>2, HoldingsAlways, SecretsAlways, PTL DEF Spec

-----------------------------------------------------------------------------
(* Whose changes are taken back.                                           *)

\* What a save changes under a thread in a method is another manager's save.
LEMMA ReadingsAreKept ==
  ASSUME Holdings, MutexIsOneThreads, ReadIsCurrent, [Next]_vars
  PROVE  ReadIsCurrent'
<1>t. TypeOK
  BY DEF Holdings
<1>c. UNCHANGED config /\ \A o \in Origins : Shared(o)' <=> Shared(o)
  BY <1>t, OriginsStay DEF Shared, config
<1>o. \A u \in Threads : /\ OriginOf(u)' = OriginOf(u) /\ OriginOf(u) \in Origins
                         /\ Stored(u)' = file'[OriginOf(u)] /\ Stored(u) = file[OriginOf(u)]
  BY <1>t, OriginsStay, OriginsAreTyped DEF Stored
<1> DEFINE Current(u) ==
             /\ pc[u] \in {"posting", "answered", "saving", "prepared"} =>
                  base[u] = Stored(u) \/ Shared(OriginOf(u))
             /\ pc[u] = "prepared" =>
                  \A o \in Origins : seen[u][o] = file[o] \/ Shared(o)
<1> SUFFICES ASSUME NEW u \in Threads
             PROVE  Current(u)'
  BY DEF ReadIsCurrent
<1>u. Current(u)
  BY DEF ReadIsCurrent
\* A thread the step does not touch.
<1>k. ASSUME pc'[u] \in {pc[u], "idle", "saved"},
             pc'[u] = pc[u] => base'[u] = base[u] /\ seen'[u] = seen[u],
             file' = file
      PROVE  Current(u)'
  BY <1>c, <1>o, <1>u, <1>k
<1>1. ASSUME NEW w \in Threads, Begins(w)
      PROVE  Current(u)'
  <2>1. PICK method \in {"AccessToken", "Refresh", "SetUserID", "Logout"},
             to \in {"posting", "saving"}, new \in {NoCreds, Stored(w)} :
          Begin(w, method, to, new)
    BY <1>1 DEF Begins
  <2>2. CASE u = w
    BY <1>t, <1>o, <2>1, <2>2 DEF Begin, TypeOK
  <2>3. CASE u # w
    BY <1>t, <1>k, <2>1, <2>3 DEF Begin, TypeOK
  <2>q. QED
    BY <2>2, <2>3
<1>2. ASSUME NEW w \in Threads, Issue(w)
      PROVE  Current(u)'
  <2>1. /\ pc[w] = "posting" /\ pc' = [pc EXCEPT ![w] = "answered"]
        /\ UNCHANGED <<file, base, seen>>
    BY <1>2 DEF Issue
  <2>2. CASE u = w
    BY <1>t, <1>c, <1>o, <1>u, <2>1, <2>2 DEF TypeOK
  <2>3. CASE u # w
    BY <1>t, <1>k, <2>1, <2>3 DEF TypeOK
  <2>q. QED
    BY <2>2, <2>3
<1>3. ASSUME NEW w \in Threads, Leaves(w)
      PROVE  Current(u)'
  BY <1>t, <1>k, <1>3, OthersGoOn DEF Leaves
<1>4. ASSUME NEW w \in Threads, Prepare(w)
      PROVE  Current(u)'
  <2>1. /\ Saving(w) /\ pc' = [pc EXCEPT ![w] = "prepared"]
        /\ seen' = [seen EXCEPT ![w] = file] /\ UNCHANGED <<file, base>>
    BY <1>4 DEF Prepare
  <2>2. CASE u = w
    BY <1>t, <1>c, <1>o, <1>u, <2>1, <2>2 DEF TypeOK, Saving
  <2>3. CASE u # w
    BY <1>t, <1>k, <2>1, <2>3 DEF TypeOK
  <2>q. QED
    BY <2>2, <2>3
<1>5. ASSUME NEW w \in Threads, Commit(w)
      PROVE  Current(u)'
  <2>1. \E to \in {"idle", "saved"} : pc' = [pc EXCEPT ![w] = to]
    BY <1>5 DEF Commit, Return
  <2>2. CASE u = w
    BY <1>t, <2>1, <2>2 DEF TypeOK
  <2>3. CASE u # w
    <3>1. pc'[u] = pc[u] /\ base'[u] = base[u] /\ seen'[u] = seen[u]
      <4>1. CASE op[w] = "AccessToken"
        BY <1>t, <1>5, <2>1, <2>3, <4>1 DEF Commit, TypeOK
      <4>2. CASE op[w] # "AccessToken"
        BY <1>t, <1>5, <2>3, <4>2, OthersGoOn DEF Commit
      <4>q. QED
        BY <4>1, <4>2
    <3>2. CASE pc[u] \notin {"posting", "answered", "saving", "prepared"}
      BY <3>1, <3>2
    <3>3. CASE pc[u] \in {"posting", "answered", "saving", "prepared"}
      <4>1. ManagerOf[u] # ManagerOf[w] /\ ManagerOf[u] \in Managers /\ ManagerOf[w] \in Managers
        BY <1>5, <2>3, <3>3 DEF MutexIsOneThreads, Commit, Saving
      <4>2. CASE ~keyring
        <5>1. \A o \in Origins : Shared(o)
          BY <4>1, <4>2 DEF Shared
        <5>q. QED
          BY <1>c, <1>o, <5>1
      <4>3. CASE keyring
        <5>1. pc[u] # "prepared"
          BY <4>3 DEF Holdings, Midway
        <5>2. CASE OriginOf(u) = OriginOf(w)
          <6>1. Shared(OriginOf(u))
            BY <4>1, <4>3, <5>2 DEF Shared, OriginOf
          <6>q. QED
            BY <1>c, <1>o, <3>1, <5>1, <6>1
        <5>3. CASE OriginOf(u) # OriginOf(w)
          <6>1. file'[OriginOf(u)] = file[OriginOf(u)]
            BY <1>t, <1>5, <1>o, <4>3, <5>3, SavesWrite
          <6>q. QED
            BY <1>c, <1>o, <1>u, <3>1, <5>1, <6>1
        <5>q. QED
          BY <5>2, <5>3
      <4>q. QED
        BY <4>2, <4>3
    <3>q. QED
      BY <3>2, <3>3
  <2>q. QED
    BY <2>2, <2>3
<1>6. ASSUME NEW m \in Managers, Crash(m)
      PROVE  Current(u)'
  <2>1. /\ file' = file /\ pc'[u] \in {pc[u], "idle"}
        /\ pc'[u] = pc[u] /\ pc[u] # "idle" => base'[u] = base[u] /\ seen'[u] = seen[u]
    BY <1>6 DEF Crash
  <2>q. QED
    BY <1>c, <1>o, <1>u, <2>1
<1>7. CASE UNCHANGED <<config, file, issuer, local, lost>>
  BY <1>k, <1>7 DEF local
<1>q. QED
  BY <1>t, <1>1, <1>2, <1>3, <1>4, <1>5, <1>6, <1>7, ThreadSteps

\* A save takes back only what somebody outside its manager's mutex wrote.
LEMMA ClobberedAreShared ==
  ASSUME Holdings, ReadIsCurrent, NEW t \in Threads, Commit(t),
         NEW o \in Clobbered(t)
  PROVE  o \in Origins /\ Shared(o)
<1>t. TypeOK /\ o \in Origins
  BY DEF Holdings, Clobbered
<1>1. CASE o = OriginOf(t)
  <2>1. pc[t] \in {"answered", "saving", "prepared"}
    BY DEF Commit, Saving
  <2>2. base[t] # Stored(t)
    BY <1>t, <1>1, OriginsAreTyped DEF Clobbered
  <2>q. QED
    BY <1>t, <1>1, <2>1, <2>2 DEF ReadIsCurrent
<1>2. CASE o # OriginOf(t)
  <2>1. Written(t)[o] # file[o] /\ file[o] # seen[t][o]
    BY <1>2 DEF Clobbered
  <2>2. ~keyring
    BY <1>t, <1>2, <2>1, SavesWrite
  <2>3. pc[t] = "prepared"
    BY <2>2 DEF Commit
  <2>q. QED
    BY <1>t, <2>1, <2>3 DEF ReadIsCurrent
<1>q. QED
  BY <1>1, <1>2

\* A manager's mutex is one thread's in every state.
LEMMA MutexAlways == Spec => []MutexIsOneThreads
<1>1. Init => MutexIsOneThreads
  BY DEF Init, MutexIsOneThreads
<1>2. TypeOK /\ MutexIsOneThreads /\ [Next]_vars => MutexIsOneThreads'
  BY MutexIsKept
<1>q. QED
  BY <1>1, <1>2, ManagerTypeCorrect, PTL DEF Spec

\* What a thread has read is current in every state.
LEMMA ReadingsAlways == Spec => []ReadIsCurrent
<1>1. Init => ReadIsCurrent
  BY DEF Init, ReadIsCurrent
<1>2. Holdings /\ MutexIsOneThreads /\ ReadIsCurrent /\ [Next]_vars => ReadIsCurrent'
  BY ReadingsAreKept
<1>q. QED
  BY <1>1, <1>2, HoldingsAlways, MutexAlways, PTL DEF Spec

\* A clobbered origin is clobbered by a save.
LEMMA ClobbersAreSaves ==
  ASSUME TypeOK, [Next]_vars, NEW o \in Origins,
         "clobbered" \in lost'[o], "clobbered" \notin lost[o]
  PROVE  \E t \in Threads : Commit(t) /\ o \in Clobbered(t)
<1>1. ASSUME NEW t \in Threads, Leaves(t)
      PROVE  FALSE
  BY <1>1 DEF Leaves, Dropped, TypeOK
<1>2. ASSUME NEW m \in Managers, Crash(m)
      PROVE  FALSE
  BY <1>2 DEF Crash, TypeOK
<1>3. ASSUME NEW t \in Threads, Begins(t) \/ Issue(t) \/ Prepare(t)
      PROVE  FALSE
  BY <1>3 DEF Begins, Begin, Issue, Prepare
<1>4. ~UNCHANGED <<config, file, issuer, local, lost>>
  OBVIOUS
<1>5. PICK t \in Threads : Commit(t)
  BY <1>1, <1>2, <1>3, <1>4, ThreadSteps
<1>q. QED
  BY <1>5 DEF Commit

\* A save that takes another's back is another manager's.
OnlyOthersClobber == \A o \in Origins : "clobbered" \in lost[o] => Shared(o)

\* The threads of one manager take nothing back from each other: its mutex,
\* held from the load to the save, covers both.
THEOREM ManagersOwnSavesFit == Spec => []OnlyOthersClobber
<1>2. Init => OnlyOthersClobber
  BY DEF Init, OnlyOthersClobber
<1>3. Holdings /\ ReadIsCurrent /\ OnlyOthersClobber /\ [Next]_vars => OnlyOthersClobber'
  <2> SUFFICES ASSUME Holdings, ReadIsCurrent, OnlyOthersClobber, [Next]_vars,
                      NEW o \in Origins, "clobbered" \in lost'[o]
               PROVE  Shared(o)'
    BY DEF OnlyOthersClobber, Shared
  <2>t. TypeOK
    BY DEF Holdings
  <2>1. Shared(o)
    <3>1. CASE "clobbered" \in lost[o]
      BY <3>1 DEF OnlyOthersClobber
    <3>2. CASE "clobbered" \notin lost[o]
      BY <2>t, <3>2, ClobbersAreSaves, ClobberedAreShared
    <3>q. QED
      BY <3>1, <3>2
  <2>q. QED
    BY <2>t, <2>1, OriginsStay DEF Shared, config
<1>q. QED
  BY <1>2, <1>3, HoldingsAlways, ReadingsAlways, PTL DEF Spec

\* A stored login can be refreshed unless the answer to a refresh was cut off, its
\* save failed, the process ended between the two, or another manager took a save
\* back: no interleaving makes a fifth.
THEOREM LoginSurvives == Spec => []LoginIsKept
<1>1. Holdings /\ LoginsLast /\ OnlyOthersClobber => LoginIsKept
  <2> SUFFICES ASSUME Holdings, LoginsLast, OnlyOthersClobber, NEW o \in Origins,
                      lost[o] # {}
               PROVE  "dropped" \in lost[o] \/ ("clobbered" \in lost[o] /\ Shared(o))
    BY DEF LoginIsKept, LoginsLast, LoginOf
  <2>1. lost[o] \in SUBSET {"dropped", "clobbered"}
    BY DEF Holdings, TypeOK
  <2>q. QED
    BY <2>1 DEF OnlyOthersClobber
<1>q. QED
  BY <1>1, HoldingsAlways, LoginsAlways, ManagersOwnSavesFit, PTL

-----------------------------------------------------------------------------
(* The order tokens are handed out in.                                     *)

\* What befell an origin is not forgotten.
LEMMA LossesStay ==
  ASSUME TypeOK, [Next]_vars, NEW o \in Origins
  PROVE  lost[o] \subseteq lost'[o]
<1>1. ASSUME NEW t \in Threads, Leaves(t)
      PROVE  lost[o] \subseteq lost'[o]
  BY <1>1 DEF Leaves, Dropped, TypeOK
<1>2. ASSUME NEW m \in Managers, Crash(m)
      PROVE  lost[o] \subseteq lost'[o]
  BY <1>2 DEF Crash, TypeOK
<1>3. ASSUME NEW t \in Threads, Begins(t) \/ Issue(t) \/ Prepare(t)
      PROVE  lost' = lost
  BY <1>3 DEF Begins, Begin, Issue, Prepare
<1>4. ASSUME NEW t \in Threads, Commit(t)
      PROVE  lost[o] \subseteq lost'[o]
  BY <1>4 DEF Commit
<1>q. QED
  BY <1>1, <1>2, <1>3, <1>4, ThreadSteps

\* Nothing writes the store but a save.
LEMMA OnlySavesWrite ==
  ASSUME TypeOK, [Next]_vars, file' # file
  PROVE  \E t \in Threads : Commit(t)
<1>1. ASSUME NEW t \in Threads, Begins(t) \/ Issue(t) \/ Leaves(t) \/ Prepare(t)
      PROVE  FALSE
  BY <1>1 DEF Begins, Begin, Issue, Leaves, Prepare
<1>2. ASSUME NEW m \in Managers, Crash(m)
      PROVE  FALSE
  BY <1>2 DEF Crash
<1>q. QED
  BY <1>1, <1>2, ThreadSteps

\* No step hands out a token newer than the store's, or saves an older one.
LEMMA StoreStaysAhead ==
  ASSUME Holdings, [Next]_vars, NEW m \in Managers, NotAhead(m)
  PROVE  NotAhead(m)'
<1>t. TypeOK /\ TypeOK'
  BY TypesAreKept DEF Holdings
<1>o. PICK o \in Origins : o = origin[m] /\ o = origin'[m]
  BY <1>t, OriginsStay DEF TypeOK, config
<1>l. lost[o] \subseteq lost'[o]
  BY <1>t, LossesStay
<1>1. CASE handed' # handed
  <2>1. PICK t \in Threads : HandsOut(t)
    BY <1>1, HandingSteps
  <2>2. UNCHANGED <<file, lost>>
    BY <2>1 DEF HandsOut
  <2>3. CASE ManagerOf[t] = m
    <3>1. handed'[m] = file[o].access /\ file[o] # NoCreds
      BY <1>t, <1>o, <2>1, <2>3 DEF HandsOut, HandOut, Stored, OriginOf, TypeOK
    <3>a. file[o] \in Credentials
      BY <1>t, <1>o, <3>1 DEF TypeOK
    <3>2. file[o].access \in Nat
      BY <3>a, CredentialsAreSome
    <3>q. QED
      BY <1>o, <2>2, <3>1, <3>2 DEF NotAhead
  <2>4. CASE ManagerOf[t] # m
    <3>1. handed'[m] = handed[m]
      BY <1>t, <2>1, <2>4 DEF HandsOut, HandOut, TypeOK
    <3>q. QED
      BY <1>o, <2>2, <3>1 DEF NotAhead
  <2>q. QED
    BY <2>3, <2>4
<1>2. CASE handed' = handed /\ file' = file
  BY <1>o, <1>l, <1>2 DEF NotAhead
<1>3. CASE handed' = handed /\ file' # file
  <2>1. PICK t \in Threads : Commit(t)
    BY <1>t, <1>3, OnlySavesWrite
  <2>2. CASE "clobbered" \in lost'[o] \/ file'[o] = file[o]
    BY <1>o, <1>l, <1>3, <2>2 DEF NotAhead
  <2>3. CASE /\ lost'[o] = lost[o] /\ o = OriginOf(t) /\ file'[o] = creds[t]
             /\ op[t] = "Logout" \/ file[o] = base[t]
    <3>1. CASE creds[t] = NoCreds
      BY <1>o, <2>3, <3>1 DEF NotAhead
    <3>2. CASE creds[t] # NoCreds
      <4>1. /\ file[o] = base[t] /\ file[o] # NoCreds
            /\ base[t].access <= creds[t].access
        BY <2>1, <2>3, <3>2, SavedTokens DEF Holdings, Midway
      <4>a. {0} \cup Tokens \subseteq Nat /\ handed[m] \in {0} \cup Tokens
        BY <1>t, CredentialsAreSome DEF TypeOK
      <4>2. /\ base[t].access \in Nat /\ creds[t].access \in Nat /\ handed[m] \in Nat
        BY <1>t, <3>2, <4>1, <4>a, CredentialsAreSome DEF TypeOK
      <4>3. "clobbered" \in lost[o] \/ handed[m] <= base[t].access
        BY <1>o, <4>1 DEF NotAhead
      <4>q. QED
        BY <1>o, <1>l, <1>3, <2>3, <4>1, <4>2, <4>3 DEF NotAhead
    <3>q. QED
      BY <3>1, <3>2
  <2>q. QED
    BY <1>t, <2>1, <2>2, <2>3, SavesThatFit
<1>q. QED
  BY <1>1, <1>2, <1>3

\* A manager never hands out an older access token after a newer one, through
\* refreshes, failures and crashes, but where another manager's save took the
\* newer one back.
THEOREM TokensComeInOrder == Spec => HandedInOrder
<1> DEFINE InOrder == \A m \in Managers :
             \/ handed'[m] >= handed[m]
             \/ "clobbered" \in lost[origin[m]] /\ Shared(origin[m])
<1>1. Init => NoneIsAhead
  <2> SUFFICES ASSUME Init, NEW m \in Managers
               PROVE  NotAhead(m)
    BY DEF NoneIsAhead
  <2>1. TypeOK /\ handed[m] = 0
    BY HoldingsFromTheStart DEF Holdings, Init
  <2>2. origin[m] \in Origins /\ file[origin[m]] \in Credentials \cup {NoCreds}
    BY <2>1 DEF TypeOK
  <2>3. file[origin[m]] # NoCreds => file[origin[m]].access \in Nat
    BY <2>2, CredentialsAreSome
  <2>q. QED
    BY <2>1, <2>3 DEF NotAhead
<1>2. Holdings /\ NoneIsAhead /\ [Next]_vars => NoneIsAhead'
  BY StoreStaysAhead DEF NoneIsAhead
<1>3. Holdings /\ OnlyOthersClobber /\ NoneIsAhead /\ [Next]_vars => [InOrder]_vars
  <2> SUFFICES ASSUME Holdings, OnlyOthersClobber, NoneIsAhead, [Next]_vars,
                      NEW m \in Managers
               PROVE  handed'[m] >= handed[m] \/ "clobbered" \in lost[origin[m]]
    <3>1. ASSUME Holdings, NEW n \in Managers
          PROVE  origin[n] \in Origins
      BY <3>1 DEF Holdings, TypeOK
    <3>q. QED
      BY <3>1 DEF OnlyOthersClobber
  <2>a. {0} \cup Tokens \subseteq Nat
    BY CredentialsAreSome
  <2>t. TypeOK /\ handed[m] \in Nat
    BY <2>a DEF Holdings, TypeOK
  <2>1. CASE handed'[m] = handed[m]
    BY <2>t, <2>1
  <2>2. CASE handed'[m] # handed[m]
    <3>1. PICK t \in Threads : HandsOut(t)
      BY <2>2, HandingSteps
    <3>2. handed'[m] = file[origin[m]].access /\ file[origin[m]] # NoCreds
      BY <2>t, <2>2, <3>1 DEF HandsOut, HandOut, Stored, OriginOf, TypeOK
    <3>3. file[origin[m]].access \in Nat
      BY <2>t, <3>2, CredentialsAreSome DEF TypeOK
    <3>q. QED
      BY <2>t, <3>2, <3>3 DEF NoneIsAhead, NotAhead
  <2>q. QED
    BY <2>1, <2>2
<1>q. QED
  BY <1>1, <1>2, <1>3, HoldingsAlways, ManagersOwnSavesFit, PTL DEF Spec, HandedInOrder

-----------------------------------------------------------------------------
(* What a refresh token is spent on.                                       *)

\* A token about to be presented is the one its issuer takes, unless somebody
\* outside the mutex writes where it is kept or the one that replaced it was
\* dropped.
SpentOnceOrLost ==
  \A t \in Threads : pc[t] = "posting" =>
    \/ creds[t].refresh = live[OriginOf(t)]
    \/ Shared(OriginOf(t))
    \/ "dropped" \in lost[OriginOf(t)]

\* "A rotating refresh token is spent once" for as long as one manager alone
\* writes where it is kept and no rotated token was dropped: the mutex covers
\* the load, the answer and the save.
THEOREM SpentOnceUnlessLost == Spec => []SpentOnceOrLost
<1>1. ASSUME Holdings, MutexIsOneThreads, ReadIsCurrent, LoginsLast, OnlyOthersClobber,
             NEW t \in Threads, pc[t] = "posting", ~Shared(OriginOf(t)),
             "dropped" \notin lost[OriginOf(t)]
      PROVE  creds[t].refresh = live[OriginOf(t)]
  <2> DEFINE o == OriginOf(t)
  <2>t. TypeOK /\ Midway(t)
    BY <1>1 DEF Holdings
  <2>1. o \in Origins /\ Stored(t) = file[o]
    BY <2>t, OriginsAreTyped
  <2>2. lost[o] = {}
    <3>1. "clobbered" \notin lost[o]
      BY <1>1, <2>1 DEF OnlyOthersClobber
    <3>2. lost[o] \in SUBSET {"dropped", "clobbered"}
      BY <2>t, <2>1 DEF TypeOK
    <3>q. QED
      BY <1>1, <3>1, <3>2
  <2>3. /\ creds[t] = file[o] /\ creds[t].refresh # 0 /\ file[o] # NoCreds
    <3>1. base[t] = file[o]
      BY <1>1, <2>1 DEF ReadIsCurrent
    <3>2. creds[t] = base[t] /\ base[t] \in Credentials
      BY <1>1, <2>t DEF Midway
    <3>3. creds[t].refresh # 0
      BY <1>1, <2>t DEF TypeOK
    <3>q. QED
      BY <3>1, <3>2, <3>3, CredentialsAreSome
  <2>4. ASSUME NEW u \in Threads, OriginOf(u) = o, Rotated(u)
        PROVE  FALSE
    <3>1. pc[u] \in {"answered", "prepared"}
      BY <2>4 DEF Rotated
    <3>2. ManagerOf[u] # ManagerOf[t]
      BY <1>1, <3>1 DEF MutexIsOneThreads
    <3>3. /\ ManagerOf[u] \in Managers /\ ManagerOf[t] \in Managers
          /\ origin[ManagerOf[u]] = o /\ origin[ManagerOf[t]] = o
      BY <2>4, ManagerAssumption DEF OriginOf
    <3>4. Shared(o)
      BY <3>2, <3>3 DEF Shared
    <3>q. QED
      BY <1>1, <3>4
  <2>5. file[o].refresh \in {0, live[o]}
    BY <1>1, <2>1, <2>2, <2>3, <2>4 DEF LoginsLast, LoginOf
  <2>q. QED
    BY <2>3, <2>5
<1>2. Holdings /\ MutexIsOneThreads /\ ReadIsCurrent /\ LoginsLast /\ OnlyOthersClobber
        => SpentOnceOrLost
  BY <1>1 DEF SpentOnceOrLost
<1>q. QED
  BY <1>2, HoldingsAlways, MutexAlways, ReadingsAlways, LoginsAlways,
    ManagersOwnSavesFit, PTL

\* Where no accident can happen nothing is dropped: an issuer's answer is always
\* saved before the method that asked for it returns.
NothingDropped == \A o \in Origins : "dropped" \notin lost[o]

\* Only a cut answer, a failed save and a crash drop what an issuer rotated.
LEMMA AccidentsDrop == ASSUME Causes = {} PROVE Spec => []NothingDropped
<1>1. Init => NothingDropped
  BY DEF Init, NothingDropped
<1>2. ASSUME TypeOK, NothingDropped, [Next]_vars
      PROVE  NothingDropped'
  <2>1. ASSUME NEW t \in Threads, AnswerIsCut(t) \/ SaveFails(t)
        PROVE  FALSE
    BY <2>1 DEF AnswerIsCut, SaveFails
  <2>2. ASSUME NEW m \in Managers, Crash(m)
        PROVE  FALSE
    BY <2>2 DEF Crash
  <2>3. ASSUME NEW t \in Threads, \/ HandOutStored(t) \/ StartRefresh(t) \/ SetUserID(t)
                                 \/ Logout(t) \/ Issue(t) \/ IssueFails(t) \/ Prepare(t)
                                 \/ Reload(t)
        PROVE  lost' = lost
    BY <2>3 DEF HandOutStored, StartRefresh, SetUserID, Logout, Begin, Issue, IssueFails,
      Prepare, Reload
  <2>4. ASSUME NEW t \in Threads, Commit(t)
        PROVE  NothingDropped'
    BY <1>2, <2>4 DEF Commit, NothingDropped
  <2>q. QED
    BY <1>2, <2>1, <2>2, <2>3, <2>4 DEF Next, NothingDropped, vars
<1>q. QED
  BY <1>1, <1>2, ManagerTypeCorrect, PTL DEF Spec

\* A single manager, which nothing interrupts, never presents a token twice:
\* the cancelled caller of auth_cancelled is what it takes.
THEOREM SpentOnceAlone ==
  ASSUME Causes = {}, \A m, n \in Managers : m = n
  PROVE  Spec => []SpentOnce
<1>1. ASSUME TypeOK, SpentOnceOrLost, NothingDropped
      PROVE  SpentOnce
  <2>1. \A t \in Threads : OriginOf(t) \in Origins /\ ~Shared(OriginOf(t))
    BY <1>1, OriginsAreTyped DEF Shared
  <2>q. QED
    BY <1>1, <2>1 DEF SpentOnceOrLost, NothingDropped, SpentOnce
<1>q. QED
  BY <1>1, ManagerTypeCorrect, SpentOnceUnlessLost, AccidentsDrop, PTL
=============================================================================

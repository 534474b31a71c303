------------------------- MODULE TokenManagerProofs -------------------------
(***************************************************************************)
(* Proofs about TokenManager, for every set of accounts, credentials and   *)
(* callers, every lifetime and every skew; and about CredentialLifecycle,  *)
(* which uses it as TokenManager says it is used.                          *)
(***************************************************************************)
EXTENDS CredentialLifecycle, TLAPS

USE DEF LeaderPc, Pc, Failure, ZeroTime

\* The initial state satisfies the inductive invariant: no call, no entry.
LEMMA InitIInv == Init => IInv
<1> SUFFICES ASSUME Init PROVE IInv
  OBVIOUS
<1> USE FingerprintAssumption, AccountAssumption, CallerAssumption,
        TokenAssumption, EntryAssumption DEF Init
<1>1. TypeOK
  BY DEF TypeOK
<1>2. CallsWellFormed
  BY DEF CallsWellFormed
<1>3. OneFlightPerAccount
  BY DEF OneFlightPerAccount
<1>4. EntryMatchesCredential
  BY DEF EntryMatchesCredential
<1>5. OnlyJoinersGetForeignTokens
  BY DEF OnlyJoinersGetForeignTokens
<1>6. TokenOfOwnAccount
  BY DEF TokenOfOwnAccount
<1> QED
  BY <1>1, <1>2, <1>3, <1>4, <1>5, <1>6 DEF IInv

\* What the cache holds for a usable entry.
LEMMA FreshEntry ==
  ASSUME TypeOK, NEW a \in Account, NEW r \in Cred, Fresh(a, r)
  PROVE  /\ entries[a] \in Entry
         /\ entries[a].accessToken \in Cred
         /\ entries[a].fingerprint = fingerprintOf[r]
  BY DEF TypeOK, Fresh, Entry

\* Every step keeps every variable in its type.
LEMMA TypeStep == TypeOK /\ CallsWellFormed /\ [Next]_vars => TypeOK'
<1> SUFFICES ASSUME TypeOK, CallsWellFormed, [Next]_vars PROVE TypeOK'
  OBVIOUS
<1>0. now \in Nat /\ minted \in [Caller -> Nat]
  BY DEF TypeOK
<1>1. ASSUME NEW c \in Caller, NEW r \in Cred, Begin(c, accountOf[r], r) PROVE TypeOK'
  BY <1>1, AccountAssumption DEF Begin, TypeOK
<1>2. ASSUME NEW c \in Caller, Local(c) PROVE TypeOK'
  <2>1. CASE Hit(c)
    <3>1. acct[c] \in Account /\ cred[c] \in Cred
      BY <2>1 DEF Hit, CallsWellFormed
    <3>2. entries[acct[c]].accessToken \in Cred
      BY <2>1, <3>1, FreshEntry DEF Hit
    <3> QED
      BY <2>1, <3>2 DEF Hit, TypeOK
  <2>2. CASE Miss(c)
    BY <2>2 DEF Miss, TypeOK
  <2>3. CASE Lead(c)
    BY <2>3 DEF Lead, TypeOK
  <2>4. CASE Join(c)
    <3>1. acct[c] \in Account
      BY <2>4 DEF Join, CallsWellFormed
    <3> QED
      BY <2>4, <3>1 DEF Join, TypeOK
  <2>5. CASE RecheckHit(c)
    <3>1. acct[c] \in Account /\ cred[c] \in Cred
      BY <2>5 DEF RecheckHit, CallsWellFormed
    <3>2. entries[acct[c]].accessToken \in Cred
      BY <2>5, <3>1, FreshEntry DEF RecheckHit
    <3> QED
      BY <2>5, <3>2 DEF RecheckHit, TypeOK
  <2>6. CASE RecheckMiss(c)
    BY <2>6 DEF RecheckMiss, TypeOK
  <2>7. CASE StoreEntry(c)
    <3>1. ExpiryOf(c) \in Nat
      BY <1>0, TimeAssumption DEF ExpiryOf
    <3>2. token[c] \in Cred /\ cred[c] \in Cred
      BY <2>7 DEF StoreEntry, CallsWellFormed
    <3>3. [accessToken |-> token[c], expiry |-> ExpiryOf(c),
           fingerprint |-> fingerprintOf[cred[c]]] \in Entry
      BY <3>1, <3>2, FingerprintAssumption DEF Entry
    <3> QED
      BY <2>7, <3>3 DEF StoreEntry, TypeOK
  <2>8. CASE Finish(c)
    BY <2>8 DEF Finish, TypeOK
  <2> QED
    BY <1>2, <2>1, <2>2, <2>3, <2>4, <2>5, <2>6, <2>7, <2>8 DEF Local
<1>3. ASSUME NEW c \in Caller, Answer(c) PROVE TypeOK'
  <2>1. ASSUME NEW x \in Expiries, RefreshOk(c, x) PROVE TypeOK'
    <3>1. x \in Nat
      BY <1>0, <2>1, TimeAssumption DEF Expiries
    <3> QED
      BY <2>1, <3>1 DEF RefreshOk, TypeOK
  <2>2. ASSUME NEW e \in Failure, RefreshFailed(c, e) PROVE TypeOK'
    BY <2>2 DEF RefreshFailed, TypeOK
  <2> QED
    BY <1>3, <2>1, <2>2 DEF Answer
<1>4. ASSUME NEW c \in Caller, Return(c) PROVE TypeOK'
  BY <1>4 DEF Return, TypeOK
<1>5. ASSUME NEW a \in Account, Forget(a) PROVE TypeOK'
  BY <1>5 DEF Forget, TypeOK
<1>6. CASE Tick
  <2>1. now' \in Nat
    BY <1>0, <1>6 DEF Tick
  <2> QED
    BY <1>6, <2>1 DEF Tick, TypeOK
<1>7. CASE UNCHANGED vars
  BY <1>7 DEF vars, TypeOK
<1> QED
  BY <1>1, <1>2, <1>3, <1>4, <1>5, <1>6, <1>7 DEF Next

\* A usable entry serves a caller an access token of its own refresh token: the
\* fingerprint in the entry is the one of the credential the token was minted from.
LEMMA OwnEntry ==
  ASSUME IInv, NEW c \in Caller, pc[c] # "idle", Fresh(acct[c], cred[c])
  PROVE  /\ entries[acct[c]].accessToken = cred[c]
         /\ cred[c] \in Cred
<1>1. acct[c] \in Account /\ cred[c] \in Cred
  BY DEF IInv, CallsWellFormed
<1>2. /\ entries[acct[c]] # NoEntry
      /\ entries[acct[c]].accessToken \in Cred
      /\ entries[acct[c]].fingerprint = fingerprintOf[cred[c]]
  BY <1>1, FreshEntry DEF IInv, Fresh
<1>3. entries[acct[c]].fingerprint = fingerprintOf[entries[acct[c]].accessToken]
  BY <1>1, <1>2 DEF IInv, EntryMatchesCredential
<1> QED
  BY <1>1, <1>2, <1>3, FingerprintAssumption

\* Every step preserves the inductive invariant.
LEMMA IInvStep == IInv /\ [Next]_vars => IInv'
<1> SUFFICES ASSUME IInv, [Next]_vars PROVE IInv'
  OBVIOUS
<1>0. /\ flight \in [Account -> Caller \cup {NoCaller}]
      /\ pc \in [Caller -> Pc]
      /\ acct \in [Caller -> Account \cup {NoAccount}]
      /\ lead \in [Caller -> Caller \cup {NoCaller}]
  BY DEF IInv, TypeOK
<1>1. /\ entries \in [Account -> Entry \cup {NoEntry}]
      /\ flight \in [Account -> Caller \cup {NoCaller}]
      /\ pc \in [Caller -> Pc]
      /\ acct \in [Caller -> Account \cup {NoAccount}]
      /\ cred \in [Caller -> Cred \cup {NoToken}]
      /\ lead \in [Caller -> Caller \cup {NoCaller}]
      /\ token \in [Caller -> Cred \cup {NoToken}]
      /\ err \in [Caller -> Failure \cup {""}]
  BY DEF IInv, TypeOK
<1>2. TypeOK'
  BY TypeStep DEF IInv
<1>3. CallsWellFormed
  BY DEF IInv
<1>4. OneFlightPerAccount
  BY DEF IInv
<1>5. EntryMatchesCredential
  BY DEF IInv
<1>6. OnlyJoinersGetForeignTokens
  BY DEF IInv
<1>7. TokenOfOwnAccount
  BY DEF IInv
<1>8. \A c \in Caller : pc[c] # "idle" => acct[c] \in Account
  BY <1>3 DEF CallsWellFormed
<1>9. ASSUME NEW c \in Caller, NEW r \in Cred, Begin(c, accountOf[r], r) PROVE IInv'
  <2>1. CallsWellFormed'
    BY <1>9, <1>1, <1>3, AccountAssumption DEF Begin, CallsWellFormed
  <2>2. OneFlightPerAccount'
    BY <1>9, <1>0, <1>8, <1>4 DEF Begin, OneFlightPerAccount
  <2>3. EntryMatchesCredential'
    BY <1>9, <1>1, <1>8, <1>5 DEF Begin, EntryMatchesCredential
  <2>4. OnlyJoinersGetForeignTokens'
    BY <1>9, <1>1, <1>6, <1>3 DEF Begin, OnlyJoinersGetForeignTokens
  <2>5. TokenOfOwnAccount'
    BY <1>9, <1>1, <1>7, <1>3 DEF Begin, TokenOfOwnAccount
  <2> QED
    BY <1>2, <2>1, <2>2, <2>3, <2>4, <2>5 DEF IInv
<1>10. ASSUME NEW c \in Caller, Local(c) PROVE IInv'
  <2>1. CASE Hit(c)
    <3>0. entries[acct[c]].accessToken = cred[c] /\ cred[c] \in Cred
      BY <2>1, <1>3, OwnEntry DEF Hit, IInv
    <3>1. CallsWellFormed'
      BY <2>1, <1>1, <1>3, <3>0 DEF Hit, CallsWellFormed
    <3>2. OneFlightPerAccount'
      BY <2>1, <1>0, <1>8, <1>4 DEF Hit, OneFlightPerAccount
    <3>3. EntryMatchesCredential'
      BY <2>1, <1>1, <1>8, <1>5 DEF Hit, EntryMatchesCredential
    <3>4. OnlyJoinersGetForeignTokens'
      BY <2>1, <1>1, <1>6, <1>3, <3>0 DEF Hit, CallsWellFormed, OnlyJoinersGetForeignTokens
    <3>5. TokenOfOwnAccount'
      BY <2>1, <1>1, <1>7, <1>3, <3>0 DEF Hit, CallsWellFormed, TokenOfOwnAccount
    <3> QED
      BY <1>2, <3>1, <3>2, <3>3, <3>4, <3>5 DEF IInv
  <2>2. CASE Miss(c)
    <3>1. CallsWellFormed'
      BY <2>2, <1>1, <1>3 DEF Miss, CallsWellFormed
    <3>2. OneFlightPerAccount'
      BY <2>2, <1>0, <1>8, <1>4 DEF Miss, OneFlightPerAccount
    <3>3. EntryMatchesCredential'
      BY <2>2, <1>1, <1>8, <1>5 DEF Miss, EntryMatchesCredential
    <3>4. OnlyJoinersGetForeignTokens'
      BY <2>2, <1>1, <1>6, <1>3 DEF Miss, CallsWellFormed, OnlyJoinersGetForeignTokens
    <3>5. TokenOfOwnAccount'
      BY <2>2, <1>1, <1>7, <1>3 DEF Miss, CallsWellFormed, TokenOfOwnAccount
    <3> QED
      BY <1>2, <3>1, <3>2, <3>3, <3>4, <3>5 DEF IInv
  <2>3. CASE Lead(c)
    <3>1. CallsWellFormed'
      BY <2>3, <1>1, <1>3 DEF Lead, CallsWellFormed
    <3>2. OneFlightPerAccount'
      BY <2>3, <1>0, <1>8, <1>4, CallerAssumption DEF Lead, OneFlightPerAccount
    <3>3. EntryMatchesCredential'
      BY <2>3, <1>1, <1>8, <1>5 DEF Lead, EntryMatchesCredential
    <3>4. OnlyJoinersGetForeignTokens'
      BY <2>3, <1>1, <1>6, <1>3 DEF Lead, CallsWellFormed, OnlyJoinersGetForeignTokens
    <3>5. TokenOfOwnAccount'
      BY <2>3, <1>1, <1>7, <1>3 DEF Lead, CallsWellFormed, TokenOfOwnAccount
    <3> QED
      BY <1>2, <3>1, <3>2, <3>3, <3>4, <3>5 DEF IInv
  <2>4. CASE Join(c)
    <3>1. CallsWellFormed'
      BY <2>4, <1>1, <1>3 DEF Join, CallsWellFormed
    <3>2. OneFlightPerAccount'
      BY <2>4, <1>0, <1>8, <1>4, CallerAssumption DEF Join, OneFlightPerAccount
    <3>3. EntryMatchesCredential'
      BY <2>4, <1>1, <1>8, <1>5 DEF Join, EntryMatchesCredential
    <3>4. OnlyJoinersGetForeignTokens'
      BY <2>4, <1>1, <1>6, <1>3 DEF Join, CallsWellFormed, OnlyJoinersGetForeignTokens
    <3>5. TokenOfOwnAccount'
      BY <2>4, <1>1, <1>7, <1>3 DEF Join, CallsWellFormed, TokenOfOwnAccount
    <3> QED
      BY <1>2, <3>1, <3>2, <3>3, <3>4, <3>5 DEF IInv
  <2>5. CASE RecheckHit(c)
    <3>0. entries[acct[c]].accessToken = cred[c] /\ cred[c] \in Cred
      BY <2>5, <1>3, OwnEntry DEF RecheckHit, IInv
    <3>1. CallsWellFormed'
      BY <2>5, <1>1, <1>3, <3>0 DEF RecheckHit, CallsWellFormed
    <3>2. OneFlightPerAccount'
      BY <2>5, <1>0, <1>8, <1>4 DEF RecheckHit, OneFlightPerAccount
    <3>3. EntryMatchesCredential'
      BY <2>5, <1>1, <1>8, <1>5 DEF RecheckHit, EntryMatchesCredential
    <3>4. OnlyJoinersGetForeignTokens'
      BY <2>5, <1>1, <1>6, <1>3, <3>0 DEF RecheckHit, CallsWellFormed, OnlyJoinersGetForeignTokens
    <3>5. TokenOfOwnAccount'
      BY <2>5, <1>1, <1>7, <1>3, <3>0 DEF RecheckHit, CallsWellFormed, TokenOfOwnAccount
    <3> QED
      BY <1>2, <3>1, <3>2, <3>3, <3>4, <3>5 DEF IInv
  <2>6. CASE RecheckMiss(c)
    <3>1. CallsWellFormed'
      BY <2>6, <1>1, <1>3 DEF RecheckMiss, CallsWellFormed
    <3>2. OneFlightPerAccount'
      BY <2>6, <1>0, <1>8, <1>4 DEF RecheckMiss, OneFlightPerAccount
    <3>3. EntryMatchesCredential'
      BY <2>6, <1>1, <1>8, <1>5 DEF RecheckMiss, EntryMatchesCredential
    <3>4. OnlyJoinersGetForeignTokens'
      BY <2>6, <1>1, <1>6, <1>3 DEF RecheckMiss, CallsWellFormed, OnlyJoinersGetForeignTokens
    <3>5. TokenOfOwnAccount'
      BY <2>6, <1>1, <1>7, <1>3 DEF RecheckMiss, CallsWellFormed, TokenOfOwnAccount
    <3> QED
      BY <1>2, <3>1, <3>2, <3>3, <3>4, <3>5 DEF IInv
  <2>7. CASE StoreEntry(c)
    <3>1. CallsWellFormed'
      BY <2>7, <1>1, <1>3 DEF StoreEntry, CallsWellFormed
    <3>2. OneFlightPerAccount'
      BY <2>7, <1>0, <1>8, <1>4 DEF StoreEntry, OneFlightPerAccount
    <3>3. EntryMatchesCredential'
      <4>1. /\ acct[c] \in Account
            /\ token[c] = cred[c]
            /\ accountOf[cred[c]] = acct[c]
        BY <2>7, <1>3 DEF StoreEntry, CallsWellFormed
      <4>2. /\ entries'[acct[c]].accessToken = token[c]
            /\ entries'[acct[c]].fingerprint = fingerprintOf[cred[c]]
        BY <2>7, <1>1, <4>1 DEF StoreEntry
      <4>3. \A a \in Account \ {acct[c]} : entries'[a] = entries[a]
        BY <2>7, <1>1 DEF StoreEntry
      <4> QED
        BY <1>5, <4>1, <4>2, <4>3 DEF EntryMatchesCredential
    <3>4. OnlyJoinersGetForeignTokens'
      BY <2>7, <1>1, <1>6, <1>3 DEF StoreEntry, CallsWellFormed, OnlyJoinersGetForeignTokens
    <3>5. TokenOfOwnAccount'
      BY <2>7, <1>1, <1>7, <1>3 DEF StoreEntry, CallsWellFormed, TokenOfOwnAccount
    <3> QED
      BY <1>2, <3>1, <3>2, <3>3, <3>4, <3>5 DEF IInv
  <2>8. CASE Finish(c)
    <3>1. CallsWellFormed'
      BY <2>8, <1>1, <1>3 DEF Finish, Waiting, CallsWellFormed
    <3>2. OneFlightPerAccount'
      BY <2>8, <1>0, <1>8, <1>4, CallerAssumption DEF Finish, Waiting, OneFlightPerAccount
    <3>3. EntryMatchesCredential'
      BY <2>8, <1>1, <1>8, <1>5 DEF Finish, Waiting, EntryMatchesCredential
    <3>4. OnlyJoinersGetForeignTokens'
      BY <2>8, <1>1, <1>6, <1>3, CallerAssumption DEF Finish, Waiting, CallsWellFormed, OnlyJoinersGetForeignTokens
    <3>5. TokenOfOwnAccount'
      <4> SUFFICES ASSUME NEW d \in Caller, pc'[d] = "done", err'[d] = ""
                   PROVE  token'[d] \in Cred /\ accountOf[token'[d]] = acct'[d]
        BY DEF TokenOfOwnAccount
      <4>1. CASE d = c
        <5>1. token'[d] = token[c] /\ err[c] = "" /\ acct'[d] = acct[c]
          BY <2>8, <1>1, <4>1 DEF Finish, Waiting
        <5> QED
          BY <2>8, <1>3, <1>6, <5>1, <4>1 DEF Finish, CallsWellFormed, OnlyJoinersGetForeignTokens
      <4>2. CASE d \in Waiting(c)
        <5>1. token'[d] = token[c] /\ err[c] = "" /\ acct'[d] = acct[d]
          BY <2>8, <1>1, <4>2 DEF Finish
        <5>2. acct[d] = acct[c]
          BY <1>4, <4>2 DEF Waiting, OneFlightPerAccount
        <5>3. lead[c] = NoCaller /\ pc[c] = "finish"
          BY <2>8, <1>3 DEF Finish, CallsWellFormed
        <5>4. token[c] = cred[c]
          BY <1>6, <5>1, <5>3 DEF OnlyJoinersGetForeignTokens
        <5> QED
          BY <1>3, <5>1, <5>2, <5>3, <5>4 DEF CallsWellFormed
      <4>3. CASE d # c /\ d \notin Waiting(c)
        BY <2>8, <1>1, <1>7, <4>3 DEF Finish, TokenOfOwnAccount
      <4> QED
        BY <4>1, <4>2, <4>3
    <3> QED
      BY <1>2, <3>1, <3>2, <3>3, <3>4, <3>5 DEF IInv
  <2> QED
    BY <1>10, <2>1, <2>2, <2>3, <2>4, <2>5, <2>6, <2>7, <2>8 DEF Local
<1>11. ASSUME NEW c \in Caller, Answer(c) PROVE IInv'
  <2>1. ASSUME NEW x \in Expiries, RefreshOk(c, x) PROVE IInv'
    <3>1. CallsWellFormed'
      BY <2>1, <1>1, <1>3 DEF RefreshOk, CallsWellFormed
    <3>2. OneFlightPerAccount'
      BY <2>1, <1>0, <1>8, <1>4 DEF RefreshOk, OneFlightPerAccount
    <3>3. EntryMatchesCredential'
      BY <2>1, <1>1, <1>8, <1>5 DEF RefreshOk, EntryMatchesCredential
    <3>4. OnlyJoinersGetForeignTokens'
      BY <2>1, <1>1, <1>6, <1>3 DEF RefreshOk, CallsWellFormed, OnlyJoinersGetForeignTokens
    <3>5. TokenOfOwnAccount'
      BY <2>1, <1>1, <1>7, <1>3 DEF RefreshOk, CallsWellFormed, TokenOfOwnAccount
    <3> QED
      BY <1>2, <3>1, <3>2, <3>3, <3>4, <3>5 DEF IInv
  <2>2. ASSUME NEW e \in Failure, RefreshFailed(c, e) PROVE IInv'
    <3>1. CallsWellFormed'
      BY <2>2, <1>1, <1>3 DEF RefreshFailed, CallsWellFormed
    <3>2. OneFlightPerAccount'
      BY <2>2, <1>0, <1>8, <1>4 DEF RefreshFailed, OneFlightPerAccount
    <3>3. EntryMatchesCredential'
      BY <2>2, <1>1, <1>8, <1>5 DEF RefreshFailed, EntryMatchesCredential
    <3>4. OnlyJoinersGetForeignTokens'
      BY <2>2, <1>1, <1>6, <1>3 DEF RefreshFailed, CallsWellFormed, OnlyJoinersGetForeignTokens
    <3>5. TokenOfOwnAccount'
      BY <2>2, <1>1, <1>7, <1>3 DEF RefreshFailed, CallsWellFormed, TokenOfOwnAccount
    <3> QED
      BY <1>2, <3>1, <3>2, <3>3, <3>4, <3>5 DEF IInv
  <2> QED
    BY <1>11, <2>1, <2>2 DEF Answer
<1>12. ASSUME NEW c \in Caller, Return(c) PROVE IInv'
  <2>1. CallsWellFormed'
    BY <1>12, <1>1, <1>3 DEF Return, CallsWellFormed
  <2>2. OneFlightPerAccount'
    <3>1. pc[c] = "done" /\ pc' = [pc EXCEPT ![c] = "idle"] /\ UNCHANGED flight
      BY <1>12 DEF Return
    <3>2. \A d \in Caller : pc'[d] \in LeaderPc \cup {"wait"} =>
            d # c /\ pc'[d] = pc[d] /\ acct'[d] = acct[d] /\ lead'[d] = lead[d]
      BY <1>12, <1>0, <3>1 DEF Return
    <3>3. \A d \in Caller : pc[d] \in LeaderPc => pc'[d] = pc[d] /\ acct'[d] = acct[d]
      BY <1>12, <1>0, <3>1 DEF Return
    <3> QED
      BY <1>0, <1>4, <1>8, <3>1, <3>2, <3>3 DEF OneFlightPerAccount
  <2>3. EntryMatchesCredential'
    BY <1>12, <1>1, <1>8, <1>5 DEF Return, EntryMatchesCredential
  <2>4. OnlyJoinersGetForeignTokens'
    BY <1>12, <1>1, <1>6, <1>3 DEF Return, CallsWellFormed, OnlyJoinersGetForeignTokens
  <2>5. TokenOfOwnAccount'
    BY <1>12, <1>1, <1>7, <1>3 DEF Return, CallsWellFormed, TokenOfOwnAccount
  <2> QED
    BY <1>2, <2>1, <2>2, <2>3, <2>4, <2>5 DEF IInv
<1>13. ASSUME NEW a \in Account, Forget(a) PROVE IInv'
  <2>1. CallsWellFormed'
    BY <1>13, <1>1, <1>3 DEF Forget, CallsWellFormed
  <2>2. OneFlightPerAccount'
    BY <1>13, <1>0, <1>8, <1>4 DEF Forget, OneFlightPerAccount
  <2>3. EntryMatchesCredential'
    BY <1>13, <1>1, <1>8, <1>5 DEF Forget, EntryMatchesCredential
  <2>4. OnlyJoinersGetForeignTokens'
    BY <1>13, <1>1, <1>6, <1>3 DEF Forget, CallsWellFormed, OnlyJoinersGetForeignTokens
  <2>5. TokenOfOwnAccount'
    BY <1>13, <1>1, <1>7, <1>3 DEF Forget, CallsWellFormed, TokenOfOwnAccount
  <2> QED
    BY <1>2, <2>1, <2>2, <2>3, <2>4, <2>5 DEF IInv
<1>14. CASE Tick
  <2>1. CallsWellFormed'
    BY <1>14, <1>1, <1>3 DEF Tick, CallsWellFormed
  <2>2. OneFlightPerAccount'
    BY <1>14, <1>0, <1>8, <1>4 DEF Tick, OneFlightPerAccount
  <2>3. EntryMatchesCredential'
    BY <1>14, <1>1, <1>8, <1>5 DEF Tick, EntryMatchesCredential
  <2>4. OnlyJoinersGetForeignTokens'
    BY <1>14, <1>1, <1>6, <1>3 DEF Tick, CallsWellFormed, OnlyJoinersGetForeignTokens
  <2>5. TokenOfOwnAccount'
    BY <1>14, <1>1, <1>7, <1>3 DEF Tick, CallsWellFormed, TokenOfOwnAccount
  <2> QED
    BY <1>2, <2>1, <2>2, <2>3, <2>4, <2>5 DEF IInv
<1>15. CASE UNCHANGED vars
  <2>1. CallsWellFormed'
    BY <1>15, <1>1, <1>3 DEF vars, CallsWellFormed
  <2>2. OneFlightPerAccount'
    BY <1>15, <1>0, <1>8, <1>4 DEF vars, OneFlightPerAccount
  <2>3. EntryMatchesCredential'
    BY <1>15, <1>1, <1>8, <1>5 DEF vars, EntryMatchesCredential
  <2>4. OnlyJoinersGetForeignTokens'
    BY <1>15, <1>1, <1>6, <1>3 DEF vars, CallsWellFormed, OnlyJoinersGetForeignTokens
  <2>5. TokenOfOwnAccount'
    BY <1>15, <1>1, <1>7, <1>3 DEF vars, CallsWellFormed, TokenOfOwnAccount
  <2> QED
    BY <1>2, <2>1, <2>2, <2>3, <2>4, <2>5 DEF IInv
<1> QED
  BY <1>9, <1>10, <1>11, <1>12, <1>13, <1>14, <1>15 DEF Next

\* A refresh is in progress only while it is needed: nobody but the leader could
\* have filled the cache since it looked, and time only makes entries older.
LEMMA NoRedundantRefreshStep ==
  IInv /\ NoRedundantRefresh /\ [Next]_vars => NoRedundantRefresh'
<1> SUFFICES ASSUME IInv, NoRedundantRefresh, [Next]_vars,
                    NEW d \in Caller, pc'[d] = "refresh", Fresh(acct[d], cred[d])'
             PROVE  FALSE
  BY DEF NoRedundantRefresh
<1>1. /\ entries \in [Account -> Entry \cup {NoEntry}]
      /\ pc \in [Caller -> Pc]
      /\ acct \in [Caller -> Account \cup {NoAccount}]
      /\ cred \in [Caller -> Cred \cup {NoToken}]
  BY DEF IInv, TypeOK
<1>2. \A c \in Caller : pc[c] \in LeaderPc => acct[c] \in Account /\ flight[acct[c]] = c
  BY DEF IInv, CallsWellFormed, OneFlightPerAccount
<1>3. pc[d] = "refresh" => ~Fresh(acct[d], cred[d])
  BY DEF NoRedundantRefresh
<1>4. ASSUME NEW c \in Caller, NEW r \in Cred, Begin(c, accountOf[r], r) PROVE FALSE
  BY <1>1, <1>3, <1>4 DEF Begin, Fresh
<1>5. ASSUME NEW c \in Caller, Local(c) PROVE FALSE
  <2>1. CASE Hit(c) \/ Miss(c)
    BY <1>1, <1>3, <2>1 DEF Hit, Miss, Fresh
  <2>2. CASE Lead(c) \/ Join(c)
    BY <1>1, <1>3, <2>2 DEF Lead, Join, Fresh
  <2>3. CASE RecheckHit(c)
    BY <1>1, <1>3, <2>3 DEF RecheckHit, Fresh
  <2>4. CASE RecheckMiss(c)
    BY <1>1, <1>3, <2>4 DEF RecheckMiss, Fresh
  <2>5. CASE StoreEntry(c)
    <3>1. pc[d] = "refresh" /\ pc[c] = "store" /\ c # d
      BY <1>1, <2>5 DEF StoreEntry
    <3>2. acct[d] # acct[c] /\ acct[d] \in Account
      BY <1>2, <3>1
    <3>3. entries'[acct[d]] = entries[acct[d]]
      BY <1>1, <2>5, <3>2 DEF StoreEntry
    <3> QED
      BY <1>3, <2>5, <3>1, <3>3 DEF StoreEntry, Fresh
  <2>6. CASE Finish(c)
    BY <1>1, <1>3, <2>6 DEF Finish, Fresh
  <2> QED
    BY <1>5, <2>1, <2>2, <2>3, <2>4, <2>5, <2>6 DEF Local
<1>6. ASSUME NEW c \in Caller, Answer(c) PROVE FALSE
  BY <1>1, <1>3, <1>6 DEF Answer, RefreshOk, RefreshFailed, Fresh
<1>7. ASSUME NEW c \in Caller, Return(c) PROVE FALSE
  BY <1>1, <1>3, <1>7 DEF Return, Fresh
<1>8. ASSUME NEW a \in Account, Forget(a) PROVE FALSE
  <2>1. acct[d] \in Account /\ pc[d] = "refresh"
    BY <1>2, <1>8 DEF Forget
  <2> QED
    BY <1>1, <1>3, <1>8, <2>1 DEF Forget, Fresh
<1>9. CASE Tick
  <2>1. acct[d] \in Account /\ pc[d] = "refresh"
    BY <1>2, <1>9 DEF Tick
  <2>2. entries[acct[d]] # NoEntry /\ entries[acct[d]].expiry - (now + 1) > RefreshSkew
    BY <1>9 DEF Tick, Fresh
  <2>3. now \in Nat /\ entries[acct[d]].expiry \in Nat
    BY <1>1, <2>1, <2>2 DEF IInv, TypeOK, Entry
  <2>4. entries[acct[d]].expiry - now > RefreshSkew
    BY <2>2, <2>3, TimeAssumption
  <2> QED
    BY <1>3, <1>9, <2>1, <2>2, <2>4 DEF Tick, Fresh
<1>10. CASE UNCHANGED vars
  BY <1>3, <1>10 DEF vars, Fresh
<1> QED
  BY <1>4, <1>5, <1>6, <1>7, <1>8, <1>9, <1>10 DEF Next

\* The cache, at either look, serves a token of the caller's own refresh token.
LEMMA ServedStep ==
  ASSUME IInv, [Next]_vars,
         NEW d \in Caller, pc[d] \in {"lookup", "recheck"}, token'[d] # token[d]
  PROVE  token'[d] = cred[d]
<1>1. pc \in [Caller -> Pc] /\ token \in [Caller -> Cred \cup {NoToken}]
  BY DEF IInv, TypeOK
<1>2. ASSUME NEW c \in Caller, Local(c) PROVE token'[d] = cred[d]
  <2>1. CASE Hit(c) \/ RecheckHit(c)
    <3>1. c = d /\ Fresh(acct[d], cred[d])
      BY <1>1, <2>1 DEF Hit, RecheckHit
    <3>2. token'[d] = entries[acct[d]].accessToken
      BY <1>1, <2>1, <3>1 DEF Hit, RecheckHit
    <3> QED
      BY <3>1, <3>2, OwnEntry
  <2>2. CASE Finish(c)
    BY <1>1, <2>2 DEF Finish, Waiting
  <2>3. CASE Miss(c) \/ Lead(c) \/ Join(c) \/ RecheckMiss(c) \/ StoreEntry(c)
    BY <2>3 DEF Miss, Lead, Join, RecheckMiss, StoreEntry
  <2> QED
    BY <1>2, <2>1, <2>2, <2>3 DEF Local
<1>3. ASSUME NEW c \in Caller, Answer(c) \/ Return(c) PROVE token'[d] = cred[d]
  BY <1>1, <1>3 DEF Answer, RefreshOk, RefreshFailed, Return
<1>4. ASSUME NEW c \in Caller, NEW r \in Cred, Begin(c, accountOf[r], r)
      PROVE  token'[d] = cred[d]
  BY <1>4 DEF Begin
<1>5. CASE Tick \/ UNCHANGED vars \/ \E a \in Account : Forget(a)
  BY <1>5 DEF Tick, vars, Forget
<1> QED
  BY <1>2, <1>3, <1>4, <1>5 DEF Next

-----------------------------------------------------------------------------
\* The inductive invariant holds in every reachable state.
THEOREM Invariance == Spec => []IInv
  BY InitIInv, IInvStep, PTL DEF Spec

\* Every variable of the token manager keeps its type.
THEOREM TypeCorrect == Spec => []TypeOK
<1>1. IInv => TypeOK
  BY DEF IInv
<1> QED
  BY <1>1, Invariance, PTL

\* singleflight keeps one leader per account and orphans no waiter.
THEOREM OneFlight == Spec => []OneFlightPerAccount
<1>1. IInv => OneFlightPerAccount
  BY DEF IInv
<1> QED
  BY <1>1, Invariance, PTL

\* A cache entry belongs to the credential its access token was minted from.
THEOREM EntriesMatch == Spec => []EntryMatchesCredential
<1>1. IInv => EntryMatchesCredential
  BY DEF IInv
<1> QED
  BY <1>1, Invariance, PTL

\* Nobody is answered with an access token of another account.
THEOREM OwnAccount == Spec => []TokenOfOwnAccount
<1>1. IInv => TokenOfOwnAccount
  BY DEF IInv
<1> QED
  BY <1>1, Invariance, PTL

\* A token of other credentials than one's own can only come through a joined
\* refresh.
THEOREM ForeignOnlyByJoining == Spec => []OnlyJoinersGetForeignTokens
<1>1. IInv => OnlyJoinersGetForeignTokens
  BY DEF IInv
<1> QED
  BY <1>1, Invariance, PTL

\* No refresh goes to Google while the cache holds a usable token for it.
THEOREM RefreshOnlyWhenNeeded == Spec => []NoRedundantRefresh
<1>1. Init => NoRedundantRefresh
  BY DEF Init, NoRedundantRefresh
<1> QED
  BY <1>1, Invariance, NoRedundantRefreshStep, PTL DEF Spec

\* After a rotation the cache never serves a token of the old credential.
THEOREM CacheIsOwn == Spec => CacheServesOwnCredential
<1>1. IInv /\ [Next]_vars =>
        [\A c \in Caller :
           pc[c] \in {"lookup", "recheck"} /\ token'[c] # token[c] => token'[c] = cred[c]]_vars
  BY ServedStep
<1> QED
  BY <1>1, Invariance, PTL DEF Spec, CacheServesOwnCredential

-----------------------------------------------------------------------------
(* The token manager implements AccessTokens.                              *)

\* A step that answers nobody and starts no call is a stutter of the abstract service.
LEMMA Stutters ==
  ASSUME UNCHANGED <<acct, cred>>,
         \A d \in Caller : /\ Phase(d)' = Phase(d)
                           /\ AnswerOf(d)' = AnswerOf(d)
                           /\ ErrorOf(d)' = ErrorOf(d)
  PROVE  UNCHANGED Promise!vars
<1>1. [d \in Caller |-> Phase(d)]' = [d \in Caller |-> Phase(d)]
  OBVIOUS
<1>2. [d \in Caller |-> AnswerOf(d)]' = [d \in Caller |-> AnswerOf(d)]
  OBVIOUS
<1>3. [d \in Caller |-> ErrorOf(d)]' = [d \in Caller |-> ErrorOf(d)]
  OBVIOUS
<1> QED
  BY <1>1, <1>2, <1>3 DEF Promise!vars

\* The initial state is an initial state of the abstract service.
LEMMA PromiseInit == Init => Promise!Init
  BY DEF Init, Promise!Init, Phase, AnswerOf, ErrorOf

\* The answer a step gives to group, that it may give it, and that it changes nothing
\* for the others.
Answered(c, group) ==
  /\ UNCHANGED <<acct, cred>>
  /\ \A d \in group : /\ pc[d] \notin {"idle", "done"} /\ acct[d] = acct[c]
                      /\ pc'[d] = "done" /\ token'[d] = token'[c] /\ err'[d] = err'[c]
  /\ \A d \in Caller \ group :
       Phase(d)' = Phase(d) /\ AnswerOf(d)' = AnswerOf(d) /\ ErrorOf(d)' = ErrorOf(d)
  /\ \/ err'[c] = "" /\ token'[c] = cred[c]
     \/ err'[c] \in Failure /\ token'[c] = NoToken

\* Ending a call answers its leader and all its waiters: with the leader's token,
\* minted from the leader's own credential, or with its error.
LEMMA AnswerStep ==
  IInv => \A c \in Caller : \A group \in SUBSET Caller :
            c \in group /\ Answered(c, group) => Promise!Next
<1> SUFFICES ASSUME IInv, NEW c \in Caller, NEW group \in SUBSET Caller,
                    c \in group, Answered(c, group)
             PROVE  Promise!Next
  OBVIOUS
<1> DEFINE t == token'[c]
           e == err'[c]
<1>a. UNCHANGED <<acct, cred>>
  BY DEF Answered
<1>b. \A d \in group : pc[d] \notin {"idle", "done"} /\ acct[d] = acct[c]
  BY DEF Answered
<1>c. \A d \in group : pc'[d] = "done" /\ token'[d] = t /\ err'[d] = e
  BY DEF Answered
<1>d. \A d \in Caller \ group :
        Phase(d)' = Phase(d) /\ AnswerOf(d)' = AnswerOf(d) /\ ErrorOf(d)' = ErrorOf(d)
  BY DEF Answered
<1>e. (e = "" /\ t = cred[c]) \/ (e \in Failure /\ t = NoToken)
  BY DEF Answered
<1> HIDE DEF t, e
<1>1. cred[c] \in Cred
  BY <1>a, <1>b, <1>c, <1>d, <1>e DEF IInv, CallsWellFormed
<1>2. t \in Cred \cup {NoToken} /\ e \in Promise!Failure \cup {""}
  BY <1>a, <1>b, <1>c, <1>d, <1>e, <1>1 DEF Failure, Promise!Failure
<1>3. Promise!AnswerAll(group, t, e)
  <2>1. \A d \in group : Phase(d) = "asked"
    BY <1>a, <1>b, <1>c, <1>d, <1>e DEF Phase
  <2>2. Promise!Sound(group, t, e)
    BY <1>a, <1>b, <1>c, <1>d, <1>e DEF Promise!Sound, Promise!Failure, Failure
  <2>3. [d \in Caller |-> Phase(d)]'
          = [d \in Caller |-> IF d \in group THEN "answered" ELSE [x \in Caller |-> Phase(x)][d]]
    <3>1. \A d \in group : Phase(d)' = "answered"
      BY <1>a, <1>b, <1>c, <1>d, <1>e DEF Phase
    <3> QED
      BY <1>a, <1>b, <1>c, <1>d, <1>e, <3>1
  <2>4. [d \in Caller |-> AnswerOf(d)]'
          = [d \in Caller |-> IF d \in group THEN t ELSE [x \in Caller |-> AnswerOf(x)][d]]
    <3>1. \A d \in group : AnswerOf(d)' = t
      BY <1>a, <1>b, <1>c, <1>d, <1>e DEF AnswerOf
    <3> QED
      BY <1>a, <1>b, <1>c, <1>d, <1>e, <3>1
  <2>5. [d \in Caller |-> ErrorOf(d)]'
          = [d \in Caller |-> IF d \in group THEN e ELSE [x \in Caller |-> ErrorOf(x)][d]]
    <3>1. \A d \in group : ErrorOf(d)' = e
      BY <1>a, <1>b, <1>c, <1>d, <1>e DEF ErrorOf
    <3> QED
      BY <1>a, <1>b, <1>c, <1>d, <1>e, <3>1
  <2> QED
    BY <1>a, <1>b, <1>c, <1>d, <1>e, <2>1, <2>2, <2>3, <2>4, <2>5 DEF Promise!AnswerAll
<1> QED
  BY <1>2, <1>3 DEF Promise!Next

\* Every step is a step of the abstract service or leaves it as it is.
LEMMA PromiseStep == IInv /\ [Next]_vars => [Promise!Next]_Promise!vars
<1> SUFFICES ASSUME IInv, [Next]_vars PROVE Promise!Next \/ UNCHANGED Promise!vars
  OBVIOUS
<1>1. /\ pc \in [Caller -> Pc]
      /\ acct \in [Caller -> Account \cup {NoAccount}]
      /\ cred \in [Caller -> Cred \cup {NoToken}]
      /\ token \in [Caller -> Cred \cup {NoToken}]
      /\ err \in [Caller -> Failure \cup {""}]
  BY DEF IInv, TypeOK
<1>2. ASSUME NEW c \in Caller, NEW r \in Cred, Begin(c, accountOf[r], r) PROVE Promise!Next
  <2>1. [d \in Caller |-> Phase(d)]' = [[d \in Caller |-> Phase(d)] EXCEPT ![c] = "asked"]
    BY <1>1, <1>2 DEF Begin, Phase
  <2>2. [d \in Caller |-> AnswerOf(d)]' = [d \in Caller |-> AnswerOf(d)]
    BY <1>1, <1>2 DEF Begin, AnswerOf
  <2>3. [d \in Caller |-> ErrorOf(d)]' = [d \in Caller |-> ErrorOf(d)]
    BY <1>1, <1>2 DEF Begin, ErrorOf
  <2>4. Promise!Ask(c, r)
    BY <1>2, <2>1, <2>2, <2>3 DEF Begin, Phase, Promise!Ask
  <2> QED
    BY <2>4 DEF Promise!Next
<1>3. ASSUME NEW c \in Caller, Local(c) PROVE Promise!Next \/ UNCHANGED Promise!vars
  <2>1. CASE Hit(c)
    <3>1. entries[acct[c]].accessToken = cred[c] /\ err[c] = ""
      BY <2>1, OwnEntry DEF Hit, IInv, CallsWellFormed
    <3>2. Answered(c, {c})
      BY <1>1, <2>1, <3>1 DEF Hit, Answered, Phase, AnswerOf, ErrorOf
    <3> QED
      BY <3>2, AnswerStep
  <2>2. CASE Finish(c)
    <3> DEFINE group == {c} \cup Waiting(c)
    <3>1. \/ err[c] = "" /\ token[c] = cred[c]
          \/ err[c] \in Failure /\ token[c] = NoToken
      BY <1>1, <2>2 DEF Finish, IInv, CallsWellFormed, OnlyJoinersGetForeignTokens
    <3>2. /\ \A d \in group : pc[d] \notin {"idle", "done"} /\ acct[d] = acct[c]
          /\ \A d \in group : pc'[d] = "done" /\ token'[d] = token[c] /\ err'[d] = err[c]
      <4>1. \A d \in group : pc[d] \notin {"idle", "done"} /\ acct[d] = acct[c]
        BY <2>2 DEF Finish, Waiting, IInv, OneFlightPerAccount
      <4>2. \A d \in group : pc'[d] = "done" /\ token'[d] = token[c] /\ err'[d] = err[c]
        BY <2>2 DEF Finish, Waiting
      <4> QED
        BY <4>1, <4>2
    <3>3. \A d \in Caller \ group :
            Phase(d)' = Phase(d) /\ AnswerOf(d)' = AnswerOf(d) /\ ErrorOf(d)' = ErrorOf(d)
      BY <1>1, <2>2 DEF Finish, Waiting, Phase, AnswerOf, ErrorOf
    <3>4. UNCHANGED <<acct, cred>>
      BY <2>2 DEF Finish
    <3>5. group \in SUBSET Caller /\ c \in group
      BY DEF Waiting
    <3> HIDE DEF group
    <3>6. Answered(c, group)
      BY <3>1, <3>2, <3>3, <3>4, <3>5 DEF Answered
    <3> QED
      BY <3>5, <3>6, AnswerStep
  <2>3. CASE Miss(c) \/ Lead(c) \/ Join(c) \/ RecheckHit(c) \/ RecheckMiss(c) \/ StoreEntry(c)
    <3>1. /\ UNCHANGED <<acct, cred>>
          /\ \A d \in Caller : /\ Phase(d)' = Phase(d)
                               /\ AnswerOf(d)' = AnswerOf(d)
                               /\ ErrorOf(d)' = ErrorOf(d)
      BY <1>1, <2>3
         DEF Miss, Lead, Join, RecheckHit, RecheckMiss, StoreEntry, Phase, AnswerOf, ErrorOf
    <3> QED
      BY <3>1, Stutters
  <2> QED
    BY <1>3, <2>1, <2>2, <2>3 DEF Local
<1>4. ASSUME NEW c \in Caller, Answer(c) PROVE UNCHANGED Promise!vars
  <2>1. /\ UNCHANGED <<acct, cred>>
        /\ \A d \in Caller : /\ Phase(d)' = Phase(d)
                             /\ AnswerOf(d)' = AnswerOf(d)
                             /\ ErrorOf(d)' = ErrorOf(d)
    BY <1>1, <1>4 DEF Answer, RefreshOk, RefreshFailed, Phase, AnswerOf, ErrorOf
  <2> QED
    BY <2>1, Stutters
<1>5. ASSUME NEW c \in Caller, Return(c) PROVE Promise!Next
  <2>1. [d \in Caller |-> Phase(d)]' = [[d \in Caller |-> Phase(d)] EXCEPT ![c] = "idle"]
    BY <1>1, <1>5 DEF Return, Phase
  <2>2. [d \in Caller |-> AnswerOf(d)]' = [[d \in Caller |-> AnswerOf(d)] EXCEPT ![c] = NoToken]
    BY <1>1, <1>5 DEF Return, AnswerOf
  <2>3. [d \in Caller |-> ErrorOf(d)]' = [[d \in Caller |-> ErrorOf(d)] EXCEPT ![c] = ""]
    BY <1>1, <1>5 DEF Return, ErrorOf
  <2>4. Promise!Leave(c)
    BY <1>5, <2>1, <2>2, <2>3 DEF Return, Phase, Promise!Leave
  <2> QED
    BY <2>4 DEF Promise!Next
<1>6. CASE Tick \/ UNCHANGED vars \/ \E a \in Account : Forget(a)
  <2>1. /\ UNCHANGED <<acct, cred>>
        /\ \A d \in Caller : /\ Phase(d)' = Phase(d)
                             /\ AnswerOf(d)' = AnswerOf(d)
                             /\ ErrorOf(d)' = ErrorOf(d)
    BY <1>6 DEF Tick, vars, Forget, Phase, AnswerOf, ErrorOf
  <2> QED
    BY <2>1, Stutters
<1> QED
  BY <1>2, <1>3, <1>4, <1>5, <1>6 DEF Next

\* TokenManager implements the AccessTokens interface.
THEOREM Refinement == Spec => KeepsPromise
  BY Invariance, PromiseInit, PromiseStep, PTL DEF Spec, KeepsPromise, Promise!Spec

-----------------------------------------------------------------------------
(* The cache with what it caches tokens of.  A row carries a refresh token *)
(* of its own account, and a caller works on the row it read until it is   *)
(* through; so whatever has Google, Drive or the key turn credentials down *)
(* is about the account that is flagged for it.                            *)

RowsWellFormed ==
  /\ stored \in [Account -> Cred \cup {NoToken}]
  /\ status \in [Account -> {"connected", "reauth_required"}]
  /\ note \in [Caller -> {"none", "forget", "status"}]
  /\ about \in [Caller -> Account \cup {NoAccount}]
  /\ \A a \in Account : stored[a] # NoToken => accountOf[stored[a]] = a

\* A caller in a call, or in NoteFailure, works on the row of one account.
AboutOneRow ==
  \A c \in Caller :
    /\ pc[c] # "idle" => about[c] = acct[c]
    /\ pc[c] # "idle" \/ note[c] # "none" => about[c] \in Account
    /\ note[c] \in {"forget", "status"} => pc[c] \in {"idle", "done"}

WithCause ==
  \A c \in Caller :
    /\ err[c] = "reauth_required" => acct[c] \in refused
    /\ note[c] \in {"forget", "status"} => Cause(about[c])

LInv == IInv /\ RowsWellFormed /\ AboutOneRow /\ WithCause /\ FlaggedOnlyWithCause

LEMMA LInvInit == LInit => LInv
<1> SUFFICES ASSUME LInit PROVE LInv
  OBVIOUS
<1>1. IInv
  BY InitIInv DEF LInit
<1>2. RowsWellFormed
  BY DEF LInit, RowsWellFormed
<1>3. AboutOneRow
  BY DEF LInit, Init, AboutOneRow
<1>4. WithCause
  BY DEF LInit, Init, WithCause
<1>5. FlaggedOnlyWithCause
  BY DEF LInit, FlaggedOnlyWithCause
<1> QED BY <1>1, <1>2, <1>3, <1>4, <1>5 DEF LInv

\* A request uses the cache as its callers may.
LEMMA UsesCache == LInv /\ [LNext]_lvars => [Next]_vars
<1> SUFFICES ASSUME LInv, [LNext]_lvars PROVE [Next]_vars
  OBVIOUS
<1>1. ASSUME NEW c \in Caller, NEW a \in Account, ReadRow(c, a) PROVE [Next]_vars
  <2>1. stored[a] \in Cred /\ accountOf[stored[a]] = a
    BY <1>1 DEF LInv, RowsWellFormed, ReadRow
  <2> QED BY <1>1, <2>1 DEF ReadRow, Next
<1>2. ASSUME NEW c \in Caller, InsideAccessToken(c) PROVE Next
  BY <1>2 DEF InsideAccessToken, Next
<1>3. ASSUME NEW c \in Caller, GoogleAnswers(c) PROVE Next
  BY <1>3 DEF GoogleAnswers, Next, Answer
<1>4. ASSUME NEW c \in Caller, Leave(c) \/ NoteStatus(c) PROVE [Next]_vars
  BY <1>4 DEF Leave, NoteStatus, Next
<1>5. ASSUME NEW c \in Caller, NoteForget(c) PROVE Next
  <2>1. about[c] \in Account
    BY <1>5 DEF NoteForget, LInv, AboutOneRow
  <2> QED BY <1>5, <2>1 DEF NoteForget, Next
<1>6. ASSUME NEW a \in Account, DisconnectForget(a) PROVE Next
  BY <1>6 DEF DisconnectForget, Next
<1>7. ASSUME NEW a \in Account,
             \/ \E r \in Cred : Reconnect(a, r)
             \/ GrantLost(a) \/ DisconnectRead(a) \/ DisconnectRevoke(a) \/ DisconnectDelete(a)
      PROVE  UNCHANGED vars
  BY <1>7 DEF Reconnect, GrantLost, DisconnectRead, DisconnectRevoke, DisconnectDelete
<1>8. CASE ClockTick
  BY <1>8 DEF ClockTick, Next
<1>9. CASE UNCHANGED lvars
  BY <1>9 DEF lvars
<1> QED BY <1>1, <1>2, <1>3, <1>4, <1>5, <1>6, <1>7, <1>8, <1>9 DEF LNext, Request, Disconnect

\* Cause that was is: refusals are not forgotten, and no row is sealed anew under a key
\* that is gone.
LEMMA CauseStays ==
  [LNext]_lvars => refused \subseteq refused' /\ \A a \in Account : Cause(a) => Cause(a)'
<1> SUFFICES ASSUME [LNext]_lvars PROVE refused \subseteq refused' /\ foreign' = foreign
  BY DEF Cause
<1>1. CASE \E a \in Account : \/ \E r \in Cred : Reconnect(a, r)
                              \/ GrantLost(a) \/ DisconnectRead(a) \/ Disconnect(a)
  BY <1>1 DEF Reconnect, GrantLost, DisconnectRead, Disconnect, DisconnectRevoke,
              DisconnectForget, DisconnectDelete
<1>2. CASE \E c \in Caller : Request(c) \/ \E a \in Account : ReadRow(c, a)
  BY <1>2 DEF Request, InsideAccessToken, GoogleAnswers, Leave, NoteForget, NoteStatus, ReadRow,
              rowVars
<1>3. CASE ClockTick \/ UNCHANGED lvars
  BY <1>3 DEF ClockTick, lvars, rowVars
<1> QED BY <1>1, <1>2, <1>3 DEF LNext

LEMMA RowsStep == RowsWellFormed /\ [LNext]_lvars => RowsWellFormed'
<1> SUFFICES ASSUME RowsWellFormed, [LNext]_lvars PROVE RowsWellFormed'
  OBVIOUS
<1>1. ASSUME NEW a \in Account, NEW r \in Cred, Reconnect(a, r) PROVE RowsWellFormed'
  BY <1>1 DEF Reconnect, RowsWellFormed
<1>2. ASSUME NEW a \in Account, GrantLost(a) \/ DisconnectRead(a) \/ Disconnect(a)
      PROVE  RowsWellFormed'
  BY <1>2 DEF GrantLost, DisconnectRead, Disconnect, DisconnectRevoke, DisconnectForget,
              DisconnectDelete, RowsWellFormed
<1>3. ASSUME NEW c \in Caller, Leave(c) \/ NoteForget(c) \/ NoteStatus(c)
      PROVE  RowsWellFormed'
  BY <1>3 DEF Leave, NoteForget, NoteStatus, RowsWellFormed, rowVars
<1>4. ASSUME NEW c \in Caller, NEW a \in Account, ReadRow(c, a) PROVE RowsWellFormed'
  BY <1>4 DEF ReadRow, RowsWellFormed, rowVars
<1>5. CASE \/ \E c \in Caller : InsideAccessToken(c) \/ GoogleAnswers(c)
           \/ ClockTick \/ UNCHANGED lvars
  BY <1>5 DEF InsideAccessToken, GoogleAnswers, ClockTick, lvars, rowVars, RowsWellFormed
<1> QED BY <1>1, <1>2, <1>3, <1>4, <1>5 DEF LNext, Request

\* The steps of LNext that neither touch the cache nor a call.
Aside ==
  \/ \E a \in Account : \/ \E r \in Cred : Reconnect(a, r)
                        \/ GrantLost(a) \/ DisconnectRead(a)
                        \/ DisconnectRevoke(a) \/ DisconnectDelete(a)
  \/ UNCHANGED lvars

LEMMA AsideStep == Aside => UNCHANGED <<vars, refused, about, note>>
BY DEF Aside, Reconnect, GrantLost, DisconnectRead, DisconnectRevoke, DisconnectDelete, lvars

\* What a step of the cache leaves alone.
LEMMA LocalStep ==
  ASSUME LInv, NEW c \in Caller, Local(c)
  PROVE  /\ UNCHANGED <<acct, cred>>
         /\ \A w \in Caller : pc[w] = "idle" <=> pc'[w] = "idle"
         /\ \A w \in Caller : pc[w] = "done" => pc'[w] = "done"
         /\ \A w \in Caller : err'[w] # err[w] => err'[w] = err[c] /\ acct[w] = acct[c]
<1>1. TypeOK /\ CallsWellFormed /\ OneFlightPerAccount
  BY DEF LInv, IInv
<1>2. CASE Hit(c) \/ RecheckHit(c)
  BY <1>1, <1>2 DEF Hit, RecheckHit, TypeOK
<1>3. CASE Miss(c) \/ Lead(c) \/ Join(c) \/ RecheckMiss(c)
  BY <1>1, <1>3 DEF Miss, Lead, Join, RecheckMiss, TypeOK
<1>4. CASE StoreEntry(c)
  BY <1>1, <1>4 DEF StoreEntry, TypeOK
<1>5. CASE Finish(c)
  <2>1. \A w \in Waiting(c) : w \in Caller /\ pc[w] = "wait" /\ acct[w] = acct[c]
    BY <1>1 DEF Waiting, OneFlightPerAccount
  <2> QED BY <1>1, <1>5, <2>1 DEF Finish, TypeOK
<1> QED BY <1>2, <1>3, <1>4, <1>5 DEF Local

\* What the steps of a request do to its own caller, and that they leave the others alone.
LEMMA CallerStep ==
  ASSUME LInv, NEW c \in Caller
  PROVE  /\ \A a \in Account : ReadRow(c, a) =>
              /\ \/ note'[c] = "none" /\ err'[c] = "" /\ pc'[c] # "idle" /\ acct'[c] = a
                 \/ note'[c] = "forget" /\ a \in Account /\ stored[a] \in foreign
                      /\ UNCHANGED <<pc, acct, err>>
              /\ about'[c] = a
              /\ \A w \in Caller \ {c} : /\ note'[w] = note[w] /\ about'[w] = about[w]
                                         /\ pc'[w] = pc[w] /\ acct'[w] = acct[w]
                                         /\ err'[w] = err[w]
         /\ Leave(c) \/ NoteStatus(c) =>
              /\ pc'[c] = "idle" /\ note'[c] = "none" /\ err'[c] = ""
              /\ \A w \in Caller \ {c} : /\ note'[w] = note[w] /\ about'[w] = about[w]
                                         /\ pc'[w] = pc[w] /\ acct'[w] = acct[w]
                                         /\ err'[w] = err[w]
<1>1. TypeOK /\ CallsWellFormed /\ RowsWellFormed /\ AboutOneRow
  BY DEF LInv, IInv
<1>2. pc[c] = "idle" => err[c] = ""
  BY <1>1 DEF CallsWellFormed
<1>3. ASSUME NEW a \in Account, ReadRow(c, a)
      PROVE  /\ \/ note'[c] = "none" /\ err'[c] = "" /\ pc'[c] # "idle" /\ acct'[c] = a
                \/ note'[c] = "forget" /\ a \in Account /\ stored[a] \in foreign
                     /\ UNCHANGED <<pc, acct, err>>
             /\ about'[c] = a
             /\ \A w \in Caller \ {c} : /\ note'[w] = note[w] /\ about'[w] = about[w]
                                        /\ pc'[w] = pc[w] /\ acct'[w] = acct[w]
                                        /\ err'[w] = err[w]
  <2>1. about'[c] = a /\ \A w \in Caller \ {c} : about'[w] = about[w]
    BY <1>1, <1>3 DEF ReadRow, RowsWellFormed
  <2>2. CASE stored[a] \notin foreign /\ Begin(c, a, stored[a]) /\ note' = note
    BY <1>1, <1>2, <1>3, <2>1, <2>2 DEF ReadRow, Begin, TypeOK
  <2>3. CASE stored[a] \in foreign /\ note' = [note EXCEPT ![c] = "forget"] /\ UNCHANGED vars
    BY <1>1, <2>1, <2>3 DEF vars, RowsWellFormed
  <2> QED BY <1>3, <2>2, <2>3 DEF ReadRow
<1>4. ASSUME Leave(c) \/ NoteStatus(c)
      PROVE  /\ pc'[c] = "idle" /\ note'[c] = "none" /\ err'[c] = ""
             /\ \A w \in Caller \ {c} : /\ note'[w] = note[w] /\ about'[w] = about[w]
                                        /\ pc'[w] = pc[w] /\ acct'[w] = acct[w]
                                        /\ err'[w] = err[w]
  <2>1. note'[c] = "none" /\ \A w \in Caller \ {c} : note'[w] = note[w] /\ about'[w] = about[w]
    BY <1>1, <1>4 DEF Leave, NoteStatus, RowsWellFormed
  <2>2. Return(c) \/ (UNCHANGED vars /\ pc[c] # "done" /\ note[c] = "status")
    BY <1>4 DEF Leave, NoteStatus
  <2>3. CASE Return(c)
    BY <1>1, <2>1, <2>3 DEF Return, TypeOK
  <2>4. CASE UNCHANGED vars /\ pc[c] # "done" /\ note[c] = "status"
    <3>1. pc[c] = "idle"
      BY <1>1, <2>4 DEF AboutOneRow
    <3> QED BY <1>2, <2>1, <2>4, <3>1 DEF vars
  <2> QED BY <2>2, <2>3, <2>4
<1> QED BY <1>3, <1>4

LEMMA AboutStep == LInv /\ [LNext]_lvars => AboutOneRow'
<1> SUFFICES ASSUME LInv, [LNext]_lvars PROVE AboutOneRow'
  OBVIOUS
<1>1. TypeOK /\ RowsWellFormed /\ AboutOneRow
  BY DEF LInv, IInv
<1>2. ASSUME NEW c \in Caller, NEW a \in Account, ReadRow(c, a) PROVE AboutOneRow'
  <2>1. pc[c] = "idle"
    BY <1>2 DEF ReadRow
  <2>2. /\ about'[c] = a
        /\ \/ note'[c] = "none" /\ acct'[c] = a
           \/ note'[c] = "forget" /\ pc'[c] = "idle"
    BY <1>2, <2>1, CallerStep
  <2>3. \A w \in Caller \ {c} : /\ note'[w] = note[w] /\ about'[w] = about[w]
                                 /\ pc'[w] = pc[w] /\ acct'[w] = acct[w]
    BY <1>2, CallerStep
  <2> QED BY <1>1, <2>2, <2>3 DEF AboutOneRow
<1>3. ASSUME NEW c \in Caller, InsideAccessToken(c) PROVE AboutOneRow'
  BY <1>1, <1>3, LocalStep DEF InsideAccessToken, AboutOneRow
<1>4. ASSUME NEW c \in Caller, GoogleAnswers(c) PROVE AboutOneRow'
  <2>1. /\ UNCHANGED <<acct, about, note>> /\ pc[c] = "refresh"
        /\ \A w \in Caller : w = c \/ pc'[w] = pc[w]
    BY <1>1, <1>4 DEF GoogleAnswers, RefreshOk, RefreshFailed, TypeOK
  <2> QED BY <1>1, <2>1 DEF AboutOneRow
<1>5. ASSUME NEW c \in Caller, Leave(c) \/ NoteStatus(c) PROVE AboutOneRow'
  BY <1>1, <1>5, CallerStep DEF AboutOneRow
<1>6. ASSUME NEW c \in Caller, NoteForget(c) PROVE AboutOneRow'
  <2>1. UNCHANGED <<pc, acct, about>> /\ \A w \in Caller \ {c} : note'[w] = note[w]
    BY <1>1, <1>6 DEF NoteForget, Forget, RowsWellFormed
  <2>2. about[c] \in Account /\ pc[c] \in {"idle", "done"}
    BY <1>1, <1>6 DEF NoteForget, AboutOneRow
  <2> QED BY <1>1, <2>1, <2>2 DEF AboutOneRow
<1>7. CASE ClockTick \/ Aside \/ \E a \in Account : DisconnectForget(a)
  <2>1. UNCHANGED <<pc, acct, about, note>>
    BY <1>7, AsideStep DEF ClockTick, Tick, DisconnectForget, Forget, vars
  <2> QED BY <1>1, <2>1 DEF AboutOneRow
<1> QED BY <1>2, <1>3, <1>4, <1>5, <1>6, <1>7 DEF LNext, Request, Disconnect, Aside

LEMMA CauseStep == LInv /\ [LNext]_lvars => WithCause'
<1> SUFFICES ASSUME LInv, [LNext]_lvars PROVE WithCause'
  OBVIOUS
<1>0. refused \subseteq refused' /\ \A a \in Account : Cause(a) => Cause(a)'
  BY CauseStays
<1>1. TypeOK /\ CallsWellFormed /\ RowsWellFormed /\ AboutOneRow /\ WithCause
  BY DEF LInv, IInv
<1> DEFINE Good(w) == /\ err'[w] = "reauth_required" => acct'[w] \in refused'
                      /\ note'[w] \in {"forget", "status"} => Cause(about[w])' /\ about'[w] \in Account
\* A caller whose error, account, note and row stay.
<1>2. ASSUME NEW w \in Caller, acct'[w] = acct[w], err'[w] = err[w], note'[w] = note[w],
             about'[w] = about[w]
      PROVE  Good(w)
  BY <1>0, <1>1, <1>2 DEF WithCause, AboutOneRow, Cause
<1>3. ASSUME NEW w \in Caller, err'[w] = "", note'[w] = "none" PROVE Good(w)
  BY <1>3
<1>4. ASSUME NEW c \in Caller, NEW a \in Account, ReadRow(c, a) PROVE \A w \in Caller : Good(w)
  <2>1. stored[a] # NoToken => accountOf[stored[a]] = a
    BY <1>1 DEF RowsWellFormed
  <2>2. stored[a] # NoToken /\ foreign' = foreign /\ pc[c] = "idle"
    BY <1>4 DEF ReadRow, rowVars
  <2>3. err[c] = ""
    BY <1>1, <2>2 DEF CallsWellFormed
  <2>4. Good(c)
    BY <1>3, <1>4, <2>1, <2>2, <2>3, CallerStep DEF Cause
  <2>5. \A w \in Caller \ {c} : Good(w)
    BY <1>2, <1>4, CallerStep
  <2> QED BY <2>4, <2>5
<1>5. ASSUME NEW c \in Caller, InsideAccessToken(c) PROVE \A w \in Caller : Good(w)
  <2> SUFFICES ASSUME NEW w \in Caller PROVE Good(w)
    OBVIOUS
  <2>1. Local(c) /\ UNCHANGED <<refused, about, note>>
    BY <1>5 DEF InsideAccessToken
  <2>2. acct' = acct /\ (err'[w] # err[w] => err'[w] = err[c] /\ acct[w] = acct[c])
    BY <2>1, LocalStep
  <2>3. CASE err'[w] = err[w]
    BY <1>2, <2>1, <2>2, <2>3
  <2>4. CASE err'[w] = err[c] /\ acct[w] = acct[c]
    BY <1>0, <1>1, <2>1, <2>2, <2>4 DEF WithCause, AboutOneRow, Cause
  <2> QED BY <2>2, <2>3, <2>4
<1>6. ASSUME NEW c \in Caller, GoogleAnswers(c) PROVE \A w \in Caller : Good(w)
  <2>1. /\ UNCHANGED <<acct, about, note>>
        /\ \A w \in Caller \ {c} : err'[w] = err[w]
        /\ \/ err'[c] = err[c] \/ acct[c] \in refused' \/ err'[c] = "upstream_unavailable"
    BY <1>1, <1>6 DEF GoogleAnswers, RefreshOk, RefreshFailed, TypeOK
  <2>2. Good(c)
    BY <1>0, <1>1, <2>1 DEF WithCause, AboutOneRow, Cause
  <2> QED BY <1>2, <2>1, <2>2
<1>7. ASSUME NEW c \in Caller, Leave(c) \/ NoteStatus(c) PROVE \A w \in Caller : Good(w)
  BY <1>2, <1>3, <1>7, CallerStep
<1>8. ASSUME NEW c \in Caller, NoteForget(c) PROVE \A w \in Caller : Good(w)
  <2>1. UNCHANGED <<pc, acct, err, about>> /\ \A w \in Caller \ {c} : note'[w] = note[w]
    BY <1>1, <1>8 DEF NoteForget, Forget, RowsWellFormed
  <2>2. about[c] \in Account /\ (pc[c] # "idle" => about[c] = acct[c])
    BY <1>1, <1>8 DEF NoteForget, AboutOneRow
  <2>3. Cause(about[c])'
    <3>1. CASE note[c] = "forget"
      BY <1>0, <1>1, <2>1, <2>2, <3>1 DEF WithCause, Cause
    <3>2. CASE pc[c] = "done" /\ CredentialsRejected(c)
      BY <1>0, <1>1, <2>1, <2>2, <3>2 DEF WithCause, Cause, CredentialsRejected
    <3>3. CASE refused' = refused \cup {about[c]}
      BY <2>1, <3>3 DEF Cause
    <3> QED BY <1>8, <3>1, <3>2, <3>3 DEF NoteForget
  <2>4. Good(c)
    BY <1>0, <1>1, <2>1, <2>2, <2>3 DEF WithCause
  <2> QED BY <1>2, <2>1, <2>4
<1>9. ASSUME ClockTick \/ Aside \/ \E a \in Account : DisconnectForget(a)
      PROVE  \A w \in Caller : Good(w)
  <2>1. UNCHANGED <<acct, err, about, note>>
    BY <1>9, AsideStep DEF ClockTick, Tick, DisconnectForget, Forget, vars
  <2> QED BY <1>2, <2>1
<1> HIDE DEF Good
<1>10. \A w \in Caller : Good(w)
  BY <1>4, <1>5, <1>6, <1>7, <1>8, <1>9 DEF LNext, Request, Disconnect, Aside
<1> QED BY <1>10 DEF WithCause, Good

LEMMA FlaggedStep == LInv /\ [LNext]_lvars => FlaggedOnlyWithCause'
<1> SUFFICES ASSUME LInv, [LNext]_lvars PROVE FlaggedOnlyWithCause'
  OBVIOUS
<1>0. \A a \in Account : Cause(a) => Cause(a)'
  BY CauseStays
<1>1. /\ \A a \in Account : status[a] = "reauth_required" => Cause(a)
      /\ status \in [Account -> {"connected", "reauth_required"}]
  BY DEF LInv, FlaggedOnlyWithCause, RowsWellFormed
<1>2. \A a \in Account : status'[a] = "reauth_required" => status[a] = status'[a] \/ Cause(a)
  <2>1. ASSUME NEW c \in Caller, NoteStatus(c)
        PROVE  \A a \in Account : status'[a] = status[a] \/ Cause(a)
    <3>1. Cause(about[c])
      BY <2>1 DEF LInv, WithCause, NoteStatus
    <3> QED BY <1>1, <2>1, <3>1 DEF NoteStatus
  <2>2. ASSUME NEW a \in Account, NEW r \in Cred, Reconnect(a, r)
        PROVE  \A b \in Account : status'[b] \in {status[b], "connected"}
    BY <1>1, <2>2 DEF Reconnect
  <2>3. CASE \/ \E c \in Caller : \/ InsideAccessToken(c) \/ GoogleAnswers(c) \/ Leave(c)
                                  \/ NoteForget(c)
                                  \/ \E a \in Account : ReadRow(c, a)
             \/ \E a \in Account : GrantLost(a) \/ DisconnectRead(a) \/ Disconnect(a)
             \/ ClockTick \/ UNCHANGED lvars
    <3>1. status' = status
      BY <2>3 DEF InsideAccessToken, GoogleAnswers, Leave, NoteForget, ReadRow, GrantLost,
                  DisconnectRead, Disconnect, DisconnectRevoke, DisconnectForget,
                  DisconnectDelete, ClockTick, lvars, rowVars
    <3> QED BY <3>1
  <2> QED BY <2>1, <2>2, <2>3 DEF LNext, Request
<1>3. \A a \in Account : status'[a] = "reauth_required" => Cause(a)'
  BY <1>0, <1>1, <1>2
<1> QED BY <1>3 DEF FlaggedOnlyWithCause

LEMMA LInvariance == LSpec => []LInv
<1>1. LInv /\ [LNext]_lvars => LInv'
  <2>1. LInv /\ [Next]_vars => IInv'
    BY IInvStep DEF LInv
  <2>2. LInv /\ [LNext]_lvars => RowsWellFormed'
    BY RowsStep DEF LInv
  <2> QED BY <2>1, <2>2, UsesCache, AboutStep, CauseStep, FlaggedStep DEF LInv
<1> QED BY <1>1, LInvInit, PTL DEF LSpec

\* Requests, reconnects, disconnects and lost grants use the cache as TokenManager has it
\* used, so all that is proved of the cache alone holds of it among them.
THEOREM CacheAmongRequests == LSpec => Spec
<1>1. LInit => Init
  BY DEF LInit
<1> QED BY <1>1, UsesCache, LInvariance, PTL DEF LSpec, Spec

\* A row is flagged reauth_required only with cause in the credentials of its own account:
\* Google or Drive refused some, or they are sealed under a key that is gone.  No outage,
\* and no failure of another account, flags it (NoteFailure).
THEOREM FlagsWithCause == LSpec => []FlaggedOnlyWithCause
<1>1. LInv => FlaggedOnlyWithCause
  BY DEF LInv
<1> QED BY <1>1, LInvariance, PTL
=============================================================================

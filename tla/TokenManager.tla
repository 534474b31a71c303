---------------------------- MODULE TokenManager ----------------------------
(***************************************************************************)
(* The access-token cache of the API process (internal/google/tokens.go).  *)
(*                                                                         *)
(* Goroutines (Caller) ask for an access token of an account, each with    *)
(* the refresh token it read from the account row.  A fresh cache entry    *)
(* whose fingerprint matches is served at once; otherwise the caller       *)
(* enters singleflight.Do, where one leader per account refreshes at       *)
(* Google and every caller that joins meanwhile gets the leader's result.  *)
(*                                                                         *)
(* A step is one critical section: the RWMutex around entries, the mutex   *)
(* of the singleflight group, or one answer of Google's token endpoint.    *)
(* An access token is represented by the refresh token it was minted from, *)
(* the one fact about it that the properties need; its expiry is kept      *)
(* where the code keeps it.                                                *)
(***************************************************************************)
EXTENDS Integers, FiniteSets

CONSTANTS
  Account,          \* connected account ids
  Cred,             \* refresh tokens
  Caller,           \* goroutines inside AccessToken
  Fingerprint,      \* truncated hashes of refresh tokens
  fingerprintOf,    \* [Cred -> Fingerprint]
  accountOf,        \* [Cred -> Account]: the account a refresh token was issued for
  Lifetimes,        \* lifetimes, in ticks, that Google may put on an access token
  DefaultLifetime,  \* defaultTokenLifetime
  RefreshSkew,      \* refreshSkew
  MaxTime,          \* bound on the clock
  NoToken, NoEntry, NoCaller, NoAccount

\* Sixty-four bits of SHA-256: two refresh tokens in use share no fingerprint.
ASSUME FingerprintAssumption ==
  /\ fingerprintOf \in [Cred -> Fingerprint]
  /\ \A r, s \in Cred : fingerprintOf[r] = fingerprintOf[s] => r = s

ASSUME AccountAssumption ==
  /\ accountOf \in [Cred -> Account]
  /\ NoAccount \notin Account

ASSUME CallerAssumption == NoCaller \notin Caller

ASSUME TimeAssumption ==
  /\ Lifetimes \subseteq Nat \ {0}
  /\ DefaultLifetime \in Nat \ {0}
  /\ RefreshSkew \in Nat
  /\ MaxTime \in Nat

ASSUME TokenAssumption == NoToken \notin Cred

\* The zero time.Time, which Token.Expiry is when Google omits expires_in.
ZeroTime == 0

Entry == [accessToken: Cred, expiry: Nat, fingerprint: Fingerprint]

ASSUME EntryAssumption == NoEntry \notin Entry

Failure == {"reauth_required", "upstream_unavailable"}

VARIABLES
  entries,  \* TokenManager.entries
  flight,   \* the singleflight group: the leader of the call in progress per account
  pc,       \* where each caller is in AccessToken
  acct,     \* the accountID it was called with
  cred,     \* the refreshToken it was called with
  lead,     \* the leader whose call it joined
  minted,   \* the expiry of the token the leader got from Google
  token,    \* the access token it has or will return
  err,      \* the error it has or will return, "" when nil
  now       \* wall clock, in ticks

vars == <<entries, flight, pc, acct, cred, lead, minted, token, err, now>>

LeaderPc == {"recheck", "refresh", "store", "finish"}
Pc == {"idle", "lookup", "do", "wait", "done"} \cup LeaderPc

TypeOK ==
  /\ entries \in [Account -> Entry \cup {NoEntry}]
  /\ flight \in [Account -> Caller \cup {NoCaller}]
  /\ pc \in [Caller -> Pc]
  /\ acct \in [Caller -> Account \cup {NoAccount}]
  /\ cred \in [Caller -> Cred \cup {NoToken}]
  /\ lead \in [Caller -> Caller \cup {NoCaller}]
  /\ minted \in [Caller -> Nat]
  /\ token \in [Caller -> Cred \cup {NoToken}]
  /\ err \in [Caller -> Failure \cup {""}]
  /\ now \in Nat

Init ==
  /\ entries = [a \in Account |-> NoEntry]
  /\ flight = [a \in Account |-> NoCaller]
  /\ pc = [c \in Caller |-> "idle"]
  /\ acct = [c \in Caller |-> NoAccount]
  /\ cred = [c \in Caller |-> NoToken]
  /\ lead = [c \in Caller |-> NoCaller]
  /\ minted = [c \in Caller |-> ZeroTime]
  /\ token = [c \in Caller |-> NoToken]
  /\ err = [c \in Caller |-> ""]
  /\ now = 0

\* Mutant: the fingerprint is not compared.
Fresh_NoFingerprint(a, r) ==
  entries[a] # NoEntry /\ entries[a].expiry - now > RefreshSkew

\* cached: an entry of this credential with more than the skew left.
Fresh(a, r) ==
  /\ entries[a] # NoEntry
  /\ entries[a].fingerprint = fingerprintOf[r]
  /\ entries[a].expiry - now > RefreshSkew

-----------------------------------------------------------------------------
(* A goroutine calls AccessToken.                                          *)
Begin(c, a, r) ==
  /\ pc[c] = "idle"
  /\ accountOf[r] = a
  /\ pc' = [pc EXCEPT ![c] = "lookup"]
  /\ acct' = [acct EXCEPT ![c] = a]
  /\ cred' = [cred EXCEPT ![c] = r]
  /\ UNCHANGED <<entries, flight, lead, minted, token, err, now>>

(* The first look at the cache, under the read lock.                       *)
Hit(c) ==
  /\ pc[c] = "lookup"
  /\ Fresh(acct[c], cred[c])
  /\ token' = [token EXCEPT ![c] = entries[acct[c]].accessToken]
  /\ pc' = [pc EXCEPT ![c] = "done"]
  /\ UNCHANGED <<entries, flight, acct, cred, lead, minted, err, now>>

Miss(c) ==
  /\ pc[c] = "lookup"
  /\ ~Fresh(acct[c], cred[c])
  /\ pc' = [pc EXCEPT ![c] = "do"]
  /\ UNCHANGED <<entries, flight, acct, cred, lead, minted, token, err, now>>

\* Mutant: whether a call is in progress is not looked at.
Lead_NoCheck(c) ==
  /\ pc[c] = "do"
  /\ flight' = [flight EXCEPT ![acct[c]] = c]
  /\ pc' = [pc EXCEPT ![c] = "recheck"]
  /\ UNCHANGED <<entries, acct, cred, lead, minted, token, err, now>>

(* singleflight.Do, keyed by the account alone: lead the call, or join it. *)
Lead(c) ==
  /\ pc[c] = "do"
  /\ flight[acct[c]] = NoCaller
  /\ flight' = [flight EXCEPT ![acct[c]] = c]
  /\ pc' = [pc EXCEPT ![c] = "recheck"]
  /\ UNCHANGED <<entries, acct, cred, lead, minted, token, err, now>>

\* Mutant: one key for the calls of all accounts.
Join_AnyAccount(c) ==
  /\ pc[c] = "do"
  /\ \E a \in Account : flight[a] # NoCaller /\ lead' = [lead EXCEPT ![c] = flight[a]]
  /\ pc' = [pc EXCEPT ![c] = "wait"]
  /\ UNCHANGED <<entries, flight, acct, cred, minted, token, err, now>>

Join(c) ==
  /\ pc[c] = "do"
  /\ flight[acct[c]] # NoCaller
  /\ lead' = [lead EXCEPT ![c] = flight[acct[c]]]
  /\ pc' = [pc EXCEPT ![c] = "wait"]
  /\ UNCHANGED <<entries, flight, acct, cred, minted, token, err, now>>

(* The leader looks again: the refresh it queued behind may have filled    *)
(* the cache.                                                              *)
RecheckHit(c) ==
  /\ pc[c] = "recheck"
  /\ Fresh(acct[c], cred[c])
  /\ token' = [token EXCEPT ![c] = entries[acct[c]].accessToken]
  /\ pc' = [pc EXCEPT ![c] = "finish"]
  /\ UNCHANGED <<entries, flight, acct, cred, lead, minted, err, now>>

\* Mutant: the leader does not look again.
RecheckMiss_NoLook(c) ==
  /\ pc[c] = "recheck"
  /\ pc' = [pc EXCEPT ![c] = "refresh"]
  /\ UNCHANGED <<entries, flight, acct, cred, lead, minted, token, err, now>>

RecheckMiss(c) ==
  /\ pc[c] = "recheck"
  /\ ~Fresh(acct[c], cred[c])
  /\ pc' = [pc EXCEPT ![c] = "refresh"]
  /\ UNCHANGED <<entries, flight, acct, cred, lead, minted, token, err, now>>

(* Google answers Refresh with a token; expires_in may be missing.         *)
RefreshOk(c, expiry) ==
  /\ pc[c] = "refresh"
  /\ token' = [token EXCEPT ![c] = cred[c]]
  /\ minted' = [minted EXCEPT ![c] = expiry]
  /\ pc' = [pc EXCEPT ![c] = "store"]
  /\ UNCHANGED <<entries, flight, acct, cred, lead, err, now>>

(* Google rejects the refresh token, or the call fails or times out.       *)
RefreshFailed(c, e) ==
  /\ pc[c] = "refresh"
  /\ err' = [err EXCEPT ![c] = e]
  /\ pc' = [pc EXCEPT ![c] = "finish"]
  /\ UNCHANGED <<entries, flight, acct, cred, lead, minted, token, now>>

(* The leader writes the entry, under the write lock.                      *)
ExpiryOf(c) == IF minted[c] = ZeroTime THEN now + DefaultLifetime ELSE minted[c]

StoreEntry(c) ==
  /\ pc[c] = "store"
  /\ entries' = [entries EXCEPT ![acct[c]] =
                   [accessToken |-> token[c],
                    expiry      |-> ExpiryOf(c),
                    fingerprint |-> fingerprintOf[cred[c]]]]
  /\ pc' = [pc EXCEPT ![c] = "finish"]
  /\ UNCHANGED <<flight, acct, cred, lead, minted, token, err, now>>

(* singleflight ends the call: the key goes and every waiter has the       *)
(* leader's value and error.                                               *)
Waiting(c) == {w \in Caller : pc[w] = "wait" /\ lead[w] = c}

\* Mutant: the leader leaves its waiters waiting.
Finish_NoWake(c) ==
  /\ pc[c] = "finish"
  /\ flight' = [flight EXCEPT ![acct[c]] = NoCaller]
  /\ pc' = [pc EXCEPT ![c] = "done"]
  /\ UNCHANGED <<entries, acct, cred, lead, minted, token, err, now>>

\* Mutant: the waiters get the leader's value and not its error.
Finish_DropsError(c) ==
  /\ pc[c] = "finish"
  /\ flight' = [flight EXCEPT ![acct[c]] = NoCaller]
  /\ token' = [w \in Caller |-> IF w \in Waiting(c) THEN token[c] ELSE token[w]]
  /\ pc' = [w \in Caller |-> IF w = c \/ w \in Waiting(c) THEN "done" ELSE pc[w]]
  /\ UNCHANGED <<entries, acct, cred, lead, minted, err, now>>

Finish(c) ==
  /\ pc[c] = "finish"
  /\ flight' = [flight EXCEPT ![acct[c]] = NoCaller]
  /\ token' = [w \in Caller |-> IF w \in Waiting(c) THEN token[c] ELSE token[w]]
  /\ err' = [w \in Caller |-> IF w \in Waiting(c) THEN err[c] ELSE err[w]]
  /\ pc' = [w \in Caller |-> IF w = c \/ w \in Waiting(c) THEN "done" ELSE pc[w]]
  /\ UNCHANGED <<entries, acct, cred, lead, minted, now>>

(* The caller has its answer and the goroutine is free for another call.   *)
Return(c) ==
  /\ pc[c] = "done"
  /\ pc' = [pc EXCEPT ![c] = "idle"]
  /\ acct' = [acct EXCEPT ![c] = NoAccount]
  /\ cred' = [cred EXCEPT ![c] = NoToken]
  /\ lead' = [lead EXCEPT ![c] = NoCaller]
  /\ minted' = [minted EXCEPT ![c] = ZeroTime]
  /\ token' = [token EXCEPT ![c] = NoToken]
  /\ err' = [err EXCEPT ![c] = ""]
  /\ UNCHANGED <<entries, flight, now>>

(* Forget, called on a disconnect and on rejected credentials.             *)
Forget(a) ==
  /\ entries' = [entries EXCEPT ![a] = NoEntry]
  /\ UNCHANGED <<flight, pc, acct, cred, lead, minted, token, err, now>>

Tick ==
  /\ now < MaxTime
  /\ now' = now + 1
  /\ UNCHANGED <<entries, flight, pc, acct, cred, lead, minted, token, err>>

\* The expiry Google may give a token it mints now.
Expiries == {ZeroTime} \cup {now + l : l \in Lifetimes}

\* The steps of one caller, all but the answer of Google.
Local(c) ==
  \/ Hit(c) \/ Miss(c)
  \/ Lead(c) \/ Join(c)
  \/ RecheckHit(c) \/ RecheckMiss(c)
  \/ StoreEntry(c)
  \/ Finish(c)

\* Google's answer to the refresh a caller leads.
Answer(c) ==
  \/ \E x \in Expiries : RefreshOk(c, x)
  \/ \E e \in Failure : RefreshFailed(c, e)

Next ==
  \/ \E c \in Caller :
       \/ \E r \in Cred : Begin(c, accountOf[r], r)
       \/ Local(c)
       \/ Answer(c)
       \/ Return(c)
  \/ \E a \in Account : Forget(a)
  \/ Tick

Spec == Init /\ [][Next]_vars

-----------------------------------------------------------------------------
(* The abstract service this implements: a caller between its call and its *)
(* answer has asked, whatever it is doing inside AccessToken.              *)
Phase(c) == IF pc[c] = "idle" THEN "idle" ELSE IF pc[c] = "done" THEN "answered" ELSE "asked"
AnswerOf(c) == IF pc[c] = "done" THEN token[c] ELSE NoToken
ErrorOf(c) == IF pc[c] = "done" THEN err[c] ELSE ""

Promise == INSTANCE AccessTokens WITH
             phase <- [c \in Caller |-> Phase(c)],
             token <- [c \in Caller |-> AnswerOf(c)],
             err   <- [c \in Caller |-> ErrorOf(c)]

-----------------------------------------------------------------------------
(* Properties                                                              *)

\* At most one call per account is in singleflight, its leader is inside the
\* flight function, and whoever waits waits for a leader of its own account that
\* is still running: no waiter is orphaned, no two refreshes of one account run.
OneFlightPerAccount ==
  /\ \A a \in Account : flight[a] # NoCaller =>
       /\ pc[flight[a]] \in LeaderPc
       /\ acct[flight[a]] = a
  /\ \A c \in Caller : pc[c] \in LeaderPc => flight[acct[c]] = c
  /\ \A c \in Caller : pc[c] = "wait" =>
       /\ lead[c] \in Caller
       /\ pc[lead[c]] \in LeaderPc
       /\ acct[lead[c]] = acct[c]

\* A cache entry carries the fingerprint of the very credential its access token
\* was minted from, and sits under the account that credential belongs to.
EntryMatchesCredential ==
  \A a \in Account : entries[a] # NoEntry =>
    /\ entries[a].fingerprint = fingerprintOf[entries[a].accessToken]
    /\ accountOf[entries[a].accessToken] = a

\* A caller that is answered without an error has an access token of the account
\* it asked for: the shared flight hands nobody a token of another account.
TokenOfOwnAccount ==
  \A c \in Caller : pc[c] = "done" /\ err[c] = "" =>
    /\ token[c] \in Cred
    /\ accountOf[token[c]] = acct[c]

\* Only a caller that joined somebody else's refresh can end with a token of other
\* credentials than its own: a leader, and whoever the cache serves, never does.
OnlyJoinersGetForeignTokens ==
  \A c \in Caller :
    pc[c] \in {"finish", "done"} /\ err[c] = "" /\ lead[c] = NoCaller => token[c] = cred[c]

\* A call under way has its account and its credential, and no answer before the
\* step that gives it one.
CallsWellFormed ==
  \A c \in Caller :
    /\ pc[c] # "idle" => /\ acct[c] \in Account
                        /\ cred[c] \in Cred
                        /\ accountOf[cred[c]] = acct[c]
    /\ pc[c] \in {"idle", "lookup", "do", "wait", "recheck", "refresh"} =>
         token[c] = NoToken /\ err[c] = ""
    /\ pc[c] \in LeaderPc \cup {"idle", "lookup", "do"} => lead[c] = NoCaller
    /\ pc[c] = "store" => token[c] = cred[c] /\ err[c] = ""
    /\ pc[c] = "finish" /\ err[c] # "" => token[c] = NoToken

\* The inductive strengthening of the invariants above (TokenManagerProofs).
IInv ==
  /\ TypeOK
  /\ CallsWellFormed
  /\ OneFlightPerAccount
  /\ EntryMatchesCredential
  /\ OnlyJoinersGetForeignTokens
  /\ TokenOfOwnAccount

\* What the cache serves, at either look, was minted from the caller's own refresh
\* token: after a rotation the old entry is never served.
CacheServesOwnCredential ==
  [][\A c \in Caller :
       pc[c] \in {"lookup", "recheck"} /\ token'[c] # token[c] => token'[c] = cred[c]]_vars

\* Google is never asked to refresh a credential while a usable token of it is in
\* the cache: the second look inside the flight, and that only the leader stores,
\* are what makes this so.
NoRedundantRefresh ==
  \A c \in Caller : pc[c] = "refresh" => ~Fresh(acct[c], cred[c])

\* The token manager does what the AccessTokens interface promises: an answer is
\* shared only among callers of one account, one of whom it is right for.
KeepsPromise == Promise!Spec

=============================================================================

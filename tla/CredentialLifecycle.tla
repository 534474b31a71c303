------------------------- MODULE CredentialLifecycle -------------------------
(***************************************************************************)
(* The token cache together with what it caches tokens of: the account     *)
(* rows, which a reconnect rotates and a disconnect deletes, and the       *)
(* grants at Google, which may be lost at any time.                        *)
(*                                                                         *)
(* A caller is a request that reads the row of an account, opens the       *)
(* refresh token sealed in it, asks the token manager for an access token, *)
(* uses it against Drive, and reports failed credentials with NoteFailure  *)
(* (internal/accounts/service.go).  It works on the row as it read it.  A  *)
(* row sealed under another ENCRYPTION_KEY cannot be opened: that counts   *)
(* as failed credentials, too, and Google is not asked.                    *)
(***************************************************************************)
EXTENDS TokenManager

VARIABLES
  stored,   \* refresh token in the row of each account, NoToken when there is no row
  status,   \* accounts.status of the row: "connected" or "reauth_required"
  issued,   \* refresh tokens Google has issued
  live,     \* those whose grant still stands
  foreign,  \* those sealed under a key this process does not have
  refused,  \* accounts whose credentials Google has refused, at any time
  about,    \* the account whose row each caller works on, NoAccount between requests
  seen,     \* the status in the row each caller read, "connected" between requests
  note,     \* where each caller is in NoteFailure: "none", "forget" or "status"
  disc,     \* where the disconnect of each account is: "no", "revoke", "forget", "delete", "gone"
  revoking  \* the refresh token in the row that the disconnect read

rowVars == <<stored, status, issued, live, foreign, disc, revoking>>
lvars == <<vars, rowVars, refused, about, seen, note>>

LInit ==
  /\ Init
  /\ stored \in {f \in [Account -> Cred] : \A a \in Account : accountOf[f[a]] = a}
  /\ issued = {stored[a] : a \in Account}
  /\ live = issued
  /\ foreign \in SUBSET issued   \* ENCRYPTION_KEY may have changed since these rows were written
  /\ refused = {}
  /\ about = [c \in Caller |-> NoAccount]
  /\ status = [a \in Account |-> "connected"]
  /\ seen = [c \in Caller |-> "connected"]
  /\ note = [c \in Caller |-> "none"]
  /\ disc = [a \in Account |-> "no"]
  /\ revoking = [a \in Account |-> NoToken]

-----------------------------------------------------------------------------
(* GetAccount or ListAccounts, then accessTokenForAccount with that row:   *)
(* a token that can be opened is taken to AccessToken, one that cannot is  *)
(* a failure of the credentials there and then.                            *)
ReadRow(c, a) ==
  /\ pc[c] = "idle" /\ note[c] = "none"
  /\ stored[a] # NoToken
  /\ about' = [about EXCEPT ![c] = a]
  /\ seen' = [seen EXCEPT ![c] = status[a]]
  /\ \/ stored[a] \notin foreign /\ Begin(c, a, stored[a]) /\ note' = note
     \/ stored[a] \in foreign /\ note' = [note EXCEPT ![c] = "forget"] /\ UNCHANGED vars
  /\ UNCHANGED <<rowVars, refused>>

InsideAccessToken(c) ==
  /\ Local(c)
  /\ UNCHANGED <<rowVars, refused, about, seen, note>>

(* Google mints a token while the grant stands, answers invalid_grant once *)
(* it does not, and may be out of reach in either case.                    *)
GoogleAnswers(c) ==
  /\ \/ /\ cred[c] \in live /\ \E x \in Expiries : RefreshOk(c, x)
        /\ refused' = refused
     \/ /\ cred[c] \notin live /\ RefreshFailed(c, "reauth_required")
        /\ refused' = refused \cup {acct[c]}
     \/ /\ RefreshFailed(c, "upstream_unavailable")
        /\ refused' = refused
  /\ UNCHANGED <<rowVars, about, seen, note>>

\* Mutant: any failure counts.
CredentialsRejected_AnyFailure(c) == err[c] # ""

\* AccessToken failed with ReauthRequired, the one failure NoteFailure persists.
CredentialsRejected(c) == err[c] = "reauth_required"

(* The Drive call went well, or failed in a way that says nothing about    *)
(* the credentials, which NoteFailure leaves alone.                        *)
Leave(c) ==
  /\ note[c] = "none"
  /\ err[c] # "reauth_required"
  /\ Return(c)
  /\ about' = [about EXCEPT ![c] = NoAccount]
  /\ seen' = [seen EXCEPT ![c] = "connected"]
  /\ UNCHANGED <<rowVars, refused, note>>

(* NoteFailure: forget the cached token, because the row could not be      *)
(* opened, because AccessToken failed, or because Drive answered 401 to    *)
(* the access token, which it may do whatever has become of the grant ...  *)
NoteForget(c) ==
  /\ \/ note[c] = "forget" /\ refused' = refused
     \/ /\ pc[c] = "done" /\ note[c] = "none"
        /\ \/ CredentialsRejected(c) /\ refused' = refused
           \/ err[c] = "" /\ refused' = refused \cup {about[c]}
  /\ Forget(about[c])
  /\ note' = [note EXCEPT ![c] = "status"]
  /\ UNCHANGED <<rowVars, about, seen>>

(* ... then, unless the row as read already said so, set its status: an    *)
(* UPDATE by account id alone, which matches nothing once the row is gone. *)
NoteStatus(c) ==
  /\ note[c] = "status"
  /\ note' = [note EXCEPT ![c] = "none"]
  /\ status' = IF seen[c] = "connected" /\ stored[about[c]] # NoToken
               THEN [status EXCEPT ![about[c]] = "reauth_required"]
               ELSE status
  /\ IF pc[c] = "done" THEN Return(c) ELSE UNCHANGED vars
  /\ about' = [about EXCEPT ![c] = NoAccount]
  /\ seen' = [seen EXCEPT ![c] = "connected"]
  /\ UNCHANGED <<stored, issued, live, foreign, disc, revoking, refused>>

(* A reconnect stores the refresh token of a new consent, sealed under the *)
(* key this process has.                                                   *)
Reconnect(a, r) ==
  /\ stored[a] # NoToken
  /\ r \notin issued /\ accountOf[r] = a
  /\ issued' = issued \cup {r}
  /\ live' = live \cup {r}
  /\ stored' = [stored EXCEPT ![a] = r]
  /\ status' = [status EXCEPT ![a] = "connected"]
  /\ UNCHANGED <<vars, foreign, disc, revoking, refused, about, seen, note>>

(* The user removes the app at Google, or Google expires the grant.        *)
GrantLost(a) ==
  /\ live' = {r \in live : accountOf[r] # a}
  /\ UNCHANGED <<vars, stored, status, issued, foreign, disc, revoking, refused, about, seen, note>>

(* Disconnect: read the row, revoke its token, forget, delete.             *)
DisconnectRead(a) ==
  /\ disc[a] = "no" /\ stored[a] # NoToken
  /\ revoking' = [revoking EXCEPT ![a] = stored[a]]
  /\ disc' = [disc EXCEPT ![a] = "revoke"]
  /\ UNCHANGED <<vars, stored, status, issued, live, foreign, refused, about, seen, note>>

DisconnectRevoke(a) ==
  /\ disc[a] = "revoke"
  /\ live' \in {live, live \ ({revoking[a]} \ foreign)}   \* best effort, and only what opens
  /\ disc' = [disc EXCEPT ![a] = "forget"]
  /\ revoking' = [revoking EXCEPT ![a] = NoToken]
  /\ UNCHANGED <<vars, stored, status, issued, foreign, refused, about, seen, note>>

DisconnectForget(a) ==
  /\ disc[a] = "forget"
  /\ Forget(a)
  /\ disc' = [disc EXCEPT ![a] = "delete"]
  /\ UNCHANGED <<stored, status, issued, live, foreign, revoking, refused, about, seen, note>>

DisconnectDelete(a) ==
  /\ disc[a] = "delete"
  /\ stored' = [stored EXCEPT ![a] = NoToken]
  /\ disc' = [disc EXCEPT ![a] = "gone"]
  /\ UNCHANGED <<vars, status, issued, live, foreign, revoking, refused, about, seen, note>>

ClockTick == Tick /\ UNCHANGED <<rowVars, refused, about, seen, note>>

Request(c) ==
  \/ InsideAccessToken(c)
  \/ GoogleAnswers(c)
  \/ Leave(c) \/ NoteForget(c) \/ NoteStatus(c)

Disconnect(a) ==
  \/ DisconnectRevoke(a) \/ DisconnectForget(a) \/ DisconnectDelete(a)

LNext ==
  \/ \E c \in Caller : Request(c) \/ \E a \in Account : ReadRow(c, a)
  \/ \E a \in Account : \/ \E r \in Cred : Reconnect(a, r)
                        \/ GrantLost(a)
                        \/ DisconnectRead(a) \/ Disconnect(a)
  \/ ClockTick

LSpec == LInit /\ [][LNext]_lvars

\* Requests that have begun run on, and Google answers or the HTTP client's 20 s timeout
\* ends the refresh.  Nothing obliges a request to come, a user to reconnect or to
\* disconnect, a grant to be lost or the clock to tick.
LFairness == \A c \in Caller : WF_lvars(Request(c))

LFairSpec == LSpec /\ LFairness

-----------------------------------------------------------------------------
(* Properties                                                              *)

\* What may flag an account: Google, or Drive, has refused credentials of it, or its row
\* could not be opened.
Cause(a) == a \in refused \/ \E r \in foreign : accountOf[r] = a

\* An account is flagged reauth_required only if there has been cause in that account's
\* own credentials: an outage, a timeout, a failure handed to whoever had joined the same
\* refresh, or the failure of another account never flags it (NoteFailure: "a Google blip
\* is not a credentials problem").
FlaggedOnlyWithCause == \A a \in Account : status[a] = "reauth_required" => Cause(a)

\* Every call of AccessToken is answered, whatever is rotated, forgotten or deleted
\* meanwhile: the leader of a flight reaches its end and nobody waits for ever.  A caller
\* is time and again between calls or answered, and no step but the answer ends a call.
EveryCallAnswered == \A c \in Caller : []<>(pc[c] \in {"idle", "done"})

\* Once the credentials of an account stop changing, every token handed out for it is,
\* from some time on, one of the credentials stored: the refreshes that were in flight
\* with the old ones end, and what they cached is never served.
RotationConverges ==
  \A a \in Account, r \in Cred :
    <>[](stored[a] = r) =>
      <>[](\A c \in Caller : pc[c] = "done" /\ acct[c] = a /\ err[c] = "" => token[c] = r)

\* docs/api.md: a disconnect "drops the cached access token".  Once it has completed
\* there is no token of the account in memory.
DisconnectDropsToken ==
  \A a \in Account : disc[a] = "gone" => entries[a] = NoEntry
=============================================================================

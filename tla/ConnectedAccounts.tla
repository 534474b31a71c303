-------------------------- MODULE ConnectedAccounts --------------------------
(***************************************************************************)
(* The connected accounts of the users: the accounts table, and the        *)
(* requests that read and write it (internal/accounts/service.go,          *)
(* upsertAccount and completeReconnect of internal/server/routes_auth.go,  *)
(* the account statements of internal/store/sqlite/sqlite.go).             *)
(*                                                                         *)
(* The store has one pooled connection and the handlers use no             *)
(* transaction, so a step is one SQL statement or one call to Google, and  *)
(* the statements of concurrent requests interleave.  A request works on   *)
(* the rows as it read them.  Tokens are asked for afresh here; the cache  *)
(* in between is TokenManager's business.  Refresh tokens are stored       *)
(* sealed with ENCRYPTION_KEY, and a row sealed under another key than the *)
(* process has cannot be opened.                                           *)
(***************************************************************************)
EXTENDS Integers, FiniteSets, Sequences

CONSTANTS
  User, Sub,     \* users, and Google account ids (google_user_id)
  AcctId,        \* account ids (uuids)
  Cred,          \* refresh tokens
  subOf,         \* [Cred -> Sub]: whose consent a refresh token is
  Req,           \* requests, each served once
  Ops,           \* the operations the requests may be
  MaxAccounts,   \* maxAccountsPerUser
  Orders,        \* the bodies a reorder may have: sequences of account ids
  Seeds,         \* the tables a run may start from
  NoRow, NoId, NoUser, NoCred

Scope == {"drive.file", "drive"}
Status == {"connected", "reauth_required"}

Row == [user: User, sub: Sub, scope: Scope, status: Status,
        cred: Cred, order: Nat, used: BOOLEAN]

Tables == [AcctId -> Row \cup {NoRow}]

\* What the schema and the handlers make of the table: one row per user and Google
\* account, holding a refresh token of that Google account.
OneRowPerIdentity(t) ==
  \A i, j \in AcctId :
    t[i] # NoRow /\ t[j] # NoRow /\ t[i].user = t[j].user /\ t[i].sub = t[j].sub => i = j

OwnCredentials(t) == \A i \in AcctId : t[i] # NoRow => subOf[t[i].cred] = t[i].sub

ASSUME CredAssumption == subOf \in [Cred -> Sub] /\ NoCred \notin Cred
ASSUME RowAssumption == NoRow \notin Row \cup [user: User, sub: Sub, cred: Cred]
ASSUME IdAssumption == IsFiniteSet(AcctId) /\ NoId \notin AcctId /\ NoUser \notin User
ASSUME LimitAssumption == MaxAccounts \in Nat
ASSUME OrderAssumption == Orders \subseteq Seq(AcctId)
ASSUME SeedAssumption ==
  Seeds \subseteq {t \in Tables : OneRowPerIdentity(t) /\ OwnCredentials(t)}

Op == {"link", "reconnect", "disconnect", "reorder", "use", "list"}
ASSUME OpAssumption == Ops \subseteq Op

Pc == {"new", "lookup", "count", "create", "get", "update", "revoke", "delete",
       "rows", "write", "call", "note", "touch", "done"}

Outcome == {"", "ok", "not_found", "conflict", "internal", "validation",
            "reauth_required", "upstream_unavailable", "lost"}

VARIABLES
  rows,    \* the accounts table
  ids,     \* account ids ever used
  issued,  \* refresh tokens Google has issued
  live,    \* those whose grant still stands
  foreign, \* those sealed under a key this process does not have
  pc, op, user,   \* of each request: where it is, what it is, who is signed in
  id,      \* the account it is about
  cred,    \* the refresh token of the consent it completes
  scope,   \* the scope that consent was asked for
  snap,    \* the row it read
  list,    \* the rows ListAccounts gave it
  ord,     \* the requested order
  todo,    \* positions of ord still to write, or accounts of a listing still to ask
  out,     \* how it ended
  alone    \* whether no other request was under way at any time since it began

db == <<rows, ids>>
creds == <<issued, live, foreign>>
input == <<op, user, cred, scope, ord>>
vars == <<db, creds, input, pc, id, snap, list, todo, out, alone>>

TypeOK ==
  /\ rows \in Tables /\ ids \subseteq AcctId
  /\ issued \subseteq Cred /\ live \subseteq issued /\ foreign \subseteq issued
  /\ pc \in [Req -> Pc]
  /\ op \in [Req -> Op \cup {""}]
  /\ user \in [Req -> User \cup {NoUser}]
  /\ id \in [Req -> AcctId \cup {NoId}]
  /\ cred \in [Req -> Cred \cup {NoCred}]
  /\ scope \in [Req -> Scope]
  /\ snap \in [Req -> Row \cup {NoRow}]
  /\ list \in [Req -> Tables]
  /\ ord \in [Req -> Orders \cup {<<>>}]
  /\ todo \in [Req -> SUBSET (Nat \cup AcctId)]
  /\ out \in [Req -> Outcome]
  /\ alone \in [Req -> BOOLEAN]

Init ==
  /\ rows \in Seeds
  /\ ids = {i \in AcctId : rows[i] # NoRow}
  /\ issued = {rows[i].cred : i \in ids}
  /\ live = issued
  /\ foreign \in SUBSET issued
  /\ pc = [p \in Req |-> "new"]
  /\ op = [p \in Req |-> ""]
  /\ user = [p \in Req |-> NoUser]
  /\ id = [p \in Req |-> NoId]
  /\ cred = [p \in Req |-> NoCred]
  /\ scope = [p \in Req |-> "drive.file"]
  /\ snap = [p \in Req |-> NoRow]
  /\ list = [p \in Req |-> [i \in AcctId |-> NoRow]]
  /\ ord = [p \in Req |-> <<>>]
  /\ todo = [p \in Req |-> {}]
  /\ out = [p \in Req |-> ""]
  /\ alone = [p \in Req |-> FALSE]

-----------------------------------------------------------------------------
(* The statements of the store.                                            *)

OwnedBy(u) == {i \in AcctId : rows[i] # NoRow /\ rows[i].user = u}

\* Mutant: WHERE id = ?
Found_AnyUser(p) == rows[id[p]] # NoRow

\* GetAccount: WHERE user_id = ? AND id = ?
Found(p) == id[p] \in OwnedBy(user[p])

\* GetAccountByGoogleID
Matches(p) == {i \in OwnedBy(user[p]) : rows[i].sub = subOf[cred[p]]}

\* ListAccounts
Listed(p) == [i \in AcctId |-> IF i \in OwnedBy(user[p]) THEN rows[i] ELSE NoRow]
InList(p) == {i \in AcctId : list[p][i] # NoRow}

\* UpdateAccount writes every mutable column of the row it is given, WHERE id = ? AND
\* user_id = ?; it affects no row once that row is gone.
Updates(i, row) == rows[i] # NoRow /\ rows[i].user = row.user
Updated(i, row) == [rows EXCEPT ![i] = [row EXCEPT !.sub = rows[i].sub]]

-----------------------------------------------------------------------------
(* Requests arrive.                                                        *)

Active(q) == pc[q] \notin {"new", "done"}

Arrive(p, o, u) ==
  /\ pc[p] = "new"
  /\ o \in Ops
  /\ op' = [op EXCEPT ![p] = o]
  /\ user' = [user EXCEPT ![p] = u]
  /\ alone' = [q \in Req |-> q = p /\ \A r \in Req : ~Active(r)]

\* A consent for scope sc by Google account subOf[r]: Google issues a new refresh token,
\* to be sealed with the key of this process.
Consent(p, r, sc) ==
  /\ r \notin issued
  /\ issued' = issued \cup {r}
  /\ live' = live \cup {r}
  /\ foreign' = foreign
  /\ cred' = [cred EXCEPT ![p] = r]
  /\ scope' = [scope EXCEPT ![p] = sc]

\* The login and link intents: upsertAccount for the signed-in user.
StartLink(p, u, r, sc) ==
  /\ Arrive(p, "link", u)
  /\ Consent(p, r, sc)
  /\ pc' = [pc EXCEPT ![p] = "lookup"]
  /\ UNCHANGED <<db, id, snap, list, ord, todo, out>>

\* The reconnect and upgrade intents.
StartReconnect(p, u, i, r, sc) ==
  /\ Arrive(p, "reconnect", u)
  /\ Consent(p, r, sc)
  /\ id' = [id EXCEPT ![p] = i]
  /\ pc' = [pc EXCEPT ![p] = "get"]
  /\ UNCHANGED <<db, snap, list, ord, todo, out>>

\* DELETE /accounts/{id}, or a file operation on one account.
StartOnAccount(p, o, u, i) ==
  /\ o \in {"disconnect", "use"}
  /\ Arrive(p, o, u)
  /\ id' = [id EXCEPT ![p] = i]
  /\ pc' = [pc EXCEPT ![p] = "get"]
  /\ UNCHANGED <<db, creds, cred, scope, snap, list, ord, todo, out>>

\* PATCH /accounts/order, whose body must not be empty, or GET /accounts.
StartReorder(p, u, s) ==
  /\ s # <<>>
  /\ Arrive(p, "reorder", u)
  /\ ord' = [ord EXCEPT ![p] = s]
  /\ pc' = [pc EXCEPT ![p] = "rows"]
  /\ UNCHANGED <<db, creds, id, cred, scope, snap, list, todo, out>>

StartList(p, u) ==
  /\ Arrive(p, "list", u)
  /\ pc' = [pc EXCEPT ![p] = "rows"]
  /\ UNCHANGED <<db, creds, id, cred, scope, snap, list, ord, todo, out>>

-----------------------------------------------------------------------------
(* Their steps.                                                            *)

Goto(p, l) == pc' = [pc EXCEPT ![p] = l] /\ UNCHANGED out
End(p, o) == pc' = [pc EXCEPT ![p] = "done"] /\ out' = [out EXCEPT ![p] = o]

\* upsertAccount: is this Google account connected already?
Lookup(p) ==
  /\ pc[p] = "lookup"
  /\ \/ /\ Matches(p) = {} /\ Goto(p, "count") /\ UNCHANGED <<id, snap>>
     \/ \E i \in Matches(p) :
          /\ id' = [id EXCEPT ![p] = i]
          /\ snap' = [snap EXCEPT ![p] = rows[i]]
          /\ Goto(p, "update")
  /\ UNCHANGED <<db, creds, input, list, todo, alone>>

\* ... if not, how many are there?
Count(p) ==
  /\ pc[p] = "count"
  /\ list' = [list EXCEPT ![p] = Listed(p)]
  /\ IF Cardinality(OwnedBy(user[p])) >= MaxAccounts THEN End(p, "conflict") ELSE Goto(p, "create")
  /\ UNCHANGED <<db, creds, input, id, snap, todo, alone>>

\* Mutant: no unique index on user and Google account.
Create_NoIndex(p, i) ==
  /\ pc[p] = "create"
  /\ i \in AcctId \ ids
  /\ ids' = ids \cup {i}
  /\ rows' = [rows EXCEPT ![i] =
       [user |-> user[p], sub |-> subOf[cred[p]], scope |-> scope[p],
        status |-> "connected", cred |-> cred[p],
        order |-> Cardinality(InList(p)), used |-> FALSE]]
  /\ id' = [id EXCEPT ![p] = i]
  /\ End(p, "ok")
  /\ UNCHANGED <<creds, input, snap, list, todo, alone>>

\* CreateAccount, at the position after those counted; the unique index on user and
\* Google account may refuse it.
Create(p, i) ==
  /\ pc[p] = "create"
  /\ IF Matches(p) # {}
     THEN End(p, "conflict") /\ i = NoId /\ UNCHANGED <<db, id>>
     ELSE /\ i \in AcctId \ ids
          /\ ids' = ids \cup {i}
          /\ rows' = [rows EXCEPT ![i] =
               [user |-> user[p], sub |-> subOf[cred[p]], scope |-> scope[p],
                status |-> "connected", cred |-> cred[p],
                order |-> Cardinality(InList(p)), used |-> FALSE]]
          /\ id' = [id EXCEPT ![p] = i]
          /\ End(p, "ok")
  /\ UNCHANGED <<creds, input, snap, list, todo, alone>>

\* Mutant: the Google account that consented is not compared with the card's.
Get_AnyGoogleAccount(p) ==
  /\ pc[p] = "get"
  /\ \/ ~Found(p) /\ End(p, "not_found") /\ UNCHANGED snap
     \/ /\ Found(p)
        /\ snap' = [snap EXCEPT ![p] = rows[id[p]]]
        /\ \/ op[p] = "reconnect" /\ Goto(p, "update")
           \/ op[p] = "disconnect" /\ Goto(p, "revoke")
           \/ op[p] = "use" /\ Goto(p, "call")
  /\ UNCHANGED <<db, creds, input, id, list, todo, alone>>

\* GetAccount of a reconnect, a disconnect or a file operation.  A reconnect must be of
\* the Google account the card belongs to.
Get(p) ==
  /\ pc[p] = "get"
  /\ \/ ~Found(p) /\ End(p, "not_found") /\ UNCHANGED snap
     \/ /\ Found(p)
        /\ snap' = [snap EXCEPT ![p] = rows[id[p]]]
        /\ \/ op[p] = "reconnect" /\ rows[id[p]].sub # subOf[cred[p]] /\ End(p, "conflict")
           \/ op[p] = "reconnect" /\ rows[id[p]].sub = subOf[cred[p]] /\ Goto(p, "update")
           \/ op[p] = "disconnect" /\ Goto(p, "revoke")
           \/ op[p] = "use" /\ Goto(p, "call")
  /\ UNCHANGED <<db, creds, input, id, list, todo, alone>>

\* Mutant: a link stores the scope it asked for.
NewScope_AsAsked(p) == scope[p]

\* The scope to store: a link never narrows the one in the row it read, a reconnect
\* takes the one it was asked for.
NewScope(p) ==
  IF op[p] = "link" /\ scope[p] = "drive.file" /\ snap[p].scope = "drive"
  THEN "drive" ELSE scope[p]

\* Mutant: an upsert, which brings a deleted row back.
Update_Upsert(p) ==
  /\ pc[p] = "update"
  /\ rows' = [rows EXCEPT ![id[p]] =
       [snap[p] EXCEPT !.cred = cred[p], !.status = "connected", !.scope = NewScope(p)]]
  /\ End(p, "ok")
  /\ UNCHANGED <<ids, creds, input, id, snap, list, todo, alone>>

Update(p) ==
  /\ pc[p] = "update"
  /\ LET row == [snap[p] EXCEPT !.cred = cred[p], !.status = "connected", !.scope = NewScope(p)]
     IN  IF Updates(id[p], row)
         THEN rows' = Updated(id[p], row) /\ End(p, "ok")
         ELSE End(p, "internal") /\ UNCHANGED rows
  /\ UNCHANGED <<ids, creds, input, id, snap, list, todo, alone>>

\* Disconnect: revoke, best effort and only what can be opened, and forget the cached
\* token; then delete the row.
Revoke(p) ==
  /\ pc[p] = "revoke"
  /\ live' \in {live, live \ ({snap[p].cred} \ foreign)}
  /\ Goto(p, "delete")
  /\ UNCHANGED <<db, issued, foreign, input, id, snap, list, todo, alone>>

Delete(p) ==
  /\ pc[p] = "delete"
  /\ IF Found(p)
     THEN rows' = [rows EXCEPT ![id[p]] = NoRow] /\ End(p, "ok")
     ELSE End(p, "not_found") /\ UNCHANGED rows
  /\ UNCHANGED <<ids, creds, input, id, snap, list, todo, alone>>

\* Mutant: a card may be listed twice.
Complete_Duplicates(p) ==
  /\ Len(ord[p]) = Cardinality(OwnedBy(user[p]))
  /\ {ord[p][k] : k \in 1..Len(ord[p])} \subseteq OwnedBy(user[p])

\* Reorder: the order must list the accounts of the user exactly.  What is left to write
\* are the positions where it differs from the rows read.
Complete(p) ==
  /\ Len(ord[p]) = Cardinality(OwnedBy(user[p]))
  /\ {ord[p][k] : k \in 1..Len(ord[p])} = OwnedBy(user[p])

ReadOrder(p) ==
  /\ pc[p] = "rows" /\ op[p] = "reorder"
  /\ list' = [list EXCEPT ![p] = Listed(p)]
  /\ IF Complete(p)
     THEN /\ todo' = [todo EXCEPT ![p] = {k \in 1..Len(ord[p]) : rows[ord[p][k]].order # k - 1}]
          /\ Goto(p, "write")
     ELSE End(p, "validation") /\ UNCHANGED todo
  /\ UNCHANGED <<db, creds, input, id, snap, alone>>

\* UpdateAccount with the row as read, moved to its new position.
WriteOrder(p) ==
  /\ pc[p] = "write"
  /\ \/ todo[p] = {} /\ End(p, "ok") /\ UNCHANGED <<rows, todo>>
     \/ \E k \in todo[p] :
          /\ \A l \in todo[p] : k <= l
          /\ LET row == [list[p][ord[p][k]] EXCEPT !.order = k - 1]
             IN  IF Updates(ord[p][k], row)
                 THEN /\ rows' = Updated(ord[p][k], row)
                      /\ todo' = [todo EXCEPT ![p] = @ \ {k}]
                      /\ Goto(p, "write")
                 ELSE End(p, "internal") /\ UNCHANGED <<rows, todo>>
  /\ UNCHANGED <<ids, creds, input, id, snap, list, alone>>

\* A file operation: the refresh token is opened and taken to Google for an access token,
\* and that to Drive.  The credentials fail when the row cannot be opened, when the grant
\* is gone, and whenever Drive answers 401; either call may also fail for other reasons.
CallDrive(p) ==
  /\ pc[p] = "call" /\ op[p] = "use"
  /\ \/ snap[p].cred \in live \ foreign /\ Goto(p, "touch")
     \/ Goto(p, "note")
     \/ snap[p].cred \notin foreign /\ End(p, "upstream_unavailable")
  /\ UNCHANGED <<db, creds, input, id, snap, list, todo, alone>>

\* NoteFailure: SetAccountStatus, by id alone, unless the row as read was flagged.
Flagged(i, read) ==
  IF rows[i] # NoRow /\ read.status # "reauth_required"
  THEN [rows EXCEPT ![i].status = "reauth_required"] ELSE rows

Note(p) ==
  /\ pc[p] = "note" /\ op[p] = "use"
  /\ rows' = Flagged(id[p], snap[p])
  /\ End(p, "reauth_required")
  /\ UNCHANGED <<ids, creds, input, id, snap, list, todo, alone>>

\* Touch: last_used_at, by id alone; a row that is gone is only logged.
Touch(p) ==
  /\ pc[p] = "touch"
  /\ rows' = IF rows[id[p]] # NoRow THEN [rows EXCEPT ![id[p]].used = TRUE] ELSE rows
  /\ End(p, "ok")
  /\ UNCHANGED <<ids, creds, input, id, snap, list, todo, alone>>

\* GET /accounts: read the rows, then fetch the quota of each in any order.  A quota, or
\* a failure that says nothing of the credentials, leaves the row alone; the credentials
\* fail as they do in CallDrive.
ReadList(p) ==
  /\ pc[p] = "rows" /\ op[p] = "list"
  /\ list' = [list EXCEPT ![p] = Listed(p)]
  /\ todo' = [todo EXCEPT ![p] = OwnedBy(user[p])]
  /\ Goto(p, "call")
  /\ UNCHANGED <<db, creds, input, id, snap, alone>>

FetchQuota(p, i) ==
  /\ pc[p] = "call" /\ op[p] = "list" /\ i \in todo[p]
  /\ \/ /\ list[p][i].cred \notin foreign
        /\ todo' = [todo EXCEPT ![p] = @ \ {i}]
        /\ Goto(p, "call") /\ UNCHANGED <<id, snap>>
     \/ /\ id' = [id EXCEPT ![p] = i]
        /\ snap' = [snap EXCEPT ![p] = list[p][i]]
        /\ Goto(p, "note") /\ UNCHANGED todo
  /\ UNCHANGED <<db, creds, input, list, alone>>

NoteListed(p) ==
  /\ pc[p] = "note" /\ op[p] = "list"
  /\ rows' = Flagged(id[p], snap[p])
  /\ todo' = [todo EXCEPT ![p] = @ \ {id[p]}]
  /\ Goto(p, "call")
  /\ UNCHANGED <<ids, creds, input, id, snap, list, alone>>

EndList(p) ==
  /\ pc[p] = "call" /\ op[p] = "list" /\ todo[p] = {}
  /\ End(p, "ok")
  /\ UNCHANGED <<db, creds, input, id, snap, list, todo, alone>>

-----------------------------------------------------------------------------
(* Around them.                                                            *)

\* The user removes the app at Google, or Google expires the grant.
GrantLost(s) ==
  /\ live' = {r \in live : subOf[r] # s}
  /\ UNCHANGED <<db, issued, foreign, input, pc, id, snap, list, todo, out, alone>>

\* The process dies: the requests under way are lost, what they wrote stays.  It comes up
\* again, perhaps with another ENCRYPTION_KEY, under which none of the rows opens.
Crash ==
  /\ \E p \in Req : Active(p)
  /\ pc' = [p \in Req |-> IF Active(p) THEN "done" ELSE pc[p]]
  /\ out' = [p \in Req |-> IF Active(p) THEN "lost" ELSE out[p]]
  /\ foreign' \in {foreign, issued}
  /\ UNCHANGED <<db, issued, live, input, id, snap, list, todo, alone>>

Start(p) ==
  \E u \in User :
    \/ \E r \in Cred, sc \in Scope :
         \/ StartLink(p, u, r, sc)
         \/ \E i \in AcctId : StartReconnect(p, u, i, r, sc)
    \/ \E i \in AcctId : \/ StartOnAccount(p, "disconnect", u, i)
                         \/ StartOnAccount(p, "use", u, i)
    \/ \E s \in Orders : StartReorder(p, u, s)
    \/ StartList(p, u)

Step(p) ==
  \/ Lookup(p) \/ Count(p) \/ (\E i \in AcctId \cup {NoId} : Create(p, i))
  \/ Get(p) \/ Update(p)
  \/ Revoke(p) \/ Delete(p)
  \/ ReadOrder(p) \/ WriteOrder(p)
  \/ CallDrive(p) \/ Note(p) \/ Touch(p)
  \/ ReadList(p) \/ (\E i \in AcctId : FetchQuota(p, i)) \/ NoteListed(p) \/ EndList(p)

Next ==
  \/ \E p \in Req : Start(p) \/ Step(p)
  \/ \E s \in Sub : GrantLost(s)
  \/ Crash

Spec == Init /\ [][Next]_vars

-----------------------------------------------------------------------------
(* The vault this implements.                                              *)
Vault == INSTANCE AccountVault WITH
  held <- [i \in AcctId |-> IF rows[i] = NoRow THEN NoRow
             ELSE [user |-> rows[i].user, sub |-> rows[i].sub, cred |-> rows[i].cred]]

-----------------------------------------------------------------------------
(* Properties                                                              *)

\* However links, reconnects and disconnects interleave, a user has at most one row
\* for a Google account (upsertAccount checks first and creates later; the unique
\* index on the table is what decides).
UniqueIdentity == OneRowPerIdentity(rows)

\* The refresh token in a row is one of the Google account the row names, although
\* whole rows read earlier are written back: nobody's files show under another card.
CredOfIdentity == OwnCredentials(rows)

\* A row appears, changes or goes only while a request of its owner is under way,
\* although SetAccountStatus and TouchAccount name the row by its id alone.
RowsChangeForTheirOwner ==
  [][\A i \in AcctId : rows'[i] # rows[i] =>
       \E p \in Req : /\ Active(p)
                      /\ user[p] = IF rows[i] = NoRow THEN rows'[i].user ELSE rows[i].user]_vars

\* A reorder that nothing ran beside, answered with success, leaves the cards in the
\* order asked for, each at a position of its own.
LoneReorderTakesEffect ==
  \A p \in Req : alone[p] /\ op[p] = "reorder" /\ out[p] = "ok" =>
    \A k \in 1..Len(ord[p]) : rows[ord[p][k]] # NoRow /\ rows[ord[p][k]].order = k - 1

\* A link that nothing ran beside never narrows the scope of a card: upsertAccount's
\* "never silently narrow a scope the user already granted" holds while no upgrade lands
\* between its read and its write.
LoneLinkNeverNarrows ==
  [][\A p \in Req : alone[p] /\ op[p] = "link" =>
       \A i \in AcctId : pc[p] = "update" /\ id[p] = i /\ rows[i] # NoRow /\ rows[i].scope = "drive"
         => rows'[i] = NoRow \/ rows'[i].scope = "drive"]_vars

\* The table does what the vault promises: an id keeps its user and Google account for
\* life, and what was disconnected stays so, whatever stale row is written after it.
KeepsVault == Vault!Spec

\* row is what some request read of account i: it still names the user and the Google
\* account of i, and its refresh token is one of theirs.
Snapshot(i, row) ==
  /\ i \in ids
  /\ row \in Row
  /\ subOf[row.cred] = row.sub
  /\ rows[i] # NoRow => rows[i].user = row.user /\ rows[i].sub = row.sub

HasSnapshot(p) == Snapshot(id[p], snap[p]) /\ snap[p].user = user[p]

\* Where a request is tells what it is and what it has read.
RequestWellFormed(p) ==
  /\ IF pc[p] = "new" THEN InList(p) = {} ELSE user[p] \in User
  /\ op[p] \in {"link", "reconnect"} => cred[p] \in Cred
  /\ pc[p] \in {"lookup", "count", "create"} => op[p] = "link"
  /\ pc[p] = "get" => op[p] \in {"reconnect", "disconnect", "use"} /\ id[p] \in AcctId
  /\ pc[p] = "update" => /\ op[p] \in {"link", "reconnect"}
                         /\ HasSnapshot(p)
                         /\ subOf[cred[p]] = snap[p].sub
  /\ pc[p] \in {"revoke", "delete", "touch", "note"} => HasSnapshot(p)
  /\ pc[p] = "call" /\ op[p] = "use" => HasSnapshot(p)
  /\ pc[p] = "write" => \A k \in todo[p] : k \in 1..Len(ord[p]) /\ ord[p][k] \in InList(p)
  /\ pc[p] \in {"call", "note"} /\ op[p] = "list" => todo[p] \subseteq InList(p)
  /\ \A i \in InList(p) : Snapshot(i, list[p][i]) /\ list[p][i].user = user[p]

\* The inductive strengthening of the invariants above.
IInv ==
  /\ TypeOK
  /\ \A i \in AcctId : rows[i] # NoRow => i \in ids
  /\ UniqueIdentity
  /\ CredOfIdentity
  /\ \A p \in Req : RequestWellFormed(p)

\* service.go: the order "is cosmetic".  A step of a reorder changes no refresh token,
\* status or scope of an account.
ReorderIsCosmetic ==
  [][\A i \in AcctId :
       (\E p \in Req : pc[p] = "write" /\ todo'[p] # todo[p]) /\ rows[i] # NoRow /\ rows'[i] # NoRow
         => /\ rows'[i].cred = rows[i].cred
            /\ rows'[i].status = rows[i].status
            /\ rows'[i].scope = rows[i].scope]_vars

\* docs/api.md: "A user may connect up to 50 Google accounts", beyond that "409 conflict
\* at connection time".
AccountLimitHolds == \A u \in User : Cardinality(OwnedBy(u)) <= MaxAccounts
=============================================================================

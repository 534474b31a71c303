------------------------------ MODULE Sessions ------------------------------
(***************************************************************************)
(* Browser sessions: who is signed in, and for how long (Issue, Resolve,   *)
(* Revoke and RevokeAll of internal/auth/auth.go, completeLogin and the    *)
(* logout handlers of internal/server/routes_auth.go, pruneSessions of     *)
(* cmd/server/main.go, the statements of internal/store/sqlite/sqlite.go). *)
(*                                                                         *)
(* A step is one SQL statement; the statements of concurrent requests      *)
(* interleave, and every request decides on the row and the time it read.  *)
(* A session stands for its token as well, which only its browser has.     *)
(* Logins are those of one email each; the account rows they also write    *)
(* are ConnectedAccounts' business.                                        *)
(***************************************************************************)
EXTENDS Integers, FiniteSets

CONSTANTS
  Session,        \* session ids
  User,           \* user ids (uuids)
  Email,
  Req,            \* requests, each served once
  TTL,            \* SESSION_TTL
  TouchInterval,  \* touchInterval
  Base, Digits,   \* of the fraction of a second in a timestamp: 10 and 9 in the program
  PerSecond,      \* instants in a second
  MinTime, MaxTime, \* bounds on the clock
  NoRow, NoUser, NoSession, NoEmail

ASSUME TimeAssumption ==
  /\ TTL \in Nat \ {0} /\ TouchInterval \in Nat
  /\ Base \in Nat \ {0} /\ Digits \in Nat
  /\ PerSecond = Base^Digits /\ PerSecond \in Nat \ {0}
  /\ MinTime \in Nat /\ MaxTime \in Nat
ASSUME SessionNullAssumption ==
  NoSession \notin Session /\ NoUser \notin User /\ NoEmail \notin Email

Row == [user: User, seen: Nat, expires: Nat]
ASSUME RowAssumption == NoRow \notin Row

Pc == {"new", "read", "expired", "user", "touch", "act",
       "login", "create", "issue", "done"}
Reply == {"", "ok", "unauthorized", "internal"}
Op == {"", "use", "logout", "logout_all", "login"}

VARIABLES
  rows,      \* the sessions table
  used,      \* session ids ever used
  users,     \* the users table: the id of each email, NoUser when there is none
  taken,     \* user ids ever used
  now,
  pc, op,    \* of each request
  session,   \* the session whose cookie it carries, or the one it starts
  email,     \* the Google account it signs in with
  snap,      \* the session row it read
  readAt,    \* the time it read
  uid,       \* the user it found
  reply,     \* how it was answered
  ended,     \* sessions whose end some request has been told of
  late       \* whether the session had ended so when the request began

table == <<rows, used, users, taken>>
request == <<pc, op, session, email, snap, readAt, uid, reply>>
sessionVars == <<table, now, request, ended, late>>

SessionTypeOK ==
  /\ rows \in [Session -> Row \cup {NoRow}]
  /\ used \subseteq Session
  /\ users \in [Email -> User \cup {NoUser}]
  /\ taken \subseteq User
  /\ now \in Nat
  /\ pc \in [Req -> Pc] /\ op \in [Req -> Op]
  /\ session \in [Req -> Session \cup {NoSession}]
  /\ email \in [Req -> Email \cup {NoEmail}]
  /\ snap \in [Req -> Row \cup {NoRow}]
  /\ readAt \in [Req -> Nat]
  /\ uid \in [Req -> User \cup {NoUser}]
  /\ reply \in [Req -> Reply]
  /\ ended \subseteq Session
  /\ late \in [Req -> BOOLEAN]

SessionInit ==
  /\ rows = [s \in Session |-> NoRow] /\ used = {}
  /\ users = [e \in Email |-> NoUser] /\ taken = {}
  /\ now = MinTime
  /\ pc = [p \in Req |-> "new"] /\ op = [p \in Req |-> ""]
  /\ session = [p \in Req |-> NoSession]
  /\ email = [p \in Req |-> NoEmail]
  /\ snap = [p \in Req |-> NoRow]
  /\ readAt = [p \in Req |-> 0]
  /\ uid = [p \in Req |-> NoUser]
  /\ reply = [p \in Req |-> ""]
  /\ ended = {}
  /\ late = [p \in Req |-> FALSE]

Goto(p, l) == pc' = [pc EXCEPT ![p] = l] /\ UNCHANGED reply
End(p, o) == pc' = [pc EXCEPT ![p] = "done"] /\ reply' = [reply EXCEPT ![p] = o]

\* formatTime writes an instant as RFC 3339 does, with the fraction of its second but not
\* the zeros that trail it, nor the point when nothing is left: ...:05.55Z, ...:05.5Z, ...:05Z.
\* The k-th decimal place of the text, counted from 1; Base stands for the Z, which sorts
\* after every digit, and for having gone past it.  The point sorts before the Z, as the
\* digit behind it does, so it is left out.
Place(t, k) ==
  IF (t % PerSecond) % Base^(Digits - k + 1) = 0
  THEN Base ELSE ((t % PerSecond) \div Base^(Digits - k)) % Base

SecondOf(t) == t \div PerSecond

\* <= of two such texts, which SQLite compares byte by byte: the seconds, which are all
\* written alike, and then the first place that differs.
TextLeq(s, t) ==
  \/ SecondOf(s) < SecondOf(t)
  \/ /\ SecondOf(s) = SecondOf(t)
     /\ \/ \A k \in 1..Digits : Place(s, k) = Place(t, k)
        \/ \E k \in 1..Digits : /\ \A j \in 1..(k - 1) : Place(s, j) = Place(t, j)
                                /\ Place(s, k) < Place(t, k)

\* Session.Expired
Expired(row, t) == t >= row.expires

-----------------------------------------------------------------------------
(* Requests arrive.                                                        *)

\* A browser has the cookie of a session until it is answered that it is gone.
Begin(p, o, s) ==
  /\ pc[p] = "new"
  /\ o \in {"use", "logout", "logout_all"} /\ s \in used
  /\ op' = [op EXCEPT ![p] = o]
  /\ session' = [session EXCEPT ![p] = s]
  /\ late' = [late EXCEPT ![p] = s \in ended]
  /\ Goto(p, "read")
  /\ UNCHANGED <<table, now, email, snap, readAt, uid, ended>>

BeginLogin(p, e) ==
  /\ pc[p] = "new"
  /\ op' = [op EXCEPT ![p] = "login"]
  /\ email' = [email EXCEPT ![p] = e]
  /\ Goto(p, "login")
  /\ UNCHANGED <<table, now, session, snap, readAt, uid, ended, late>>

-----------------------------------------------------------------------------
(* Resolve.                                                                *)

\* GetSessionByTokenHash, and the time it is judged by.
ReadSession(p) ==
  /\ pc[p] = "read"
  /\ snap' = [snap EXCEPT ![p] = rows[session[p]]]
  /\ readAt' = [readAt EXCEPT ![p] = now]
  /\ \/ rows[session[p]] = NoRow /\ End(p, "unauthorized")
     \/ rows[session[p]] # NoRow /\ Expired(rows[session[p]], now) /\ Goto(p, "expired")
     \/ rows[session[p]] # NoRow /\ ~Expired(rows[session[p]], now) /\ Goto(p, "user")
  /\ UNCHANGED <<table, now, op, session, email, uid, ended, late>>

\* DeleteSession; whether there was a row to delete makes no difference.
DropExpired(p) ==
  /\ pc[p] = "expired"
  /\ rows' = [rows EXCEPT ![session[p]] = NoRow]
  /\ End(p, "unauthorized")
  /\ UNCHANGED <<used, users, taken, now, op, session, email, snap, readAt, uid, ended, late>>

\* GetUserByID.  No handler deletes a user.
ReadUser(p) ==
  /\ pc[p] = "user"
  /\ uid' = [uid EXCEPT ![p] = snap[p].user]
  /\ IF readAt[p] - snap[p].seen > TouchInterval THEN Goto(p, "touch") ELSE Goto(p, "act")
  /\ UNCHANGED <<table, now, op, session, email, snap, readAt, ended, late>>

\* Mutants: an upsert, which brings a revoked session back; a sliding expiry.
Touch_Upsert(p) ==
  /\ pc[p] = "touch"
  /\ rows' = [rows EXCEPT ![session[p]] = [snap[p] EXCEPT !.seen = readAt[p]]]
  /\ Goto(p, "act")
  /\ UNCHANGED <<used, users, taken, now, op, session, email, snap, readAt, uid, ended, late>>

Touch_Slides(p) ==
  /\ pc[p] = "touch"
  /\ IF rows[session[p]] # NoRow
     THEN /\ rows' = [rows EXCEPT ![session[p]].seen = readAt[p],
                                ![session[p]].expires = readAt[p] + TTL]
          /\ Goto(p, "act")
     ELSE UNCHANGED rows /\ End(p, "internal")
  /\ UNCHANGED <<used, users, taken, now, op, session, email, snap, readAt, uid, ended, late>>

\* TouchSession: an UPDATE, which fails when it finds no row.
Touch(p) ==
  /\ pc[p] = "touch"
  /\ IF rows[session[p]] # NoRow
     THEN rows' = [rows EXCEPT ![session[p]].seen = readAt[p]] /\ Goto(p, "act")
     ELSE UNCHANGED rows /\ End(p, "internal")
  /\ UNCHANGED <<used, users, taken, now, op, session, email, snap, readAt, uid, ended, late>>

-----------------------------------------------------------------------------
(* The handlers behind it.                                                 *)

Handle(p) ==
  /\ pc[p] = "act" /\ op[p] = "use"
  /\ End(p, "ok")
  /\ UNCHANGED <<table, now, op, session, email, snap, readAt, uid, ended, late>>

\* Revoke: the row may be gone already.
Logout(p) ==
  /\ pc[p] = "act" /\ op[p] = "logout"
  /\ rows' = [rows EXCEPT ![session[p]] = NoRow]
  /\ ended' = ended \cup {session[p]}
  /\ End(p, "ok")
  /\ UNCHANGED <<used, users, taken, now, op, session, email, snap, readAt, uid, late>>

SessionsOf(u) == {s \in Session : rows[s] # NoRow /\ rows[s].user = u}

LogoutAll(p) ==
  /\ pc[p] = "act" /\ op[p] = "logout_all"
  /\ rows' = [s \in Session |-> IF s \in SessionsOf(uid[p]) THEN NoRow ELSE rows[s]]
  /\ ended' = ended \cup SessionsOf(uid[p])
  /\ End(p, "ok")
  /\ UNCHANGED <<used, users, taken, now, op, session, email, snap, readAt, uid, late>>

-----------------------------------------------------------------------------
(* completeLogin.                                                          *)

FindUser(p) ==
  /\ pc[p] = "login"
  /\ uid' = [uid EXCEPT ![p] = users[email[p]]]
  /\ IF users[email[p]] = NoUser THEN Goto(p, "create") ELSE Goto(p, "issue")
  /\ UNCHANGED <<table, now, op, session, email, snap, readAt, ended, late>>

\* Mutant: INSERT OR IGNORE, and go on with the id made up.
CreateUser_Ignore(p, u) ==
  /\ pc[p] = "create"
  /\ u \in User \ taken
  /\ taken' = taken \cup {u}
  /\ users' = IF users[email[p]] = NoUser THEN [users EXCEPT ![email[p]] = u] ELSE users
  /\ uid' = [uid EXCEPT ![p] = u]
  /\ Goto(p, "issue")
  /\ UNCHANGED <<rows, used, now, op, session, email, snap, readAt, ended, late>>

\* CreateUser, which the unique index on emails may refuse.
CreateUser(p, u) ==
  /\ pc[p] = "create"
  /\ IF users[email[p]] # NoUser
     THEN End(p, "internal") /\ u = NoUser /\ UNCHANGED <<users, taken, uid>>
     ELSE /\ u \in User \ taken
          /\ taken' = taken \cup {u}
          /\ users' = [users EXCEPT ![email[p]] = u]
          /\ uid' = [uid EXCEPT ![p] = u]
          /\ Goto(p, "issue")
  /\ UNCHANGED <<rows, used, now, op, session, email, snap, readAt, ended, late>>

\* Issue, and the cookies; the steps before may also fail, and leave what they wrote.
IssueSession(p, s) ==
  /\ pc[p] = "issue"
  /\ \/ /\ s \in Session \ used
        /\ used' = used \cup {s}
        /\ rows' = [rows EXCEPT ![s] = [user |-> uid[p], seen |-> now, expires |-> now + TTL]]
        /\ session' = [session EXCEPT ![p] = s]
        /\ End(p, "ok")
     \/ s = NoSession /\ End(p, "internal") /\ UNCHANGED <<used, rows, session>>
  /\ UNCHANGED <<users, taken, now, op, email, snap, readAt, uid, ended, late>>

-----------------------------------------------------------------------------
\* Mutant: by the time the session was last seen.
Pruned_BySeen == {s \in Session : rows[s] # NoRow /\ TextLeq(rows[s].seen, now)}

\* DeleteExpiredSessions compares the timestamps as text.
Pruned == {s \in Session : rows[s] # NoRow /\ TextLeq(rows[s].expires, now)}

Prune ==
  /\ Pruned # {}
  /\ rows' = [s \in Session |-> IF s \in Pruned THEN NoRow ELSE rows[s]]
  /\ UNCHANGED <<used, users, taken, now, request, ended, late>>

Tick ==
  /\ now < MaxTime
  /\ now' = now + 1
  /\ UNCHANGED <<table, request, ended, late>>

Resolve(p) == ReadSession(p) \/ DropExpired(p) \/ ReadUser(p) \/ Touch(p)

Step(p) ==
  \/ Resolve(p)
  \/ Handle(p) \/ Logout(p) \/ LogoutAll(p)
  \/ FindUser(p)
  \/ \E u \in User \cup {NoUser} : CreateUser(p, u)
  \/ \E s \in Session \cup {NoSession} : IssueSession(p, s)

SessionNext ==
  \/ \E p \in Req :
       \/ \E o \in {"use", "logout", "logout_all"}, s \in used : Begin(p, o, s)
       \/ \E e \in Email : BeginLogin(p, e)
       \/ Step(p)
  \/ Prune \/ Tick

SessionSpec == SessionInit /\ [][SessionNext]_sessionVars

-----------------------------------------------------------------------------
(* Properties                                                              *)

\* Once somebody has been told that a session is over, by a logout of it or of all the
\* user's sessions, no later request with its cookie is let in: no concurrent request
\* brings the row back by touching it.
EndedStaysEnded ==
  /\ \A s \in ended : rows[s] = NoRow
  /\ \A p \in Req : late[p] => pc[p] \in {"read", "done"} /\ reply[p] # "ok"

\* A logout of everything spares the sessions of other users, and whoever is let in is
\* the user the session was issued to.
SessionOfItsUser ==
  /\ \A s \in Session : rows[s] # NoRow =>
       \E e \in Email : users[e] = rows[s].user
  /\ \A p \in Req : pc[p] \in {"touch", "act"} /\ rows[session[p]] # NoRow =>
       uid[p] = rows[session[p]].user

\* One email never comes to be two users, however its first logins race, and no two
\* emails share one.
OneUserPerEmail ==
  /\ \A e, f \in Email : users[e] = users[f] /\ users[e] # NoUser => e = f
  /\ \A u \in taken : \E e \in Email : users[e] = u

\* A session is never extended: touching it, and pruning, leave its expiry alone, and
\* a session that is gone does not come back.
NeverExtended ==
  [][\A s \in used : rows'[s] # NoRow =>
       rows[s] # NoRow /\ rows'[s].expires = rows[s].expires /\ rows'[s].user = rows[s].user]_sessionVars

\* The sweep takes no session with a second or more left to live: what is wrong with the
\* order of the texts stays within one second.
PruneWithinASecond ==
  [][\A s \in Session :
       rows[s] # NoRow /\ rows'[s] = NoRow /\ UNCHANGED pc
         => rows[s].expires - now < PerSecond]_sessionVars

\* sqlite.go: the format "keeps timestamps sortable as text", so that the sweep takes only
\* the sessions that are "past their expiry" (store.go).
SweepsOnlyExpired ==
  [][\A s \in Session :
       rows[s] # NoRow /\ rows'[s] = NoRow /\ UNCHANGED pc => Expired(rows[s], now)]_sessionVars

\* The inductive strengthening: what the tables agree on, and what a request in the
\* middle of its statements may still rely on.
TableWellFormed ==
  /\ \A s \in Session : rows[s] # NoRow => s \in used
  /\ ended \subseteq used
  /\ \A s \in ended : rows[s] = NoRow
  /\ \A e \in Email : users[e] # NoUser => users[e] \in taken
  /\ \A s \in Session : rows[s] # NoRow => \E e \in Email : users[e] = rows[s].user
  /\ OneUserPerEmail

RequestWellFormed(p) ==
  /\ pc[p] \in {"read", "expired", "user", "touch", "act"} => session[p] \in used
  /\ pc[p] \in {"user", "touch", "act"} =>
       /\ snap[p] \in Row
       /\ rows[session[p]] # NoRow => rows[session[p]].user = snap[p].user
  /\ pc[p] \in {"touch", "act"} => uid[p] = snap[p].user
  /\ pc[p] \in {"login", "create", "issue"} => email[p] \in Email
  /\ pc[p] = "issue" => uid[p] # NoUser /\ users[email[p]] = uid[p]
  /\ pc[p] = "new" => reply[p] = ""
  /\ late[p] =>
       /\ pc[p] \in {"read", "done"} /\ reply[p] # "ok"
       /\ pc[p] = "read" => session[p] \in ended

IInv ==
  /\ SessionTypeOK
  /\ TableWellFormed
  /\ \A p \in Req : RequestWellFormed(p)
=============================================================================

---------------------------- MODULE SessionsProofs ----------------------------
(***************************************************************************)
(* What Sessions promises, for any users, emails, sessions and requests.   *)
(*                                                                         *)
(* The argument: every statement leaves of each row what other requests    *)
(* rely on (TableStep): a session in use keeps its user and its expiry or  *)
(* goes for good, and an email keeps its user.  So what a request has read *)
(* is old when it is used, but no longer true only if the row is gone.     *)
(***************************************************************************)
EXTENDS Sessions, TLAPS

\* What one step may do to the tables, and what requests rely on meanwhile.
TableStep ==
  /\ used \subseteq used' /\ ended \subseteq ended'
  /\ \A s \in used : rows'[s] # NoRow =>
       /\ rows[s] # NoRow
       /\ rows'[s].user = rows[s].user /\ rows'[s].expires = rows[s].expires
  /\ \A e \in Email : users[e] # NoUser => users'[e] = users[e]

TableTyped ==
  /\ rows \in [Session -> Row \cup {NoRow}]
  /\ used \subseteq Session
  /\ users \in [Email -> User \cup {NoUser}]
  /\ taken \subseteq User
  /\ now \in Nat
  /\ ended \subseteq Session

TableOK == TableTyped /\ TableWellFormed

\* The types of what a request holds.
RequestTyped ==
  /\ pc \in [Req -> Pc] /\ op \in [Req -> Op]
  /\ session \in [Req -> Session \cup {NoSession}]
  /\ email \in [Req -> Email \cup {NoEmail}]
  /\ snap \in [Req -> Row \cup {NoRow}]
  /\ readAt \in [Req -> Nat]
  /\ uid \in [Req -> User \cup {NoUser}]
  /\ reply \in [Req -> Reply]
  /\ late \in [Req -> BOOLEAN]

LEMMA TypeSplit == SessionTypeOK <=> TableTyped /\ RequestTyped
BY DEF SessionTypeOK, TableTyped, RequestTyped

LEMMA IInvTable == IInv => TableOK
BY TypeSplit DEF IInv, TableOK

\* A step that deletes rows, and records some of them as ended.
LEMMA Deletion ==
  \A D \in SUBSET Session :
    /\ TableOK
    /\ rows' = [s \in Session |-> IF s \in D THEN NoRow ELSE rows[s]]
    /\ ended' \in {ended, ended \cup (D \cap used)}
    /\ UNCHANGED <<used, users, taken, now>>
    => TableStep /\ TableOK'
<1> SUFFICES ASSUME NEW D \in SUBSET Session, TableOK,
                    rows' = [s \in Session |-> IF s \in D THEN NoRow ELSE rows[s]],
                    ended' \in {ended, ended \cup (D \cap used)},
                    UNCHANGED <<used, users, taken, now>>
             PROVE  TableStep /\ TableOK'
  OBVIOUS
<1>1. \A s \in Session : rows'[s] = NoRow \/ rows'[s] = rows[s]
  OBVIOUS
<1>2. \A s \in Session : s \in D => rows'[s] = NoRow
  OBVIOUS
<1>3. ended \subseteq ended' /\ ended' \subseteq used /\ used \subseteq Session
  BY DEF TableOK, TableTyped, TableWellFormed
<1>4. TableTyped'
  <2>1. rows' \in [Session -> Row \cup {NoRow}]
    BY DEF TableOK, TableTyped
  <2> QED BY <1>3, <2>1 DEF TableOK, TableTyped
<1>5. \A s \in ended' : rows'[s] = NoRow
  BY <1>1, <1>2, <1>3 DEF TableOK, TableTyped, TableWellFormed
<1>6. TableWellFormed'
  <2>1. OneUserPerEmail'
    BY DEF TableOK, TableWellFormed, OneUserPerEmail
  <2>2. \A s \in Session : rows'[s] # NoRow => s \in used' /\ \E e \in Email : users'[e] = rows'[s].user
    BY <1>1 DEF TableOK, TableWellFormed
  <2>3. \A e \in Email : users'[e] # NoUser => users'[e] \in taken'
    BY DEF TableOK, TableWellFormed
  <2> QED BY <1>3, <1>5, <2>1, <2>2, <2>3 DEF TableWellFormed
<1>7. TableStep
  BY <1>1, <1>3 DEF TableStep
<1> QED BY <1>4, <1>6, <1>7 DEF TableOK

\* The tables do not change.
LEMMA Quiet ==
  TableOK /\ UNCHANGED <<table, ended>> /\ now' \in Nat => TableStep /\ TableOK'
<1> SUFFICES ASSUME TableOK, UNCHANGED <<table, ended>>, now' \in Nat PROVE TableStep /\ TableOK'
  OBVIOUS
<1>1. UNCHANGED <<rows, used, users, taken, ended>>
  BY DEF table
<1>2. TableTyped'
  BY <1>1 DEF TableOK, TableTyped
<1>3. TableWellFormed'
  BY <1>1 DEF TableOK, TableWellFormed, OneUserPerEmail
<1>4. TableStep
  BY <1>1 DEF TableStep
<1> QED BY <1>2, <1>3, <1>4 DEF TableOK

\* A row is there and is touched.
LEMMA Touched ==
  \A s \in used, t \in Nat :
    /\ TableOK /\ rows[s] # NoRow
    /\ rows' = [rows EXCEPT ![s].seen = t]
    /\ UNCHANGED <<used, users, taken, now, ended>>
    => TableStep /\ TableOK'
<1> SUFFICES ASSUME NEW s \in used, NEW t \in Nat, TableOK, rows[s] # NoRow,
                    rows' = [rows EXCEPT ![s].seen = t],
                    UNCHANGED <<used, users, taken, now, ended>>
             PROVE  TableStep /\ TableOK'
  OBVIOUS
<1>1. rows \in [Session -> Row \cup {NoRow}] /\ s \in Session /\ rows[s] \in Row
  BY DEF TableOK, TableTyped
<1>2. rows' = [rows EXCEPT ![s] = [rows[s] EXCEPT !.seen = t]]
  OBVIOUS
<1>3. \A z \in Session \ {s} : rows'[z] = rows[z]
  BY <1>1, <1>2
<1>4. rows'[s] = [rows[s] EXCEPT !.seen = t]
  BY <1>1, <1>2
<1>5. rows'[s] \in Row /\ rows'[s].user = rows[s].user /\ rows'[s].expires = rows[s].expires
  BY <1>1, <1>4 DEF Row
<1>6. rows' \in [Session -> Row \cup {NoRow}]
  BY <1>1, <1>2, <1>4, <1>5
<1>7. TableTyped'
  BY <1>6 DEF TableOK, TableTyped
<1>8. TableWellFormed'
  <2>1. OneUserPerEmail'
    BY DEF TableOK, TableWellFormed, OneUserPerEmail
  <2>2. s \notin ended
    BY DEF TableOK, TableWellFormed
  <2>3. ended \subseteq Session
    BY DEF TableOK, TableTyped
  <2>4. \A z \in ended' : rows'[z] = NoRow
    BY <1>3, <2>2, <2>3 DEF TableOK, TableWellFormed
  <2>5. \A z \in Session : rows'[z] # NoRow => z \in used' /\ \E e \in Email : users'[e] = rows'[z].user
    BY <1>1, <1>3, <1>5 DEF TableOK, TableWellFormed
  <2> QED BY <2>1, <2>4, <2>5 DEF TableOK, TableWellFormed
<1>9. TableStep
  <2>1. used \subseteq Session
    BY DEF TableOK, TableTyped
  <2> QED BY <1>1, <1>3, <1>5, <2>1 DEF TableStep
<1> QED BY <1>7, <1>8, <1>9 DEF TableOK

\* A new session of a user who has an email.
LEMMA Issued ==
  \A s \in Session \ used, r \in Row :
    /\ TableOK /\ \E e \in Email : users[e] = r.user
    /\ rows' = [rows EXCEPT ![s] = r]
    /\ used' = used \cup {s}
    /\ UNCHANGED <<users, taken, now, ended>>
    => TableStep /\ TableOK'
<1> SUFFICES ASSUME NEW s \in Session \ used, NEW r \in Row, TableOK,
                    \E e \in Email : users[e] = r.user,
                    rows' = [rows EXCEPT ![s] = r],
                    used' = used \cup {s},
                    UNCHANGED <<users, taken, now, ended>>
             PROVE  TableStep /\ TableOK'
  OBVIOUS
<1>1. rows \in [Session -> Row \cup {NoRow}] /\ used \subseteq Session
  BY DEF TableOK, TableTyped
<1>2. rows'[s] = r /\ \A z \in Session \ {s} : rows'[z] = rows[z]
  BY <1>1
<1>3. TableTyped'
  <2>1. rows' \in [Session -> Row \cup {NoRow}]
    BY <1>1
  <2> QED BY <2>1 DEF TableOK, TableTyped
<1>4. TableWellFormed'
  <2>1. OneUserPerEmail'
    BY DEF TableOK, TableWellFormed, OneUserPerEmail
  <2>2. ended' \subseteq used /\ s \notin ended
    BY DEF TableOK, TableWellFormed
  <2>3. \A z \in ended' : rows'[z] = NoRow
    BY <1>1, <1>2, <2>2 DEF TableOK, TableWellFormed
  <2>4. \A z \in Session : rows'[z] # NoRow => z \in used' /\ \E e \in Email : users'[e] = rows'[z].user
    BY <1>2 DEF TableOK, TableWellFormed
  <2>5. \A e \in Email : users'[e] # NoUser => users'[e] \in taken'
    BY DEF TableOK, TableWellFormed
  <2> QED BY <2>1, <2>2, <2>3, <2>4, <2>5 DEF TableWellFormed
<1>5. TableStep
  BY <1>1, <1>2 DEF TableStep
<1> QED BY <1>3, <1>4, <1>5 DEF TableOK

\* A new user of an email that has none.
LEMMA Created ==
  \A e \in Email, u \in User \ taken :
    /\ TableOK /\ users[e] = NoUser
    /\ users' = [users EXCEPT ![e] = u]
    /\ taken' = taken \cup {u}
    /\ UNCHANGED <<rows, used, now, ended>>
    => TableStep /\ TableOK'
<1> SUFFICES ASSUME NEW e \in Email, NEW u \in User \ taken, TableOK, users[e] = NoUser,
                    users' = [users EXCEPT ![e] = u],
                    taken' = taken \cup {u},
                    UNCHANGED <<rows, used, now, ended>>
             PROVE  TableStep /\ TableOK'
  OBVIOUS
<1>1. /\ users \in [Email -> User \cup {NoUser}] /\ rows \in [Session -> Row \cup {NoRow}]
      /\ u # NoUser
  BY SessionNullAssumption DEF TableOK, TableTyped
<1>2. users'[e] = u /\ \A f \in Email \ {e} : users'[f] = users[f]
  BY <1>1
<1>3. TableTyped'
  <2>1. users' \in [Email -> User \cup {NoUser}]
    BY <1>1
  <2> QED BY <2>1 DEF TableOK, TableTyped
<1>4. \A f \in Email : users[f] # u
  BY <1>1 DEF TableOK, TableWellFormed
<1>5. OneUserPerEmail'
  <2>1. \A f, g \in Email : users'[f] = users'[g] /\ users'[f] # NoUser => f = g
    BY <1>2, <1>4 DEF TableOK, TableWellFormed, OneUserPerEmail
  <2>2. \A v \in taken' : \E f \in Email : users'[f] = v
    <3>1. \A v \in taken : \E f \in Email \ {e} : users[f] = v
      <4>1. \A v \in taken : v # NoUser
        BY SessionNullAssumption DEF TableOK, TableTyped
      <4> QED BY <4>1 DEF TableOK, TableWellFormed, OneUserPerEmail
    <3> QED BY <1>2, <3>1
  <2> QED BY <2>1, <2>2 DEF OneUserPerEmail
<1>6. \A s \in Session : rows[s] # NoRow => \E f \in Email \ {e} : users[f] = rows[s].user
  <2>1. \A s \in Session : rows[s] # NoRow => rows[s].user # NoUser
    BY <1>1, SessionNullAssumption DEF Row
  <2> QED BY <2>1 DEF TableOK, TableWellFormed
<1>7. TableWellFormed'
  BY <1>2, <1>5, <1>6 DEF TableOK, TableWellFormed
<1>8. TableStep
  BY <1>2 DEF TableStep
<1> QED BY <1>3, <1>7, <1>8 DEF TableOK

-----------------------------------------------------------------------------
(* What a request relies on, while others take steps.                      *)

Same(q) ==
  /\ pc'[q] = pc[q] /\ session'[q] = session[q] /\ email'[q] = email[q]
  /\ snap'[q] = snap[q] /\ uid'[q] = uid[q] /\ reply'[q] = reply[q] /\ late'[q] = late[q]

LEMMA Frame ==
  \A q \in Req : RequestWellFormed(q) /\ TableStep /\ Same(q) => RequestWellFormed(q)'
<1> SUFFICES ASSUME NEW q \in Req, RequestWellFormed(q), TableStep, Same(q)
             PROVE  RequestWellFormed(q)'
  OBVIOUS
<1>1. pc'[q] \in {"read", "expired", "user", "touch", "act"} => session'[q] \in used'
  BY DEF RequestWellFormed, Same, TableStep
<1>2. pc'[q] \in {"user", "touch", "act"} =>
         /\ snap'[q] \in Row
         /\ rows'[session'[q]] # NoRow => rows'[session'[q]].user = snap'[q].user
  BY DEF RequestWellFormed, Same, TableStep
<1>3. pc'[q] \in {"touch", "act"} => uid'[q] = snap'[q].user
  BY DEF RequestWellFormed, Same
<1>4. pc'[q] = "issue" => uid'[q] # NoUser /\ users'[email'[q]] = uid'[q]
  BY DEF RequestWellFormed, Same, TableStep
<1>5. /\ pc'[q] \in {"login", "create", "issue"} => email'[q] \in Email
      /\ pc'[q] = "new" => reply'[q] = ""
      /\ late'[q] =>
           /\ pc'[q] \in {"read", "done"} /\ reply'[q] # "ok"
           /\ pc'[q] = "read" => session'[q] \in ended'
  BY DEF RequestWellFormed, Same, TableStep
<1> QED BY <1>1, <1>2, <1>3, <1>4, <1>5 DEF RequestWellFormed

Begins(p) ==
  \/ \E o \in {"use", "logout", "logout_all"}, s \in used : Begin(p, o, s)
  \/ \E e \in Email : BeginLogin(p, e)

Acts(p) == Begins(p) \/ Step(p)

LEMMA OthersSame ==
  \A p, q \in Req : SessionTypeOK /\ Acts(p) /\ q # p => Same(q)
<1> SUFFICES ASSUME NEW p \in Req, NEW q \in Req, SessionTypeOK, Acts(p), q # p PROVE Same(q)
  OBVIOUS
<1>0. RequestTyped
  BY TypeSplit
<1>1. CASE Begins(p)
  BY <1>0, <1>1 DEF Begins, Begin, BeginLogin, Goto, Same, RequestTyped
<1>2. CASE Resolve(p)
  BY <1>0, <1>2 DEF Resolve, ReadSession, DropExpired, ReadUser, Touch, Goto, End, Same, RequestTyped
<1>3. CASE Handle(p) \/ Logout(p) \/ LogoutAll(p) \/ FindUser(p)
  BY <1>0, <1>3 DEF Handle, Logout, LogoutAll, FindUser, Goto, End, Same, RequestTyped
<1>4. CASE \E u \in User \cup {NoUser} : CreateUser(p, u)
  BY <1>0, <1>4 DEF CreateUser, Goto, End, Same, RequestTyped
<1>5. CASE \E s \in Session \cup {NoSession} : IssueSession(p, s)
  BY <1>0, <1>5 DEF IssueSession, Goto, End, Same, RequestTyped
<1> QED BY <1>1, <1>2, <1>3, <1>4, <1>5 DEF Acts, Step

-----------------------------------------------------------------------------
(* Every step is such a step of the tables.                                *)

LEMMA ActTable == \A p \in Req : IInv /\ Acts(p) => TableStep /\ TableOK'
<1> SUFFICES ASSUME NEW p \in Req, IInv, Acts(p) PROVE TableStep /\ TableOK'
  OBVIOUS
<1>1. TableOK /\ RequestTyped /\ RequestWellFormed(p)
  BY IInvTable, TypeSplit DEF IInv
<1>2. now \in Nat /\ readAt[p] \in Nat /\ used \subseteq Session /\ rows \in [Session -> Row \cup {NoRow}]
  BY <1>1 DEF TableOK, TableTyped, RequestTyped
<1>3. CASE \/ Begins(p) \/ ReadSession(p) \/ ReadUser(p) \/ Handle(p) \/ FindUser(p)
  <2>1. UNCHANGED <<table, ended>> /\ now' = now
    BY <1>3 DEF Begins, Begin, BeginLogin, ReadSession, ReadUser, Handle, FindUser
  <2> QED BY <1>1, <1>2, <2>1, Quiet
<1>4. CASE DropExpired(p)
  <2>1. session[p] \in Session
    BY <1>1, <1>2, <1>4 DEF RequestWellFormed, DropExpired
  <2>2. rows' = [s \in Session |-> IF s \in {session[p]} THEN NoRow ELSE rows[s]]
    BY <1>2, <1>4 DEF DropExpired
  <2>3. UNCHANGED <<used, users, taken, now>> /\ ended' = ended
    BY <1>4 DEF DropExpired
  <2>4. {session[p]} \in SUBSET Session
    BY <2>1
  <2> QED BY <1>1, <2>2, <2>3, <2>4, Deletion
<1>5. CASE Touch(p)
  <2>1. session[p] \in used /\ UNCHANGED <<used, users, taken, now, ended>>
    BY <1>1, <1>5 DEF RequestWellFormed, Touch
  <2>2. CASE rows[session[p]] # NoRow
    <3>1. rows' = [rows EXCEPT ![session[p]].seen = readAt[p]]
      BY <1>5, <2>2 DEF Touch
    <3> QED BY <1>1, <1>2, <2>1, <2>2, <3>1, Touched
  <2>3. CASE rows[session[p]] = NoRow
    <3>1. UNCHANGED <<table, ended>> /\ now' = now
      BY <1>5, <2>1, <2>3 DEF Touch, table
    <3> QED BY <1>1, <1>2, <3>1, Quiet
  <2> QED BY <2>2, <2>3
<1>6. CASE Logout(p)
  <2>1. session[p] \in used /\ session[p] \in Session
    BY <1>1, <1>2, <1>6 DEF RequestWellFormed, Logout
  <2>2. rows' = [s \in Session |-> IF s \in {session[p]} THEN NoRow ELSE rows[s]]
    BY <1>2, <1>6 DEF Logout
  <2>3. UNCHANGED <<used, users, taken, now>> /\ ended' = ended \cup ({session[p]} \cap used)
    BY <1>6, <2>1 DEF Logout
  <2>4. {session[p]} \in SUBSET Session
    BY <2>1
  <2> QED BY <1>1, <2>2, <2>3, <2>4, Deletion
<1>7. CASE LogoutAll(p)
  <2> DEFINE D == SessionsOf(uid[p])
  <2>1. D \in SUBSET Session /\ D \subseteq used
    BY <1>1 DEF SessionsOf, TableOK, TableWellFormed
  <2>2. rows' = [s \in Session |-> IF s \in D THEN NoRow ELSE rows[s]]
    BY <1>7 DEF LogoutAll
  <2>3. ended' = ended \cup D /\ UNCHANGED <<used, users, taken, now>>
    BY <1>7 DEF LogoutAll
  <2> HIDE DEF D
  <2>4. D \cap used = D
    BY <2>1
  <2> QED BY <1>1, <2>1, <2>2, <2>3, <2>4, Deletion
<1>8. CASE \E u \in User \cup {NoUser} : CreateUser(p, u)
  <2>1. PICK u \in User \cup {NoUser} : CreateUser(p, u)
    BY <1>8
  <2>2. email[p] \in Email /\ UNCHANGED <<rows, used, now, ended>>
    BY <1>1, <2>1 DEF RequestWellFormed, CreateUser
  <2>3. CASE users[email[p]] # NoUser
    <3>1. UNCHANGED <<table, ended>> /\ now' = now
      BY <2>1, <2>2, <2>3 DEF CreateUser, table
    <3> QED BY <1>1, <1>2, <3>1, Quiet
  <2>4. CASE users[email[p]] = NoUser
    <3>1. /\ u \in User \ taken
          /\ users' = [users EXCEPT ![email[p]] = u]
          /\ taken' = taken \cup {u}
      BY <2>1, <2>4 DEF CreateUser
    <3> QED BY <1>1, <2>2, <2>4, <3>1, Created
  <2> QED BY <2>3, <2>4
<1>9. CASE \E s \in Session \cup {NoSession} : IssueSession(p, s)
  <2>1. PICK s \in Session \cup {NoSession} : IssueSession(p, s)
    BY <1>9
  <2>2. UNCHANGED <<users, taken, now, ended>> /\ pc[p] = "issue"
    BY <2>1 DEF IssueSession
  <2>3. CASE UNCHANGED <<used, rows, session>>
    <3>1. UNCHANGED <<table, ended>> /\ now' = now
      BY <2>2, <2>3 DEF table
    <3> QED BY <1>1, <1>2, <3>1, Quiet
  <2>4. CASE s \in Session \ used
    <3> DEFINE r == [user |-> uid[p], seen |-> now, expires |-> now + TTL]
    <3>1. email[p] \in Email /\ users[email[p]] = uid[p] /\ uid[p] # NoUser
      BY <1>1, <2>2 DEF RequestWellFormed
    <3>2. uid[p] \in User
      BY <1>1, <3>1 DEF RequestTyped
    <3>3. now + TTL \in Nat
      BY <1>2, TimeAssumption
    <3>4. r \in Row /\ r.user = uid[p]
      BY <1>2, <3>2, <3>3 DEF Row
    <3>5. CASE used' = used \cup {s} /\ rows' = [rows EXCEPT ![s] = r]
      <4> HIDE DEF r
      <4> QED BY <1>1, <2>2, <2>4, <3>1, <3>4, <3>5, Issued
    <3> QED BY <2>1, <2>3, <3>5 DEF IssueSession
  <2> QED BY <2>1, <2>3, <2>4 DEF IssueSession
<1> QED BY <1>3, <1>4, <1>5, <1>6, <1>7, <1>8, <1>9 DEF Acts, Step, Resolve

LEMMA SweepTable == IInv /\ (Prune \/ Tick \/ UNCHANGED sessionVars) => TableStep /\ TableOK'
<1> SUFFICES ASSUME IInv, Prune \/ Tick \/ UNCHANGED sessionVars PROVE TableStep /\ TableOK'
  OBVIOUS
<1>1. TableOK /\ now \in Nat
  BY IInvTable DEF IInv, SessionTypeOK
<1>2. CASE Prune
  <2>1. Pruned \in SUBSET Session
    BY DEF Pruned
  <2>2. /\ rows' = [s \in Session |-> IF s \in Pruned THEN NoRow ELSE rows[s]]
        /\ UNCHANGED <<used, users, taken, now>> /\ ended' = ended
    BY <1>2 DEF Prune
  <2> QED BY <1>1, <2>1, <2>2, Deletion
<1>3. CASE Tick \/ UNCHANGED sessionVars
  <2>1. UNCHANGED <<table, ended>> /\ (now' = now \/ now' = now + 1)
    BY <1>3 DEF Tick, sessionVars
  <2>2. now' \in Nat
    BY <1>1, <2>1
  <2> QED BY <1>1, <2>1, <2>2, Quiet
<1> QED BY <1>2, <1>3

-----------------------------------------------------------------------------
(* The request that takes the step.                                        *)

LEMMA OwnWellFormed == \A p \in Req : IInv /\ Acts(p) => RequestWellFormed(p)'
<1> SUFFICES ASSUME NEW p \in Req, IInv, Acts(p) PROVE RequestWellFormed(p)'
  OBVIOUS
<1>1. RequestTyped /\ RequestWellFormed(p) /\ TableStep /\ TableTyped /\ TableWellFormed
  BY ActTable, TypeSplit DEF IInv
<1> USE DEF Goto, End
<1>2. CASE Begins(p)
  <2>1. CASE \E o \in {"use", "logout", "logout_all"}, s \in used : Begin(p, o, s)
    <3>1. PICK o \in {"use", "logout", "logout_all"}, s \in used : Begin(p, o, s)
      BY <2>1
    <3>2. /\ pc[p] = "new" /\ pc'[p] = "read" /\ session'[p] = s /\ reply'[p] = reply[p]
          /\ late'[p] = (s \in ended) /\ used' = used /\ ended' = ended
      BY <1>1, <3>1 DEF Begin, RequestTyped, table
    <3> QED BY <1>1, <3>2 DEF RequestWellFormed
  <2>2. CASE \E e \in Email : BeginLogin(p, e)
    <3>1. PICK e \in Email : BeginLogin(p, e)
      BY <2>2
    <3>2. pc[p] = "new" /\ pc'[p] = "login" /\ email'[p] = e /\ late'[p] = late[p]
      BY <1>1, <3>1 DEF BeginLogin, RequestTyped
    <3> QED BY <1>1, <3>2 DEF RequestWellFormed
  <2> QED BY <1>2, <2>1, <2>2 DEF Begins
<1>3. CASE ReadSession(p)
  <2>1. /\ pc[p] = "read" /\ session'[p] = session[p] /\ late'[p] = late[p]
        /\ snap'[p] = rows[session[p]] /\ UNCHANGED <<rows, used, ended>>
    BY <1>1, <1>3 DEF ReadSession, RequestTyped, table
  <2>2. \/ rows[session[p]] = NoRow /\ pc'[p] = "done" /\ reply'[p] = "unauthorized"
        \/ rows[session[p]] # NoRow /\ pc'[p] \in {"expired", "user"}
    BY <1>1, <1>3 DEF ReadSession, RequestTyped
  <2>3. session[p] \in used /\ session[p] \in Session
    BY <1>1, <2>1 DEF RequestWellFormed, TableTyped
  <2>4. late[p] => rows[session[p]] = NoRow
    BY <1>1, <2>1 DEF RequestWellFormed, TableWellFormed
  <2>5. rows[session[p]] # NoRow => rows[session[p]] \in Row
    BY <1>1, <2>3 DEF TableTyped
  <2> QED BY <2>1, <2>2, <2>3, <2>4, <2>5 DEF RequestWellFormed
<1>4. CASE DropExpired(p)
  <2>1. pc'[p] = "done" /\ reply'[p] = "unauthorized"
    BY <1>1, <1>4 DEF DropExpired, RequestTyped
  <2> QED BY <2>1 DEF RequestWellFormed
<1>5. CASE ReadUser(p)
  <2>1. /\ pc[p] = "user" /\ pc'[p] \in {"touch", "act"} /\ uid'[p] = snap[p].user
        /\ UNCHANGED <<rows, used, session, snap, late>>
    BY <1>1, <1>5 DEF ReadUser, RequestTyped, table
  <2> QED BY <1>1, <2>1 DEF RequestWellFormed
<1>6. CASE Touch(p)
  <2>1. pc[p] = "touch" /\ UNCHANGED <<session, snap, uid, late>>
    BY <1>6 DEF Touch
  <2>2. (pc'[p] = "done" /\ reply'[p] = "internal") \/ pc'[p] = "act"
    BY <1>1, <1>6 DEF Touch, RequestTyped
  <2>3. session[p] \in used /\ ~late[p]
    BY <1>1, <2>1 DEF RequestWellFormed
  <2> QED BY <1>1, <2>1, <2>2, <2>3 DEF RequestWellFormed, TableStep
<1>7. CASE Handle(p) \/ Logout(p) \/ LogoutAll(p)
  <2>1. pc[p] = "act" /\ pc'[p] = "done" /\ late' = late
    BY <1>1, <1>7 DEF Handle, Logout, LogoutAll, RequestTyped
  <2> QED BY <1>1, <2>1 DEF RequestWellFormed
<1>8. CASE FindUser(p)
  <2>1. /\ pc[p] = "login" /\ uid'[p] = users[email[p]] /\ UNCHANGED <<users, email, late>>
        /\ pc'[p] = IF users[email[p]] = NoUser THEN "create" ELSE "issue"
    BY <1>1, <1>8 DEF FindUser, RequestTyped, table
  <2> QED BY <1>1, <2>1 DEF RequestWellFormed
<1>9. CASE \E u \in User \cup {NoUser} : CreateUser(p, u)
  <2>1. PICK u \in User \cup {NoUser} : CreateUser(p, u)
    BY <1>9
  <2>2. pc[p] = "create" /\ UNCHANGED <<email, late>> /\ email[p] \in Email /\ ~late[p]
    BY <1>1, <2>1 DEF CreateUser, RequestWellFormed
  <2>3. CASE users[email[p]] # NoUser
    <3>1. pc'[p] = "done"
      BY <1>1, <2>1, <2>3 DEF CreateUser, RequestTyped
    <3> QED BY <2>2, <3>1 DEF RequestWellFormed
  <2>4. CASE users[email[p]] = NoUser
    <3>1. /\ pc'[p] = "issue" /\ uid'[p] = u /\ u \in User
          /\ users' = [users EXCEPT ![email[p]] = u]
      BY <1>1, <2>1, <2>4 DEF CreateUser, RequestTyped
    <3>2. users'[email[p]] = u
      BY <1>1, <2>2, <3>1 DEF TableTyped
    <3> QED BY <2>2, <3>1, <3>2, SessionNullAssumption DEF RequestWellFormed
  <2> QED BY <2>3, <2>4
<1>10. CASE \E s \in Session \cup {NoSession} : IssueSession(p, s)
  <2>1. pc[p] = "issue" /\ pc'[p] = "done" /\ late' = late
    BY <1>1, <1>10 DEF IssueSession, RequestTyped
  <2> QED BY <1>1, <2>1 DEF RequestWellFormed
<1> QED BY <1>2, <1>3, <1>4, <1>5, <1>6, <1>7, <1>8, <1>9, <1>10 DEF Acts, Step, Resolve

LEMMA GotoTyped == \A p \in Req, l \in Pc :
  RequestTyped /\ Goto(p, l) => pc' \in [Req -> Pc] /\ reply' \in [Req -> Reply]
BY DEF RequestTyped, Goto

LEMMA EndTyped == \A p \in Req, o \in Reply :
  RequestTyped /\ End(p, o) => pc' \in [Req -> Pc] /\ reply' \in [Req -> Reply]
BY DEF RequestTyped, End, Pc

LEMMA ActTyped == \A p \in Req : IInv /\ Acts(p) => RequestTyped'
<1> SUFFICES ASSUME NEW p \in Req, IInv, Acts(p) PROVE RequestTyped'
  OBVIOUS
<1>1. RequestTyped /\ RequestWellFormed(p) /\ TableTyped
  BY TypeSplit DEF IInv
<1>2. {"read", "login", "expired", "user", "touch", "act", "create", "issue"} \subseteq Pc
  BY DEF Pc
<1>3. {"ok", "unauthorized", "internal"} \subseteq Reply
  BY DEF Reply
<1>4. CASE \E o \in {"use", "logout", "logout_all"}, s \in used : Begin(p, o, s)
  <2>1. PICK o \in {"use", "logout", "logout_all"}, s \in used : Begin(p, o, s)
    BY <1>4
  <2>2. o \in Op /\ s \in Session
    BY <1>1 DEF Op, TableTyped
  <2>3. pc' \in [Req -> Pc] /\ reply' \in [Req -> Reply]
    BY <1>1, <1>2, <2>1, GotoTyped DEF Begin
  <2>4. op' \in [Req -> Op] /\ session' \in [Req -> Session \cup {NoSession}]
    BY <1>1, <2>1, <2>2 DEF Begin, RequestTyped
  <2>5. late' \in [Req -> BOOLEAN]
    BY <1>1, <2>1 DEF Begin, RequestTyped
  <2> QED BY <1>1, <2>1, <2>3, <2>4, <2>5 DEF Begin, RequestTyped
<1>5. CASE \E e \in Email : BeginLogin(p, e)
  <2>1. PICK e \in Email : BeginLogin(p, e)
    BY <1>5
  <2>2. "login" \in Op
    BY DEF Op
  <2>3. pc' \in [Req -> Pc] /\ reply' \in [Req -> Reply]
    BY <1>1, <1>2, <2>1, GotoTyped DEF BeginLogin
  <2>4. op' \in [Req -> Op] /\ email' \in [Req -> Email \cup {NoEmail}]
    BY <1>1, <2>1, <2>2 DEF BeginLogin, RequestTyped
  <2> QED BY <1>1, <2>1, <2>3, <2>4 DEF BeginLogin, RequestTyped
<1>6. CASE ReadSession(p)
  <2>1. pc' \in [Req -> Pc] /\ reply' \in [Req -> Reply]
    BY <1>1, <1>2, <1>3, <1>6, GotoTyped, EndTyped DEF ReadSession
  <2>2. session[p] \in Session /\ now \in Nat
    BY <1>1, <1>6 DEF ReadSession, RequestWellFormed, TableTyped
  <2>3. snap' \in [Req -> Row \cup {NoRow}] /\ readAt' \in [Req -> Nat]
    BY <1>1, <1>6, <2>2 DEF ReadSession, RequestTyped, TableTyped
  <2> QED BY <1>1, <1>6, <2>1, <2>3 DEF ReadSession, RequestTyped
<1>7. CASE DropExpired(p) \/ Touch(p) \/ Handle(p) \/ Logout(p) \/ LogoutAll(p)
  <2>1. pc' \in [Req -> Pc] /\ reply' \in [Req -> Reply]
    BY <1>1, <1>2, <1>3, <1>7, GotoTyped, EndTyped DEF DropExpired, Touch, Handle, Logout, LogoutAll
  <2>2. UNCHANGED <<op, session, email, snap, readAt, uid, late>>
    BY <1>7 DEF DropExpired, Touch, Handle, Logout, LogoutAll
  <2> QED BY <1>1, <2>1, <2>2 DEF RequestTyped
<1>8. CASE ReadUser(p)
  <2>1. pc' \in [Req -> Pc] /\ reply' \in [Req -> Reply]
    BY <1>1, <1>2, <1>8, GotoTyped DEF ReadUser
  <2>2. snap[p].user \in User
    BY <1>1, <1>8 DEF ReadUser, RequestWellFormed, Row
  <2>3. uid' \in [Req -> User \cup {NoUser}]
    BY <1>1, <1>8, <2>2 DEF ReadUser, RequestTyped
  <2> QED BY <1>1, <1>8, <2>1, <2>3 DEF ReadUser, RequestTyped
<1>9. CASE FindUser(p)
  <2>1. pc' \in [Req -> Pc] /\ reply' \in [Req -> Reply]
    BY <1>1, <1>2, <1>9, GotoTyped DEF FindUser
  <2>2. users[email[p]] \in User \cup {NoUser}
    BY <1>1, <1>9 DEF FindUser, RequestWellFormed, TableTyped
  <2>3. uid' \in [Req -> User \cup {NoUser}]
    BY <1>1, <1>9, <2>2 DEF FindUser, RequestTyped
  <2> QED BY <1>1, <1>9, <2>1, <2>3 DEF FindUser, RequestTyped
<1>10. CASE \E u \in User \cup {NoUser} : CreateUser(p, u)
  <2>1. PICK u \in User \cup {NoUser} : CreateUser(p, u)
    BY <1>10
  <2>2. pc' \in [Req -> Pc] /\ reply' \in [Req -> Reply]
    BY <1>1, <1>2, <1>3, <2>1, GotoTyped, EndTyped DEF CreateUser
  <2>3. uid' \in [Req -> User \cup {NoUser}]
    BY <1>1, <2>1 DEF CreateUser, RequestTyped
  <2> QED BY <1>1, <2>1, <2>2, <2>3 DEF CreateUser, RequestTyped
<1>11. CASE \E s \in Session \cup {NoSession} : IssueSession(p, s)
  <2>1. PICK s \in Session \cup {NoSession} : IssueSession(p, s)
    BY <1>11
  <2>2. pc' \in [Req -> Pc] /\ reply' \in [Req -> Reply]
    BY <1>1, <1>3, <2>1, EndTyped DEF IssueSession
  <2>3. session' \in [Req -> Session \cup {NoSession}]
    BY <1>1, <2>1 DEF IssueSession, RequestTyped
  <2> QED BY <1>1, <2>1, <2>2, <2>3 DEF IssueSession, RequestTyped
<1> QED
  BY <1>4, <1>5, <1>6, <1>7, <1>8, <1>9, <1>10, <1>11 DEF Acts, Begins, Step, Resolve

-----------------------------------------------------------------------------
(* The invariant.                                                          *)

LEMMA InitIInv == SessionInit => IInv
<1> SUFFICES ASSUME SessionInit PROVE IInv
  OBVIOUS
<1>1. SessionTypeOK
  BY TimeAssumption DEF SessionInit, SessionTypeOK, Pc, Op, Reply
<1>2. TableWellFormed
  BY DEF SessionInit, TableWellFormed, OneUserPerEmail
<1>3. ASSUME NEW p \in Req PROVE RequestWellFormed(p)
  BY DEF SessionInit, RequestWellFormed
<1> QED BY <1>1, <1>2, <1>3 DEF IInv

LEMMA NextCases ==
  [SessionNext]_sessionVars => (\E p \in Req : Acts(p)) \/ Prune \/ Tick \/ UNCHANGED sessionVars
BY DEF SessionNext, Acts, Begins

LEMMA IInvStep == IInv /\ [SessionNext]_sessionVars => IInv' /\ TableStep
<1> SUFFICES ASSUME IInv, [SessionNext]_sessionVars PROVE IInv' /\ TableStep
  OBVIOUS
<1>1. CASE \E p \in Req : Acts(p)
  <2>1. PICK p \in Req : Acts(p)
    BY <1>1
  <2>2. TableStep /\ TableTyped' /\ TableWellFormed'
    BY <2>1, ActTable DEF TableOK
  <2>3. RequestTyped'
    BY <2>1, ActTyped
  <2>4. ASSUME NEW q \in Req PROVE RequestWellFormed(q)'
    <3>1. CASE q = p
      BY <2>1, <3>1, OwnWellFormed
    <3>2. CASE q # p
      BY <2>1, <2>2, <3>2, OthersSame, Frame DEF IInv
    <3> QED BY <3>1, <3>2
  <2>5. SessionTypeOK'
    BY <2>2, <2>3 DEF SessionTypeOK, TableTyped, RequestTyped
  <2> QED BY <2>2, <2>4, <2>5 DEF IInv
<1>2. CASE Prune \/ Tick \/ UNCHANGED sessionVars
  <2>1. TableStep /\ TableTyped' /\ TableWellFormed'
    BY <1>2, SweepTable DEF TableOK
  <2>2. UNCHANGED <<pc, op, session, email, snap, readAt, uid, reply, late>>
    BY <1>2 DEF Prune, Tick, sessionVars, request
  <2>3. RequestTyped
    BY TypeSplit DEF IInv
  <2>4. SessionTypeOK'
    BY <2>1, <2>2, <2>3 DEF SessionTypeOK, TableTyped, RequestTyped
  <2>5. ASSUME NEW q \in Req PROVE RequestWellFormed(q)'
    <3>1. Same(q)
      BY <2>2 DEF Same
    <3> QED BY <2>1, <3>1, Frame DEF IInv
  <2> QED BY <2>1, <2>4, <2>5 DEF IInv
<1> QED BY <1>1, <1>2, NextCases

\* The inductive invariant: what a request has read is wrong only about what is gone.
THEOREM Invariance == SessionSpec => []IInv
BY InitIInv, IInvStep, PTL DEF SessionSpec

\* Every variable keeps its type.
THEOREM TypeCorrect == SessionSpec => []SessionTypeOK
<1>1. IInv => SessionTypeOK
  BY DEF IInv
<1> QED BY <1>1, Invariance, PTL

\* Revoke and RevokeAll are final: no request that began after one was answered is let
\* in with the session, and no touch brings its row back.
THEOREM EndIsFinal == SessionSpec => []EndedStaysEnded
<1>1. IInv => EndedStaysEnded
  BY DEF IInv, TableWellFormed, RequestWellFormed, EndedStaysEnded
<1> QED BY <1>1, Invariance, PTL

\* Every session is of a user, and Resolve finds the user it was issued to.
THEOREM OwnUser == SessionSpec => []SessionOfItsUser
<1>1. IInv => SessionOfItsUser
  <2> SUFFICES ASSUME IInv PROVE SessionOfItsUser
    OBVIOUS
  <2>1. \A p \in Req : pc[p] \in {"touch", "act"} /\ rows[session[p]] # NoRow =>
          uid[p] = rows[session[p]].user
    BY DEF IInv, RequestWellFormed
  <2> QED BY <2>1 DEF IInv, TableWellFormed, SessionOfItsUser
<1> QED BY <1>1, Invariance, PTL

\* completeLogin makes one user of an email, however many first logins race.
THEOREM OneUser == SessionSpec => []OneUserPerEmail
<1>1. IInv => OneUserPerEmail
  BY DEF IInv, TableWellFormed
<1> QED BY <1>1, Invariance, PTL

\* No statement extends a session, gives it to another user or brings it back.
THEOREM NoExtension == SessionSpec => NeverExtended
<1>1. IInv /\ [SessionNext]_sessionVars =>
        [\A s \in used : rows'[s] # NoRow =>
           rows[s] # NoRow /\ rows'[s].expires = rows[s].expires /\ rows'[s].user = rows[s].user]_sessionVars
  BY IInvStep DEF TableStep
<1> QED BY <1>1, Invariance, PTL DEF SessionSpec, NeverExtended

\* Timestamps in the order of their text are in the order of time, but within a second.
LEMMA TextOrder == \A s, t \in Nat : TextLeq(s, t) => s - t < PerSecond
<1> SUFFICES ASSUME NEW s \in Nat, NEW t \in Nat, TextLeq(s, t) PROVE s - t < PerSecond
  OBVIOUS
<1>1. PerSecond \in Nat /\ PerSecond > 0
  BY TimeAssumption
<1>2. CASE s <= t
  BY <1>1, <1>2
<1>3. CASE SecondOf(s) = SecondOf(t)
  <2>0. s \div PerSecond = t \div PerSecond
    BY <1>3 DEF SecondOf
  <2> DEFINE q == s \div PerSecond
             a == s % PerSecond
             b == t % PerSecond
  <2>1. s = PerSecond * q + a /\ a \in 0..(PerSecond - 1)
    BY <1>1
  <2>2. t = PerSecond * q + b /\ b \in 0..(PerSecond - 1)
    BY <1>1, <2>0
  <2>3. PerSecond * q \in Int
    BY <1>1
  <2> HIDE DEF q, a, b
  <2> DEFINE x == PerSecond * q
  <2> HIDE DEF x
  <2> QED BY <1>1, <2>1, <2>2, <2>3 DEF x
<1>4. CASE SecondOf(s) < SecondOf(t)
  <2>0. s \div PerSecond < t \div PerSecond
    BY <1>4 DEF SecondOf
  <2> DEFINE q == s \div PerSecond
             r == t \div PerSecond
             a == s % PerSecond
             b == t % PerSecond
  <2>1. /\ s = PerSecond * q + a /\ a \in 0..(PerSecond - 1)
        /\ t = PerSecond * r + b /\ b \in 0..(PerSecond - 1)
        /\ q \in Int /\ r \in Int /\ q + 1 <= r
    BY <1>1, <2>0
  <2> HIDE DEF q, r, a, b
  <2>2. PerSecond * (q + 1) <= PerSecond * r
    BY <1>1, <2>1
  <2>3. PerSecond * (q + 1) = PerSecond * q + PerSecond
    BY <1>1, <2>1
  <2>4. PerSecond * q \in Int /\ PerSecond * r \in Int
    BY <1>1, <2>1
  <2> DEFINE x == PerSecond * q
             y == PerSecond * r
  <2>5. x + PerSecond <= y
    BY <2>2, <2>3
  <2>6. x \in Int /\ y \in Int /\ s = x + a /\ t = y + b
    BY <2>1, <2>4
  <2> HIDE DEF x, y
  <2> QED BY <1>1, <2>1, <2>5, <2>6
<1> QED BY <1>3, <1>4 DEF TextLeq

\* DeleteExpiredSessions compares text, and errs by less than a second.
THEOREM PrunedInTime == SessionSpec => PruneWithinASecond
<1>1. IInv /\ [SessionNext]_sessionVars =>
        [\A s \in Session :
           rows[s] # NoRow /\ rows'[s] = NoRow /\ UNCHANGED pc
             => rows[s].expires - now < PerSecond]_sessionVars
  <2> SUFFICES ASSUME IInv, [SessionNext]_sessionVars, NEW s \in Session,
                      rows[s] # NoRow, rows'[s] = NoRow, UNCHANGED pc
               PROVE  rows[s].expires - now < PerSecond
    OBVIOUS
  <2>1. rows \in [Session -> Row \cup {NoRow}] /\ now \in Nat /\ pc \in [Req -> Pc]
    BY DEF IInv, SessionTypeOK
  <2>2. ASSUME NEW p \in Req, Acts(p) PROVE pc'[p] # pc[p]
    <3>1. CASE Begins(p)
      BY <2>1, <3>1 DEF Begins, Begin, BeginLogin, Goto
    <3>2. CASE Resolve(p)
      BY <2>1, <3>2 DEF Resolve, ReadSession, DropExpired, ReadUser, Touch, Goto, End
    <3>3. CASE Handle(p) \/ Logout(p) \/ LogoutAll(p) \/ FindUser(p)
      BY <2>1, <3>3 DEF Handle, Logout, LogoutAll, FindUser, Goto, End
    <3>4. CASE \E u \in User \cup {NoUser} : CreateUser(p, u)
      BY <2>1, <3>4 DEF CreateUser, Goto, End
    <3>5. CASE \E z \in Session \cup {NoSession} : IssueSession(p, z)
      BY <2>1, <3>5 DEF IssueSession, Goto, End
    <3> QED BY <2>2, <3>1, <3>2, <3>3, <3>4, <3>5 DEF Acts, Step
  <2>3. Prune
    BY <2>2, NextCases DEF Tick, sessionVars, table
  <2>4. s \in Pruned
    BY <2>1, <2>3 DEF Prune
  <2>5. TextLeq(rows[s].expires, now) /\ rows[s].expires \in Nat
    BY <2>1, <2>4 DEF Pruned, Row
  <2> QED BY <2>1, <2>5, TextOrder
<1> QED BY <1>1, Invariance, PTL DEF SessionSpec, PruneWithinASecond
=============================================================================

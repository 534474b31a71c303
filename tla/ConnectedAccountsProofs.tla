---------------------- MODULE ConnectedAccountsProofs ----------------------
(***************************************************************************)
(* Proofs about ConnectedAccounts, for every set of users, Google          *)
(* accounts, refresh tokens and requests, every limit and every finite     *)
(* set of account ids.                                                     *)
(***************************************************************************)
EXTENDS ConnectedAccounts, FiniteSetTheorems, TLAPS

-----------------------------------------------------------------------------
(* What a step may do to the table, whichever request it is of.            *)

\* The row of a card is written: user and Google account stay.
Replaced(u, i, row) ==
  /\ rows[i] # NoRow /\ rows[i].user = u
  /\ row \in Row /\ row.user = u /\ row.sub = rows[i].sub
  /\ subOf[row.cred] = row.sub
  /\ rows' = [rows EXCEPT ![i] = row]
  /\ ids' = ids

Removed(u, i) ==
  /\ rows[i] # NoRow /\ rows[i].user = u
  /\ rows' = [rows EXCEPT ![i] = NoRow]
  /\ ids' = ids

Added(u, i, row) ==
  /\ i \notin ids
  /\ row \in Row /\ row.user = u
  /\ subOf[row.cred] = row.sub
  /\ \A j \in AcctId : rows[j] # NoRow /\ rows[j].user = u => rows[j].sub # row.sub
  /\ rows' = [rows EXCEPT ![i] = row]
  /\ ids' = ids \cup {i}

\* A step for user u.
TableStep(u) ==
  \/ UNCHANGED db
  \/ \E i \in AcctId, row \in Row : Replaced(u, i, row)
  \/ \E i \in AcctId : Removed(u, i)
  \/ \E i \in AcctId, row \in Row : Added(u, i, row)

TableOK ==
  /\ rows \in Tables /\ ids \subseteq AcctId
  /\ \A i \in AcctId : rows[i] # NoRow => i \in ids
  /\ UniqueIdentity
  /\ CredOfIdentity

\* Such steps keep the table in order: an id is given to a card once, no Google account
\* of a user is on two cards, and every refresh token is of its card's Google account.
LEMMA TableStepOK == \A u : TableOK /\ TableStep(u) => TableOK'
<1> SUFFICES ASSUME NEW u, TableOK, TableStep(u) PROVE TableOK'
  OBVIOUS
<1> USE RowAssumption
<1>0. rows \in [AcctId -> Row \cup {NoRow}] /\ ids \subseteq AcctId
  BY DEF TableOK, Tables
<1>1. CASE UNCHANGED db
  BY <1>1 DEF TableOK, UniqueIdentity, CredOfIdentity, db
<1>2. ASSUME NEW i \in AcctId, NEW row \in Row, Replaced(u, i, row) PROVE TableOK'
  <2>1. rows' \in Tables /\ ids' \subseteq AcctId
    BY <1>0, <1>2 DEF Replaced, Tables
  <2>2. \A j \in AcctId : rows'[j] # NoRow =>
          rows[j] # NoRow /\ rows'[j].user = rows[j].user /\ rows'[j].sub = rows[j].sub
    BY <1>0, <1>2 DEF Replaced
  <2>3. UniqueIdentity'
    BY <2>2 DEF TableOK, UniqueIdentity, OneRowPerIdentity
  <2>4. CredOfIdentity'
    BY <1>0, <1>2 DEF Replaced, TableOK, CredOfIdentity, OwnCredentials
  <2> QED
    BY <1>2, <2>1, <2>2, <2>3, <2>4 DEF TableOK, Replaced
<1>3. ASSUME NEW i \in AcctId, Removed(u, i) PROVE TableOK'
  <2>1. rows' \in Tables /\ ids' \subseteq AcctId
    BY <1>0, <1>3 DEF Removed, Tables
  <2>2. \A j \in AcctId : rows'[j] # NoRow => rows[j] # NoRow /\ rows'[j] = rows[j]
    BY <1>0, <1>3 DEF Removed
  <2>3. UniqueIdentity' /\ CredOfIdentity'
    BY <2>2 DEF TableOK, UniqueIdentity, OneRowPerIdentity, CredOfIdentity, OwnCredentials
  <2> QED
    BY <1>3, <2>1, <2>2, <2>3 DEF TableOK, Removed
<1>4. ASSUME NEW i \in AcctId, NEW row \in Row, Added(u, i, row) PROVE TableOK'
  <2>1. rows' \in Tables /\ ids' \subseteq AcctId
    BY <1>0, <1>4 DEF Added, Tables
  <2>2. /\ rows'[i] = row
        /\ \A j \in AcctId \ {i} : rows'[j] = rows[j]
    BY <1>0, <1>4 DEF Added
  <2>3. UniqueIdentity'
    <3> SUFFICES ASSUME NEW j \in AcctId, NEW k \in AcctId,
                        rows'[j] # NoRow, rows'[k] # NoRow,
                        rows'[j].user = rows'[k].user, rows'[j].sub = rows'[k].sub
                 PROVE  j = k
      BY DEF UniqueIdentity, OneRowPerIdentity
    <3>1. CASE j = i
      BY <1>4, <2>2, <3>1 DEF Added
    <3>2. CASE k = i
      BY <1>4, <2>2, <3>2 DEF Added
    <3>3. CASE j # i /\ k # i
      BY <2>2, <3>3 DEF TableOK, UniqueIdentity, OneRowPerIdentity
    <3> QED
      BY <3>1, <3>2, <3>3
  <2>4. CredOfIdentity'
    BY <1>4, <2>2 DEF Added, TableOK, CredOfIdentity, OwnCredentials
  <2>5. \A j \in AcctId : rows'[j] # NoRow => j \in ids'
    BY <1>4, <2>2 DEF Added, TableOK
  <2> QED
    BY <2>1, <2>3, <2>4, <2>5 DEF TableOK
<1> QED
  BY <1>1, <1>2, <1>3, <1>4 DEF TableStep

\* What a request has read of a card stays true of that card: ids are not used again.
LEMMA SnapshotKept ==
  \A u, i, row : TableOK /\ TableStep(u) /\ i \in AcctId /\ Snapshot(i, row) => Snapshot(i, row)'
<1> SUFFICES ASSUME NEW u, NEW i, NEW row,
                    TableOK, TableStep(u), i \in AcctId, Snapshot(i, row)
             PROVE  Snapshot(i, row)'
  OBVIOUS
<1>0. rows \in [AcctId -> Row \cup {NoRow}]
  BY DEF TableOK, Tables
<1>1. ids \subseteq ids'
  BY DEF TableStep, Replaced, Removed, Added, db
<1>2. rows'[i] # NoRow =>
        rows[i] # NoRow /\ rows'[i].user = rows[i].user /\ rows'[i].sub = rows[i].sub
  <2>1. CASE UNCHANGED db
    BY <2>1 DEF db
  <2>2. ASSUME NEW j \in AcctId, NEW r \in Row, Replaced(u, j, r)
        PROVE rows'[i] # NoRow =>
                rows[i] # NoRow /\ rows'[i].user = rows[i].user /\ rows'[i].sub = rows[i].sub
    BY <1>0, <2>2 DEF Replaced
  <2>3. ASSUME NEW j \in AcctId, Removed(u, j)
        PROVE rows'[i] # NoRow => rows[i] # NoRow /\ rows'[i] = rows[i]
    BY <1>0, <2>3 DEF Removed
  <2>4. ASSUME NEW j \in AcctId, NEW r \in Row, Added(u, j, r)
        PROVE rows'[i] = rows[i]
    BY <1>0, <2>4 DEF Added, Snapshot
  <2> QED
    BY <2>1, <2>2, <2>3, <2>4 DEF TableStep
<1> QED
  BY <1>1, <1>2 DEF Snapshot

\* The statements that write the row a request has read, or the position it moves.
LEMMA WriteRow ==
  \A u, i, row, new :
    /\ TableOK /\ i \in AcctId /\ Snapshot(i, row) /\ row.user = u
    /\ new \in Row /\ new.user = u /\ new.sub = row.sub /\ subOf[new.cred] = row.sub
    /\ Updates(i, new) /\ rows' = Updated(i, new) /\ ids' = ids
    => TableStep(u)
<1> SUFFICES ASSUME NEW u, NEW i, NEW row, NEW new,
                    TableOK, i \in AcctId, Snapshot(i, row), row.user = u,
                    new \in Row, new.user = u, new.sub = row.sub, subOf[new.cred] = row.sub,
                    Updates(i, new), rows' = Updated(i, new), ids' = ids
             PROVE  TableStep(u)
  OBVIOUS
<1>1. rows[i] # NoRow /\ rows[i].user = u /\ rows[i].sub = new.sub
  BY DEF Updates, Snapshot
<1>2. [new EXCEPT !.sub = rows[i].sub] = new
  BY <1>1 DEF Row
<1>3. rows' = [rows EXCEPT ![i] = new]
  BY <1>2 DEF Updated
<1>4. Replaced(u, i, new)
  BY <1>1, <1>3 DEF Replaced
<1> QED
  BY <1>4 DEF TableStep

\* The statements that name a row by its id alone change its status or its last use.
LEMMA MarkRow ==
  \A u, i, row, st, us :
    /\ TableOK /\ i \in AcctId /\ Snapshot(i, row) /\ row.user = u
    /\ rows[i] # NoRow /\ st \in Status /\ us \in BOOLEAN
    /\ rows' = [rows EXCEPT ![i] = [@ EXCEPT !.status = st, !.used = us]]
    /\ ids' = ids
    => TableStep(u)
<1> SUFFICES ASSUME NEW u, NEW i, NEW row, NEW st, NEW us,
                    TableOK, i \in AcctId, Snapshot(i, row), row.user = u,
                    rows[i] # NoRow, st \in Status, us \in BOOLEAN,
                    rows' = [rows EXCEPT ![i] = [@ EXCEPT !.status = st, !.used = us]],
                    ids' = ids
             PROVE  TableStep(u)
  OBVIOUS
<1> DEFINE new == [rows[i] EXCEPT !.status = st, !.used = us]
<1>0. rows \in [AcctId -> Row \cup {NoRow}]
  BY DEF TableOK, Tables
<1>1. rows[i] \in Row /\ rows[i].user = u
  BY <1>0 DEF Snapshot
<1>2. new \in Row /\ new.user = u /\ new.sub = rows[i].sub /\ new.cred = rows[i].cred
  BY <1>1 DEF Row
<1>3. subOf[new.cred] = new.sub
  BY <1>2 DEF TableOK, CredOfIdentity, OwnCredentials
<1>4. rows' = [rows EXCEPT ![i] = new]
  BY <1>0
<1>5. Replaced(u, i, new)
  BY <1>1, <1>2, <1>3, <1>4 DEF Replaced
<1> QED
  BY <1>2, <1>5 DEF TableStep

LEMMA FlagRow ==
  \A u, i, row :
    /\ TableOK /\ i \in AcctId /\ Snapshot(i, row) /\ row.user = u
    /\ rows' = Flagged(i, row) /\ ids' = ids
    => TableStep(u)
<1> SUFFICES ASSUME NEW u, NEW i, NEW row,
                    TableOK, i \in AcctId, Snapshot(i, row), row.user = u,
                    rows' = Flagged(i, row), ids' = ids
             PROVE  TableStep(u)
  OBVIOUS
<1>0. rows \in [AcctId -> Row \cup {NoRow}]
  BY DEF TableOK, Tables
<1>1. CASE rows' = rows
  BY <1>1 DEF TableStep, db
<1>2. CASE rows[i] # NoRow /\ rows' = [rows EXCEPT ![i].status = "reauth_required"]
  <2>1. rows[i] \in Row
    BY <1>0, <1>2
  <2>2. rows[i].used \in BOOLEAN
    BY <2>1 DEF Row
  <2>3. [rows[i] EXCEPT !.status = "reauth_required"]
          = [rows[i] EXCEPT !.status = "reauth_required", !.used = rows[i].used]
    BY <2>1 DEF Row
  <2>4. rows' = [rows EXCEPT ![i] = [@ EXCEPT !.status = "reauth_required", !.used = rows[i].used]]
    BY <1>2, <2>3
  <2> QED
    BY <1>2, <2>2, <2>4, MarkRow DEF Status
<1> QED
  BY <1>1, <1>2 DEF Flagged

LEMMA IInvTable == IInv => TableOK
  BY DEF IInv, TypeOK, TableOK

\* Every step of a request does to the table what TableStep allows for its user, and
\* nothing once the request is done.
LEMMA StepTable == \A p \in Req : IInv /\ Step(p) => TableStep(user[p]) /\ Active(p)
<1> SUFFICES ASSUME NEW p \in Req, IInv, Step(p) PROVE TableStep(user[p]) /\ Active(p)
  OBVIOUS
<1>0. TableOK /\ RequestWellFormed(p)
  BY IInvTable DEF IInv
<1>t. rows \in [AcctId -> Row \cup {NoRow}]
  BY <1>0 DEF TableOK, Tables
<1> DEFINE same == UNCHANGED db
<1>1. same => TableStep(user[p])
  BY DEF TableStep
<1>2. CASE Lookup(p)
  BY <1>1, <1>2 DEF Lookup, Active
<1>3. CASE Count(p)
  BY <1>1, <1>3 DEF Count, Active
<1>4. ASSUME NEW i \in AcctId \cup {NoId}, Create(p, i) PROVE TableStep(user[p]) /\ Active(p)
  <2>0. Active(p)
    BY <1>4 DEF Create, Active
  <2>1. CASE Matches(p) # {}
    BY <1>1, <1>4, <2>0, <2>1 DEF Create
  <2>2. CASE Matches(p) = {}
    <3> DEFINE n == Cardinality(InList(p))
               row == [user |-> user[p], sub |-> subOf[cred[p]], scope |-> scope[p],
                       status |-> "connected", cred |-> cred[p], order |-> n, used |-> FALSE]
    <3>1. n \in Nat
      BY IdAssumption, FS_Subset, FS_CardinalityType DEF InList
    <3>2. pc[p] = "create" /\ op[p] = "link"
      BY <1>0, <1>4 DEF Create, RequestWellFormed
    <3>3. user[p] \in User /\ cred[p] \in Cred
      BY <1>0, <3>2 DEF RequestWellFormed
    <3>4. scope[p] \in Scope
      BY DEF IInv, TypeOK
    <3>5. subOf[cred[p]] \in Sub
      BY <3>3, CredAssumption
    <3>6. row \in Row
      BY <3>1, <3>3, <3>4, <3>5 DEF Row, Status
    <3>7. \A j \in AcctId : rows[j] # NoRow /\ rows[j].user = user[p] => rows[j].sub # row.sub
      BY <2>2 DEF Matches, OwnedBy
    <3>8. i \in AcctId /\ i \notin ids /\ rows' = [rows EXCEPT ![i] = row] /\ ids' = ids \cup {i}
      BY <1>4, <2>2 DEF Create
    <3>9. Added(user[p], i, row)
      BY <3>6, <3>7, <3>8 DEF Added
    <3> QED
      BY <2>0, <3>6, <3>8, <3>9 DEF TableStep
  <2> QED
    BY <2>1, <2>2
<1>5. CASE Get(p)
  BY <1>1, <1>5 DEF Get, Active
<1>6. CASE Update(p)
  <2>0. Active(p) /\ pc[p] = "update"
    BY <1>6 DEF Update, Active
  <2> DEFINE row == [snap[p] EXCEPT !.cred = cred[p], !.status = "connected", !.scope = NewScope(p)]
  <2>1. /\ op[p] \in {"link", "reconnect"} /\ cred[p] \in Cred
        /\ Snapshot(id[p], snap[p]) /\ snap[p].user = user[p]
        /\ subOf[cred[p]] = snap[p].sub
    BY <1>0, <2>0 DEF RequestWellFormed, HasSnapshot
  <2>2. id[p] \in AcctId /\ snap[p] \in Row
    BY <1>0, <2>1 DEF Snapshot, TableOK
  <2>3. NewScope(p) \in Scope
    <3>1. scope[p] \in Scope
      BY DEF IInv, TypeOK
    <3> QED
      BY <3>1 DEF NewScope, Scope
  <2>4. row \in Row /\ row.user = user[p] /\ row.sub = snap[p].sub /\ subOf[row.cred] = snap[p].sub
    BY <2>1, <2>2, <2>3 DEF Row, Status
  <2>5. CASE Updates(id[p], row)
    <3>1. rows' = Updated(id[p], row) /\ ids' = ids
      BY <1>6, <2>5 DEF Update
    <3> HIDE DEF row
    <3> QED
      BY <1>0, <2>0, <2>1, <2>2, <2>4, <2>5, <3>1, WriteRow
  <2>6. CASE ~Updates(id[p], row)
    BY <1>1, <1>6, <2>0, <2>6 DEF Update, db
  <2> QED
    BY <2>5, <2>6
<1>7. CASE Revoke(p)
  BY <1>1, <1>7 DEF Revoke, Active
<1>8. CASE Delete(p)
  <2>0. Active(p)
    BY <1>8 DEF Delete, Active
  <2>1. CASE Found(p)
    <3>1. Removed(user[p], id[p]) /\ id[p] \in AcctId
      BY <1>8, <2>1 DEF Delete, Found, OwnedBy, Removed
    <3> QED
      BY <2>0, <3>1 DEF TableStep
  <2>2. CASE ~Found(p)
    BY <1>1, <1>8, <2>0, <2>2 DEF Delete, db
  <2> QED
    BY <2>1, <2>2
<1>9. CASE ReadOrder(p)
  BY <1>1, <1>9 DEF ReadOrder, Active
<1>10. CASE WriteOrder(p)
  <2>0. Active(p) /\ pc[p] = "write" /\ ids' = ids
    BY <1>10 DEF WriteOrder, Active
  <2>1. CASE UNCHANGED rows
    BY <1>1, <2>0, <2>1 DEF db
  <2>2. ASSUME NEW k \in todo[p],
               Updates(ord[p][k], [list[p][ord[p][k]] EXCEPT !.order = k - 1]),
               rows' = Updated(ord[p][k], [list[p][ord[p][k]] EXCEPT !.order = k - 1])
        PROVE  TableStep(user[p])
    <3> DEFINE i == ord[p][k]
               row == [list[p][i] EXCEPT !.order = k - 1]
    <3>1. k \in 1..Len(ord[p]) /\ i \in InList(p)
      BY <1>0, <2>0 DEF RequestWellFormed
    <3>2. Snapshot(i, list[p][i]) /\ list[p][i].user = user[p] /\ i \in AcctId
      BY <1>0, <3>1 DEF RequestWellFormed, InList
    <3>3. k - 1 \in Nat
      BY <3>1
    <3>4. list[p][i] \in Row
      BY <3>2 DEF Snapshot
    <3>5. row \in Row /\ row.user = user[p] /\ row.sub = list[p][i].sub
          /\ subOf[row.cred] = list[p][i].sub
      BY <3>2, <3>3, <3>4 DEF Row, Snapshot
    <3>6. Updates(i, row) /\ rows' = Updated(i, row)
      BY <2>2
    <3> HIDE DEF i, row
    <3> QED
      BY <1>0, <2>0, <3>2, <3>5, <3>6, WriteRow
  <2> QED
    BY <1>10, <2>0, <2>1, <2>2 DEF WriteOrder
<1>11. CASE CallDrive(p)
  BY <1>1, <1>11 DEF CallDrive, Active
<1>12. CASE Note(p) \/ NoteListed(p)
  <2>0. Active(p) /\ pc[p] = "note" /\ ids' = ids /\ rows' = Flagged(id[p], snap[p])
    BY <1>12 DEF Note, NoteListed, Active
  <2>1. Snapshot(id[p], snap[p]) /\ snap[p].user = user[p]
    BY <1>0, <2>0 DEF RequestWellFormed, HasSnapshot
  <2>2. id[p] \in AcctId
    BY <1>0, <2>1 DEF Snapshot, TableOK
  <2> QED
    BY <1>0, <2>0, <2>1, <2>2, FlagRow
<1>13. CASE Touch(p)
  <2>0. Active(p) /\ pc[p] = "touch" /\ ids' = ids
    BY <1>13 DEF Touch, Active
  <2>1. Snapshot(id[p], snap[p]) /\ snap[p].user = user[p]
    BY <1>0, <2>0 DEF RequestWellFormed, HasSnapshot
  <2>2. id[p] \in AcctId
    BY <1>0, <2>1 DEF Snapshot, TableOK
  <2>3. CASE rows[id[p]] # NoRow
    <3>1. rows[id[p]] \in Row
      BY <1>t, <2>2, <2>3
    <3>2. rows[id[p]].status \in Status
      BY <3>1 DEF Row
    <3>3. rows' = [rows EXCEPT ![id[p]].used = TRUE]
      BY <1>13, <2>3 DEF Touch
    <3>4. [rows[id[p]] EXCEPT !.used = TRUE]
            = [rows[id[p]] EXCEPT !.status = rows[id[p]].status, !.used = TRUE]
      BY <3>1 DEF Row
    <3>5. rows' = [rows EXCEPT ![id[p]] = [@ EXCEPT !.status = rows[id[p]].status, !.used = TRUE]]
      BY <3>3, <3>4
    <3> QED
      BY <1>0, <2>0, <2>1, <2>2, <2>3, <3>2, <3>5, MarkRow
  <2>4. CASE rows[id[p]] = NoRow
    BY <1>1, <1>13, <2>0, <2>4 DEF Touch, db
  <2> QED
    BY <2>3, <2>4
<1>14. CASE ReadList(p)
  BY <1>1, <1>14 DEF ReadList, Active
<1>15. ASSUME NEW i \in AcctId, FetchQuota(p, i) PROVE TableStep(user[p]) /\ Active(p)
  BY <1>1, <1>15 DEF FetchQuota, Active
<1>16. CASE EndList(p)
  BY <1>1, <1>16 DEF EndList, Active
<1> QED
  BY <1>2, <1>3, <1>4, <1>5, <1>6, <1>7, <1>8, <1>9, <1>10, <1>11, <1>12, <1>13, <1>14, <1>15, <1>16
  DEF Step

-----------------------------------------------------------------------------
(* What the requests know.                                                 *)

\* Nothing that RequestWellFormed says of q changes but the table.
Same(q) ==
  /\ pc'[q] = pc[q] /\ op'[q] = op[q] /\ user'[q] = user[q] /\ id'[q] = id[q]
  /\ cred'[q] = cred[q] /\ snap'[q] = snap[q] /\ list'[q] = list[q]
  /\ ord'[q] = ord[q] /\ todo'[q] = todo[q]

ListWellFormed(q) == \A i \in InList(q) : Snapshot(i, list[q][i]) /\ list[q][i].user = user[q]

\* The variables of requests are functions, which is what an EXCEPT needs.
Functions ==
  /\ pc = [q \in Req |-> pc[q]] /\ op = [q \in Req |-> op[q]]
  /\ user = [q \in Req |-> user[q]] /\ id = [q \in Req |-> id[q]]
  /\ cred = [q \in Req |-> cred[q]] /\ snap = [q \in Req |-> snap[q]]
  /\ list = [q \in Req |-> list[q]] /\ ord = [q \in Req |-> ord[q]]
  /\ todo = [q \in Req |-> todo[q]]

LEMMA TypedFunctions == TypeOK => Functions
  BY DEF TypeOK, Functions

\* A step of one request leaves the local variables of the others alone.
LEMMA OthersSame ==
  \A p, q \in Req : Functions /\ (Start(p) \/ Step(p)) /\ q # p => Same(q)
<1> SUFFICES ASSUME NEW p \in Req, NEW q \in Req, Functions, Start(p) \/ Step(p), q # p
             PROVE  Same(q)
  OBVIOUS
<1> USE DEF Functions, Same, Goto, End, input
<1>1. CASE Start(p)
  <2>1. ASSUME NEW u \in User, NEW r \in Cred, NEW sc \in Scope, StartLink(p, u, r, sc)
        PROVE Same(q)
    BY <2>1 DEF StartLink, Arrive, Consent
  <2>2. ASSUME NEW u \in User, NEW r \in Cred, NEW sc \in Scope, NEW i \in AcctId,
               StartReconnect(p, u, i, r, sc)
        PROVE Same(q)
    BY <2>2 DEF StartReconnect, Arrive, Consent
  <2>3. ASSUME NEW u \in User, NEW i \in AcctId, NEW o, StartOnAccount(p, o, u, i)
        PROVE Same(q)
    BY <2>3 DEF StartOnAccount, Arrive
  <2>4. ASSUME NEW u \in User, NEW o \in Orders, StartReorder(p, u, o)
        PROVE Same(q)
    BY <2>4 DEF StartReorder, Arrive
  <2>5. ASSUME NEW u \in User, StartList(p, u)
        PROVE Same(q)
    BY <2>5 DEF StartList, Arrive
  <2> QED
    BY <1>1, <2>1, <2>2, <2>3, <2>4, <2>5 DEF Start
<1>2. CASE Lookup(p)
  BY <1>2 DEF Lookup
<1>3. CASE Count(p)
  BY <1>3 DEF Count
<1>4. ASSUME NEW i \in AcctId \cup {NoId}, Create(p, i) PROVE Same(q)
  BY <1>4 DEF Create
<1>5. CASE Get(p)
  BY <1>5 DEF Get
<1>6. CASE Update(p)
  BY <1>6 DEF Update
<1>7. CASE Revoke(p)
  BY <1>7 DEF Revoke
<1>8. CASE Delete(p)
  BY <1>8 DEF Delete
<1>9. CASE ReadOrder(p)
  BY <1>9 DEF ReadOrder
<1>10. CASE WriteOrder(p)
  BY <1>10 DEF WriteOrder
<1>11. CASE CallDrive(p)
  BY <1>11 DEF CallDrive
<1>12. CASE Note(p)
  BY <1>12 DEF Note
<1>13. CASE Touch(p)
  BY <1>13 DEF Touch
<1>14. CASE ReadList(p)
  BY <1>14 DEF ReadList
<1>15. ASSUME NEW i \in AcctId, FetchQuota(p, i) PROVE Same(q)
  BY <1>15 DEF FetchQuota
<1>16. CASE NoteListed(p)
  BY <1>16 DEF NoteListed
<1>17. CASE EndList(p)
  BY <1>17 DEF EndList
<1> QED
  BY <1>1, <1>2, <1>3, <1>4, <1>5, <1>6, <1>7, <1>8, <1>9, <1>10, <1>11, <1>12, <1>13, <1>14,
     <1>15, <1>16, <1>17 DEF Step

\* The rows a request holds stay what they are, whatever happens to the table.
LEMMA ListKept ==
  \A u, q : TableOK /\ TableStep(u) /\ ListWellFormed(q)
              /\ list'[q] = list[q] /\ user'[q] = user[q] => ListWellFormed(q)'
<1> SUFFICES ASSUME NEW u, NEW q, TableOK, TableStep(u), ListWellFormed(q),
                    list'[q] = list[q], user'[q] = user[q],
                    NEW i \in AcctId, list[q][i] # NoRow
             PROVE  Snapshot(i, list[q][i])' /\ list[q][i].user = user[q]
  BY DEF ListWellFormed, InList, Snapshot
<1>1. Snapshot(i, list[q][i]) /\ list[q][i].user = user[q]
  BY DEF ListWellFormed, InList
<1> DEFINE row == list[q][i]
<1>2. Snapshot(i, row)
  BY <1>1
<1>3. row' = row
  OBVIOUS
<1> QED
  BY <1>1, <1>2, <1>3, SnapshotKept DEF Snapshot

LEMMA HasSnapshotKept ==
  \A u, q : TableOK /\ TableStep(u) /\ HasSnapshot(q)
              /\ id'[q] = id[q] /\ snap'[q] = snap[q] /\ user'[q] = user[q]
              => HasSnapshot(q)'
<1> SUFFICES ASSUME NEW u, NEW q, TableOK, TableStep(u), HasSnapshot(q),
                    id'[q] = id[q], snap'[q] = snap[q], user'[q] = user[q]
             PROVE  HasSnapshot(q)'
  OBVIOUS
<1>1. Snapshot(id[q], snap[q]) /\ id[q] \in AcctId
  BY DEF HasSnapshot, Snapshot, TableOK
<1>2. \A i, row : i = id[q] /\ row = snap[q] => Snapshot(i, row)'
  BY <1>1, SnapshotKept
<1> QED
  BY <1>2 DEF HasSnapshot, Snapshot

\* A request that others run beside knows what it knew.
LEMMA SameWellFormed ==
  \A u, q : TableOK /\ TableStep(u) /\ RequestWellFormed(q) /\ Same(q)
              => RequestWellFormed(q)'
<1> SUFFICES ASSUME NEW u, NEW q, TableOK, TableStep(u), RequestWellFormed(q), Same(q)
             PROVE  RequestWellFormed(q)'
  OBVIOUS
<1>1. HasSnapshot(q) => HasSnapshot(q)'
  BY HasSnapshotKept DEF Same
<1>2. ListWellFormed(q)'
  <2>1. ListWellFormed(q)
    BY DEF RequestWellFormed, ListWellFormed
  <2> QED
    BY <2>1, ListKept DEF Same
<1> QED
  BY <1>1, <1>2 DEF RequestWellFormed, ListWellFormed, Same, InList

\* A request that arrives has read nothing yet.
LEMMA StartWellFormed ==
  \A p \in Req : IInv /\ Start(p) => RequestWellFormed(p)' /\ UNCHANGED db
<1> SUFFICES ASSUME NEW p \in Req, IInv, Start(p)
             PROVE  RequestWellFormed(p)' /\ UNCHANGED db
  OBVIOUS
<1>0. Functions
  BY TypedFunctions DEF IInv
<1>1. pc[p] = "new" => InList(p) = {}
  BY DEF IInv, RequestWellFormed
<1> USE DEF Functions, Arrive
<1>2. ASSUME NEW u \in User, NEW r \in Cred, NEW sc \in Scope, StartLink(p, u, r, sc)
      PROVE RequestWellFormed(p)' /\ UNCHANGED db
  BY <1>0, <1>1, <1>2 DEF StartLink, Consent, RequestWellFormed, InList
<1>3. ASSUME NEW u \in User, NEW r \in Cred, NEW sc \in Scope, NEW i \in AcctId,
             StartReconnect(p, u, i, r, sc)
      PROVE RequestWellFormed(p)' /\ UNCHANGED db
  BY <1>0, <1>1, <1>3 DEF StartReconnect, Consent, RequestWellFormed, InList
<1>4. ASSUME NEW u \in User, NEW i \in AcctId, NEW o, StartOnAccount(p, o, u, i)
      PROVE RequestWellFormed(p)' /\ UNCHANGED db
  BY <1>0, <1>1, <1>4 DEF StartOnAccount, RequestWellFormed, InList
<1>5. ASSUME NEW u \in User, NEW o \in Orders, StartReorder(p, u, o)
      PROVE RequestWellFormed(p)' /\ UNCHANGED db
  BY <1>0, <1>1, <1>5 DEF StartReorder, RequestWellFormed, InList
<1>6. ASSUME NEW u \in User, StartList(p, u)
      PROVE RequestWellFormed(p)' /\ UNCHANGED db
  BY <1>0, <1>1, <1>6 DEF StartList, RequestWellFormed, InList
<1> QED
  BY <1>2, <1>3, <1>4, <1>5, <1>6 DEF Start

\* The rows of its user, as ListAccounts gives them to a request.
LEMMA ListRead ==
  \A q \in Req : TableOK /\ UNCHANGED db /\ user'[q] = user[q] /\ list'[q] = Listed(q)
              => ListWellFormed(q)' /\ InList(q)' = OwnedBy(user[q])
<1> SUFFICES ASSUME NEW q \in Req, TableOK, UNCHANGED db, user'[q] = user[q], list'[q] = Listed(q)
             PROVE  ListWellFormed(q)' /\ InList(q)' = OwnedBy(user[q])
  OBVIOUS
<1>0. rows \in [AcctId -> Row \cup {NoRow}]
  BY DEF TableOK, Tables
<1>1. \A i \in AcctId : list'[q][i] = IF i \in OwnedBy(user[q]) THEN rows[i] ELSE NoRow
  BY DEF Listed
<1>2. InList(q)' = OwnedBy(user[q])
  BY <1>1 DEF InList, OwnedBy
<1>3. \A i \in OwnedBy(user[q]) :
        i \in AcctId /\ rows[i] \in Row /\ rows[i].user = user[q] /\ i \in ids
          /\ subOf[rows[i].cred] = rows[i].sub
  BY <1>0 DEF OwnedBy, TableOK, CredOfIdentity, OwnCredentials
<1>4. rows' = rows /\ ids' = ids
  BY DEF db
<1> QED
  BY <1>1, <1>2, <1>3, <1>4 DEF ListWellFormed, Snapshot

\* After its step a request knows what its place says it knows.
LEMMA StepWellFormed == \A p \in Req : IInv /\ Step(p) => RequestWellFormed(p)'
<1> SUFFICES ASSUME NEW p \in Req, IInv, Step(p) PROVE RequestWellFormed(p)'
  OBVIOUS
<1>0. Functions /\ TableOK /\ ListWellFormed(p) /\ RequestWellFormed(p)
  BY TypedFunctions, IInvTable DEF IInv, RequestWellFormed, ListWellFormed
<1>t. TableStep(user[p])
  BY StepTable
<1>l. list'[p] = list[p] /\ user'[p] = user[p] => ListWellFormed(p)'
  BY <1>0, <1>t, ListKept
<1>h. HasSnapshot(p) /\ id'[p] = id[p] /\ snap'[p] = snap[p] /\ user'[p] = user[p]
        => HasSnapshot(p)'
  BY <1>0, <1>t, HasSnapshotKept
<1>r. rows \in [AcctId -> Row \cup {NoRow}]
  BY <1>0 DEF TableOK, Tables
\* A request that ends needs to know no more.
<1>e. /\ pc'[p] = "done" /\ op'[p] = op[p] /\ user'[p] = user[p] /\ cred'[p] = cred[p]
      /\ user[p] \in User /\ ListWellFormed(p)'
      => RequestWellFormed(p)'
  BY <1>0 DEF RequestWellFormed, ListWellFormed
\* A row that was read just now.
<1>s. ASSUME NEW i \in AcctId, i \in OwnedBy(user[p]), UNCHANGED db,
             id'[p] = i, snap'[p] = rows[i], user'[p] = user[p]
      PROVE  HasSnapshot(p)'
  <2>1. rows[i] \in Row /\ rows[i].user = user[p] /\ i \in ids /\ subOf[rows[i].cred] = rows[i].sub
    BY <1>0, <1>r, <1>s DEF OwnedBy, TableOK, CredOfIdentity, OwnCredentials
  <2> QED
    BY <1>s, <2>1 DEF HasSnapshot, Snapshot, db
<1> USE DEF Functions, Goto, End, input
<1>2. CASE Lookup(p)
  <2>0. /\ user' = user /\ op' = op /\ cred' = cred /\ list' = list /\ UNCHANGED db
        /\ pc[p] = "lookup" /\ op[p] = "link"
        /\ user[p] \in User /\ cred[p] \in Cred /\ ListWellFormed(p)'
    BY <1>0, <1>2, <1>l DEF Lookup, RequestWellFormed
  <2>1. CASE pc'[p] = "count"
    BY <2>0, <2>1 DEF RequestWellFormed, ListWellFormed
  <2>2. ASSUME NEW i \in Matches(p), id' = [id EXCEPT ![p] = i],
               snap' = [snap EXCEPT ![p] = rows[i]], pc'[p] = "update"
        PROVE RequestWellFormed(p)'
    <3>1. i \in OwnedBy(user[p]) /\ i \in AcctId /\ rows[i].sub = subOf[cred[p]]
      BY DEF Matches, OwnedBy
    <3>2. id'[p] = i /\ snap'[p] = rows[i]
      BY <1>0, <2>2
    <3>3. HasSnapshot(p)'
      BY <1>s, <2>0, <3>1, <3>2
    <3> QED
      BY <2>0, <2>2, <3>1, <3>2, <3>3 DEF RequestWellFormed, ListWellFormed
  <2> QED
    BY <1>0, <1>2, <2>1, <2>2 DEF Lookup
<1>3. CASE Count(p)
  <2>0. /\ user' = user /\ op' = op /\ cred' = cred /\ UNCHANGED db
        /\ pc[p] = "count" /\ op[p] = "link" /\ list'[p] = Listed(p)
        /\ user[p] \in User /\ cred[p] \in Cred
    BY <1>0, <1>3 DEF Count, RequestWellFormed
  <2>1. ListWellFormed(p)'
    BY <1>0, <2>0, ListRead
  <2>2. pc'[p] \in {"create", "done"}
    BY <1>0, <1>3 DEF Count
  <2> QED
    BY <2>0, <2>1, <2>2 DEF RequestWellFormed, ListWellFormed
<1>4. ASSUME NEW i \in AcctId \cup {NoId}, Create(p, i) PROVE RequestWellFormed(p)'
  <2>1. /\ pc[p] = "create" /\ pc'[p] = "done" /\ op' = op /\ user' = user /\ cred' = cred
        /\ list' = list
    BY <1>0, <1>4 DEF Create
  <2> QED
    BY <1>0, <1>e, <1>l, <2>1 DEF RequestWellFormed
<1>5. CASE Get(p)
  <2>0. /\ user' = user /\ op' = op /\ cred' = cred /\ list' = list /\ id' = id /\ UNCHANGED db
        /\ pc[p] = "get" /\ id[p] \in AcctId
        /\ user[p] \in User /\ ListWellFormed(p)'
    BY <1>0, <1>5, <1>l DEF Get, RequestWellFormed
  <2>1. CASE pc'[p] = "done"
    BY <1>e, <2>0, <2>1
  <2>2. CASE Found(p) /\ pc'[p] # "done"
    <3>1. snap'[p] = rows[id[p]]
      BY <1>0, <1>5, <2>2 DEF Get
    <3>2. HasSnapshot(p)'
      BY <1>s, <2>0, <2>2, <3>1 DEF Found
    <3>3. \/ op[p] = "reconnect" /\ pc'[p] = "update" /\ rows[id[p]].sub = subOf[cred[p]]
          \/ op[p] = "disconnect" /\ pc'[p] = "revoke"
          \/ op[p] = "use" /\ pc'[p] = "call"
      BY <1>0, <1>5, <2>2 DEF Get
    <3>4. op[p] = "reconnect" => cred[p] \in Cred
      BY <1>0 DEF RequestWellFormed
    <3> QED
      BY <2>0, <3>1, <3>2, <3>3, <3>4 DEF RequestWellFormed, ListWellFormed
  <2> QED
    BY <1>0, <1>5, <2>1, <2>2 DEF Get
<1>6. CASE Update(p)
  <2>1. /\ pc[p] = "update" /\ pc'[p] = "done" /\ op' = op /\ user' = user /\ cred' = cred
        /\ list' = list
    BY <1>0, <1>6 DEF Update
  <2> QED
    BY <1>0, <1>e, <1>l, <2>1 DEF RequestWellFormed
<1>7. CASE Revoke(p)
  <2>1. /\ pc[p] = "revoke" /\ pc'[p] = "delete" /\ op' = op /\ user' = user /\ cred' = cred
        /\ list' = list /\ id' = id /\ snap' = snap
    BY <1>0, <1>7 DEF Revoke
  <2>2. HasSnapshot(p)' /\ ListWellFormed(p)'
    BY <1>0, <1>h, <1>l, <2>1 DEF RequestWellFormed
  <2> QED
    BY <1>0, <2>1, <2>2 DEF RequestWellFormed, ListWellFormed
<1>8. CASE Delete(p)
  <2>1. /\ pc[p] = "delete" /\ pc'[p] = "done" /\ op' = op /\ user' = user /\ cred' = cred
        /\ list' = list
    BY <1>0, <1>8 DEF Delete
  <2> QED
    BY <1>0, <1>e, <1>l, <2>1 DEF RequestWellFormed
<1>9. CASE ReadOrder(p)
  <2>0. /\ user' = user /\ op' = op /\ cred' = cred /\ ord' = ord /\ UNCHANGED db
        /\ pc[p] = "rows" /\ list'[p] = Listed(p) /\ op[p] = "reorder" /\ user[p] \in User
    BY <1>0, <1>9 DEF ReadOrder, RequestWellFormed
  <2>1. ListWellFormed(p)' /\ InList(p)' = OwnedBy(user[p])
    BY <1>0, <2>0, ListRead
  <2>2. CASE Complete(p)
    <3>1. /\ pc'[p] = "write"
          /\ todo'[p] = {k \in 1..Len(ord[p]) : rows[ord[p][k]].order # k - 1}
      BY <1>0, <1>9, <2>2 DEF ReadOrder
    <3>2. \A k \in 1..Len(ord[p]) : ord[p][k] \in OwnedBy(user[p])
      BY <2>2 DEF Complete
    <3>3. \A k \in todo'[p] : k \in 1..Len(ord'[p]) /\ ord'[p][k] \in InList(p)'
      BY <2>0, <2>1, <3>1, <3>2
    <3> QED
      BY <2>0, <2>1, <3>1, <3>3 DEF RequestWellFormed, ListWellFormed
  <2>3. CASE ~Complete(p)
    BY <1>0, <1>9, <1>e, <2>0, <2>1, <2>3 DEF ReadOrder
  <2> QED
    BY <2>2, <2>3
<1>10. CASE WriteOrder(p)
  <2>0. /\ user' = user /\ op' = op /\ cred' = cred /\ ord' = ord /\ list' = list
        /\ pc[p] = "write" /\ user[p] \in User /\ ListWellFormed(p)'
    BY <1>0, <1>10, <1>l DEF WriteOrder, RequestWellFormed
  <2>1. CASE pc'[p] = "done"
    BY <1>e, <2>0, <2>1
  <2>2. CASE pc'[p] = "write" /\ todo'[p] \subseteq todo[p]
    <3>1. \A k \in todo[p] : k \in 1..Len(ord[p]) /\ ord[p][k] \in InList(p)
      BY <1>0, <2>0 DEF RequestWellFormed
    <3> QED
      BY <1>0, <2>0, <2>2, <3>1 DEF RequestWellFormed, ListWellFormed, InList
  <2>3. ASSUME NEW k \in todo[p], todo' = [todo EXCEPT ![p] = @ \ {k}], Goto(p, "write")
        PROVE  pc'[p] = "write" /\ todo'[p] \subseteq todo[p]
    BY <1>0, <2>3
  <2>4. \/ End(p, "ok") \/ End(p, "internal")
        \/ \E k \in todo[p] : todo' = [todo EXCEPT ![p] = @ \ {k}] /\ Goto(p, "write")
    <3> HIDE DEF Goto, End, Functions
    <3> QED
      BY <1>10 DEF WriteOrder
  <2>5. End(p, "ok") \/ End(p, "internal") => pc'[p] = "done"
    BY <1>0
  <2> QED
    BY <2>1, <2>2, <2>3, <2>4, <2>5
<1>11. CASE CallDrive(p)
  <2>0. /\ user' = user /\ op' = op /\ cred' = cred /\ list' = list /\ id' = id /\ snap' = snap
        /\ pc[p] = "call" /\ op[p] = "use" /\ user[p] \in User /\ ListWellFormed(p)'
        /\ HasSnapshot(p)'
        /\ pc'[p] \in {"touch", "note", "done"}
    BY <1>0, <1>11, <1>l, <1>h DEF CallDrive, RequestWellFormed
  <2> QED
    BY <2>0 DEF RequestWellFormed, ListWellFormed
<1>12. CASE Note(p)
  <2>1. /\ pc[p] = "note" /\ pc'[p] = "done" /\ op' = op /\ user' = user /\ cred' = cred
        /\ list' = list
    BY <1>0, <1>12 DEF Note
  <2> QED
    BY <1>0, <1>e, <1>l, <2>1 DEF RequestWellFormed
<1>13. CASE Touch(p)
  <2>1. /\ pc[p] = "touch" /\ pc'[p] = "done" /\ op' = op /\ user' = user /\ cred' = cred
        /\ list' = list
    BY <1>0, <1>13 DEF Touch
  <2> QED
    BY <1>0, <1>e, <1>l, <2>1 DEF RequestWellFormed
<1>14. CASE ReadList(p)
  <2>0. /\ user' = user /\ op' = op /\ cred' = cred /\ UNCHANGED db
        /\ pc[p] = "rows" /\ list'[p] = Listed(p) /\ op[p] = "list" /\ user[p] \in User
        /\ pc'[p] = "call" /\ todo'[p] = OwnedBy(user[p])
    BY <1>0, <1>14 DEF ReadList, RequestWellFormed
  <2>1. ListWellFormed(p)' /\ InList(p)' = OwnedBy(user[p])
    BY <1>0, <2>0, ListRead
  <2> QED
    BY <2>0, <2>1 DEF RequestWellFormed, ListWellFormed
<1>15. ASSUME NEW i \in AcctId, FetchQuota(p, i) PROVE RequestWellFormed(p)'
  <2>0. /\ user' = user /\ op' = op /\ cred' = cred /\ list' = list /\ UNCHANGED db
        /\ pc[p] = "call" /\ op[p] = "list" /\ user[p] \in User /\ ListWellFormed(p)'
        /\ i \in todo[p] /\ todo[p] \subseteq InList(p)
    BY <1>0, <1>15, <1>l DEF FetchQuota, RequestWellFormed
  <2>1. InList(p)' = InList(p)
    BY <2>0 DEF InList
  <2>2. CASE pc'[p] = "call" /\ todo'[p] \subseteq todo[p]
    BY <2>0, <2>1, <2>2 DEF RequestWellFormed, ListWellFormed
  <2>3. CASE pc'[p] = "note" /\ todo' = todo /\ id'[p] = i /\ snap'[p] = list[p][i]
    <3>1. Snapshot(i, list[p][i])' /\ list[p][i].user = user[p]
      BY <2>0, <2>1 DEF ListWellFormed, Snapshot
    <3>2. HasSnapshot(p)'
      BY <2>0, <2>3, <3>1 DEF HasSnapshot, Snapshot
    <3> QED
      BY <2>0, <2>1, <2>3, <3>2 DEF RequestWellFormed, ListWellFormed
  <2> QED
    BY <1>0, <1>15, <2>2, <2>3 DEF FetchQuota
<1>16. CASE NoteListed(p)
  <2>0. /\ user' = user /\ op' = op /\ cred' = cred /\ list' = list
        /\ pc[p] = "note" /\ op[p] = "list" /\ user[p] \in User /\ ListWellFormed(p)'
        /\ todo[p] \subseteq InList(p)
        /\ pc'[p] = "call" /\ todo'[p] \subseteq todo[p]
    BY <1>0, <1>16, <1>l DEF NoteListed, RequestWellFormed
  <2>1. InList(p)' = InList(p)
    BY <2>0 DEF InList
  <2> QED
    BY <2>0, <2>1 DEF RequestWellFormed, ListWellFormed
<1>17. CASE EndList(p)
  <2>1. /\ pc[p] = "call" /\ pc'[p] = "done" /\ op' = op /\ user' = user /\ cred' = cred
        /\ list' = list
    BY <1>0, <1>17 DEF EndList
  <2> QED
    BY <1>0, <1>e, <1>l, <2>1 DEF RequestWellFormed
<1> QED
  BY <1>2, <1>3, <1>4, <1>5, <1>6, <1>7, <1>8, <1>9, <1>10, <1>11, <1>12, <1>13, <1>14, <1>15,
     <1>16, <1>17 DEF Step

-----------------------------------------------------------------------------
(* Types.                                                                  *)

\* TypeOK but for the table, which TableOK takes care of.
GoogleTyped == issued \subseteq Cred /\ live \subseteq issued /\ foreign \subseteq issued

RequestsTyped ==
  /\ pc \in [Req -> Pc]
  /\ op \in [Req -> Op \cup {""}]
  /\ user \in [Req -> User \cup {NoUser}]
  /\ id \in [Req -> AcctId \cup {NoId}]
  /\ cred \in [Req -> Cred \cup {NoCred}]
  /\ scope \in [Req -> Scope]
  /\ snap \in [Req -> Row \cup {NoRow}]
  /\ list \in [Req -> Tables]
  /\ ord \in [Req -> Orders \cup {<<>>}]
  /\ todo \in [Req -> SUBSET (Nat \cup AcctId)]
  /\ out \in [Req -> Outcome]
  /\ alone \in [Req -> BOOLEAN]

LEMMA TypeSplit == TypeOK <=> rows \in Tables /\ ids \subseteq AcctId /\ GoogleTyped /\ RequestsTyped
  BY DEF TypeOK, GoogleTyped, RequestsTyped

LEMMA StartTyped ==
  \A p \in Req : GoogleTyped /\ RequestsTyped /\ Start(p) => GoogleTyped' /\ RequestsTyped'
<1> SUFFICES ASSUME NEW p \in Req, GoogleTyped, RequestsTyped, Start(p)
             PROVE  GoogleTyped' /\ RequestsTyped'
  OBVIOUS
<1> USE OpAssumption DEF GoogleTyped, RequestsTyped, Arrive, Pc, Op
<1>1. ASSUME NEW u \in User, NEW r \in Cred, NEW sc \in Scope, StartLink(p, u, r, sc)
      PROVE GoogleTyped' /\ RequestsTyped'
  BY <1>1 DEF StartLink, Consent
<1>2. ASSUME NEW u \in User, NEW r \in Cred, NEW sc \in Scope, NEW i \in AcctId,
             StartReconnect(p, u, i, r, sc)
      PROVE GoogleTyped' /\ RequestsTyped'
  BY <1>2 DEF StartReconnect, Consent
<1>3. ASSUME NEW u \in User, NEW i \in AcctId, NEW o, StartOnAccount(p, o, u, i)
      PROVE GoogleTyped' /\ RequestsTyped'
  BY <1>3 DEF StartOnAccount, creds
<1>4. ASSUME NEW u \in User, NEW o \in Orders, StartReorder(p, u, o)
      PROVE GoogleTyped' /\ RequestsTyped'
  BY <1>4 DEF StartReorder, creds
<1>5. ASSUME NEW u \in User, StartList(p, u)
      PROVE GoogleTyped' /\ RequestsTyped'
  BY <1>5 DEF StartList, creds
<1> QED
  BY <1>1, <1>2, <1>3, <1>4, <1>5 DEF Start

LEMMA StepTyped ==
  \A p \in Req : IInv /\ Step(p) => GoogleTyped' /\ RequestsTyped'
<1> SUFFICES ASSUME NEW p \in Req, IInv, Step(p) PROVE GoogleTyped' /\ RequestsTyped'
  OBVIOUS
<1>0. GoogleTyped /\ RequestsTyped
  BY TypeSplit DEF IInv
<1>r. rows \in [AcctId -> Row \cup {NoRow}]
  BY DEF IInv, TypeOK, Tables
<1>l. Listed(p) \in Tables
  BY <1>r DEF Listed, Tables, OwnedBy
<1>o. OwnedBy(user[p]) \in SUBSET (Nat \cup AcctId)
  BY DEF OwnedBy
<1>g. /\ \A l \in Pc : Goto(p, l) => pc' \in [Req -> Pc] /\ out' \in [Req -> Outcome]
      /\ \A o \in Outcome : End(p, o) => pc' \in [Req -> Pc] /\ out' \in [Req -> Outcome]
  <2>1. pc \in [Req -> Pc] /\ out \in [Req -> Outcome]
    BY <1>0 DEF RequestsTyped
  <2>2. "done" \in Pc
    BY DEF Pc
  <2> QED
    BY <2>1, <2>2 DEF Goto, End
\* The variables that few steps write.
<1>u. /\ UNCHANGED input => /\ op' \in [Req -> Op \cup {""}]
                            /\ user' \in [Req -> User \cup {NoUser}]
                            /\ cred' \in [Req -> Cred \cup {NoCred}]
                            /\ scope' \in [Req -> Scope]
                            /\ ord' \in [Req -> Orders \cup {<<>>}]
      /\ UNCHANGED creds => GoogleTyped'
  BY <1>0 DEF RequestsTyped, GoogleTyped, input, creds
<1>2. CASE Lookup(p)
  <2>1. ASSUME NEW i \in Matches(p) PROVE i \in AcctId /\ rows[i] \in Row
    BY <1>r DEF Matches, OwnedBy
  <2>2. id' \in [Req -> AcctId \cup {NoId}] /\ snap' \in [Req -> Row \cup {NoRow}]
    BY <1>0, <1>2, <2>1 DEF Lookup, RequestsTyped
  <2>3. pc' \in [Req -> Pc] /\ out' \in [Req -> Outcome]
    BY <1>2, <1>g DEF Lookup, Pc
  <2> QED
    BY <1>0, <1>2, <1>u, <2>2, <2>3 DEF Lookup, RequestsTyped
<1>3. CASE Count(p)
  BY <1>0, <1>g, <1>u, <1>3, <1>l DEF Count, RequestsTyped, Pc, Outcome
<1>4. ASSUME NEW i \in AcctId \cup {NoId}, Create(p, i) PROVE GoogleTyped' /\ RequestsTyped'
  BY <1>0, <1>g, <1>u, <1>4 DEF Create, RequestsTyped, Pc, Outcome
<1>5. CASE Get(p)
  <2>1. Found(p) => rows[id[p]] \in Row
    BY <1>r DEF Found, OwnedBy
  <2> QED
    BY <1>0, <1>g, <1>u, <1>5, <2>1 DEF Get, RequestsTyped, Pc, Outcome
<1>6. CASE Update(p)
  BY <1>0, <1>g, <1>u, <1>6 DEF Update, RequestsTyped, Pc, Outcome
<1>7. CASE Revoke(p)
  <2>1. GoogleTyped'
    <3>1. live' \subseteq live /\ issued' = issued /\ foreign' = foreign
      BY <1>7 DEF Revoke
    <3> QED
      BY <1>0, <3>1 DEF GoogleTyped
  <2>2. pc' \in [Req -> Pc] /\ out' \in [Req -> Outcome]
    BY <1>7, <1>g DEF Revoke, Pc
  <2> QED
    BY <1>0, <1>u, <1>7, <2>1, <2>2 DEF Revoke, RequestsTyped
<1>8. CASE Delete(p)
  BY <1>0, <1>g, <1>u, <1>8 DEF Delete, RequestsTyped, Pc, Outcome
<1>9. CASE ReadOrder(p)
  <2>1. \A o : {k \in 1..Len(o) : rows[o[k]].order # k - 1} \in SUBSET (Nat \cup AcctId)
    <3> SUFFICES ASSUME NEW o, NEW k \in 1..Len(o) PROVE k \in Nat \cup AcctId
      OBVIOUS
    <3> QED
      OBVIOUS
  <2>2. todo' \in [Req -> SUBSET (Nat \cup AcctId)]
    <3> DEFINE due == {k \in 1..Len(ord[p]) : rows[ord[p][k]].order # k - 1}
    <3>1. todo' = [todo EXCEPT ![p] = due] \/ todo' = todo
      BY <1>9 DEF ReadOrder
    <3>2. due \in SUBSET (Nat \cup AcctId)
      BY <2>1
    <3>3. todo \in [Req -> SUBSET (Nat \cup AcctId)]
      BY <1>0 DEF RequestsTyped
    <3> HIDE DEF due
    <3> QED
      BY <3>1, <3>2, <3>3
  <2>3. list' \in [Req -> Tables]
    BY <1>0, <1>9, <1>l DEF ReadOrder, RequestsTyped
  <2>4. pc' \in [Req -> Pc] /\ out' \in [Req -> Outcome]
    BY <1>9, <1>g DEF ReadOrder, Pc, Outcome
  <2> QED
    BY <1>0, <1>9, <1>u, <2>2, <2>3, <2>4 DEF ReadOrder, RequestsTyped
<1>10. CASE WriteOrder(p)
  <2>1. \A k : todo[p] \ {k} \in SUBSET (Nat \cup AcctId)
    BY <1>0 DEF RequestsTyped
  <2>2. /\ \/ End(p, "ok") /\ UNCHANGED todo
           \/ End(p, "internal") /\ UNCHANGED todo
           \/ \E k \in todo[p] : todo' = [todo EXCEPT ![p] = @ \ {k}] /\ Goto(p, "write")
        /\ UNCHANGED <<creds, input, id, snap, list, alone>>
    BY <1>10 DEF WriteOrder
  <2>3. todo' \in [Req -> SUBSET (Nat \cup AcctId)]
    BY <1>0, <2>1, <2>2 DEF RequestsTyped
  <2>4. pc' \in [Req -> Pc] /\ out' \in [Req -> Outcome]
    BY <1>g, <2>2 DEF Pc, Outcome
  <2> QED
    BY <1>0, <1>u, <2>2, <2>3, <2>4 DEF RequestsTyped
<1>11. CASE CallDrive(p)
  BY <1>0, <1>g, <1>u, <1>11 DEF CallDrive, RequestsTyped, Pc, Outcome
<1>12. CASE Note(p)
  BY <1>0, <1>g, <1>u, <1>12 DEF Note, RequestsTyped, Pc, Outcome
<1>13. CASE Touch(p)
  BY <1>0, <1>g, <1>u, <1>13 DEF Touch, RequestsTyped, Pc, Outcome
<1>14. CASE ReadList(p)
  BY <1>0, <1>g, <1>u, <1>14, <1>l, <1>o DEF ReadList, RequestsTyped, Pc, Outcome
<1>15. ASSUME NEW i \in AcctId, FetchQuota(p, i) PROVE GoogleTyped' /\ RequestsTyped'
  <2>1. list[p][i] \in Row \cup {NoRow} /\ todo[p] \ {i} \in SUBSET (Nat \cup AcctId)
    <3>1. list[p] \in [AcctId -> Row \cup {NoRow}]
      BY <1>0 DEF RequestsTyped, Tables
    <3>2. todo[p] \in SUBSET (Nat \cup AcctId)
      BY <1>0 DEF RequestsTyped
    <3> QED
      BY <3>1, <3>2
  <2>2. /\ todo' \in [Req -> SUBSET (Nat \cup AcctId)]
        /\ id' \in [Req -> AcctId \cup {NoId}]
        /\ snap' \in [Req -> Row \cup {NoRow}]
    <3>1. /\ todo \in [Req -> SUBSET (Nat \cup AcctId)]
          /\ id \in [Req -> AcctId \cup {NoId}]
          /\ snap \in [Req -> Row \cup {NoRow}]
      BY <1>0 DEF RequestsTyped
    <3>2. \/ todo' = [todo EXCEPT ![p] = @ \ {i}] /\ UNCHANGED <<id, snap>>
          \/ /\ id' = [id EXCEPT ![p] = i]
             /\ snap' = [snap EXCEPT ![p] = list[p][i]]
             /\ UNCHANGED todo
      BY <1>15 DEF FetchQuota
    <3>3. todo' \in [Req -> SUBSET (Nat \cup AcctId)]
      BY <2>1, <3>1, <3>2
    <3>4. id' \in [Req -> AcctId \cup {NoId}]
      BY <3>1, <3>2
    <3>5. snap' \in [Req -> Row \cup {NoRow}]
      BY <2>1, <3>1, <3>2
    <3> QED BY <3>3, <3>4, <3>5
  <2>3. pc' \in [Req -> Pc] /\ out' \in [Req -> Outcome]
    BY <1>15, <1>g DEF FetchQuota, Pc
  <2> QED
    BY <1>0, <1>15, <1>u, <2>2, <2>3 DEF FetchQuota, RequestsTyped
<1>16. CASE NoteListed(p)
  BY <1>0, <1>g, <1>u, <1>16 DEF NoteListed, RequestsTyped, Pc, Outcome
<1>17. CASE EndList(p)
  BY <1>0, <1>g, <1>u, <1>17 DEF EndList, RequestsTyped, Pc, Outcome
<1> QED
  BY <1>2, <1>3, <1>4, <1>5, <1>6, <1>7, <1>8, <1>9, <1>10, <1>11, <1>12, <1>13, <1>14, <1>15,
     <1>16, <1>17 DEF Step

-----------------------------------------------------------------------------
(* The invariant.                                                          *)

LEMMA InitIInv == Init => IInv
<1> SUFFICES ASSUME Init PROVE IInv
  OBVIOUS
<1>1. rows \in Tables /\ OneRowPerIdentity(rows) /\ OwnCredentials(rows)
  BY SeedAssumption DEF Init
<1>2. rows \in [AcctId -> Row \cup {NoRow}]
  BY <1>1 DEF Tables
<1>3. /\ ids = {i \in AcctId : rows[i] # NoRow}
      /\ issued = {rows[i].cred : i \in ids} /\ live = issued /\ foreign \in SUBSET issued
  BY DEF Init
<1>4. \A i \in ids : rows[i].cred \in Cred
  BY <1>2, <1>3 DEF Row
<1>5. GoogleTyped
  BY <1>3, <1>4 DEF GoogleTyped
<1>6. RequestsTyped
  BY DEF Init, RequestsTyped, Pc, Op, Scope, Outcome, Tables
<1>7. TypeOK
  BY <1>1, <1>3, <1>5, <1>6, TypeSplit
<1>8. \A p \in Req : RequestWellFormed(p)
  BY DEF Init, RequestWellFormed, InList
<1> QED
  BY <1>1, <1>3, <1>7, <1>8 DEF IInv, UniqueIdentity, CredOfIdentity

\* Every step is one of some user on the table, or leaves it alone.
LEMMA NextTable == IInv /\ [Next]_vars => UNCHANGED db \/ \E p \in Req : TableStep(user[p]) /\ Active(p)
<1> SUFFICES ASSUME IInv, [Next]_vars
             PROVE  UNCHANGED db \/ \E p \in Req : TableStep(user[p]) /\ Active(p)
  OBVIOUS
<1>1. ASSUME NEW p \in Req, Start(p) PROVE UNCHANGED db
  BY <1>1, StartWellFormed
<1>2. ASSUME NEW p \in Req, Step(p) PROVE TableStep(user[p]) /\ Active(p)
  BY <1>2, StepTable
<1>3. ASSUME NEW s \in Sub, GrantLost(s) PROVE UNCHANGED db
  BY <1>3 DEF GrantLost
<1>4. CASE Crash
  BY <1>4 DEF Crash
<1>5. CASE UNCHANGED vars
  BY <1>5 DEF vars
<1> QED
  BY <1>1, <1>2, <1>3, <1>4, <1>5 DEF Next

LEMMA IInvStep == IInv /\ [Next]_vars => IInv'
<1> SUFFICES ASSUME IInv, [Next]_vars PROVE IInv'
  OBVIOUS
<1>0. TableOK /\ GoogleTyped /\ RequestsTyped /\ Functions
  BY IInvTable, TypeSplit, TypedFunctions DEF IInv
<1>1. TableOK'
  <2>1. \E u : TableStep(u)
    BY NextTable DEF TableStep
  <2> QED
    BY <1>0, <2>1, TableStepOK
<1>2. GoogleTyped' /\ RequestsTyped'
  <2>1. ASSUME NEW p \in Req, Start(p) \/ Step(p) PROVE GoogleTyped' /\ RequestsTyped'
    BY <1>0, <2>1, StartTyped, StepTyped
  <2>2. ASSUME NEW s \in Sub, GrantLost(s) PROVE GoogleTyped' /\ RequestsTyped'
    BY <1>0, <2>2 DEF GrantLost, GoogleTyped, RequestsTyped, input
  <2>3. CASE Crash
    <3>1. pc' \in [Req -> Pc] /\ out' \in [Req -> Outcome]
      BY <1>0, <2>3 DEF Crash, RequestsTyped, Pc, Outcome
    <3> QED
      BY <1>0, <2>3, <3>1 DEF Crash, GoogleTyped, RequestsTyped, creds, input
  <2>4. CASE UNCHANGED vars
    BY <1>0, <2>4 DEF vars, GoogleTyped, RequestsTyped, creds, input
  <2> QED
    BY <2>1, <2>2, <2>3, <2>4 DEF Next
<1>3. ASSUME NEW q \in Req PROVE RequestWellFormed(q)'
  <2>0. RequestWellFormed(q)
    BY DEF IInv
  <2>1. ASSUME NEW p \in Req, Start(p) \/ Step(p), p = q PROVE RequestWellFormed(q)'
    BY <2>1, StartWellFormed, StepWellFormed
  <2>2. ASSUME NEW p \in Req, Start(p) \/ Step(p), p # q PROVE RequestWellFormed(q)'
    <3>1. Same(q)
      BY <1>0, <2>2, OthersSame
    <3>2. TableStep(user[p])
      BY <2>2, StartWellFormed, StepTable DEF TableStep
    <3> QED
      BY <1>0, <2>0, <3>1, <3>2, SameWellFormed
  <2>3. UNCHANGED db /\ Same(q) => RequestWellFormed(q)'
    BY <1>0, <2>0, SameWellFormed DEF TableStep
  <2>4. ASSUME NEW s \in Sub, GrantLost(s) PROVE RequestWellFormed(q)'
    BY <2>3, <2>4 DEF GrantLost, Same, input
  <2>5. CASE Crash
    <3>1. /\ UNCHANGED db
          /\ pc'[q] = IF Active(q) THEN "done" ELSE pc[q]
          /\ op' = op /\ user' = user /\ id' = id /\ cred' = cred /\ snap' = snap
          /\ list' = list /\ ord' = ord /\ todo' = todo
      BY <2>5 DEF Crash, input
    <3>2. CASE ~Active(q)
      BY <2>3, <3>1, <3>2 DEF Same
    <3>3. CASE Active(q)
      <4>1. ListWellFormed(q)'
        <5>1. ListWellFormed(q)
          BY <2>0 DEF RequestWellFormed, ListWellFormed
        <5>2. TableStep(user[q])
          BY <3>1 DEF TableStep
        <5> QED
          BY <1>0, <3>1, <5>1, <5>2, ListKept
      <4>2. user[q] \in User
        BY <2>0, <3>3 DEF RequestWellFormed, Active
      <4> QED
        BY <2>0, <3>1, <3>3, <4>1, <4>2 DEF RequestWellFormed, ListWellFormed
    <3> QED
      BY <3>2, <3>3
  <2>6. CASE UNCHANGED vars
    BY <2>3, <2>6 DEF vars, Same, input
  <2> QED
    BY <2>1, <2>2, <2>4, <2>5, <2>6 DEF Next
<1> QED
  <2>1. TypeOK'
    BY <1>1, <1>2 DEF TypeOK, TableOK, GoogleTyped, RequestsTyped
  <2> QED
    BY <1>1, <1>3, <2>1 DEF IInv, TableOK

\* In every reachable state the table is in order, and what each request under way has
\* read of it is still true of the cards that are left.
THEOREM Invariance == Spec => []IInv
  BY InitIInv, IInvStep, PTL DEF Spec

\* Type correctness.
THEOREM TypeCorrect == Spec => []TypeOK
<1>1. IInv => TypeOK
  BY DEF IInv
<1> QED
  BY <1>1, Invariance, PTL

\* However requests interleave and whatever crash cuts them short, a user has at most
\* one card of a Google account.
THEOREM OneCardPerIdentity == Spec => []UniqueIdentity
<1>1. IInv => UniqueIdentity
  BY DEF IInv
<1> QED
  BY <1>1, Invariance, PTL

\* No card ever holds the refresh token of another Google account.
THEOREM CredentialsOfTheirCard == Spec => []CredOfIdentity
<1>1. IInv => CredOfIdentity
  BY DEF IInv
<1> QED
  BY <1>1, Invariance, PTL

\* A card appears, changes or goes only in a request of its user.
THEOREM OwnersOnly == Spec => RowsChangeForTheirOwner
<1> DEFINE A == \A i \in AcctId : rows'[i] # rows[i] =>
                 \E p \in Req : /\ Active(p)
                                /\ user[p] = IF rows[i] = NoRow THEN rows'[i].user ELSE rows[i].user
<1>1. IInv /\ [Next]_vars => [A]_vars
  <2> SUFFICES ASSUME IInv, [Next]_vars, NEW i \in AcctId, rows'[i] # rows[i]
               PROVE  \E p \in Req : /\ Active(p)
                                     /\ user[p] = IF rows[i] = NoRow THEN rows'[i].user ELSE rows[i].user
    OBVIOUS
  <2>0. rows \in [AcctId -> Row \cup {NoRow}] /\ \A j \in AcctId : rows[j] # NoRow => j \in ids
    BY DEF IInv, TypeOK, Tables
  <2>1. PICK p \in Req : TableStep(user[p]) /\ Active(p)
    BY NextTable DEF db
  <2>2. user[p] = IF rows[i] = NoRow THEN rows'[i].user ELSE rows[i].user
    <3>1. ASSUME NEW j \in AcctId, NEW row \in Row, Replaced(user[p], j, row)
          PROVE  user[p] = IF rows[i] = NoRow THEN rows'[i].user ELSE rows[i].user
      BY <2>0, <3>1 DEF Replaced
    <3>2. ASSUME NEW j \in AcctId, Removed(user[p], j)
          PROVE  user[p] = IF rows[i] = NoRow THEN rows'[i].user ELSE rows[i].user
      BY <2>0, <3>2 DEF Removed
    <3>3. ASSUME NEW j \in AcctId, NEW row \in Row, Added(user[p], j, row)
          PROVE  user[p] = IF rows[i] = NoRow THEN rows'[i].user ELSE rows[i].user
      BY <2>0, <3>3 DEF Added
    <3> QED
      BY <2>1, <3>1, <3>2, <3>3 DEF TableStep, db
  <2> QED
    BY <2>1, <2>2
<1> QED
  BY <1>1, Invariance, PTL DEF Spec, RowsChangeForTheirOwner

-----------------------------------------------------------------------------
(* The vault.                                                              *)

\* What the vault sees of a row.
Kept(row) == IF row = NoRow THEN NoRow ELSE [user |-> row.user, sub |-> row.sub, cred |-> row.cred]
Keep == [i \in AcctId |-> Kept(rows[i])]

LEMMA KeptRow ==
  \A row \in Row : /\ Kept(row) \in [user: User, sub: Sub, cred: Cred]
                   /\ Kept(row) # NoRow
                   /\ Kept(row) = [user |-> row.user, sub |-> row.sub, cred |-> row.cred]
                   /\ row.user \in User /\ row.sub \in Sub /\ row.cred \in Cred
  BY RowAssumption DEF Row, Kept

\* The table implements the vault: every step adds, replaces or removes what is kept
\* under one id as the vault allows, or is none of its business.
THEOREM Refinement == Spec => KeepsVault
<1> USE RowAssumption
<1>1. Init => Vault!Init
  <2> SUFFICES ASSUME Init PROVE Vault!Init
    OBVIOUS
  <2>1. IInv
    BY InitIInv
  <2>2. rows \in [AcctId -> Row \cup {NoRow}]
    BY <2>1 DEF IInv, TypeOK, Tables
  <2>3. \A i \in AcctId : /\ rows[i] = NoRow => Keep[i] = NoRow
                          /\ rows[i] # NoRow => rows[i] \in Row /\ Keep[i] = Kept(rows[i])
    BY <2>2 DEF Keep, Kept
  <2>4. \A i \in AcctId :
          Keep[i] # NoRow => /\ rows[i] # NoRow
                             /\ Keep[i] \in [user: User, sub: Sub, cred: Cred]
                             /\ Keep[i].user = rows[i].user
                             /\ Keep[i].sub = rows[i].sub
                             /\ Keep[i].cred = rows[i].cred
    BY <2>3, KeptRow
  <2>5. \A i \in AcctId : Keep[i] # NoRow <=> rows[i] # NoRow
    BY <2>3, KeptRow
  <2>6. Keep \in [AcctId -> [user: User, sub: Sub, cred: Cred] \cup {NoRow}]
    BY <2>4 DEF Keep
  <2>7. \A i, j \in AcctId : Keep[i] # NoRow /\ Keep[j] # NoRow
          /\ Keep[i].user = Keep[j].user /\ Keep[i].sub = Keep[j].sub => i = j
    BY <2>1, <2>4 DEF IInv, UniqueIdentity, OneRowPerIdentity
  <2>8. \A i \in AcctId : Keep[i] # NoRow => subOf[Keep[i].cred] = Keep[i].sub
    BY <2>1, <2>4 DEF IInv, CredOfIdentity, OwnCredentials
  <2>9. ids = {i \in AcctId : Keep[i] # NoRow}
    BY <2>5 DEF Init
  <2> QED
    BY <2>6, <2>7, <2>8, <2>9 DEF Vault!Init, Vault!Held, Keep, Kept
<1>2. IInv /\ [Next]_vars => [Vault!Next]_(Vault!vars)
  <2> SUFFICES ASSUME IInv, [Next]_vars PROVE [Vault!Next]_(Vault!vars)
    OBVIOUS
  <2>0. rows \in [AcctId -> Row \cup {NoRow}] /\ TableOK
    BY IInvTable DEF IInv, TypeOK, Tables
  <2>1. CASE UNCHANGED db
    BY <2>1 DEF db, Vault!vars
  <2>2. ASSUME NEW u, NEW i \in AcctId, NEW row \in Row, Replaced(u, i, row)
        PROVE  Vault!Next
    <3>1. /\ rows[i] \in Row /\ rows[i] # NoRow /\ row # NoRow
          /\ rows[i].user = row.user /\ rows[i].sub = row.sub /\ subOf[row.cred] = row.sub
      BY <2>0, <2>2 DEF Replaced
    <3>2. Keep[i] = Kept(rows[i]) /\ Keep' = [Keep EXCEPT ![i] = Kept(row)]
      BY <2>0, <2>2 DEF Keep, Replaced
    <3>3. Kept(row) = [Kept(rows[i]) EXCEPT !.cred = row.cred]
      BY <3>1, KeptRow
    <3>4. Keep' = [Keep EXCEPT ![i].cred = row.cred]
      BY <3>2, <3>3 DEF Keep
    <3>5. Keep[i] # NoRow /\ Keep[i].sub = subOf[row.cred] /\ row.cred \in Cred
      BY <3>1, <3>2, KeptRow
    <3>6. Vault!Replace(i, row.cred)
      BY <2>2, <3>4, <3>5 DEF Vault!Replace, Keep, Kept, Replaced
    <3> QED
      BY <3>5, <3>6 DEF Vault!Next
  <2>3. ASSUME NEW u, NEW i \in AcctId, Removed(u, i)
        PROVE  Vault!Next
    <3>1. rows[i] \in Row
      BY <2>0, <2>3 DEF Removed
    <3>2. Keep[i] # NoRow
      BY <3>1, KeptRow DEF Keep
    <3>3. Keep' = [Keep EXCEPT ![i] = NoRow]
      BY <2>0, <2>3 DEF Keep, Kept, Removed
    <3>4. Vault!Disconnect(i)
      BY <2>3, <3>2, <3>3 DEF Vault!Disconnect, Keep, Kept, Removed
    <3> QED
      BY <3>4 DEF Vault!Next
  <2>4. ASSUME NEW u, NEW i \in AcctId, NEW row \in Row, Added(u, i, row)
        PROVE  Vault!Next
    <3>1. row.user = u /\ u \in User /\ row.cred \in Cred /\ row.sub = subOf[row.cred]
      BY <2>4, KeptRow DEF Added
    <3>2. Keep' = [Keep EXCEPT ![i] = Kept(row)]
      BY <2>0, <2>4 DEF Keep, Added
    <3>3. Kept(row) = [user |-> u, sub |-> subOf[row.cred], cred |-> row.cred]
      BY <3>1, KeptRow
    <3>4. \A j \in AcctId : ~(Keep[j] # NoRow /\ Keep[j].user = u /\ Keep[j].sub = subOf[row.cred])
      <4> SUFFICES ASSUME NEW j \in AcctId, Keep[j] # NoRow, Keep[j].user = u
                   PROVE  Keep[j].sub # subOf[row.cred]
        OBVIOUS
      <4>1. rows[j] \in Row /\ Keep[j] = Kept(rows[j])
        BY <2>0 DEF Keep, Kept
      <4>2. rows[j].user = u /\ Keep[j].sub = rows[j].sub /\ rows[j] # NoRow
        BY <4>1, KeptRow
      <4> QED
        BY <2>4, <3>1, <4>2 DEF Added
    <3>5. Vault!Connect(i, u, row.cred)
      <4>1. ~Vault!Taken(u, subOf[row.cred])
        BY <3>4 DEF Vault!Taken, Keep, Kept
      <4>2. Keep' = [Keep EXCEPT ![i] = [user |-> u, sub |-> subOf[row.cred], cred |-> row.cred]]
        BY <3>2, <3>3
      <4> QED
        BY <2>4, <4>1, <4>2 DEF Vault!Connect, Keep, Kept, Added
    <3> QED
      BY <3>1, <3>5 DEF Vault!Next
  <2> QED
    BY NextTable, <2>1, <2>2, <2>3, <2>4 DEF TableStep
<1> QED
  BY <1>1, <1>2, Invariance, PTL DEF Spec, KeepsVault, Vault!Spec

-----------------------------------------------------------------------------
(* A request that nothing runs beside.  It holds rows that are still as it  *)
(* read them, and no two positions of a complete order are one card's, so a *)
(* position once written stays.                                             *)

\* Where a request is in a reorder.
Reordering(p) ==
  /\ out[p] # "" => pc[p] = "done"
  /\ op[p] = "reorder" => pc[p] \in {"rows", "write", "done"}
  /\ pc[p] = "write" => op[p] = "reorder"

Halfway(p) ==
  /\ todo[p] \subseteq 1..Len(ord[p])
  /\ \A j, k \in 1..Len(ord[p]) : ord[p][j] = ord[p][k] => j = k
  /\ \A k \in 1..Len(ord[p]) :
       /\ ord[p][k] \in AcctId /\ rows[ord[p][k]] # NoRow
       /\ IF k \in todo[p] THEN rows[ord[p][k]] = list[p][ord[p][k]]
                            ELSE rows[ord[p][k]].order = k - 1

Ordered(p) == \A k \in 1..Len(ord[p]) : rows[ord[p][k]] # NoRow /\ rows[ord[p][k]].order = k - 1

Undisturbed(p) ==
  alone[p] =>
    /\ \A q \in Req : Active(q) => q = p
    /\ pc[p] = "update" => id[p] \in AcctId /\ snap[p] = rows[id[p]]
    /\ pc[p] = "write" => Halfway(p)
    /\ op[p] = "reorder" /\ out[p] = "ok" => Ordered(p)

LoneInv == IInv /\ \A p \in Req : Reordering(p) /\ Undisturbed(p)

\* A complete order has no card twice.
LEMMA OrderOnce ==
  ASSUME IInv, NEW p \in Req, Complete(p)
  PROVE  /\ \A k \in 1..Len(ord[p]) : ord[p][k] \in OwnedBy(user[p])
         /\ \A j, k \in 1..Len(ord[p]) : ord[p][j] = ord[p][k] => j = k
<1> DEFINE n == Len(ord[p])
           T == {ord[p][k] : k \in 1..n}
           f == [k \in 1..n |-> ord[p][k]]
<1>1. n \in Nat
  <2>1. ord[p] \in Orders \cup {<<>>}
    BY DEF IInv, TypeOK
  <2>2. ord[p] \in Seq(AcctId)
    <3>1. CASE ord[p] \in Orders
      BY <3>1, OrderAssumption
    <3>2. CASE ord[p] = <<>>
      BY <3>2
    <3> QED BY <2>1, <3>1, <3>2
  <2> QED BY <2>2
<1>2. T = OwnedBy(user[p]) /\ Cardinality(T) = n
  BY DEF Complete
<1>3. IsFiniteSet(1..n) /\ Cardinality(1..n) = n
  BY <1>1, FS_Interval
<1>4. f \in Surjection(1..n, T)
  BY DEF Surjection
<1> HIDE DEF f, T
<1>5. f \in Injection(1..n, T)
  BY <1>2, <1>3, <1>4, FS_SurjSameCardinalityImpliesInj
<1>6. \A j, k \in 1..n : f[j] = f[k] => j = k
  BY <1>5 DEF Injection, IsInjective
<1> QED BY <1>2, <1>6 DEF f, T

\* What a step leaves of the requests it is not of, and of whether anything runs beside.
LEMMA OthersLone ==
  ASSUME IInv, NEW p \in Req, Start(p) \/ Step(p)
  PROVE  /\ \A q \in Req \ {p} : out'[q] = out[q]
         /\ Start(p) => /\ out' = out /\ pc[p] = "new"
                        /\ alone' = [q \in Req |-> q = p /\ \A r \in Req : ~Active(r)]
         /\ Step(p) => alone' = alone
<1>1. out \in [Req -> Outcome]
  BY DEF IInv, TypeOK
<1>2. CASE Start(p)
  BY <1>2, StepTable DEF Start, StartLink, StartReconnect, StartOnAccount, StartReorder, StartList, Arrive, Active
<1>3. CASE Step(p)
  <2> DEFINE kept == alone' = alone /\ \A q \in Req \ {p} : out'[q] = out[q]
  <2> USE <1>1 DEF Goto, End
  <2>1. ASSUME Lookup(p) \/ Count(p) \/ (\E i \in AcctId \cup {NoId} : Create(p, i)) \/ Get(p) \/ Update(p) PROVE kept
    BY <2>1 DEF Lookup, Count, Create, Get, Update
  <2>2. ASSUME Revoke(p) \/ Delete(p) \/ ReadOrder(p) \/ WriteOrder(p) PROVE kept
    BY <2>2 DEF Revoke, Delete, ReadOrder, WriteOrder
  <2>3. ASSUME CallDrive(p) \/ Note(p) \/ Touch(p) PROVE kept
    BY <2>3 DEF CallDrive, Note, Touch
  <2>4. ASSUME ReadList(p) \/ (\E i \in AcctId : FetchQuota(p, i)) \/ NoteListed(p) \/ EndList(p) PROVE kept
    BY <2>4 DEF ReadList, FetchQuota, NoteListed, EndList
  <2>5. Active(p)
    BY <1>3, StepTable
  <2>6. ~Start(p)
    BY <2>5 DEF Start, StartLink, StartReconnect, StartOnAccount, StartReorder, StartList, Arrive, Active
  <2>7. kept
    BY <1>3, <2>1, <2>2, <2>3, <2>4 DEF Step
  <2> QED BY <2>6, <2>7
<1> QED BY <1>2, <1>3

LEMMA WriteOrderLone ==
  ASSUME LoneInv, NEW p \in Req, WriteOrder(p), alone[p]
  PROVE  /\ pc'[p] = "write" => Halfway(p)'
         /\ out'[p] = "ok" => Ordered(p)'
<1>0. /\ pc[p] = "write" /\ Halfway(p) /\ out[p] = ""
      /\ rows \in [AcctId -> Row \cup {NoRow}]
      /\ todo = [q \in Req |-> todo[q]] /\ out = [q \in Req |-> out[q]] /\ pc = [q \in Req |-> pc[q]]
      /\ UNCHANGED <<ord, list>>
  BY DEF WriteOrder, LoneInv, Undisturbed, Reordering, IInv, TypeOK, Tables, input
<1>1. CASE todo[p] = {} /\ End(p, "ok") /\ UNCHANGED <<rows, todo>>
  BY <1>0, <1>1 DEF End, Halfway, Ordered
<1>2. ASSUME NEW k \in todo[p],
             LET row == [list[p][ord[p][k]] EXCEPT !.order = k - 1]
             IN  /\ Updates(ord[p][k], row)
                 /\ rows' = Updated(ord[p][k], row)
                 /\ todo' = [todo EXCEPT ![p] = @ \ {k}]
                 /\ Goto(p, "write")
      PROVE  Halfway(p)' /\ out'[p] = ""
  <2> DEFINE i == ord[p][k]
             row == [list[p][i] EXCEPT !.order = k - 1]
             new == [row EXCEPT !.sub = rows[i].sub]
  <2>1. k \in 1..Len(ord[p]) /\ i \in AcctId /\ rows[i] # NoRow /\ rows[i] = list[p][i]
    BY <1>0 DEF Halfway
  <2>2. rows[i] \in Row
    BY <1>0, <2>1
  <2>3. new \in Row /\ new.order = k - 1
    <3>1. k - 1 \in Nat
      BY <2>1
    <3> QED BY <2>1, <2>2, <3>1 DEF Row
  <2>4. rows' = [rows EXCEPT ![i] = new] /\ todo'[p] = todo[p] \ {k} /\ out'[p] = ""
    BY <1>0, <1>2 DEF Updated, Goto
  <2>5. new # NoRow
    BY <2>3, RowAssumption
  <2> HIDE DEF new, i
  <2>6. ASSUME NEW j \in 1..Len(ord[p])
        PROVE  /\ ord[p][j] \in AcctId /\ rows'[ord[p][j]] # NoRow
               /\ IF j \in todo'[p] THEN rows'[ord[p][j]] = list[p][ord[p][j]]
                                     ELSE rows'[ord[p][j]].order = j - 1
    <3>1. CASE j = k
      BY <1>0, <2>1, <2>3, <2>4, <2>5, <3>1 DEF i
    <3>2. CASE j # k
      <4>1. ord[p][j] # i /\ ord[p][j] \in AcctId
        BY <1>0, <2>1, <3>2 DEF Halfway, i
      <4>2. rows'[ord[p][j]] = rows[ord[p][j]]
        BY <1>0, <2>4, <4>1
      <4> QED BY <1>0, <2>4, <3>2, <4>1, <4>2 DEF Halfway
    <3> QED BY <3>1, <3>2
  <2> QED BY <1>0, <2>4, <2>6 DEF Halfway
<1>3. CASE End(p, "internal")
  BY <1>0, <1>3 DEF End
<1> QED BY <1>0, <1>1, <1>2, <1>3 DEF WriteOrder, Ordered

LEMMA ReadOrderLone ==
  ASSUME LoneInv, NEW p \in Req, ReadOrder(p), pc'[p] = "write"
  PROVE  Halfway(p)'
<1>0. /\ rows \in [AcctId -> Row \cup {NoRow}] /\ list \in [Req -> Tables] /\ pc \in [Req -> Pc]
      /\ todo = [q \in Req |-> todo[q]] /\ UNCHANGED <<ord, rows>>
  BY DEF ReadOrder, LoneInv, IInv, TypeOK, Tables, db, input
<1>1. /\ Complete(p) /\ list' = [list EXCEPT ![p] = Listed(p)]
      /\ todo' = [todo EXCEPT ![p] = {k \in 1..Len(ord[p]) : rows[ord[p][k]].order # k - 1}]
  BY <1>0 DEF ReadOrder, End
<1>2. /\ \A k \in 1..Len(ord[p]) : ord[p][k] \in OwnedBy(user[p])
      /\ \A j, k \in 1..Len(ord[p]) : ord[p][j] = ord[p][k] => j = k
  BY <1>1, OrderOnce DEF LoneInv
<1>3. /\ todo'[p] = {k \in 1..Len(ord[p]) : rows[ord[p][k]].order # k - 1}
      /\ list'[p] = Listed(p)
  BY <1>0, <1>1
<1>4. ASSUME NEW k \in 1..Len(ord[p])
      PROVE  /\ ord[p][k] \in AcctId /\ rows[ord[p][k]] # NoRow
             /\ list'[p][ord[p][k]] = rows[ord[p][k]]
  BY <1>2, <1>3 DEF OwnedBy, Listed
<1> QED BY <1>0, <1>2, <1>3, <1>4 DEF Halfway

\* What a request that reads its card and writes it later holds right after the read.
LEMMA StepLone ==
  ASSUME LoneInv, NEW p \in Req, Step(p)
  PROVE  /\ Reordering(p)'
         /\ alone[p] => /\ pc'[p] = "update" => id'[p] \in AcctId /\ snap'[p] = rows'[id'[p]]
                        /\ pc'[p] = "write" => Halfway(p)'
                        /\ op'[p] = "reorder" /\ out'[p] = "ok" => Ordered(p)'
<1> DEFINE G == /\ Reordering(p)'
                /\ alone[p] => /\ pc'[p] = "update" => id'[p] \in AcctId /\ snap'[p] = rows'[id'[p]]
                               /\ pc'[p] = "write" => Halfway(p)'
                               /\ op'[p] = "reorder" /\ out'[p] = "ok" => Ordered(p)'
<1>0. /\ RequestWellFormed(p) /\ Reordering(p) /\ Undisturbed(p)
      /\ pc \in [Req -> Pc] /\ out \in [Req -> Outcome]
      /\ id \in [Req -> AcctId \cup {NoId}] /\ snap \in [Req -> Row \cup {NoRow}]
  BY DEF LoneInv, IInv, TypeOK
<1>1. Active(p) /\ out[p] = ""
  BY <1>0, StepTable DEF LoneInv, Active, Reordering
<1>2. CASE Lookup(p)
  BY <1>0, <1>1, <1>2 DEF Lookup, Goto, Reordering, input, db, Matches, OwnedBy
<1>3. CASE Count(p)
  BY <1>0, <1>1, <1>3 DEF Count, Goto, End, Reordering, input
<1>4. ASSUME NEW i \in AcctId \cup {NoId}, Create(p, i) PROVE G
  BY <1>0, <1>1, <1>4 DEF Create, End, Reordering, input
<1>5. CASE Get(p)
  BY <1>0, <1>1, <1>5 DEF Get, Goto, End, Reordering, input, db, Found, OwnedBy
<1>6. CASE Update(p)
  BY <1>0, <1>1, <1>6 DEF Update, End, Reordering, input
<1>7. ASSUME pc[p] \notin {"rows", "write"}, pc'[p] \notin {"update", "write"}, UNCHANGED op,
             pc'[p] = "done" \/ out'[p] = ""
      PROVE  G
  <2>1. op'[p] # "reorder"
    BY <1>0, <1>1, <1>7 DEF Reordering, Active
  <2> QED BY <1>7, <2>1 DEF Reordering
<1>8. CASE ReadOrder(p)
  <2>1. /\ op'[p] = "reorder"
        /\ \/ pc'[p] = "write" /\ out'[p] = ""
           \/ pc'[p] = "done" /\ out'[p] = "validation"
    <3>1. CASE Complete(p)
      <4>1. Goto(p, "write") /\ op[p] = "reorder" /\ UNCHANGED op
        BY <1>8, <3>1, Zenon DEF ReadOrder, input
      <4>2. pc' = [pc EXCEPT ![p] = "write"] /\ out' = out
        BY <4>1 DEF Goto
      <4>3. pc'[p] = "write" /\ out'[p] = ""
        BY <1>0, <1>1, <4>2
      <4> QED BY <4>1, <4>3
    <3>2. CASE ~Complete(p)
      BY <1>0, <1>1, <1>8, <3>2 DEF ReadOrder, End, input
    <3> QED BY <3>1, <3>2
  <2> QED BY <1>8, <2>1, ReadOrderLone DEF Reordering
<1>9. CASE WriteOrder(p)
  <2>1. /\ op'[p] = "reorder"
        /\ \/ pc'[p] = "write" /\ out'[p] = ""
           \/ pc'[p] = "done"
    BY <1>0, <1>1, <1>9 DEF WriteOrder, Goto, End, input, Reordering
  <2> QED BY <1>9, <2>1, WriteOrderLone DEF Reordering
<1>10. CASE Revoke(p)
  BY <1>0, <1>1, <1>7, <1>10 DEF Revoke, Goto, input
<1>11. CASE Delete(p)
  BY <1>0, <1>1, <1>7, <1>11 DEF Delete, End, input
<1>12. CASE CallDrive(p)
  BY <1>0, <1>1, <1>7, <1>12 DEF CallDrive, Goto, End, input
<1>13. CASE Note(p) \/ Touch(p)
  BY <1>0, <1>1, <1>7, <1>13 DEF Note, Touch, End, input
<1>14. CASE ReadList(p) \/ (\E i \in AcctId : FetchQuota(p, i)) \/ NoteListed(p) \/ EndList(p)
  BY <1>0, <1>1, <1>14 DEF ReadList, FetchQuota, NoteListed, EndList, Goto, End, Reordering, input
<1> QED
  BY <1>2, <1>3, <1>4, <1>5, <1>6, <1>8, <1>9, <1>10, <1>11, <1>12, <1>13, <1>14 DEF Step

LEMMA LoneStep == LoneInv /\ [Next]_vars => LoneInv'
<1> SUFFICES ASSUME LoneInv, [Next]_vars PROVE LoneInv'
  OBVIOUS
<1>0. IInv /\ IInv' /\ Functions /\ out \in [Req -> Outcome] /\ alone \in [Req -> BOOLEAN]
  BY IInvStep, TypedFunctions DEF LoneInv, IInv, TypeOK
<1>1. ASSUME NEW p \in Req, Start(p) PROVE LoneInv'
  <2>1. /\ UNCHANGED db /\ out' = out /\ pc[p] = "new"
        /\ alone' = [q \in Req |-> q = p /\ \A r \in Req : ~Active(r)]
    BY <1>0, <1>1, OthersLone, StartWellFormed
  <2>2. \A q \in Req \ {p} : Same(q)
    BY <1>0, <1>1, OthersSame
  <2>3. ASSUME NEW q \in Req \ {p} PROVE Reordering(q)' /\ Undisturbed(q)'
    <3>1. Reordering(q)
      BY DEF LoneInv
    <3>2. Reordering(q)'
      BY <2>1, <2>2, <3>1 DEF Reordering, Same
    <3>3. Undisturbed(q)'
      BY <2>1 DEF Undisturbed
    <3> QED BY <3>2, <3>3
  <2>4. out[p] = ""
    BY <2>1 DEF LoneInv, Reordering
  <2>5. pc'[p] \in {"lookup", "get", "rows"} /\ (op'[p] = "reorder" => pc'[p] = "rows")
    <3> USE <1>0 DEF Functions, Arrive
    <3>1. ASSUME NEW u \in User, NEW r \in Cred, NEW sc \in Scope, StartLink(p, u, r, sc)
          PROVE  pc'[p] = "lookup" /\ op'[p] = "link"
      BY <3>1 DEF StartLink
    <3>2. ASSUME NEW u \in User, NEW r \in Cred, NEW sc \in Scope, NEW i \in AcctId,
                 StartReconnect(p, u, i, r, sc)
          PROVE  pc'[p] = "get" /\ op'[p] = "reconnect"
      BY <3>2 DEF StartReconnect
    <3>3. ASSUME NEW u \in User, NEW i \in AcctId, NEW o, StartOnAccount(p, o, u, i)
          PROVE  pc'[p] = "get" /\ op'[p] # "reorder"
      BY <3>3 DEF StartOnAccount
    <3>4. ASSUME NEW u \in User, NEW o \in Orders, StartReorder(p, u, o) PROVE pc'[p] = "rows"
      BY <3>4 DEF StartReorder
    <3>5. ASSUME NEW u \in User, StartList(p, u) PROVE pc'[p] = "rows"
      BY <3>5 DEF StartList
    <3> QED BY <1>1, <3>1, <3>2, <3>3, <3>4, <3>5 DEF Start
  <2>6. Reordering(p)'
    BY <2>1, <2>4, <2>5 DEF Reordering
  <2>7. Undisturbed(p)'
    <3>1. alone'[p] => \A q \in Req : Active(q)' => q = p
      BY <2>1, <2>2 DEF Active, Same
    <3> QED BY <2>1, <2>4, <2>5, <3>1 DEF Undisturbed
  <2> QED BY <1>0, <2>3, <2>6, <2>7 DEF LoneInv
<1>2. ASSUME NEW p \in Req, Step(p) PROVE LoneInv'
  <2>1. alone' = alone /\ Active(p) /\ \A q \in Req \ {p} : out'[q] = out[q]
    BY <1>0, <1>2, OthersLone, StepTable
  <2>2. \A q \in Req \ {p} : Same(q)
    BY <1>0, <1>2, OthersSame
  <2>3. ASSUME NEW q \in Req \ {p} PROVE Reordering(q)' /\ ~alone'[q]
    <3>1. Reordering(q) /\ (alone[q] => \A r \in Req : Active(r) => r = q)
      BY DEF LoneInv, Undisturbed
    <3>2. Reordering(q)'
      BY <2>1, <2>2, <3>1 DEF Reordering, Same
    <3>3. ~alone'[q]
      BY <2>1, <3>1
    <3> QED BY <3>2, <3>3
  <2>4. \A q \in Req \ {p} : Undisturbed(q)'
    BY <2>3 DEF Undisturbed
  <2>5. alone'[p] => \A q \in Req : Active(q)' => q = p
    BY <2>1, <2>2 DEF LoneInv, Undisturbed, Active, Same
  <2>6. Reordering(p)' /\ Undisturbed(p)'
    BY <1>2, <2>1, <2>5, StepLone DEF Undisturbed
  <2> QED BY <1>0, <2>3, <2>4, <2>6 DEF LoneInv
<1>3. ASSUME UNCHANGED <<rows, input, pc, id, snap, list, todo, out, alone>> PROVE LoneInv'
  <2>1. UNCHANGED <<rows, pc, op, ord, id, snap, list, todo, out, alone>>
    BY <1>3 DEF input
  <2>2. \A p \in Req : Reordering(p)'
    BY <2>1 DEF LoneInv, Reordering
  <2>3. \A p \in Req : Halfway(p)' = Halfway(p) /\ Ordered(p)' = Ordered(p)
    BY <2>1 DEF Halfway, Ordered
  <2>4. \A p \in Req : Undisturbed(p)'
    BY <2>1, <2>3 DEF LoneInv, Undisturbed, Active
  <2> QED BY <1>0, <2>2, <2>4 DEF LoneInv
<1>4. CASE Crash
  <2>1. /\ UNCHANGED <<rows, input, id, snap, list, todo, alone>>
        /\ \A p \in Req : /\ pc'[p] = IF Active(p) THEN "done" ELSE pc[p]
                          /\ out'[p] = IF Active(p) THEN "lost" ELSE out[p]
    BY <1>4 DEF Crash, db
  <2>2. \A p \in Req : Reordering(p)'
    BY <2>1 DEF LoneInv, Reordering, Active, input
  <2>3. ASSUME NEW p \in Req, alone'[p] PROVE Undisturbed(p)'
    <3>1. Undisturbed(p) /\ Reordering(p) /\ alone[p] /\ \A q \in Req : ~Active(q)'
      BY <2>1, <2>3 DEF LoneInv, Active
    <3>2. pc'[p] \notin {"update", "write"}
      BY <3>1 DEF Active
    <3>3. op'[p] = "reorder" /\ out'[p] = "ok" => Ordered(p)'
      <4> SUFFICES ASSUME op'[p] = "reorder", out'[p] = "ok" PROVE Ordered(p)'
        OBVIOUS
      <4>1. op[p] = "reorder" /\ out[p] = "ok"
        BY <2>1 DEF input
      <4> QED BY <2>1, <3>1, <4>1 DEF Undisturbed, Ordered, input
    <3> QED BY <3>1, <3>2, <3>3 DEF Undisturbed
  <2>4. \A p \in Req : Undisturbed(p)'
    BY <2>3 DEF Undisturbed
  <2> QED BY <1>0, <2>2, <2>4 DEF LoneInv
<1>5. ASSUME NEW g \in Sub, GrantLost(g) PROVE LoneInv'
  BY <1>3, <1>5 DEF GrantLost, db
<1>6. CASE UNCHANGED vars
  BY <1>3, <1>6 DEF vars, db
<1> QED BY <1>1, <1>2, <1>4, <1>5, <1>6 DEF Next

LEMMA LoneInvariance == Spec => []LoneInv
<1>1. Init => LoneInv
  <2> SUFFICES ASSUME Init PROVE LoneInv
    OBVIOUS
  <2>1. \A p \in Req : Reordering(p) /\ Undisturbed(p)
    BY DEF Init, Reordering, Undisturbed
  <2> QED BY <2>1, InitIInv DEF LoneInv
<1> QED BY <1>1, LoneStep, PTL DEF Spec

\* A reorder that nothing ran beside, answered with success, leaves the cards in the order
\* asked for, each at a position of its own (Reorder, which writes row after row).
THEOREM LoneReorders == Spec => []LoneReorderTakesEffect
<1>1. LoneInv => LoneReorderTakesEffect
  BY DEF LoneInv, Undisturbed, Ordered, LoneReorderTakesEffect
<1> QED BY <1>1, LoneInvariance, PTL

\* A link that nothing ran beside never narrows the scope of a card (upsertAccount).
THEOREM LoneLinks == Spec => LoneLinkNeverNarrows
<1> DEFINE A == \A p \in Req : alone[p] /\ op[p] = "link" =>
                  \A i \in AcctId : pc[p] = "update" /\ id[p] = i /\ rows[i] # NoRow /\ rows[i].scope = "drive"
                    => rows'[i] = NoRow \/ rows'[i].scope = "drive"
<1>1. LoneInv /\ [Next]_vars => [A]_vars
  <2> SUFFICES ASSUME LoneInv, [Next]_vars,
                      NEW p \in Req, alone[p], op[p] = "link",
                      NEW i \in AcctId, pc[p] = "update", id[p] = i, rows[i] # NoRow, rows[i].scope = "drive"
               PROVE  rows'[i].scope = "drive"
    OBVIOUS
  <2>0. /\ rows \in [AcctId -> Row \cup {NoRow}] /\ scope[p] \in Scope
        /\ snap[p] = rows[i] /\ \A q \in Req : Active(q) => q = p
    BY DEF LoneInv, IInv, TypeOK, Tables, Undisturbed
  <2>1. ASSUME NEW q \in Req, Step(q) PROVE Update(p)
    <3>1. q = p
      BY <2>0, <2>1, StepTable DEF LoneInv
    <3> QED BY <2>1, <3>1 DEF Step, Lookup, Count, Create, Get, Revoke, Delete, ReadOrder, WriteOrder,
               CallDrive, Note, Touch, ReadList, FetchQuota, NoteListed, EndList
  <2>2. CASE Update(p)
    <3>1. NewScope(p) = "drive"
      BY <2>0 DEF NewScope, Scope
    <3>2. rows[i] \in Row
      BY <2>0
    <3> DEFINE row == [snap[p] EXCEPT !.cred = cred[p], !.status = "connected", !.scope = NewScope(p)]
    <3>3. UNCHANGED rows \/ rows' = [rows EXCEPT ![i] = [row EXCEPT !.sub = rows[i].sub]]
      BY <2>2 DEF Update, Updated
    <3>4. [row EXCEPT !.sub = rows[i].sub].scope = "drive"
      BY <2>0, <3>1, <3>2 DEF Row
    <3> QED BY <2>0, <3>3, <3>4
  <2>3. ASSUME NEW q \in Req, Start(q) PROVE UNCHANGED rows
    BY <2>3, StartWellFormed DEF LoneInv, db
  <2>4. CASE (\E g \in Sub : GrantLost(g)) \/ Crash \/ UNCHANGED vars
    BY <2>4 DEF GrantLost, Crash, vars, db
  <2> QED BY <2>1, <2>2, <2>3, <2>4 DEF Next
<1> QED BY <1>1, LoneInvariance, PTL DEF Spec, LoneLinkNeverNarrows
=============================================================================

---------------------------- MODULE AccountVault ----------------------------
(***************************************************************************)
(* What the accounts table is to everything that uses it: a vault that     *)
(* keeps, for a user and a Google account, one refresh token of that very  *)
(* Google account, until the account is disconnected                       *)
(* (AccountStore of internal/store/store.go and the unique index on it).   *)
(*                                                                         *)
(* An account id names one user and one Google account for ever.           *)
(***************************************************************************)
CONSTANTS
  User, Sub, AcctId, Cred,
  subOf,   \* [Cred -> Sub]: whose consent a refresh token is
  NoRow

VARIABLES
  held,  \* what is kept under each account id, NoRow when nothing is
  ids    \* account ids ever used

vars == <<held, ids>>

Held == [user: User, sub: Sub, cred: Cred]

Taken(u, s) == \E i \in AcctId : held[i] # NoRow /\ held[i].user = u /\ held[i].sub = s

Init ==
  /\ held \in [AcctId -> Held \cup {NoRow}]
  /\ \A i, j \in AcctId :
       held[i] # NoRow /\ held[j] # NoRow
         /\ held[i].user = held[j].user /\ held[i].sub = held[j].sub => i = j
  /\ \A i \in AcctId : held[i] # NoRow => subOf[held[i].cred] = held[i].sub
  /\ ids = {i \in AcctId : held[i] # NoRow}

Connect(i, u, r) ==
  /\ i \notin ids
  /\ ~Taken(u, subOf[r])
  /\ held' = [held EXCEPT ![i] = [user |-> u, sub |-> subOf[r], cred |-> r]]
  /\ ids' = ids \cup {i}

Replace(i, r) ==
  /\ held[i] # NoRow
  /\ held[i].sub = subOf[r]
  /\ held' = [held EXCEPT ![i].cred = r]
  /\ UNCHANGED ids

Disconnect(i) ==
  /\ held[i] # NoRow
  /\ held' = [held EXCEPT ![i] = NoRow]
  /\ UNCHANGED ids

Next ==
  \E i \in AcctId :
    \/ \E u \in User, r \in Cred : Connect(i, u, r)
    \/ \E r \in Cred : Replace(i, r)
    \/ Disconnect(i)

Spec == Init /\ [][Next]_vars
=============================================================================

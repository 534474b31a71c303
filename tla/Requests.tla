------------------------------ MODULE Requests ------------------------------
(***************************************************************************)
(* The requests that reach Drive: those of ReadRequests, and the changes   *)
(* of a file.  A change shares no state with them either, and is followed  *)
(* on its own.                                                             *)
(***************************************************************************)
EXTENDS ReadRequests, FileOperations

ChangeAtRest ==
  /\ op = "create" /\ kind = FirstCall[op] /\ pc = "done"
  /\ attempt = 1 /\ answer = "" /\ lastErr = "" /\ result = "" /\ expired = FALSE
  /\ flying = {} /\ file = FALSE /\ applied = 0
  /\ seen = {} /\ parents = {Start} /\ name = Old /\ disturbed = FALSE

QInit ==
  \/ RInit /\ ChangeAtRest
  \/ request = "change" /\ BInit /\ OrderAtRest /\ SummaryAtRest /\ FInit

Change == request = "change" /\ FNext /\ UNCHANGED rvars

QNext == (RNext /\ UNCHANGED fvars) \/ Change

QFairness == BFairness /\ FFairness

QFairSpec == QInit /\ [][QNext]_<<rvars, fvars>> /\ QFairness
=============================================================================

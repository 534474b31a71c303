--------------------------- MODULE FileOperations ---------------------------
(***************************************************************************)
(* The handlers that change a file (CreateFolder, Update and Delete of     *)
(* internal/files/service.go), each one or two calls of DriveCall under    *)
(* one deadline, while somebody else changes the same file.                *)
(*                                                                         *)
(* Drive has no move: the handler reads the folders the file is in and     *)
(* asks to have it put into the new one and out of those, so a move is a   *)
(* read and a write with a gap between.  A trashing or starring is an      *)
(* update like a renaming.  The request has been validated and the access  *)
(* token got; what a failure does to the account is CredentialLifecycle's. *)
(***************************************************************************)
EXTENDS DriveCall

CONSTANTS
  Dir,
  Dest,   \* where a move is to
  Start,  \* where the file is at first
  Mine, Theirs, Old \* names: the one asked for, another one, and the first

ASSUME DirAssumption == Dest \in Dir /\ Start \in Dir /\ Dest # Start
ASSUME NameAssumption == Mine # Theirs /\ Mine # Old

Op == {"create", "rename", "move", "delete"}
FileName == {Mine, Theirs, Old}

VARIABLES
  op,        \* what the handler is to do
  seen,      \* the folders GetFile found the file in
  parents,   \* Google: the folders it is in
  name,      \* Google: its name
  disturbed  \* whether somebody else has changed it since the request came

fileState == <<parents, name>>
fvars == <<callVars, op, seen, fileState, disturbed>>

FTypeOK ==
  /\ CallTypeOK
  /\ op \in Op
  /\ seen \subseteq Dir /\ parents \subseteq Dir
  /\ name \in FileName
  /\ disturbed \in BOOLEAN

\* The kind of the first call.
FirstCall == [o \in Op |-> CASE o = "create" -> "create" [] o = "rename" -> "update"
                             [] o = "move" -> "get" [] o = "delete" -> "delete"]

FInit ==
  /\ CallInit
  /\ op \in Op /\ kind = FirstCall[op]
  /\ seen = {} /\ parents = {Start}
  /\ name = Old
  /\ disturbed = FALSE

\* Update of a move goes on with the call that writes, in what is left of the time.
MoreToDo == op = "move" /\ kind = "get" /\ result = "ok"

WriteMove ==
  /\ pc = "done" /\ MoreToDo
  /\ kind' = "update"
  /\ pc' = "send" /\ attempt' = 1 /\ answer' = "" /\ lastErr' = "" /\ result' = ""
  /\ flying' = {} /\ applied' = 0   \* what is left of a read changes nothing
  /\ UNCHANGED <<expired, file, op, seen, fileState, disturbed>>

Ended == pc = "done" /\ ~MoreToDo

\* Mutant: the folders it was in are not left.
Removed_None == {}

\* removeParents
Removed == seen

\* What Google does to the file when it does what the call asks.  A folder it is to be put
\* into and taken out of: it stays in, or so Drive is taken to do.
Effect ==
  /\ name' = IF op = "rename" THEN Mine ELSE name
  /\ parents' = IF op = "move" /\ kind = "update" THEN (parents \ Removed) \cup {Dest} ELSE parents

\* GetFile returns the folders the file was in when Google answered it.
Answered(n) == kind = "get" /\ pc = "await" /\ n = attempt /\ applied' > applied

FCarryOut(n) ==
  /\ CarryOut(n)
  /\ IF applied' > applied THEN Effect ELSE UNCHANGED fileState
  /\ seen' = IF Answered(n) THEN parents ELSE seen
  /\ UNCHANGED <<op, disturbed>>

\* Somebody else deletes, restores, renames or moves the file: another tab, or Drive.
Interfere ==
  /\ \/ OthersChange /\ UNCHANGED fileState
     \/ file /\ name' = Theirs /\ UNCHANGED <<callVars, parents>>
     \/ file /\ \E f \in Dir : parents' = {f} /\ UNCHANGED <<callVars, name>>
  /\ disturbed' = TRUE
  /\ UNCHANGED <<op, seen>>

FClient == (Client /\ UNCHANGED <<op, seen, fileState, disturbed>>) \/ WriteMove

FNext ==
  \/ FClient
  \/ Expire /\ UNCHANGED <<op, seen, fileState, disturbed>>
  \/ \E n \in 1..MaxAttempts : FCarryOut(n)
  \/ Interfere

FSpec == FInit /\ [][FNext]_fvars

\* As in DriveCall: the deadline comes, and Do returns when it does.
FFairness == WF_fvars(FClient) /\ WF_fvars(Expire /\ UNCHANGED <<op, seen, fileState, disturbed>>)

FFairSpec == FSpec /\ FFairness

-----------------------------------------------------------------------------
(* Properties                                                              *)

\* If nobody else touches the file, what the user is told is what he finds: after a "yes"
\* it has its new name, or is in the new folder and in no other; and a file whose deletion
\* was answered "not found" is gone as well as one whose deletion was answered "yes" (the
\* first happens when the answer to an attempt that deleted it was lost).
LoneChangeTakesEffect ==
  Ended /\ ~disturbed =>
    /\ op = "rename" /\ result = "ok" => name = Mine
    /\ op = "move" /\ result = "ok" => parents = {Dest}
    /\ op = "delete" /\ result \in {"ok", "not_found"} => ~file

\* A handler comes to an end, the second call of a move included.
HandlerEnds == <>Ended
=============================================================================

----------------------------- MODULE Breadcrumbs -----------------------------
(***************************************************************************)
(* The listing of a folder: besides the files, the way to the folder from  *)
(* the root of its Drive (resolvePath and the goroutine that runs it in    *)
(* List of internal/files/service.go, ResolvePath of                       *)
(* internal/google/files.go).                                              *)
(*                                                                         *)
(* The way is walked upwards, one call to Google a folder.  Others move    *)
(* folders about meanwhile, and the code reckons with folders that go      *)
(* round in a circle: each call may name any folder as the one above.  A   *)
(* failure ends the walk, and never the listing.                           *)
(***************************************************************************)
EXTENDS FileListing

CONSTANTS
  Folder,
  Opened,        \* those the client opens
  drive,         \* the account whose folders they are
  MaxPathDepth,  \* maxPathDepth
  RootAlias,     \* RootFolderAlias: the root by another name
  Top,           \* the parent of a folder that has none, or none the account may see
  NoFolder       \* no folder: the root of every Drive listed

ASSUME FolderAssumption == Top \notin Folder /\ NoFolder \notin Folder \cup {RootAlias}
ASSUME OpenedAssumption == Opened \subseteq Folder \cup {RootAlias}
ASSUME DepthAssumption == MaxPathDepth \in Nat \ {0} /\ drive \in Account

VARIABLES
  open,     \* the folder the client walks through
  crumbs,   \* what the goroutine for the path is at
  current,  \* the folder it is to ask for, Top when it has come to the root
  reversed, \* the folders it has got, the open one first
  broken,   \* whether an error ended the walk
  path      \* the client: the path of the first page

walk == <<crumbs, current, reversed, broken>>
bvars == <<vars, open, walk, path>>

BInit ==
  /\ Init
  /\ open = NoFolder
  /\ crumbs = "none" /\ current = NoFolder /\ reversed = <<>>
  /\ broken = FALSE
  /\ path = <<>>

-----------------------------------------------------------------------------
(* As in FileListing.                                                      *)

BOpen(filter, folder) ==
  /\ Open(filter)
  /\ folder # NoFolder => filter = drive
  /\ open' = folder
  /\ path' = <<>>
  /\ UNCHANGED walk

Forget ==
  /\ crumbs' = "none" /\ current' = NoFolder /\ reversed' = <<>>
  /\ broken' = FALSE

Walking == crumbs \in {"queued", "row", "call"}

BFanOut ==
  /\ FanOut
  /\ crumbs' = IF open = NoFolder THEN "none" ELSE "queued"
  /\ current' = open
  /\ UNCHANGED <<reversed, broken, open, path>>

\* Collected from the folder up, returned from the root down.
PathOf == Reverse(reversed)

\* group.Wait waits for the path as well.  The client keeps that of the first page.
BRespond ==
  /\ ~Walking
  /\ Respond
  /\ path' = IF resume = EmptyCursor THEN PathOf ELSE path
  /\ Forget
  /\ UNCHANGED open

BLose == ~Walking /\ Lose /\ Forget /\ UNCHANGED <<open, path>>

-----------------------------------------------------------------------------
(* The goroutine for the path.                                             *)

\* It is the last to be started, when there is room.
LaunchWalk ==
  /\ phase = "fanout" /\ crumbs = "queued"
  /\ \A a \in Account : job[a] # "queued"
  /\ Cardinality(Running) < Concurrency
  /\ crumbs' = "row"
  /\ UNCHANGED <<vars, open, current, reversed, broken, path>>

End(failed) == crumbs' = "done" /\ broken' = failed

\* AccessTokenFor
WalkRow ==
  /\ crumbs = "row"
  /\ \/ drive \in ToSet(connected) /\ crumbs' = "call" /\ UNCHANGED broken
     \/ End(TRUE)
  /\ UNCHANGED <<vars, open, current, reversed, path>>

\* Mutant: a folder may come twice.
GoesOn_Twice == Len(reversed) < MaxPathDepth /\ current # RootAlias
\* The loop of ResolvePath.
GoesOn == Len(reversed) < MaxPathDepth /\ current # RootAlias /\ current \notin ToSet(reversed)

WalkUp ==
  /\ crumbs = "call"
  /\ \/ ~GoesOn /\ End(FALSE) /\ UNCHANGED <<current, reversed>>
     \/ GoesOn /\ End(TRUE) /\ UNCHANGED <<current, reversed>>
     \/ /\ GoesOn
        /\ reversed' = Append(reversed, current)
        /\ current' \in Folder \cup {Top}
        /\ IF current' = Top THEN End(FALSE) ELSE UNCHANGED <<crumbs, broken>>
  /\ UNCHANGED <<vars, open, path>>

Walk == LaunchWalk \/ WalkRow \/ WalkUp

\* The rest of FileListing goes its way.
Beside == UNCHANGED <<open, walk, path>>

BNext ==
  \/ \E f \in Account \cup {Everything}, g \in Opened \cup {NoFolder} : BOpen(f, g)
  \/ BFanOut \/ BRespond \/ BLose
  \/ (LoadMore \/ NothingToList) /\ Beside
  \/ \E a \in Account : (Goroutine(a) \/ Disconnect(a) \/ Connect(a)) /\ Beside
  \/ Walk

BSpec == BInit /\ [][BNext]_bvars

\* As in FileListing; the calls of a walk are under one DRIVE_TIMEOUT.
BFairness ==
  /\ WF_bvars(NothingToList /\ Beside) /\ WF_bvars(BFanOut)
  /\ \A a \in Account : WF_bvars(Goroutine(a) /\ Beside)
  /\ WF_bvars(Walk)
  /\ WF_bvars(BRespond)

BFairSpec == BSpec /\ BFairness

-----------------------------------------------------------------------------
(* Properties                                                              *)

\* Whatever is moved meanwhile, the path the client shows ends with the open folder, names
\* none twice (they are keys of the list of crumbs) and is no longer than the bound.
PathWellFormed ==
  path # <<>> => /\ IsInjective(path)
                 /\ Last(path) = open
                 /\ Len(path) <= MaxPathDepth
=============================================================================

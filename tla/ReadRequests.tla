---------------------------- MODULE ReadRequests ----------------------------
(***************************************************************************)
(* The requests of the dashboard that only read: a client goes through the *)
(* files of its Drives, has one page put in order, or has the storage of   *)
(* its accounts summed up.  They share no state, so each behaviour is of   *)
(* one of them while the others are at rest.                               *)
(***************************************************************************)
EXTENDS Breadcrumbs, FileOrder, StorageSummary

VARIABLE request

rvars == <<request, bvars, order, svars>>

OrderAtRest == sort = (CHOOSE s \in Sort : TRUE) /\ pages = <<>> /\ listing = <<>>

SummaryAtRest ==
  /\ views = <<>> /\ item = 1
  /\ counted = 0 /\ unlimited = 0 /\ usage = 0 /\ limited = 0 /\ anyLimited = FALSE
  /\ totalLimit = Unlimited /\ totalFree = Unlimited

RInit ==
  /\ BInit
  /\ \/ request = "files" /\ OrderAtRest /\ SummaryAtRest
     \/ request = "page" /\ OrderInit /\ SummaryAtRest
     \/ request = "storage" /\ OrderAtRest /\ SInit

Files == request = "files" /\ BNext /\ UNCHANGED <<request, order, svars>>
Page == request = "page" /\ MakeListing /\ UNCHANGED <<request, bvars, svars>>
Storage == request = "storage" /\ SNext /\ UNCHANGED <<request, bvars, order>>

RNext == Files \/ Page \/ Storage

RSpec == RInit /\ [][RNext]_rvars

RFairSpec == RSpec /\ BFairness
=============================================================================

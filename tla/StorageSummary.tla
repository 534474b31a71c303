--------------------------- MODULE StorageSummary ---------------------------
(***************************************************************************)
(* The totals of the dashboard (Summarise of                               *)
(* internal/accounts/service.go, Free of internal/google/drive.go): the    *)
(* loop over the accounts, and what it should add up to.                   *)
(***************************************************************************)
EXTENDS Integers, Sequences, FiniteSets, SequencesExt

CONSTANTS
  Amount,     \* byte counts Google may report
  MaxViews,   \* bound on the number of accounts
  Unlimited,  \* the limit of a Drive that reports none
  NoQuota     \* the quota of an account that could not be asked

ASSUME AmountAssumption == Amount \subseteq Nat /\ MaxViews \in Nat
ASSUME NullAssumption == Unlimited \notin Nat

Quota == [limit: Amount \cup {Unlimited}, usage: Amount]

ASSUME QuotaAssumption == NoQuota \notin Quota

\* An account that could not be asked may still be flagged as connected.
View == [connected: BOOLEAN, quota: Quota \cup {NoQuota}]

VARIABLES
  views,       \* the accounts to sum up
  item,        \* the view the loop is at
  counted, unlimited, usage, limited, anyLimited,  \* what it has counted
  totalLimit, totalFree  \* the totals, Unlimited while there are none

svars == <<views, item, counted, unlimited, usage, limited, anyLimited, totalLimit, totalFree>>

STypeOK ==
  /\ views \in Seq(View)
  /\ item \in 1..(Len(views) + 2)
  /\ counted \in Nat /\ unlimited \in Nat /\ usage \in Nat /\ limited \in Nat
  /\ anyLimited \in BOOLEAN
  /\ totalLimit \in Nat \cup {Unlimited} /\ totalFree \in Nat \cup {Unlimited}

SInit ==
  /\ \E n \in 0..MaxViews : views \in [1..n -> View]
  /\ item = 1
  /\ counted = 0 /\ unlimited = 0 /\ usage = 0 /\ limited = 0
  /\ anyLimited = FALSE
  /\ totalLimit = Unlimited /\ totalFree = Unlimited

Current == views[item]

\* Mutant: only the usage of capped Drives counts.
Add_CappedUsage ==
  /\ item <= Len(views)
  /\ item' = item + 1
  /\ counted' = IF Current.connected THEN counted + 1 ELSE counted
  /\ IF Current.quota = NoQuota
     THEN UNCHANGED <<unlimited, usage, limited, anyLimited>>
     ELSE IF Current.quota.limit = Unlimited
     THEN unlimited' = unlimited + 1 /\ UNCHANGED <<usage, limited, anyLimited>>
     ELSE /\ usage' = usage + Current.quota.usage
          /\ limited' = limited + Current.quota.limit
          /\ anyLimited' = TRUE
          /\ UNCHANGED unlimited
  /\ UNCHANGED <<views, totalLimit, totalFree>>

Add ==
  /\ item <= Len(views)
  /\ item' = item + 1
  /\ counted' = IF Current.connected THEN counted + 1 ELSE counted
  /\ \/ Current.quota = NoQuota /\ UNCHANGED <<unlimited, usage, limited, anyLimited>>
     \/ /\ Current.quota # NoQuota
        /\ usage' = usage + Current.quota.usage
        /\ IF Current.quota.limit = Unlimited
           THEN unlimited' = unlimited + 1 /\ UNCHANGED <<limited, anyLimited>>
           ELSE /\ limited' = limited + Current.quota.limit
                /\ anyLimited' = TRUE
                /\ UNCHANGED unlimited
  /\ UNCHANGED <<views, totalLimit, totalFree>>

AtLeastZero(n) == IF n < 0 THEN 0 ELSE n

\* Mutant: what is used is not taken off.
Total_NoUsage ==
  /\ item = Len(views) + 1
  /\ item' = item + 1
  /\ IF anyLimited
     THEN totalLimit' = limited /\ totalFree' = limited
     ELSE UNCHANGED <<totalLimit, totalFree>>
  /\ UNCHANGED <<views, counted, unlimited, usage, limited, anyLimited>>

Total ==
  /\ item = Len(views) + 1
  /\ item' = item + 1
  /\ IF anyLimited
     THEN totalLimit' = limited /\ totalFree' = AtLeastZero(limited - usage)
     ELSE UNCHANGED <<totalLimit, totalFree>>
  /\ UNCHANGED <<views, counted, unlimited, usage, limited, anyLimited>>

SNext == Add \/ Total

SSpec == SInit /\ [][SNext]_svars

-----------------------------------------------------------------------------
(* What it should come to, view by view and in no order.                   *)

Over(Want(_), Of(_)) == FoldFunctionOnSet(+, 0, [k \in 1..Len(views) |-> Of(views[k])],
                                          {k \in 1..Len(views) : Want(views[k])})
Asked(v) == v.quota # NoQuota
Capped(v) == Asked(v) /\ v.quota.limit # Unlimited
UsageOf(v) == IF Asked(v) THEN v.quota.usage ELSE 0
LimitOf(v) == IF Capped(v) THEN v.quota.limit ELSE 0

\* StorageQuota.Free, of a Drive that has a limit.
FreeOf(v) == IF Capped(v) THEN AtLeastZero(v.quota.limit - v.quota.usage) ELSE 0

Summed == item = Len(views) + 2

\* The totals are those of the cards: a limit exactly when some Drive has one, the usage
\* of every Drive that answered, and each account counted at most once as unlimited.
TotalsAddUp ==
  Summed =>
    /\ usage = Over(Asked, UsageOf)
    /\ totalLimit = IF \E k \in 1..Len(views) : Capped(views[k])
                    THEN Over(Capped, LimitOf) ELSE Unlimited
    /\ unlimited = Cardinality({k \in 1..Len(views) : Asked(views[k]) /\ ~Capped(views[k])})
    /\ counted = Cardinality({k \in 1..Len(views) : views[k].connected})

\* The dashboard never promises more free space than the cards of the capped Drives do
\* together, and no less than none.
FreeNeverOverstated ==
  Summed /\ totalFree # Unlimited => totalFree \in 0..Over(Capped, FreeOf)
=============================================================================

------------------------- MODULE ReadRequestsProofs --------------------------
(***************************************************************************)
(* What the requests that only read come to, for any number of accounts,   *)
(* files and folders.                                                      *)
(*                                                                         *)
(* The storage: what the loop has counted is the sum over the accounts it  *)
(* is past (LoopSums), in whatever order a sum is taken (Sums).            *)
(*                                                                         *)
(* A page: the comparison orders any files strictly, and any two of        *)
(* different id or account one way or the other.  So each file has a rank  *)
(* among the files of the page, no two the same (Ranks), and sorting puts  *)
(* it there (SortedByRank): the page is a matter of its files alone.       *)
(*                                                                         *)
(* The walk through the files goes its way beside the others (WalksOnly).  *)
(***************************************************************************)
EXTENDS ReadRequests, FileListingProofs, WellFoundedInduction

-----------------------------------------------------------------------------
(* Numbers and finite sets                                                 *)

LEMMA Least ==
  ASSUME NEW T \in SUBSET Nat, T # {}
  PROVE  \E x \in T : \A y \in T : x <= y
<1>1. PICK x \in T : \A y \in T : ~(<<y, x>> \in OpToRel(<, Nat))
  BY NatLessThanWellFounded, WFMin
<1>2. \A y \in T : ~(y < x)
  BY <1>1 DEF OpToRel
<1> QED BY <1>2

LEMMA CountUp ==
  ASSUME NEW T, 0 \in T, \A n \in Nat : n \in T => n + 1 \in T
  PROVE  \A n \in Nat : n \in T
<1> SUFFICES ASSUME Nat \ T # {} PROVE FALSE
  OBVIOUS
<1>1. PICK x \in Nat \ T : \A y \in Nat \ T : x <= y
  <2>1. Nat \ T \in SUBSET Nat
    OBVIOUS
  <2> QED BY <2>1, Least
<1>2. x # 0 /\ x - 1 \in Nat
  BY <1>1
<1>3. x - 1 \in T
  BY <1>1, <1>2
<1> QED BY <1>1, <1>2, <1>3

\* Of the finite sets of a kind one is smallest.
LEMMA Smallest ==
  ASSUME NEW U, U # {},
         \A s \in U : IsFiniteSet(s)
  PROVE  \E s \in U : \A t \in U : Cardinality(s) <= Cardinality(t)
<1> DEFINE T == {Cardinality(s) : s \in U}
<1>1. T \in SUBSET Nat /\ T # {}
  BY FS_CardinalityType
<1> HIDE DEF T
<1>2. PICK x \in T : \A y \in T : x <= y
  BY <1>1, Least
<1> QED BY <1>2 DEF T

-----------------------------------------------------------------------------
(* Sums                                                                    *)

SumOn(g, T) == FoldFunctionOnSet(+, 0, g, T)

Pick(s) == CHOOSE x \in s : TRUE

\* Summed up one element after the other, in the order Pick has them.
SumsUp(h, g, s) == h[s] = IF s = {} THEN 0 ELSE g[Pick(s)] + h[s \ {Pick(s)}]

LEMMA SumDef ==
  ASSUME NEW g, NEW T,
         NEW h, h = [s \in SUBSET T |-> IF s = {} THEN 0 ELSE g[Pick(s)] + h[s \ {Pick(s)}]]
  PROVE  \E i : /\ i = [s \in SUBSET T |-> IF s = {} THEN 0 ELSE g[Pick(s)] + i[s \ {Pick(s)}]]
                /\ SumOn(g, T) = i[T]
<1> DEFINE Is(i) == i = [s \in SUBSET T |-> IF s = {} THEN 0 ELSE g[Pick(s)] + i[s \ {Pick(s)}]]
<1>1. SumOn(g, T) = (CHOOSE i : Is(i))[T]
  BY DEF SumOn, FoldFunctionOnSet, MapThenFoldSet, Pick
<1>2. Is(h)
  OBVIOUS
<1> HIDE DEF Is
<1>3. Is(CHOOSE i : Is(i))
  BY <1>2
<1> QED BY <1>1, <1>3 DEF Is

LEMMA SumsExist ==
  ASSUME NEW S, IsFiniteSet(S), NEW g \in [S -> Nat]
  PROVE  \E h \in [SUBSET S -> Nat] : \A s \in SUBSET S : SumsUp(h, g, s)
<1> DEFINE Upto(n) == \E h \in [SUBSET S -> Nat] : \A s \in SUBSET S :
                        Cardinality(s) <= n => SumsUp(h, g, s)
           T == {n \in Nat : Upto(n)}
<1>0. \A s \in SUBSET S : IsFiniteSet(s) /\ Cardinality(s) \in Nat
  BY FS_Subset, FS_CardinalityType
<1>1. 0 \in T
  <2> DEFINE h == [s \in SUBSET S |-> 0]
  <2>1. \A s \in SUBSET S : Cardinality(s) <= 0 => s = {}
    BY <1>0, FS_EmptySet
  <2>2. \A s \in SUBSET S : Cardinality(s) <= 0 => SumsUp(h, g, s)
    BY <2>1 DEF SumsUp
  <2> QED BY <2>2
<1>2. ASSUME NEW n \in Nat, n \in T PROVE n + 1 \in T
  <2>1. PICK h \in [SUBSET S -> Nat] : \A s \in SUBSET S : Cardinality(s) <= n => SumsUp(h, g, s)
    BY <1>2
  <2> DEFINE i == [s \in SUBSET S |-> IF Cardinality(s) <= n \/ s = {} THEN h[s]
                                      ELSE g[Pick(s)] + h[s \ {Pick(s)}]]
  <2>2. \A s \in SUBSET S : s # {} => /\ Pick(s) \in s /\ s \ {Pick(s)} \in SUBSET S
                                      /\ Cardinality(s \ {Pick(s)}) = Cardinality(s) - 1
    BY <1>0, FS_RemoveElement DEF Pick
  <2>3. i \in [SUBSET S -> Nat]
    BY <2>2
  <2>4. ASSUME NEW s \in SUBSET S, Cardinality(s) <= n + 1 PROVE SumsUp(i, g, s)
    <3>1. CASE s = {}
      <4>1. Cardinality(s) <= n
        BY <3>1, FS_EmptySet
      <4> QED BY <2>1, <3>1, <4>1 DEF SumsUp
    <3>2. CASE s # {}
      <4> DEFINE r == s \ {Pick(s)}
      <4>1. r \in SUBSET S /\ Cardinality(r) <= n
        BY <1>0, <2>2, <2>4, <3>2
      <4>2. i[r] = h[r]
        BY <4>1
      <4>3. i[s] = g[Pick(s)] + h[r]
        BY <2>1, <3>2 DEF SumsUp
      <4> QED BY <3>2, <4>2, <4>3 DEF SumsUp
    <3> QED BY <3>1, <3>2
  <2> HIDE DEF i
  <2> QED BY <2>3, <2>4
<1> HIDE DEF T
<1>3. Cardinality(S) \in T
  BY <1>1, <1>2, <1>0, CountUp
<1>4. \A s \in SUBSET S : Cardinality(s) <= Cardinality(S)
  BY FS_Subset
<1> QED BY <1>3, <1>4 DEF T

\* Two ways to sum up the same come to the same.
LEMMA SumsAgree ==
  ASSUME NEW S, IsFiniteSet(S), NEW T \in SUBSET S, NEW g, NEW h, NEW i,
         \A s \in SUBSET T : SumsUp(h, g, s), \A s \in SUBSET T : SumsUp(i, g, s)
  PROVE  i[T] = h[T]
<1> DEFINE U == {s \in SUBSET T : i[s] # h[s]}
<1>1. SUFFICES ASSUME U # {} PROVE FALSE
  OBVIOUS
<1>2. \A s \in SUBSET S : IsFiniteSet(s) /\ Cardinality(s) \in Nat
  BY FS_Subset, FS_CardinalityType
<1>3. PICK s \in U : \A t \in U : Cardinality(s) <= Cardinality(t)
  BY <1>1, <1>2, Smallest
<1>4. s # {}
  BY DEF SumsUp
<1> DEFINE r == s \ {Pick(s)}
<1>5. r \in SUBSET T /\ Cardinality(r) < Cardinality(s)
  <2>1. Pick(s) \in s
    BY <1>4 DEF Pick
  <2>2. s \in SUBSET S
    OBVIOUS
  <2>3. Cardinality(r) = Cardinality(s) - 1
    BY <1>2, <2>1, <2>2, FS_RemoveElement
  <2> QED BY <1>2, <2>2, <2>3
<1>6. i[r] = h[r]
  BY <1>2, <1>3, <1>5
<1> QED BY <1>4, <1>6 DEF SumsUp

\* In which order does not matter.
LEMMA SumsUpAnyhow ==
  ASSUME NEW S, IsFiniteSet(S), NEW g \in [S -> Nat], NEW h \in [SUBSET S -> Nat],
         \A s \in SUBSET S : SumsUp(h, g, s)
  PROVE  \A s \in SUBSET S : \A x \in s : h[s] = h[s \ {x}] + g[x]
<1> DEFINE U == {s \in SUBSET S : \E x \in s : h[s] # h[s \ {x}] + g[x]}
<1>1. SUFFICES ASSUME U # {} PROVE FALSE
  OBVIOUS
<1>2. \A s \in SUBSET S : IsFiniteSet(s) /\ Cardinality(s) \in Nat
  BY FS_Subset, FS_CardinalityType
<1>3. PICK s \in U : \A t \in U : Cardinality(s) <= Cardinality(t)
  BY <1>1, <1>2, Smallest
<1>4. PICK x \in s : h[s] # h[s \ {x}] + g[x]
  OBVIOUS
<1> DEFINE y == Pick(s)
           r == s \ {y}
           q == s \ {x}
           both == s \ {x, y}
<1>5. y \in s /\ h[s] = g[y] + h[r]
  BY DEF SumsUp, Pick
<1>6. x # y
  <2>1. g[y] \in Nat /\ h[r] \in Nat
    BY <1>5
  <2> SUFFICES ASSUME x = y PROVE FALSE
    OBVIOUS
  <2>2. h[s] # h[r] + g[y]
    BY <1>4
  <2>3. h[s] = g[y] + h[r]
    BY <1>5
  <2> HIDE DEF r
  <2> QED BY <2>1, <2>2, <2>3
<1>7. r \in SUBSET S /\ q \in SUBSET S /\ x \in r /\ y \in q /\ both \in SUBSET S
  BY <1>5, <1>6
<1>8. Cardinality(r) < Cardinality(s) /\ Cardinality(q) < Cardinality(s)
  BY <1>2, <1>5, FS_RemoveElement
<1>9. r \notin U /\ q \notin U
  BY <1>2, <1>3, <1>8
<1>10. r \ {x} = both /\ q \ {y} = both
  OBVIOUS
<1>11. h[r] = h[both] + g[x] /\ h[q] = h[both] + g[y]
  BY <1>7, <1>9, <1>10
<1>12. /\ g[x] \in Nat /\ g[y] \in Nat
       /\ h[s] \in Nat /\ h[r] \in Nat /\ h[q] \in Nat /\ h[both] \in Nat
  BY <1>5, <1>7
<1> QED BY <1>4, <1>5, <1>11, <1>12

\* What every sum is: nothing of nothing, and with one more it is more by that one.
LEMMA Sums ==
  ASSUME NEW S, IsFiniteSet(S), NEW g \in [S -> Nat]
  PROVE  /\ SumOn(g, {}) = 0
         /\ \A T \in SUBSET S : SumOn(g, T) \in Nat
         /\ \A T \in SUBSET S : \A x \in S \ T : SumOn(g, T \cup {x}) = SumOn(g, T) + g[x]
<1>1. PICK h \in [SUBSET S -> Nat] : \A s \in SUBSET S : SumsUp(h, g, s)
  BY SumsExist
<1>2. ASSUME NEW T \in SUBSET S PROVE SumOn(g, T) = h[T]
  <2> DEFINE j == [s \in SUBSET T |-> h[s]]
  <2>1. j = [s \in SUBSET T |-> IF s = {} THEN 0 ELSE g[Pick(s)] + j[s \ {Pick(s)}]]
    BY <1>1 DEF SumsUp
  <2> HIDE DEF j
  <2>2. PICK i : /\ i = [s \in SUBSET T |-> IF s = {} THEN 0 ELSE g[Pick(s)] + i[s \ {Pick(s)}]]
                 /\ SumOn(g, T) = i[T]
    BY <2>1, SumDef
  <2>3. \A s \in SUBSET T : SumsUp(i, g, s)
    BY <2>2 DEF SumsUp
  <2>4. i[T] = h[T]
    <3>1. \A s \in SUBSET T : SumsUp(h, g, s)
      BY <1>1
    <3> QED BY <3>1, <2>3, SumsAgree
  <2> QED BY <2>2, <2>4
<1>3. h[{}] = 0
  BY <1>1 DEF SumsUp
<1>4. ASSUME NEW T \in SUBSET S, NEW x \in S \ T PROVE h[T \cup {x}] = h[T] + g[x]
  <2>1. (T \cup {x}) \ {x} = T /\ T \cup {x} \in SUBSET S
    OBVIOUS
  <2> QED BY <1>1, <2>1, SumsUpAnyhow
<1> QED BY <1>2, <1>3, <1>4

-----------------------------------------------------------------------------
(* The storage of the accounts                                             *)

Askeds == {k \in 1..Len(views) : Asked(views[k])}
Cappeds == {k \in 1..Len(views) : Capped(views[k])}
Uncappeds == {k \in 1..Len(views) : Asked(views[k]) /\ ~Capped(views[k])}
Connecteds == {k \in 1..Len(views) : views[k].connected}

Usages == [k \in 1..Len(views) |-> UsageOf(views[k])]
Limits == [k \in 1..Len(views) |-> LimitOf(views[k])]
Frees == [k \in 1..Len(views) |-> FreeOf(views[k])]

\* Those the loop is past.
Past(T, i) == T \cap (1..(i - 1))

LoopSums ==
  /\ usage = SumOn(Usages, Past(Askeds, item))
  /\ limited = SumOn(Limits, Past(Cappeds, item))
  /\ anyLimited <=> Past(Cappeds, item) # {}
  /\ unlimited = Cardinality(Past(Uncappeds, item))
  /\ counted = Cardinality(Past(Connecteds, item))

\* What is left of the limits is no more than what is left of each.
NeverMore == limited <= usage + SumOn(Frees, Past(Cappeds, item))

Totalled ==
  IF Summed /\ anyLimited
  THEN totalLimit = limited /\ totalFree = AtLeastZero(limited - usage)
  ELSE totalLimit = Unlimited /\ totalFree = Unlimited

SummaryInv == STypeOK /\ LoopSums /\ NeverMore /\ Totalled

LEMMA PastNone ==
  ASSUME NEW n \in Nat, NEW T \in SUBSET (1..n)
  PROVE  Past(T, 1) = {}
BY DEF Past

LEMMA PastOne ==
  ASSUME NEW n \in Nat, NEW T \in SUBSET (1..n), NEW i \in 1..n
  PROVE  /\ Past(T, i) \in SUBSET (1..n) /\ i \notin Past(T, i)
         /\ Past(T, i + 1) = IF i \in T THEN Past(T, i) \cup {i} ELSE Past(T, i)
BY DEF Past

LEMMA PastAll ==
  ASSUME NEW n \in Nat, NEW T \in SUBSET (1..n)
  PROVE  Past(T, n + 1) = T /\ Past(T, n + 2) = T
<1>1. n + 1 - 1 = n /\ n + 2 - 1 = n + 1
  OBVIOUS
<1>2. \A k \in T : k \in 1..n /\ k \in 1..(n + 1)
  OBVIOUS
<1>3. T \cap (1..n) = T /\ T \cap (1..(n + 1)) = T
  BY <1>2
<1> QED BY <1>1, <1>3 DEF Past

LEMMA SumOneMore ==
  ASSUME NEW n \in Nat, NEW g \in [1..n -> Nat], NEW T \in SUBSET (1..n), NEW i \in 1..n
  PROVE  /\ SumOn(g, Past(T, i)) \in Nat
         /\ SumOn(g, Past(T, i + 1)) = IF i \in T THEN SumOn(g, Past(T, i)) + g[i] ELSE SumOn(g, Past(T, i))
<1>1. IsFiniteSet(1..n)
  BY FS_Interval
<1>2. /\ \A U \in SUBSET (1..n) : SumOn(g, U) \in Nat
      /\ \A U \in SUBSET (1..n) : \A x \in (1..n) \ U : SumOn(g, U \cup {x}) = SumOn(g, U) + g[x]
  BY <1>1, Sums
<1>3. Past(T, i) \in SUBSET (1..n) /\ i \in (1..n) \ Past(T, i)
  BY PastOne
<1> QED BY <1>2, <1>3, PastOne

LEMMA CountOneMore ==
  ASSUME NEW n \in Nat, NEW T \in SUBSET (1..n), NEW i \in 1..n
  PROVE  Cardinality(Past(T, i + 1)) =
           IF i \in T THEN Cardinality(Past(T, i)) + 1 ELSE Cardinality(Past(T, i))
<1>1. Past(T, i) \in SUBSET (1..n) /\ i \notin Past(T, i)
  BY PastOne
<1>2. IsFiniteSet(1..n)
  BY FS_Interval
<1>3. IsFiniteSet(Past(T, i))
  BY <1>1, <1>2, FS_Subset
<1>4. Cardinality(Past(T, i) \cup {i}) = Cardinality(Past(T, i)) + 1
  BY <1>1, <1>3, FS_AddElement
<1> QED BY <1>4, PastOne

LEMMA ViewSums ==
  ASSUME views \in Seq(View)
  PROVE  /\ Len(views) \in Nat
         /\ \A k \in 1..Len(views) : views[k] \in View
         /\ Usages \in [1..Len(views) -> Nat]
         /\ Limits \in [1..Len(views) -> Nat]
         /\ Frees \in [1..Len(views) -> Nat]
         /\ Askeds \in SUBSET (1..Len(views)) /\ Cappeds \in SUBSET (1..Len(views))
         /\ Uncappeds \in SUBSET (1..Len(views)) /\ Connecteds \in SUBSET (1..Len(views))
<1>1. Len(views) \in Nat /\ \A k \in 1..Len(views) : views[k] \in View
  OBVIOUS
<1>2. \A v \in View : /\ Asked(v) => v.quota \in Quota
                      /\ UsageOf(v) \in Nat /\ LimitOf(v) \in Nat /\ FreeOf(v) \in Nat
  <2> SUFFICES ASSUME NEW v \in View
               PROVE  /\ Asked(v) => v.quota \in Quota
                      /\ UsageOf(v) \in Nat /\ LimitOf(v) \in Nat /\ FreeOf(v) \in Nat
    OBVIOUS
  <2>1. Asked(v) => v.quota \in Quota
    BY DEF View, Asked
  <2>2. \A q \in Quota : q.usage \in Nat /\ (q.limit # Unlimited => q.limit \in Nat)
    BY AmountAssumption DEF Quota
  <2> QED BY <2>1, <2>2 DEF Capped, UsageOf, LimitOf, FreeOf, AtLeastZero
<1> QED BY <1>1, <1>2 DEF Usages, Limits, Frees, Askeds, Cappeds, Uncappeds, Connecteds

LEMMA SummaryBegins == SInit \/ SummaryAtRest => SummaryInv
<1> SUFFICES ASSUME SInit \/ SummaryAtRest PROVE SummaryInv
  OBVIOUS
<1>1. views \in Seq(View)
  <2>1. \A n \in 0..MaxViews : \A v \in [1..n -> View] : v \in Seq(View)
    BY AmountAssumption
  <2>2. <<>> \in Seq(View)
    OBVIOUS
  <2> QED BY <2>1, <2>2 DEF SInit, SummaryAtRest
<1>2. /\ item = 1 /\ anyLimited = FALSE
      /\ counted = 0 /\ unlimited = 0 /\ usage = 0 /\ limited = 0
      /\ totalLimit = Unlimited /\ totalFree = Unlimited
  BY DEF SInit, SummaryAtRest
<1> DEFINE n == Len(views)
<1>3. n \in Nat /\ IsFiniteSet(1..n)
  BY <1>1, FS_Interval
<1>4. STypeOK
  <2>1. item \in 1..(Len(views) + 2)
    BY <1>2, <1>3
  <2> QED BY <1>1, <1>2, <2>1 DEF STypeOK
<1>5. LoopSums /\ NeverMore
  <2>1. \A T \in SUBSET (1..n) : Past(T, item) = {}
    BY <1>2, <1>3, PastNone
  <2>2. /\ SumOn(Usages, {}) = 0 /\ SumOn(Limits, {}) = 0 /\ SumOn(Frees, {}) = 0
        /\ Cardinality({}) = 0
    BY <1>1, <1>3, ViewSums, Sums, FS_EmptySet
  <2>3. /\ Past(Askeds, item) = {} /\ Past(Cappeds, item) = {}
        /\ Past(Uncappeds, item) = {} /\ Past(Connecteds, item) = {}
    BY <1>1, <2>1, ViewSums
  <2> QED BY <1>2, <2>2, <2>3 DEF LoopSums, NeverMore
<1>6. Totalled
  BY <1>2 DEF Totalled
<1> QED BY <1>4, <1>5, <1>6 DEF SummaryInv

LEMMA AddStep == SummaryInv /\ Add => SummaryInv'
<1> SUFFICES ASSUME SummaryInv, Add PROVE SummaryInv'
  OBVIOUS
<1>0. STypeOK /\ LoopSums /\ NeverMore /\ Totalled
  BY DEF SummaryInv
<1> DEFINE n == Len(views)
           v == views[item]
<1>1. n \in Nat /\ item \in 1..n
  BY <1>0 DEF STypeOK, Add
<1>2. /\ item' = item + 1 /\ counted' = IF v.connected THEN counted + 1 ELSE counted
      /\ UNCHANGED <<views, totalLimit, totalFree>>
  BY DEF Add, Current
<1>3. /\ usage' = IF Asked(v) THEN usage + UsageOf(v) ELSE usage
      /\ limited' = IF Capped(v) THEN limited + LimitOf(v) ELSE limited
      /\ anyLimited' = (anyLimited \/ Capped(v))
      /\ unlimited' = IF Asked(v) /\ ~Capped(v) THEN unlimited + 1 ELSE unlimited
  BY <1>0 DEF Add, Current, Asked, Capped, UsageOf, LimitOf, STypeOK
<1>4. /\ item \in Askeds <=> Asked(v)
      /\ item \in Cappeds <=> Capped(v)
      /\ item \in Uncappeds <=> Asked(v) /\ ~Capped(v)
      /\ item \in Connecteds <=> v.connected
  BY <1>1 DEF Askeds, Cappeds, Uncappeds, Connecteds
<1>5. Usages[item] = UsageOf(v) /\ Limits[item] = LimitOf(v) /\ Frees[item] = FreeOf(v)
  BY <1>1 DEF Usages, Limits, Frees
<1>6. /\ Askeds' = Askeds /\ Cappeds' = Cappeds /\ Uncappeds' = Uncappeds /\ Connecteds' = Connecteds
      /\ Usages' = Usages /\ Limits' = Limits /\ Frees' = Frees
  BY <1>2 DEF Askeds, Cappeds, Uncappeds, Connecteds, Usages, Limits, Frees
<1>7. UsageOf(v) \in Nat /\ LimitOf(v) \in Nat /\ FreeOf(v) \in Nat
  BY <1>0, <1>1, <1>5, ViewSums DEF STypeOK
<1>8. STypeOK'
  <2>1. item' \in 1..(n + 2)
    BY <1>1, <1>2
  <2>2. counted' \in Nat /\ usage' \in Nat /\ limited' \in Nat /\ unlimited' \in Nat /\ anyLimited' \in BOOLEAN
    BY <1>0, <1>2, <1>3, <1>7 DEF STypeOK
  <2> QED BY <1>0, <1>2, <2>1, <2>2 DEF STypeOK
<1>9. /\ Usages \in [1..n -> Nat] /\ Limits \in [1..n -> Nat] /\ Frees \in [1..n -> Nat]
      /\ Askeds \in SUBSET (1..n) /\ Cappeds \in SUBSET (1..n)
      /\ Uncappeds \in SUBSET (1..n) /\ Connecteds \in SUBSET (1..n)
  BY <1>0, ViewSums DEF STypeOK
<1> HIDE DEF n, v
<1>10. \A g \in [1..n -> Nat] : \A T \in SUBSET (1..n) :
         /\ SumOn(g, Past(T, item)) \in Nat
         /\ SumOn(g, Past(T, item + 1)) =
              IF item \in T THEN SumOn(g, Past(T, item)) + g[item] ELSE SumOn(g, Past(T, item))
  BY <1>1, SumOneMore
<1>11. \A T \in SUBSET (1..n) :
         /\ Past(T, item + 1) = IF item \in T THEN Past(T, item) \cup {item} ELSE Past(T, item)
         /\ Cardinality(Past(T, item + 1)) =
              IF item \in T THEN Cardinality(Past(T, item)) + 1 ELSE Cardinality(Past(T, item))
  BY <1>1, PastOne, CountOneMore
<1>12. LoopSums'
  <2>1. usage' = SumOn(Usages, Past(Askeds, item + 1))
    <3>1. SumOn(Usages, Past(Askeds, item + 1)) =
            IF item \in Askeds THEN SumOn(Usages, Past(Askeds, item)) + Usages[item]
            ELSE SumOn(Usages, Past(Askeds, item))
      BY <1>9, <1>10
    <3> QED BY <1>0, <1>3, <1>4, <1>5, <3>1 DEF LoopSums
  <2>2. limited' = SumOn(Limits, Past(Cappeds, item + 1))
    <3>1. SumOn(Limits, Past(Cappeds, item + 1)) =
            IF item \in Cappeds THEN SumOn(Limits, Past(Cappeds, item)) + Limits[item]
            ELSE SumOn(Limits, Past(Cappeds, item))
      BY <1>9, <1>10
    <3> QED BY <1>0, <1>3, <1>4, <1>5, <3>1 DEF LoopSums
  <2>3. anyLimited' <=> Past(Cappeds, item + 1) # {}
    <3>1. Past(Cappeds, item + 1) =
            IF item \in Cappeds THEN Past(Cappeds, item) \cup {item} ELSE Past(Cappeds, item)
      BY <1>9, <1>11
    <3> QED BY <1>0, <1>3, <1>4, <3>1 DEF LoopSums
  <2>4. unlimited' = Cardinality(Past(Uncappeds, item + 1))
    <3>1. Cardinality(Past(Uncappeds, item + 1)) =
            IF item \in Uncappeds THEN Cardinality(Past(Uncappeds, item)) + 1
            ELSE Cardinality(Past(Uncappeds, item))
      BY <1>9, <1>11
    <3> QED BY <1>0, <1>3, <1>4, <3>1 DEF LoopSums
  <2>5. counted' = Cardinality(Past(Connecteds, item + 1))
    <3>1. Cardinality(Past(Connecteds, item + 1)) =
            IF item \in Connecteds THEN Cardinality(Past(Connecteds, item)) + 1
            ELSE Cardinality(Past(Connecteds, item))
      BY <1>9, <1>11
    <3> QED BY <1>0, <1>2, <1>4, <3>1 DEF LoopSums
  <2> QED BY <1>2, <1>6, <2>1, <2>2, <2>3, <2>4, <2>5 DEF LoopSums
<1>13. NeverMore'
  <2> DEFINE f == SumOn(Frees, Past(Cappeds, item))
  <2>1. /\ f \in Nat
        /\ SumOn(Frees, Past(Cappeds, item + 1)) = IF Capped(v) THEN f + FreeOf(v) ELSE f
    <3>1. /\ f \in Nat
          /\ SumOn(Frees, Past(Cappeds, item + 1)) = IF item \in Cappeds THEN f + Frees[item] ELSE f
      BY <1>9, <1>10
    <3> QED BY <1>4, <1>5, <3>1
  <2>2. /\ Capped(v) => Asked(v) /\ LimitOf(v) <= UsageOf(v) + FreeOf(v)
    BY <1>7 DEF Capped, LimitOf, UsageOf, FreeOf, AtLeastZero
  <2>3. limited <= usage + f /\ limited \in Nat /\ usage \in Nat
    BY <1>0 DEF NeverMore, STypeOK
  <2> HIDE DEF f
  <2>4. limited' <= usage' + IF Capped(v) THEN f + FreeOf(v) ELSE f
    BY <1>3, <1>7, <2>1, <2>2, <2>3
  <2> QED BY <1>2, <1>6, <2>1, <2>4 DEF NeverMore
<1>14. Totalled'
  BY <1>0, <1>1, <1>2 DEF Totalled, Summed, n
<1> QED BY <1>8, <1>12, <1>13, <1>14 DEF SummaryInv

LEMMA TotalStep == SummaryInv /\ Total => SummaryInv'
<1> SUFFICES ASSUME SummaryInv, Total PROVE SummaryInv'
  OBVIOUS
<1>0. STypeOK /\ LoopSums /\ NeverMore /\ Totalled
  BY DEF SummaryInv
<1> DEFINE n == Len(views)
<1>1. n \in Nat /\ item = n + 1 /\ item' = n + 2
  BY <1>0 DEF STypeOK, Total
<1>2. /\ totalLimit' = IF anyLimited THEN limited ELSE totalLimit
      /\ totalFree' = IF anyLimited THEN AtLeastZero(limited - usage) ELSE totalFree
      /\ UNCHANGED <<views, counted, unlimited, usage, limited, anyLimited>>
  BY DEF Total
<1>3. /\ Askeds' = Askeds /\ Cappeds' = Cappeds /\ Uncappeds' = Uncappeds /\ Connecteds' = Connecteds
      /\ Usages' = Usages /\ Limits' = Limits /\ Frees' = Frees
  BY <1>2 DEF Askeds, Cappeds, Uncappeds, Connecteds, Usages, Limits, Frees
<1>4. \A T \in SUBSET (1..n) : Past(T, item) = Past(T, item')
  BY <1>1, PastAll
<1>5. /\ Past(Askeds, item) = Past(Askeds, item') /\ Past(Cappeds, item) = Past(Cappeds, item')
      /\ Past(Uncappeds, item) = Past(Uncappeds, item')
      /\ Past(Connecteds, item) = Past(Connecteds, item')
  BY <1>0, <1>4, ViewSums DEF STypeOK
<1>6. LoopSums' /\ NeverMore'
  BY <1>0, <1>2, <1>3, <1>5 DEF LoopSums, NeverMore
<1>7. STypeOK'
  <2>1. item' \in 1..(n + 2)
    BY <1>1
  <2>2. limited - usage \in Int
    BY <1>0 DEF STypeOK
  <2>3. AtLeastZero(limited - usage) \in Nat
    BY <2>2 DEF AtLeastZero
  <2> QED BY <1>0, <1>2, <2>1, <2>3 DEF STypeOK
<1>8. Totalled'
  <2>1. ~Summed
    BY <1>1 DEF Summed
  <2> QED BY <1>0, <1>1, <1>2, <2>1 DEF Totalled, Summed
<1> QED BY <1>6, <1>7, <1>8 DEF SummaryInv

LEMMA SummaryStep == SummaryInv /\ [RNext]_rvars => SummaryInv'
<1> SUFFICES ASSUME SummaryInv, [RNext]_rvars PROVE SummaryInv'
  OBVIOUS
<1>1. CASE SNext
  BY <1>1, AddStep, TotalStep DEF SNext
<1>2. CASE UNCHANGED svars
  BY <1>2 DEF svars, SummaryInv, STypeOK, LoopSums, NeverMore, Totalled, Summed, Askeds, Cappeds,
     Uncappeds, Connecteds, Usages, Limits, Frees
<1> QED BY <1>1, <1>2 DEF RNext, Files, Page, Storage, rvars

LEMMA SummaryInvariance == RSpec => []SummaryInv
<1>1. RInit => SummaryInv
  BY SummaryBegins DEF RInit
<1> QED BY <1>1, SummaryStep, PTL DEF RSpec

\* The sums keep their types (Summarise).
THEOREM SumsTyped == RSpec => []STypeOK
<1>1. SummaryInv => STypeOK
  BY DEF SummaryInv
<1> QED BY <1>1, SummaryInvariance, PTL

\* The totals of the dashboard are those of the cards, however many accounts there are and
\* whatever Google answered for each (Summarise).
THEOREM Totals == RSpec => []TotalsAddUp
<1>1. SummaryInv => TotalsAddUp
  <2> SUFFICES ASSUME SummaryInv, Summed PROVE TotalsAddUp
    BY DEF TotalsAddUp
  <2>1. STypeOK /\ LoopSums /\ Totalled
    BY DEF SummaryInv
  <2>2. Len(views) \in Nat /\ item = Len(views) + 2
    BY <2>1 DEF STypeOK, Summed
  <2>3. \A T \in SUBSET (1..Len(views)) : Past(T, item) = T
    BY <2>2, PastAll
  <2>4. /\ Past(Askeds, item) = Askeds /\ Past(Cappeds, item) = Cappeds
        /\ Past(Uncappeds, item) = Uncappeds /\ Past(Connecteds, item) = Connecteds
    BY <2>1, <2>3, ViewSums DEF STypeOK
  <2>5. SumOn(Usages, Askeds) = Over(Asked, UsageOf) /\ SumOn(Limits, Cappeds) = Over(Capped, LimitOf)
    BY DEF SumOn, Over, Usages, Limits, Askeds, Cappeds
  <2>6. Cappeds # {} <=> \E k \in 1..Len(views) : Capped(views[k])
    BY DEF Cappeds
  <2> QED BY <2>1, <2>4, <2>5, <2>6 DEF TotalsAddUp, LoopSums, Totalled, Uncappeds, Connecteds
<1> QED BY <1>1, SummaryInvariance, PTL

\* The dashboard never promises more free space than the cards do together, though the usage
\* of Drives without a limit is taken off as well (Summarise).
THEOREM NeverOverstated == RSpec => []FreeNeverOverstated
<1>1. SummaryInv => FreeNeverOverstated
  <2> SUFFICES ASSUME SummaryInv, Summed, totalFree # Unlimited
               PROVE  totalFree \in 0..Over(Capped, FreeOf)
    BY DEF FreeNeverOverstated
  <2>1. STypeOK /\ NeverMore /\ Totalled
    BY DEF SummaryInv
  <2>2. Len(views) \in Nat /\ item = Len(views) + 2
    BY <2>1 DEF STypeOK, Summed
  <2>3. Cappeds \in SUBSET (1..Len(views)) /\ Frees \in [1..Len(views) -> Nat]
    BY <2>1, ViewSums DEF STypeOK
  <2>4. Past(Cappeds, item) = Cappeds
    BY <2>2, <2>3, PastAll
  <2>5. SumOn(Frees, Cappeds) = Over(Capped, FreeOf)
    BY DEF SumOn, Over, Frees, Cappeds
  <2>6. SumOn(Frees, Cappeds) \in Nat
    <3>1. IsFiniteSet(1..Len(views))
      BY <2>2, FS_Interval
    <3> QED BY <2>3, <3>1, Sums
  <2>7. limited <= usage + SumOn(Frees, Cappeds)
    BY <2>1, <2>4 DEF NeverMore
  <2>8. totalFree = AtLeastZero(limited - usage)
    BY <2>1 DEF Totalled
  <2> QED BY <2>1, <2>5, <2>6, <2>7, <2>8 DEF STypeOK, AtLeastZero
<1> QED BY <1>1, SummaryInvariance, PTL

-----------------------------------------------------------------------------
(* The order of a page                                                     *)

LEMMA KeyType ==
  ASSUME NEW f \in Field, NEW v \in FileView
  PROVE  Key(f, v) \in Int
  BY NumbersAssumption DEF Field, FileView, Key

LEMMA ViewType ==
  ASSUME NEW v \in FileView
  PROVE  /\ v.folder \in BOOLEAN
         /\ v.name \in Int /\ v.email \in Int /\ v.id \in Int
  BY NumbersAssumption DEF FileView

\* No file comes before itself (sortFiles).
LEMMA LessIrreflexive ==
  ASSUME NEW s \in Sort, NEW v \in FileView
  PROVE  ~Less(s, v, v)
<1>1. s.field \in Field BY DEF Sort
<1>2. Key(s.field, v) \in Int BY <1>1, KeyType
<1> QED BY <1>2, ViewType DEF Less, TieBreak

\* What comes before a file comes before all that the file comes before, whatever mixture
\* of folders, keys and ties decides (sortFiles).
LEMMA LessTransitive ==
  ASSUME NEW s \in Sort, NEW u \in FileView, NEW v \in FileView, NEW w \in FileView,
         Less(s, u, v), Less(s, v, w)
  PROVE  Less(s, u, w)
<1>1. s.field \in Field BY DEF Sort
<1>2. /\ Key(s.field, u) \in Int /\ Key(s.field, v) \in Int /\ Key(s.field, w) \in Int
  BY <1>1, KeyType
<1> DEFINE f == s.field
<1>3. TieBreak(u, v) /\ TieBreak(v, w) => TieBreak(u, w)
  BY ViewType DEF TieBreak
<1>4. CASE u.folder # w.folder
  BY <1>4, ViewType DEF Less
<1>5. CASE u.folder = w.folder
  <2>1. v.folder = u.folder
    BY <1>5, ViewType DEF Less
  <2>2. CASE s.descending
    BY <1>2, <1>3, <2>1, <2>2, <1>5 DEF Less
  <2>3. CASE ~s.descending
    BY <1>2, <1>3, <2>1, <2>3, <1>5 DEF Less
  <2> QED BY <2>2, <2>3
<1> QED BY <1>4, <1>5

\* Of two files that differ in account or in id, one comes first: nothing is left to the
\* order the pages arrived in (sortFiles: "stable tie-breaks so repeated requests agree").
LEMMA LessTotal ==
  ASSUME NEW s \in Sort, NEW v \in FileView, NEW w \in FileView,
         v.email # w.email \/ v.id # w.id
  PROVE  Less(s, v, w) \/ Less(s, w, v)
<1>1. s.field \in Field BY DEF Sort
<1>2. Key(s.field, v) \in Int /\ Key(s.field, w) \in Int BY <1>1, KeyType
<1>3. s.descending \in BOOLEAN BY DEF Sort
<1>4. TieBreak(v, w) \/ TieBreak(w, v) BY ViewType DEF TieBreak
<1>5. CASE v.folder # w.folder
  BY <1>5, ViewType DEF Less
<1>6. CASE v.folder = w.folder
  BY <1>2, <1>3, <1>4, <1>6 DEF Less
<1> QED BY <1>5, <1>6

\* Files of which no two are the same in id and account.
Apart(W) == \A v, w \in W : v # w => v.email # w.email \/ v.id # w.id

\* How many come before a file, and it.
Rank(s, W, v) == Cardinality({u \in W : Less(s, u, v)}) + 1

LEMMA Ranks ==
  ASSUME NEW s \in Sort, NEW W \in SUBSET FileView, IsFiniteSet(W), Apart(W)
  PROVE  /\ Cardinality(W) \in Nat
         /\ \A v \in W : Rank(s, W, v) \in 1..Cardinality(W)
         /\ \A v, w \in W : Less(s, v, w) => Rank(s, W, v) < Rank(s, W, w)
         /\ \A v, w \in W : Rank(s, W, v) = Rank(s, W, w) => v = w
         /\ \A n \in 1..Cardinality(W) : \E v \in W : Rank(s, W, v) = n
<1> DEFINE Below(v) == {u \in W : Less(s, u, v)}
<1>1. Cardinality(W) \in Nat
  BY FS_CardinalityType
<1>2. \A T \in SUBSET W : IsFiniteSet(T) /\ Cardinality(T) \in Nat /\ Cardinality(T) <= Cardinality(W)
                          /\ (Cardinality(T) = Cardinality(W) => T = W)
  BY FS_Subset, FS_CardinalityType
<1>3. ASSUME NEW v \in W PROVE Rank(s, W, v) \in 1..Cardinality(W)
  <2>1. Below(v) \in SUBSET W
    OBVIOUS
  <2>2. v \notin Below(v)
    BY LessIrreflexive
  <2>3. Below(v) # W
    BY <2>2
  <2> HIDE DEF Below
  <2>4. Cardinality(Below(v)) \in Nat /\ Cardinality(Below(v)) < Cardinality(W)
    BY <1>1, <1>2, <2>1, <2>3
  <2>5. Rank(s, W, v) = Cardinality(Below(v)) + 1
    BY DEF Rank, Below
  <2> QED BY <1>1, <2>4, <2>5
<1>4. ASSUME NEW v \in W, NEW w \in W, Less(s, v, w) PROVE Rank(s, W, v) < Rank(s, W, w)
  <2>1. Below(v) \in SUBSET Below(w)
    BY <1>4, LessTransitive
  <2>2. v \in Below(w) /\ v \notin Below(v)
    BY <1>4, LessIrreflexive
  <2>3. Below(v) \in SUBSET W /\ Below(w) \in SUBSET W
    OBVIOUS
  <2>4. Rank(s, W, v) = Cardinality(Below(v)) + 1 /\ Rank(s, W, w) = Cardinality(Below(w)) + 1
    BY DEF Rank
  <2> HIDE DEF Below
  <2>5. /\ Cardinality(Below(v)) <= Cardinality(Below(w))
        /\ Cardinality(Below(v)) = Cardinality(Below(w)) => Below(v) = Below(w)
    BY <1>2, <2>1, <2>3, FS_Subset
  <2> QED BY <1>2, <2>2, <2>3, <2>4, <2>5
<1>5. ASSUME NEW v \in W, NEW w \in W, Rank(s, W, v) = Rank(s, W, w) PROVE v = w
  <2> SUFFICES ASSUME v # w PROVE FALSE
    OBVIOUS
  <2>1. Less(s, v, w) \/ Less(s, w, v)
    BY LessTotal DEF Apart
  <2>2. Rank(s, W, v) < Rank(s, W, w) \/ Rank(s, W, w) < Rank(s, W, v)
    BY <1>4, <2>1
  <2> QED BY <1>3, <1>5, <2>2
<1>6. \A n \in 1..Cardinality(W) : \E v \in W : Rank(s, W, v) = n
  <2> DEFINE f == [v \in W |-> Rank(s, W, v)]
  <2>1. f \in Injection(W, 1..Cardinality(W))
    BY <1>3, <1>5 DEF Injection, IsInjective
  <2>2. IsFiniteSet(1..Cardinality(W)) /\ Cardinality(1..Cardinality(W)) = Cardinality(W)
    BY <1>1, FS_Interval
  <2>3. f \in Surjection(W, 1..Cardinality(W))
    <3> HIDE DEF f
    <3> QED BY <2>1, <2>2, FS_Injection
  <2> QED BY <2>3 DEF Surjection
<1> QED BY <1>1, <1>3, <1>4, <1>5, <1>6

\* A sequence counts its elements, and those of some places.
LEMMA CountPlaces ==
  ASSUME NEW S, NEW t \in Seq(S), IsInjective(t), NEW J \in SUBSET DOMAIN t
  PROVE  Cardinality({t[j] : j \in J}) = Cardinality(J) /\ IsFiniteSet({t[j] : j \in J})
<1> DEFINE f == [j \in J |-> t[j]]
           R == {t[j] : j \in J}
<1>1. f \in Bijection(J, R)
  BY DEF Bijection, Injection, Surjection, IsInjective
<1>2. IsFiniteSet(J)
  <2>1. DOMAIN t = 1..Len(t) /\ Len(t) \in Nat
    OBVIOUS
  <2>2. IsFiniteSet(1..Len(t))
    BY <2>1, FS_Interval
  <2> QED BY <2>1, <2>2, FS_Subset
<1> HIDE DEF f, R
<1>3. ExistsBijection(J, R)
  BY <1>1 DEF ExistsBijection
<1>4. IsFiniteSet(R) /\ Cardinality(R) = Cardinality(J)
  BY <1>2, <1>3, FS_Bijection
<1> QED BY <1>4 DEF R

\* Sorting puts each file where its rank is, so that the result depends on the files alone.
LEMMA SortedByRank ==
  ASSUME NEW s \in Sort, NEW t \in Seq(FileView), IsInjective(t), Apart(ToSet(t))
  PROVE  /\ IsFiniteSet(ToSet(t)) /\ ToSet(t) \in SUBSET FileView
         /\ Cardinality(ToSet(t)) = Len(t)
         /\ DOMAIN SortFiles(s, t) = 1..Cardinality(ToSet(t))
         /\ \A n \in 1..Cardinality(ToSet(t)) :
              /\ SortFiles(s, t)[n] \in ToSet(t)
              /\ Rank(s, ToSet(t), SortFiles(s, t)[n]) = n
<1> DEFINE D == DOMAIN t
           W == ToSet(t)
           Before(j, k) == \/ Less(s, t[j], t[k])
                           \/ ~Less(s, t[k], t[j]) /\ j < k
           PlaceOf(k) == Cardinality({j \in D : Before(j, k)}) + 1
<1>1. D = 1..Len(t) /\ Len(t) \in Nat /\ Cardinality(D) = Len(t)
  <2>1. D = 1..Len(t) /\ Len(t) \in Nat
    OBVIOUS
  <2>2. Cardinality(1..Len(t)) = Len(t)
    BY <2>1, FS_Interval
  <2> QED BY <2>1, <2>2
<1>2. W = {t[j] : j \in D} /\ W \in SUBSET FileView /\ \A j \in D : t[j] \in W
  BY DEF ToSet
<1>3. IsFiniteSet(W) /\ Cardinality(W) = Len(t)
  <2>1. D \in SUBSET DOMAIN t
    OBVIOUS
  <2>2. Cardinality({t[j] : j \in D}) = Cardinality(D) /\ IsFiniteSet({t[j] : j \in D})
    BY <2>1, CountPlaces
  <2> QED BY <1>1, <1>2, <2>2
<1>4. ASSUME NEW k \in D PROVE PlaceOf(k) = Rank(s, W, t[k])
  <2>1. ASSUME NEW j \in D PROVE Before(j, k) <=> Less(s, t[j], t[k])
    <3>1. CASE j = k
      <4>1. t[j] \in FileView
        BY <1>2
      <4>2. ~Less(s, t[j], t[k]) /\ ~(j < k)
        BY <1>1, <3>1, <4>1, LessIrreflexive
      <4> QED BY <4>2
    <3>2. CASE j # k
      <4>1. t[j] # t[k]
        BY <3>2 DEF IsInjective
      <4>2. t[j] \in FileView /\ t[k] \in FileView
        BY <1>2
      <4>3. t[j].email # t[k].email \/ t[j].id # t[k].id
        BY <1>2, <4>1 DEF Apart
      <4>4. Less(s, t[j], t[k]) \/ Less(s, t[k], t[j])
        BY <4>2, <4>3, LessTotal
      <4> QED BY <4>4
    <3> QED BY <3>1, <3>2
  <2> DEFINE J == {j \in D : Less(s, t[j], t[k])}
  <2>2. {j \in D : Before(j, k)} = J
    BY <2>1
  <2>3. {t[j] : j \in J} = {u \in W : Less(s, u, t[k])}
    BY <1>2
  <2>4. Cardinality({t[j] : j \in J}) = Cardinality(J)
    <3>1. J \in SUBSET DOMAIN t
      OBVIOUS
    <3> HIDE DEF J
    <3> QED BY <3>1, CountPlaces
  <2> QED BY <2>2, <2>3, <2>4 DEF Rank
<1>5. SortFiles(s, t) = [n \in D |-> t[CHOOSE k \in D : PlaceOf(k) = n]]
  BY DEF SortFiles
<1> HIDE DEF PlaceOf
<1>6. ASSUME NEW n \in D
      PROVE  SortFiles(s, t)[n] \in W /\ Rank(s, W, SortFiles(s, t)[n]) = n
  <2> DEFINE c == CHOOSE k \in D : PlaceOf(k) = n
  <2>1. PICK v \in W : Rank(s, W, v) = n
    BY <1>1, <1>2, <1>3, Ranks
  <2>2. PICK k \in D : t[k] = v
    BY <1>2
  <2>3. \E j \in D : PlaceOf(j) = n
    BY <1>4, <2>1, <2>2
  <2>4. c \in D /\ PlaceOf(c) = n
    BY <2>3
  <2> HIDE DEF c
  <2>5. t[c] \in W /\ Rank(s, W, t[c]) = n
    BY <1>2, <1>4, <2>4
  <2>6. SortFiles(s, t)[n] = t[c]
    BY <1>5 DEF c
  <2> QED BY <2>5, <2>6
<1> QED BY <1>1, <1>2, <1>3, <1>5, <1>6

\* So the result holds the same files, each before those it is less than, ...
LEMMA SortedInOrder ==
  ASSUME NEW s \in Sort, NEW t \in Seq(FileView), IsInjective(t), Apart(ToSet(t))
  PROVE  /\ ToSet(SortFiles(s, t)) = ToSet(t)
         /\ \A j, k \in DOMAIN SortFiles(s, t) :
              j < k <=> Less(s, SortFiles(s, t)[j], SortFiles(s, t)[k])
<1> DEFINE W == ToSet(t)
           L == SortFiles(s, t)
<1>1. /\ W \in SUBSET FileView /\ IsFiniteSet(W) /\ DOMAIN L = 1..Cardinality(W)
      /\ \A n \in 1..Cardinality(W) : L[n] \in W /\ Rank(s, W, L[n]) = n
  BY SortedByRank
<1> HIDE DEF L
<1>2. /\ Cardinality(W) \in Nat
      /\ \A v \in W : Rank(s, W, v) \in 1..Cardinality(W)
      /\ \A v, w \in W : Less(s, v, w) => Rank(s, W, v) < Rank(s, W, w)
      /\ \A v, w \in W : Rank(s, W, v) = Rank(s, W, w) => v = w
  BY <1>1, Ranks
<1>3. ToSet(L) = W
  <2>1. \A v \in W : v = L[Rank(s, W, v)]
    BY <1>1, <1>2
  <2>2. \A n \in DOMAIN L : L[n] \in W
    BY <1>1
  <2>3. \A v \in W : \E n \in DOMAIN L : v = L[n]
    BY <1>1, <1>2, <2>1
  <2> HIDE DEF W
  <2> QED BY <2>2, <2>3 DEF ToSet
<1>4. ASSUME NEW j \in DOMAIN L, NEW k \in DOMAIN L PROVE j < k <=> Less(s, L[j], L[k])
  <2>1. L[j] \in W /\ L[k] \in W /\ Rank(s, W, L[j]) = j /\ Rank(s, W, L[k]) = k /\ j \in Nat /\ k \in Nat
    BY <1>1
  <2>2. Less(s, L[j], L[k]) => j < k
    BY <1>2, <2>1
  <2>3. Less(s, L[k], L[j]) => k < j
    BY <1>2, <2>1
  <2>4. ASSUME j < k PROVE Less(s, L[j], L[k])
    <3>1. L[j] # L[k]
      BY <2>1, <2>4
    <3>2. L[j].email # L[k].email \/ L[j].id # L[k].id
      BY <2>1, <3>1 DEF Apart
    <3>3. Less(s, L[j], L[k]) \/ Less(s, L[k], L[j])
      BY <1>1, <2>1, <3>2, LessTotal
    <3> QED BY <2>1, <2>3, <2>4, <3>3
  <2> QED BY <2>2, <2>4
<1> QED BY <1>3, <1>4 DEF L

\* ... however they were arranged before.
LEMMA SortedAlike ==
  ASSUME NEW s \in Sort, NEW t \in Seq(FileView), IsInjective(t), Apart(ToSet(t)),
         NEW r \in Seq(FileView), IsInjective(r), ToSet(r) = ToSet(t)
  PROVE  SortFiles(s, r) = SortFiles(s, t)
<1> DEFINE W == ToSet(t)
           L == SortFiles(s, t)
           M == SortFiles(s, r)
<1>1. /\ W \in SUBSET FileView /\ IsFiniteSet(W) /\ DOMAIN L = 1..Cardinality(W)
      /\ \A n \in 1..Cardinality(W) : L[n] \in W /\ Rank(s, W, L[n]) = n
  BY SortedByRank
<1>2. /\ DOMAIN M = 1..Cardinality(W)
      /\ \A n \in 1..Cardinality(W) : M[n] \in W /\ Rank(s, W, M[n]) = n
  BY SortedByRank
<1>3. L = [n \in DOMAIN L |-> L[n]] /\ M = [n \in DOMAIN M |-> M[n]]
  BY DEF SortFiles
<1> HIDE DEF L, M
<1>4. \A v, w \in W : Rank(s, W, v) = Rank(s, W, w) => v = w
  BY <1>1, Ranks
<1>5. \A n \in 1..Cardinality(W) : L[n] = M[n]
  BY <1>1, <1>2, <1>4
<1>6. L = M
  BY <1>1, <1>2, <1>3, <1>5
<1> QED BY <1>6 DEF L, M

LEMMA Joined ==
  ASSUME NEW S, NEW s \in Seq(S), NEW t \in Seq(S)
  PROVE  /\ s \o t \in Seq(S)
         /\ ToSet(s \o t) = ToSet(s) \cup ToSet(t)
         /\ IsInjective(s) /\ IsInjective(t) /\ ToSet(s) \cap ToSet(t) = {} => IsInjective(s \o t)
<1> DEFINE m == Len(s)
           n == Len(t)
           st == s \o t
<1>1. /\ m \in Nat /\ n \in Nat /\ DOMAIN s = 1..m /\ DOMAIN t = 1..n
      /\ st \in Seq(S) /\ DOMAIN st = 1..(m + n)
      /\ \A i \in 1..(m + n) : st[i] = IF i <= m THEN s[i] ELSE t[i - m]
  OBVIOUS
<1> HIDE DEF m, n, st
<1>2. \A i \in 1..(m + n) : (i <= m /\ i \in 1..m) \/ (~(i <= m) /\ i - m \in 1..n)
  BY <1>1
<1>3. ToSet(st) = ToSet(s) \cup ToSet(t)
  <2>1. ToSet(st) \subseteq ToSet(s) \cup ToSet(t)
    BY <1>1, <1>2 DEF ToSet
  <2>2. \A i \in 1..m : i \in 1..(m + n) /\ st[i] = s[i]
    BY <1>1
  <2>3. \A i \in 1..n : m + i \in 1..(m + n) /\ st[m + i] = t[i]
    BY <1>1
  <2>4. ToSet(s) \subseteq ToSet(st)
    BY <1>1, <2>2 DEF ToSet
  <2>5. ToSet(t) \subseteq ToSet(st)
    BY <1>1, <2>3 DEF ToSet
  <2> QED BY <2>1, <2>4, <2>5
<1>4. ASSUME IsInjective(s), IsInjective(t), ToSet(s) \cap ToSet(t) = {} PROVE IsInjective(st)
  <2> SUFFICES ASSUME NEW i \in 1..(m + n), NEW j \in 1..(m + n), st[i] = st[j] PROVE i = j
    BY <1>1 DEF IsInjective
  <2>1. \A k \in 1..m : \A l \in 1..n : s[k] # t[l]
    BY <1>1, <1>4 DEF ToSet
  <2>2. CASE i <= m /\ j <= m
    <3>1. i \in 1..m /\ j \in 1..m /\ s[i] = s[j]
      BY <1>1, <1>2, <2>2
    <3> QED BY <1>1, <1>4, <3>1 DEF IsInjective
  <2>3. CASE ~(i <= m) /\ ~(j <= m)
    <3>1. i - m \in 1..n /\ j - m \in 1..n /\ t[i - m] = t[j - m]
      BY <1>1, <1>2, <2>3
    <3>2. i - m = j - m
      BY <1>1, <1>4, <3>1 DEF IsInjective
    <3> QED BY <1>1, <3>2
  <2>4. CASE (i <= m /\ ~(j <= m)) \/ (~(i <= m) /\ j <= m)
    BY <1>1, <1>2, <2>1, <2>4
  <2> QED BY <2>2, <2>3, <2>4
<1> QED BY <1>1, <1>3, <1>4 DEF st

\* Joined from the first on, as FlattenSeq does it.
LEMMA FlattenDef ==
  ASSUME NEW S, NEW ps \in Seq(Seq(S)), ps # <<>>
  PROVE  \E f \in [1..Len(ps) -> Seq(S)] :
           /\ \A i \in 1..Len(ps) : f[i] = IF i = 1 THEN ps[i] ELSE f[i - 1] \o ps[i]
           /\ FlattenSeq(ps) = f[Len(ps)]
<1> DEFINE D == 1..Len(ps)
           Steps(f) == f = [i \in D |-> IF i = 1 THEN ps[i] ELSE f[i - 1] \o ps[i]]
           Upto(n) == \E f \in [D -> Seq(S)] : \A i \in D :
                        i <= n => f[i] = IF i = 1 THEN ps[i] ELSE f[i - 1] \o ps[i]
           T == {n \in Nat : Upto(n)}
<1>1. Len(ps) \in Nat /\ Len(ps) # 0 /\ ps \in [D -> Seq(S)]
  OBVIOUS
<1>2. 0 \in T
  BY <1>1
<1>3. ASSUME NEW n \in Nat, n \in T PROVE n + 1 \in T
  <2>1. PICK f \in [D -> Seq(S)] :
          \A i \in D : i <= n => f[i] = IF i = 1 THEN ps[i] ELSE f[i - 1] \o ps[i]
    BY <1>3
  <2> DEFINE g == [i \in D |-> IF i <= n THEN f[i] ELSE IF i = 1 THEN ps[i] ELSE f[i - 1] \o ps[i]]
  <2>2. ASSUME NEW i \in D PROVE i = 1 \/ (i - 1 \in D /\ f[i - 1] \o ps[i] \in Seq(S))
    <3> SUFFICES ASSUME i # 1 PROVE i - 1 \in D /\ f[i - 1] \o ps[i] \in Seq(S)
      OBVIOUS
    <3>1. i - 1 \in D
      BY <1>1
    <3>2. f[i - 1] \in Seq(S) /\ ps[i] \in Seq(S)
      BY <1>1, <3>1
    <3> QED BY <3>1, <3>2, Joined
  <2>3. g \in [D -> Seq(S)]
    BY <1>1, <2>2
  <2>4. ASSUME NEW i \in D, i <= n + 1
        PROVE  g[i] = IF i = 1 THEN ps[i] ELSE g[i - 1] \o ps[i]
    <3>1. g[i] = IF i = 1 THEN ps[i] ELSE f[i - 1] \o ps[i]
      BY <2>1
    <3>2. CASE i = 1
      BY <3>1, <3>2
    <3>3. CASE i # 1
      <4>1. i - 1 \in D /\ i - 1 <= n
        BY <1>1, <2>2, <2>4, <3>3
      <4>2. g[i - 1] = f[i - 1]
        BY <4>1
      <4> QED BY <3>1, <3>3, <4>2
    <3> QED BY <3>2, <3>3
  <2> HIDE DEF g
  <2>5. Upto(n + 1)
    BY <2>3, <2>4
  <2> HIDE DEF Upto
  <2> QED BY <2>5
<1> HIDE DEF T
<1>4. Len(ps) \in T
  BY <1>1, <1>2, <1>3, CountUp
<1>5. PICK f \in [D -> Seq(S)] :
        \A i \in D : i <= Len(ps) => f[i] = IF i = 1 THEN ps[i] ELSE f[i - 1] \o ps[i]
  BY <1>4 DEF T
<1>6. \A i \in D : i <= Len(ps)
  BY <1>1
<1>7. Steps(f)
  BY <1>5, <1>6
<1>8. FlattenSeq(ps) = (CHOOSE h : Steps(h))[Len(ps)]
  BY <1>1 DEF FlattenSeq
<1> DEFINE h == CHOOSE h : Steps(h)
<1>9. Steps(h)
  <2> HIDE DEF Steps
  <2> QED BY <1>7
<1> HIDE DEF h
<1>10. \A n \in Nat : n \in D => h[n] = f[n]
  <2> DEFINE N == {n \in Nat : n \in D => h[n] = f[n]}
  <2>1. 0 \in N
    BY <1>1
  <2>2. ASSUME NEW n \in Nat, n \in N, n + 1 \in D PROVE h[n + 1] = f[n + 1]
    <3>1. CASE n = 0
      BY <1>7, <1>9, <2>2, <3>1
    <3>2. CASE n # 0
      <4>1. n \in D /\ n + 1 # 1 /\ (n + 1) - 1 = n
        BY <1>1, <2>2, <3>2
      <4>2. h[n] = f[n]
        BY <2>2, <4>1
      <4> DEFINE m == n + 1
      <4>3. m \in D /\ m # 1 /\ m - 1 = n
        BY <2>2, <4>1
      <4> HIDE DEF m
      <4>4. h[m] = h[m - 1] \o ps[m] /\ f[m] = f[m - 1] \o ps[m]
        BY <1>7, <1>9, <4>3
      <4> QED BY <4>2, <4>3, <4>4 DEF m
    <3> QED BY <3>1, <3>2
  <2>3. \A n \in Nat : n \in N => n + 1 \in N
    BY <2>2
  <2> HIDE DEF N
  <2>4. \A n \in Nat : n \in N
    BY <2>1, <2>3, CountUp
  <2> QED BY <2>4 DEF N
<1>11. FlattenSeq(ps) = f[Len(ps)]
  <2>1. Len(ps) \in D
    BY <1>1
  <2> QED BY <1>1, <1>8, <1>10, <2>1 DEF h
<1> QED BY <1>5, <1>6, <1>11

\* Nothing is lost in joining, and nothing doubled if nothing is there twice.
LEMMA Flattened ==
  ASSUME NEW S, NEW ps \in Seq(Seq(S)),
         \A k \in DOMAIN ps : IsInjective(ps[k]),
         \A k, l \in DOMAIN ps : k # l => ToSet(ps[k]) \cap ToSet(ps[l]) = {}
  PROVE  /\ FlattenSeq(ps) \in Seq(S)
         /\ ToSet(FlattenSeq(ps)) = UNION {ToSet(ps[k]) : k \in DOMAIN ps}
         /\ IsInjective(FlattenSeq(ps))
<1>1. CASE ps = <<>>
  <2>1. FlattenSeq(ps) = <<>>
    BY <1>1 DEF FlattenSeq
  <2>2. <<>> \in Seq(S) /\ DOMAIN <<>> = {}
    OBVIOUS
  <2> QED BY <1>1, <2>1, <2>2 DEF ToSet, IsInjective
<1>2. CASE ps # <<>>
  <2> DEFINE D == 1..Len(ps)
             Upto(n) == UNION {ToSet(ps[k]) : k \in 1..n}
  <2>1. Len(ps) \in Nat /\ Len(ps) \in D /\ DOMAIN ps = D /\ \A k \in D : ps[k] \in Seq(S)
    BY <1>2
  <2>2. PICK f \in [D -> Seq(S)] :
          /\ \A i \in D : f[i] = IF i = 1 THEN ps[i] ELSE f[i - 1] \o ps[i]
          /\ FlattenSeq(ps) = f[Len(ps)]
    BY <1>2, FlattenDef
  <2> DEFINE N == {n \in Nat : n \in D => ToSet(f[n]) = Upto(n) /\ IsInjective(f[n])}
  <2>3. 0 \in N
    BY <2>1
  <2>4. ASSUME NEW n \in Nat, n \in N, n + 1 \in D
        PROVE  ToSet(f[n + 1]) = Upto(n + 1) /\ IsInjective(f[n + 1])
    <3>1. Upto(n + 1) = Upto(n) \cup ToSet(ps[n + 1])
      <4>1. 1..(n + 1) = (1..n) \cup {n + 1}
        OBVIOUS
      <4> QED BY <4>1
    <3>2. CASE n = 0
      <4>1. f[n + 1] = ps[n + 1]
        <5>1. n + 1 = 1 /\ 1 \in D
          BY <2>4, <3>2
        <5>2. f[1] = ps[1]
          BY <2>2, <5>1
        <5> QED BY <5>1, <5>2
      <4>2. Upto(n) = {}
        BY <3>2
      <4> QED BY <2>1, <2>4, <3>1, <4>1, <4>2
    <3>3. CASE n # 0
      <4>1. n \in D
        BY <2>1, <2>4, <3>3
      <4>2. f[n + 1] = f[n] \o ps[n + 1]
        <5> DEFINE m == n + 1
        <5>1. m \in D /\ m # 1 /\ m - 1 = n
          BY <2>4, <3>3
        <5> HIDE DEF m
        <5>2. f[m] = f[m - 1] \o ps[m]
          BY <2>2, <5>1
        <5> QED BY <5>1, <5>2 DEF m
      <4>3. ToSet(f[n]) = Upto(n) /\ IsInjective(f[n])
        BY <2>4, <4>1
      <4>4. \A k \in 1..n : k \in D /\ k # n + 1
        BY <2>1, <2>4
      <4>5. Upto(n) \cap ToSet(ps[n + 1]) = {}
        BY <2>1, <2>4, <4>4
      <4>6. f[n] \in Seq(S) /\ ps[n + 1] \in Seq(S) /\ IsInjective(ps[n + 1])
        BY <2>1, <2>2, <2>4, <4>1
      <4> HIDE DEF Upto
      <4>7. ToSet(f[n] \o ps[n + 1]) = ToSet(f[n]) \cup ToSet(ps[n + 1])
        BY <4>6, Joined
      <4>8. IsInjective(f[n] \o ps[n + 1])
        BY <4>3, <4>5, <4>6, Joined
      <4> QED BY <3>1, <4>2, <4>3, <4>7, <4>8
    <3> QED BY <3>2, <3>3
  <2> HIDE DEF Upto
  <2>5. ASSUME NEW n \in Nat, n \in N PROVE n + 1 \in N
    <3>1. n + 1 \in D => ToSet(f[n + 1]) = Upto(n + 1) /\ IsInjective(f[n + 1])
      BY <2>4, <2>5
    <3> QED BY <3>1
  <2> HIDE DEF N
  <2>6. Len(ps) \in N
    BY <2>1, <2>3, <2>5, CountUp
  <2>7. ToSet(FlattenSeq(ps)) = Upto(Len(ps)) /\ IsInjective(FlattenSeq(ps))
    BY <2>1, <2>2, <2>6 DEF N
  <2>8. FlattenSeq(ps) \in Seq(S)
    BY <2>1, <2>2
  <2>9. Upto(Len(ps)) = UNION {ToSet(ps[k]) : k \in DOMAIN ps}
    BY <2>1 DEF Upto
  <2> QED BY <2>7, <2>8, <2>9
<1> QED BY <1>1, <1>2

\* What is known of the pages: no two have an account in common, and Drive has ordered each.
PagesOfDrives ==
  /\ sort \in Sort
  /\ pages \in Seq(Seq(FileView))
  /\ \A k \in DOMAIN pages : \A m, n \in DOMAIN pages[k] :
       m # n => pages[k][m].id # pages[k][n].id
  /\ \A k, l \in DOMAIN pages : k # l =>
       \A m \in DOMAIN pages[k] : \A n \in DOMAIN pages[l] : pages[k][m].email # pages[l][n].email
  /\ \A k \in DOMAIN pages : DriveOrdered(sort, pages[k])

OrderInv ==
  /\ PagesOfDrives
  /\ listing # <<>> => listing = SortFiles(sort, FlattenSeq(pages))

FilesOf(ps) == UNION {ToSet(ps[k]) : k \in DOMAIN ps}

LEMMA FilesApart ==
  ASSUME PagesOfDrives
  PROVE  /\ \A k \in DOMAIN pages : IsInjective(pages[k])
         /\ \A k, l \in DOMAIN pages : k # l => ToSet(pages[k]) \cap ToSet(pages[l]) = {}
         /\ Apart(FilesOf(pages))
<1>1. \A k \in DOMAIN pages : \A m, n \in DOMAIN pages[k] :
        m # n => pages[k][m].id # pages[k][n].id
  BY DEF PagesOfDrives
<1>2. \A k, l \in DOMAIN pages : k # l =>
        \A m \in DOMAIN pages[k] : \A n \in DOMAIN pages[l] : pages[k][m].email # pages[l][n].email
  BY DEF PagesOfDrives
<1>3. \A k \in DOMAIN pages : IsInjective(pages[k])
  BY <1>1 DEF IsInjective
<1>4. ASSUME NEW k \in DOMAIN pages, NEW l \in DOMAIN pages, k # l
      PROVE  ToSet(pages[k]) \cap ToSet(pages[l]) = {}
  BY <1>2, <1>4 DEF ToSet
<1>5. Apart(FilesOf(pages))
  <2> SUFFICES ASSUME NEW v \in FilesOf(pages), NEW w \in FilesOf(pages), v # w
               PROVE  v.email # w.email \/ v.id # w.id
    BY DEF Apart
  <2>1. PICK k \in DOMAIN pages : v \in ToSet(pages[k])
    BY DEF FilesOf
  <2>2. PICK l \in DOMAIN pages : w \in ToSet(pages[l])
    BY DEF FilesOf
  <2>3. PICK m \in DOMAIN pages[k] : v = pages[k][m]
    BY <2>1 DEF ToSet
  <2>4. PICK n \in DOMAIN pages[l] : w = pages[l][n]
    BY <2>2 DEF ToSet
  <2>5. CASE k = l
    <3>1. m # n
      BY <2>3, <2>4, <2>5
    <3> QED BY <1>1, <2>3, <2>4, <2>5, <3>1
  <2>6. CASE k # l
    BY <1>2, <2>3, <2>4, <2>6
  <2> QED BY <2>5, <2>6
<1> QED BY <1>3, <1>4, <1>5

\* In the opposite order they are the same pages.
LEMMA Reversed ==
  ASSUME NEW S, NEW ps \in Seq(Seq(S)),
         \A k \in DOMAIN ps : IsInjective(ps[k]),
         \A k, l \in DOMAIN ps : k # l => ToSet(ps[k]) \cap ToSet(ps[l]) = {}
  PROVE  /\ Reverse(ps) \in Seq(Seq(S))
         /\ \A k \in DOMAIN Reverse(ps) : IsInjective(Reverse(ps)[k])
         /\ \A k, l \in DOMAIN Reverse(ps) : k # l =>
              ToSet(Reverse(ps)[k]) \cap ToSet(Reverse(ps)[l]) = {}
         /\ FilesOf(Reverse(ps)) = FilesOf(ps)
<1> DEFINE n == Len(ps)
           D == 1..n
           back(k) == (n - k) + 1
           rs == Reverse(ps)
<1>1. n \in Nat /\ DOMAIN ps = D /\ \A k \in D : ps[k] \in Seq(S)
  OBVIOUS
<1>2. \A k \in D : back(k) \in D /\ back(back(k)) = k
  BY <1>1
<1>3. rs = [k \in D |-> ps[back(k)]]
  BY DEF Reverse
<1> HIDE DEF n, back, rs
<1>4. rs \in Seq(Seq(S)) /\ DOMAIN rs = D
  <2>1. rs \in [D -> Seq(S)]
    BY <1>1, <1>2, <1>3
  <2> QED BY <1>1, <2>1
<1>5. \A k \in D : rs[k] = ps[back(k)] /\ ps[k] = rs[back(k)]
  BY <1>2, <1>3
<1>6. \A k \in DOMAIN rs : IsInjective(rs[k])
  BY <1>1, <1>2, <1>4, <1>5
<1>7. ASSUME NEW k \in DOMAIN rs, NEW l \in DOMAIN rs, k # l
      PROVE  ToSet(rs[k]) \cap ToSet(rs[l]) = {}
  <2>1. back(k) \in DOMAIN ps /\ back(l) \in DOMAIN ps /\ back(k) # back(l)
    BY <1>1, <1>2, <1>4, <1>7
  <2>2. ToSet(ps[back(k)]) \cap ToSet(ps[back(l)]) = {}
    BY <2>1
  <2> QED BY <1>4, <1>5, <2>2
<1>8. FilesOf(rs) = FilesOf(ps)
  <2>1. FilesOf(rs) \subseteq FilesOf(ps)
    BY <1>1, <1>2, <1>4, <1>5 DEF FilesOf
  <2>2. FilesOf(ps) \subseteq FilesOf(rs)
    BY <1>1, <1>2, <1>4, <1>5 DEF FilesOf
  <2> QED BY <2>1, <2>2
<1> QED BY <1>4, <1>6, <1>7, <1>8 DEF rs

LEMMA OrderBegins == OrderInit \/ OrderAtRest => OrderInv
<1>1. ASSUME OrderAtRest PROVE OrderInv
  <2>1. sort \in Sort
    <3>1. [field |-> "name", descending |-> FALSE] \in Sort
      BY DEF Sort, Field
    <3> QED BY <1>1, <3>1 DEF OrderAtRest
  <2>2. pages = <<>> /\ listing = <<>> /\ DOMAIN <<>> = {} /\ <<>> \in Seq(Seq(FileView))
    BY <1>1 DEF OrderAtRest
  <2> QED BY <2>1, <2>2 DEF OrderInv, PagesOfDrives
<1>2. ASSUME OrderInit PROVE OrderInv
  <2>1. PICK accounts \in SetToAllKPermutations(Email) :
          \E length \in [DOMAIN accounts -> 0..MaxFiles] : pages \in Pages(sort, accounts, length)
    BY <1>2 DEF OrderInit
  <2>2. PICK length \in [DOMAIN accounts -> 0..MaxFiles] : pages \in Pages(sort, accounts, length)
    BY <2>1
  <2>3. PICK A \in SUBSET Email : accounts \in SetToSeqs(A)
    BY DEF SetToAllKPermutations
  <2> DEFINE n == Cardinality(A)
  <2>4. n \in Nat
    BY FilesAssumption, FS_Subset, FS_CardinalityType
  <2>5. /\ accounts \in [1..n -> A]
        /\ \A k, l \in 1..n : k # l => accounts[k] # accounts[l]
    BY <2>3 DEF SetToSeqs
  <2>6. DOMAIN accounts = 1..n /\ \A k \in 1..n : accounts[k] \in Email
    BY <2>5
  <2>7. /\ DOMAIN pages = 1..n /\ pages = [k \in 1..n |-> pages[k]]
        /\ \A k \in 1..n : pages[k] \in PageOf(sort, accounts[k], length[k])
    BY <2>2, <2>6 DEF Pages
  <2>8. ASSUME NEW k \in 1..n
        PROVE  /\ pages[k] \in Seq(FileView)
               /\ \A m \in DOMAIN pages[k] : pages[k][m].email = accounts[k]
               /\ \A i, j \in DOMAIN pages[k] : i # j => pages[k][i].id # pages[k][j].id
               /\ DriveOrdered(sort, pages[k])
    <3>1. length[k] \in Nat
      BY <2>2, <2>6, FilesAssumption
    <3>2. /\ pages[k] \in [1..length[k] -> {v \in FileView : v.email = accounts[k]}]
          /\ DriveOrdered(sort, pages[k])
          /\ \A i, j \in DOMAIN pages[k] : i # j => pages[k][i].id # pages[k][j].id
      BY <2>7 DEF PageOf
    <3>3. pages[k] \in [1..length[k] -> FileView]
      BY <3>2
    <3>4. pages[k] \in Seq(FileView)
      BY <3>1, <3>3
    <3> QED BY <3>2, <3>4
  <2> HIDE DEF n
  <2>9. pages \in Seq(Seq(FileView))
    <3>1. pages \in [1..n -> Seq(FileView)]
      BY <2>7, <2>8
    <3> QED BY <2>4, <3>1
  <2>10. \A k, l \in DOMAIN pages : k # l =>
           \A i \in DOMAIN pages[k] : \A j \in DOMAIN pages[l] : pages[k][i].email # pages[l][j].email
    BY <2>5, <2>7, <2>8
  <2>11. sort \in Sort /\ listing = <<>>
    BY <1>2 DEF OrderInit
  <2> QED BY <2>7, <2>8, <2>9, <2>10, <2>11 DEF OrderInv, PagesOfDrives
<1> QED BY <1>1, <1>2

LEMMA OrderStep == OrderInv /\ [RNext]_rvars => OrderInv'
<1> SUFFICES ASSUME OrderInv, [RNext]_rvars PROVE OrderInv'
  OBVIOUS
<1>1. CASE MakeListing
  BY <1>1 DEF MakeListing, OrderInv, PagesOfDrives
<1>2. CASE UNCHANGED order
  BY <1>2 DEF order, OrderInv, PagesOfDrives
<1> QED BY <1>1, <1>2 DEF RNext, Files, Page, Storage, rvars

LEMMA OrderInvariance == RSpec => []OrderInv
<1>1. RInit => OrderInv
  BY OrderBegins DEF RInit
<1> QED BY <1>1, OrderStep, PTL DEF RSpec

\* Whatever the Drives answered, the page reads as one list (merge and sortFiles).
THEOREM OneList == RSpec => []ReadsAsOneList
<1>1. OrderInv => ReadsAsOneList
  <2> SUFFICES ASSUME OrderInv, listing # <<>> PROVE ReadsAsOneList
    BY DEF ReadsAsOneList
  <2> DEFINE t == FlattenSeq(pages)
             r == FlattenSeq(Reverse(pages))
             W == FilesOf(pages)
  <2>1. PagesOfDrives /\ listing = SortFiles(sort, t)
    BY DEF OrderInv
  <2>2. sort \in Sort /\ pages \in Seq(Seq(FileView))
    BY <2>1 DEF PagesOfDrives
  <2>3. /\ \A k \in DOMAIN pages : IsInjective(pages[k])
        /\ \A k, l \in DOMAIN pages : k # l => ToSet(pages[k]) \cap ToSet(pages[l]) = {}
        /\ Apart(W)
    BY <2>1, FilesApart
  <2>4. t \in Seq(FileView) /\ ToSet(t) = W /\ IsInjective(t)
    BY <2>2, <2>3, Flattened DEF FilesOf
  <2>5. r \in Seq(FileView) /\ ToSet(r) = W /\ IsInjective(r)
    <3> DEFINE ps == Reverse(pages)
    <3>1. /\ ps \in Seq(Seq(FileView))
          /\ \A k \in DOMAIN ps : IsInjective(ps[k])
          /\ \A k, l \in DOMAIN ps : k # l => ToSet(ps[k]) \cap ToSet(ps[l]) = {}
          /\ FilesOf(ps) = W
      BY <2>2, <2>3, Reversed
    <3> HIDE DEF ps
    <3>2. /\ FlattenSeq(ps) \in Seq(FileView) /\ ToSet(FlattenSeq(ps)) = FilesOf(ps)
          /\ IsInjective(FlattenSeq(ps))
      BY <3>1, Flattened DEF FilesOf
    <3> QED BY <3>1, <3>2 DEF ps
  <2> HIDE DEF t, r
  <2>6. /\ ToSet(listing) = W
        /\ \A j, k \in DOMAIN listing : j < k <=> Less(sort, listing[j], listing[k])
    BY <2>1, <2>2, <2>3, <2>4, SortedInOrder
  <2>7. listing = SortFiles(sort, r)
    BY <2>1, <2>2, <2>3, <2>4, <2>5, SortedAlike
  <2>8. ASSUME sort.field # "account_email", NEW k \in DOMAIN pages,
               NEW m \in DOMAIN pages[k], NEW n \in DOMAIN pages[k],
               m < n, ~Tied(pages[k][m], pages[k][n])
        PROVE  \E i, j \in DOMAIN listing :
                 i < j /\ listing[i] = pages[k][m] /\ listing[j] = pages[k][n]
    <3> DEFINE v == pages[k][m]
               w == pages[k][n]
    <3>1. v \in FileView /\ w \in FileView
      BY <2>2
    <3>2. v \in W /\ w \in W
      BY DEF FilesOf, ToSet
    <3>3. \/ v.folder /\ ~w.folder
          \/ /\ v.folder = w.folder
             /\ IF sort.descending THEN Key(sort.field, v) >= Key(sort.field, w)
                ELSE Key(sort.field, v) <= Key(sort.field, w)
      BY <2>1, <2>8 DEF PagesOfDrives, DriveOrdered, DriveField
    <3>4. Key(sort.field, v) \in Int /\ Key(sort.field, w) \in Int
      BY <2>2, <3>1, KeyType DEF Sort
    <3>5. v.folder = w.folder => Key(sort.field, v) # Key(sort.field, w)
      BY <2>8 DEF Tied
    <3> HIDE DEF v, w
    <3>6. Less(sort, v, w)
      BY <3>3, <3>4, <3>5 DEF Less
    <3>7. PICK i \in DOMAIN listing : listing[i] = v
      BY <2>6, <3>2 DEF ToSet
    <3>8. PICK j \in DOMAIN listing : listing[j] = w
      BY <2>6, <3>2 DEF ToSet
    <3>9. i < j
      BY <2>6, <3>6, <3>7, <3>8
    <3> QED BY <3>7, <3>8, <3>9 DEF v, w
  <2>9. \A j, k \in DOMAIN listing : j < k => Less(sort, listing[j], listing[k])
    BY <2>6
  <2> QED BY <2>6, <2>7, <2>8, <2>9 DEF ReadsAsOneList, FilesOf, r
<1> QED BY <1>1, OrderInvariance, PTL

-----------------------------------------------------------------------------
(* The walk through the files                                              *)

LEMMA WalksOnly == RSpec => BSpec
<1>1. RInit => BInit
  BY DEF RInit
<1>2. [RNext]_rvars => [BNext]_bvars
  BY DEF RNext, Files, Page, Storage, rvars
<1> QED BY <1>1, <1>2, PTL DEF RSpec, BSpec

\* The other requests leave a walk through the files what it is (List, and the infinite
\* query of the client).
THEOREM WalkBesides == RSpec => [](PagesInTurn /\ NothingMissingInSilence /\ PathWellFormed)
BY WalksOnly, InFolders, Paths, PTL
=============================================================================

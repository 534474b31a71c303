-------------------------- MODULE FileListingProofs --------------------------
(***************************************************************************)
(* A walk through any number of Drives shows their pages in turn and loses *)
(* none in silence.                                                        *)
(*                                                                         *)
(* The argument follows the cursor.  While a request is under way it       *)
(* carries the cursor of the last answer read (Resumes), and each Drive it *)
(* fans out over is asked for the page after those shown (Asks); so a page *)
(* that is appended is the next one.  An account that is neither shown to  *)
(* its end nor told of is in the cursor, or the walk has only begun        *)
(* (Pending), and then the fan-out asks it or cuts it off (Covered); so    *)
(* when the cursor is empty nothing is missing.                            *)
(*                                                                         *)
(* A listing of a folder makes the same steps, and walks up a path besides *)
(* that begins at the folder, never comes to one twice and is forgotten    *)
(* with the request (WalkInv).                                             *)
(***************************************************************************)
EXTENDS Breadcrumbs, SequenceTheorems, FiniteSetTheorems, TLAPS

UnderWay == phase \in {"rows", "fanout"}

\* Account ids are not used again.
Used == ToSet(Cards) \cup ToSet(connected) \subseteq ever

Resumes ==
  UnderWay => resume = next /\ (next = EmptyCursor => \A a \in Account : shown[a] = <<>>)

Asks ==
  phase = "fanout" => \A a \in Account :
    /\ job[a] # "none" => a \in ToSet(targets)
    /\ a \in ToSet(targets) => next = EmptyCursor \/ next[a] # NoPage
    /\ job[a] = "ok" => got[a] = PageAsked(a)

Due(a) == a \in ToSet(Cards) \cap ToSet(connected) /\ only \in {a, Everything}
Told(a) == Len(shown[a]) = pagesOf[a] \/ a \in reported \cup cut

Pending ==
  phase = "read" \/ UnderWay => \A a \in Account :
    Due(a) => Told(a) \/ next[a] # NoPage \/ (next = EmptyCursor /\ UnderWay)

Covered ==
  phase = "fanout" => \A a \in Account :
    Due(a) /\ (next = EmptyCursor \/ next[a] # NoPage) => a \in ToSet(targets) \cup cut

Complete == phase = "over" => \A a \in Account : Due(a) => Told(a)

IInv == TypeOK /\ Used /\ PagesInTurn /\ Resumes /\ Asks /\ Pending /\ Covered /\ Complete

LEMMA ToSetOfSeq == \A S : \A s \in Seq(S) : ToSet(s) \subseteq S
BY DEF ToSet

LEMMA CompleteIsNothingMissing == TypeOK /\ Complete => NothingMissingInSilence
<1> SUFFICES ASSUME TypeOK, Complete, phase = "over",
                    NEW a \in ToSet(Cards) \cap ToSet(connected), only \in {a, Everything}
             PROVE  Len(shown[a]) = pagesOf[a] \/ a \in reported \cup cut
  BY DEF NothingMissingInSilence
<1>1. a \in Account
  BY CardsAssumption, ToSetOfSeq
<1> QED BY <1>1 DEF Complete, Due, Told

LEMMA InitIInv == Init => IInv
<1> SUFFICES ASSUME Init PROVE IInv
  OBVIOUS
<1>1. EmptyCursor \in Cursor /\ \A a \in Account : EmptyCursor[a] = NoPage
  BY DEF EmptyCursor, Cursor, NoPage
<1>2. TypeOK
  <2>1. lost \in 0..MaxLost
    BY BoundsAssumption DEF Init
  <2>2. ever \subseteq Account
    BY CardsAssumption, ToSetOfSeq DEF Init
  <2>3. shown \in [Account -> Seq(Nat)] /\ targets \in Seq(Account)
    BY DEF Init
  <2>4. got \in [Account -> Nat] /\ job \in [Account -> Job]
    BY DEF Init, NoPage, Job
  <2> QED BY <1>1, <2>1, <2>2, <2>3, <2>4, CardsAssumption DEF Init, TypeOK
<1>3. PagesInTurn
  BY <1>1 DEF Init, PagesInTurn
<1>4. Used /\ Resumes /\ Asks /\ Pending /\ Covered /\ Complete
  BY DEF Init, Used, Resumes, Asks, Pending, Covered, Complete, UnderWay
<1> QED BY <1>2, <1>3, <1>4 DEF IInv

-----------------------------------------------------------------------------
(* The client.                                                             *)

LEMMA Empty == EmptyCursor \in Cursor /\ \A a \in Account : EmptyCursor[a] = NoPage
BY DEF EmptyCursor, Cursor, NoPage

LEMMA OpenStep == \A f \in Account \cup {Everything} : IInv /\ Open(f) => IInv'
<1> SUFFICES ASSUME NEW f \in Account \cup {Everything}, IInv, Open(f) PROVE IInv'
  OBVIOUS
<1>1. /\ only' = f /\ resume' = EmptyCursor /\ next' = EmptyCursor /\ phase' = "rows"
      /\ shown' = [a \in Account |-> <<>>] /\ reported' = {} /\ cut' = {}
      /\ UNCHANGED <<connected, ever, targets, job, got, lost>>
  BY DEF Open
<1>2. TypeOK'
  <2>1. shown' \in [Account -> Seq(Nat)]
    BY <1>1
  <2> QED BY <1>1, <2>1, Empty DEF IInv, TypeOK
<1>3. PagesInTurn'
  BY <1>1, Empty DEF PagesInTurn
<1>4. Used' /\ Resumes' /\ Asks' /\ Pending' /\ Covered' /\ Complete'
  BY <1>1 DEF IInv, Used, Resumes, Asks, Pending, Covered, Complete, UnderWay
<1> QED BY <1>2, <1>3, <1>4 DEF IInv

LEMMA LoadMoreStep == IInv /\ LoadMore => IInv'
<1> SUFFICES ASSUME IInv, LoadMore PROVE IInv'
  OBVIOUS
<1>1. /\ phase = "read" /\ next # EmptyCursor /\ resume' = next /\ phase' = "rows"
      /\ UNCHANGED <<connected, ever, only, targets, job, got, cut, next, shown, reported, lost>>
  BY DEF LoadMore, client
<1>2. TypeOK'
  BY <1>1 DEF IInv, TypeOK
<1>3. PagesInTurn'
  BY <1>1 DEF IInv, PagesInTurn
<1>4. Used' /\ Resumes' /\ Asks' /\ Covered' /\ Complete'
  BY <1>1 DEF IInv, Used, Resumes, Asks, Covered, Complete, UnderWay
<1>5. Pending'
  BY <1>1 DEF IInv, Pending, Due, Told, UnderWay
<1> QED BY <1>2, <1>3, <1>4, <1>5 DEF IInv

-----------------------------------------------------------------------------
(* The server.                                                             *)

LEMMA NothingToListStep == IInv /\ NothingToList => IInv'
<1> SUFFICES ASSUME IInv, NothingToList PROVE IInv'
  OBVIOUS
<1>1. /\ phase = "rows" /\ Candidates = {} /\ next' = EmptyCursor /\ phase' = "over"
      /\ UNCHANGED <<connected, ever, only, resume, targets, job, got, cut, shown, reported, lost>>
  BY DEF NothingToList, server
<1>2. TypeOK'
  BY <1>1, Empty DEF IInv, TypeOK
<1>3. PagesInTurn'
  BY <1>1, Empty DEF IInv, PagesInTurn
<1>4. Used' /\ Resumes' /\ Asks' /\ Pending' /\ Covered'
  BY <1>1 DEF IInv, Used, Resumes, Asks, Pending, Covered, UnderWay
<1>5. ASSUME NEW a \in Account, Due(a) PROVE Told(a)
  <2>1. ~Wanted(a)
    BY <1>1, <1>5 DEF Candidates, Due
  <2>2. resume # EmptyCursor /\ resume[a] = NoPage
    BY <1>5, <2>1 DEF Wanted, Due
  <2> QED BY <1>1, <1>5, <2>2 DEF IInv, Pending, Resumes, UnderWay
<1>6. Complete'
  BY <1>1, <1>5 DEF Complete, Due, Told
<1> QED BY <1>2, <1>3, <1>4, <1>6 DEF IInv

LEMMA ToSetFinite == \A S : \A s \in Seq(S) : IsFiniteSet(ToSet(s))
<1> SUFFICES ASSUME NEW S, NEW s \in Seq(S) PROVE IsFiniteSet(ToSet(s))
  OBVIOUS
<1>1. Len(s) \in Nat /\ DOMAIN s = 1..Len(s) /\ s \in [1..Len(s) -> S]
  BY LenProperties
<1>2. s \in Surjection(1..Len(s), ToSet(s))
  BY <1>1 DEF Surjection, ToSet
<1>3. ExistsSurjection(1..Len(s), ToSet(s))
  BY <1>2 DEF ExistsSurjection
<1> QED BY <1>1, <1>3, FS_NatSurjection

\* Whom the fan-out asks: some of the candidates, and the others are cut off.
LEMMA FanOutTargets ==
  TypeOK /\ FanOut => /\ targets' \in Seq(Account)
                      /\ ToSet(targets') \subseteq Candidates
                      /\ Candidates \subseteq ToSet(targets') \cup cut'
<1> SUFFICES ASSUME TypeOK, FanOut
             PROVE  /\ targets' \in Seq(Account)
                    /\ ToSet(targets') \subseteq Candidates
  BY DEF FanOut
<1>1. PICK s \in Listed : targets' = SubSeq(s, 1, IF Len(s) > MaxTargets THEN MaxTargets ELSE Len(s))
  BY DEF FanOut
<1>2. Candidates \subseteq Account
  BY ToSetOfSeq DEF TypeOK, Candidates
<1>3. s \in [1..Cardinality(Candidates) -> Candidates]
  BY DEF Listed, SetToSeqs
<1> DEFINE n == IF Len(s) > MaxTargets THEN MaxTargets ELSE Len(s)
<1>4. s \in Seq(Candidates)
  <2>1. IsFiniteSet(Candidates)
    <3>1. connected \in Seq(Account)
      BY DEF TypeOK
    <3>2. IsFiniteSet(ToSet(connected))
      BY <3>1, ToSetFinite
    <3> QED BY <3>2, FS_Subset DEF Candidates
  <2>2. Cardinality(Candidates) \in Nat
    BY <2>1, FS_CardinalityType
  <2> QED BY <1>3, <2>2
<1>5. n \in Nat /\ n <= Len(s) /\ Len(s) \in Nat
  BY <1>4, BoundsAssumption, LenProperties
<1>6. \A k \in 1..n : s[k] \in Candidates
  BY <1>4, <1>5
<1>7. /\ targets' \in Seq(Candidates)
  BY <1>1, <1>5, <1>6, SubSeqProperties
<1> QED BY <1>2, <1>7, ToSetOfSeq

LEMMA FanOutStep == IInv /\ FanOut => IInv'
<1> SUFFICES ASSUME IInv, FanOut PROVE IInv'
  OBVIOUS
<1>1. /\ phase = "rows" /\ phase' = "fanout"
      /\ job' = [a \in Account |-> IF a \in ToSet(targets') THEN "queued" ELSE "none"]
      /\ got' = [a \in Account |-> NoPage]
      /\ cut' = cut \cup (Candidates \ ToSet(targets'))
      /\ UNCHANGED <<connected, ever, only, resume, next, shown, reported, lost>>
  BY DEF FanOut, client
<1>2. /\ targets' \in Seq(Account)
      /\ ToSet(targets') \subseteq Candidates
      /\ Candidates \subseteq ToSet(targets') \cup cut'
  BY FanOutTargets DEF IInv
<1>3. resume = next
  BY <1>1 DEF IInv, Resumes, UnderWay
<1>4. TypeOK'
  <2>1. Candidates \subseteq Account
    BY ToSetOfSeq DEF IInv, TypeOK, Candidates
  <2>2. job' \in [Account -> Job] /\ got' \in [Account -> Nat]
    BY <1>1 DEF Job, NoPage
  <2> QED BY <1>1, <1>2, <2>1, <2>2 DEF IInv, TypeOK
<1>5. PagesInTurn'
  BY <1>1 DEF IInv, PagesInTurn
<1>6. Used' /\ Resumes' /\ Complete'
  BY <1>1, <1>3 DEF IInv, Used, Resumes, Complete, UnderWay
<1>7. Pending'
  BY <1>1 DEF IInv, Pending, Due, Told, UnderWay
<1>8. Asks'
  BY <1>1, <1>2, <1>3 DEF Asks, Candidates, Wanted
<1>9. Covered'
  BY <1>1, <1>2, <1>3 DEF Covered, Due, Candidates, Wanted
<1> QED BY <1>4, <1>5, <1>6, <1>7, <1>8, <1>9 DEF IInv

\* The steps of the goroutines touch nothing but job and got.
LEMMA JobsStep ==
  ASSUME IInv, UNCHANGED <<connected, ever, only, phase, resume, targets, cut, next, shown, reported, lost>>,
         job' \in [Account -> Job], got' \in [Account -> Nat],
         \A a \in Account : job'[a] # "none" => job[a] # "none",
         \A a \in Account : job'[a] = "ok" => (job[a] = "ok" /\ got'[a] = got[a]) \/ got'[a] = PageAsked(a)
  PROVE  IInv'
<1>1. TypeOK'
  BY DEF IInv, TypeOK
<1>2. PagesInTurn' /\ Used' /\ Resumes' /\ Complete'
  BY DEF IInv, PagesInTurn, Used, Resumes, Complete, UnderWay, Due, Told
<1>3. Pending' /\ Covered'
  BY DEF IInv, Pending, Covered, UnderWay, Due, Told
<1>4. Asks'
  BY DEF IInv, Asks, PageAsked
<1> QED BY <1>1, <1>2, <1>3, <1>4 DEF IInv

LEMMA GoroutineStep == \A a \in Account : IInv /\ Goroutine(a) => IInv'
<1> SUFFICES ASSUME NEW a \in Account, IInv, Goroutine(a) PROVE IInv'
  OBVIOUS
<1>1. /\ job \in [Account -> Job] /\ got \in [Account -> Nat]
      /\ resume \in [Account -> Nat]
  BY DEF IInv, TypeOK, Cursor
<1>2. CASE Launch(a) \/ ReadRow(a)
  <2>1. /\ job[a] # "none"
        /\ \E j \in {"row", "call", "failed"} : job' = [job EXCEPT ![a] = j]
        /\ UNCHANGED <<connected, ever, only, phase, resume, targets, got, cut, next, shown, reported, lost>>
    BY <1>2 DEF Launch, ReadRow, client
  <2>2. job' \in [Account -> Job]
    BY <1>1, <2>1 DEF Job
  <2>3. \A b \in Account : /\ job'[b] # "none" => job[b] # "none"
                           /\ job'[b] = "ok" => job[b] = "ok"
    BY <1>1, <2>1
  <2> QED BY <1>1, <2>1, <2>2, <2>3, JobsStep
<1>3. CASE ListFiles(a)
  <2>1. job[a] = "call" /\ UNCHANGED <<connected, ever, only, phase, resume, targets, cut, next, shown, reported, lost>>
    BY <1>3 DEF ListFiles, client
  <2>2. PageAsked(a) \in Nat
    BY <1>1 DEF PageAsked
  <2>3. CASE job' = [job EXCEPT ![a] = "ok"] /\ got' = [got EXCEPT ![a] = PageAsked(a)]
    <3>1. job' \in [Account -> Job] /\ got' \in [Account -> Nat]
      BY <1>1, <2>2, <2>3 DEF Job
    <3>2. \A b \in Account : /\ job'[b] # "none" => job[b] # "none"
                             /\ job'[b] = "ok" => (job[b] = "ok" /\ got'[b] = got[b]) \/ got'[b] = PageAsked(b)
      BY <1>1, <2>1, <2>3
    <3> QED BY <2>1, <3>1, <3>2, JobsStep
  <2>4. CASE job' = [job EXCEPT ![a] = "failed"] /\ UNCHANGED got
    <3>1. job' \in [Account -> Job] /\ got' \in [Account -> Nat]
      BY <1>1, <2>4 DEF Job
    <3>2. \A b \in Account : /\ job'[b] # "none" => job[b] # "none"
                             /\ job'[b] = "ok" => job[b] = "ok"
      BY <1>1, <2>1, <2>4
    <3> QED BY <2>1, <2>4, <3>1, <3>2, JobsStep
  <2> QED BY <1>3, <2>3, <2>4 DEF ListFiles
<1> QED BY <1>2, <1>3 DEF Goroutine

\* The page asked for is the one after those shown, and there is one.
LEMMA AsksNext ==
  IInv /\ phase = "fanout" =>
    \A a \in Account : a \in ToSet(targets) =>
      PageAsked(a) = Len(shown[a]) + 1 /\ PageAsked(a) <= pagesOf[a]
<1> SUFFICES ASSUME IInv, phase = "fanout", NEW a \in Account, a \in ToSet(targets)
             PROVE  PageAsked(a) = Len(shown[a]) + 1 /\ PageAsked(a) <= pagesOf[a]
  OBVIOUS
<1>1. resume = next /\ (next = EmptyCursor => shown[a] = <<>>)
  BY DEF IInv, Resumes, UnderWay
<1>2. next = EmptyCursor \/ next[a] # NoPage
  BY DEF IInv, Asks
<1>3. CASE next[a] # NoPage
  BY <1>1, <1>3 DEF IInv, PagesInTurn, PageAsked
<1>4. CASE next[a] = NoPage
  <2>1. PageAsked(a) = 1 /\ shown[a] = <<>>
    BY <1>1, <1>2, <1>4 DEF PageAsked
  <2>2. pagesOf[a] \in Nat /\ 1 <= pagesOf[a]
    BY PagesAssumption
  <2> QED BY <2>1, <2>2
<1> QED BY <1>3, <1>4

LEMMA LoseStep == IInv /\ Lose => IInv'
<1> SUFFICES ASSUME IInv, Lose PROVE IInv'
  OBVIOUS
<1>1. /\ phase = "fanout" /\ phase' = "rows" /\ lost < MaxLost /\ lost' = lost + 1
      /\ UNCHANGED <<connected, ever, only, resume, targets, job, got, cut, next, shown, reported>>
  BY DEF Lose, AllDone, server, client
<1>2. TypeOK'
  <2>1. lost' \in 0..MaxLost
    <3>1. lost \in 0..MaxLost /\ MaxLost \in Nat
      BY BoundsAssumption DEF IInv, TypeOK
    <3> QED BY <1>1, <3>1
  <2> QED BY <1>1, <2>1 DEF IInv, TypeOK
<1>3. PagesInTurn' /\ Used' /\ Resumes' /\ Complete' /\ Asks' /\ Covered'
  BY <1>1 DEF IInv, PagesInTurn, Used, Resumes, Complete, Asks, Covered, UnderWay
<1>4. Pending'
  BY <1>1 DEF IInv, Pending, UnderWay, Due, Told
<1> QED BY <1>2, <1>3, <1>4 DEF IInv

\* The page that is appended is the next one, and the new cursor stands for the one after
\* it; who is not in the new cursor is at his end, or is told of, or was not in the old one.
LEMMA RespondStep == IInv /\ Respond => IInv'
<1> SUFFICES ASSUME IInv, Respond PROVE IInv'
  OBVIOUS
<1>1. /\ phase = "fanout" /\ \A a \in ToSet(targets) : job[a] \in {"ok", "failed"}
      /\ next' = NextCursor
      /\ shown' = [a \in Account |-> IF job[a] = "ok" THEN Append(shown[a], got[a]) ELSE shown[a]]
      /\ reported' = reported \cup {a \in ToSet(targets) : job[a] = "failed"}
      /\ phase' = IF NextCursor = EmptyCursor THEN "over" ELSE "read"
      /\ job' = [a \in Account |-> "none"] /\ got' = [a \in Account |-> NoPage]
      /\ resume' = EmptyCursor
      /\ UNCHANGED <<connected, ever, only, targets, cut, lost>>
  BY DEF Respond, AllDone, EndRequest
<1>2. /\ shown \in [Account -> Seq(Nat)] /\ got \in [Account -> Nat]
      /\ ToSet(targets) \subseteq Account /\ job \in [Account -> Job]
      /\ pagesOf \in [Account -> Nat]
  BY ToSetOfSeq, PagesAssumption DEF IInv, TypeOK
<1>3. \A a \in Account :
        job[a] = "ok" => /\ a \in ToSet(targets)
                         /\ got[a] = Len(shown[a]) + 1 /\ got[a] <= pagesOf[a]
  BY <1>1, AsksNext DEF IInv, Asks
<1>4. \A a \in Account : NextCursor[a] = IF a \in ToSet(targets) THEN TokenAfter(a) ELSE NoPage
  BY DEF NextCursor
<1>5. NextCursor \in Cursor
  <2>1. \A a \in Account : TokenAfter(a) \in Nat
    BY <1>2 DEF TokenAfter, NoPage
  <2> QED BY <2>1 DEF NextCursor, Cursor, NoPage
<1>6. shown' \in [Account -> Seq(Nat)]
  BY <1>1, <1>2
<1>7. TypeOK'
  <2>1. reported' \subseteq Account
    BY <1>1, <1>2 DEF IInv, TypeOK
  <2>2. job' \in [Account -> Job] /\ got' \in [Account -> Nat]
    BY <1>1 DEF Job, NoPage
  <2>3. next' \in Cursor /\ resume' \in Cursor /\ phase' \in {"over", "read"}
    BY <1>1, <1>5, Empty
  <2> QED BY <1>1, <1>6, <2>1, <2>2, <2>3 DEF IInv, TypeOK
<1>8. PagesInTurn'
  <2> SUFFICES ASSUME NEW a \in Account
               PROVE  /\ \A k \in 1..Len(shown'[a]) : shown'[a][k] = k
                      /\ next'[a] # NoPage => next'[a] = Len(shown'[a]) + 1 /\ next'[a] <= pagesOf[a]
    BY DEF PagesInTurn
  <2>1. \A k \in 1..Len(shown[a]) : shown[a][k] = k
    BY DEF IInv, PagesInTurn
  <2>2. CASE job[a] = "ok"
    <3>1. shown'[a] = Append(shown[a], got[a]) /\ shown[a] \in Seq(Nat) /\ got[a] \in Nat
      BY <1>1, <1>2, <2>2
    <3>2. got[a] = Len(shown[a]) + 1 /\ got[a] <= pagesOf[a] /\ pagesOf[a] \in Nat
      BY <1>2, <1>3, <2>2
    <3>3. Len(shown'[a]) = got[a] /\ \A k \in 1..Len(shown'[a]) : shown'[a][k] = k
      BY <2>1, <3>1, <3>2
    <3>4. next'[a] # NoPage => got[a] < pagesOf[a] /\ next'[a] = got[a] + 1
      BY <1>1, <1>4 DEF TokenAfter
    <3> QED BY <3>1, <3>2, <3>3, <3>4
  <2>3. CASE job[a] # "ok"
    <3>1. shown'[a] = shown[a] /\ next'[a] = NoPage
      BY <1>1, <1>4, <2>3 DEF TokenAfter
    <3> QED BY <2>1, <3>1
  <2> QED BY <2>2, <2>3
<1>9. ASSUME NEW a \in Account, Due(a)
      PROVE  Told(a)' \/ next'[a] # NoPage
  <2>1. CASE job[a] = "ok"
    <3>1. shown'[a] = Append(shown[a], got[a]) /\ shown[a] \in Seq(Nat) /\ got[a] \in Nat
      BY <1>1, <1>2, <2>1
    <3>2. /\ a \in ToSet(targets) /\ got[a] = Len(shown[a]) + 1
          /\ got[a] <= pagesOf[a] /\ pagesOf[a] \in Nat
      BY <1>2, <1>3, <2>1
    <3>3. Len(shown'[a]) = got[a]
      BY <3>1, <3>2
    <3>4. CASE got[a] = pagesOf[a]
      BY <3>3, <3>4 DEF Told
    <3>5. CASE got[a] < pagesOf[a]
      <4>1. next'[a] = got[a] + 1
        BY <1>1, <1>4, <2>1, <3>2, <3>5 DEF TokenAfter
      <4> QED BY <3>1, <4>1 DEF NoPage
    <3> QED BY <3>1, <3>2, <3>4, <3>5
  <2>2. CASE job[a] # "ok" /\ a \in ToSet(targets)
    BY <1>1, <2>2 DEF Told
  <2>3. CASE a \notin ToSet(targets)
    <3>1. shown'[a] = shown[a]
      BY <1>1, <1>3, <2>3
    <3>2. Told(a) \/ a \in cut
      BY <1>1, <1>9, <2>3 DEF IInv, Pending, Covered, UnderWay
    <3> QED BY <1>1, <3>1, <3>2 DEF Told
  <2> QED BY <2>1, <2>2, <2>3
<1>10. Pending' /\ Complete'
  <2>1. \A a \in Account : Due(a)' => Due(a)
    BY <1>1 DEF Due
  <2>2. phase' = "over" => \A a \in Account : next'[a] = NoPage
    BY <1>1, Empty
  <2> QED BY <1>9, <2>1, <2>2 DEF Pending, Complete
<1>11. Used' /\ Resumes' /\ Asks' /\ Covered'
  BY <1>1 DEF IInv, Used, Resumes, Asks, Covered, UnderWay
<1> QED BY <1>7, <1>8, <1>10, <1>11 DEF IInv

-----------------------------------------------------------------------------
(* Meanwhile.                                                              *)

\* What the other requests do to the accounts makes nobody due.
LEMMA AccountsStep ==
  ASSUME IInv, UNCHANGED <<only, phase, server, client, lost>>,
         connected' \in Seq(Account), IsInjective(connected'),
         ever' \subseteq Account, ever \subseteq ever', ToSet(connected') \subseteq ever',
         ToSet(Cards) \cap ToSet(connected') \subseteq ToSet(connected)
  PROVE  IInv'
<1>1. UNCHANGED <<resume, targets, job, got, cut, next, shown, reported>>
  BY DEF server, client
<1>2. TypeOK'
  BY <1>1 DEF IInv, TypeOK
<1>3. PagesInTurn' /\ Used' /\ Resumes'
  BY <1>1 DEF IInv, PagesInTurn, Used, Resumes, UnderWay
<1>4. Asks'
  BY <1>1 DEF IInv, Asks, PageAsked
<1>5. \A a \in Account : Due(a)' => Due(a)
  BY DEF Due
<1>6. Pending' /\ Covered' /\ Complete'
  BY <1>1, <1>5 DEF IInv, Pending, Covered, Complete, UnderWay, Told
<1> QED BY <1>2, <1>3, <1>4, <1>6 DEF IInv

LEMMA RemoveAtProperties ==
  \A S : \A s \in Seq(S) : \A k \in 1..Len(s) :
    /\ RemoveAt(s, k) \in Seq(S)
    /\ Len(RemoveAt(s, k)) = Len(s) - 1
    /\ \A i \in 1..(Len(s) - 1) : RemoveAt(s, k)[i] = IF i < k THEN s[i] ELSE s[i + 1]
<1> SUFFICES ASSUME NEW S, NEW s \in Seq(S), NEW k \in 1..Len(s)
             PROVE  /\ RemoveAt(s, k) \in Seq(S)
                    /\ Len(RemoveAt(s, k)) = Len(s) - 1
                    /\ \A i \in 1..(Len(s) - 1) :
                         RemoveAt(s, k)[i] = IF i < k THEN s[i] ELSE s[i + 1]
  OBVIOUS
<1> DEFINE t == SubSeq(s, 1, k - 1)
           u == SubSeq(s, k + 1, Len(s))
<1>1. Len(s) \in Nat /\ k \in Nat /\ 1 <= k /\ k <= Len(s) /\ \A i \in 1..Len(s) : s[i] \in S
  BY LenProperties
<1>2. t \in Seq(S) /\ Len(t) = k - 1 /\ \A i \in 1..(k - 1) : t[i] = s[i]
  BY <1>1, SubSeqProperties
<1>3. u \in Seq(S) /\ Len(u) = Len(s) - k /\ \A i \in 1..(Len(s) - k) : u[i] = s[k + i]
  BY <1>1, SubSeqProperties
<1> HIDE DEF t, u
<1>4. /\ t \o u \in Seq(S) /\ Len(t \o u) = Len(t) + Len(u)
      /\ \A i \in 1..(Len(t) + Len(u)) : (t \o u)[i] = IF i <= Len(t) THEN t[i] ELSE u[i - Len(t)]
  BY <1>2, <1>3, ConcatProperties
<1>5. RemoveAt(s, k) = t \o u
  BY DEF RemoveAt, t, u
<1>6. ASSUME NEW i \in 1..(Len(s) - 1)
      PROVE  (t \o u)[i] = IF i < k THEN s[i] ELSE s[i + 1]
  <2>1. CASE i < k
    BY <1>1, <1>2, <1>3, <1>4, <2>1
  <2>2. CASE ~(i < k)
    <3>1. (t \o u)[i] = u[i - (k - 1)]
      BY <1>1, <1>2, <1>3, <1>4, <2>2
    <3>2. u[i - (k - 1)] = s[k + (i - (k - 1))]
      BY <1>1, <1>3, <2>2
    <3>3. k + (i - (k - 1)) = i + 1
      BY <1>1
    <3> QED BY <2>2, <3>1, <3>2, <3>3
  <2> QED BY <2>1, <2>2
<1> QED BY <1>1, <1>2, <1>3, <1>4, <1>5, <1>6

LEMMA DisconnectStep == \A a \in Account : IInv /\ Disconnect(a) => IInv'
<1> SUFFICES ASSUME NEW a \in Account, IInv, Disconnect(a) PROVE IInv'
  OBVIOUS
<1>1. UNCHANGED <<ever, only, phase, server, client, lost>>
  BY DEF Disconnect
<1>2. PICK k \in DOMAIN connected : connected' = RemoveAt(connected, k)
  BY DEF Disconnect
<1>3. connected \in Seq(Account) /\ DOMAIN connected = 1..Len(connected) /\ Len(connected) \in Nat
  BY LenProperties DEF IInv, TypeOK
<1>4. /\ connected' \in Seq(Account)
      /\ Len(connected') = Len(connected) - 1
      /\ \A i \in 1..(Len(connected) - 1) :
           connected'[i] = IF i < k THEN connected[i] ELSE connected[i + 1]
  BY <1>2, <1>3, RemoveAtProperties
<1>5. DOMAIN connected' = 1..(Len(connected) - 1)
  BY <1>4, LenProperties
<1>6. IsInjective(connected')
  <2> SUFFICES ASSUME NEW i \in 1..(Len(connected) - 1), NEW j \in 1..(Len(connected) - 1),
                      connected'[i] = connected'[j]
               PROVE  i = j
    BY <1>5 DEF IsInjective
  <2>1. \A x, y \in 1..Len(connected) : connected[x] = connected[y] => x = y
    BY <1>3 DEF IInv, TypeOK, IsInjective
  <2> DEFINE Old(x) == IF x < k THEN x ELSE x + 1
  <2>2. /\ Old(i) \in 1..Len(connected) /\ Old(j) \in 1..Len(connected)
        /\ connected'[i] = connected[Old(i)] /\ connected'[j] = connected[Old(j)]
    BY <1>3, <1>4
  <2>3. Old(i) = Old(j)
    BY <2>1, <2>2
  <2> QED BY <1>3, <2>3
<1>7. ToSet(connected') \subseteq ToSet(connected)
  BY <1>3, <1>4, <1>5 DEF ToSet
<1> QED BY <1>1, <1>4, <1>6, <1>7, AccountsStep DEF IInv, TypeOK, Used

LEMMA ConnectStep == \A a \in Account : IInv /\ Connect(a) => IInv'
<1> SUFFICES ASSUME NEW a \in Account, IInv, Connect(a) PROVE IInv'
  OBVIOUS
<1>1. /\ a \notin ever /\ ever' = ever \cup {a} /\ connected' = Append(connected, a)
      /\ UNCHANGED <<only, phase, server, client, lost>>
  BY DEF Connect
<1>2. connected \in Seq(Account) /\ DOMAIN connected = 1..Len(connected) /\ Len(connected) \in Nat
  BY LenProperties DEF IInv, TypeOK
<1>3. /\ connected' \in Seq(Account) /\ Len(connected') = Len(connected) + 1
      /\ connected'[Len(connected) + 1] = a
      /\ \A i \in 1..Len(connected) : connected'[i] = connected[i]
  BY <1>1, <1>2
<1>4. DOMAIN connected' = 1..(Len(connected) + 1)
  BY <1>3, LenProperties
<1>5. ToSet(connected') \subseteq ToSet(connected) \cup {a}
  BY <1>2, <1>3, <1>4 DEF ToSet
<1>6. \A i \in 1..Len(connected) : connected[i] # a
  BY <1>1, <1>2 DEF IInv, Used, ToSet
<1>7. IsInjective(connected')
  <2> SUFFICES ASSUME NEW i \in 1..(Len(connected) + 1), NEW j \in 1..(Len(connected) + 1),
                      connected'[i] = connected'[j]
               PROVE  i = j
    BY <1>4 DEF IsInjective
  <2>1. \A x, y \in 1..Len(connected) : connected[x] = connected[y] => x = y
    BY <1>2 DEF IInv, TypeOK, IsInjective
  <2> QED BY <1>2, <1>3, <1>6, <2>1
<1>8. ToSet(Cards) \cap ToSet(connected') \subseteq ToSet(connected)
  BY <1>1, <1>5 DEF IInv, Used
<1>9. ever' \subseteq Account /\ ToSet(connected') \subseteq ever'
  BY <1>1, <1>5 DEF IInv, Used, TypeOK
<1> QED BY <1>1, <1>3, <1>7, <1>8, <1>9, AccountsStep

LEMMA QuietStep == IInv /\ UNCHANGED vars => IInv'
<1> SUFFICES ASSUME IInv, UNCHANGED vars PROVE IInv'
  OBVIOUS
<1>1. UNCHANGED <<connected, ever, only, phase, server, client, lost>>
  BY DEF vars
<1> QED BY <1>1, AccountsStep DEF IInv, TypeOK, Used

-----------------------------------------------------------------------------
(* What follows.                                                           *)

LEMMA Step == IInv /\ [Next]_vars => IInv'
BY OpenStep, LoadMoreStep, NothingToListStep, FanOutStep, GoroutineStep, RespondStep, LoseStep,
   DisconnectStep, ConnectStep, QuietStep DEF Next

\* The inductive invariant: the cursor knows where each walk is.
THEOREM Invariance == Spec => []IInv
BY InitIInv, Step, PTL DEF Spec

\* Every variable keeps its type; in particular no account is displayed twice.
THEOREM TypeCorrect == Spec => []TypeOK
<1>1. IInv => TypeOK
  BY DEF IInv
<1> QED BY <1>1, Invariance, PTL

\* A walk shows the pages of each Drive one after the other, none twice and none left out,
\* whatever fails, is lost or is asked for again (cursor.go, useFiles of files.ts).
THEOREM InTurn == Spec => []PagesInTurn
<1>1. IInv => PagesInTurn
  BY DEF IInv
<1> QED BY <1>1, Invariance, PTL

\* What a finished walk has not shown of the accounts it began with, it has told of: a
\* failed account is in Failures and never just absent (List of service.go).
THEOREM NothingMissing == Spec => []NothingMissingInSilence
<1>1. IInv => NothingMissingInSilence
  BY CompleteIsNothingMissing DEF IInv
<1> QED BY <1>1, Invariance, PTL

-----------------------------------------------------------------------------
(* The listing of a folder.                                                *)

LEMMA FolderStep == [BNext]_bvars => [Next]_vars
BY DEF BNext, bvars, BOpen, BFanOut, BRespond, BLose, Walk, LaunchWalk, WalkRow, WalkUp, Next

\* A listing of a folder keeps what every listing promises.
THEOREM InFolders == BSpec => [](PagesInTurn /\ NothingMissingInSilence)
<1>1. BInit => Init
  BY DEF BInit
<1>2. IInv => PagesInTurn /\ NothingMissingInSilence
  BY CompleteIsNothingMissing DEF IInv
<1> QED BY <1>1, <1>2, FolderStep, InitIInv, Step, PTL DEF BSpec

Node == Folder \cup {RootAlias, Top, NoFolder}

\* A path in the making: it begins at the open folder, and names none twice.
Climbs(s) ==
  /\ s \in Seq(Node) /\ IsInjective(s) /\ Len(s) <= MaxPathDepth
  /\ s # <<>> => s[1] = open

WalkInv ==
  /\ open \in Node /\ current \in Node
  /\ Climbs(reversed)
  /\ Walking /\ reversed = <<>> => current = open
  /\ phase # "fanout" => crumbs = "none" /\ reversed = <<>>

LEMMA Depth == MaxPathDepth \in Nat /\ 1 <= MaxPathDepth
BY DepthAssumption

LEMMA EmptyClimbs == \A s : s = <<>> => s \in Seq(Node) /\ IsInjective(s) /\ Len(s) <= MaxPathDepth
BY Depth DEF IsInjective

LEMMA WalkInit == BInit => WalkInv /\ PathWellFormed
<1> SUFFICES ASSUME BInit PROVE WalkInv /\ PathWellFormed
  OBVIOUS
<1>1. Climbs(reversed)
  BY EmptyClimbs DEF BInit, Climbs
<1> QED BY <1>1 DEF BInit, Init, WalkInv, PathWellFormed, Walking, Node

LEMMA WalkUpStep == WalkInv /\ WalkUp => WalkInv'
<1> SUFFICES ASSUME WalkInv, WalkUp PROVE WalkInv'
  OBVIOUS
<1>1. crumbs = "call" /\ UNCHANGED <<phase, open>> /\ phase = "fanout"
  BY DEF WalkUp, vars, WalkInv
<1>2. CASE End(FALSE) /\ UNCHANGED <<current, reversed>>
  BY <1>1, <1>2 DEF WalkInv, Climbs, End, Walking
<1>3. CASE End(TRUE) /\ UNCHANGED <<current, reversed>>
  BY <1>1, <1>3 DEF WalkInv, Climbs, End, Walking
<1>4. CASE /\ GoesOn
           /\ reversed' = Append(reversed, current)
           /\ current' \in Folder \cup {Top}
  <2>1. reversed \in Seq(Node) /\ current \in Node /\ Len(reversed) < MaxPathDepth
    BY <1>4 DEF WalkInv, Climbs, GoesOn
  <2>2. /\ reversed' \in Seq(Node) /\ Len(reversed') = Len(reversed) + 1
        /\ reversed'[Len(reversed) + 1] = current
        /\ \A i \in 1..Len(reversed) : reversed'[i] = reversed[i]
        /\ DOMAIN reversed = 1..Len(reversed) /\ Len(reversed) \in Nat
    BY <1>4, <2>1, LenProperties
  <2>3. DOMAIN reversed' = 1..(Len(reversed) + 1)
    BY <2>2, LenProperties
  <2>4. \A i \in 1..Len(reversed) : reversed[i] # current
    BY <1>4, <2>2 DEF GoesOn, ToSet
  <2>5. IsInjective(reversed')
    <3> SUFFICES ASSUME NEW i \in 1..(Len(reversed) + 1), NEW j \in 1..(Len(reversed) + 1),
                        reversed'[i] = reversed'[j]
                 PROVE  i = j
      BY <2>3 DEF IsInjective
    <3>1. \A x, y \in 1..Len(reversed) : reversed[x] = reversed[y] => x = y
      BY <2>2 DEF WalkInv, Climbs, IsInjective
    <3> QED BY <2>2, <2>4, <3>1
  <2>6. Len(reversed') <= MaxPathDepth
    BY <2>1, <2>2, Depth
  <2>7. reversed'[1] = open /\ reversed' # <<>>
    <3>1. CASE reversed = <<>>
      <4>1. current = open
        BY <1>1, <3>1 DEF WalkInv, Walking
      <4>2. Len(reversed) = 0
        BY <3>1
      <4> QED BY <2>2, <4>1, <4>2
    <3>2. CASE reversed # <<>>
      <4>1. reversed[1] = open
        BY <3>2 DEF WalkInv, Climbs
      <4>2. 1 \in 1..Len(reversed)
        BY <2>1, <2>2, <3>2, EmptySeq
      <4> QED BY <2>2, <4>1, <4>2
    <3> QED BY <3>1, <3>2
  <2>8. Climbs(reversed)'
    BY <1>1, <2>2, <2>5, <2>6, <2>7 DEF Climbs
  <2>9. open' \in Node /\ current' \in Node
    BY <1>1, <1>4 DEF WalkInv, Node
  <2> QED BY <1>1, <2>7, <2>8, <2>9 DEF WalkInv
<1> QED BY <1>2, <1>3, <1>4 DEF WalkUp

LEMMA WalkStep == WalkInv /\ [BNext]_bvars => WalkInv'
<1> SUFFICES ASSUME WalkInv, [BNext]_bvars PROVE WalkInv'
  OBVIOUS
<1>1. ASSUME NEW f, NEW g \in Opened \cup {NoFolder}, BOpen(f, g) PROVE WalkInv'
  <2>1. phase # "fanout" /\ phase' = "rows" /\ open' = g /\ UNCHANGED <<crumbs, current, reversed, broken>>
    BY <1>1 DEF BOpen, Open, walk
  <2>2. g \in Node
    BY OpenedAssumption DEF Node
  <2> QED BY <2>1, <2>2 DEF WalkInv, Climbs, Walking
<1>2. CASE BFanOut
  <2>1. /\ phase = "rows" /\ phase' = "fanout" /\ current' = open
        /\ UNCHANGED <<reversed, open>>
    BY <1>2 DEF BFanOut, FanOut
  <2> QED BY <2>1 DEF WalkInv, Climbs
<1>3. CASE BRespond \/ BLose
  <2>1. /\ crumbs' = "none" /\ current' = NoFolder /\ reversed' = <<>> /\ open' = open
    BY <1>3 DEF BRespond, BLose, Forget
  <2>2. Climbs(reversed)'
    BY <2>1, EmptyClimbs DEF Climbs
  <2> QED BY <2>1, <2>2 DEF WalkInv, Walking, Node
<1>4. CASE (LoadMore \/ NothingToList) /\ Beside
  BY <1>4 DEF LoadMore, NothingToList, Beside, walk, WalkInv, Climbs, Walking
<1>5. ASSUME NEW a \in Account, (Goroutine(a) \/ Disconnect(a) \/ Connect(a)) /\ Beside
      PROVE WalkInv'
  BY <1>5 DEF Goroutine, Launch, ReadRow, ListFiles, Disconnect, Connect, Beside, walk,
              WalkInv, Climbs, Walking
<1>6. CASE LaunchWalk \/ WalkRow
  BY <1>6 DEF LaunchWalk, WalkRow, End, vars, WalkInv, Climbs, Walking
<1>7. CASE WalkUp
  BY <1>7, WalkUpStep
<1>8. CASE UNCHANGED bvars
  BY <1>8 DEF bvars, vars, walk, WalkInv, Climbs, Walking
<1> QED BY <1>1, <1>2, <1>3, <1>4, <1>5, <1>6, <1>7, <1>8 DEF BNext, Walk

LEMMA ReverseClimbs ==
  \A s : Climbs(s) /\ s # <<>> =>
    IsInjective(Reverse(s)) /\ Last(Reverse(s)) = open /\ Len(Reverse(s)) <= MaxPathDepth
<1> SUFFICES ASSUME NEW s, Climbs(s), s # <<>>
             PROVE  IsInjective(Reverse(s)) /\ Last(Reverse(s)) = open /\ Len(Reverse(s)) <= MaxPathDepth
  OBVIOUS
<1>1. s \in Seq(Node) /\ Len(s) \in Nat /\ DOMAIN s = 1..Len(s) /\ 1 <= Len(s)
  BY LenProperties, EmptySeq DEF Climbs
<1> DEFINE r == Reverse(s)
<1>2. r = [i \in 1..Len(s) |-> s[(Len(s) - i) + 1]]
  BY DEF Reverse
<1>3. r \in Seq(Node) /\ Len(r) = Len(s)
  BY <1>1, <1>2
<1>4. r[Len(s)] = s[1]
  BY <1>1, <1>2
<1>5. IsInjective(r)
  BY <1>1, <1>2 DEF IsInjective, Climbs
<1> QED BY <1>3, <1>4, <1>5 DEF Climbs, Last

LEMMA PathStep == WalkInv /\ PathWellFormed /\ [BNext]_bvars => PathWellFormed'
<1> SUFFICES ASSUME WalkInv, PathWellFormed, [BNext]_bvars, path' # <<>> PROVE PathWellFormed'
  BY DEF PathWellFormed
<1>1. CASE \E f \in Account \cup {Everything}, g \in Opened \cup {NoFolder} : BOpen(f, g)
  BY <1>1 DEF BOpen
<1>2. CASE BRespond
  <2>1. open' = open /\ (path' = Reverse(reversed) \/ path' = path)
    BY <1>2 DEF BRespond, PathOf
  <2>2. CASE path' = path
    BY <2>1, <2>2 DEF PathWellFormed
  <2>3. CASE path' = Reverse(reversed)
    <3>1. reversed # <<>>
      BY <2>3 DEF Reverse
    <3> QED BY <2>1, <2>3, <3>1, ReverseClimbs DEF WalkInv, PathWellFormed
  <2> QED BY <2>1, <2>2, <2>3
<1>3. CASE UNCHANGED <<open, path>>
  BY <1>3 DEF PathWellFormed
<1> QED BY <1>1, <1>2, <1>3
        DEF BNext, BFanOut, BLose, Walk, LaunchWalk, WalkRow, WalkUp, Beside, bvars

\* The path of a folder is one, however folders are moved about while it is walked: it
\* ends at the folder, names none twice and keeps to maxPathDepth (ResolvePath).
THEOREM Paths == BSpec => []PathWellFormed
BY WalkInit, WalkStep, PathStep, PTL DEF BSpec

=============================================================================

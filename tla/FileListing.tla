----------------------------- MODULE FileListing -----------------------------
(***************************************************************************)
(* A client walking through the files of several Drives, page by page      *)
(* (List of internal/files/service.go, internal/files/cursor.go, and the   *)
(* infinite query of apps/web/lib/files.ts).                               *)
(*                                                                         *)
(* Each request fans out over the accounts: goroutines, at most            *)
(* Concurrency at a time, each fetch the next page of one Drive.  What the *)
(* client must send back to go on is a cursor, one Google page token for   *)
(* each account that has more.  Meanwhile accounts are disconnected and    *)
(* connected, calls fail, and answers are lost on their way to the client, *)
(* which then asks for the same page again.                                *)
(*                                                                         *)
(* A page token is the number of the page it stands for, a merged page the *)
(* set of accounts and page numbers it is made of; the order of its files  *)
(* is FileOrder's.  A listing of one folder is Breadcrumbs'.               *)
(***************************************************************************)
EXTENDS Integers, Sequences, SequencesExt, FiniteSets

CONSTANTS
  Account,      \* account ids
  Cards,        \* the accounts connected at first, in display order
  pagesOf,      \* [Account -> Nat]: how many pages Google has of each Drive
  Concurrency,  \* width of the fan-out
  MaxTargets,   \* maxAccountsPerListing
  MaxLost,      \* bound on answers lost
  Everything    \* the account filter of a merged listing

ASSUME CardsAssumption == Cards \in Seq(Account) /\ IsInjective(Cards)
ASSUME PagesAssumption == pagesOf \in [Account -> Nat \ {0}]
ASSUME BoundsAssumption == Concurrency \in Nat \ {0} /\ MaxTargets \in Nat \ {0} /\ MaxLost \in Nat
ASSUME FilterAssumption == Everything \notin Account

\* The token of no page at all: Google sends none after the last page, and a cursor has
\* none for an account that is not in it.
NoPage == 0

Cursor == [Account -> Nat]
EmptyCursor == [a \in Account |-> NoPage]

VARIABLES
  connected,  \* the connected accounts, in display order
  ever,       \* account ids ever used
  only,       \* the account filter of the walk
  phase,      \* "idle", "rows", "fanout", "read" or "over"
  resume,     \* the cursor the request carries
  targets,    \* the accounts the request fans out over
  job,        \* what the goroutine of each account is at
  got,        \* the page it fetched, NoPage while there is none
  next,       \* the client: the cursor of the last answer it read
  shown,      \* the client: the pages of each account it has shown, in order
  reported,   \* the client: accounts whose failure an answer of this walk told of
  cut,        \* accounts the walk left out for want of room
  lost        \* answers lost so far

server == <<resume, targets, job, got, cut>>
client == <<next, shown, reported>>
vars == <<connected, ever, only, phase, server, client, lost>>

Job == {"none", "queued", "row", "call", "ok", "failed"}

TypeOK ==
  /\ connected \in Seq(Account) /\ IsInjective(connected)
  /\ ever \subseteq Account
  /\ only \in Account \cup {Everything}
  /\ phase \in {"idle", "rows", "fanout", "read", "over"}
  /\ resume \in Cursor /\ next \in Cursor
  /\ targets \in Seq(Account)
  /\ job \in [Account -> Job]
  /\ got \in [Account -> Nat]
  /\ shown \in [Account -> Seq(Nat)]
  /\ reported \subseteq Account /\ cut \subseteq Account
  /\ lost \in 0..MaxLost

Init ==
  /\ connected = Cards
  /\ ever = ToSet(Cards)
  /\ only = Everything
  /\ phase = "idle"
  /\ resume = EmptyCursor /\ next = EmptyCursor
  /\ targets = <<>>
  /\ job = [a \in Account |-> "none"]
  /\ got = [a \in Account |-> NoPage]
  /\ shown = [a \in Account |-> <<>>]
  /\ reported = {} /\ cut = {}
  /\ lost = 0

-----------------------------------------------------------------------------
(* The client opens a listing, or asks for the page its cursor stands for. *)

Open(filter) ==
  /\ phase \in {"idle", "read", "over"}
  /\ only' = filter
  /\ resume' = EmptyCursor /\ next' = EmptyCursor
  /\ shown' = [a \in Account |-> <<>>]
  /\ reported' = {} /\ cut' = {}
  /\ phase' = "rows"
  /\ UNCHANGED <<connected, ever, targets, job, got, lost>>

LoadMore ==
  /\ phase = "read"
  /\ next # EmptyCursor
  /\ resume' = next
  /\ phase' = "rows"
  /\ UNCHANGED <<connected, ever, only, targets, job, got, cut, client, lost>>

-----------------------------------------------------------------------------
(* The server.                                                             *)

\* targets: the connected accounts the filter and the cursor let through ...
Wanted(a) == only \in {a, Everything} /\ (resume # EmptyCursor => resume[a] # NoPage)
Candidates == {a \in ToSet(connected) : Wanted(a)}

\* ... of which there are none, ...
NothingToList ==
  /\ phase = "rows"
  /\ Candidates = {}
  /\ next' = EmptyCursor
  /\ phase' = "over"
  /\ UNCHANGED <<connected, ever, only, server, shown, reported, lost>>

\* ... or which are queued for the goroutines in display order, up to the limit.
Place(a) == CHOOSE k \in DOMAIN connected : connected[k] = a
Listed == {s \in SetToSeqs(Candidates) : \A j, k \in DOMAIN s : j < k => Place(s[j]) < Place(s[k])}

FanOut ==
  /\ phase = "rows"
  /\ Candidates # {}
  /\ \E s \in Listed : targets' = SubSeq(s, 1, IF Len(s) > MaxTargets THEN MaxTargets ELSE Len(s))
  /\ cut' = cut \cup (Candidates \ ToSet(targets'))
  /\ job' = [a \in Account |-> IF a \in ToSet(targets') THEN "queued" ELSE "none"]
  /\ got' = [a \in Account |-> NoPage]
  /\ phase' = "fanout"
  /\ UNCHANGED <<connected, ever, only, resume, client, lost>>

Running == {a \in Account : job[a] \in {"row", "call"}}

\* group.Go starts them in order and blocks while Concurrency of them run.
Launch(a) ==
  /\ phase = "fanout"
  /\ job[a] = "queued"
  /\ \A k, l \in 1..Len(targets) : targets[l] = a /\ k < l => job[targets[k]] # "queued"
  /\ Cardinality(Running) < Concurrency
  /\ job' = [job EXCEPT ![a] = "row"]
  /\ UNCHANGED <<connected, ever, only, phase, resume, targets, got, cut, client, lost>>

\* Mutant: a goroutine whose account is gone does not end.
ReadRow_GoneHangs(a) ==
  /\ job[a] = "row"
  /\ a \in ToSet(connected)
  /\ job' = [job EXCEPT ![a] = "call"]
  /\ UNCHANGED <<connected, ever, only, phase, resume, targets, got, cut, client, lost>>

\* listOne: AccessTokenFor reads the row again, and may fail for reasons of its own ...
ReadRow(a) ==
  /\ job[a] = "row"
  /\ \/ a \in ToSet(connected) /\ job' = [job EXCEPT ![a] = "call"]
     \/ job' = [job EXCEPT ![a] = "failed"]
  /\ UNCHANGED <<connected, ever, only, phase, resume, targets, got, cut, client, lost>>

\* Mutant: always the first page.
PageAsked_NoToken(a) == 1

\* ... then Drive is asked for the page after the ones before.
PageAsked(a) == IF resume[a] = NoPage THEN 1 ELSE resume[a]

ListFiles(a) ==
  /\ job[a] = "call"
  /\ \/ job' = [job EXCEPT ![a] = "ok"] /\ got' = [got EXCEPT ![a] = PageAsked(a)]
     \/ job' = [job EXCEPT ![a] = "failed"] /\ UNCHANGED got
  /\ UNCHANGED <<connected, ever, only, phase, resume, targets, cut, client, lost>>

\* group.Wait returns once every goroutine has ended.
AllDone == phase = "fanout" /\ \A a \in ToSet(targets) : job[a] \in {"ok", "failed"}

\* Mutant: the last page is not asked for.
TokenAfter_LastDropped(a) ==
  IF job[a] = "ok" /\ got[a] + 1 < pagesOf[a] THEN got[a] + 1 ELSE NoPage

\* nextCursor: the accounts whose answer had a page token.
TokenAfter(a) == IF job[a] = "ok" /\ got[a] < pagesOf[a] THEN got[a] + 1 ELSE NoPage

NextCursor == [a \in Account |-> IF a \in ToSet(targets) THEN TokenAfter(a) ELSE NoPage]

\* The goroutines are gone with their request.
EndRequest ==
  /\ job' = [a \in Account |-> "none"]
  /\ got' = [a \in Account |-> NoPage]
  /\ resume' = EmptyCursor

\* The client reads the answer and shows its files after those it has.
Respond ==
  /\ AllDone
  /\ next' = NextCursor
  /\ shown' = [a \in Account |-> IF job[a] = "ok" THEN Append(shown[a], got[a]) ELSE shown[a]]
  /\ reported' = reported \cup {a \in ToSet(targets) : job[a] = "failed"}
  /\ phase' = IF NextCursor = EmptyCursor THEN "over" ELSE "read"
  /\ EndRequest
  /\ UNCHANGED <<connected, ever, only, targets, cut, lost>>

\* The answer is lost, or is an error as a whole: the client asks again.
Lose ==
  /\ AllDone
  /\ lost < MaxLost
  /\ lost' = lost + 1
  /\ phase' = "rows"
  /\ UNCHANGED <<connected, ever, only, server, client>>

-----------------------------------------------------------------------------
(* Meanwhile, in other requests.                                           *)

Disconnect(a) ==
  /\ \E k \in DOMAIN connected : connected[k] = a /\ connected' = RemoveAt(connected, k)
  /\ UNCHANGED <<ever, only, phase, server, client, lost>>

Connect(a) ==
  /\ a \notin ever
  /\ ever' = ever \cup {a}
  /\ connected' = Append(connected, a)
  /\ UNCHANGED <<only, phase, server, client, lost>>

Goroutine(a) == Launch(a) \/ ReadRow(a) \/ ListFiles(a)

Next ==
  \/ \E f \in Account \cup {Everything} : Open(f)
  \/ LoadMore
  \/ NothingToList \/ FanOut
  \/ \E a \in Account : Goroutine(a)
  \/ Respond \/ Lose
  \/ \E a \in Account : Disconnect(a) \/ Connect(a)

Spec == Init /\ [][Next]_vars

\* The server runs on, and every call to Google is bounded by DRIVE_TIMEOUT.
Fairness ==
  /\ WF_vars(NothingToList) /\ WF_vars(FanOut)
  /\ \A a \in Account : WF_vars(Goroutine(a))
  /\ WF_vars(Respond)

FairSpec == Spec /\ Fairness

-----------------------------------------------------------------------------
(* Properties                                                              *)

\* Of no Drive does a walk show a page twice, skip one or show one out of turn, and the
\* cursor asks only for the page after those shown and only if there is one, whatever is
\* disconnected, lost and asked for again.
PagesInTurn ==
  \A a \in Account :
    /\ \A k \in 1..Len(shown[a]) : shown[a][k] = k
    /\ next[a] # NoPage => next[a] = Len(shown[a]) + 1 /\ next[a] <= pagesOf[a]

\* When a walk is over, an account that was there from the start is shown to its last
\* page, unless an answer told of its failure, it was disconnected, or it was beyond
\* the limit of one listing: nothing goes missing in silence.
NothingMissingInSilence ==
  phase = "over" =>
    \A a \in ToSet(Cards) \cap ToSet(connected) :
      only \in {a, Everything} => \/ Len(shown[a]) = pagesOf[a]
                                  \/ a \in reported \cup cut

\* Every request is answered, or its answer is lost: the fan-out never waits for ever.
RequestAnswered == (phase = "fanout") ~> (phase # "fanout")

\* Listing: "NextPage is empty when every account has been exhausted"; cursor.go: "an
\* account missing from a non-empty cursor has no more pages".
EmptyMeansExhausted ==
  phase = "over" =>
    \A a \in ToSet(targets) : a \in ToSet(connected) => Len(shown[a]) = pagesOf[a]
=============================================================================

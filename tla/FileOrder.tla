------------------------------ MODULE FileOrder ------------------------------
(***************************************************************************)
(* The order of a page (internal/files/sort.go) and how it is made of the  *)
(* pages of several Drives (merge and the end of List in                   *)
(* internal/files/service.go).                                             *)
(*                                                                         *)
(* Names, times, sizes and addresses are numbers here, in the order Go     *)
(* compares them in: names in lower case, no size counts as 0.  Drive is   *)
(* taken to compare them alike.                                            *)
(***************************************************************************)
EXTENDS Integers, Sequences, FiniteSets, SequencesExt

CONSTANTS
  Name, Time, Size,
  Email,      \* of the accounts listed
  Id,
  MaxFiles    \* bound on the files of the page

ASSUME NumbersAssumption == Name \cup Time \cup Size \cup Email \cup Id \subseteq Int
ASSUME FilesAssumption == MaxFiles \in Nat /\ IsFiniteSet(Email)

Field == {"name", "modified_at", "size", "account_email"}
Sort == [field: Field, descending: BOOLEAN]

\* A file has an id in its Drive, and may show up in another under the same one.
FileView == [folder: BOOLEAN, name: Name, modified: Time, size: Size, email: Email, id: Id]

VARIABLES
  sort,    \* what the client asks for
  pages,   \* what each account's Drive answered, in display order
  listing  \* the page the client gets

order == <<sort, pages, listing>>

Key(field, v) ==
  CASE field = "modified_at" -> v.modified
    [] field = "size" -> v.size
    [] field = "account_email" -> v.email
    [] field = "name" -> v.name

\* Mutant: accounts are not told apart.
TieBreak_NoAccount(l, r) == l.name < r.name \/ (l.name = r.name /\ l.id < r.id)

TieBreak(l, r) ==
  \/ l.name < r.name
  \/ l.name = r.name /\ l.email < r.email
  \/ l.name = r.name /\ l.email = r.email /\ l.id < r.id

\* The comparison of sortFiles: folders lead, then the key, then the tie-breaks.
Less(s, l, r) ==
  \/ l.folder /\ ~r.folder
  \/ /\ l.folder = r.folder
     /\ \/ s.descending /\ Key(s.field, l) > Key(s.field, r)
        \/ ~s.descending /\ Key(s.field, l) < Key(s.field, r)
        \/ Key(s.field, l) = Key(s.field, r) /\ TieBreak(l, r)

\* sort.SliceStable: each view has as many before it as are less, or as little and earlier.
SortFiles(s, views) ==
  LET Before(j, k) == \/ Less(s, views[j], views[k])
                      \/ ~Less(s, views[k], views[j]) /\ j < k
      PlaceOf(k) == Cardinality({j \in DOMAIN views : Before(j, k)}) + 1
  IN  [n \in DOMAIN views |-> views[CHOOSE k \in DOMAIN views : PlaceOf(k) = n]]

\* driveOrderBy: Drive sorts by account as it does by name.  Its own tie-breaks are not
\* known.
DriveField(s) == IF s.field = "account_email" THEN "name" ELSE s.field

DriveOrdered(s, page) ==
  \A j, k \in DOMAIN page : j < k =>
    \/ page[j].folder /\ ~page[k].folder
    \/ /\ page[j].folder = page[k].folder
       /\ LET a == Key(DriveField(s), page[j])
              b == Key(DriveField(s), page[k])
          IN  IF s.descending THEN a >= b ELSE a <= b

PageOf(s, e, n) ==
  {p \in [1..n -> {v \in FileView : v.email = e}] :
     DriveOrdered(s, p) /\ \A j, k \in DOMAIN p : j # k => p[j].id # p[k].id}

\* The pages of some accounts, in their display order, so many files of each.
Pages(s, accounts, length) ==
  {ps \in [DOMAIN accounts -> UNION {PageOf(s, e, n) : e \in Email, n \in 0..MaxFiles}] :
     \A k \in DOMAIN accounts : ps[k] \in PageOf(s, accounts[k], length[k])}

OrderInit ==
  /\ sort \in Sort
  /\ \E accounts \in SetToAllKPermutations(Email) :
       \E length \in [DOMAIN accounts -> 0..MaxFiles] :
         /\ FoldFunction(+, 0, length) <= MaxFiles
         /\ pages \in Pages(sort, accounts, length)
  /\ listing = <<>>

\* merge and sortFiles, at the end of List.
MakeListing ==
  /\ listing = <<>>
  /\ listing' = SortFiles(sort, FlattenSeq(pages))
  /\ UNCHANGED <<sort, pages>>

OrderSpec == OrderInit /\ [][MakeListing]_order

-----------------------------------------------------------------------------
(* Properties                                                              *)

Tied(l, r) == l.folder = r.folder /\ Key(sort.field, l) = Key(sort.field, r)

\* A page reads as one list: nothing is lost or doubled in the merge, no two files are left
\* to chance, the order the accounts are in does not show, and wherever Drive can sort by
\* what was asked for, no two files of one Drive change places but those that tie.
ReadsAsOneList ==
  listing # <<>> =>
    /\ ToSet(listing) = UNION {ToSet(pages[k]) : k \in DOMAIN pages}
    /\ \A j, k \in DOMAIN listing : j < k => Less(sort, listing[j], listing[k])
    /\ listing = SortFiles(sort, FlattenSeq(Reverse(pages)))
    /\ sort.field # "account_email" =>
         \A k \in DOMAIN pages : \A m, n \in DOMAIN pages[k] :
           m < n /\ ~Tied(pages[k][m], pages[k][n]) =>
             \E i, j \in DOMAIN listing :
               i < j /\ listing[i] = pages[k][m] /\ listing[j] = pages[k][n]
=============================================================================

---------------------------- MODULE RateLimiting ----------------------------
(***************************************************************************)
(* The limiter in front of the API (RateLimit of                           *)
(* internal/httpx/middleware.go, mounted by registerRoutes of              *)
(* internal/server/server.go): fixed windows, counted per key in the       *)
(* memory of each server process.                                          *)
(*                                                                         *)
(* The middlewares of a request run in the order they were mounted: the    *)
(* limiter on the /api/v1 group, then requireSession on the groups in it.  *)
(* The key is computed from what the request has been given so far.        *)
(***************************************************************************)
EXTENDS Integers, Sequences, FiniteSets

CONSTANTS
  Server,   \* processes of the API
  Client,   \* browsers, with one request at a time each
  SignedIn, \* those that have a session
  Ip,
  Max,      \* RATE_LIMIT_MAX
  Window,   \* RATE_LIMIT_WINDOW, in ticks of the clock
  NoServer, NoIp

ASSUME LimitAssumption == {Max, Window} \subseteq Nat \ {0}
ASSUME SignedInAssumption == SignedIn \subseteq Client
ASSUME NullAssumption == NoServer \notin Server /\ NoIp \notin Ip

Key == ({"ip"} \X Ip) \cup ({"session"} \X Client)
Age == 0..(Window - 1)   \* ticks since

VARIABLES
  hits,    \* of each key, in its window, at each server; Max + 1 stands for more
  left,    \* how long the window of each key still lasts
  at,      \* the middleware each client's request is at
  by,      \* the server that has it
  from,    \* the address it came from
  local,   \* whether requireSession has put the session id into its locals
  passed   \* the ages of the requests each server has let through from each address

limiter == <<hits, left, passed>>
requests == <<at, by, from, local>>
rvars == <<limiter, requests>>

None == [k \in Key |-> 0]
NonePassed == [i \in Ip |-> <<>>]

RTypeOK ==
  /\ hits \in [Server -> [Key -> 0..(Max + 1)]]
  /\ left \in [Server -> [Key -> 0..Window]]
  /\ passed \in [Server -> [Ip -> Seq(Age)]]
  /\ at \in [Client -> {"idle", "limiter", "session", "handler"}]
  /\ by \in [Client -> Server \cup {NoServer}]
  /\ from \in [Client -> Ip \cup {NoIp}]
  /\ local \in [Client -> BOOLEAN]

RInit ==
  /\ hits = [s \in Server |-> None] /\ left = [s \in Server |-> None]
  /\ passed = [s \in Server |-> NonePassed]
  /\ at = [c \in Client |-> "idle"]
  /\ by = [c \in Client |-> NoServer] /\ from = [c \in Client |-> NoIp]
  /\ local = [c \in Client |-> FALSE]

Arrive(c, s, i) ==
  /\ at[c] = "idle"
  /\ at' = [at EXCEPT ![c] = "limiter"]
  /\ by' = [by EXCEPT ![c] = s]
  /\ from' = [from EXCEPT ![c] = i]
  /\ UNCHANGED <<limiter, local>>

\* A request ends, and its locals with it.
Answer(c) ==
  /\ at' = [at EXCEPT ![c] = "idle"]
  /\ by' = [by EXCEPT ![c] = NoServer]
  /\ from' = [from EXCEPT ![c] = NoIp]
  /\ local' = [local EXCEPT ![c] = FALSE]

\* KeyGenerator: by session if the locals name one, else by address.
KeyOf(c) == IF local[c] THEN <<"session", c>> ELSE <<"ip", from[c]>>

\* Mutant: refused one too late.
Over_Late(n) == n > Max + 1

Over(n) == n > Max

\* A window begins with its first request.
Limit(c) ==
  /\ at[c] = "limiter"
  /\ LET s == by[c]
         k == KeyOf(c)
         n == hits[s][k] + 1
     IN  /\ hits' = [hits EXCEPT ![s][k] = IF n > Max THEN Max + 1 ELSE n]
         /\ left' = [left EXCEPT ![s][k] = IF @ = 0 THEN Window ELSE @]
         /\ \/ Over(n) /\ Answer(c) /\ UNCHANGED passed
            \/ /\ ~Over(n)
               /\ at' = [at EXCEPT ![c] = "session"]
               /\ passed' = [passed EXCEPT ![s][from[c]] = Append(@, 0)]
               /\ UNCHANGED <<by, from, local>>

\* requireSession: resolving the session may also fail.
RequireSession(c) ==
  /\ at[c] = "session"
  /\ \/ Answer(c)
     \/ /\ c \in SignedIn
        /\ at' = [at EXCEPT ![c] = "handler"]
        /\ local' = [local EXCEPT ![c] = TRUE]
        /\ UNCHANGED <<by, from>>
  /\ UNCHANGED limiter

Handle(c) == at[c] = "handler" /\ Answer(c) /\ UNCHANGED limiter

\* Those of the last Window ticks, a tick later.  The first in the sequence are the oldest.
Older(ages) ==
  LET gone == Cardinality({k \in DOMAIN ages : ages[k] + 1 \notin Age})
  IN  [k \in 1..(Len(ages) - gone) |-> ages[k + gone] + 1]

\* The count starts again when the window has ended.
HitsAfterTick(s, k) == IF left[s][k] > 1 THEN hits[s][k] ELSE 0

Tick ==
  /\ hits' = [s \in Server |-> [k \in Key |-> HitsAfterTick(s, k)]]
  /\ left' = [s \in Server |-> [k \in Key |-> IF left[s][k] = 0 THEN 0 ELSE left[s][k] - 1]]
  /\ passed' = [s \in Server |-> [i \in Ip |-> Older(passed[s][i])]]
  /\ UNCHANGED requests

\* A server ends: its counters are gone, and the requests it has are broken off.
CutOff(s) ==
  /\ hits' = [hits EXCEPT ![s] = None]
  /\ left' = [left EXCEPT ![s] = None]
  /\ passed' = [passed EXCEPT ![s] = NonePassed]
  /\ at' = [c \in Client |-> IF by[c] = s THEN "idle" ELSE at[c]]
  /\ local' = [c \in Client |-> by[c] # s /\ local[c]]
  /\ by' = [c \in Client |-> IF by[c] = s THEN NoServer ELSE by[c]]
  /\ from' = [c \in Client |-> IF by[c] = s THEN NoIp ELSE from[c]]

Request(c) == Limit(c) \/ RequireSession(c) \/ Handle(c)

RNext ==
  \/ \E c \in Client : (\E s \in Server, i \in Ip : Arrive(c, s, i)) \/ Request(c)
  \/ Tick
  \/ \E s \in Server : CutOff(s)

RSpec == RInit /\ [][RNext]_rvars

-----------------------------------------------------------------------------
(* Properties                                                              *)

\* How many requests a server has let through from an address in the last Window ticks.
Recent(s, i) == Len(passed[s][i])

\* In no span as long as a window does one run of a server let more than twice the limit
\* through from one address: the burst at the border of two windows is the worst a fixed
\* window allows.  A restart allows another.
BurstBounded == \A s \in Server, i \in Ip : Recent(s, i) <= 2 * Max

\* docs/api.md: the limit is "keyed by session when authenticated".  What a browser with a
\* session asks is not counted against any address, which others may share.
SignedInKeyedBySession ==
  [][\A c \in SignedIn :
       at[c] = "limiter" /\ at'[c] # "limiter" =>
         \A i \in Ip : hits'[by[c]][<<"ip", i>>] <= hits[by[c]][<<"ip", i>>]]_rvars
=============================================================================

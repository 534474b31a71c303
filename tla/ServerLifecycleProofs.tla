------------------------ MODULE ServerLifecycleProofs ------------------------
(***************************************************************************)
(* What the migrations leave in the file, and what the limiter lets        *)
(* through, for any number of processes, of any versions, started, failing *)
(* and killed at any moment.                                               *)
(*                                                                         *)
(* The argument: a process never skips a migration (NothingSkipped), so    *)
(* what it is about to commit is at most the next one; the write lock and  *)
(* the primary key of schema_migrations see to it that it is not one of    *)
(* those already there (OneWriter, AboutToCommit).                         *)
(* The limiter: what it has counted is the end of what it has let through  *)
(* (Counted).                                                              *)
(***************************************************************************)
EXTENDS ServerLifecycle, FiniteSetTheorems, WellFoundedInduction, TLAPS

\* What has a type here; what the limiter counts has no part in it.
Types ==
  /\ schema \in Seq(Nat)
  /\ writer \in Server \cup {NoServer}
  /\ carries \in [Server -> Version \cup {0}]
  /\ stage \in [Server -> Stage]
  /\ step \in [Server -> Nat]
  /\ at \in [Client -> {"idle", "limiter", "session", "handler"}]
  /\ by \in [Client -> Server \cup {NoServer}]

NothingSkipped ==
  \A s \in Server : stage[s] \in {"check", "apply", "record", "commit"} =>
    1 <= step[s] /\ step[s] <= Len(schema) + 1

OneWriter == \A s \in Server : stage[s] \in {"record", "commit"} => writer = s

AboutToCommit == \A s \in Server : stage[s] = "commit" => step[s] \notin recorded

UpToDate ==
  \A s \in Server : stage[s] \in {"listen", "serve", "drain", "closed"} => carries[s] <= Len(schema)

Answering ==
  \A c \in Client : at[c] # "idle" => by[c] \in Server /\ stage[by[c]] \in {"serve", "drain", "closed"}

IInv ==
  /\ Types /\ SchemaInOrder
  /\ NothingSkipped /\ OneWriter /\ AboutToCommit /\ UpToDate /\ Answering

LEMMA InitIInv == Init => IInv
<1> SUFFICES ASSUME Init PROVE IInv
  OBVIOUS
<1>1. Types
  BY DEF Init, RInit, Types, Stage
<1>2. SchemaInOrder
  BY DEF Init, SchemaInOrder
<1>3. NothingSkipped /\ OneWriter /\ AboutToCommit /\ UpToDate /\ Answering
  BY DEF Init, RInit, NothingSkipped, OneWriter, AboutToCommit, UpToDate, Answering
<1> QED BY <1>1, <1>2, <1>3 DEF IInv

LEMMA Lengths == Types => Len(schema) \in Nat
BY DEF Types

LEMMA Versions == Types => \A s \in Server : carries[s] \in Nat
<1>1. \A v \in Version : v \in Nat
  BY VersionAssumption, Zenon
<1>2. \A v \in Version \cup {0} : v \in Nat
  BY <1>1
<1> QED BY <1>2 DEF Types

-----------------------------------------------------------------------------
(* Requests                                                                *)

\* What the file and the processes know is not touched by what requests do.
LEMMA RequestsOnly ==
  ASSUME IInv, UNCHANGED <<file, processes>>,
         at' \in [Client -> {"idle", "limiter", "session", "handler"}],
         by' \in [Client -> Server \cup {NoServer}],
         \A c \in Client : at'[c] # "idle" =>
           by'[c] \in Server /\ stage[by'[c]] \in {"serve", "drain", "closed"}
  PROVE  IInv'
<1>1. UNCHANGED <<schema, recorded, writer, carries, stage, step>>
  BY DEF file, processes
<1>2. Types'
  BY <1>1 DEF IInv, Types
<1>3. SchemaInOrder' /\ NothingSkipped' /\ OneWriter' /\ AboutToCommit' /\ UpToDate'
  BY <1>1 DEF IInv, SchemaInOrder, NothingSkipped, OneWriter, AboutToCommit, UpToDate
<1>4. Answering'
  BY <1>1 DEF Answering
<1> QED BY <1>2, <1>3, <1>4 DEF IInv

LEMMA ServeStep == IInv /\ Serve => IInv'
<1> SUFFICES ASSUME IInv, Serve PROVE IInv'
  OBVIOUS
<1>0. Types /\ Answering /\ UNCHANGED <<file, processes>>
  BY DEF IInv, Serve
<1>1. ASSUME NEW c \in Client, NEW s \in Server, NEW i \in Ip, stage[s] = "serve", Arrive(c, s, i)
      PROVE  IInv'
  <2>1. /\ at' = [at EXCEPT ![c] = "limiter"] /\ by' = [by EXCEPT ![c] = s]
    BY <1>1 DEF Arrive
  <2>2. /\ at' \in [Client -> {"idle", "limiter", "session", "handler"}]
        /\ by' \in [Client -> Server \cup {NoServer}]
    BY <1>0, <2>1 DEF Types
  <2>3. \A d \in Client : at'[d] # "idle" =>
          by'[d] \in Server /\ stage[by'[d]] \in {"serve", "drain", "closed"}
    BY <1>0, <1>1, <2>1 DEF Types, Answering
  <2> QED BY <1>0, <2>2, <2>3, RequestsOnly
<1>2. ASSUME NEW c \in Client, Request(c) PROVE IInv'
  <2>1. \/ /\ at[c] # "idle" /\ UNCHANGED by
           /\ \E x \in {"session", "handler"} : at' = [at EXCEPT ![c] = x]
        \/ at' = [at EXCEPT ![c] = "idle"] /\ by' = [by EXCEPT ![c] = NoServer]
    BY <1>2 DEF Request, Limit, RequireSession, Handle, Answer
  <2>2. /\ at' \in [Client -> {"idle", "limiter", "session", "handler"}]
        /\ by' \in [Client -> Server \cup {NoServer}]
    BY <1>0, <2>1 DEF Types
  <2>3. \A d \in Client : at'[d] # "idle" =>
          by'[d] \in Server /\ stage[by'[d]] \in {"serve", "drain", "closed"}
    BY <1>0, <2>1 DEF Types, Answering
  <2> QED BY <1>0, <2>2, <2>3, RequestsOnly
<1>3. ASSUME Tick PROVE IInv'
  <2>1. UNCHANGED <<at, by>>
    BY <1>3 DEF Tick, requests
  <2> QED BY <1>0, <2>1, RequestsOnly DEF Types, Answering
<1> QED BY <1>1, <1>2, <1>3 DEF Serve

-----------------------------------------------------------------------------
(* Processes                                                               *)

\* A process that goes down leaves the file as it is, and lets go of the lock and of its
\* requests.
LEMMA ExitStep == \A s \in Server : IInv /\ Exit(s) => IInv'
<1> SUFFICES ASSUME NEW s \in Server, IInv, Exit(s) PROVE IInv'
  OBVIOUS
<1>0. Types
  BY DEF IInv
<1>1. /\ stage' = [stage EXCEPT ![s] = "down"]
      /\ writer' = IF writer = s THEN NoServer ELSE writer
      /\ carries' = [carries EXCEPT ![s] = 0] /\ step' = [step EXCEPT ![s] = 0]
      /\ UNCHANGED <<schema, recorded>>
      /\ at' = [c \in Client |-> IF by[c] = s THEN "idle" ELSE at[c]]
      /\ by' = [c \in Client |-> IF by[c] = s THEN NoServer ELSE by[c]]
  BY DEF Exit, CutOff
<1>2. /\ stage'[s] = "down"
      /\ \A r \in Server : r # s => stage'[r] = stage[r] /\ step'[r] = step[r] /\ carries'[r] = carries[r]
  BY <1>0, <1>1 DEF Types
<1>3. Types'
  <2>1. /\ stage' \in [Server -> Stage] /\ step' \in [Server -> Nat]
        /\ carries' \in [Server -> Version \cup {0}]
    BY <1>0, <1>1 DEF Types, Stage
  <2>2. /\ at' \in [Client -> {"idle", "limiter", "session", "handler"}]
        /\ by' \in [Client -> Server \cup {NoServer}]
    BY <1>0, <1>1 DEF Types
  <2> QED BY <1>0, <1>1, <2>1, <2>2 DEF Types
<1>4. SchemaInOrder'
  BY <1>1 DEF IInv, SchemaInOrder
<1>5. NothingSkipped' /\ UpToDate' /\ AboutToCommit'
  BY <1>1, <1>2 DEF IInv, NothingSkipped, UpToDate, AboutToCommit
<1>6. OneWriter'
  BY <1>1, <1>2 DEF IInv, OneWriter
<1>7. Answering'
  <2> SUFFICES ASSUME NEW c \in Client, at'[c] # "idle"
               PROVE  by'[c] \in Server /\ stage'[by'[c]] \in {"serve", "drain", "closed"}
    BY DEF Answering
  <2>1. by[c] # s /\ at[c] # "idle" /\ by'[c] = by[c]
    BY <1>1
  <2> QED BY <1>2, <2>1 DEF IInv, Answering
<1> QED BY <1>3, <1>4, <1>5, <1>6, <1>7 DEF IInv

\* A process that goes on to x and n, the file being as it was but for the lock.
Goes(s, x, n) ==
  /\ stage' = [stage EXCEPT ![s] = x]
  /\ step' = [step EXCEPT ![s] = n]
  /\ UNCHANGED <<schema, recorded, carries, at, by>>
  /\ writer' = writer \/ (writer = NoServer /\ writer' = s)
  /\ x \in {"check", "apply", "record", "commit"} => 1 <= n /\ n <= Len(schema) + 1
  /\ x \in {"record", "commit"} => writer' = s
  /\ x = "commit" => n \notin recorded
  /\ x \in {"listen", "serve", "drain", "closed"} => carries[s] <= Len(schema)
  /\ stage[s] \in {"serve", "drain", "closed"} => x \in {"serve", "drain", "closed"}

LEMMA GoesStep == \A s \in Server, x \in Stage, n \in Nat : IInv /\ Goes(s, x, n) => IInv'
<1> SUFFICES ASSUME NEW s \in Server, NEW x \in Stage, NEW n \in Nat, IInv, Goes(s, x, n) PROVE IInv'
  OBVIOUS
<1>0. Types
  BY DEF IInv
<1>1. UNCHANGED <<schema, recorded, carries, at, by>>
  BY DEF Goes
<1>2. /\ stage'[s] = x /\ step'[s] = n
      /\ \A r \in Server : r # s => stage'[r] = stage[r] /\ step'[r] = step[r]
  BY <1>0 DEF Goes, Types
<1>3. Types'
  <2>1. stage' \in [Server -> Stage] /\ step' \in [Server -> Nat]
    BY <1>0 DEF Goes, Types
  <2>2. writer' \in Server \cup {NoServer}
    BY <1>0 DEF Goes, Types
  <2> QED BY <1>0, <1>1, <2>1, <2>2 DEF Types
<1>4. SchemaInOrder'
  BY <1>1 DEF IInv, SchemaInOrder
<1>5. NothingSkipped'
  BY <1>1, <1>2 DEF IInv, NothingSkipped, Goes
<1>6. OneWriter'
  <2> SUFFICES ASSUME NEW r \in Server, stage'[r] \in {"record", "commit"} PROVE writer' = r
    BY DEF OneWriter
  <2>1. CASE r = s
    BY <1>2, <2>1 DEF Goes
  <2>2. CASE r # s
    BY <1>2, <2>2, NullAssumption DEF IInv, OneWriter, Goes
  <2> QED BY <2>1, <2>2
<1>7. AboutToCommit'
  BY <1>1, <1>2 DEF IInv, AboutToCommit, Goes
<1>8. UpToDate'
  BY <1>1, <1>2 DEF IInv, UpToDate, Goes
<1>9. Answering'
  BY <1>1, <1>2 DEF IInv, Answering, Goes
<1> QED BY <1>3, <1>4, <1>5, <1>6, <1>7, <1>8, <1>9 DEF IInv

LEMMA StartStep == \A s \in Server : IInv /\ Start(s) => IInv'
<1> SUFFICES ASSUME NEW s \in Server, IInv, Start(s) PROVE IInv'
  OBVIOUS
<1>0. Types
  BY DEF IInv
<1>1. PICK v \in Version : carries' = [carries EXCEPT ![s] = v]
  BY DEF Start
<1>2. /\ stage[s] = "down"
      /\ stage' = [stage EXCEPT ![s] = "check"] /\ step' = [step EXCEPT ![s] = 1]
      /\ UNCHANGED <<schema, recorded, writer, at, by>>
  BY DEF Start, rvars, requests, file
<1>3. /\ stage'[s] = "check" /\ step'[s] = 1
      /\ \A r \in Server : r # s => stage'[r] = stage[r] /\ step'[r] = step[r] /\ carries'[r] = carries[r]
  BY <1>0, <1>1, <1>2 DEF Types
<1>4. Types'
  <2>1. stage' \in [Server -> Stage] /\ step' \in [Server -> Nat]
    BY <1>0, <1>2 DEF Types, Stage
  <2>2. carries' \in [Server -> Version \cup {0}]
    BY <1>0, <1>1 DEF Types
  <2> QED BY <1>0, <1>2, <2>1, <2>2 DEF Types
<1>5. SchemaInOrder' /\ OneWriter' /\ AboutToCommit'
  BY <1>2, <1>3 DEF IInv, SchemaInOrder, OneWriter, AboutToCommit
<1>6. NothingSkipped'
  <2>1. 1 <= 1 /\ 1 <= Len(schema) + 1
    BY <1>0, Lengths
  <2> QED BY <1>2, <1>3, <2>1 DEF IInv, NothingSkipped
<1>7. UpToDate' /\ Answering'
  BY <1>2, <1>3 DEF IInv, UpToDate, Answering
<1> QED BY <1>4, <1>5, <1>6, <1>7 DEF IInv

\* What is looked up is what has been applied.
LEMMA CheckStep == \A s \in Server : IInv /\ Check(s) => IInv'
<1> SUFFICES ASSUME NEW s \in Server, IInv, Check(s) PROVE IInv'
  OBVIOUS
<1>0. Types /\ Len(schema) \in Nat /\ step[s] \in Nat /\ carries[s] \in Nat
  BY Lengths, Versions DEF IInv, Types
<1>1. /\ stage[s] = "check"
      /\ UNCHANGED <<schema, recorded, writer, carries, at, by>>
  BY DEF Check, rvars, requests, file
<1>2. 1 <= step[s] /\ step[s] <= Len(schema) + 1
  BY <1>1 DEF IInv, NothingSkipped
<1>3. step[s] \in recorded <=> step[s] <= Len(schema)
  <2>1. recorded = 1..Len(schema)
    BY DEF IInv, SchemaInOrder
  <2> QED BY <1>0, <1>2, <2>1
<1>4. CASE stage' = [stage EXCEPT ![s] = "apply"] /\ UNCHANGED step
  <2>1. Goes(s, "apply", step[s])
    BY <1>0, <1>1, <1>2, <1>4 DEF Goes, Types
  <2> QED BY <1>0, <2>1, GoesStep DEF Stage
<1>5. CASE ~Outstanding(s) /\ step[s] < carries[s] /\ step' = [step EXCEPT ![s] = @ + 1] /\ UNCHANGED stage
  <2>1. step[s] <= Len(schema)
    BY <1>0, <1>3, <1>5 DEF Outstanding
  <2>2. step[s] + 1 \in Nat /\ 1 <= step[s] + 1 /\ step[s] + 1 <= Len(schema) + 1
    BY <1>0, <1>2, <2>1
  <2>3. Goes(s, "check", step[s] + 1)
    BY <1>0, <1>1, <1>5, <2>2 DEF Goes, Types
  <2> QED BY <2>2, <2>3, GoesStep DEF Stage
<1>6. CASE ~Outstanding(s) /\ ~(step[s] < carries[s]) /\ stage' = [stage EXCEPT ![s] = "listen"] /\ UNCHANGED step
  <2>1. carries[s] <= Len(schema)
    BY <1>0, <1>2, <1>3, <1>6 DEF Outstanding
  <2>2. Goes(s, "listen", step[s])
    BY <1>0, <1>1, <1>6, <2>1 DEF Goes, Types
  <2> QED BY <1>0, <2>2, GoesStep DEF Stage
<1> QED BY <1>4, <1>5, <1>6 DEF Check

LEMMA ApplyStep == \A s \in Server : IInv /\ Apply(s) => IInv'
<1> SUFFICES ASSUME NEW s \in Server, IInv, Apply(s) PROVE IInv'
  OBVIOUS
<1>0. Types /\ step[s] \in Nat /\ stage[s] = "apply" /\ writer = NoServer
  BY DEF IInv, Types, Apply
<1>1. CASE Exit(s)
  BY <1>1, ExitStep
<1>2. CASE /\ writer' = s /\ stage' = [stage EXCEPT ![s] = "record"]
           /\ UNCHANGED <<rvars, schema, recorded, carries, step>>
  <2>1. 1 <= step[s] /\ step[s] <= Len(schema) + 1
    BY <1>0 DEF IInv, NothingSkipped
  <2>2. Goes(s, "record", step[s])
    BY <1>0, <1>2, <2>1 DEF Goes, Types, rvars, requests
  <2> QED BY <1>0, <2>2, GoesStep DEF Stage
<1> QED BY <1>1, <1>2 DEF Apply

LEMMA RecordStep == \A s \in Server : IInv /\ Record(s) => IInv'
<1> SUFFICES ASSUME NEW s \in Server, IInv, Record(s) PROVE IInv'
  OBVIOUS
<1>0. Types /\ step[s] \in Nat /\ stage[s] = "record" /\ writer = s
  BY DEF IInv, Types, OneWriter, Record
<1>1. CASE Exit(s)
  BY <1>1, ExitStep
<1>2. CASE /\ step[s] \notin recorded /\ stage' = [stage EXCEPT ![s] = "commit"]
           /\ UNCHANGED <<rvars, file, carries, step>>
  <2>1. 1 <= step[s] /\ step[s] <= Len(schema) + 1
    BY <1>0 DEF IInv, NothingSkipped
  <2>2. Goes(s, "commit", step[s])
    BY <1>0, <1>2, <2>1 DEF Goes, Types, rvars, requests, file
  <2> QED BY <1>0, <2>2, GoesStep DEF Stage
<1> QED BY <1>1, <1>2 DEF Record

\* What is committed is the next migration, and nobody else was about to commit one.
LEMMA CommitStep == \A s \in Server : IInv /\ Commit(s) => IInv'
<1> SUFFICES ASSUME NEW s \in Server, IInv, Commit(s) PROVE IInv'
  OBVIOUS
<1> DEFINE n == Len(schema)
<1>0. Types /\ n \in Nat /\ step[s] \in Nat
  BY Lengths DEF IInv, Types
<1>1. /\ stage[s] = "commit" /\ schema' = Append(schema, step[s])
      /\ recorded' = recorded \cup {step[s]} /\ writer' = NoServer
      /\ stage' = [stage EXCEPT ![s] = "check"]
      /\ step' = [step EXCEPT ![s] = @ + 1]
      /\ UNCHANGED <<carries, at, by>>
  BY DEF Commit, rvars, requests
<1>2. writer = s
  BY <1>1 DEF IInv, OneWriter
<1>3. recorded = 1..n /\ \A k \in 1..n : schema[k] = k
  BY DEF IInv, SchemaInOrder
<1>4. step[s] = n + 1
  <2>1. 1 <= step[s] /\ step[s] <= n + 1 /\ step[s] \notin recorded
    BY <1>1 DEF IInv, NothingSkipped, AboutToCommit
  <2> QED BY <1>0, <1>3, <2>1
<1>5. /\ stage'[s] = "check" /\ step'[s] = n + 2
      /\ \A r \in Server : r # s => stage'[r] = stage[r] /\ step'[r] = step[r]
  BY <1>0, <1>1, <1>4 DEF Types
<1>6. /\ schema' \in Seq(Nat) /\ Len(schema') = n + 1
      /\ schema'[n + 1] = n + 1 /\ \A k \in 1..n : schema'[k] = schema[k]
  BY <1>0, <1>1, <1>4 DEF Types
<1> HIDE DEF n
<1>7. Types'
  <2>1. stage' \in [Server -> Stage] /\ step' \in [Server -> Nat]
    BY <1>0, <1>1 DEF Types, Stage
  <2> QED BY <1>0, <1>1, <1>6, <2>1 DEF Types
<1>8. SchemaInOrder'
  <2>1. \A k \in 1..(n + 1) : k = n + 1 \/ k \in 1..n
    BY <1>0
  <2>2. 1..n \cup {n + 1} = 1..(n + 1)
    BY <1>0
  <2> QED BY <1>1, <1>3, <1>4, <1>6, <2>1, <2>2 DEF SchemaInOrder
<1>9. \A r \in Server : r # s => stage[r] \notin {"record", "commit"}
  BY <1>2 DEF IInv, OneWriter
<1>10. OneWriter' /\ AboutToCommit'
  BY <1>5, <1>9 DEF OneWriter, AboutToCommit
<1>11. NothingSkipped'
  <2> SUFFICES ASSUME NEW r \in Server, stage'[r] \in {"check", "apply", "record", "commit"}
               PROVE  1 <= step'[r] /\ step'[r] <= n + 2
    BY <1>0, <1>6 DEF NothingSkipped
  <2>1. CASE r = s
    BY <1>0, <1>5, <2>1
  <2>2. CASE r # s
    <3>1. step'[r] \in Nat /\ 1 <= step'[r] /\ step'[r] <= n + 1
      BY <1>0, <1>5, <2>2 DEF IInv, NothingSkipped, Types, n
    <3> QED BY <1>0, <3>1
  <2> QED BY <2>1, <2>2
<1>12. UpToDate'
  <2> SUFFICES ASSUME NEW r \in Server, stage'[r] \in {"listen", "serve", "drain", "closed"}
               PROVE  carries[r] <= n + 1
    BY <1>1, <1>6 DEF UpToDate
  <2>1. carries[r] \in Nat
    BY <1>0, Versions
  <2>2. carries[r] <= n
    BY <1>5 DEF IInv, UpToDate, n
  <2> QED BY <1>0, <2>1, <2>2
<1>13. Answering'
  BY <1>1, <1>5 DEF IInv, Answering
<1> QED BY <1>7, <1>8, <1>10, <1>11, <1>12, <1>13 DEF IInv

\* From when it is up to date, a process only goes on towards its end.
LEMMA UpAndDownStep ==
  \A s \in Server : IInv /\ (Listen(s) \/ Signal(s) \/ Drained(s) \/ GraceOver(s)) => IInv'
<1> SUFFICES ASSUME NEW s \in Server, IInv, Listen(s) \/ Signal(s) \/ Drained(s) \/ GraceOver(s)
             PROVE  IInv'
  OBVIOUS
<1>0. Types /\ step[s] \in Nat
  BY DEF IInv, Types
<1>1. CASE Exit(s)
  BY <1>1, ExitStep
<1>2. CASE ~Exit(s)
  <2>1. /\ stage[s] \in {"listen", "serve", "drain", "closed"}
        /\ \E x \in {"serve", "drain", "closed"} : stage' = [stage EXCEPT ![s] = x]
        /\ UNCHANGED <<schema, recorded, writer, carries, step, at, by>>
    BY <1>2 DEF Listen, Signal, Drained, GraceOver, rvars, requests, file
  <2>2. carries[s] <= Len(schema)
    BY <2>1 DEF IInv, UpToDate
  <2>3. PICK x \in {"serve", "drain", "closed"} : stage' = [stage EXCEPT ![s] = x]
    BY <2>1
  <2>4. Goes(s, x, step[s])
    BY <1>0, <2>1, <2>2, <2>3 DEF Goes, Types
  <2> QED BY <1>0, <2>4, GoesStep DEF Stage
<1> QED BY <1>1, <1>2

-----------------------------------------------------------------------------
(* Theorems                                                                *)

LEMMA Step == IInv /\ [Next]_vars => IInv'
<1> SUFFICES ASSUME IInv, [Next]_vars PROVE IInv'
  OBVIOUS
<1>1. CASE Serve
  BY <1>1, ServeStep
<1>2. ASSUME NEW s \in Server, Advance(s) \/ Signal(s) \/ GraceOver(s) \/ Crash(s) PROVE IInv'
  BY <1>2, StartStep, CheckStep, ApplyStep, RecordStep, CommitStep, UpAndDownStep, ExitStep
     DEF Advance, End, Crash
<1>3. CASE UNCHANGED vars
  <2>1. UNCHANGED <<file, processes, at, by>>
    BY <1>3 DEF vars, rvars, requests
  <2> QED BY <2>1, RequestsOnly DEF IInv, Types, Answering
<1> QED BY <1>1, <1>2, <1>3 DEF Next

\* The invariant the others rest on.
THEOREM Invariance == Spec => []IInv
BY InitIInv, Step, PTL DEF Spec

\* The schema is made of the first migrations, each once and in order, and what is recorded
\* is what is applied.
THEOREM InOrder == Spec => []SchemaInOrder
<1>1. IInv => SchemaInOrder
  BY DEF IInv
<1> QED BY <1>1, Invariance, PTL

\* A process that answers requests has every migration it carries.
THEOREM Migrated == Spec => []ServesMigrated
<1>1. IInv => ServesMigrated
  <2> SUFFICES ASSUME IInv, NEW s \in Server, stage[s] = "serve" \/ Requests(s) # {},
                      NEW m \in 1..carries[s]
               PROVE  Applied(m)
    BY DEF ServesMigrated
  <2>1. stage[s] \in {"serve", "drain", "closed"}
    BY DEF IInv, Answering, Requests
  <2>2. carries[s] <= Len(schema) /\ carries[s] \in Nat /\ Len(schema) \in Nat
    BY <2>1, Versions, Lengths DEF IInv, UpToDate
  <2>3. m \in 1..Len(schema)
    BY <2>2
  <2>4. schema[m] = m
    BY <2>3 DEF IInv, SchemaInOrder
  <2> QED BY <2>3, <2>4 DEF Applied
<1> QED BY <1>1, Invariance, PTL

-----------------------------------------------------------------------------
(* The limiter.  Of what a server has let through from an address in the    *)
(* last Window ticks, the last are counted in the window of now and are     *)
(* younger than it is; all before them are older than it, and were let      *)
(* through in one window at most, since a window is as long as what is      *)
(* looked back on.                                                          *)

LEMMA Least ==
  ASSUME NEW T \in SUBSET Nat, T # {}
  PROVE  \E x \in T : \A y \in T : x <= y
<1>1. \E x \in T : \A y \in T : <<y, x>> \notin OpToRel(<, Nat)
  BY NatLessThanWellFounded, WFMin
<1>2. PICK x \in T : \A y \in T : <<y, x>> \notin OpToRel(<, Nat)
  BY <1>1
<1>3. ASSUME NEW y \in T PROVE ~(y < x)
  BY <1>2 DEF OpToRel
<1> QED BY <1>3

\* Those at the beginning of a sequence are counted by the place of the last.
LEMMA Beginning ==
  ASSUME NEW n \in Nat, NEW G \in SUBSET (1..n),
         \A k \in G : \A j \in 1..k : j \in G
  PROVE  Cardinality(G) \in 0..n /\ G = 1..Cardinality(G)
<1> DEFINE T == (1..(n + 1)) \ G
<1>1. PICK x \in T : \A y \in T : x <= y
  <2>1. n + 1 \in T /\ T \in SUBSET Nat
    OBVIOUS
  <2> QED BY <2>1, Least
<1>2. G = 1..(x - 1)
  <2>1. ASSUME NEW k \in 1..(x - 1) PROVE k \in G
    BY <1>1
  <2>2. ASSUME NEW k \in G PROVE k \in 1..(x - 1)
    BY <1>1
  <2> QED BY <2>1, <2>2
<1>3. Cardinality(1..(x - 1)) = x - 1
  BY <1>1, FS_Interval
<1> QED BY <1>1, <1>2, <1>3

\* What a server has let through from an address, what it has counted for it, and how long
\* the window lasts.
Counted(ages, n, l) ==
  /\ \A j, k \in 1..Len(ages) : j <= k => ages[k] <= ages[j]
  /\ l = 0 <=> n = 0
  /\ \E m \in 0..Len(ages) :
       /\ m <= Max
       /\ Len(ages) - m = IF n > Max THEN Max ELSE n
       /\ \A j \in 1..m : ages[j] > (IF l = 0 THEN 0 ELSE Window - l)
       /\ \A j \in (m + 1)..Len(ages) : ages[j] <= Window - l

LEMMA Limits == Max \in Nat \ {0} /\ Window \in Nat \ {0}
BY LimitAssumption

LEMMA OlderType ==
  ASSUME NEW ages \in Seq(Age), \A j, k \in 1..Len(ages) : j <= k => ages[k] <= ages[j]
  PROVE  \E g \in 0..Len(ages) :
           /\ \A k \in 1..Len(ages) : ages[k] = Window - 1 <=> k <= g
           /\ Older(ages) \in Seq(Age) /\ Len(Older(ages)) = Len(ages) - g
           /\ \A k \in 1..(Len(ages) - g) : Older(ages)[k] = ages[k + g] + 1
<1> DEFINE G == {k \in DOMAIN ages : ages[k] + 1 \notin Age}
           g == Cardinality(G)
<1>0. Window \in Nat \ {0} /\ Len(ages) \in Nat /\ DOMAIN ages = 1..Len(ages)
  BY Limits
<1>1. \A k \in 1..Len(ages) : ages[k] \in 0..(Window - 1)
  <2>1. \A k \in 1..Len(ages) : ages[k] \in Age
    OBVIOUS
  <2> QED BY <2>1 DEF Age
<1>2. \A k \in 1..Len(ages) : k \in G <=> ages[k] = Window - 1
  BY <1>0, <1>1 DEF Age
<1>3. \A k \in G : \A j \in 1..k : j \in G
  <2> SUFFICES ASSUME NEW k \in G, NEW j \in 1..k PROVE j \in G
    OBVIOUS
  <2>1. j \in 1..Len(ages) /\ k \in 1..Len(ages) /\ j <= k
    BY <1>0
  <2> QED BY <1>0, <1>1, <1>2, <2>1
<1>4. g \in 0..Len(ages) /\ G = 1..g
  BY <1>0, <1>3, Beginning
<1>5. Older(ages) = [k \in 1..(Len(ages) - g) |-> ages[k + g] + 1]
  BY DEF Older
<1> HIDE DEF G, g
<1>6. \A k \in 1..Len(ages) : ages[k] = Window - 1 <=> k <= g
  BY <1>0, <1>2, <1>4
<1>7. \A k \in 1..(Len(ages) - g) : ages[k + g] + 1 \in Age
  <2> SUFFICES ASSUME NEW k \in 1..(Len(ages) - g) PROVE ages[k + g] + 1 \in Age
    OBVIOUS
  <2>1. k + g \in 1..Len(ages) /\ ~(k + g <= g)
    BY <1>0, <1>4
  <2>2. ages[k + g] \in 0..(Window - 1) /\ ages[k + g] # Window - 1
    BY <1>1, <1>6, <2>1
  <2> QED BY <1>0, <2>2 DEF Age
<1>8. Older(ages) \in Seq(Age) /\ Len(Older(ages)) = Len(ages) - g
  <2>1. Len(ages) - g \in Nat
    BY <1>0, <1>4
  <2> QED BY <1>5, <1>7, <2>1
<1> QED BY <1>4, <1>5, <1>6, <1>8

\* A request that is let through begins a window, or is one more in it.
LEMMA LetThrough ==
  ASSUME NEW ages \in Seq(Age), NEW n \in 0..(Max + 1), NEW l \in 0..Window,
         Counted(ages, n, l), n + 1 <= Max
  PROVE  Counted(Append(ages, 0), n + 1, IF l = 0 THEN Window ELSE l)
<1> DEFINE a == Append(ages, 0)
           w == IF l = 0 THEN Window ELSE l
<1>0. /\ Max \in Nat \ {0} /\ Window \in Nat \ {0} /\ Len(ages) \in Nat
      /\ Len(a) = Len(ages) + 1
      /\ \A k \in 1..Len(ages) : a[k] = ages[k] /\ ages[k] \in Age /\ ages[k] \in Int /\ ages[k] >= 0
      /\ a[Len(ages) + 1] = 0
  BY Limits DEF Age
<1> HIDE DEF a
<1>1. PICK m \in 0..Len(ages) :
        /\ m <= Max
        /\ Len(ages) - m = IF n > Max THEN Max ELSE n
        /\ \A j \in 1..m : ages[j] > (IF l = 0 THEN 0 ELSE Window - l)
        /\ \A j \in (m + 1)..Len(ages) : ages[j] <= Window - l
  BY DEF Counted
<1>2. \A j, k \in 1..Len(a) : j <= k => a[k] <= a[j]
  <2> SUFFICES ASSUME NEW j \in 1..Len(a), NEW k \in 1..Len(a), j <= k
               PROVE  a[k] <= a[j]
    OBVIOUS
  <2>1. CASE k = Len(ages) + 1
    <3>1. a[k] = 0
      BY <1>0, <2>1
    <3>2. a[j] >= 0
      BY <1>0
    <3>3. a[j] \in Int
      BY <1>0
    <3> QED BY <3>1, <3>2, <3>3
  <2>2. CASE k # Len(ages) + 1
    <3>1. j \in 1..Len(ages) /\ k \in 1..Len(ages)
      BY <1>0, <2>2
    <3>2. ages[k] <= ages[j]
      BY <3>1 DEF Counted
    <3> QED BY <1>0, <3>1, <3>2
  <2> QED BY <2>1, <2>2
<1>3. w # 0 /\ n + 1 # 0
  BY <1>0
<1>4. m \in 0..Len(a) /\ Len(a) - m = IF n + 1 > Max THEN Max ELSE n + 1
  BY <1>0, <1>1
<1>5. \A j \in 1..m : a[j] > (IF w = 0 THEN 0 ELSE Window - w)
  BY <1>0, <1>1
<1>6. \A j \in (m + 1)..Len(a) : a[j] <= Window - w
  <2>1. CASE l = 0
    <3>1. n = 0 /\ m = Len(ages)
      BY <1>0, <1>1, <2>1 DEF Counted
    <3> QED BY <1>0, <2>1, <3>1
  <2>2. CASE l # 0
    BY <1>0, <1>1, <2>2
  <2> QED BY <2>1, <2>2
<1>7. Counted(a, n + 1, w)
  BY <1>0, <1>1, <1>2, <1>3, <1>4, <1>5, <1>6 DEF Counted
<1> QED BY <1>7 DEF a

\* A request that is refused finds the limit let through in the window of now.
LEMMA Refused ==
  ASSUME NEW ages \in Seq(Age), NEW n \in 0..(Max + 1), NEW l \in 0..Window,
         Counted(ages, n, l), n + 1 > Max
  PROVE  /\ Counted(ages, Max + 1, IF l = 0 THEN Window ELSE l)
         /\ Len(ages) >= Max
<1>0. Max \in Nat \ {0} /\ Window \in Nat \ {0} /\ Len(ages) \in Nat
  BY Limits
<1>1. l # 0
  BY <1>0 DEF Counted
<1> QED BY <1>0, <1>1 DEF Counted

\* A tick takes away the oldest; and when it ends the window, all from before it.
LEMMA TickCounted ==
  ASSUME NEW ages \in Seq(Age), NEW n \in 0..(Max + 1), NEW l \in 0..Window,
         Counted(ages, n, l)
  PROVE  Counted(Older(ages), IF l > 1 THEN n ELSE 0, IF l = 0 THEN 0 ELSE l - 1)
<1> DEFINE a == Older(ages)
           w == IF l = 0 THEN 0 ELSE l - 1
           h == IF l > 1 THEN n ELSE 0
<1>0. /\ Max \in Nat \ {0} /\ Window \in Nat \ {0} /\ Len(ages) \in Nat
      /\ \A k \in 1..Len(ages) : ages[k] \in Age
  BY Limits
<1>1. \A k \in 1..Len(ages) : ages[k] \in Nat /\ ages[k] < Window
  BY <1>0 DEF Age
<1>2. PICK g \in 0..Len(ages) :
        /\ \A k \in 1..Len(ages) : ages[k] = Window - 1 <=> k <= g
        /\ a \in Seq(Age) /\ Len(a) = Len(ages) - g
        /\ \A k \in 1..(Len(ages) - g) : a[k] = ages[k + g] + 1
  BY OlderType DEF Counted
<1>3. PICK m \in 0..Len(ages) :
        /\ m <= Max
        /\ Len(ages) - m = IF n > Max THEN Max ELSE n
        /\ \A j \in 1..m : ages[j] > (IF l = 0 THEN 0 ELSE Window - l)
        /\ \A j \in (m + 1)..Len(ages) : ages[j] <= Window - l
  BY DEF Counted
<1> HIDE DEF a
<1>4. \A j, k \in 1..Len(a) : j <= k => a[k] <= a[j]
  <2> SUFFICES ASSUME NEW j \in 1..Len(a), NEW k \in 1..Len(a), j <= k PROVE a[k] <= a[j]
    OBVIOUS
  <2>1. /\ j + g \in 1..Len(ages) /\ k + g \in 1..Len(ages) /\ j + g <= k + g
        /\ a[j] = ages[j + g] + 1 /\ a[k] = ages[k + g] + 1
    BY <1>0, <1>2
  <2>2. ages[k + g] <= ages[j + g]
    BY <2>1 DEF Counted
  <2> QED BY <1>1, <2>1, <2>2
<1>5. CASE l > 1
  <2>1. g <= m
    <3> SUFFICES ASSUME g > m PROVE FALSE
      BY <1>2, <1>3
    <3>1. g \in (m + 1)..Len(ages) /\ g \in 1..Len(ages)
      BY <1>0, <1>2, <1>3
    <3>2. ages[g] = Window - 1 /\ ages[g] <= Window - l
      BY <1>2, <1>3, <3>1
    <3> QED BY <1>0, <1>5, <3>2
  <2>2. m - g \in 0..Len(a) /\ m - g <= Max /\ Len(a) - (m - g) = IF h > Max THEN Max ELSE h
    BY <1>0, <1>2, <1>3, <1>5, <2>1
  <2>3. \A j \in 1..(m - g) : a[j] > (IF w = 0 THEN 0 ELSE Window - w)
    <3> SUFFICES ASSUME NEW j \in 1..(m - g) PROVE a[j] > Window - w
      BY <1>0, <1>5
    <3>1. j + g \in 1..m /\ j \in 1..(Len(ages) - g) /\ j + g \in 1..Len(ages)
      BY <1>0, <1>2, <1>3, <2>1
    <3>2. a[j] = ages[j + g] + 1 /\ ages[j + g] > Window - l
      BY <1>2, <1>3, <1>5, <3>1
    <3> QED BY <1>0, <1>1, <1>5, <3>1, <3>2
  <2>4. \A j \in (m - g + 1)..Len(a) : a[j] <= Window - w
    <3> SUFFICES ASSUME NEW j \in (m - g + 1)..Len(a) PROVE a[j] <= Window - w
      OBVIOUS
    <3>1. j + g \in (m + 1)..Len(ages) /\ j \in 1..(Len(ages) - g) /\ j + g \in 1..Len(ages)
      BY <1>0, <1>2, <1>3, <2>1
    <3>2. a[j] = ages[j + g] + 1 /\ ages[j + g] <= Window - l
      BY <1>2, <1>3, <3>1
    <3> QED BY <1>0, <1>1, <1>5, <3>1, <3>2
  <2>5. w = 0 <=> h = 0
    BY <1>0, <1>5 DEF Counted
  <2> QED BY <1>4, <2>2, <2>3, <2>4, <2>5 DEF Counted, a
<1>6. CASE l <= 1
  <2>1. w = 0 /\ h = 0
    BY <1>6
  <2>2. Len(a) <= Max
    <3>1. CASE l = 0
      BY <1>0, <1>2, <1>3, <3>1 DEF Counted
    <3>2. CASE l = 1
      <4>1. m = 0
        <5> SUFFICES ASSUME m # 0 PROVE FALSE
          OBVIOUS
        <5>1. 1 \in 1..m /\ 1 \in 1..Len(ages)
          BY <1>0, <1>3
        <5>2. ages[1] > Window - 1
          BY <1>3, <3>2, <5>1
        <5> QED BY <1>0, <1>1, <5>1, <5>2
      <4> QED BY <1>0, <1>2, <1>3, <4>1
    <3> QED BY <1>6, <3>1, <3>2
  <2>3. \A j \in 1..Len(a) : a[j] > 0
    <3> SUFFICES ASSUME NEW j \in 1..Len(a) PROVE a[j] > 0
      OBVIOUS
    <3>1. j \in 1..(Len(ages) - g) /\ j + g \in 1..Len(ages)
      BY <1>0, <1>2
    <3>2. a[j] = ages[j + g] + 1
      BY <1>2, <3>1
    <3> QED BY <1>1, <3>1, <3>2
  <2>4. Len(a) \in 0..Len(a) /\ Len(a) - Len(a) = 0 /\ (Len(a) + 1)..Len(a) = {}
    BY <1>0, <1>2
  <2>5. \E k \in 0..Len(a) :
          /\ k <= Max
          /\ Len(a) - k = IF h > Max THEN Max ELSE h
          /\ \A j \in 1..k : a[j] > (IF w = 0 THEN 0 ELSE Window - w)
          /\ \A j \in (k + 1)..Len(a) : a[j] <= Window - w
    BY <1>0, <2>1, <2>2, <2>3, <2>4
  <2> QED BY <1>4, <2>1, <2>5 DEF Counted, a
<1> QED BY <1>0, <1>5, <1>6

\* A request is counted before a session is asked for.
Asking ==
  \A c \in Client :
    /\ at[c] = "idle" \/ (by[c] \in Server /\ from[c] \in Ip)
    /\ at[c] \in {"idle", "limiter", "session"} => ~local[c]

CountedByIp ==
  \A s \in Server, i \in Ip : Counted(passed[s][i], hits[s][<<"ip", i>>], left[s][<<"ip", i>>])

LimiterInv == RTypeOK /\ Asking /\ CountedByIp

LEMMA CountedAfresh == Counted(<<>>, 0, 0)
BY Limits DEF Counted

LEMMA LimiterInit == RInit => LimiterInv
<1> SUFFICES ASSUME RInit PROVE LimiterInv
  OBVIOUS
<1>1. RTypeOK
  BY Limits DEF RInit, RTypeOK, None, NonePassed
<1>2. Asking
  BY DEF RInit, Asking
<1>3. CountedByIp
  <2> SUFFICES ASSUME NEW s \in Server, NEW i \in Ip
               PROVE  Counted(passed[s][i], hits[s][<<"ip", i>>], left[s][<<"ip", i>>])
    BY DEF CountedByIp
  <2>1. <<"ip", i>> \in Key
    BY DEF Key
  <2>2. passed[s][i] = <<>> /\ hits[s][<<"ip", i>>] = 0 /\ left[s][<<"ip", i>>] = 0
    BY <2>1 DEF RInit, None, NonePassed
  <2> QED BY <2>2, CountedAfresh
<1> QED BY <1>1, <1>2, <1>3 DEF LimiterInv

\* What the limiter counts, and whose requests it counts, before a step.
LEMMA Counts ==
  ASSUME RTypeOK, NEW s \in Server
  PROVE  /\ \A k \in Key : hits[s][k] \in 0..(Max + 1) /\ left[s][k] \in 0..Window
         /\ \A i \in Ip : passed[s][i] \in Seq(Age) /\ <<"ip", i>> \in Key
BY DEF RTypeOK, Key

LEMMA LimitStep == \A c \in Client : LimiterInv /\ Limit(c) => LimiterInv'
<1> SUFFICES ASSUME NEW c \in Client, LimiterInv, Limit(c) PROVE LimiterInv'
  OBVIOUS
<1> DEFINE s == by[c]
           i == from[c]
           k == <<"ip", i>>
           n == hits[s][k] + 1
<1>0. RTypeOK /\ Asking /\ CountedByIp /\ Max \in Nat \ {0} /\ Window \in Nat \ {0}
  BY Limits DEF LimiterInv
<1>1. s \in Server /\ i \in Ip /\ ~local[c]
  BY <1>0 DEF Limit, Asking
<1>2. k \in Key /\ KeyOf(c) = k
  BY <1>1 DEF Key, KeyOf
<1>3. /\ hits' = [hits EXCEPT ![s][k] = IF n > Max THEN Max + 1 ELSE n]
      /\ left' = [left EXCEPT ![s][k] = IF @ = 0 THEN Window ELSE @]
      /\ \/ n > Max /\ Answer(c) /\ UNCHANGED passed
         \/ /\ ~(n > Max)
            /\ at' = [at EXCEPT ![c] = "session"]
            /\ passed' = [passed EXCEPT ![s][i] = Append(@, 0)]
            /\ UNCHANGED <<by, from, local>>
  BY <1>2 DEF Limit, Over
<1>4. /\ hits[s][k] \in 0..(Max + 1) /\ left[s][k] \in 0..Window
      /\ passed[s][i] \in Seq(Age) /\ Append(passed[s][i], 0) \in Seq(Age)
      /\ Counted(passed[s][i], hits[s][k], left[s][k])
  <2>1. 0 \in Age
    BY <1>0 DEF Age
  <2> QED BY <1>0, <1>1, <1>2, <2>1, Counts DEF CountedByIp
<1>5. RTypeOK'
  <2>1. hits' \in [Server -> [Key -> 0..(Max + 1)]]
    <3>1. (IF n > Max THEN Max + 1 ELSE n) \in 0..(Max + 1)
      BY <1>0, <1>4
    <3> QED BY <1>0, <1>1, <1>2, <1>3, <3>1 DEF RTypeOK
  <2>2. left' \in [Server -> [Key -> 0..Window]]
    BY <1>0, <1>1, <1>2, <1>3, <1>4 DEF RTypeOK
  <2>3. passed' \in [Server -> [Ip -> Seq(Age)]]
    <3>1. passed' \in {passed, [passed EXCEPT ![s][i] = Append(passed[s][i], 0)]}
      BY <1>3
    <3>2. passed \in [Server -> [Ip -> Seq(Age)]]
      BY <1>0 DEF RTypeOK
    <3>3. [passed[s] EXCEPT ![i] = Append(passed[s][i], 0)] \in [Ip -> Seq(Age)]
      BY <1>1, <1>4, <3>2
    <3> QED BY <1>1, <3>1, <3>2, <3>3
  <2>4. /\ at' \in [Client -> {"idle", "limiter", "session", "handler"}]
        /\ by' \in [Client -> Server \cup {NoServer}]
        /\ from' \in [Client -> Ip \cup {NoIp}]
        /\ local' \in [Client -> BOOLEAN]
    BY <1>0, <1>3 DEF RTypeOK, Answer
  <2> QED BY <2>1, <2>2, <2>3, <2>4 DEF RTypeOK
<1>6. Asking'
  BY <1>0, <1>1, <1>3 DEF Asking, Answer, RTypeOK
<1>7. CountedByIp'
  <2> SUFFICES ASSUME NEW r \in Server, NEW j \in Ip
               PROVE  Counted(passed'[r][j], hits'[r][<<"ip", j>>], left'[r][<<"ip", j>>])
    BY DEF CountedByIp
  <2>0. Counted(passed[r][j], hits[r][<<"ip", j>>], left[r][<<"ip", j>>])
    BY <1>0 DEF CountedByIp
  <2>1. CASE r = s /\ j = i
    <3>1. hits'[r][k] = (IF n > Max THEN Max + 1 ELSE n) /\ left'[r][k] = IF left[s][k] = 0 THEN Window ELSE left[s][k]
      BY <1>0, <1>1, <1>2, <1>3, <2>1 DEF RTypeOK
    <3>2. CASE n > Max
      <4>1. passed'[r][j] = passed[s][i]
        BY <1>3, <2>1, <3>2
      <4> QED BY <1>4, <2>1, <3>1, <3>2, <4>1, Refused
    <3>3. CASE ~(n > Max)
      <4>1. passed'[r][j] = Append(passed[s][i], 0)
        BY <1>0, <1>1, <1>3, <2>1, <3>3 DEF RTypeOK
      <4>2. n <= Max
        BY <1>0, <1>4, <3>3
      <4> QED BY <1>4, <2>1, <3>1, <3>3, <4>1, <4>2, LetThrough
    <3> QED BY <3>2, <3>3
  <2>2. CASE ~(r = s /\ j = i)
    <3>1. <<"ip", j>> \in Key /\ (j # i => <<"ip", j>> # k)
      BY DEF Key
    <3>2. /\ passed'[r][j] = passed[r][j]
          /\ hits'[r][<<"ip", j>>] = hits[r][<<"ip", j>>]
          /\ left'[r][<<"ip", j>>] = left[r][<<"ip", j>>]
      <4>1. /\ hits \in [Server -> [Key -> 0..(Max + 1)]]
            /\ left \in [Server -> [Key -> 0..Window]]
            /\ passed \in [Server -> [Ip -> Seq(Age)]]
        BY <1>0 DEF RTypeOK
      <4>2. passed'[r][j] = passed[r][j]
        <5>1. \/ passed' = passed
              \/ passed' = [passed EXCEPT ![s][i] = Append(@, 0)]
          BY <1>3
        <5> QED BY <2>2, <4>1, <5>1
      <4>3. hits'[r][<<"ip", j>>] = hits[r][<<"ip", j>>]
        BY <1>3, <2>2, <3>1, <4>1
      <4>4. left'[r][<<"ip", j>>] = left[r][<<"ip", j>>]
        BY <1>3, <2>2, <3>1, <4>1
      <4> QED BY <4>2, <4>3, <4>4
    <3> QED BY <2>0, <3>2
  <2> QED BY <2>1, <2>2
<1> QED BY <1>5, <1>6, <1>7 DEF LimiterInv

LEMMA TickStep == LimiterInv /\ Tick => LimiterInv'
<1> SUFFICES ASSUME LimiterInv, Tick PROVE LimiterInv'
  OBVIOUS
<1>0. RTypeOK /\ Asking /\ CountedByIp /\ Max \in Nat \ {0} /\ Window \in Nat \ {0}
  BY Limits DEF LimiterInv
<1>1. ASSUME NEW s \in Server, NEW k \in Key
      PROVE  /\ hits'[s][k] = IF left[s][k] > 1 THEN hits[s][k] ELSE 0
             /\ left'[s][k] = IF left[s][k] = 0 THEN 0 ELSE left[s][k] - 1
  BY DEF Tick, HitsAfterTick
<1>2. ASSUME NEW s \in Server, NEW i \in Ip
      PROVE  /\ passed'[s][i] = Older(passed[s][i]) /\ Older(passed[s][i]) \in Seq(Age)
             /\ Counted(passed'[s][i], hits'[s][<<"ip", i>>], left'[s][<<"ip", i>>])
  <2>1. /\ passed[s][i] \in Seq(Age) /\ <<"ip", i>> \in Key
        /\ hits[s][<<"ip", i>>] \in 0..(Max + 1) /\ left[s][<<"ip", i>>] \in 0..Window
        /\ Counted(passed[s][i], hits[s][<<"ip", i>>], left[s][<<"ip", i>>])
    BY <1>0, Counts DEF CountedByIp
  <2>2. passed'[s][i] = Older(passed[s][i])
    BY DEF Tick
  <2>3. Older(passed[s][i]) \in Seq(Age)
    BY <2>1, OlderType DEF Counted
  <2> QED BY <1>1, <2>1, <2>2, <2>3, TickCounted
<1>3. RTypeOK'
  <2>1. hits' \in [Server -> [Key -> 0..(Max + 1)]] /\ left' \in [Server -> [Key -> 0..Window]]
    <3>1. \A s \in Server, k \in Key : hits'[s][k] \in 0..(Max + 1) /\ left'[s][k] \in 0..Window
      <4> SUFFICES ASSUME NEW s \in Server, NEW k \in Key
                   PROVE  hits'[s][k] \in 0..(Max + 1) /\ left'[s][k] \in 0..Window
        OBVIOUS
      <4>1. hits[s][k] \in 0..(Max + 1) /\ left[s][k] \in 0..Window
        BY <1>0, Counts
      <4> QED BY <1>0, <1>1, <4>1
    <3>2. /\ hits' = [s \in Server |-> [k \in Key |-> hits'[s][k]]]
          /\ left' = [s \in Server |-> [k \in Key |-> left'[s][k]]]
      BY DEF Tick
    <3> QED BY <3>1, <3>2
  <2>2. passed' \in [Server -> [Ip -> Seq(Age)]]
    BY <1>2 DEF Tick
  <2> QED BY <1>0, <2>1, <2>2 DEF RTypeOK, Tick, requests
<1>4. Asking'
  BY <1>0 DEF Asking, Tick, requests
<1>5. CountedByIp'
  BY <1>2 DEF CountedByIp
<1> QED BY <1>3, <1>4, <1>5 DEF LimiterInv

LEMMA CutOffStep == \A s \in Server : LimiterInv /\ CutOff(s) => LimiterInv'
<1> SUFFICES ASSUME NEW s \in Server, LimiterInv, CutOff(s) PROVE LimiterInv'
  OBVIOUS
<1>0. RTypeOK /\ Asking /\ CountedByIp /\ Max \in Nat \ {0} /\ Window \in Nat \ {0}
  BY Limits DEF LimiterInv
<1>1. RTypeOK'
  <2>1. None \in [Key -> 0..(Max + 1)] /\ None \in [Key -> 0..Window] /\ NonePassed \in [Ip -> Seq(Age)]
    BY <1>0 DEF None, NonePassed
  <2>2. /\ hits' \in [Server -> [Key -> 0..(Max + 1)]] /\ left' \in [Server -> [Key -> 0..Window]]
        /\ passed' \in [Server -> [Ip -> Seq(Age)]]
    BY <1>0, <2>1 DEF CutOff, RTypeOK
  <2>3. /\ at' \in [Client -> {"idle", "limiter", "session", "handler"}]
        /\ by' \in [Client -> Server \cup {NoServer}]
        /\ from' \in [Client -> Ip \cup {NoIp}]
    BY <1>0 DEF CutOff, RTypeOK
  <2>4. local' \in [Client -> BOOLEAN]
    BY DEF CutOff
  <2> QED BY <2>2, <2>3, <2>4 DEF RTypeOK
<1>2. Asking'
  BY <1>0 DEF Asking, CutOff
<1>3. CountedByIp'
  <2> SUFFICES ASSUME NEW r \in Server, NEW j \in Ip
               PROVE  Counted(passed'[r][j], hits'[r][<<"ip", j>>], left'[r][<<"ip", j>>])
    BY DEF CountedByIp
  <2>1. <<"ip", j>> \in Key
    BY DEF Key
  <2>2. CASE r = s
    <3>1. passed'[r][j] = <<>> /\ hits'[r][<<"ip", j>>] = 0 /\ left'[r][<<"ip", j>>] = 0
      BY <1>0, <2>1, <2>2 DEF CutOff, RTypeOK, None, NonePassed
    <3> QED BY <3>1, CountedAfresh
  <2>3. CASE r # s
    BY <1>0, <2>3 DEF CutOff, RTypeOK, CountedByIp
  <2> QED BY <2>2, <2>3
<1> QED BY <1>1, <1>2, <1>3 DEF LimiterInv

LEMMA LimiterStep == LimiterInv /\ [RNext]_rvars => LimiterInv'
<1> SUFFICES ASSUME LimiterInv, [RNext]_rvars PROVE LimiterInv'
  OBVIOUS
<1>0. RTypeOK /\ Asking
  BY DEF LimiterInv
<1>1. ASSUME UNCHANGED limiter, RTypeOK', Asking' PROVE LimiterInv'
  BY <1>1 DEF limiter, LimiterInv, CountedByIp
<1>2. ASSUME NEW c \in Client, NEW s \in Server, NEW i \in Ip, Arrive(c, s, i) PROVE LimiterInv'
  BY <1>0, <1>1, <1>2 DEF Arrive, RTypeOK, Asking, limiter
<1>3. ASSUME NEW c \in Client, RequireSession(c) \/ Handle(c) PROVE LimiterInv'
  <2>1. UNCHANGED limiter
    BY <1>3 DEF RequireSession, Handle
  <2>2. RTypeOK'
    BY <1>0, <1>3 DEF RequireSession, Handle, Answer, RTypeOK, limiter
  <2>3. Asking'
    BY <1>0, <1>3 DEF RequireSession, Handle, Answer, RTypeOK, Asking
  <2> QED BY <1>1, <2>1, <2>2, <2>3
<1>4. CASE UNCHANGED rvars
  BY <1>0, <1>1, <1>4 DEF rvars, limiter, requests, RTypeOK, Asking
<1> QED BY <1>2, <1>3, <1>4, LimitStep, TickStep, CutOffStep DEF RNext, Request

\* A process as a whole does to the limiter what the limiter may do by itself.
LEMMA UsesLimiter == [Next]_vars => [RNext]_rvars
<1> SUFFICES ASSUME [Next]_vars PROVE [RNext]_rvars
  OBVIOUS
<1>1. CASE Serve
  BY <1>1 DEF Serve, RNext
<1>2. ASSUME NEW s \in Server, Advance(s) \/ Signal(s) \/ GraceOver(s) \/ Crash(s)
      PROVE  CutOff(s) \/ UNCHANGED rvars
  BY <1>2 DEF Advance, Start, Check, Listen, Apply, Record, Commit, Drained, End, Signal, GraceOver,
              Crash, Exit
<1>3. CASE UNCHANGED vars
  BY <1>3 DEF vars
<1> QED BY <1>1, <1>2, <1>3 DEF Next, RNext

LEMMA LimiterInvariance == Spec => []LimiterInv
<1>1. Init => LimiterInv
  BY LimiterInit DEF Init
<1>2. LimiterInv /\ [Next]_vars => LimiterInv'
  BY LimiterStep, UsesLimiter
<1> QED BY <1>1, <1>2, PTL DEF Spec

MishapsCounted == mishaps \in Nat

\* Every variable of the processes and of their limiters keeps its type.
THEOREM TypeCorrect == Spec => []TypeOK
<1>1. Init => MishapsCounted
  BY DEF Init, MishapsCounted
<1>2. MishapsCounted /\ [Next]_vars => MishapsCounted'
  <2> SUFFICES ASSUME mishaps \in Nat, [Next]_vars PROVE mishaps' \in Nat
    BY DEF MishapsCounted
  <2>1. CASE Serve \/ UNCHANGED vars
    BY <2>1 DEF Serve, vars
  <2>2. ASSUME NEW s \in Server, Advance(s) \/ GraceOver(s) PROVE UNCHANGED mishaps
    BY <2>2 DEF Advance, Start, Check, Listen, Apply, Record, Commit, Drained, End, GraceOver
  <2>3. ASSUME NEW s \in Server, Signal(s) \/ Crash(s) PROVE mishaps' \in Nat
    BY <2>3 DEF Signal, Crash, Mishap
  <2> QED BY <2>1, <2>2, <2>3 DEF Next
<1>3. IInv /\ LimiterInv /\ MishapsCounted => TypeOK
  BY DEF MishapsCounted, IInv, Types, SchemaInOrder, LimiterInv, TypeOK
<1> QED BY <1>1, <1>2, <1>3, Invariance, LimiterInvariance, PTL DEF Spec

\* In no span as long as a window does one run of a server let more than twice the limit
\* through from one address (RateLimit).
THEOREM BurstsBounded == Spec => []BurstBounded
<1>1. LimiterInv => BurstBounded
  <2> SUFFICES ASSUME LimiterInv, NEW s \in Server, NEW i \in Ip PROVE Len(passed[s][i]) <= 2 * Max
    BY DEF BurstBounded, Recent
  <2>1. Len(passed[s][i]) \in Nat /\ hits[s][<<"ip", i>>] \in 0..(Max + 1)
    BY Counts DEF LimiterInv
  <2>2. \E m \in 0..Len(passed[s][i]) :
          /\ m <= Max
          /\ Len(passed[s][i]) - m = IF hits[s][<<"ip", i>>] > Max THEN Max ELSE hits[s][<<"ip", i>>]
    BY DEF LimiterInv, CountedByIp, Counted
  <2> QED BY <2>1, <2>2, Limits
<1> QED BY <1>1, LimiterInvariance, PTL
=============================================================================

--------------------------- MODULE ServerLifecycle ---------------------------
(***************************************************************************)
(* The life of a server process (run of cmd/server/main.go): it opens the  *)
(* database, brings its schema up to date (Migrate and applyMigration of   *)
(* internal/store/sqlite/sqlite.go), listens, and is shut down; and the    *)
(* requests it answers meanwhile (RateLimiting).                           *)
(*                                                                         *)
(* During an upgrade two processes, of different versions, may have the    *)
(* same file open.  Either may be killed at any time.  A migration runs in *)
(* a transaction: what it did shows when it commits, and is gone when the  *)
(* process ends before.  SQLite lets one process write at a time; the      *)
(* other waits up to busy_timeout.  Version n carries the first n          *)
(* migrations, in the order of their names.                                *)
(***************************************************************************)
EXTENDS RateLimiting

CONSTANTS
  Version,     \* numbers of migrations carried
  Repeatable,  \* migrations whose statements succeed on a schema that has them already
  MaxMishaps   \* bound on kills, failures and shutdowns

ASSUME VersionAssumption == Version \subseteq Nat \ {0} /\ Repeatable \subseteq Nat
ASSUME MishapAssumption == MaxMishaps \in Nat

VARIABLES
  mishaps,
  schema,    \* the file: the migrations applied to it, in order
  recorded,  \* the file: the names in schema_migrations
  writer,    \* the process whose transaction holds the write lock
  carries,   \* the version of each process, 0 while it is down
  stage,     \* what each process is at
  step       \* the migration it is at

file == <<schema, recorded, writer>>
processes == <<carries, stage, step>>
vars == <<rvars, mishaps, file, processes>>

Stage == {"down", "check", "apply", "record", "commit", "listen", "serve", "drain", "closed"}

TypeOK ==
  /\ RTypeOK
  /\ mishaps \in Nat
  /\ schema \in Seq(Nat) /\ recorded \subseteq Nat
  /\ writer \in Server \cup {NoServer}
  /\ carries \in [Server -> Version \cup {0}]
  /\ stage \in [Server -> Stage]
  /\ step \in [Server -> Nat]

Init ==
  /\ RInit
  /\ mishaps = 0
  /\ schema = <<>> /\ recorded = {} /\ writer = NoServer
  /\ carries = [s \in Server |-> 0]
  /\ stage = [s \in Server |-> "down"]
  /\ step = [s \in Server |-> 0]

Mishap == mishaps < MaxMishaps /\ mishaps' = mishaps + 1

-----------------------------------------------------------------------------
(* Coming up                                                               *)

\* The orchestrator starts the process, of one version or another.  It opens the file and
\* sees to it that there is a table schema_migrations.
Start(s) ==
  /\ stage[s] = "down"
  /\ \E v \in Version : carries' = [carries EXCEPT ![s] = v]
  /\ stage' = [stage EXCEPT ![s] = "check"]
  /\ step' = [step EXCEPT ![s] = 1]
  /\ UNCHANGED <<rvars, mishaps, file>>

\* run returns an error: the transaction is rolled back, the process ends.
Exit(s) ==
  /\ stage' = [stage EXCEPT ![s] = "down"]
  /\ writer' = IF writer = s THEN NoServer ELSE writer
  /\ carries' = [carries EXCEPT ![s] = 0] /\ step' = [step EXCEPT ![s] = 0]
  /\ CutOff(s)
  /\ UNCHANGED <<schema, recorded>>

\* Mutants: nothing is looked up; the last migration is left for later.
Outstanding_All(s) == step[s] <= carries[s]
Outstanding_ButLast(s) == step[s] < carries[s] /\ step[s] \notin recorded

\* Whether the migration it is at has still to be done.
Outstanding(s) == step[s] <= carries[s] /\ step[s] \notin recorded

\* The loop of Migrate.
Check(s) ==
  /\ stage[s] = "check"
  /\ IF Outstanding(s)
     THEN stage' = [stage EXCEPT ![s] = "apply"] /\ UNCHANGED step
     ELSE IF step[s] < carries[s]
     THEN step' = [step EXCEPT ![s] = @ + 1] /\ UNCHANGED stage
     ELSE stage' = [stage EXCEPT ![s] = "listen"] /\ UNCHANGED step
  /\ UNCHANGED <<rvars, mishaps, file, carries>>

\* Listen: the processes are on one host, and one of them has the port.
Listen(s) ==
  /\ stage[s] = "listen"
  /\ IF \E r \in Server : stage[r] = "serve"
     THEN Exit(s)
     ELSE stage' = [stage EXCEPT ![s] = "serve"] /\ UNCHANGED <<rvars, file, carries, step>>
  /\ UNCHANGED mishaps

Applied(m) == m \in {schema[k] : k \in 1..Len(schema)}

\* The statements of a migration fail, or take the write lock and wait for the commit.
Apply(s) ==
  /\ stage[s] = "apply"
  /\ writer = NoServer
  /\ \/ Applied(step[s]) /\ step[s] \notin Repeatable /\ Exit(s)
     \/ /\ ~Applied(step[s]) \/ step[s] \in Repeatable
        /\ writer' = s
        /\ stage' = [stage EXCEPT ![s] = "record"]
        /\ UNCHANGED <<rvars, schema, recorded, carries, step>>
  /\ UNCHANGED mishaps

\* Mutant: INSERT OR IGNORE.
Record_OrIgnore(s) ==
  /\ stage[s] = "record"
  /\ stage' = [stage EXCEPT ![s] = "commit"]
  /\ UNCHANGED <<rvars, mishaps, file, carries, step>>

\* The name is the primary key of schema_migrations.
Record(s) ==
  /\ stage[s] = "record"
  /\ \/ step[s] \in recorded /\ Exit(s)
     \/ /\ step[s] \notin recorded
        /\ stage' = [stage EXCEPT ![s] = "commit"]
        /\ UNCHANGED <<rvars, file, carries, step>>
  /\ UNCHANGED mishaps

Commit(s) ==
  /\ stage[s] = "commit"
  /\ schema' = Append(schema, step[s])
  /\ recorded' = recorded \cup {step[s]}
  /\ writer' = NoServer
  /\ stage' = [stage EXCEPT ![s] = "check"]
  /\ step' = [step EXCEPT ![s] = @ + 1]
  /\ UNCHANGED <<rvars, mishaps, carries>>

-----------------------------------------------------------------------------
(* Going down                                                              *)

\* SIGTERM or an interrupt, once the process listens: it accepts nothing more.
Signal(s) ==
  /\ Mishap
  /\ stage[s] = "serve"
  /\ stage' = [stage EXCEPT ![s] = "drain"]
  /\ UNCHANGED <<rvars, file, carries, step>>

Requests(s) == {c \in Client : by[c] = s /\ at[c] # "idle"}

\* ShutdownWithTimeout returns when the requests are done ...
Drained(s) ==
  /\ stage[s] = "drain" /\ Requests(s) = {}
  /\ stage' = [stage EXCEPT ![s] = "closed"]
  /\ UNCHANGED <<rvars, mishaps, file, carries, step>>

\* ... or when shutdownTimeout is over.
GraceOver(s) ==
  /\ stage[s] = "drain" /\ Requests(s) # {}
  /\ stage' = [stage EXCEPT ![s] = "closed"]
  /\ UNCHANGED <<rvars, mishaps, file, carries, step>>

\* The store is closed, the process ends.
End(s) == stage[s] = "closed" /\ Exit(s) /\ UNCHANGED mishaps

\* It is killed, or fails: the lock did not come in time, migrateCtx ended, the disk is
\* full, the port is taken.
Crash(s) ==
  /\ Mishap
  /\ stage[s] # "down"
  /\ Exit(s)

-----------------------------------------------------------------------------

\* A request comes to the process that has the port.
Serve ==
  /\ \/ \E c \in Client, s \in Server, i \in Ip : stage[s] = "serve" /\ Arrive(c, s, i)
     \/ \E c \in Client : Request(c)
     \/ Tick
  /\ UNCHANGED <<mishaps, file, processes>>

Advance(s) ==
  Start(s) \/ Check(s) \/ Listen(s) \/ Apply(s) \/ Record(s) \/ Commit(s) \/ Drained(s) \/ End(s)

Next ==
  \/ Serve
  \/ \E s \in Server : Advance(s) \/ Signal(s) \/ GraceOver(s) \/ Crash(s)

Spec == Init /\ [][Next]_vars

\* "restart: unless-stopped", and processes that are not killed go on; a wait for the
\* write lock ends when it is free.
Fairness ==
  /\ \A s \in Server : WF_vars(Advance(s))
  /\ \A c \in Client : WF_vars(Request(c) /\ UNCHANGED <<mishaps, file, processes>>)

FairSpec == Spec /\ Fairness

-----------------------------------------------------------------------------
(* Properties                                                              *)

\* Whatever processes start together, fail and are killed, the schema is made of the first
\* so many migrations, each applied once and in the order of the names, and what is
\* recorded is what is applied.
SchemaInOrder ==
  /\ \A k \in 1..Len(schema) : schema[k] = k
  /\ recorded = 1..Len(schema)

\* A process that answers requests has every migration it was written for.
ServesMigrated ==
  \A s \in Server :
    stage[s] = "serve" \/ Requests(s) # {} => \A m \in 1..carries[s] : Applied(m)

\* When nothing more goes wrong, a process comes up and stays up.
ComesUp == <>[](\E s \in Server : stage[s] = "serve")
=============================================================================

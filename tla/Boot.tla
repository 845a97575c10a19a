-------------------------------- MODULE Boot --------------------------------
(***************************************************************************)
(* The containers (web, worker) boot on one database: base tables, SQL     *)
(* migrations, seed snapshot (scripts/run_migrations.py), then the service. *)
(* A container that exits is started again (docker-compose.yml). While one *)
(* boots, the worker that is already up may be writing live rows.          *)
(*                                                                         *)
(* A file is its number in the order of names. A row stands for all rows   *)
(* of the seed with that key; "live" is a value of the live syncs. Rows of *)
(* an open transaction have an owner; others wait for it (Postgres).       *)
(***************************************************************************)
EXTENDS Naturals, Sequences, FiniteSets, SequencesExt

CONSTANTS Procs,      \* the containers
          Worker,     \* the one that runs the live syncs
          Writers,    \* the live syncs, each one transaction at a time
          SeedOrder,  \* the rows of the seed in the order of the snapshot
          Target,     \* the live sync that writes a row
          FundRows,   \* the rows of table funds
          NumFiles,   \* migrations/*.sql
          Nobody,
          MaxFaults   \* bound: crashes, restarts, failing files and seeds

Rows == {SeedOrder[i] : i \in DOMAIN SeedOrder}
Files == 1 .. NumFiles
Actors == Procs \cup Writers

ASSUME BootAssumption ==
    /\ Worker \in Procs
    /\ Procs \cap Writers = {}
    /\ Nobody \notin Actors \cup Rows
    /\ SeedOrder \in Seq(Rows)
    /\ Target \in [Rows -> Writers]
    /\ FundRows \subseteq Rows
    /\ NumFiles \in Nat \ {0}
    /\ MaxFaults \in Nat

VARIABLES
    pc,        \* where each container is in its boot
    saw,       \* did the container find the base tables
    tables,    \* do the base tables exist
    lock,      \* holder of the advisory lock
    todo,      \* files the container has still to apply
    tracker,   \* table schema_migrations
    effects,   \* how often the statements of a file took effect
    rows,      \* committed rows
    owner,     \* open transaction that wrote a row
    wants,     \* row a live sync is about to write
    found,     \* did its query find that row
    faults

schema == <<saw, tables, todo, tracker, effects>>
data == <<rows, owner, wants, found>>
vars == <<pc, schema, lock, data, faults>>

Stages == {"look", "create", "lock", "track", "files", "count", "seed", "up"}
Locked == {"track", "files", "count", "seed"}

Init ==
    /\ pc = [p \in Procs |-> "look"]
    /\ saw = [p \in Procs |-> FALSE]
    /\ tables = FALSE
    /\ lock = Nobody
    /\ todo = [p \in Procs |-> {}]
    /\ tracker = {}
    /\ effects = [f \in Files |-> 0]
    /\ rows = [r \in Rows |-> "absent"]
    /\ owner = [r \in Rows |-> Nobody]
    /\ wants = [w \in Writers |-> Nobody]
    /\ found = [w \in Writers |-> FALSE]
    /\ faults = 0

Fault == faults < MaxFaults /\ faults' = faults + 1

At(p, stage) == pc[p] = stage
Goto(p, stage) == pc' = [pc EXCEPT ![p] = stage]

\* conn.close(): the connection's transaction is rolled back, its lock freed.
Unlock(p) == lock' = IF lock = p THEN Nobody ELSE lock

\* owner when the transactions of the actors in A end.
Without(A) == [r \in Rows |-> IF owner[r] \in A THEN Nobody ELSE owner[r]]

\* create_all: one transaction that first looks which tables exist.
LookForTables(p) ==
    /\ At(p, "look")
    /\ saw' = [saw EXCEPT ![p] = tables]
    /\ Goto(p, "create")
    /\ UNCHANGED <<tables, todo, tracker, effects, lock, data, faults>>

\* It runs before the lock is taken: if another container created the tables
\* after the look, CREATE TABLE fails and the container exits.
CreateTables(p) ==
    /\ At(p, "create")
    /\ IF saw[p] \/ ~tables
         THEN tables' = TRUE /\ Goto(p, "lock")
         ELSE UNCHANGED tables /\ Goto(p, "look")
    /\ UNCHANGED <<saw, todo, tracker, effects, lock, data, faults>>

TakeLock(p) ==
    /\ At(p, "lock")
    /\ lock = Nobody
    /\ lock' = p
    /\ Goto(p, "track")
    /\ UNCHANGED <<schema, data, faults>>

ReadTracker(p) ==
    /\ At(p, "track")
    /\ todo' = [todo EXCEPT ![p] = Files \ tracker]
    /\ Goto(p, "files")
    /\ UNCHANGED <<saw, tables, tracker, effects, lock, data, faults>>

NextFile(p, f) == f \in todo[p] /\ \A g \in todo[p] : f <= g

\* The file and its tracker row in one transaction.
ApplyFile(p) ==
    /\ At(p, "files")
    /\ \E f \in Files :
          /\ NextFile(p, f)
          /\ f \notin tracker
          /\ tracker' = tracker \cup {f}
          /\ effects' = [effects EXCEPT ![f] = @ + 1]
          /\ todo' = [todo EXCEPT ![p] = @ \ {f}]
    /\ UNCHANGED <<pc, saw, tables, lock, data, faults>>

\* autocommit left on: what ran of the file stays.
VarFileFailsAutocommit(p) ==
    /\ At(p, "files")
    /\ Fault
    /\ \E f \in Files :
          NextFile(p, f) /\ effects' = [effects EXCEPT ![f] = @ + 1]
    /\ Goto(p, "look")
    /\ Unlock(p)
    /\ UNCHANGED <<saw, tables, todo, tracker, data>>

\* The next file is tried although this one failed.
VarFileFailsContinue(p) ==
    /\ At(p, "files")
    /\ Fault
    /\ \E f \in Files :
          NextFile(p, f) /\ todo' = [todo EXCEPT ![p] = @ \ {f}]
    /\ UNCHANGED <<pc, saw, tables, tracker, effects, lock, data>>

\* A file fails, and is rolled back; the container exits.
FileFails(p) ==
    /\ At(p, "files")
    /\ \E f \in Files : NextFile(p, f)
    /\ Fault
    /\ Goto(p, "look")
    /\ Unlock(p)
    /\ UNCHANGED <<schema, data>>

FilesDone(p) ==
    /\ At(p, "files")
    /\ todo[p] = {}
    /\ Goto(p, "count")
    /\ UNCHANGED <<schema, lock, data, faults>>

\* The boot is over: the connection is closed, the service starts.
Up(p) ==
    /\ Goto(p, "up")
    /\ Unlock(p)
    /\ owner' = Without({p})

\* Seeding when this container found no tables.
VarEmptyFreshTables(p) == ~saw[p]

Empty(p) == \A r \in FundRows : rows[r] = "absent"

CountFunds(p) ==
    /\ At(p, "count")
    /\ IF Empty(p) THEN Goto(p, "seed") /\ UNCHANGED <<lock, owner>> ELSE Up(p)
    /\ UNCHANGED <<schema, rows, wants, found, faults>>

SeedRow(p, r) ==
    /\ At(p, "seed")
    /\ \E i \in DOMAIN SeedOrder :
          /\ r = SeedOrder[i]
          /\ owner[r] # p
          /\ \A j \in 1 .. i - 1 : owner[SeedOrder[j]] = p

\* Each table of the snapshot committed by itself.
VarInsertSeedCommits(p) ==
    /\ \E r \in Rows :
          /\ SeedRow(p, r)
          /\ owner[r] = Nobody /\ rows[r] = "absent"
          /\ owner' = [owner EXCEPT ![r] = p]
          /\ rows' = [rows EXCEPT ![r] = "seed"]
    /\ UNCHANGED <<pc, schema, lock, wants, found, faults>>

\* ON CONFLICT DO UPDATE in the snapshot.
VarInsertSeedUpserts(p) ==
    /\ \E r \in Rows :
          /\ SeedRow(p, r)
          /\ owner[r] = Nobody
          /\ owner' = [owner EXCEPT ![r] = p]
    /\ UNCHANGED <<pc, schema, lock, rows, wants, found, faults>>

InsertSeed(p) ==
    /\ \E r \in Rows :
          /\ SeedRow(p, r)
          /\ owner[r] = Nobody /\ rows[r] = "absent"
          /\ owner' = [owner EXCEPT ![r] = p]
    /\ UNCHANGED <<pc, schema, lock, rows, wants, found, faults>>

\* A seed that fails stops the boot.
VarSeedConflictFatal(p) ==
    /\ \E r \in Rows : SeedRow(p, r) /\ owner[r] = Nobody /\ rows[r] # "absent"
    /\ Goto(p, "look")
    /\ Unlock(p)
    /\ owner' = Without({p})
    /\ UNCHANGED <<schema, rows, wants, found, faults>>

\* The row is there already: the seed is rolled back, the boot goes on.
SeedConflict(p) ==
    /\ \E r \in Rows : SeedRow(p, r) /\ owner[r] = Nobody /\ rows[r] # "absent"
    /\ Up(p)
    /\ UNCHANGED <<schema, rows, wants, found, faults>>

SeedFails(p) ==
    /\ At(p, "seed")
    /\ Fault
    /\ Up(p)
    /\ UNCHANGED <<schema, rows, wants, found>>

CommitSeed(p) ==
    /\ At(p, "seed")
    /\ \A r \in Rows : owner[r] = p
    /\ rows' = [r \in Rows |-> "seed"]
    /\ Up(p)
    /\ UNCHANGED <<schema, wants, found, faults>>

\* The container dies or is restarted; so do its live syncs.
Crash(p) ==
    /\ Fault
    /\ Goto(p, "look")
    /\ Unlock(p)
    /\ LET dead == IF p = Worker THEN Writers \cup {p} ELSE {p} IN
          /\ owner' = Without(dead)
          /\ wants' = [w \in Writers |-> IF w \in dead THEN Nobody ELSE wants[w]]
    /\ UNCHANGED <<schema, rows, found>>

\* A live sync looks for the row of a record.
Query(w, r) ==
    /\ At(Worker, "up")
    /\ wants[w] = Nobody
    /\ Target[r] = w
    /\ owner[r] # w
    /\ wants' = [wants EXCEPT ![w] = r]
    /\ found' = [found EXCEPT ![w] = rows[r] # "absent"]
    /\ UNCHANGED <<pc, schema, lock, rows, owner, faults>>

\* Updates the row it found, or inserts it; waits for the row's owner.
Put(w) ==
    /\ wants[w] # Nobody
    /\ owner[wants[w]] = Nobody
    /\ IF found[w] \/ rows[wants[w]] = "absent"
         THEN owner' = [owner EXCEPT ![wants[w]] = w]
         ELSE owner' = Without({w})
    /\ wants' = [wants EXCEPT ![w] = Nobody]
    /\ UNCHANGED <<pc, schema, lock, rows, found, faults>>

CommitCycle(w) ==
    /\ wants[w] = Nobody
    /\ \E r \in Rows : owner[r] = w
    /\ rows' = [r \in Rows |-> IF owner[r] = w THEN "live" ELSE rows[r]]
    /\ owner' = Without({w})
    /\ UNCHANGED <<pc, schema, lock, wants, found, faults>>

CycleFails(w) ==
    /\ \E r \in Rows : r = wants[w] \/ owner[r] = w
    /\ owner' = Without({w})
    /\ wants' = [wants EXCEPT ![w] = Nobody]
    /\ UNCHANGED <<pc, schema, lock, rows, found, faults>>

\* The seed and a live sync wait for each other: the database ends either.
WaitForEachOther(p, w) ==
    /\ \E r \in Rows : SeedRow(p, r) /\ owner[r] = w
    /\ wants[w] # Nobody /\ owner[wants[w]] = p

DeadlockSeed(p) ==
    /\ \E w \in Writers : WaitForEachOther(p, w)
    /\ Up(p)
    /\ UNCHANGED <<schema, rows, wants, found, faults>>

BootStep(p) ==
    \/ LookForTables(p) \/ CreateTables(p) \/ TakeLock(p) \/ ReadTracker(p)
    \/ ApplyFile(p) \/ FilesDone(p)
    \/ CountFunds(p) \/ InsertSeed(p) \/ SeedConflict(p) \/ CommitSeed(p)
    \/ DeadlockSeed(p)

LiveStep(w) == Put(w) \/ CommitCycle(w)

Next ==
    \/ \E p \in Procs : BootStep(p) \/ FileFails(p) \/ SeedFails(p) \/ Crash(p)
    \/ \E w \in Writers : LiveStep(w) \/ CycleFails(w) \/ \E r \in Rows : Query(w, r)

Spec == Init /\ [][Next]_vars

\* Containers run and the restart policy starts them again; whoever waits for
\* the lock or a row is woken in turn; a statement of a live sync ends. That
\* live syncs ever store a row is not assumed.
FairSpec ==
    /\ Spec
    /\ \A p \in Procs : SF_vars(BootStep(p))
    /\ \A w \in Writers : WF_vars(LiveStep(w))

-----------------------------------------------------------------------------
\* Types of the variables; a container that holds no lock is before or after
\* the locked part of run_migrations.py:112-161.
TypeOK ==
    /\ pc \in [Procs -> Stages]
    /\ saw \in [Procs -> BOOLEAN]
    /\ tables \in BOOLEAN
    /\ lock \in Procs \cup {Nobody}
    /\ todo \in [Procs -> SUBSET Files]
    /\ tracker \subseteq Files
    /\ effects \in [Files -> Nat]
    /\ rows \in [Rows -> {"absent", "seed", "live"}]
    /\ owner \in [Rows -> Actors \cup {Nobody}]
    /\ wants \in [Writers -> Rows \cup {Nobody}]
    /\ found \in [Writers -> BOOLEAN]
    /\ faults \in Nat
    /\ \A p \in Procs : pc[p] \in Locked <=> lock = p

\* Each file takes effect exactly once, whatever fails and restarts, and the
\* tracker knows it (run_migrations.py:136-148, docs/07-deployment.md:66).
AppliedOnce == \A f \in Files : effects[f] = IF f \in tracker THEN 1 ELSE 0

\* Files take effect in the order of their names, also when two containers
\* share the work (run_migrations.py:102, :129).
AppliedInOrder == \A f \in tracker : \A g \in 1 .. f : g \in tracker

\* A service only ever runs on the whole schema, whoever applied it
\* (entrypoint.sh, docs/07-deployment.md:64).
UpMeansMigrated == \A p \in Procs : pc[p] = "up" => tables /\ tracker = Files

\* Migrations: whatever fails, restarts or runs beside them, each takes effect
\* once, in order, before the service does (run_migrations.py:102-148).
SchemaOK == AppliedOnce /\ AppliedInOrder /\ UpMeansMigrated

\* The seed is loaded whole or not at all: no row of it without the others
\* (run_migrations.py:52-86).
SeedIsWhole ==
    (\E r \in Rows : rows[r] = "seed") => \A r \in Rows : rows[r] # "absent"

\* The snapshot never replaces a row the live pipeline has stored, although
\* it may be loaded while the worker is running (run_migrations.py:70-86).
LiveIsKept == [][\A r \in Rows : rows[r] = "live" => rows'[r] = "live"]_vars

\* However many containers boot, fail, restart and sync beside each other, the
\* database and the services only ever move as one deployment: upgraded in
\* order, seeded as a whole and only when empty, served only behind the last
\* file, and never back from live (run_migrations.py:52-161).
Rollout == INSTANCE Deployment
  WITH Services <- Procs, Syncing <- Worker, Records <- Rows, Versions <- NumFiles,
       applied <- tracker, content <- rows, running <- {p \in Procs : pc[p] = "up"}
KeepsTheDeployment == Rollout!Spec

\* Without faults no service starts before the snapshot is in, neither the
\* container that loads it nor the one that waited (docs/07-deployment.md:82).
WarmWhenUp ==
    faults = 0 => \A p \in Procs : pc[p] = "up" => \A r \in Rows : rows[r] # "absent"

\* Every container ends up running: a race for the tables, rows that are in
\* the seed's way and a live sync it waits for end no boot for good
\* (run_migrations.py:83-86, docs/07-deployment.md:90).
EverythingUp == \A p \in Procs : <>[](pc[p] = "up")
=============================================================================

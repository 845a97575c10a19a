----------------------------- MODULE Boot_proofs -----------------------------
(***************************************************************************)
(* Proofs about Boot: the types and the lock, the migrations, the seed and *)
(* the warm start, and that together they are one deployment; for any      *)
(* number of containers, files, rows and faults.                           *)
(***************************************************************************)
EXTENDS Boot, TLAPS

\* What a container knows of the files while it holds the lock, and what it
\* has made sure of behind them.
SchemaInv ==
  /\ AppliedOnce
  /\ AppliedInOrder
  /\ \A p \in Procs : pc[p] = "files" => todo[p] = Files \ tracker
  /\ \A p \in Procs : pc[p] \in {"count", "seed", "up"} => tracker = Files
  /\ \A p \in Procs : pc[p] \notin {"look", "create"} => tables

\* Rows a container owns are new, and it owns them only while it seeds.
SeedInv ==
  /\ SeedIsWhole
  /\ \A r \in Rows : \A p \in Procs :
        owner[r] = p => rows[r] = "absent" /\ pc[p] = "seed"

AllAbsent == \A r \in Rows : rows[r] = "absent"
AllPresent == \A r \in Rows : rows[r] # "absent"

\* Live syncs run only in a worker that is up; without faults the database is
\* empty or loaded, and loaded as soon as one container is up.
WarmInv ==
  /\ \A w \in Writers : wants[w] # Nobody => pc[Worker] = "up"
  /\ \A r \in Rows : owner[r] \in Writers => pc[Worker] = "up"
  /\ faults = 0 => AllAbsent \/ AllPresent
  /\ WarmWhenUp

\* The part of the assumption the steps need.
LEMMA Names ==
  /\ Worker \in Procs
  /\ \A p \in Procs : p \notin Writers /\ p # Nobody
  /\ Nobody \notin Writers /\ Nobody \notin Rows
  /\ FundRows \subseteq Rows
  /\ Target \in [Rows -> Writers]
  BY BootAssumption DEF Actors

\* Files are naturals.
LEMMA FilesAreNumbers == \A f \in Files : f \in Nat
  BY BootAssumption DEF Files

\* Initially: types, and who holds the lock.
LEMMA TypesInit == Init => TypeOK
<1> SUFFICES ASSUME Init PROVE TypeOK
  OBVIOUS
<1>1. pc \in [Procs -> Stages] /\ \A p \in Procs : pc[p] \in Locked <=> lock = p
  BY Names DEF Init, Stages, Locked
<1>2. saw \in [Procs -> BOOLEAN] /\ todo \in [Procs -> SUBSET Files]
  BY DEF Init
<1>3. effects \in [Files -> Nat] /\ tracker \subseteq Files /\ faults \in Nat
  BY DEF Init
<1>4. rows \in [Rows -> {"absent", "seed", "live"}] /\ owner \in [Rows -> Actors \cup {Nobody}]
  BY DEF Init
<1>5. wants \in [Writers -> Rows \cup {Nobody}] /\ found \in [Writers -> BOOLEAN]
  BY DEF Init
<1>6. tables \in BOOLEAN /\ lock \in Procs \cup {Nobody}
  BY DEF Init
<1> QED
  BY <1>1, <1>2, <1>3, <1>4, <1>5, <1>6 DEF TypeOK

\* Every step preserves it: types, and who holds the lock.
LEMMA TypesStep == TypeOK /\ [Next]_vars => TypeOK'
<1> SUFFICES ASSUME TypeOK, [Next]_vars PROVE TypeOK'
  OBVIOUS
<1> USE Names DEF At, Goto, schema, data, TypeOK, Stages, Locked, Actors, Files
<1>1. ASSUME NEW p \in Procs, LookForTables(p) PROVE TypeOK'
  BY <1>1 DEF LookForTables
<1>2. ASSUME NEW p \in Procs, CreateTables(p) PROVE TypeOK'
  BY <1>2 DEF CreateTables
<1>3. ASSUME NEW p \in Procs, TakeLock(p) PROVE TypeOK'
  BY <1>3 DEF TakeLock
<1>4. ASSUME NEW p \in Procs, ReadTracker(p) PROVE TypeOK'
  BY <1>4 DEF ReadTracker
<1>5. ASSUME NEW p \in Procs, ApplyFile(p) PROVE TypeOK'
  BY <1>5 DEF ApplyFile, NextFile
<1>6. ASSUME NEW p \in Procs, FileFails(p) PROVE TypeOK'
  BY <1>6 DEF FileFails, Fault, Unlock
<1>7. ASSUME NEW p \in Procs, FilesDone(p) PROVE TypeOK'
  BY <1>7 DEF FilesDone
<1>8. ASSUME NEW p \in Procs, CountFunds(p) PROVE TypeOK'
  BY <1>8 DEF CountFunds, Empty, Up, Unlock, Without
<1>9. ASSUME NEW p \in Procs, InsertSeed(p) PROVE TypeOK'
  BY <1>9 DEF InsertSeed, SeedRow
<1>10. ASSUME NEW p \in Procs, SeedConflict(p) PROVE TypeOK'
  BY <1>10 DEF SeedConflict, SeedRow, Up, Unlock, Without
<1>11. ASSUME NEW p \in Procs, SeedFails(p) PROVE TypeOK'
  BY <1>11 DEF SeedFails, Fault, Up, Unlock, Without
<1>12. ASSUME NEW p \in Procs, CommitSeed(p) PROVE TypeOK'
  BY <1>12 DEF CommitSeed, Up, Unlock, Without
<1>13. ASSUME NEW p \in Procs, DeadlockSeed(p) PROVE TypeOK'
  BY <1>13 DEF DeadlockSeed, WaitForEachOther, SeedRow, Up, Unlock, Without
<1>14. ASSUME NEW p \in Procs, Crash(p) PROVE TypeOK'
  BY <1>14 DEF Crash, Fault, Unlock, Without
<1>15. ASSUME NEW w \in Writers, NEW r \in Rows, Query(w, r) PROVE TypeOK'
  BY <1>15 DEF Query
<1>16. ASSUME NEW w \in Writers, Put(w) PROVE TypeOK'
  BY <1>16 DEF Put, Without
<1>17. ASSUME NEW w \in Writers, CommitCycle(w) PROVE TypeOK'
  BY <1>17 DEF CommitCycle, Without
<1>18. ASSUME NEW w \in Writers, CycleFails(w) PROVE TypeOK'
  BY <1>18 DEF CycleFails, Without
<1>19. ASSUME UNCHANGED vars PROVE TypeOK'
  BY <1>19 DEF vars
<1> QED
  BY <1>1, <1>2, <1>3, <1>4, <1>5, <1>6, <1>7, <1>8, <1>9, <1>10, <1>11,
     <1>12, <1>13, <1>14, <1>15, <1>16, <1>17, <1>18, <1>19 DEF Next,
     BootStep, LiveStep

\* Initially: migrations.
LEMMA SchemaInit == Init => SchemaInv
  BY Names, FilesAreNumbers DEF Init, SchemaInv, AppliedOnce, AppliedInOrder

\* Every step preserves it: migrations.
LEMMA SchemaStep == TypeOK /\ SchemaInv /\ [Next]_vars => SchemaInv'
<1> SUFFICES ASSUME TypeOK /\ SchemaInv, [Next]_vars PROVE SchemaInv'
  OBVIOUS
<1> USE Names DEF At, Goto, schema, data, TypeOK, Locked, SchemaInv,
       AppliedOnce, AppliedInOrder
<1>1. ASSUME NEW p \in Procs, LookForTables(p) PROVE SchemaInv'
  BY <1>1 DEF LookForTables
<1>2. ASSUME NEW p \in Procs, CreateTables(p) PROVE SchemaInv'
  BY <1>2 DEF CreateTables
<1>3. ASSUME NEW p \in Procs, TakeLock(p) PROVE SchemaInv'
  BY <1>3 DEF TakeLock
<1>4. ASSUME NEW p \in Procs, ReadTracker(p) PROVE SchemaInv'
  BY <1>4 DEF ReadTracker
<1>5. ASSUME NEW p \in Procs, ApplyFile(p) PROVE SchemaInv'
  <2>1. PICK f \in Files :
          /\ NextFile(p, f) /\ f \notin tracker
          /\ tracker' = tracker \cup {f}
          /\ effects' = [effects EXCEPT ![f] = @ + 1]
          /\ todo' = [todo EXCEPT ![p] = @ \ {f}]
    BY <1>5 DEF ApplyFile
  <2>2. pc' = pc /\ tables' = tables /\ pc[p] = "files"
    BY <1>5 DEF ApplyFile, At
  <2>3. \A q \in Procs : pc[q] \in Locked => q = p
    BY <2>2 DEF TypeOK, Locked
  <2>4. todo[p] = Files \ tracker
    BY <2>2 DEF SchemaInv
  <2>5. AppliedOnce'
    <3>1. effects \in [Files -> Nat] /\ effects[f] = 0
      BY <2>1 DEF TypeOK, SchemaInv, AppliedOnce
    <3> QED
      BY <2>1, <3>1 DEF SchemaInv, AppliedOnce
  <2>6. AppliedInOrder'
    <3>1. \A g \in 1 .. f : g \in Files
      BY <2>1, FilesAreNumbers, BootAssumption DEF Files
    <3>2. \A g \in Files \ tracker : f <= g
      BY <2>1, <2>4 DEF NextFile
    <3>3. \A g \in 1 .. f : g \in tracker'
      BY <2>1, <3>1, <3>2, FilesAreNumbers
    <3> QED
      BY <2>1, <3>3 DEF SchemaInv, AppliedInOrder
  <2>7. \A q \in Procs : pc'[q] = "files" => todo'[q] = Files \ tracker'
    BY <2>1, <2>2, <2>3, <2>4 DEF TypeOK, Locked
  <2>8. \A q \in Procs : pc'[q] \in {"count", "seed", "up"} => tracker' = Files
    BY <2>1, <2>2 DEF TypeOK, SchemaInv
  <2>9. \A q \in Procs : pc'[q] \notin {"look", "create"} => tables'
    BY <2>2 DEF SchemaInv
  <2> QED
    BY <2>5, <2>6, <2>7, <2>8, <2>9 DEF SchemaInv
<1>6. ASSUME NEW p \in Procs, FileFails(p) PROVE SchemaInv'
  BY <1>6 DEF FileFails, Fault, Unlock
<1>7. ASSUME NEW p \in Procs, FilesDone(p) PROVE SchemaInv'
  BY <1>7 DEF FilesDone
<1>8. ASSUME NEW p \in Procs, CountFunds(p) PROVE SchemaInv'
  BY <1>8 DEF CountFunds, Empty, Up, Unlock, Without
<1>9. ASSUME NEW p \in Procs, InsertSeed(p) PROVE SchemaInv'
  BY <1>9 DEF InsertSeed, SeedRow
<1>10. ASSUME NEW p \in Procs, SeedConflict(p) PROVE SchemaInv'
  BY <1>10 DEF SeedConflict, SeedRow, Up, Unlock, Without
<1>11. ASSUME NEW p \in Procs, SeedFails(p) PROVE SchemaInv'
  BY <1>11 DEF SeedFails, Fault, Up, Unlock, Without
<1>12. ASSUME NEW p \in Procs, CommitSeed(p) PROVE SchemaInv'
  BY <1>12 DEF CommitSeed, Up, Unlock, Without
<1>13. ASSUME NEW p \in Procs, DeadlockSeed(p) PROVE SchemaInv'
  BY <1>13 DEF DeadlockSeed, WaitForEachOther, SeedRow, Up, Unlock, Without
<1>14. ASSUME NEW p \in Procs, Crash(p) PROVE SchemaInv'
  BY <1>14 DEF Crash, Fault, Unlock, Without
<1>15. ASSUME NEW w \in Writers, NEW r \in Rows, Query(w, r) PROVE SchemaInv'
  BY <1>15 DEF Query
<1>16. ASSUME NEW w \in Writers, Put(w) PROVE SchemaInv'
  BY <1>16 DEF Put, Without
<1>17. ASSUME NEW w \in Writers, CommitCycle(w) PROVE SchemaInv'
  BY <1>17 DEF CommitCycle, Without
<1>18. ASSUME NEW w \in Writers, CycleFails(w) PROVE SchemaInv'
  BY <1>18 DEF CycleFails, Without
<1>19. ASSUME UNCHANGED vars PROVE SchemaInv'
  BY <1>19 DEF vars
<1> QED
  BY <1>1, <1>2, <1>3, <1>4, <1>5, <1>6, <1>7, <1>8, <1>9, <1>10, <1>11,
     <1>12, <1>13, <1>14, <1>15, <1>16, <1>17, <1>18, <1>19 DEF Next,
     BootStep, LiveStep

\* Initially: the seed.
LEMMA SeedInit == Init => SeedInv
  BY Names DEF Init, SeedInv, SeedIsWhole

\* Every step preserves it: the seed.
LEMMA SeedStep == TypeOK /\ SeedInv /\ [Next]_vars => SeedInv'
<1> SUFFICES ASSUME TypeOK /\ SeedInv, [Next]_vars PROVE SeedInv'
  OBVIOUS
<1> USE Names DEF At, Goto, schema, data, TypeOK, Locked, SeedInv, SeedIsWhole
<1>1. ASSUME NEW p \in Procs, LookForTables(p) PROVE SeedInv'
  BY <1>1 DEF LookForTables
<1>2. ASSUME NEW p \in Procs, CreateTables(p) PROVE SeedInv'
  BY <1>2 DEF CreateTables
<1>3. ASSUME NEW p \in Procs, TakeLock(p) PROVE SeedInv'
  BY <1>3 DEF TakeLock
<1>4. ASSUME NEW p \in Procs, ReadTracker(p) PROVE SeedInv'
  BY <1>4 DEF ReadTracker
<1>5. ASSUME NEW p \in Procs, ApplyFile(p) PROVE SeedInv'
  BY <1>5 DEF ApplyFile, NextFile
<1>6. ASSUME NEW p \in Procs, FileFails(p) PROVE SeedInv'
  BY <1>6 DEF FileFails, Fault, Unlock
<1>7. ASSUME NEW p \in Procs, FilesDone(p) PROVE SeedInv'
  BY <1>7 DEF FilesDone
<1>8. ASSUME NEW p \in Procs, CountFunds(p) PROVE SeedInv'
  BY <1>8 DEF CountFunds, Empty, Up, Unlock, Without
<1>9. ASSUME NEW p \in Procs, InsertSeed(p) PROVE SeedInv'
  BY <1>9 DEF InsertSeed, SeedRow
<1>10. ASSUME NEW p \in Procs, SeedConflict(p) PROVE SeedInv'
  BY <1>10 DEF SeedConflict, SeedRow, Up, Unlock, Without
<1>11. ASSUME NEW p \in Procs, SeedFails(p) PROVE SeedInv'
  BY <1>11 DEF SeedFails, Fault, Up, Unlock, Without
<1>12. ASSUME NEW p \in Procs, CommitSeed(p) PROVE SeedInv'
  BY <1>12 DEF CommitSeed, Up, Unlock, Without
<1>13. ASSUME NEW p \in Procs, DeadlockSeed(p) PROVE SeedInv'
  BY <1>13 DEF DeadlockSeed, WaitForEachOther, SeedRow, Up, Unlock, Without
<1>14. ASSUME NEW p \in Procs, Crash(p) PROVE SeedInv'
  BY <1>14 DEF Crash, Fault, Unlock, Without
<1>15. ASSUME NEW w \in Writers, NEW r \in Rows, Query(w, r) PROVE SeedInv'
  BY <1>15 DEF Query
<1>16. ASSUME NEW w \in Writers, Put(w) PROVE SeedInv'
  BY <1>16 DEF Put, Without
<1>17. ASSUME NEW w \in Writers, CommitCycle(w) PROVE SeedInv'
  BY <1>17 DEF CommitCycle, Without
<1>18. ASSUME NEW w \in Writers, CycleFails(w) PROVE SeedInv'
  BY <1>18 DEF CycleFails, Without
<1>19. ASSUME UNCHANGED vars PROVE SeedInv'
  BY <1>19 DEF vars
<1> QED
  BY <1>1, <1>2, <1>3, <1>4, <1>5, <1>6, <1>7, <1>8, <1>9, <1>10, <1>11,
     <1>12, <1>13, <1>14, <1>15, <1>16, <1>17, <1>18, <1>19 DEF Next,
     BootStep, LiveStep

\* Initially: the warm start.
LEMMA WarmInit == Init => WarmInv
  BY Names DEF Init, WarmInv, WarmWhenUp, AllAbsent, AllPresent

\* Every step preserves it: the warm start.
LEMMA WarmStep == TypeOK /\ SeedInv /\ WarmInv /\ [Next]_vars => WarmInv'
<1> SUFFICES ASSUME TypeOK /\ SeedInv /\ WarmInv, [Next]_vars PROVE WarmInv'
  OBVIOUS
<1> USE Names DEF At, Goto, schema, data, TypeOK, Locked, WarmInv, WarmWhenUp,
       AllAbsent, AllPresent
<1>1. ASSUME NEW p \in Procs, LookForTables(p) PROVE WarmInv'
  BY <1>1 DEF LookForTables
<1>2. ASSUME NEW p \in Procs, CreateTables(p) PROVE WarmInv'
  BY <1>2 DEF CreateTables
<1>3. ASSUME NEW p \in Procs, TakeLock(p) PROVE WarmInv'
  BY <1>3 DEF TakeLock
<1>4. ASSUME NEW p \in Procs, ReadTracker(p) PROVE WarmInv'
  BY <1>4 DEF ReadTracker
<1>5. ASSUME NEW p \in Procs, ApplyFile(p) PROVE WarmInv'
  BY <1>5 DEF ApplyFile, NextFile
<1>6. ASSUME NEW p \in Procs, FileFails(p) PROVE WarmInv'
  BY <1>6 DEF FileFails, Fault, Unlock
<1>7. ASSUME NEW p \in Procs, FilesDone(p) PROVE WarmInv'
  BY <1>7 DEF FilesDone
<1>8. ASSUME NEW p \in Procs, CountFunds(p) PROVE WarmInv'
  BY <1>8 DEF CountFunds, Empty, Up, Unlock, Without
<1>9. ASSUME NEW p \in Procs, InsertSeed(p) PROVE WarmInv'
  BY <1>9 DEF InsertSeed, SeedRow
<1>10. ASSUME NEW p \in Procs, SeedConflict(p) PROVE WarmInv'
  BY <1>10 DEF SeedConflict, SeedRow, Up, Unlock, Without
<1>11. ASSUME NEW p \in Procs, SeedFails(p) PROVE WarmInv'
  BY <1>11 DEF SeedFails, Fault, Up, Unlock, Without
<1>12. ASSUME NEW p \in Procs, CommitSeed(p) PROVE WarmInv'
  BY <1>12 DEF CommitSeed, Up, Unlock, Without
<1>13. ASSUME NEW p \in Procs, DeadlockSeed(p) PROVE WarmInv'
  BY <1>13 DEF DeadlockSeed, WaitForEachOther, SeedRow, Up, Unlock, Without
<1>14. ASSUME NEW p \in Procs, Crash(p) PROVE WarmInv'
  BY <1>14 DEF Crash, Fault, Unlock, Without
<1>15. ASSUME NEW w \in Writers, NEW r \in Rows, Query(w, r) PROVE WarmInv'
  BY <1>15 DEF Query
<1>16. ASSUME NEW w \in Writers, Put(w) PROVE WarmInv'
  BY <1>16 DEF Put, Without
<1>17. ASSUME NEW w \in Writers, CommitCycle(w) PROVE WarmInv'
  BY <1>17 DEF CommitCycle, Without
<1>18. ASSUME NEW w \in Writers, CycleFails(w) PROVE WarmInv'
  BY <1>18 DEF CycleFails, Without
<1>19. ASSUME UNCHANGED vars PROVE WarmInv'
  BY <1>19 DEF vars
<1> QED
  BY <1>1, <1>2, <1>3, <1>4, <1>5, <1>6, <1>7, <1>8, <1>9, <1>10, <1>11,
     <1>12, <1>13, <1>14, <1>15, <1>16, <1>17, <1>18, <1>19 DEF Next,
     BootStep, LiveStep

\* The inductive invariant holds in every reachable state.
LEMMA Invariance == Spec => [](TypeOK /\ SchemaInv /\ SeedInv /\ WarmInv)
<1>1. Init => TypeOK /\ SchemaInv /\ SeedInv /\ WarmInv
  BY TypesInit, SchemaInit, SeedInit, WarmInit
<1>2. TypeOK /\ SchemaInv /\ SeedInv /\ WarmInv /\ [Next]_vars
        => (TypeOK /\ SchemaInv /\ SeedInv /\ WarmInv)'
  BY TypesStep, SchemaStep, SeedStep, WarmStep
<1> QED
  BY <1>1, <1>2, PTL DEF Spec

\* The types, and that a container between lock and close is the one holder of
\* the advisory lock (run_migrations.py:112-161).
THEOREM TypeCorrect == Spec => []TypeOK
BY Invariance, PTL

\* Each file takes effect once, in order, and a service runs only when all
\* have (run_migrations.py:129-148).
THEOREM MigrationsCorrect == Spec => []SchemaOK
<1>1. TypeOK /\ SchemaInv => SchemaOK
  BY DEF SchemaInv, SchemaOK, UpMeansMigrated
<1> QED
  BY <1>1, Invariance, PTL

\* No part of the snapshot is ever seen without the rest (run_migrations.py:76-86).
THEOREM SeedAllOrNothing == Spec => []SeedIsWhole
<1>1. SeedInv => SeedIsWhole
  BY DEF SeedInv
<1> QED
  BY <1>1, Invariance, PTL

\* No step replaces a live row by one of the snapshot.
THEOREM LiveRowsSurvive == Spec => LiveIsKept
<1>1. TypeOK /\ SeedInv /\ [Next]_vars
        => [\A r \in Rows : rows[r] = "live" => rows'[r] = "live"]_vars
  <2> SUFFICES ASSUME TypeOK, SeedInv, Next
               PROVE  \A r \in Rows : rows[r] = "live" => rows'[r] = "live"
    OBVIOUS
  <2>1. ASSUME NEW p \in Procs, CommitSeed(p)
        PROVE  \A r \in Rows : rows[r] = "live" => rows'[r] = "live"
    BY <2>1 DEF CommitSeed, SeedInv
  <2>2. ASSUME NEW w \in Writers, CommitCycle(w)
        PROVE  \A r \in Rows : rows[r] = "live" => rows'[r] = "live"
    BY <2>2 DEF CommitCycle
  <2>3. ASSUME NEW p \in Procs, BootStep(p) \/ FileFails(p) \/ SeedFails(p) \/ Crash(p),
               ~CommitSeed(p)
        PROVE  rows' = rows
    BY <2>3 DEF BootStep, LookForTables, CreateTables, TakeLock, ReadTracker,
       ApplyFile, FilesDone, CountFunds, InsertSeed, SeedConflict, DeadlockSeed,
       FileFails, SeedFails, Crash, data
  <2>4. ASSUME NEW w \in Writers,
               LiveStep(w) \/ CycleFails(w) \/ \E r \in Rows : Query(w, r),
               ~CommitCycle(w)
        PROVE  rows' = rows
    BY <2>4 DEF LiveStep, Put, CycleFails, Query
  <2> QED
    BY <2>1, <2>2, <2>3, <2>4 DEF Next
<1> QED
  BY <1>1, Invariance, PTL DEF Spec, LiveIsKept

\* Without faults no service starts on a database without the snapshot.
THEOREM WarmStart == Spec => []WarmWhenUp
<1>1. WarmInv => WarmWhenUp
  BY DEF WarmInv
<1> QED
  BY <1>1, Invariance, PTL

\* The containers that run their service.
Ups == {p \in Procs : pc[p] = "up"}

\* After a step of p alone it runs or not, the others as before.
LEMMA UpsAfter ==
  ASSUME TypeOK, NEW p \in Procs, NEW stage, pc' = [pc EXCEPT ![p] = stage]
  PROVE  Ups' = IF stage = "up" THEN Ups \union {p} ELSE Ups \ {p}
<1>1. pc'[p] = stage /\ \A q \in Procs \ {p} : pc'[q] = pc[q]
  BY DEF TypeOK
<1> QED
  BY <1>1 DEF Ups

\* A file is applied behind all that come before it.
LEMMA IsUpgrade ==
  ASSUME TypeOK, SchemaInv, NEW p \in Procs, ApplyFile(p)
  PROVE  \E f \in 1 .. NumFiles : Rollout!Upgrade(f)
<1>1. PICK f \in Files : NextFile(p, f) /\ f \notin tracker /\ tracker' = tracker \cup {f}
  BY DEF ApplyFile
<1>2. todo[p] = Files \ tracker /\ tracker \subseteq Files
  BY DEF ApplyFile, At, SchemaInv, TypeOK
<1>3. tracker = 1 .. f - 1
  <2>1. ASSUME NEW g \in tracker PROVE g \in 1 .. f - 1
    <3>1. g \in Nat /\ g # f /\ (f < g => f \in 1 .. g) /\ 1 <= g
      BY <1>1, <1>2, <2>1, BootAssumption DEF Files
    <3>2. ~(f < g)
      BY <1>1, <2>1, <3>1 DEF SchemaInv, AppliedInOrder
    <3> QED
      BY <1>1, <3>1, <3>2, FilesAreNumbers
  <2>2. ASSUME NEW g \in 1 .. f - 1 PROVE g \in tracker
    <3>1. g \in Files /\ ~(f <= g)
      BY <1>1, <2>2, BootAssumption DEF Files
    <3> QED
      BY <1>1, <1>2, <3>1 DEF NextFile
  <2> QED
    BY <2>1, <2>2
<1>4. tracker' = 1 .. f
  BY <1>1, <1>3, BootAssumption DEF Files
<1>5. rows' = rows /\ Ups' = Ups
  BY DEF ApplyFile, data, Ups
<1> QED
  BY <1>1, <1>3, <1>4, <1>5 DEF Rollout!Upgrade, Files, Ups

\* A boot that ends behind the files is the start of a service.
LEMMA IsStart ==
  ASSUME TypeOK, SchemaInv, NEW p \in Procs, pc[p] \in {"count", "seed"},
         pc' = [pc EXCEPT ![p] = "up"], tracker' = tracker,
         \/ rows' = rows
         \/ AllAbsent /\ rows' = [r \in Rows |-> "seed"]
  PROVE  Rollout!Start(p)
<1>1. Ups' = Ups \union {p} /\ p \notin Ups
  BY UpsAfter DEF Ups
<1>2. tracker = 1 .. NumFiles
  BY DEF SchemaInv, Files
<1> QED
  BY <1>1, <1>2 DEF Rollout!Start, Rollout!Upgraded, Ups, AllAbsent

\* Of a container that has not booted, nothing is seen from outside.
LEMMA IsUnseen ==
  ASSUME TypeOK, NEW p \in Procs, pc[p] # "up", NEW stage, stage # "up",
         pc' = [pc EXCEPT ![p] = stage], tracker' = tracker, rows' = rows
  PROVE  UNCHANGED Rollout!deployment
<1>1. Ups' = Ups
  BY UpsAfter DEF Ups
<1> QED
  BY <1>1 DEF Rollout!deployment, Ups

\* Every step of the containers is a step of the deployment or a stutter.
LEMMA DeploymentStep ==
  TypeOK /\ SchemaInv /\ SeedInv /\ WarmInv /\ [Next]_vars
    => [Rollout!Next]_(Rollout!deployment)
<1> SUFFICES ASSUME TypeOK, SchemaInv, SeedInv, WarmInv, [Next]_vars
             PROVE  [Rollout!Next]_(Rollout!deployment)
  OBVIOUS
<1>1. ASSUME NEW p \in Procs, LookForTables(p) \/ CreateTables(p) \/ TakeLock(p)
                                \/ ReadTracker(p) \/ FilesDone(p) \/ FileFails(p)
      PROVE  UNCHANGED Rollout!deployment
  <2>1. /\ pc[p] # "up" /\ tracker' = tracker /\ rows' = rows
        /\ \E stage \in {"look", "create", "lock", "track", "files", "count"} :
              pc' = [pc EXCEPT ![p] = stage]
    BY <1>1 DEF LookForTables, CreateTables, TakeLock, ReadTracker, FilesDone,
       FileFails, At, Goto, schema, data
  <2> QED
    BY <2>1, IsUnseen
<1>2. ASSUME NEW p \in Procs, ApplyFile(p) PROVE Rollout!Next
  BY <1>2, IsUpgrade DEF Rollout!Next
<1>3. ASSUME NEW p \in Procs, CountFunds(p)
      PROVE  Rollout!Start(p) \/ UNCHANGED Rollout!deployment
  <2>1. pc[p] = "count" /\ tracker' = tracker /\ rows' = rows
    BY <1>3 DEF CountFunds, At, schema
  <2>2. pc' = [pc EXCEPT ![p] = "seed"] \/ pc' = [pc EXCEPT ![p] = "up"]
    BY <1>3 DEF CountFunds, Goto, Up
  <2> QED
    BY <2>1, <2>2, IsStart, IsUnseen
<1>4. ASSUME NEW p \in Procs, SeedConflict(p) \/ SeedFails(p) \/ DeadlockSeed(p)
      PROVE  Rollout!Start(p)
  <2>1. /\ pc[p] = "seed" /\ tracker' = tracker /\ rows' = rows
        /\ pc' = [pc EXCEPT ![p] = "up"]
    BY <1>4 DEF SeedConflict, SeedFails, DeadlockSeed, WaitForEachOther, SeedRow,
       At, Goto, Up, schema
  <2> QED
    BY <2>1, IsStart
<1>5. ASSUME NEW p \in Procs, CommitSeed(p) PROVE Rollout!Start(p)
  <2>1. /\ pc[p] = "seed" /\ tracker' = tracker
        /\ rows' = [r \in Rows |-> "seed"] /\ pc' = [pc EXCEPT ![p] = "up"]
    BY <1>5 DEF CommitSeed, At, Goto, Up, schema
  <2>2. AllAbsent
    BY <1>5 DEF CommitSeed, SeedInv, AllAbsent
  <2> QED
    BY <2>1, <2>2, IsStart
<1>6. ASSUME NEW p \in Procs, Crash(p)
      PROVE  Rollout!Stop(p) \/ UNCHANGED Rollout!deployment
  <2>1. pc' = [pc EXCEPT ![p] = "look"] /\ tracker' = tracker /\ rows' = rows
    BY <1>6 DEF Crash, Goto, schema
  <2>2. Ups' = Ups \ {p}
    <3>1. Ups' = IF "look" = "up" THEN Ups \union {p} ELSE Ups \ {p}
      BY <2>1, UpsAfter
    <3> QED
      BY <3>1
  <2>3. CASE p \in Ups
    BY <2>1, <2>2, <2>3 DEF Rollout!Stop, Ups
  <2>4. CASE p \notin Ups
    BY <2>1, <2>4, IsUnseen DEF Ups
  <2> QED
    BY <2>3, <2>4
<1>7. ASSUME NEW w \in Writers, CommitCycle(w) PROVE Rollout!Next
  <2> DEFINE R == {r \in Rows : owner[r] = w}
  <2>1. Worker \in Ups
    BY <1>7, Names DEF CommitCycle, WarmInv, Ups
  <2>2. rows' = [r \in Rows |-> IF r \in R THEN "live" ELSE rows[r]]
    BY <1>7 DEF CommitCycle
  <2>3. tracker' = tracker /\ Ups' = Ups
    BY <1>7 DEF CommitCycle, schema, Ups
  <2>4. Rollout!Sync(R)
    BY <2>1, <2>2, <2>3 DEF Rollout!Sync, Ups
  <2> QED
    BY <2>4 DEF Rollout!Next
<1>8. ASSUME \/ \E p \in Procs : InsertSeed(p)
             \/ \E w \in Writers : Put(w) \/ CycleFails(w) \/ \E r \in Rows : Query(w, r)
             \/ UNCHANGED vars
      PROVE  UNCHANGED Rollout!deployment
  BY <1>8 DEF InsertSeed, Put, CycleFails, Query, vars, schema, data, Rollout!deployment
<1> QED
  BY <1>1, <1>2, <1>3, <1>4, <1>5, <1>6, <1>7, <1>8
  DEF Next, BootStep, LiveStep, Rollout!Next

\* The boot implements the deployment it promises, with any number of containers,
\* live syncs, files, rows and faults (run_migrations.py, entrypoint.sh).
THEOREM DeploymentKept == Spec => KeepsTheDeployment
<1>1. Init => Rollout!Init
  BY DEF Init, Rollout!Init
<1> QED
  BY <1>1, Invariance, DeploymentStep, PTL DEF Spec, KeepsTheDeployment, Rollout!Spec
=============================================================================

----------------------------- MODULE Deployment ------------------------------
(***************************************************************************)
(* What the boot of the containers promises whoever operates them, apart    *)
(* from how it works: the database is upgraded file by file in their order, *)
(* the snapshot enters an empty database as a whole or not at all, and a    *)
(* service starts only behind the last file. Once a row is live no boot     *)
(* takes it back, whoever is booting beside the worker that wrote it.       *)
(* scripts/run_migrations.py, entrypoint.sh, docs/07-deployment.md:62-90.   *)
(***************************************************************************)
EXTENDS Naturals

CONSTANTS
  Services,
  Syncing,   \* the service that runs the live syncs
  Records,   \* what is stored under the keys of the snapshot
  Versions   \* number of the last file

VARIABLES
  applied,   \* the files in effect
  content,   \* of each record: absent, of the snapshot, or live
  running

deployment == <<applied, content, running>>

Init ==
  /\ applied = {}
  /\ content = [r \in Records |-> "absent"]
  /\ running = {}

Upgraded == applied = 1 .. Versions

Upgrade(f) ==
  /\ applied = 1 .. f - 1
  /\ applied' = 1 .. f
  /\ UNCHANGED <<content, running>>

\* A service starts, with the snapshot if it finds nothing in its way; or it
\* starts without.
Start(s) ==
  /\ Upgraded
  /\ s \notin running
  /\ running' = running \union {s}
  /\ \/ UNCHANGED content
     \/ /\ \A r \in Records : content[r] = "absent"
        /\ content' = [r \in Records |-> "seed"]
  /\ UNCHANGED applied

Stop(s) ==
  /\ s \in running
  /\ running' = running \ {s}
  /\ UNCHANGED <<applied, content>>

\* A live sync commits the records of a cycle.
Sync(R) ==
  /\ Syncing \in running
  /\ content' = [r \in Records |-> IF r \in R THEN "live" ELSE content[r]]
  /\ UNCHANGED <<applied, running>>

Next ==
  \/ \E f \in 1 .. Versions : Upgrade(f)
  \/ \E s \in Services : Start(s) \/ Stop(s)
  \/ \E R \in SUBSET Records : Sync(R)

Spec == Init /\ [][Next]_deployment
=============================================================================

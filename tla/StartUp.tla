------------------------------ MODULE StartUp ------------------------------
(***************************************************************************)
(* Start-up of the server's processes and the database they share.  A      *)
(* process whose RUN_MIGRATIONS_ON_STARTUP is set upgrades the database to *)
(* the head revision before it serves; the upgrade runs in a thread that   *)
(* asyncio.wait_for gives up on after 60 seconds and cannot stop.  Several *)
(* processes may start at once, and each may be killed at any time.        *)
(*                                                                         *)
(* What the scripts do is a parameter: content is everything in the        *)
(* database but alembic_version.  All of an upgrade is one transaction     *)
(* (env.py opens one around run_migrations), and its first statement waits *)
(* for the transaction of another upgrade, so that an upgrade is one step  *)
(* from there to its commit.  The revision it starts from is read before.  *)
(***************************************************************************)
EXTENDS Naturals

CONSTANTS
  Processes,             \* processes of the server
  Migrating,             \* those with RUN_MIGRATIONS_ON_STARTUP set
  LastRevision,          \* the last revision
  InitialContent(_),     \* content of a database at a revision
  UpgradeScripts(_, _),  \* <<content, revision read>> |-> [ok, db]
  DowngradeScript(_, _), \* <<content, revision>> |-> [ok, db]
  PlayerWrites(_, _),    \* <<content, revision>> |-> contents one player's request leads to
  MaxPlays,              \* bound on those requests
  MaxStarts              \* bound on the starts of processes

ASSUME StartUpAssumption ==
  /\ LastRevision \in Nat
  /\ Migrating \subseteq Processes
  /\ MaxPlays \in Nat
  /\ MaxStarts \in Nat

VARIABLES
  version,   \* the revision in alembic_version
  content,   \* the rest of the database
  phase,     \* where a process is in its lifespan
  thread,    \* what its migration thread does
  seen,      \* the revision that thread has read
  plays, starts

vars == <<version, content, phase, thread, seen, plays, starts>>

Revisions == 0 .. LastRevision
Phases == {"down", "starting", "serving", "failed", "timed_out"}

ThreadStates == {"none", "connecting", "upgrading"}

Init ==
  /\ version \in Revisions
  /\ content = InitialContent(version)
  /\ phase = [p \in Processes |-> "down"]
  /\ thread = [p \in Processes |-> "none"]
  /\ seen = [p \in Processes |-> 0]
  /\ plays = 0
  /\ starts = 0

-----------------------------------------------------------------------------
(* The lifespan of a process.                                              *)

\* A fault: the migrations run whether the setting is on or off.
StartFault(p) ==
  /\ phase[p] = "down" /\ starts < MaxStarts
  /\ starts' = starts + 1
  /\ phase' = [phase EXCEPT ![p] = "starting"]
  /\ thread' = [thread EXCEPT ![p] = "connecting"]
  /\ UNCHANGED <<version, content, seen, plays>>

\* With the setting off, the process serves without a look at the database.
Start(p) ==
  /\ phase[p] = "down" /\ starts < MaxStarts
  /\ starts' = starts + 1
  /\ IF p \in Migrating
     THEN /\ phase' = [phase EXCEPT ![p] = "starting"]
          /\ thread' = [thread EXCEPT ![p] = "connecting"]
     ELSE /\ phase' = [phase EXCEPT ![p] = "serving"]
          /\ thread' = thread
  /\ UNCHANGED <<version, content, seen, plays>>

\* command.upgrade reads alembic_version, without a lock.
ReadVersion(p) ==
  /\ thread[p] = "connecting"
  /\ thread' = [thread EXCEPT ![p] = "upgrading"]
  /\ seen' = [seen EXCEPT ![p] = version]
  /\ UNCHANGED <<version, content, phase, plays, starts>>

\* Each script ends in an UPDATE of alembic_version that must find the
\* revision before it: the first of them fails when another upgrade came first.
Upgrade(from) ==
  IF from = LastRevision THEN [ok |-> TRUE, version |-> version, db |-> content]
  ELSE LET done == UpgradeScripts(content, from)
       IN [ok |-> from = version /\ done.ok, version |-> LastRevision, db |-> done.db]

ThreadEnds(p) ==
  /\ thread' = [thread EXCEPT ![p] = "none"]
  /\ seen' = [seen EXCEPT ![p] = 0]

\* A fault: the exception of the scripts is logged and not raised.
MigrateFault(p) ==
  /\ thread[p] = "upgrading"
  /\ ThreadEnds(p)
  /\ LET done == Upgrade(seen[p])
     IN /\ version' = IF done.ok THEN done.version ELSE version
        /\ content' = IF done.ok THEN done.db ELSE content
        /\ phase' = [phase EXCEPT ![p] = IF @ = "starting" THEN "serving" ELSE @]
  /\ UNCHANGED <<plays, starts>>

\* A fault: the statements commit one by one, so that a refused one leaves what
\* those before it have done.
MigrateHalfwayFault(p) ==
  /\ thread[p] = "upgrading"
  /\ ThreadEnds(p)
  /\ LET done == Upgrade(seen[p])
         outcome == IF done.ok THEN "serving" ELSE "failed"
     IN /\ version' = IF done.ok THEN done.version ELSE version
        /\ content' = done.db
        /\ phase' = [phase EXCEPT ![p] = IF @ = "starting" THEN outcome ELSE @]
  /\ UNCHANGED <<plays, starts>>

\* The thread ends: a refused statement undoes the whole upgrade, and the
\* exception reaches the lifespan if that still waits.
Migrate(p) ==
  /\ thread[p] = "upgrading"
  /\ ThreadEnds(p)
  /\ LET done == Upgrade(seen[p])
         outcome == IF done.ok THEN "serving" ELSE "failed"
     IN /\ version' = IF done.ok THEN done.version ELSE version
        /\ content' = IF done.ok THEN done.db ELSE content
        /\ phase' = [phase EXCEPT ![p] = IF @ = "starting" THEN outcome ELSE @]
  /\ UNCHANGED <<plays, starts>>

\* The database does not answer the thread.
ConnectionLost(p) ==
  /\ thread[p] # "none"
  /\ ThreadEnds(p)
  /\ phase' = [phase EXCEPT ![p] = IF @ = "starting" THEN "failed" ELSE @]
  /\ UNCHANGED <<version, content, plays, starts>>

\* Faults: the timeout is logged and not raised; the migrations block the
\* event loop, so that the timer cannot go off before they are done.
TimeoutServes(p) ==
  /\ phase[p] = "starting"
  /\ phase' = [phase EXCEPT ![p] = "serving"]
  /\ UNCHANGED <<version, content, thread, seen, plays, starts>>
TimeoutBlocked(p) ==
  /\ phase[p] = "starting" /\ thread[p] = "none"
  /\ phase' = [phase EXCEPT ![p] = "timed_out"]
  /\ UNCHANGED <<version, content, thread, seen, plays, starts>>

\* STARTUP_MIGRATION_TIMEOUT_SECONDS have passed; the thread goes on.
Timeout(p) ==
  /\ phase[p] = "starting"
  /\ phase' = [phase EXCEPT ![p] = "timed_out"]
  /\ UNCHANGED <<version, content, thread, seen, plays, starts>>

\* The interpreter joins the thread before it exits.
Exit(p) ==
  /\ phase[p] \in {"failed", "timed_out"} /\ thread[p] = "none"
  /\ phase' = [phase EXCEPT ![p] = "down"]
  /\ UNCHANGED <<version, content, thread, seen, plays, starts>>

\* The process is stopped or killed: PostgreSQL undoes its transaction.
Stop(p) ==
  /\ phase[p] # "down"
  /\ phase' = [phase EXCEPT ![p] = "down"]
  /\ ThreadEnds(p)
  /\ UNCHANGED <<version, content, plays, starts>>

-----------------------------------------------------------------------------
(* The world around them.                                                  *)

\* The operator runs `alembic downgrade -1` while no process is up.
Downgrade ==
  /\ \A p \in Processes : phase[p] = "down"
  /\ version > 0
  /\ LET done == DowngradeScript(content, version) IN
     /\ done.ok
     /\ content' = done.db
     /\ version' = version - 1
  /\ UNCHANGED <<phase, thread, seen, plays, starts>>

\* A request of a player, served by the program of that revision.
Play ==
  /\ plays < MaxPlays
  /\ content' \in PlayerWrites(content, version)
  /\ plays' = plays + 1
  /\ UNCHANGED <<version, phase, thread, seen, starts>>

Next ==
  \/ \E p \in Processes :
       \/ Start(p) \/ ReadVersion(p) \/ Migrate(p) \/ ConnectionLost(p)
       \/ Timeout(p) \/ Exit(p) \/ Stop(p)
  \/ Downgrade
  \/ Play

\* Only the timer of wait_for is sure to go off.
Spec == Init /\ [][Next]_vars /\ \A p \in Processes : WF_vars(Timeout(p))

-----------------------------------------------------------------------------

\* Every variable keeps its type, which for a process that is told not to
\* migrate has no thread and nothing to wait for or to fail on (lifespan).
TypeOK ==
  /\ version \in Revisions
  /\ phase \in [Processes -> Phases]
  /\ thread \in [Processes -> ThreadStates]
  /\ seen \in [Processes -> Revisions]
  /\ plays \in 0 .. MaxPlays
  /\ starts \in 0 .. MaxStarts
  /\ \A p \in Processes \ Migrating : phase[p] \in {"down", "serving"} /\ thread[p] = "none"

\* A process that migrates at its start serves a database at the head
\* revision only, whichever threads of others end while it serves, in
\* whatever order, and whichever of them time out.
ServesOnlyHead == \A p \in Migrating : phase[p] = "serving" => version = LastRevision

\* A thread outlives its lifespan only in a process that is about to exit:
\* nobody serves while an upgrade of its own process is still under way.
NoUpgradeBehindServing == \A p \in Processes : phase[p] = "serving" => thread[p] = "none"

\* A start ends, in serving or in a failure, though the database may never
\* answer the migration thread (lifespan, main.py).
StartUpEnds == \A p \in Processes : phase[p] = "starting" ~> phase[p] # "starting"

=============================================================================

--------------------------- MODULE StartUpProofs ---------------------------
(***************************************************************************)
(* Proofs about StartUp: for any number of processes, any scripts and any  *)
(* content of the database.                                                *)
(***************************************************************************)
EXTENDS StartUp, TLAPS

\* An upgrade that found the database at the head has nothing to write, and
\* the head is left only when no process is up; a thread belongs to a process
\* that has not begun to serve.
Inv ==
  /\ TypeOK
  /\ \A p \in Migrating : phase[p] = "serving" => version = LastRevision
  /\ \A p \in Processes :
       /\ phase[p] = "serving" => thread[p] = "none"
       /\ phase[p] = "down" => thread[p] = "none"
       /\ thread[p] = "upgrading" /\ seen[p] = LastRevision => version = LastRevision

StepsOf(p) == \/ Start(p) \/ ReadVersion(p) \/ Migrate(p) \/ ConnectionLost(p)
              \/ Timeout(p) \/ Exit(p) \/ Stop(p)

\* Every process starts down.
LEMMA InvInit == Init => Inv
  BY StartUpAssumption DEF Init, Inv, TypeOK, Phases, ThreadStates, Revisions

\* An upgrade that succeeds leaves the head; one from the head finds it there.
LEMMA UpgradeReachesHead ==
  ASSUME Inv, NEW p \in Processes, thread[p] = "upgrading", Upgrade(seen[p]).ok
  PROVE  Upgrade(seen[p]).version = LastRevision
  BY DEF Inv, Upgrade

\* The end of a migration thread.
LEMMA MigrateStep ==
  ASSUME Inv, NEW p \in Processes, Migrate(p)
  PROVE  Inv'
<1> DEFINE done == Upgrade(seen[p])
<1>1. version' = version \/ version' = LastRevision
  BY UpgradeReachesHead DEF Migrate
<1>2. phase[p] = "starting" /\ phase'[p] = "serving" => version' = LastRevision
  BY UpgradeReachesHead DEF Migrate, Inv, TypeOK
<1>3. /\ version' \in Revisions
      /\ thread' = [thread EXCEPT ![p] = "none"] /\ seen' = [seen EXCEPT ![p] = 0]
      /\ phase' = [phase EXCEPT ![p] = IF @ = "starting"
                                       THEN IF done.ok THEN "serving" ELSE "failed" ELSE @]
      /\ plays' = plays /\ starts' = starts
  BY <1>1, StartUpAssumption DEF Migrate, ThreadEnds, Inv, TypeOK, Revisions
<1>4. TypeOK'
  BY <1>3, StartUpAssumption DEF Inv, TypeOK, Phases, ThreadStates, Revisions
<1>5. \A q \in Migrating : phase'[q] = "serving" => version' = LastRevision
  BY <1>1, <1>2, <1>3, StartUpAssumption DEF Inv, TypeOK, Phases, Migrate
<1>6. \A q \in Processes :
        /\ phase'[q] = "serving" => thread'[q] = "none"
        /\ phase'[q] = "down" => thread'[q] = "none"
        /\ thread'[q] = "upgrading" /\ seen'[q] = LastRevision => version' = LastRevision
  BY <1>1, <1>3 DEF Inv, TypeOK
<1> QED BY <1>4, <1>5, <1>6 DEF Inv

\* Any other step of one process changes only what is its own.
LEMMA ProcessStep ==
  ASSUME Inv, NEW p \in Processes, StepsOf(p)
  PROVE  Inv'
<1>1. CASE Start(p)
  BY <1>1, StartUpAssumption DEF Start, Inv, TypeOK, Phases, ThreadStates, Revisions
<1>2. CASE ReadVersion(p)
  BY <1>2, StartUpAssumption DEF ReadVersion, Inv, TypeOK, Phases, ThreadStates, Revisions
<1>3. CASE Migrate(p)
  BY <1>3, MigrateStep
<1>4. CASE ConnectionLost(p)
  BY <1>4, StartUpAssumption
  DEF ConnectionLost, ThreadEnds, Inv, TypeOK, Phases, ThreadStates, Revisions
<1>5. CASE Timeout(p)
  BY <1>5, StartUpAssumption DEF Timeout, Inv, TypeOK, Phases, ThreadStates, Revisions
<1>6. CASE Exit(p)
  BY <1>6, StartUpAssumption DEF Exit, Inv, TypeOK, Phases, ThreadStates, Revisions
<1>7. CASE Stop(p)
  BY <1>7, StartUpAssumption DEF Stop, ThreadEnds, Inv, TypeOK, Phases, ThreadStates, Revisions
<1> QED BY <1>1, <1>2, <1>3, <1>4, <1>5, <1>6, <1>7 DEF StepsOf

\* The head is left only when no process is up, so that none serves and no
\* thread remembers it.
LEMMA DowngradeStep ==
  ASSUME Inv, Downgrade
  PROVE  Inv'
<1>1. version' \in Revisions
  BY StartUpAssumption DEF Downgrade, Inv, TypeOK, Revisions
<1> QED
  BY <1>1, StartUpAssumption DEF Downgrade, Inv, TypeOK

\* A player changes the content only.
LEMMA PlayStep ==
  ASSUME Inv, Play
  PROVE  Inv'
  BY StartUpAssumption DEF Play, Inv, TypeOK, Revisions

LEMMA InvNext == Inv /\ [Next]_vars => Inv'
<1> SUFFICES ASSUME Inv, [Next]_vars PROVE Inv'
  OBVIOUS
<1>1. CASE \E p \in Processes : StepsOf(p)
  BY <1>1, ProcessStep
<1>2. CASE Downgrade
  BY <1>2, DowngradeStep
<1>3. CASE Play
  BY <1>3, PlayStep
<1>4. CASE UNCHANGED vars
  BY <1>4 DEF vars, Inv, TypeOK
<1> QED BY <1>1, <1>2, <1>3, <1>4 DEF Next, StepsOf

\* The inductive invariant: what threads and processes know about the
\* revision agrees with the database (main.py lifespan, alembic/env.py).
THEOREM StartUpInvariant == Spec => []Inv
  BY InvInit, InvNext, PTL DEF Spec

\* Every variable of a start-up keeps its type, and no process migrates that
\* is told not to.
THEOREM StartUpTypeCorrect == Spec => []TypeOK
<1>1. Inv => TypeOK
  BY DEF Inv
<1> QED BY <1>1, StartUpInvariant, PTL

\* No process that migrates serves behind the head, for any number of racing,
\* failing and killed processes and whatever the scripts do.
THEOREM ServesHead == Spec => []ServesOnlyHead
<1>1. Inv => ServesOnlyHead
  BY DEF Inv, ServesOnlyHead
<1> QED BY <1>1, StartUpInvariant, PTL

\* No process serves while its own migration thread is still at work.
THEOREM ThreadHasEnded == Spec => []NoUpgradeBehindServing
<1>1. Inv => NoUpgradeBehindServing
  BY DEF Inv, NoUpgradeBehindServing
<1> QED BY <1>1, StartUpInvariant, PTL

=============================================================================

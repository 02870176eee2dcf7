----------------------- MODULE DaemonProcessesProofs -----------------------
(***************************************************************************)
(* DaemonProcesses for any number of pids, features, rows and events: the  *)
(* inductive invariant Consistent, a lemma for each of its conjuncts, and  *)
(* the theorems that follow from it.                                       *)
(***************************************************************************)
EXTENDS DaemonProcesses, TLAPS

\* The initial state satisfies the invariant.
LEMMA InitConsistent == Init => Consistent
<1> SUFFICES ASSUME Init PROVE Consistent
  OBVIOUS
<1>1. TypeOK
  BY ProcessAssumption DEF Init, TypeOK, Stage
<1>2. AloneInWindow /\ FileNamesDaemon /\ FileNamesNoStranger
  BY ProcessAssumption
  DEF Init, AloneInWindow, FileNamesDaemon, FileNamesNoStranger, Window,
      Working, Polling, NoFile
<1>3. WorkersAtHome /\ NoLiveRunReaped
  BY DEF Init, WorkersAtHome, NoLiveRunReaped
<1>4. SelectedByClaimers /\ SelectedOnce /\ ClaimedOnce
  BY DEF Init, SelectedByClaimers, SelectedOnce, ClaimedOnce,
         ClaimsAreExclusive, Choosing
<1>5. SeenByProbers
  BY DEF Init, SeenByProbers
<1> QED
  BY <1>1, <1>2, <1>3, <1>4, <1>5 DEF Consistent

\* Using up a budget keeps the counters' type.
LEMMA SpendType ==
    ASSUME spent \in [Kind -> Nat], NEW k \in Kind, Spend(k)
    PROVE  spent' \in [Kind -> Nat]
  BY DEF Spend

\* What SetFeatureStatus does to the two tables it is counted in.
LEMMA SetStatusType ==
    ASSUME TypeOK, NEW f \in FeatureId, NEW s \in {"draft", "claimed", "final"},
           SetStatus(f, s)
    PROVE  /\ status' \in [FeatureId -> {"draft", "claimed", "final"}]
           /\ released' \in [FeatureId -> Nat]
  BY DEF SetStatus, TypeOK

\* Where the guard leads a start that is not refused.
LEMMA GuardLeads ==
    ASSUME NEW p \in Pid, GuardReads(p) \/ GuardPasses(p)
    PROVE  \/ /\ pidFile \in Pid
              /\ seen' = [seen EXCEPT ![p] = pidFile]
              /\ Goto(p, "probe")
           \/ /\ seen' = seen \/ seen' = [seen EXCEPT ![p] = 0]
              /\ Goto(p, "truncate")
<1>1. \A pid : Passes(p, pid) => Goto(p, "truncate")
  BY DEF Passes
<1> QED
  BY <1>1 DEF GuardReads, GuardPasses

\* A step keeps every variable's type.
LEMMA TypeStep ==
    TypeOK /\ SelectedByClaimers /\ WorkersAtHome /\ [Next]_vars => TypeOK'
<1> SUFFICES ASSUME TypeOK, SelectedByClaimers, WorkersAtHome, [Next]_vars
             PROVE  TypeOK'
  OBVIOUS
<1> USE ProcessAssumption
    DEF TypeOK, Stage, Window, Working, Polling, Goto, history, claims
<1>1. ASSUME NEW p \in Pid, NEW s \in {"guard", "hand", "other"}, Launch(p, s),
             spent' \in [Kind -> Nat]
      PROVE  TypeOK'
  BY <1>1 DEF Launch, files, tables, work
<1>2. ASSUME NEW p \in Pid, LaunchStart(p) \/ LaunchClaim(p) \/ LaunchStranger(p)
      PROVE  TypeOK'
  BY <1>1, <1>2, SpendType DEF LaunchStart, LaunchClaim, LaunchStranger, Kind
<1>3. ASSUME NEW p \in Pid, Gone(p)
      PROVE  /\ stage' \in [Pid -> Stage]
             /\ told' \in SUBSET Pid
             /\ seen' \in [Pid -> Pid \cup {0}]
             /\ holds' \in SUBSET Pid
             /\ sel' \in [Pid -> FeatureId \cup {0}]
             /\ worker' \in [RunId -> Pid \cup {0}]
             /\ settled' \in SUBSET RunId
  BY <1>3 DEF Gone
<1>4. ASSUME NEW p \in Pid, Crash(p) PROVE TypeOK'
  BY <1>3, <1>4, SpendType DEF Crash, tables, Kind
<1>5. ASSUME NEW p \in Pid,
             \/ StrangerEnds(p) \/ GuardRefuses(p) \/ RunReturns(p)
             \/ CloseDatabase(p)
      PROVE  TypeOK'
  BY <1>5
  DEF StrangerEnds, GuardRefuses, FileAfterRefusal, RunReturns, CloseDatabase,
      files, tables, work
<1>6. ASSUME NEW p \in Pid, GuardReads(p) \/ GuardPasses(p) PROVE TypeOK'
  <2>1. overlapped' \in BOOLEAN
    BY <1>6 DEF GuardReads, GuardPasses, Passes
  <2>2. stage' \in [Pid -> Stage] /\ seen' \in [Pid -> Pid \cup {0}]
    BY <1>6, GuardLeads
  <2> QED
    BY <1>6, <2>1, <2>2 DEF GuardReads, GuardPasses, files, tables, work
<1>7. ASSUME NEW p \in Pid,
             TruncatePidFile(p) \/ WritePidFile(p) \/ RemovePidFile(p)
      PROVE  TypeOK'
  BY <1>7
  DEF TruncatePidFile, WritePidFile, RemovePidFile, files, tables, work
<1>8. ASSUME NEW p \in Pid,
             \/ WritePidFileFails(p) \/ LoadConfig(p) \/ ClaimNothing(p)
             \/ StartRunFails(p)
      PROVE  TypeOK'
  BY <1>8, SpendType
  DEF WritePidFileFails, LoadConfig, ClaimNothing, StartRunFails, files,
      tables, work, Kind
<1>9. ASSUME NEW p \in Pid, Reap(p) PROVE TypeOK'
  BY <1>9 DEF Reap, files, work
<1>10. ASSUME NEW p \in Pid, SelectFeature(p) PROVE TypeOK'
  BY <1>10 DEF SelectFeature, ClaimCandidates, files, tables
<1>11. ASSUME NEW p \in Pid, ClaimFeature(p) PROVE TypeOK'
  <2>1. sel[p] \in FeatureId
    BY <1>11 DEF ClaimFeature, Choosing
  <2>2. /\ status' \in [FeatureId -> {"draft", "claimed", "final"}]
        /\ released' \in [FeatureId -> Nat]
    BY <1>11, <2>1, SetStatusType DEF ClaimFeature
  <2>3. PICK f \in FeatureId : granted' = [granted EXCEPT ![f] = @ + 1]
    BY <1>11, <2>1 DEF ClaimFeature
  <2>4. granted' \in [FeatureId -> Nat]
    BY <2>3
  <2> QED
    BY <1>11, <2>2, <2>4 DEF ClaimFeature, files
<1>12. ASSUME NEW p \in Pid, ClaimFails(p) PROVE TypeOK'
  <2>1. /\ status' \in [FeatureId -> {"draft", "claimed", "final"}]
        /\ released' \in [FeatureId -> Nat]
    BY <1>12, SetStatusType DEF ClaimFails, Choosing
  <2> QED
    BY <1>12, <2>1, SpendType DEF ClaimFails, Choosing, files, Kind
<1>13. ASSUME NEW p \in Pid, StartWorker(p) PROVE TypeOK'
  BY <1>13 DEF StartWorker, files
<1>14. ASSUME NEW p \in Pid, RollBack(p) PROVE TypeOK'
  <2>1. /\ status' \in [FeatureId -> {"draft", "claimed", "final"}]
        /\ released' \in [FeatureId -> Nat]
    BY <1>14, SetStatusType DEF RollBack, SelectedByClaimers
  <2> QED
    BY <1>14, <2>1, SpendType DEF RollBack, files, Kind
<1>15. CASE StopReads
  BY <1>15, SpendType DEF StopReads, files, tables, work, Kind
<1>16. CASE StopSignals
  <2>1. stage' \in [Pid -> Stage] /\ told' \in SUBSET Pid
        /\ seen' \in [Pid -> Pid \cup {0}] /\ holds' \in SUBSET Pid
        /\ sel' \in [Pid -> FeatureId \cup {0}]
        /\ worker' \in [RunId -> Pid \cup {0}] /\ settled' \in SUBSET RunId
    BY <1>3, <1>16 DEF StopSignals, work
  <2> QED
    BY <1>16, <2>1 DEF StopSignals, tables
<1>17. ASSUME NEW f \in FeatureId, PersonSetsStatus(f) PROVE TypeOK'
  <2>1. /\ status' \in [FeatureId -> {"draft", "claimed", "final"}]
        /\ released' \in [FeatureId -> Nat]
    BY <1>17, SetStatusType DEF PersonSetsStatus
  <2> QED
    BY <1>17, <2>1, SpendType DEF PersonSetsStatus, files, work, Kind
<1>18. ASSUME NEW r \in RunId, WorkerSettles(r) PROVE TypeOK'
  <2>1. /\ status' \in [FeatureId -> {"draft", "claimed", "final"}]
        /\ released' \in [FeatureId -> Nat]
    BY <1>18, SetStatusType DEF WorkerSettles, WorkersAtHome
  <2> QED
    BY <1>18, <2>1, SpendType DEF WorkerSettles, files, Kind
<1>19. ASSUME NEW r \in RunId, WorkerFinishes(r) PROVE TypeOK'
  BY <1>19, SpendType DEF WorkerFinishes, files, Kind
<1>20. CASE UNCHANGED vars
  BY <1>20 DEF vars, files, tables, work
<1> QED
  BY <1>2, <1>4, <1>5, <1>6, <1>7, <1>8, <1>9, <1>10, <1>11, <1>12, <1>13,
     <1>14, <1>15, <1>16, <1>17, <1>18, <1>19, <1>20
  DEF Next, Process

(* The pid file.                                                            *)

\* The actions that move a process, write the pid file or open it.
LEMMA FileFrame ==
    [Next]_vars =>
        \/ UNCHANGED <<stage, seen, pidFile, holds, overlapped, recycled>>
        \/ \E p \in Pid :
              \/ \E s \in {"guard", "hand", "other"} : Launch(p, s)
              \/ Crash(p) \/ GuardReads(p) \/ GuardRefuses(p) \/ GuardPasses(p)
              \/ TruncatePidFile(p) \/ WritePidFile(p) \/ WritePidFileFails(p)
              \/ LoadConfig(p) \/ Reap(p) \/ RunReturns(p) \/ RemovePidFile(p)
              \/ StrangerEnds(p) \/ CloseDatabase(p) \/ ClaimNothing(p)
              \/ ClaimFeature(p) \/ ClaimFails(p)
              \/ StartWorker(p) \/ StartRunFails(p) \/ RollBack(p)
        \/ StopSignals
  BY DEF Next, Process, vars, files, history, LaunchStart, LaunchClaim,
         LaunchStranger, SelectFeature, StopReads, PersonSetsStatus,
         WorkerSettles, WorkerFinishes

\* The steps of a process that is past the guard, or not a start at all, and
\* leaves the file alone: what works goes on working, anything else is gone.
Moves(p) ==
    \/ StrangerEnds(p) \/ CloseDatabase(p) \/ ClaimNothing(p)
    \/ LoadConfig(p) \/ Reap(p) \/ RunReturns(p)
    \/ ClaimFeature(p) \/ ClaimFails(p)
    \/ StartWorker(p) \/ StartRunFails(p) \/ RollBack(p)

\* Where such a step leads.
LEMMA MovesFrom ==
    ASSUME TypeOK, NEW p \in Pid, Moves(p)
    PROVE  /\ UNCHANGED <<seen, pidFile, holds, overlapped, recycled>>
           /\ stage[p] \notin {"guard", "probe", "free"} \cup Window
           /\ \/ /\ stage[p] \in Working
                 /\ \E s \in Working : Goto(p, s)
              \/ /\ stage[p] \notin Working
                 /\ Goto(p, "free")
  BY DEF Moves, StrangerEnds, CloseDatabase, ClaimNothing, LoadConfig, Reap,
         RunReturns, ClaimFeature, ClaimFails, Choosing, StartWorker,
         StartRunFails, RollBack, files, history, Window, Working, Polling

\* What a process that goes leaves of the pid file's bookkeeping.
LEMMA GoneLeaves ==
    ASSUME TypeOK, NEW p \in Pid, Gone(p)
    PROVE  /\ stage'[p] = "free" /\ seen'[p] = 0
           /\ \A q \in Pid \ {p} :
                 /\ stage'[q] = stage[q]
                 /\ seen'[q] = seen[q]
                 /\ q \in holds' <=> q \in holds
  BY DEF Gone, Goto, TypeOK

\* A start has a pid in hand from its reading of the file to its probe.
LEMMA SeenStep == TypeOK /\ SeenByProbers /\ [Next]_vars => SeenByProbers'
<1> SUFFICES ASSUME TypeOK, SeenByProbers, [Next]_vars PROVE SeenByProbers'
  OBVIOUS
<1> USE ProcessAssumption DEF SeenByProbers, Goto
<1>t. /\ stage \in [Pid -> Stage]
      /\ seen \in [Pid -> Pid \cup {0}]
  BY DEF TypeOK
<1>1. ASSUME NEW p \in Pid, NEW s \in {"guard", "hand", "other"}, Launch(p, s)
      PROVE  SeenByProbers'
  BY <1>t, <1>1 DEF Launch
<1>2. ASSUME NEW p \in Pid, Gone(p) PROVE SeenByProbers'
  BY <1>t, <1>2, GoneLeaves
<1>3. ASSUME NEW p \in Pid, Crash(p) PROVE SeenByProbers'
  BY <1>2, <1>3 DEF Crash
<1>4. ASSUME NEW p \in Pid, GuardReads(p) \/ GuardRefuses(p) \/ GuardPasses(p)
      PROVE  SeenByProbers'
  BY <1>t, <1>4 DEF GuardReads, GuardRefuses, GuardPasses, Passes
<1>5. ASSUME NEW p \in Pid,
             \/ TruncatePidFile(p) \/ WritePidFile(p) \/ WritePidFileFails(p)
             \/ RemovePidFile(p)
      PROVE  SeenByProbers'
  BY <1>t, <1>5
  DEF TruncatePidFile, WritePidFile, WritePidFileFails, RemovePidFile, Window
<1>6. ASSUME NEW p \in Pid, Moves(p) PROVE SeenByProbers'
  BY <1>t, <1>6, MovesFrom DEF Working, Polling
<1>7. CASE StopSignals
  <2>1. inHand \in Pid
    BY <1>7 DEF StopSignals, TypeOK
  <2> QED
    BY <1>t, <1>2, <1>7, <2>1 DEF StopSignals
<1>8. CASE UNCHANGED <<stage, seen, pidFile, holds, overlapped, recycled>>
  BY <1>8
<1> QED
  BY FileFrame, <1>1, <1>3, <1>4, <1>5, <1>6, <1>7, <1>8 DEF Moves

\* Only a start whose guard found nobody enters the window, and unless the
\* file has changed since it read it there is nobody indeed, so it is alone
\* there; only the one that leaves the window writes the file, and only a
\* daemon that the file names removes it.
LEMMA FileStep ==
    TypeOK /\ SeenByProbers /\ AloneInWindow /\ FileNamesDaemon /\ [Next]_vars
        => AloneInWindow' /\ FileNamesDaemon'
<1> SUFFICES ASSUME TypeOK, SeenByProbers, AloneInWindow, FileNamesDaemon,
                    [Next]_vars
             PROVE  AloneInWindow' /\ FileNamesDaemon'
  OBVIOUS
<1> USE ProcessAssumption
    DEF AloneInWindow, FileNamesDaemon, Window, Working, Polling, Goto
<1>t. /\ stage \in [Pid -> Stage] /\ holds \in SUBSET Pid
      /\ pidFile \in Pid \cup {NoFile, EmptyFile}
      /\ seen \in [Pid -> Pid \cup {0}]
  BY DEF TypeOK
<1>1. ASSUME NEW p \in Pid, NEW s \in {"guard", "hand", "other"}, Launch(p, s)
      PROVE  AloneInWindow' /\ FileNamesDaemon'
  BY <1>t, <1>1 DEF Launch, files
<1>g. ASSUME NEW p \in Pid, Gone(p),
             pidFile' = pidFile, UNCHANGED overlapped
      PROVE  AloneInWindow' /\ FileNamesDaemon'
  BY <1>t, <1>g, GoneLeaves
<1>2. ASSUME NEW p \in Pid, Crash(p) PROVE AloneInWindow' /\ FileNamesDaemon'
  BY <1>g, <1>2 DEF Crash, history
<1>3. ASSUME NEW p \in Pid, GuardRefuses(p)
      PROVE  AloneInWindow' /\ FileNamesDaemon'
  BY <1>t, <1>3 DEF GuardRefuses, FileAfterRefusal, history
<1>p. ASSUME NEW p \in Pid, NEW pid \in Pid \cup {0}, Passes(p, pid),
             pid = 0 => pidFile \notin Pid,
             pid # 0 => stage[pid] = "free",
             stage[p] \in {"guard", "probe"}, UNCHANGED files
      PROVE  AloneInWindow' /\ FileNamesDaemon'
  <2>1. ASSUME ~overlapped', NEW q \in Pid, stage[q] \in Window \cup Working
        PROVE  FALSE
    BY <1>t, <1>p, <2>1 DEF Passes
  <2>2. overlapped => overlapped'
    BY <1>p DEF Passes
  <2> QED
    BY <1>t, <1>p, <2>1, <2>2 DEF Passes, files
<1>4. ASSUME NEW p \in Pid, GuardReads(p)
      PROVE  AloneInWindow' /\ FileNamesDaemon'
  <2>1. CASE pidFile \in Pid
    BY <1>t, <1>4, <2>1 DEF GuardReads, files
  <2>2. CASE pidFile \notin Pid
    BY <1>4, <1>p, <2>2 DEF GuardReads
  <2> QED
    BY <2>1, <2>2
<1>5. ASSUME NEW p \in Pid, GuardPasses(p)
      PROVE  AloneInWindow' /\ FileNamesDaemon'
  <2>1. seen[p] \in Pid /\ stage[seen[p]] = "free"
    BY <1>t, <1>5 DEF GuardPasses, Answers, SeenByProbers
  <2> QED
    BY <1>5, <1>p, <2>1 DEF GuardPasses
<1>6. ASSUME NEW p \in Pid, TruncatePidFile(p)
      PROVE  AloneInWindow' /\ FileNamesDaemon'
  BY <1>t, <1>6 DEF TruncatePidFile, history
<1>7. ASSUME NEW p \in Pid, WritePidFile(p)
      PROVE  AloneInWindow' /\ FileNamesDaemon'
  BY <1>t, <1>7 DEF WritePidFile, history
<1>8. ASSUME NEW p \in Pid, WritePidFileFails(p)
      PROVE  AloneInWindow' /\ FileNamesDaemon'
  BY <1>t, <1>8 DEF WritePidFileFails, history
<1>9. ASSUME NEW p \in Pid, Moves(p)
      PROVE  AloneInWindow' /\ FileNamesDaemon'
  BY <1>t, <1>9, MovesFrom
<1>10. ASSUME NEW p \in Pid, RemovePidFile(p)
      PROVE  AloneInWindow' /\ FileNamesDaemon'
  BY <1>t, <1>10 DEF RemovePidFile, history
<1>11. CASE StopSignals
  <2>1. inHand \in Pid
    BY <1>11 DEF StopSignals, TypeOK
  <2> QED
    BY <1>t, <1>g, <1>11, <2>1 DEF StopSignals, history
<1>12. CASE UNCHANGED <<stage, seen, pidFile, holds, overlapped, recycled>>
  BY <1>12
<1> QED
  BY FileFrame, <1>1, <1>2, <1>3, <1>4, <1>5, <1>6, <1>7, <1>8, <1>9, <1>10,
     <1>11, <1>12 DEF Moves

\* A pid gets into the file only from the daemon that has it, and such a
\* daemon either stays one or removes the file and goes; after that the pid
\* goes to a new process only at the price of recycled.
LEMMA StrangerStep ==
    TypeOK /\ SeenByProbers /\ FileNamesNoStranger /\ [Next]_vars
        => FileNamesNoStranger'
<1> SUFFICES ASSUME TypeOK, SeenByProbers, FileNamesNoStranger, [Next]_vars
             PROVE  FileNamesNoStranger'
  OBVIOUS
<1> USE ProcessAssumption
    DEF FileNamesNoStranger, Window, Working, Polling, Goto, NoFile, EmptyFile
<1>t. /\ stage \in [Pid -> Stage] /\ holds \in SUBSET Pid
      /\ pidFile \in Pid \cup {NoFile, EmptyFile}
      /\ seen \in [Pid -> Pid \cup {0}]
  BY DEF TypeOK
<1>1. ASSUME NEW p \in Pid, NEW s \in {"guard", "hand", "other"}, Launch(p, s)
      PROVE  FileNamesNoStranger'
  BY <1>t, <1>1 DEF Launch, files
<1>g. ASSUME NEW p \in Pid, Gone(p),
             pidFile' = pidFile, UNCHANGED recycled
      PROVE  FileNamesNoStranger'
  BY <1>t, <1>g, GoneLeaves
<1>2. ASSUME NEW p \in Pid, Crash(p) PROVE FileNamesNoStranger'
  BY <1>g, <1>2 DEF Crash, history
<1>3. ASSUME NEW p \in Pid, GuardReads(p) \/ GuardRefuses(p) \/ GuardPasses(p)
      PROVE  FileNamesNoStranger'
  <2>1. CASE GuardReads(p) \/ GuardPasses(p)
    <3>1. /\ UNCHANGED <<pidFile, recycled>>
          /\ stage[p] \in {"guard", "probe"}
      BY <2>1 DEF GuardReads, GuardPasses, files
    <3> QED
      BY <1>t, <2>1, <3>1, GuardLeads
  <2>2. CASE GuardRefuses(p)
    BY <1>t, <2>2 DEF GuardRefuses, FileAfterRefusal, history
  <2> QED
    BY <1>3, <2>1, <2>2
<1>4. ASSUME NEW p \in Pid, TruncatePidFile(p) \/ WritePidFileFails(p)
      PROVE  FileNamesNoStranger'
  BY <1>t, <1>4 DEF TruncatePidFile, WritePidFileFails, files, history
<1>5. ASSUME NEW p \in Pid, WritePidFile(p) \/ RemovePidFile(p)
      PROVE  FileNamesNoStranger'
  BY <1>t, <1>5 DEF WritePidFile, RemovePidFile, history
<1>6. ASSUME NEW p \in Pid, Moves(p)
      PROVE  FileNamesNoStranger'
  BY <1>t, <1>6, MovesFrom
<1>7. CASE StopSignals
  <2>1. inHand \in Pid
    BY <1>7 DEF StopSignals, TypeOK
  <2> QED
    BY <1>t, <1>g, <1>7, <2>1 DEF StopSignals, history
<1>8. CASE UNCHANGED <<stage, seen, pidFile, holds, overlapped, recycled>>
  BY <1>8
<1> QED
  BY FileFrame, <1>1, <1>2, <1>3, <1>4, <1>5, <1>6, <1>7, <1>8 DEF Moves

(* The run rows.                                                            *)

\* Workers are started by a daemon in its loop, which does not leave the loop
\* before they are gone; only they and the start of another daemon write
\* their rows, and a second daemon needs an overlap.
LEMMA WorkStep ==
    TypeOK /\ FileNamesDaemon /\ WorkersAtHome /\ NoLiveRunReaped
    /\ SelectedByClaimers /\ [Next]_vars
        => WorkersAtHome' /\ NoLiveRunReaped'
<1> SUFFICES ASSUME TypeOK, FileNamesDaemon, WorkersAtHome, NoLiveRunReaped,
                    SelectedByClaimers, [Next]_vars
             PROVE  WorkersAtHome' /\ NoLiveRunReaped'
  OBVIOUS
<1> USE ProcessAssumption DEF WorkersAtHome, NoLiveRunReaped, Goto, Polling
<1>t. /\ stage \in [Pid -> Stage]
      /\ sel \in [Pid -> FeatureId \cup {0}]
      /\ runFeature \in [RunId -> FeatureId \cup {0}]
      /\ runResult \in [RunId -> {"none", "running", "completed", "error"}]
      /\ worker \in [RunId -> Pid \cup {0}]
  BY DEF TypeOK
<1>1. ASSUME NEW p \in Pid, stage[p] \notin Polling,
             NEW s \in Stage, Goto(p, s), overlapped => overlapped',
             UNCHANGED <<runFeature, runResult, worker>>
      PROVE  WorkersAtHome' /\ NoLiveRunReaped'
  BY <1>t, <1>1
<1>2. ASSUME NEW p \in Pid,
             \/ LaunchStart(p) \/ LaunchClaim(p) \/ LaunchStranger(p)
             \/ StrangerEnds(p) \/ CloseDatabase(p) \/ ClaimNothing(p)
             \/ GuardReads(p) \/ GuardRefuses(p) \/ GuardPasses(p)
             \/ TruncatePidFile(p) \/ WritePidFile(p) \/ WritePidFileFails(p)
             \/ LoadConfig(p) \/ RemovePidFile(p)
      PROVE  WorkersAtHome' /\ NoLiveRunReaped'
  <2> USE DEF tables, work, history, Stage, Window, Working
  <2>1. CASE LaunchStart(p) \/ LaunchClaim(p) \/ LaunchStranger(p)
    <3>1. PICK s \in {"guard", "hand", "other"} : Launch(p, s)
      BY <2>1 DEF LaunchStart, LaunchClaim, LaunchStranger
    <3> QED
      BY <1>1, <3>1 DEF Launch
  <2>2. CASE \/ StrangerEnds(p) \/ CloseDatabase(p) \/ ClaimNothing(p)
             \/ GuardRefuses(p)
    BY <1>1, <2>2 DEF StrangerEnds, CloseDatabase, ClaimNothing, GuardRefuses
  <2>3. CASE GuardReads(p) \/ GuardPasses(p)
    <3>1. overlapped => overlapped'
      BY <2>3 DEF GuardReads, GuardPasses, Passes
    <3> QED
      BY <1>1, <2>3, <3>1 DEF GuardReads, GuardPasses, Passes
  <2>4. CASE TruncatePidFile(p) \/ WritePidFile(p) \/ WritePidFileFails(p)
    BY <1>1, <2>4 DEF TruncatePidFile, WritePidFile, WritePidFileFails
  <2>5. CASE LoadConfig(p) \/ RemovePidFile(p)
    BY <1>1, <2>5 DEF LoadConfig, RemovePidFile
  <2> QED
    BY <1>2, <2>1, <2>2, <2>3, <2>4, <2>5
<1>3. ASSUME NEW p \in Pid, Gone(p),
             UNCHANGED <<runFeature, runResult, overlapped>>
      PROVE  WorkersAtHome' /\ NoLiveRunReaped'
  BY <1>t, <1>3 DEF Gone
<1>4. ASSUME NEW p \in Pid, Crash(p)
      PROVE  WorkersAtHome' /\ NoLiveRunReaped'
  BY <1>3, <1>4 DEF Crash, tables, history
<1>5. ASSUME NEW p \in Pid, Reap(p)
      PROVE  WorkersAtHome' /\ NoLiveRunReaped'
  <2>1. ASSUME ~overlapped, NEW r \in RunId, worker[r] # 0 PROVE FALSE
    BY <1>t, <1>5, <2>1 DEF Reap, FileNamesDaemon, Working
  <2> QED
    BY <1>t, <1>5, <2>1 DEF Reap, work, history
<1>6. ASSUME NEW p \in Pid, RunReturns(p)
      PROVE  WorkersAtHome' /\ NoLiveRunReaped'
  BY <1>t, <1>6 DEF RunReturns, tables, work, history
<1>7. ASSUME NEW p \in Pid,
             \/ SelectFeature(p) \/ ClaimFeature(p) \/ ClaimFails(p)
             \/ StartRunFails(p) \/ RollBack(p)
      PROVE  WorkersAtHome' /\ NoLiveRunReaped'
  <2>1. CASE SelectFeature(p)
    BY <1>t, <2>1 DEF SelectFeature, tables
  <2>2. CASE ClaimFeature(p) \/ ClaimFails(p)
    BY <1>t, <2>2 DEF ClaimFeature, ClaimFails, Choosing
  <2>3. CASE StartRunFails(p) \/ RollBack(p)
    BY <1>t, <2>3 DEF StartRunFails, RollBack, tables, work, history
  <2> QED
    BY <1>7, <2>1, <2>2, <2>3
<1>8. ASSUME NEW p \in Pid, StartWorker(p)
      PROVE  WorkersAtHome' /\ NoLiveRunReaped'
  BY <1>t, <1>8 DEF StartWorker, history, SelectedByClaimers
<1>9. CASE \/ StopReads
           \/ \E r \in RunId : WorkerSettles(r)
           \/ \E f \in FeatureId : PersonSetsStatus(f)
  BY <1>t, <1>9 DEF StopReads, WorkerSettles, PersonSetsStatus, tables, work,
                    history
<1>10. CASE StopSignals
  <2>1. inHand \in Pid
    BY <1>10 DEF StopSignals, TypeOK
  <2> QED
    BY <1>t, <1>3, <1>10, <2>1 DEF StopSignals, tables, work, history
<1>11. ASSUME NEW r \in RunId, WorkerFinishes(r)
       PROVE  WorkersAtHome' /\ NoLiveRunReaped'
  BY <1>t, <1>11 DEF WorkerFinishes, history
<1>12. CASE UNCHANGED vars
  BY <1>12 DEF vars, tables, work, history
<1> QED
  BY <1>2, <1>4, <1>5, <1>6, <1>7, <1>8, <1>9, <1>10, <1>11, <1>12
  DEF Next, Process

(* The claims.                                                              *)

\* The steps of a process that has no feature selected, and that neither
\* select one nor touch a feature.
Unclaiming(p) ==
    \/ LaunchStart(p) \/ LaunchClaim(p) \/ LaunchStranger(p)
    \/ StrangerEnds(p) \/ CloseDatabase(p) \/ ClaimNothing(p)
    \/ GuardReads(p) \/ GuardRefuses(p) \/ GuardPasses(p)
    \/ TruncatePidFile(p) \/ WritePidFile(p) \/ WritePidFileFails(p)
    \/ RunReturns(p) \/ LoadConfig(p) \/ Reap(p) \/ RemovePidFile(p)

\* What such a step does.
LEMMA UnclaimingStep ==
    ASSUME TypeOK, SelectedByClaimers, NEW p \in Pid, Unclaiming(p)
    PROVE  /\ sel[p] = 0
           /\ \E s \in Stage \ {"insert", "rollback"} : Goto(p, s)
           /\ UNCHANGED <<sel, status, granted, released, raced>>
<1> USE DEF Unclaiming, LaunchStart, LaunchClaim, LaunchStranger, Launch,
            StrangerEnds, CloseDatabase, ClaimNothing, GuardReads,
            GuardRefuses, GuardPasses, Passes, TruncatePidFile, WritePidFile,
            WritePidFileFails, RunReturns, LoadConfig, Reap, RemovePidFile
<1>1. sel[p] = 0
  BY DEF SelectedByClaimers, Window, Polling
<1>2. UNCHANGED <<sel, status, granted, released, raced>>
  BY DEF work, tables, history, claims
<1>3. \E s \in Stage \ {"insert", "rollback"} : Goto(p, s)
  BY DEF Stage, Window, Working, Polling
<1> QED
  BY <1>1, <1>2, <1>3

\* A process is a claimer as long as it has a feature selected.
LEMMA ClaimerStep ==
    TypeOK /\ SelectedByClaimers /\ [Next]_vars => SelectedByClaimers'
<1> SUFFICES ASSUME TypeOK, SelectedByClaimers, [Next]_vars
             PROVE  SelectedByClaimers'
  OBVIOUS
<1> USE ProcessAssumption DEF SelectedByClaimers, Goto, Polling
<1>t. stage \in [Pid -> Stage] /\ sel \in [Pid -> FeatureId \cup {0}]
  BY DEF TypeOK
<1>1. ASSUME NEW p \in Pid, Unclaiming(p) PROVE SelectedByClaimers'
  BY <1>t, <1>1, UnclaimingStep
<1>2. ASSUME NEW p \in Pid, Gone(p) PROVE SelectedByClaimers'
  BY <1>t, <1>2 DEF Gone
<1>3. ASSUME NEW p \in Pid, Crash(p) PROVE SelectedByClaimers'
  BY <1>2, <1>3 DEF Crash
<1>4. ASSUME NEW p \in Pid, SelectFeature(p) PROVE SelectedByClaimers'
  BY <1>t, <1>4 DEF SelectFeature, ClaimCandidates
<1>5. ASSUME NEW p \in Pid, ClaimFeature(p) \/ ClaimFails(p)
      PROVE  SelectedByClaimers'
  BY <1>t, <1>5 DEF ClaimFeature, ClaimFails, Choosing
<1>6. ASSUME NEW p \in Pid, StartWorker(p) \/ StartRunFails(p) \/ RollBack(p)
      PROVE  SelectedByClaimers'
  BY <1>t, <1>6 DEF StartWorker, StartRunFails, RollBack, work
<1>7. CASE \/ StopReads
           \/ \E f \in FeatureId : PersonSetsStatus(f)
           \/ \E r \in RunId : WorkerSettles(r) \/ WorkerFinishes(r)
  BY <1>7 DEF StopReads, PersonSetsStatus, WorkerSettles, WorkerFinishes, work
<1>8. CASE StopSignals
  <2>1. inHand \in Pid
    BY <1>8 DEF StopSignals, TypeOK
  <2> QED
    BY <1>2, <1>8, <2>1 DEF StopSignals, work
<1>9. CASE UNCHANGED vars
  BY <1>9 DEF vars, work
<1> QED
  BY <1>1, <1>3, <1>4, <1>5, <1>6, <1>7, <1>8, <1>9
  DEF Next, Process, Unclaiming

\* What SetFeatureStatus does to one feature and leaves of the others.
LEMMA SetStatusCounts ==
    ASSUME TypeOK, NEW f \in FeatureId, NEW s \in {"draft", "claimed", "final"},
           SetStatus(f, s)
    PROVE  \A g \in FeatureId :
              /\ released'[g] \in Nat /\ released'[g] >= released[g]
              /\ g # f => released'[g] = released[g] /\ status'[g] = status[g]
              /\ g = f => status'[g] = s
              /\ status'[g] = "draft" /\ status[g] # "draft"
                    => released'[g] = released[g] + 1
  BY DEF SetStatus, TypeOK

\* A status set by anybody but a claimer: whoever sets it back to draft is
\* counted.
LEMMA StatusStep ==
    ASSUME TypeOK, SelectedOnce, ClaimedOnce,
           NEW f \in FeatureId, NEW s \in {"draft", "claimed", "final"},
           SetStatus(f, s), UNCHANGED <<granted, raced>>,
           \A p \in Pid : Choosing(p)' => Choosing(p) /\ sel'[p] = sel[p]
    PROVE  SelectedOnce' /\ ClaimedOnce'
<1>1. \A g \in FeatureId :
         /\ released[g] \in Nat /\ granted[g] \in Nat
         /\ released'[g] \in Nat /\ released'[g] >= released[g]
         /\ status'[g] = "draft" /\ status[g] # "draft"
               => released'[g] = released[g] + 1
  BY SetStatusCounts DEF TypeOK
<1>2. \A p \in Pid : Choosing(p) => sel[p] \in FeatureId
  BY DEF Choosing, TypeOK
<1>3. ClaimedOnce'
  BY <1>1 DEF ClaimedOnce, ClaimsAreExclusive
<1>4. ASSUME ~raced, NEW g \in FeatureId, status'[g] = "draft"
      PROVE  granted[g] <= released'[g]
  <2>1. CASE status[g] = "draft"
    BY <1>1, <1>4, <2>1 DEF SelectedOnce
  <2>2. CASE status[g] # "draft"
    BY <1>1, <1>4, <2>2 DEF ClaimedOnce, ClaimsAreExclusive
  <2> QED
    BY <2>1, <2>2
<1>5. ASSUME ~raced, NEW p \in Pid, Choosing(p)'
      PROVE  granted[sel'[p]] <= released'[sel'[p]]
  BY <1>1, <1>2, <1>5 DEF SelectedOnce
<1>6. ASSUME ~raced, NEW p \in Pid, NEW q \in Pid, Choosing(p)', Choosing(q)',
             sel'[p] = sel'[q]
      PROVE  p = q
  BY <1>6 DEF SelectedOnce
<1> QED
  BY <1>3, <1>4, <1>5, <1>6 DEF SelectedOnce

\* A claimer that selects a feature already in somebody's hands sets raced;
\* otherwise the feature it claims has been given back as often as it was
\* given out, and is no draft afterwards.
LEMMA ClaimStep ==
    TypeOK /\ SelectedByClaimers /\ WorkersAtHome /\ SelectedOnce
    /\ ClaimedOnce /\ [Next]_vars
        => SelectedOnce' /\ ClaimedOnce'
<1> SUFFICES ASSUME TypeOK, SelectedByClaimers, WorkersAtHome, SelectedOnce,
                    ClaimedOnce, [Next]_vars
             PROVE  SelectedOnce' /\ ClaimedOnce'
  OBVIOUS
<1> USE ProcessAssumption DEF Goto
<1>t. /\ stage \in [Pid -> Stage]
      /\ sel \in [Pid -> FeatureId \cup {0}]
      /\ status \in [FeatureId -> {"draft", "claimed", "final"}]
      /\ granted \in [FeatureId -> Nat] /\ released \in [FeatureId -> Nat]
  BY DEF TypeOK
<1>1. ASSUME \A p \in Pid : Choosing(p)' => Choosing(p) /\ sel'[p] = sel[p],
             UNCHANGED <<status, granted, released, raced>>
      PROVE  SelectedOnce' /\ ClaimedOnce'
  BY <1>1 DEF SelectedOnce, ClaimedOnce, ClaimsAreExclusive
<1>2. ASSUME NEW p \in Pid, Unclaiming(p)
      PROVE  SelectedOnce' /\ ClaimedOnce'
  BY <1>t, <1>1, <1>2, UnclaimingStep DEF Choosing
<1>g. ASSUME NEW p \in Pid, Gone(p)
      PROVE  \A q \in Pid : Choosing(q)' => Choosing(q) /\ sel'[q] = sel[q]
  BY <1>t, <1>g DEF Gone, Choosing
<1>3. ASSUME NEW p \in Pid, Crash(p) PROVE SelectedOnce' /\ ClaimedOnce'
  BY <1>1, <1>g, <1>3 DEF Crash, tables, history, claims
<1>4. ASSUME NEW p \in Pid, SelectFeature(p)
      PROVE  SelectedOnce' /\ ClaimedOnce'
  <2>1. PICK f \in ClaimCandidates :
            /\ sel' = [sel EXCEPT ![p] = f]
            /\ raced' = (raced \/ \E q \in Pid : Choosing(q) /\ sel[q] = f)
    BY <1>4 DEF SelectFeature
  <2>2. f \in FeatureId /\ status[f] = "draft"
    BY DEF ClaimCandidates
  <2>3. UNCHANGED <<stage, status, granted, released>>
    BY <1>4 DEF SelectFeature, tables
  <2>4. ~raced' => ~raced /\ \A q \in Pid : Choosing(q) => sel[q] # f
    BY <2>1
  <2>5. ~raced' => granted[f] <= released[f]
    BY <2>2, <2>4 DEF SelectedOnce
  <2>6. \A q \in Pid : /\ sel'[q] = IF q = p THEN f ELSE sel[q]
                       /\ q # p => (Choosing(q)' <=> Choosing(q))
    BY <1>t, <2>1, <2>3 DEF Choosing
  <2>7. ClaimedOnce'
    BY <2>3, <2>4 DEF ClaimedOnce, ClaimsAreExclusive
  <2>8. SelectedOnce'
    BY <2>3, <2>4, <2>5, <2>6 DEF SelectedOnce
  <2> QED
    BY <2>7, <2>8
<1>5. ASSUME NEW p \in Pid, ClaimFeature(p)
      PROVE  SelectedOnce' /\ ClaimedOnce'
  <2>1. PICK f \in FeatureId : f = sel[p]
    BY <1>t, <1>5 DEF ClaimFeature, Choosing
  <2>2. /\ Choosing(p) /\ SetStatus(f, "claimed")
        /\ granted' = [granted EXCEPT ![f] = @ + 1]
        /\ raced' = raced
    BY <1>5, <2>1 DEF ClaimFeature
  <2>3. /\ status'[f] = "claimed" /\ released'[f] = released[f]
        /\ \A g \in FeatureId \ {f} :
              released'[g] = released[g] /\ status'[g] = status[g]
    BY <1>t, <2>2 DEF SetStatus
  <2>4. \A q \in Pid : Choosing(q)' => q # p /\ Choosing(q) /\ sel'[q] = sel[q]
    BY <1>t, <1>5 DEF ClaimFeature, Choosing
  <2>5. ~raced => granted[f] <= released[f] /\ granted'[f] = granted[f] + 1
    BY <1>t, <2>1, <2>2 DEF SelectedOnce
  <2>6. /\ granted[f] \in Nat /\ released[f] \in Nat
        /\ \A g \in FeatureId \ {f} : granted'[g] = granted[g]
    BY <1>t, <2>2
  <2>7. ClaimedOnce'
    BY <2>2, <2>3, <2>5, <2>6 DEF ClaimedOnce, ClaimsAreExclusive
  <2>8. ASSUME ~raced, NEW q \in Pid, Choosing(q)'
        PROVE  sel'[q] \in FeatureId \ {f} /\ granted'[sel'[q]] <= released'[sel'[q]]
    <3>1. sel[q] # f /\ sel[q] \in FeatureId
      BY <1>t, <2>1, <2>2, <2>4, <2>8 DEF SelectedOnce, Choosing
    <3> QED
      BY <2>3, <2>4, <2>6, <2>8, <3>1 DEF SelectedOnce
  <2>9. SelectedOnce'
    BY <2>2, <2>3, <2>4, <2>6, <2>8 DEF SelectedOnce
  <2> QED
    BY <2>7, <2>9
<1>6. ASSUME NEW p \in Pid, ClaimFails(p)
      PROVE  SelectedOnce' /\ ClaimedOnce'
  <2>1. /\ \A q \in Pid : Choosing(q)' => Choosing(q) /\ sel'[q] = sel[q]
        /\ UNCHANGED <<granted, raced>>
        /\ sel[p] \in FeatureId
    BY <1>t, <1>6 DEF ClaimFails, Choosing
  <2> QED
    BY <1>1, <1>6, <2>1, StatusStep DEF ClaimFails
<1>7. ASSUME NEW p \in Pid, StartWorker(p) \/ StartRunFails(p)
      PROVE  SelectedOnce' /\ ClaimedOnce'
  <2>1. \A q \in Pid : Choosing(q)' => Choosing(q) /\ sel'[q] = sel[q]
    BY <1>t, <1>7 DEF StartWorker, StartRunFails, Choosing, work
  <2> QED
    BY <1>1, <1>7, <2>1
    DEF StartWorker, StartRunFails, tables, history, claims
<1>8. ASSUME NEW p \in Pid, RollBack(p)
      PROVE  SelectedOnce' /\ ClaimedOnce'
  <2>1. /\ \A q \in Pid : Choosing(q)' => Choosing(q) /\ sel'[q] = sel[q]
        /\ UNCHANGED <<granted, raced>>
        /\ sel[p] \in FeatureId
    BY <1>t, <1>8 DEF RollBack, Choosing, SelectedByClaimers
  <2> QED
    BY <1>1, <1>8, <2>1, StatusStep DEF RollBack
<1>9. CASE StopReads
  BY <1>1, <1>9 DEF StopReads, tables, work, history, claims, Choosing
<1>10. ASSUME NEW f \in FeatureId, PersonSetsStatus(f)
       PROVE  SelectedOnce' /\ ClaimedOnce'
  BY <1>10, StatusStep DEF PersonSetsStatus, work, Choosing
<1>11. ASSUME NEW r \in RunId, WorkerSettles(r)
       PROVE  SelectedOnce' /\ ClaimedOnce'
  <2>1. /\ \A q \in Pid : Choosing(q)' => Choosing(q) /\ sel'[q] = sel[q]
        /\ UNCHANGED <<granted, raced>>
        /\ runFeature[r] \in FeatureId
    BY <1>11 DEF WorkerSettles, Choosing, WorkersAtHome, TypeOK
  <2> QED
    BY <1>1, <1>11, <2>1, StatusStep DEF WorkerSettles
<1>12. ASSUME NEW r \in RunId, WorkerFinishes(r)
       PROVE  SelectedOnce' /\ ClaimedOnce'
  BY <1>1, <1>12 DEF WorkerFinishes, history, claims, Choosing
<1>13. CASE StopSignals
  <2>1. inHand \in Pid
    BY <1>13 DEF StopSignals, TypeOK
  <2>2. \A q \in Pid : Choosing(q)' => Choosing(q) /\ sel'[q] = sel[q]
    BY <1>g, <1>13, <2>1 DEF StopSignals, work, Choosing
  <2> QED
    BY <1>1, <1>13, <2>2 DEF StopSignals, tables, history, claims
<1>14. CASE UNCHANGED vars
  BY <1>1, <1>14 DEF vars, tables, work, history, claims, Choosing
<1> QED
  BY <1>2, <1>3, <1>4, <1>5, <1>6, <1>7, <1>8, <1>9, <1>10, <1>11, <1>12,
     <1>13, <1>14
  DEF Next, Process, Unclaiming

(* The theorems.                                                            *)

\* Consistent is inductive: whatever starts, stops, is killed or is given a
\* dead daemon's pid.
THEOREM Inductive == Spec => []Consistent
<1>1. Init => Consistent
  BY InitConsistent
<1>2. Consistent /\ [Next]_vars => Consistent'
  BY TypeStep, SeenStep, FileStep, StrangerStep, WorkStep, ClaimerStep,
     ClaimStep
  DEF Consistent
<1> QED
  BY <1>1, <1>2, PTL DEF Spec

\* The pid file guard keeps a second daemon out, unless a start passes it on
\* a reading of the file that another start has made out of date.
THEOREM NoSecondDaemon == Spec => []OneDaemon
<1>1. Consistent => OneDaemon
  BY DEF Consistent, FileNamesDaemon, OneDaemon
<1> QED
  BY <1>1, Inductive, PTL

\* With the same exception, stop finds the daemon in the pid file.
THEOREM StopFindsDaemon == Spec => []FileNamesDaemon
<1>1. Consistent => FileNamesDaemon
  BY DEF Consistent
<1> QED
  BY <1>1, Inductive, PTL

\* With the same exception, MarkStaleRunsErrored leaves the rows of live
\* workers alone.
THEOREM LiveRunsAreSafe == Spec => []NoLiveRunReaped
<1>1. Consistent => NoLiveRunReaped
  BY DEF Consistent
<1> QED
  BY <1>1, Inductive, PTL

\* ClaimNextFeature hands a feature out once for each time it is a draft,
\* unless two claimers have selected it at the same time: rollbacks, edits,
\* failing and half-failing claims and deaths included.
THEOREM OneClaim == Spec => []ClaimedOnce
<1>1. Consistent => ClaimedOnce
  BY DEF Consistent
<1> QED
  BY <1>1, Inductive, PTL

\* A start is refused because of another daemon, at work or closing its
\* database, unless the pid it goes by was recycled.
THEOREM RefusalsAreRight == Spec => RefusedForADaemon
<1>1. ASSUME Consistent, [Next]_vars, NEW p \in Pid,
             stage[p] = "probe", stage'[p] = "refused", ~recycled
      PROVE  seen[p] # p /\ stage[seen[p]] \in Working \cup {"close"}
  <2>1. GuardRefuses(p)
    <3> USE DEF Goto, Consistent, TypeOK
    <3>1. stage' # stage
      BY <1>1
    <3>2. ASSUME NEW q \in Pid, Process(q) PROVE GuardRefuses(p)
      BY <1>1, <3>2
      DEF Process, LaunchStart, LaunchClaim, LaunchStranger, Launch,
          StrangerEnds, Crash, Gone, GuardReads, GuardRefuses, GuardPasses,
          Passes, TruncatePidFile, WritePidFile, WritePidFileFails, Window,
          LoadConfig, Reap, RunReturns, RemovePidFile, CloseDatabase,
          SelectFeature, ClaimNothing, ClaimFeature, ClaimFails, StartWorker,
          StartRunFails, RollBack
    <3>3. /\ ~StopReads /\ ~UNCHANGED vars
          /\ \A f \in FeatureId : ~PersonSetsStatus(f)
          /\ \A r \in RunId : ~WorkerSettles(r) /\ ~WorkerFinishes(r)
      BY <3>1 DEF StopReads, vars, PersonSetsStatus, WorkerSettles,
                  WorkerFinishes
    <3>4. ~StopSignals
      BY <1>1 DEF StopSignals, Gone
    <3> QED
      BY <1>1, <3>2, <3>3, <3>4 DEF Next
  <2>2. seen[p] # 0 /\ stage[seen[p]] # "free"
    BY <1>1, <2>1
    DEF GuardRefuses, Answers, Consistent, SeenByProbers
  <2>3. stage[seen[p]] \in Working \cup {"close"}
    BY <1>1, <2>2 DEF Consistent, FileNamesNoStranger
  <2> QED
    BY <1>1, <2>3 DEF Working, Polling
<1>2. Consistent /\ [Next]_vars
          => [\A p \in Pid :
                 stage[p] = "probe" /\ stage'[p] = "refused" /\ ~recycled
                     => /\ seen[p] # p
                        /\ stage[seen[p]] \in Working \cup {"close"}]_vars
  BY <1>1
<1> QED
  BY <1>2, Inductive, PTL DEF Spec, RefusedForADaemon
=============================================================================

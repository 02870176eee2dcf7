------------------------- MODULE OrchestratorProofs -------------------------
(***************************************************************************)
(* Orchestrator is safe for every persona list, cap, queue size, outcome   *)
(* set and budget.  The inductive invariant is TypeOK /\ Consistent; there *)
(* is one lemma for each of its conjuncts (the frame lemmas before them    *)
(* say which action touches which part of the state), then the theorems    *)
(* that follow from it, and the refinement of RunLedger.                   *)
(***************************************************************************)
EXTENDS OrchestratorInvariants, FiniteSetTheorems, TLAPS

\* buildSideEffects only ever produces one of the four run results.
LEMMA ClassifyType == \A o : Classify(o) \in ResultStatus
  BY DEF Classify, ResultStatus

\* ... and one of the four final feature statuses.
LEMMA FinalStatusType == \A s : FinalStatus(s) \in FinalStatuses
  BY DEF FinalStatus, FinalStatuses

\* What the workers hold before and after a killed or unstarted child is a
\* spawn result.
LEMMA SpawnedType ==
    /\ NoOutcome \in Spawned
    /\ KilledSpawn \in Spawned
    /\ NotStartedSpawn \in Spawned
<1>1. NoReply \in Reply
  BY DEF NoReply, Reply, ResultWord
<1>2. \A e \in Ending : ExitCode(e) \in {-1, 0, 1}
  BY DEF ExitCode, Ending
<1>3. \A e \in Ending : ClaudeSpawn(e, NoOutput) \in Spawned
  BY <1>1, <1>2 DEF ClaudeSpawn, NoOutput, Spawned, SpawnedWith
<1>4. NoOutcome \in Spawned
  BY <1>1 DEF NoOutcome, Spawned, SpawnedWith
<1> QED
  BY <1>3, <1>4 DEF KilledSpawn, NotStartedSpawn, Ending

\* However a child ends, the worker goes on with a spawn result.
LEMMA ChildReturnsSpawned ==
    ASSUME NEW r,
           \/ StartChildCancelled(r) \/ ChildExits(r)
           \/ ChildTimesOut(r) \/ ChildKilledByStop(r)
    PROVE  \E result \in Spawned, n \in Nat : ChildReturns(r, result, n)
<1>1. KilledOutcomes \subseteq Spawned
  BY SpawnedType, EnvironmentAssumption DEF KilledOutcomes, Spawned, SpawnedWith
<1> QED
  BY <1>1, SpawnedType, EnvironmentAssumption
  DEF StartChildCancelled, ChildExits, ChildTimesOut, ChildKilledByStop

\* ... and what it asks to be filed counts.
LEMMA ChildReturnsSpends ==
    ASSUME spent \in [Kind -> Nat],
           NEW r, NEW result \in Spawned, NEW n \in Nat,
           ChildReturns(r, result, n)
    PROVE  /\ spent' \in [Kind -> Nat]
           /\ \A k \in Kind : spent'[k] >= spent[k]
<1> DEFINE filed == Len(result.reply.followUps)
<1>1. filed \in Nat
  BY DEF Spawned, SpawnedWith, Reply
<1>2. spent' = [spent EXCEPT !["followup"] = @ + filed, !["timeout"] = @ + n]
  BY DEF ChildReturns
<1> HIDE DEF filed
<1>3. /\ spent["followup"] \in Nat /\ spent["followup"] + filed \in Nat
      /\ spent["timeout"] \in Nat /\ spent["timeout"] + n \in Nat
  BY <1>1 DEF Kind
<1>4. spent' \in [Kind -> Nat]
  BY <1>2, <1>3
<1>5. ASSUME NEW k \in Kind PROVE spent'[k] >= spent[k]
  BY <1>1, <1>2, <1>3, spent[k] \in Nat DEF Kind
<1> QED
  BY <1>4, <1>5

\* The initial state is well typed.
LEMMA TypeInit == Init => TypeOK
<1> SUFFICES ASSUME Init PROVE TypeOK
  OBVIOUS
<1>1. TypeOfTables
  BY SizeAssumption
  DEF Init, TypeOfTables, FeatureId, FeatureStatus, Claimable, Target
<1>2. TypeOfLoop
  BY DEF Init, TypeOfLoop
<1>3. TypeOfWorkers
  BY SpawnedType DEF Init, TypeOfWorkers
<1>4. TypeOfDrainer
  BY DEF Init, TypeOfDrainer, Step
<1>5. TypeOfFlags
  BY DEF Init, TypeOfFlags
<1>6. TypeOfHistory
  BY DEF Init, TypeOfHistory
<1> QED
  BY <1>1, <1>2, <1>3, <1>4, <1>5, <1>6 DEF TypeOK

(* Which actions touch which part of the state.                             *)

\* The actions that write a table.
LEMMA TablesFrame ==
    [Next]_vars =>
        \/ UNCHANGED db
        \/ Start \/ ClaimFeature \/ ClaimFails \/ StartWorker \/ RollBack
        \/ FileFollowUp \/ SetFinalStatus \/ FinishRun \/ Outside
  BY DEF Next, PollLoop, TickOnce, Worker, Drainer, vars,
         Interrupt, Crash, Exit, Tick, TickFails, TickDone, SelectFeature,
         SelectNothing, StartRunFails, TickerFires, StopSelected, CloseQueue,
         RunReturns, StartChild, StartChildCancelled, ChildExits,
         ChildTimesOut, ChildKilledByStop, ChildReturns, Send, WorkerEnds,
         Receive, AppendContext, AddComment, WriteReport, LoadProject, Release,
         DrainerExits

\* The actions that move the poll loop.
LEMMA LoopFrame ==
    [Next]_vars =>
        UNCHANGED loop \/ Start \/ Interrupt \/ Crash \/ PollLoop
  BY DEF Next, Worker, Drainer, Outside, vars,
         StartChild, StartChildCancelled, ChildExits,
         ChildTimesOut, ChildKilledByStop, ChildReturns, Send, WorkerEnds,
         Receive, AppendContext, AddComment, WriteReport, LoadProject,
         FileFollowUp, SetFinalStatus, FinishRun, Release, DrainerExits,
         PersonAddsFeature, PersonSetsStatus

\* The actions that touch the running map or a worker's place.
LEMMA WorkersFrame ==
    [Next]_vars =>
        \/ UNCHANGED workers
        \/ Crash \/ Exit \/ StartWorker \/ Release
        \/ \E r \in RunId : Worker(r)
  BY DEF Next, PollLoop, TickOnce, Drainer, Outside, vars,
         Start, Interrupt, Tick, TickFails, TickDone, SelectFeature,
         SelectNothing, ClaimFeature, ClaimFails, StartRunFails, RollBack,
         TickerFires, StopSelected, CloseQueue, RunReturns,
         Receive, AppendContext, AddComment, WriteReport, LoadProject,
         FileFollowUp, SetFinalStatus, FinishRun, DrainerExits,
         PersonAddsFeature, PersonSetsStatus

\* The actions that touch the channel or the drainer's place.
LEMMA DrainerFrame ==
    [Next]_vars =>
        \/ UNCHANGED drainer
        \/ Crash \/ Exit \/ CloseQueue \/ Drainer
        \/ \E r \in RunId : Send(r)
  BY DEF Next, PollLoop, TickOnce, Worker, Outside, vars,
         Start, Interrupt, Tick, TickFails, TickDone, SelectFeature,
         SelectNothing, ClaimFeature, ClaimFails, StartWorker, StartRunFails,
         RollBack, TickerFires, StopSelected, RunReturns,
         StartChild, StartChildCancelled, ChildExits,
         ChildTimesOut, ChildKilledByStop, ChildReturns, WorkerEnds,
         PersonAddsFeature, PersonSetsStatus

\* The actions that cancel the context or close the channel.
LEMMA FlagsFrame ==
    [Next]_vars =>
        UNCHANGED <<cancelled, closed>> \/ Interrupt \/ Crash \/ Exit \/ CloseQueue
  BY DEF Next, PollLoop, TickOnce, Worker, Drainer, Outside, vars, loop, drainer,
         Start, Tick, TickFails, TickDone, SelectFeature,
         SelectNothing, ClaimFeature, ClaimFails, StartWorker, StartRunFails,
         RollBack, TickerFires, StopSelected, RunReturns,
         StartChild, StartChildCancelled, ChildExits,
         ChildTimesOut, ChildKilledByStop, ChildReturns, Send, WorkerEnds,
         Receive, AppendContext, AddComment, WriteReport, LoadProject,
         FileFollowUp, SetFinalStatus, FinishRun, Release, DrainerExits,
         PersonAddsFeature, PersonSetsStatus

-----------------------------------------------------------------------------
(* Type correctness.                                                        *)

\* Every statement writes values of the columns' types; the loop body of the
\* follow-ups takes the head of a non-empty list.
LEMMA TypeOfTablesStep ==
    ASSUME TypeOK, QueueMatchesWorkers, [Next]_vars
    PROVE  TypeOfTables'
<1> USE DEF TypeOK, TypeOfTables
<1> USE FinalStatusType, ClassifyType DEF FeatureStatus, Claimable
<1>1. CASE UNCHANGED db
  BY <1>1 DEF db
<1>2. CASE Start
  BY <1>2 DEF Start, StaleRows, ResultStatus
<1>3. CASE ClaimFeature \/ ClaimFails \/ RollBack
  BY <1>3 DEF ClaimFeature, ClaimFails, RollBack
<1>4. CASE StartWorker
  BY <1>4 DEF StartWorker, TypeOfLoop
<1>5. CASE FileFollowUp
  <2>1. Head(todo) \in Target \/ UNCHANGED <<status, target>>
    BY <1>5 DEF FileFollowUp, TypeOfDrainer, QueueMatchesWorkers
  <2> QED
    BY <1>5, <2>1 DEF FileFollowUp, AddFeature
<1>6. CASE SetFinalStatus
  BY <1>6 DEF SetFinalStatus, StatusOfResult
<1>7. CASE FinishRun
  BY <1>7 DEF FinishRun
<1>8. CASE Outside
  BY <1>8, EnvironmentAssumption
  DEF Outside, PersonAddsFeature, PersonSetsStatus, AddFeature
<1> QED
  BY <1>1, <1>2, <1>3, <1>4, <1>5, <1>6, <1>7, <1>8, TablesFrame

\* The running map is finite: its keys are row ids.
LEMMA RunningIsFinite ==
    TypeOK => IsFiniteSet(running) /\ Cardinality(running) \in Nat
<1>1. IsFiniteSet(RunId)
  BY FS_Interval, SizeAssumption DEF RunId
<1> QED
  BY <1>1, FS_Subset, FS_CardinalityType DEF TypeOK, TypeOfWorkers

\* avail never goes below zero: it is decremented where Capacity says it is
\* positive.
LEMMA TypeOfLoopStep ==
    ASSUME TypeOK, Capacity, [Next]_vars
    PROVE  TypeOfLoop'
<1> USE DEF TypeOK, TypeOfLoop
<1>1. CASE UNCHANGED loop
  BY <1>1 DEF loop, locals
<1>2. CASE Start \/ Interrupt
  BY <1>2 DEF Start, Interrupt, locals
<1>3. CASE Crash \/ Exit
  BY <1>3 DEF Crash, Exit, ForgetProcess
<1>4. CASE Tick
  BY <1>4, SizeAssumption, RunningIsFinite DEF Tick, FreeSlots
<1>5. CASE TickFails \/ TickDone
  BY <1>5 DEF TickFails, TickDone, locals
<1>6. CASE SelectFeature \/ SelectNothing
  BY <1>6 DEF SelectFeature, SelectNothing, NextPersona
<1>7. CASE ClaimFeature \/ ClaimFails \/ StartRunFails
  BY <1>7 DEF ClaimFeature, ClaimFails, StartRunFails, NextPersona, locals
<1>8. CASE StartWorker \/ RollBack
  BY <1>8 DEF StartWorker, RollBack, NextPersona, Capacity
<1>9. CASE TickerFires \/ StopSelected \/ CloseQueue \/ RunReturns
  BY <1>9 DEF TickerFires, StopSelected, CloseQueue, RunReturns, locals
<1> QED
  BY <1>1, <1>2, <1>3, <1>4, <1>5, <1>6, <1>7, <1>8, <1>9, LoopFrame
  DEF PollLoop, TickOnce

\* Workers move between their places, holding what a spawn returned.
LEMMA TypeOfWorkersStep ==
    ASSUME TypeOK, [Next]_vars
    PROVE  TypeOfWorkers'
<1> USE DEF TypeOK, TypeOfWorkers
<1>1. CASE UNCHANGED workers
  BY <1>1 DEF workers
<1>2. CASE Crash \/ Exit
  BY <1>2, SpawnedType DEF Crash, Exit, ForgetProcess
<1>3. CASE StartWorker
  BY <1>3 DEF StartWorker
<1>4. CASE Release
  BY <1>4 DEF Release, DoneClosed
<1>5. ASSUME NEW r \in RunId, Worker(r) PROVE TypeOfWorkers'
  <2>1. CASE StartChild(r) \/ Send(r)
    BY <2>1 DEF StartChild, Send, AfterSend
  <2>2. CASE \E result \in Spawned, n \in Nat : ChildReturns(r, result, n)
    BY <2>2 DEF ChildReturns
  <2>3. CASE WorkerEnds(r)
    BY <2>3, SpawnedType DEF WorkerEnds, Deregister
  <2> QED
    BY <1>5, <2>1, <2>2, <2>3, ChildReturnsSpawned DEF Worker
<1> QED
  BY <1>1, <1>2, <1>3, <1>4, <1>5, WorkersFrame

\* The channel carries run ids and the closure's follow-ups are personas.
LEMMA TypeOfDrainerStep ==
    ASSUME TypeOK, QueueMatchesWorkers, [Next]_vars
    PROVE  TypeOfDrainer'
<1> USE DEF TypeOK, TypeOfDrainer, Step
<1>1. CASE UNCHANGED drainer
  BY <1>1 DEF drainer
<1>2. CASE Crash \/ Exit
  <2>1. queue' = <<>> /\ job' = 0 /\ step' = "idle" /\ todo' = <<>>
    BY <1>2 DEF Crash, Exit, ForgetProcess
  <2> QED
    BY <2>1
<1>3. CASE CloseQueue
  BY <1>3 DEF CloseQueue
<1>4. ASSUME NEW r \in RunId, Send(r) PROVE TypeOfDrainer'
  BY <1>4 DEF Send
<1>5. CASE Receive \/ DrainerExits
  BY <1>5 DEF Receive, DrainerExits
<1>6. CASE AppendContext \/ AddComment
  BY <1>6 DEF AppendContext, AddComment, WriteReport
<1>7. CASE LoadProject
  <2>1. job \in RunId
    BY <1>7 DEF LoadProject, QueueMatchesWorkers
  <2>2. outcome[job].reply.followUps \in Seq(Target)
    BY <2>1 DEF TypeOfWorkers, Spawned, SpawnedWith, Reply
  <2>3. todo' \in Seq(Target)
    <3>1. todo' = outcome[job].reply.followUps \/ todo' = <<>>
      BY <1>7 DEF LoadProject
    <3>2. <<>> \in Seq(Target)
      OBVIOUS
    <3> QED
      BY <2>2, <3>1, <3>2
  <2>4. step' \in {"status", "followups"} /\ UNCHANGED <<queue, job>>
    BY <1>7 DEF LoadProject
  <2> QED
    BY <2>3, <2>4
<1>8. CASE FileFollowUp
  BY <1>8 DEF FileFollowUp, QueueMatchesWorkers
<1>9. CASE SetFinalStatus \/ FinishRun \/ Release
  BY <1>9 DEF SetFinalStatus, FinishRun, Release
<1> QED
  BY <1>1, <1>2, <1>3, <1>4, <1>5, <1>6, <1>7, <1>8, <1>9, DrainerFrame
  DEF Drainer

\* The two flags stay Boolean.
LEMMA TypeOfFlagsStep ==
    ASSUME TypeOK, [Next]_vars
    PROVE  TypeOfFlags'
<1> USE DEF TypeOK, TypeOfFlags
<1>1. CASE UNCHANGED <<cancelled, closed>>
  BY <1>1
<1>2. CASE Interrupt
  BY <1>2 DEF Interrupt, drainer
<1>3. CASE Crash \/ Exit
  BY <1>3 DEF Crash, Exit, ForgetProcess
<1>4. CASE CloseQueue
  BY <1>4 DEF CloseQueue
<1> QED
  BY <1>1, <1>2, <1>3, <1>4, FlagsFrame

\* Spending keeps the budget's counters natural numbers.
LEMMA SpendType ==
    ASSUME spent \in [Kind -> Nat], NEW k \in Kind, Spend(k)
    PROVE  spent' \in [Kind -> Nat]
  BY DEF Spend

\* A landed write extends the run's record of writes.
LEMMA LandType ==
    ASSUME landed \in [RunId -> Seq(Write)], NEW w \in Write, Land(w)
    PROVE  landed' \in [RunId -> Seq(Write)]
<1>1. \A r \in RunId : Append(landed[r], w) \in Seq(Write)
  OBVIOUS
<1> QED
  BY <1>1 DEF Land

\* The history variables keep their types.
LEMMA TypeOfHistoryStep ==
    ASSUME TypeOK, QueueMatchesWorkers, [Next]_vars
    PROVE  TypeOfHistory'
<1> USE DEF TypeOK, TypeOfHistory
<1> DEFINE SpentOK == spent' \in [Kind -> Nat]
           LandedOK == landed' \in [RunId -> Seq(Write)]
<1>0. /\ Spend("fault") => SpentOK
      /\ \A w \in Write : Land(w) => LandedOK
  BY SpendType, LandType DEF Kind
<1> HIDE DEF SpentOK, LandedOK
<1>1. CASE UNCHANGED history
  BY <1>1 DEF history
<1>2. CASE Crash \/ Exit
  <2>1. landed' = [r \in RunId |-> <<>>] /\ UNCHANGED edited
    BY <1>2 DEF Crash, Exit, ForgetProcess
  <2>2. landed' \in [RunId -> Seq(Write)]
    BY <2>1
  <2>3. SpentOK
    BY <1>2, SpendType DEF Crash, Exit, Kind, SpentOK
  <2> QED
    BY <2>1, <2>2, <2>3 DEF SpentOK
<1>3. CASE AppendContext \/ AddComment
  <2>1. LandedOK /\ SpentOK /\ UNCHANGED edited
    BY <1>0, <1>3 DEF AppendContext, AddComment, WriteReport, Write,
                      SpentOK, LandedOK
  <2> QED
    BY <2>1 DEF SpentOK, LandedOK
<1>4. CASE LoadProject
  <2>1. LandedOK /\ SpentOK /\ UNCHANGED edited
    BY <1>0, <1>4 DEF LoadProject, SpentOK, LandedOK
  <2> QED
    BY <2>1 DEF SpentOK, LandedOK
<1>5. CASE FileFollowUp \/ SetFinalStatus \/ FinishRun
  <2>1. LandedOK /\ SpentOK /\ UNCHANGED edited
    BY <1>0, <1>5 DEF FileFollowUp, SetFinalStatus, FinishRun, Write,
                      SpentOK, LandedOK
  <2> QED
    BY <2>1 DEF SpentOK, LandedOK
<1>6. CASE PersonAddsFeature
  BY <1>6, SpendType DEF PersonAddsFeature, Kind
<1>7. CASE PersonSetsStatus
  <2>1. edited' \in [FeatureId -> SUBSET FeatureStatus]
    BY <1>7, EnvironmentAssumption DEF PersonSetsStatus
  <2> QED
    BY <1>7, <2>1, SpendType DEF PersonSetsStatus, Kind
<1>8. ASSUME NEW r \in RunId, Worker(r) PROVE TypeOfHistory'
  <2>1. CASE \E result \in Spawned, n \in Nat : ChildReturns(r, result, n)
    BY <2>1, ChildReturnsSpends DEF ChildReturns
  <2>2. CASE WorkerEnds(r)
    BY <2>2 DEF WorkerEnds
  <2> QED
    BY <1>8, <2>1, <2>2, ChildReturnsSpawned
    DEF Worker, StartChild, Send, history
<1>9. CASE \/ TickFails \/ SelectNothing \/ ClaimFails \/ StartRunFails
           \/ RollBack
  <2>1. SpentOK /\ UNCHANGED <<landed, edited>>
    BY <1>0, <1>9 DEF TickFails, SelectNothing, ClaimFails, StartRunFails,
                      RollBack, SpentOK
  <2> QED
    BY <2>1 DEF SpentOK
<1> QED
  BY <1>1, <1>2, <1>3, <1>4, <1>5, <1>6, <1>7, <1>8, <1>9
  DEF Next, PollLoop, TickOnce, Drainer, Outside, vars, history,
      Start, Interrupt, Tick, TickDone, SelectFeature, ClaimFeature,
      StartWorker, TickerFires, StopSelected, CloseQueue, RunReturns,
      Receive, Release, DrainerExits

-----------------------------------------------------------------------------
(* The loop, the workers and the drainer: one lemma per conjunct of         *)
(* Consistent.                                                              *)

\* With no process there is nothing for a worker or the drainer to do.
LEMMA OffIsQuiet ==
    ASSUME MemoryOfOff, MapMatchesWorkers, pc = "off"
    PROVE  /\ \A r \in RunId : ~Worker(r)
           /\ ~Drainer
<1>1. \A r \in RunId : stage[r] = "none"
  BY DEF MemoryOfOff, MapMatchesWorkers
<1>2. \A r \in RunId : ~Worker(r)
  BY <1>1 DEF Worker, StartChild, StartChildCancelled, ChildExits,
              ChildTimesOut, ChildKilledByStop, Send, WorkerEnds
<1>3. ~Drainer
  BY DEF MemoryOfOff, Drainer, Receive, AppendContext, AddComment, WriteReport,
         LoadProject, FileFollowUp, SetFinalStatus, FinishRun, Release,
         DrainerExits
<1> QED
  BY <1>2, <1>3

\* The process ends with nothing in memory, and while it is off no goroutine
\* runs.
LEMMA MemoryOfOffStep ==
    ASSUME MemoryOfOff, MapMatchesWorkers, [Next]_vars
    PROVE  MemoryOfOff'
<1> SUFFICES ASSUME pc' = "off" PROVE MemoryOfOff'
  BY DEF MemoryOfOff
<1>1. CASE Crash \/ Exit
  BY <1>1 DEF Crash, Exit, ForgetProcess, MemoryOfOff
<1>2. CASE UNCHANGED <<loop, workers, drainer>>
  BY <1>2 DEF loop, workers, drainer, MemoryOfOff
<1>3. CASE pc = "off" /\ (Outside \/ UNCHANGED vars)
  BY <1>2, <1>3 DEF Outside, PersonAddsFeature, PersonSetsStatus, vars
<1>4. CASE pc # "off" /\ UNCHANGED pc
  BY <1>4
<1>5. pc = "off" => Outside \/ UNCHANGED vars
  BY OffIsQuiet
  DEF Next, PollLoop, TickOnce, Start, Interrupt, Crash, Exit, Tick, TickFails,
      TickDone, SelectFeature, SelectNothing, ClaimFeature, ClaimFails,
      StartWorker, StartRunFails, RollBack, TickerFires, StopSelected,
      CloseQueue, RunReturns
<1>6. pc # "off" => Crash \/ Exit
  BY LoopFrame
  DEF PollLoop, TickOnce, Start, Interrupt, Tick, TickFails,
      TickDone, SelectFeature, SelectNothing, ClaimFeature, ClaimFails,
      StartWorker, StartRunFails, RollBack, TickerFires, StopSelected,
      CloseQueue, RunReturns, NextPersona, loop
<1> QED
  BY <1>1, <1>3, <1>5, <1>6

\* startWorker registers a worker as it starts it, and the deferred delete is
\* the last thing a worker does.
LEMMA MapMatchesWorkersStep ==
    ASSUME TypeOK, MapMatchesWorkers, QueueMatchesWorkers, RowsExist,
           [Next]_vars
    PROVE  MapMatchesWorkers'
<1> USE DEF TypeOK, TypeOfWorkers, MapMatchesWorkers
<1>1. CASE UNCHANGED workers
  BY <1>1 DEF workers
<1>2. CASE Crash \/ Exit
  BY <1>2 DEF Crash, Exit, ForgetProcess
<1>3. CASE StartWorker
  BY <1>3 DEF StartWorker
<1>4. CASE Release
  BY <1>4 DEF Release, DoneClosed, QueueMatchesWorkers
<1>5. ASSUME NEW r \in RunId, Worker(r) PROVE MapMatchesWorkers'
  <2>1. CASE WorkerEnds(r)
    BY <2>1 DEF WorkerEnds, Deregister
  <2>2. CASE ~WorkerEnds(r)
    BY <1>5, <2>2
    DEF Worker, StartChild, StartChildCancelled, ChildExits, ChildTimesOut,
        ChildKilledByStop, ChildReturns, Send, AfterSend
  <2> QED
    BY <2>1, <2>2
<1> QED
  BY <1>1, <1>2, <1>3, <1>4, <1>5, WorkersFrame

\* close(d.sideEffects) follows waitWorkers, and only tickOnce, which is then
\* over, starts workers.
LEMMA ClosedAfterWorkersStep ==
    ASSUME TypeOK, MapMatchesWorkers, ClosedAfterWorkers, [Next]_vars
    PROVE  ClosedAfterWorkers'
<1> USE DEF ClosedAfterWorkers
<1>1. CASE Crash \/ Exit
  BY <1>1 DEF Crash, Exit, ForgetProcess
<1>2. CASE CloseQueue
  BY <1>2 DEF CloseQueue, WorkersAreDone, workers
<1>3. CASE StartWorker
  BY <1>3 DEF StartWorker, NextPersona, drainer
<1>4. ASSUME NEW r \in RunId, Worker(r) PROVE ClosedAfterWorkers'
  <2>1. r \in running
    BY <1>4
    DEF Worker, StartChild, StartChildCancelled, ChildExits, ChildTimesOut,
        ChildKilledByStop, Send, WorkerEnds, MapMatchesWorkers
  <2>2. ~closed /\ UNCHANGED <<closed, pc>>
    BY <1>4, <2>1
    DEF Worker, StartChild, StartChildCancelled, ChildExits, ChildTimesOut,
        ChildKilledByStop, ChildReturns, Send, WorkerEnds, loop, drainer
  <2> QED
    BY <2>2
<1>5. ASSUME UNCHANGED <<running, closed>>,
             (pc' \in {"join", "exit"}) <=> (pc \in {"join", "exit"})
      PROVE  ClosedAfterWorkers'
  BY <1>5
<1>6. CASE UNCHANGED vars \/ Start \/ Interrupt \/ Drainer \/ Outside
  BY <1>5, <1>6
  DEF Start, Interrupt, Drainer, Outside, vars, loop, workers, drainer,
      Receive, AppendContext, AddComment, WriteReport, LoadProject,
      FileFollowUp, SetFinalStatus, FinishRun, Release, DrainerExits,
      PersonAddsFeature, PersonSetsStatus
<1>7. CASE \/ Tick \/ TickFails \/ TickDone \/ SelectFeature \/ SelectNothing
           \/ ClaimFeature \/ ClaimFails \/ StartRunFails \/ RollBack
           \/ TickerFires \/ StopSelected \/ RunReturns
  BY <1>5, <1>7
  DEF Tick, TickFails, TickDone, SelectFeature, SelectNothing, ClaimFeature,
      ClaimFails, StartRunFails, RollBack, TickerFires, StopSelected,
      RunReturns, NextPersona, workers, drainer
<1> QED
  BY <1>1, <1>2, <1>3, <1>4, <1>6, <1>7 DEF Next, PollLoop, TickOnce

\* Workers only come to an end while tickOnce spends the avail it computed, so
\* the count it took stays an over-estimate.
LEMMA CapacityStep ==
    ASSUME TypeOK, MapMatchesWorkers, Capacity, RowsExist, [Next]_vars
    PROVE  Capacity'
<1> USE DEF Capacity
<1>1. IsFiniteSet(running) /\ Cardinality(running) \in Nat
  BY RunningIsFinite
<1>2. /\ MaxParallelism \in Nat /\ avail \in Nat
  BY SizeAssumption DEF TypeOK, TypeOfLoop
<1>3. CASE Crash \/ Exit
  <2>1. running' = {} /\ pc' = "off"
    BY <1>3 DEF Crash, Exit, ForgetProcess
  <2>2. Cardinality(running') = 0
    BY <2>1, FS_EmptySet
  <2> QED
    BY <1>2, <2>1, <2>2
<1>4. CASE Tick
  BY <1>1, <1>2, <1>4 DEF Tick, FreeSlots, workers
<1>5. CASE StartWorker
  <2>1. PICK r \in RunId : r \notin running /\ running' = running \cup {r}
    BY <1>5 DEF StartWorker, NextRun, RowsExist
  <2>2. Cardinality(running') = Cardinality(running) + 1
    BY <1>1, <2>1, FS_AddElement
  <2> QED
    BY <1>1, <1>2, <1>5, <2>2 DEF StartWorker, NextPersona
<1>6. ASSUME NEW r \in RunId, Worker(r) PROVE Capacity'
  <2>1. running' = running \/ running' = running \ {r}
    BY <1>6
    DEF Worker, StartChild, StartChildCancelled, ChildExits, ChildTimesOut,
        ChildKilledByStop, ChildReturns, Send, WorkerEnds, Deregister
  <2>2. Cardinality(running') \in Nat /\ Cardinality(running') <= Cardinality(running)
    BY <1>1, <2>1, FS_RemoveElement, FS_Subset, FS_CardinalityType
  <2>3. UNCHANGED <<pc, avail>>
    BY <1>6
    DEF Worker, StartChild, StartChildCancelled, ChildExits, ChildTimesOut,
        ChildKilledByStop, ChildReturns, Send, WorkerEnds, loop, locals
  <2> QED
    BY <1>1, <1>2, <2>2, <2>3
<1>7. CASE UNCHANGED vars \/ Start \/ Interrupt \/ Drainer \/ Outside
  <2>1. UNCHANGED running
    BY <1>7
    DEF Start, Interrupt, Drainer, Outside, vars, workers,
        Receive, AppendContext, AddComment, WriteReport, LoadProject,
        FileFollowUp, SetFinalStatus, FinishRun, Release, DrainerExits,
        PersonAddsFeature, PersonSetsStatus
  <2>2. UNCHANGED <<pc, avail>> \/ pc' = "tick"
    BY <1>7
    DEF Start, Interrupt, Drainer, Outside, vars, loop, locals,
        Receive, AppendContext, AddComment, WriteReport, LoadProject,
        FileFollowUp, SetFinalStatus, FinishRun, Release, DrainerExits,
        PersonAddsFeature, PersonSetsStatus
  <2> QED
    BY <2>1, <2>2
<1>8. CASE \/ TickFails \/ TickDone \/ TickerFires \/ StopSelected
           \/ CloseQueue \/ RunReturns
  BY <1>8
  DEF TickFails, TickDone, TickerFires, StopSelected, CloseQueue, RunReturns,
      workers
<1>9. CASE \/ SelectFeature \/ SelectNothing \/ ClaimFeature \/ ClaimFails
           \/ StartRunFails
  BY <1>1, <1>2, <1>9
  DEF SelectFeature, SelectNothing, ClaimFeature, ClaimFails, StartRunFails,
      NextPersona, workers, locals
<1>10. CASE RollBack
  BY <1>1, <1>2, <1>10 DEF RollBack, NextPersona, workers
<1> QED
  BY <1>3, <1>4, <1>5, <1>6, <1>7, <1>8, <1>9, <1>10
  DEF Next, PollLoop, TickOnce

\* A worker sends its closure once and waits; the drainer takes each closure
\* once and releases its worker when it is done.
LEMMA QueueMatchesWorkersStep ==
    ASSUME TypeOK, QueueMatchesWorkers, MapMatchesWorkers, RowsExist,
           [Next]_vars
    PROVE  QueueMatchesWorkers'
<1> USE DEF QueueMatchesWorkers, TypeOK, TypeOfDrainer, TypeOfWorkers
<1>0. /\ 0 \notin RunId
      /\ \A i \in DOMAIN queue : queue[i] \in RunId
  BY SizeAssumption DEF RunId
<1>1. CASE Crash \/ Exit
  BY <1>1 DEF Crash, Exit, ForgetProcess
<1>2. CASE UNCHANGED <<queue, stage, job, step, todo>>
  BY <1>2
<1>3. CASE StartWorker
  <2>1. PICK r \in RunId : /\ stage[r] = "none"
                           /\ stage' = [stage EXCEPT ![r] = "begin"]
    BY <1>3 DEF StartWorker, NextRun, RowsExist, MapMatchesWorkers
  <2>2. UNCHANGED <<queue, job, step, todo>>
    BY <1>3 DEF StartWorker, drainer
  <2> QED
    BY <2>1, <2>2
<1>4. ASSUME NEW r \in RunId, Worker(r) PROVE QueueMatchesWorkers'
  <2>1. CASE Send(r)
    <3>1. /\ stage[r] = "send" /\ stage' = [stage EXCEPT ![r] = "await"]
          /\ queue' = Append(queue, r)
          /\ UNCHANGED <<job, step, todo>>
      BY <2>1 DEF Send, AfterSend
    <3>2. \A i \in DOMAIN queue : queue[i] # r
      BY <3>1
    <3>3. r # job
      BY <1>0, <3>1
    <3>4. /\ DOMAIN queue = 1..Len(queue) /\ Len(queue) \in Nat
          /\ DOMAIN queue' = DOMAIN queue \cup {Len(queue) + 1}
          /\ Len(queue) + 1 \notin DOMAIN queue
          /\ \A i \in DOMAIN queue : queue'[i] = queue[i]
          /\ queue'[Len(queue) + 1] = r
      BY <3>1
    <3> DEFINE last == Len(queue) + 1
    <3> HIDE DEF last
    <3>5. /\ DOMAIN queue' = DOMAIN queue \cup {last}
          /\ last \notin DOMAIN queue
          /\ queue'[last] = r
      BY <3>4 DEF last
    <3>6. /\ \A i \in DOMAIN queue : stage'[queue[i]] = "await"
          /\ stage'[r] = "await"
          /\ job # 0 => stage'[job] = "await"
      BY <3>1, <3>2, <3>3
    <3>7. \A i \in DOMAIN queue' : stage'[queue'[i]] = "await" /\ queue'[i] # job'
      BY <3>1, <3>3, <3>4, <3>5, <3>6
    <3>8. \A i, j \in DOMAIN queue' : queue'[i] = queue'[j] => i = j
      BY <3>2, <3>4, <3>5
    <3> QED
      BY <3>1, <3>6, <3>7, <3>8
  <2>2. CASE ~Send(r)
    <3>1. stage[r] # "await" /\ \A q \in RunId : q # r => stage'[q] = stage[q]
      BY <1>4, <2>2
      DEF Worker, StartChild, StartChildCancelled, ChildExits, ChildTimesOut,
          ChildKilledByStop, ChildReturns, WorkerEnds
    <3>2. UNCHANGED <<queue, job, step, todo>>
      BY <1>4, <2>2
      DEF Worker, StartChild, StartChildCancelled, ChildExits, ChildTimesOut,
          ChildKilledByStop, ChildReturns, WorkerEnds, drainer
    <3> QED
      BY <3>1, <3>2
  <2> QED
    BY <2>1, <2>2
<1>5. CASE Receive
  <2>1. /\ queue # <<>> /\ job' = Head(queue) /\ queue' = Tail(queue)
        /\ step' = "context" /\ UNCHANGED <<stage, todo>>
    BY <1>5 DEF Receive, workers
  <2>2. /\ \A i \in DOMAIN queue' : /\ i + 1 \in DOMAIN queue
                                    /\ queue'[i] = queue[i + 1]
        /\ 1 \in DOMAIN queue /\ job' = queue[1]
        /\ DOMAIN queue' \subseteq Nat \ {0}
    BY <2>1
  <2>3. job' \in RunId /\ job' # 0
    BY <1>0, <2>2
  <2>4. \A i \in DOMAIN queue' : stage'[queue'[i]] = "await" /\ queue'[i] # job'
    <3> TAKE i \in DOMAIN queue'
    <3>1. i + 1 \in DOMAIN queue /\ queue'[i] = queue[i + 1] /\ i + 1 # 1
      BY <2>2
    <3>2. queue[i + 1] # queue[1]
      BY <2>2, <3>1
    <3> QED
      BY <2>1, <2>2, <3>1, <3>2
  <2>5. \A i, j \in DOMAIN queue' : queue'[i] = queue'[j] => i = j
    <3> TAKE i, j \in DOMAIN queue'
    <3>1. /\ i + 1 \in DOMAIN queue /\ queue'[i] = queue[i + 1]
          /\ j + 1 \in DOMAIN queue /\ queue'[j] = queue[j + 1]
          /\ i \in Nat /\ j \in Nat
      BY <2>2
    <3>2. SUFFICES ASSUME queue[i + 1] = queue[j + 1] PROVE i = j
      BY <3>1
    <3>3. i + 1 = j + 1
      BY <3>1, <3>2
    <3> QED
      BY <3>1, <3>3
  <2>6. stage'[job'] = "await"
    BY <2>1, <2>2
  <2> QED
    BY <2>1, <2>3, <2>4, <2>5, <2>6
<1>6. CASE Release
  <2>1. /\ job # 0 /\ job' = 0 /\ step' = "idle"
        /\ stage' = [stage EXCEPT ![job] = "released"]
        /\ UNCHANGED <<queue, todo>>
    BY <1>6 DEF Release, DoneClosed, QueueMatchesWorkers
  <2>2. \A i \in DOMAIN queue : queue[i] # job /\ queue[i] # 0 /\ queue[i] \in RunId
    BY <1>0
  <2>3. \A i \in DOMAIN queue' : stage'[queue'[i]] = "await" /\ queue'[i] # job'
    BY <2>1, <2>2
  <2> QED
    BY <2>1, <2>3
<1>7. CASE DrainerExits
  BY <1>7 DEF DrainerExits, workers
<1>8. CASE \/ AppendContext \/ AddComment \/ LoadProject \/ FileFollowUp
           \/ SetFinalStatus \/ FinishRun
  <2>1. /\ UNCHANGED <<queue, stage, job>>
        /\ step \notin {"idle", "gone"} /\ step' \notin {"idle", "gone"}
    BY <1>8
    DEF AppendContext, AddComment, WriteReport, LoadProject, FileFollowUp,
        SetFinalStatus, FinishRun, workers
  <2>2. step' = "followups" => todo' # <<>>
    BY <1>8
    DEF AppendContext, AddComment, WriteReport, LoadProject, FileFollowUp,
        SetFinalStatus, FinishRun
  <2> QED
    BY <2>1, <2>2
<1>9. UNCHANGED <<queue, stage, job, step, todo>> \/ Crash \/ Exit
      \/ StartWorker \/ (\E r \in RunId : Worker(r)) \/ Drainer
  BY WorkersFrame, DrainerFrame
  DEF Drainer, Worker, CloseQueue, workers, drainer
<1> QED
  BY <1>1, <1>2, <1>3, <1>4, <1>5, <1>6, <1>7, <1>8, <1>9 DEF Drainer

-----------------------------------------------------------------------------
(* The tables: who changes which row, and to what.                          *)

\* A feature's status changes only when its row is created, when the loop
\* claims it or undoes its claim, when its run's closure writes the final
\* status, or when somebody outside writes it.
LEMMA StatusFrame ==
    ASSUME TypeOK, [Next]_vars, NEW f \in FeatureId
    PROVE  \/ status'[f] = status[f]
           \/ status[f] = "absent" /\ status'[f] = "draft"
           \/ pc = "claim" /\ sel = f /\ status'[f] = "claimed"
           \/ pc = "rollback" /\ sel = f /\ status'[f] = "draft"
           \/ SetFinalStatus /\ f = runFeature[job] /\ status'[f] = StatusOfResult
           \/ status'[f] \in edited'[f] /\ status'[f] \in EditStatuses
<1> USE DEF TypeOK, TypeOfTables
<1>1. CASE UNCHANGED db
  BY <1>1 DEF db
<1>2. CASE Start \/ StartWorker \/ FinishRun
  BY <1>2 DEF Start, StartWorker, FinishRun
<1>3. CASE ClaimFeature \/ ClaimFails \/ RollBack
  BY <1>3 DEF ClaimFeature, ClaimFails, RollBack
<1>4. CASE FileFollowUp \/ PersonAddsFeature
  BY <1>4 DEF FileFollowUp, PersonAddsFeature, AddFeature, NextFeature
<1>5. CASE SetFinalStatus
  BY <1>5 DEF SetFinalStatus
<1>6. CASE PersonSetsStatus
  BY <1>6 DEF PersonSetsStatus, TypeOfHistory
<1> QED
  BY <1>1, <1>2, <1>3, <1>4, <1>5, <1>6, TablesFrame DEF Outside

\* Feature rows are not deleted.
LEMMA FeaturesStay ==
    ASSUME TypeOK, [Next]_vars, NEW f \in FeatureId, status[f] # "absent"
    PROVE  status'[f] # "absent"
  BY StatusFrame, FinalStatusType, EnvironmentAssumption
  DEF StatusOfResult, FinalStatuses, FeatureStatus, Claimable

\* A new run row points at the feature being claimed; the others keep theirs.
LEMMA RunsFrame ==
    [Next]_vars => StartWorker \/ runFeature' = runFeature
  BY TablesFrame
  DEF db, Start, ClaimFeature, ClaimFails, RollBack, FileFollowUp,
      SetFinalStatus, FinishRun, Outside, PersonAddsFeature, PersonSetsStatus

\* What a run row's result becomes, and by which action.
LEMMA ResultsFrame ==
    ASSUME TypeOK, [Next]_vars, NEW r \in RunId
    PROVE  \/ runResult'[r] = runResult[r]
           \/ Start /\ runResult[r] = "running" /\ runResult'[r] = "error"
           \/ StartWorker /\ runResult[r] = "none" /\ runResult'[r] = "running"
           \/ FinishRun /\ r = job /\ runResult'[r] = Classify(outcome[r])
<1> USE DEF TypeOK, TypeOfTables
<1>1. CASE UNCHANGED db
  BY <1>1 DEF db
<1>2. CASE Start
  BY <1>2 DEF Start, StaleRows
<1>3. CASE StartWorker
  BY <1>3 DEF StartWorker, NextRun
<1>4. CASE FinishRun
  BY <1>4 DEF FinishRun
<1>5. CASE \/ ClaimFeature \/ ClaimFails \/ RollBack \/ FileFollowUp
           \/ SetFinalStatus \/ Outside
  BY <1>5
  DEF ClaimFeature, ClaimFails, RollBack, FileFollowUp, SetFinalStatus,
      Outside, PersonAddsFeature, PersonSetsStatus
<1> QED
  BY <1>1, <1>2, <1>3, <1>4, <1>5, TablesFrame

\* The recorded edits of a feature are never forgotten.
LEMMA EditsGrow ==
    ASSUME TypeOK, [Next]_vars, NEW f \in FeatureId
    PROVE  edited[f] \subseteq edited'[f]
<1>1. UNCHANGED edited \/ PersonSetsStatus
  BY DEF Next, PollLoop, TickOnce, Worker, Drainer, Outside, vars, history,
         Start, Interrupt, Crash, Exit, Tick, TickFails, TickDone,
         SelectFeature, SelectNothing, ClaimFeature, ClaimFails, StartWorker,
         StartRunFails, RollBack, TickerFires, StopSelected, CloseQueue,
         RunReturns, StartChild, StartChildCancelled, ChildExits,
         ChildTimesOut, ChildKilledByStop, ChildReturns, Send, WorkerEnds,
         Receive, AppendContext, AddComment, WriteReport, LoadProject,
         FileFollowUp, SetFinalStatus, FinishRun, Release, DrainerExits,
         PersonAddsFeature
<1> QED
  BY <1>1 DEF PersonSetsStatus, TypeOK, TypeOfHistory

\* While a feature is being claimed the loop holds on to it.
LEMMA SelFrame ==
    ASSUME [Next]_vars, pc' \in {"claim", "insert", "rollback"}
    PROVE  \/ SelectFeature /\ pc' = "claim"
           \/ /\ pc \in {"claim", "insert", "rollback"} /\ sel' = sel
              /\ pc' = pc \/ ClaimFeature \/ StartRunFails
<1>1. UNCHANGED <<pc, sel>> \/ SelectFeature \/ ClaimFeature \/ StartRunFails
  BY LoopFrame
  DEF loop, locals, PollLoop, TickOnce,
      Start, Interrupt, Crash, Exit, ForgetProcess, Tick, TickFails, TickDone,
      SelectNothing, ClaimFails, StartWorker, RollBack, NextPersona,
      TickerFires, StopSelected, CloseQueue, RunReturns
<1> QED
  BY <1>1 DEF SelectFeature, ClaimFeature, StartRunFails, locals

\* Run rows are created for the selected feature, which exists, and neither
\* kind of row is deleted.
LEMMA RowsExistStep ==
    ASSUME TypeOK, MapMatchesWorkers, QueueMatchesWorkers, RowsExist,
           [Next]_vars
    PROVE  RowsExist'
<1> USE DEF RowsExist
<1>1. 0 \notin FeatureId
  BY SizeAssumption DEF FeatureId
<1>2. ASSUME NEW r \in RunId PROVE (runFeature[r] = 0 <=> runResult[r] = "none")'
  <2>1. CASE StartWorker
    BY <1>1, <2>1 DEF StartWorker, NextRun, TypeOK, TypeOfTables
  <2>2. CASE ~StartWorker
    <3>1. runFeature' = runFeature
      BY <2>2, RunsFrame
    <3>2. (runResult'[r] = "none") <=> (runResult[r] = "none")
      <4>1. FinishRun /\ r = job => r \in running
        BY DEF FinishRun, QueueMatchesWorkers, MapMatchesWorkers
      <4> QED
        BY <2>2, <4>1, ResultsFrame, ClassifyType DEF ResultStatus
    <3> QED
      BY <3>1, <3>2
  <2> QED
    BY <2>1, <2>2
<1>3. ASSUME NEW r \in RunId, runFeature'[r] # 0
      PROVE  status'[runFeature'[r]] # "absent"
  <2>1. runFeature'[r] \in FeatureId /\ status[runFeature'[r]] # "absent"
    <3>1. CASE StartWorker
      BY <1>3, <3>1 DEF StartWorker, TypeOK, TypeOfTables, TypeOfLoop
    <3>2. CASE runFeature' = runFeature
      BY <1>3, <3>2 DEF TypeOK, TypeOfTables
    <3> QED
      BY <3>1, <3>2, RunsFrame
  <2> QED
    BY <2>1, FeaturesStay
<1>4. ASSUME NEW r \in running' PROVE runResult'[r] # "none"
  <2>1. CASE StartWorker
    BY <1>4, <2>1 DEF StartWorker, TypeOK, TypeOfTables, TypeOfWorkers
  <2>2. CASE ~StartWorker
    <3>1. r \in running /\ r \in RunId
      BY <1>4, <2>2, WorkersFrame
      DEF workers, Crash, Exit, ForgetProcess, Release, Worker, StartChild,
          StartChildCancelled, ChildExits, ChildTimesOut, ChildKilledByStop,
          ChildReturns, Send, WorkerEnds, Deregister, TypeOK, TypeOfWorkers
    <3> QED
      BY <2>2, <3>1, ResultsFrame, ClassifyType DEF ResultStatus
  <2> QED
    BY <2>1, <2>2
<1>5. ASSUME pc' \in {"claim", "insert", "rollback"}
      PROVE  sel' # 0 /\ status'[sel'] # "absent"
  <2>1. sel' \in FeatureId /\ status[sel'] # "absent"
    <3>1. CASE SelectFeature
      BY <3>1 DEF SelectFeature, Oldest, ClaimCandidates, Claimable
    <3>2. CASE pc \in {"claim", "insert", "rollback"} /\ sel' = sel
      BY <3>2 DEF TypeOK, TypeOfLoop
    <3> QED
      BY <1>5, <3>1, <3>2, SelFrame
  <2> QED
    BY <1>1, <2>1, FeaturesStay
<1> QED
  BY <1>2, <1>3, <1>4, <1>5

\* The loop gives a feature back to the claimable ones only when it has no run
\* yet; closures write final statuses only.
LEMMA ClaimsAreExclusiveStep ==
    ASSUME TypeOK, RowsExist, ClaimsAreExclusive, [Next]_vars
    PROVE  ClaimsAreExclusive'
<1> USE DEF ClaimsAreExclusive, Reopened
<1>1. ASSUME NEW f \in FeatureId, ~Reopened(f)'
      PROVE  /\ ~Reopened(f)
             /\ \/ status'[f] \notin Claimable
                \/ status'[f] = status[f]
                \/ status[f] = "absent"
                \/ pc = "rollback" /\ sel = f
  BY <1>1, StatusFrame, EditsGrow, FinalStatusType
  DEF StatusOfResult, FinalStatuses, Claimable
<1>2. ASSUME NEW r \in RunId, runFeature'[r] # 0, ~Reopened(runFeature[r])'
      PROVE  status'[runFeature'[r]] \notin Claimable
  <2>1. CASE StartWorker /\ runFeature'[r] # runFeature[r]
    <3>1. runFeature'[r] = sel /\ pc = "insert" /\ status' = status
      BY <2>1 DEF StartWorker, TypeOK, TypeOfTables
    <3>2. sel \in FeatureId
      BY <1>2, <3>1 DEF TypeOK, TypeOfLoop
    <3> QED
      BY <1>1, <1>2, <3>1, <3>2
  <2>2. CASE runFeature'[r] = runFeature[r]
    <3>1. runFeature[r] \in FeatureId
      BY <1>2, <2>2 DEF TypeOK, TypeOfTables
    <3>2. status[runFeature[r]] # "absent"
      BY <1>2, <2>2 DEF RowsExist
    <3>3. ~ (pc = "rollback" /\ sel = runFeature[r])
      BY <1>1, <1>2, <2>2, <3>1
    <3> QED
      BY <1>1, <1>2, <2>2, <3>1, <3>2, <3>3
  <2> QED
    BY <2>1, <2>2, RunsFrame
<1>3. ASSUME pc' \in {"claim", "insert", "rollback"}, ~Reopened(sel)'
      PROVE  \A r \in RunId : runFeature'[r] # sel'
  <2>1. runFeature' = runFeature
    BY <1>3, RunsFrame DEF StartWorker, NextPersona
  <2>2. CASE SelectFeature
    <3>1. sel' \in FeatureId /\ status[sel'] \in Claimable
      BY <2>2 DEF SelectFeature, Oldest, ClaimCandidates
    <3>2. sel' # 0
      BY <3>1, SizeAssumption DEF FeatureId
    <3> QED
      BY <1>1, <1>3, <2>1, <3>1, <3>2
  <2>3. CASE pc \in {"claim", "insert", "rollback"} /\ sel' = sel
    <3>1. sel \in FeatureId
      BY <2>3 DEF RowsExist, TypeOK, TypeOfLoop
    <3> QED
      BY <1>1, <1>3, <2>1, <2>3, <3>1
  <2> QED
    BY <1>3, <2>2, <2>3, SelFrame
<1>4. ASSUME pc' = "insert", ~Reopened(sel)' PROVE status'[sel'] \notin Claimable
  <2>1. /\ pc \in {"claim", "insert", "rollback"} /\ sel' = sel
        /\ pc = "insert" \/ ClaimFeature
    BY <1>4, SelFrame DEF StartRunFails
  <2>2. sel \in FeatureId /\ status[sel] # "absent"
    BY <2>1 DEF RowsExist, TypeOK, TypeOfLoop
  <2>3. CASE pc = "insert"
    BY <1>1, <1>4, <2>1, <2>2, <2>3
  <2>4. CASE ClaimFeature
    BY <2>1, <2>2, <2>4 DEF ClaimFeature, Claimable, TypeOK, TypeOfTables
  <2> QED
    BY <2>1, <2>3, <2>4
<1> QED
  BY <1>2, <1>3, <1>4

\* A new run row is inserted only for a feature that has none, unless somebody
\* outside reopened it.
LEMMA DispatchedOnceStep ==
    ASSUME TypeOK, RowsExist, ClaimsAreExclusive, DispatchedOnce, [Next]_vars
    PROVE  DispatchedOnce'
<1> SUFFICES ASSUME NEW r \in RunId, NEW q \in RunId, r # q,
                    runFeature'[r] # 0, runFeature'[r] = runFeature'[q],
                    ~Reopened(runFeature[r])'
             PROVE  FALSE
  BY DEF DispatchedOnce
<1>1. runFeature'[r] \in FeatureId /\ ~Reopened(runFeature'[r])
  <2>1. runFeature'[r] \in FeatureId
    BY RunsFrame DEF StartWorker, TypeOK, TypeOfTables, TypeOfLoop
  <2> QED
    BY <2>1, EditsGrow DEF Reopened
<1>2. CASE StartWorker
  <2>1. PICK n \in RunId : runFeature' = [runFeature EXCEPT ![n] = sel]
    BY <1>2 DEF StartWorker
  <2>2. \A p \in RunId : ~Reopened(sel) => runFeature[p] # sel
    BY <1>2 DEF StartWorker, ClaimsAreExclusive
  <2> QED
    BY <1>1, <2>1, <2>2 DEF DispatchedOnce, TypeOK, TypeOfTables
<1>3. CASE runFeature' = runFeature
  BY <1>1, <1>3 DEF DispatchedOnce
<1> QED
  BY <1>2, <1>3, RunsFrame

-----------------------------------------------------------------------------
(* Rows and their workers.                                                  *)

\* What is spent of a budget stays spent.
LEMMA SpentGrows ==
    ASSUME TypeOK, [Next]_vars, NEW k \in Kind
    PROVE  spent'[k] \in Nat /\ spent[k] \in Nat /\ spent'[k] >= spent[k]
<1> USE DEF TypeOK, TypeOfHistory
<1>0. spent[k] \in Nat
  OBVIOUS
<1>1. ASSUME NEW j \in Kind, Spend(j) PROVE spent'[k] >= spent[k] /\ spent'[k] \in Nat
  BY <1>1 DEF Spend
<1>2. CASE UNCHANGED spent
  BY <1>0, <1>2
<1>3. ASSUME NEW r \in RunId,
             \E result \in Spawned, n \in Nat : ChildReturns(r, result, n)
      PROVE  spent'[k] >= spent[k] /\ spent'[k] \in Nat
  BY <1>3, ChildReturnsSpends
<1>4. \/ UNCHANGED spent
      \/ \E j \in Kind : Spend(j)
      \/ \E r \in RunId :
            \E result \in Spawned, n \in Nat : ChildReturns(r, result, n)
  <2>1. Kind = {"crash", "fault", "edit", "add", "followup", "timeout"}
    BY DEF Kind
  <2> QED
    BY <2>1, ChildReturnsSpawned
    DEF Next, PollLoop, TickOnce, Worker, Drainer, Outside, vars, history,
        Start, Interrupt, Crash, Exit, Tick, TickFails, TickDone,
        SelectFeature, SelectNothing, ClaimFeature, ClaimFails, StartWorker,
        StartRunFails, RollBack, TickerFires, StopSelected, CloseQueue,
        RunReturns, StartChild, Send, WorkerEnds,
        Receive, AppendContext, AddComment, WriteReport, LoadProject,
        FileFollowUp, SetFinalStatus, FinishRun, Release, DrainerExits,
        PersonAddsFeature, PersonSetsStatus
<1> QED
  BY <1>0, <1>1, <1>2, <1>3, <1>4

\* A run leaves the map when its worker ends or the process does, and enters
\* it when its row is inserted.
LEMMA RunningFrame ==
    [Next]_vars =>
        \/ UNCHANGED running
        \/ Crash \/ Exit \/ StartWorker
        \/ \E r \in RunId : WorkerEnds(r)
  BY WorkersFrame
  DEF workers, Release, Worker, StartChild, StartChildCancelled, ChildExits,
      ChildTimesOut, ChildKilledByStop, ChildReturns, Send

\* Only the closure's last statement, and the start of the next run, change
\* whether a run is settled.
LEMMA SettledFrame ==
    ASSUME TypeOK, QueueMatchesWorkers, MapMatchesWorkers, RowsExist,
           [Next]_vars, ~Crash, ~Exit,
           NEW r \in running, r \in running',
           ~(FinishRun /\ r = job)
    PROVE  Settled(r)' <=> Settled(r)
<1> USE DEF Settled, QueueMatchesWorkers, TypeOK, TypeOfWorkers
<1>1. r \in RunId /\ 0 \notin RunId
  BY SizeAssumption DEF RunId
<1>2. CASE UNCHANGED <<stage, job, step>>
  BY <1>2
<1>3. CASE StartWorker
  <2>1. PICK n \in RunId : /\ runResult[n] = "none"
                           /\ stage' = [stage EXCEPT ![n] = "begin"]
                           /\ UNCHANGED <<job, step>>
    BY <1>3 DEF StartWorker, NextRun, drainer
  <2>2. n # r
    BY <1>1, <2>1 DEF RowsExist
  <2>3. stage'[r] = stage[r]
    BY <1>1, <2>1, <2>2
  <2> QED
    BY <2>1, <2>3
<1>4. ASSUME NEW q \in RunId, Worker(q) PROVE Settled(r)' <=> Settled(r)
  <2>1. /\ UNCHANGED <<job, step>>
        /\ stage[q] # "released" \/ q # r
        /\ \E s \in {"inflight", "send", "await", "none"} :
              stage' = [stage EXCEPT ![q] = s]
    BY <1>1, <1>4
    DEF Worker, StartChild, StartChildCancelled, ChildExits, ChildTimesOut,
        ChildKilledByStop, ChildReturns, Send, AfterSend, WorkerEnds,
        Deregister, drainer
  <2> QED
    BY <1>1, <2>1
<1>5. CASE Receive
  <2>1. UNCHANGED stage /\ step = "idle" /\ step' = "context"
    BY <1>5 DEF Receive, workers
  <2> QED
    BY <2>1
<1>6. CASE Release
  BY <1>1, <1>6 DEF Release, DoneClosed
<1>7. CASE \/ AppendContext \/ AddComment \/ LoadProject \/ FileFollowUp
           \/ SetFinalStatus \/ FinishRun \/ DrainerExits
  <2>1. UNCHANGED <<stage, job>>
    BY <1>7
    DEF AppendContext, AddComment, WriteReport, LoadProject, FileFollowUp,
        SetFinalStatus, FinishRun, DrainerExits, workers
  <2>2. step # "release" /\ (step' = "release" => FinishRun)
    BY <1>7
    DEF AppendContext, AddComment, WriteReport, LoadProject, FileFollowUp,
        SetFinalStatus, FinishRun, DrainerExits
  <2> QED
    BY <2>1, <2>2
<1> QED
  BY <1>2, <1>3, <1>4, <1>5, <1>6, <1>7, WorkersFrame, DrainerFrame
  DEF workers, drainer, Drainer, CloseQueue, Worker

\* A worker's row is finished by its own closure and by nothing else while the
\* worker lives.
LEMMA RowsFollowWorkersStep ==
    ASSUME TypeOK, MemoryOfOff, QueueMatchesWorkers, MapMatchesWorkers,
           RowsExist, RowsFollowWorkers, [Next]_vars
    PROVE  RowsFollowWorkers'
<1> SUFFICES ASSUME NEW r \in running'
             PROVE  /\ ~Settled(r)' => runResult'[r] = "running"
                    /\ Settled(r)' => \/ runResult'[r] \in ResultStatus
                                      \/ spent'["fault"] > 0
  BY DEF RowsFollowWorkers
<1>1. CASE Crash \/ Exit
  BY <1>1 DEF Crash, Exit, ForgetProcess
<1>2. CASE StartWorker /\ r \notin running
  <2>1. /\ r \in RunId /\ runResult'[r] = "running"
        /\ stage'[r] = "begin" /\ UNCHANGED job
    BY <1>2 DEF StartWorker, drainer, TypeOK, TypeOfWorkers, TypeOfTables
  <2>2. job # r
    BY <1>2, <2>1, SizeAssumption
    DEF QueueMatchesWorkers, MapMatchesWorkers, RunId
  <2> QED
    BY <2>1, <2>2 DEF Settled
<1>3. CASE FinishRun /\ r = job /\ r \in running
  <2>1. r \in RunId /\ Settled(r)'
    BY <1>3 DEF FinishRun, Settled, TypeOK, TypeOfWorkers
  <2>2. CASE runResult' = [runResult EXCEPT ![job] = Classify(outcome[job])]
    BY <1>3, <2>1, <2>2, ClassifyType DEF TypeOK, TypeOfTables
  <2>3. CASE Spend("fault")
    BY <2>1, <2>3 DEF Spend, TypeOK, TypeOfHistory, Kind
  <2> QED
    BY <1>3, <2>2, <2>3 DEF FinishRun
<1>4. CASE r \in running /\ ~Crash /\ ~Exit /\ ~(FinishRun /\ r = job)
  <2>1. Settled(r)' <=> Settled(r)
    BY <1>4, SettledFrame
  <2>2. r \in RunId /\ runResult[r] # "none" /\ ~Start
    BY <1>4 DEF TypeOK, TypeOfWorkers, RowsExist, Start, MemoryOfOff
  <2>3. runResult'[r] = runResult[r]
    BY <1>4, <2>2, ResultsFrame
  <2>4. spent["fault"] > 0 => spent'["fault"] > 0
    BY SpentGrows DEF Kind
  <2> QED
    BY <1>4, <2>1, <2>3, <2>4 DEF RowsFollowWorkers
<1>5. r \in running \/ StartWorker \/ Crash \/ Exit
  BY RunningFrame DEF WorkerEnds, Deregister
<1> QED
  BY <1>1, <1>2, <1>3, <1>4, <1>5

-----------------------------------------------------------------------------
(* Runs and the features they ran.                                          *)

\* Only a closure writes the status of a feature that has a run and that
\* nobody touched: the loop has no business with it.
LEMMA DispatchedStatusFrame ==
    ASSUME TypeOK, RowsExist, ClaimsAreExclusive, [Next]_vars,
           NEW r \in RunId, runFeature[r] # 0, ~Touched(runFeature[r])'
    PROVE  /\ runFeature'[r] = runFeature[r]
           /\ ~Touched(runFeature[r])
           /\ \/ status'[runFeature[r]] = status[runFeature[r]]
              \/ /\ SetFinalStatus
                 /\ runFeature[job] = runFeature[r]
                 /\ status'[runFeature[r]] = StatusOfResult
<1>1. runFeature'[r] = runFeature[r]
  BY RunsFrame DEF StartWorker, NextRun, RowsExist, TypeOK, TypeOfTables
<1> DEFINE f == runFeature[r]
<1>2. f \in FeatureId /\ status[f] # "absent"
  BY DEF TypeOK, TypeOfTables, RowsExist
<1>3. edited'[f] = {} /\ edited[f] = {}
  BY <1>1, <1>2, EditsGrow DEF Touched
<1>4. ~ (pc \in {"claim", "rollback"} /\ sel = f)
  BY <1>3 DEF ClaimsAreExclusive, Reopened
<1> QED
  BY <1>1, <1>2, <1>3, <1>4, StatusFrame DEF Touched

\* SetFeatureStatus lands before FinishOrchestratorRun, and nothing undoes it
\* in between.
LEMMA StatusBeforeResultStep ==
    ASSUME TypeOK, QueueMatchesWorkers, RowsExist, MapMatchesWorkers,
           ClaimsAreExclusive, StatusBeforeResult, [Next]_vars
    PROVE  StatusBeforeResult'
<1> SUFFICES ASSUME step' = "finish", spent'["fault"] = 0,
                    ~Touched(runFeature[job])'
             PROVE  status'[runFeature'[job']] =
                        FinalStatus(Classify(outcome'[job']))
  BY DEF StatusBeforeResult
<1>1. /\ SetFinalStatus \/ step = "finish"
      /\ UNCHANGED job
      /\ ~FinishRun
  BY DrainerFrame
  DEF drainer, Crash, Exit, ForgetProcess, CloseQueue, Send, Drainer, Receive,
      AppendContext, AddComment, WriteReport, LoadProject, FileFollowUp,
      SetFinalStatus, FinishRun, Release, DrainerExits
<1>2. job \in RunId /\ stage[job] = "await" /\ job \in running
  BY <1>1
  DEF SetFinalStatus, QueueMatchesWorkers, MapMatchesWorkers, TypeOK,
      TypeOfDrainer
<1>3. runFeature[job] # 0
  BY <1>2 DEF RowsExist
<1>4. outcome'[job] = outcome[job]
  <2>1. CASE StartWorker \/ Release
    BY <2>1 DEF StartWorker, Release
  <2>2. ASSUME NEW q \in RunId, Worker(q) PROVE outcome'[job] = outcome[job]
    <3>1. CASE q = job
      BY <1>2, <2>2, <3>1
      DEF Worker, StartChild, StartChildCancelled, ChildExits, ChildTimesOut,
          ChildKilledByStop, Send, WorkerEnds
    <3>2. CASE q # job
      BY <1>2, <2>2, <3>2
      DEF Worker, StartChild, StartChildCancelled, ChildExits, ChildTimesOut,
          ChildKilledByStop, ChildReturns, Send, WorkerEnds, TypeOK,
          TypeOfWorkers
    <3> QED
      BY <3>1, <3>2
  <2>3. ~Crash /\ ~Exit
    BY <1>1 DEF Crash, Exit, ForgetProcess
  <2> QED
    BY <2>1, <2>2, <2>3, WorkersFrame DEF workers
<1>5. ~Touched(runFeature[job]) /\ runFeature'[job] = runFeature[job]
  <2>1. runFeature'[job] = runFeature[job]
    BY <1>2, <1>3, RunsFrame
    DEF StartWorker, NextRun, RowsExist, TypeOK, TypeOfTables
  <2> QED
    BY <1>1, <1>2, <1>3, <2>1, EditsGrow DEF Touched, TypeOK, TypeOfTables
<1>6. CASE SetFinalStatus
  <2>1. status' = [status EXCEPT ![runFeature[job]] = StatusOfResult]
    <3>1. ~Spend("fault")
      BY SpentGrows DEF Spend, TypeOK, TypeOfHistory, Kind
    <3> QED
      BY <1>6, <3>1 DEF SetFinalStatus
  <2>2. runFeature[job] \in FeatureId
    BY <1>2, <1>3 DEF TypeOK, TypeOfTables
  <2> QED
    BY <1>1, <1>4, <1>5, <2>1, <2>2 DEF StatusOfResult, TypeOK, TypeOfTables
<1>7. CASE step = "finish"
  <2>1. spent["fault"] = 0
    BY SpentGrows DEF Kind
  <2>2. status'[runFeature[job]] = status[runFeature[job]]
    BY <1>1, <1>2, <1>3, <1>7, DispatchedStatusFrame DEF SetFinalStatus
  <2> QED
    BY <1>1, <1>4, <1>5, <1>7, <2>1, <2>2 DEF StatusBeforeResult
<1> QED
  BY <1>1, <1>6, <1>7

\* Once both have landed, only somebody outside separates the two tables.
LEMMA OutcomeAgreesStep ==
    ASSUME TypeOK, QueueMatchesWorkers, RowsExist, MapMatchesWorkers,
           ClaimsAreExclusive, DispatchedOnce, RowsFollowWorkers,
           StatusBeforeResult, OutcomeAgrees, [Next]_vars
    PROVE  OutcomeAgrees'
<1> DEFINE Ended == {"completed", "blocked", "needs_review"}
<1> SUFFICES ASSUME spent'["fault"] = 0, NEW r \in RunId,
                    runResult'[r] \in Ended, ~Touched(runFeature[r])'
             PROVE  status'[runFeature'[r]] = FinalStatus(runResult'[r])
  BY DEF OutcomeAgrees
<1>1. spent["fault"] = 0
  BY SpentGrows DEF Kind
<1>2. CASE FinishRun /\ r = job /\ runResult'[r] = Classify(outcome[r])
  <2>1. /\ step = "finish" /\ UNCHANGED <<status, runFeature>>
    BY <1>2 DEF FinishRun
  <2>2. runFeature[r] # 0
    BY <1>2 DEF FinishRun, QueueMatchesWorkers, MapMatchesWorkers, RowsExist
  <2>3. ~Touched(runFeature[r])
    BY <2>2, DispatchedStatusFrame
  <2> QED
    BY <1>1, <1>2, <2>1, <2>3 DEF StatusBeforeResult
<1>3. CASE runResult'[r] = runResult[r]
  <2>1. runFeature[r] # 0
    BY <1>3 DEF RowsExist
  <2>2. /\ runFeature'[r] = runFeature[r]
        /\ ~Touched(runFeature[r])
    BY <2>1, DispatchedStatusFrame
  <2>3. ~ (SetFinalStatus /\ runFeature[job] = runFeature[r])
    <3>1. SUFFICES ASSUME SetFinalStatus, runFeature[job] = runFeature[r]
                   PROVE  FALSE
      OBVIOUS
    <3>2. /\ job \in RunId /\ job \in running /\ ~Settled(job)
      BY <3>1
      DEF SetFinalStatus, QueueMatchesWorkers, MapMatchesWorkers, TypeOK,
          TypeOfDrainer, Settled
    <3>3. job # r
      BY <1>3, <3>2 DEF RowsFollowWorkers
    <3>4. Reopened(runFeature[r])
      BY <2>1, <3>1, <3>2, <3>3 DEF DispatchedOnce
    <3> QED
      BY <2>2, <3>4 DEF Reopened, Touched
  <2>4. status'[runFeature[r]] = status[runFeature[r]]
    BY <2>1, <2>3, DispatchedStatusFrame
  <2> QED
    BY <1>1, <1>3, <2>2, <2>4 DEF OutcomeAgrees
<1> QED
  BY <1>2, <1>3, ResultsFrame

-----------------------------------------------------------------------------
(* Nothing is stranded.                                                     *)

\* A worker that has not written its feature's status leaves that state only
\* by writing it, or with the process.
LEMMA BeforeFinalStatusFrame ==
    ASSUME TypeOK, QueueMatchesWorkers, MapMatchesWorkers, RowsExist,
           ClosedAfterWorkers, [Next]_vars, ~Crash,
           NEW r \in running, BeforeFinalStatus(r), ~(SetFinalStatus /\ r = job)
    PROVE  r \in running' /\ BeforeFinalStatus(r)'
<1> USE DEF BeforeFinalStatus, QueueMatchesWorkers, TypeOK, TypeOfWorkers
<1>1. r \in RunId /\ 0 \notin RunId
  BY SizeAssumption DEF RunId
<1>2. CASE UNCHANGED <<running, stage, job, step>>
  BY <1>2
<1>3. CASE StartWorker
  <2>1. PICK n \in RunId : /\ runResult[n] = "none"
                           /\ stage' = [stage EXCEPT ![n] = "begin"]
                           /\ running' = running \cup {n}
                           /\ UNCHANGED <<job, step>>
    BY <1>3 DEF StartWorker, NextRun, drainer
  <2>2. n # r
    BY <1>1, <2>1 DEF RowsExist
  <2>3. stage'[r] = stage[r]
    BY <1>1, <2>1, <2>2
  <2> QED
    BY <2>1, <2>3
<1>4. ASSUME NEW q \in RunId, Worker(q) PROVE r \in running' /\ BeforeFinalStatus(r)'
  <2>1. UNCHANGED <<job, step>>
    BY <1>4
    DEF Worker, StartChild, StartChildCancelled, ChildExits, ChildTimesOut,
        ChildKilledByStop, ChildReturns, Send, WorkerEnds, drainer
  <2>2. CASE q # r
    <3>1. stage'[r] = stage[r] /\ r \in running'
      BY <1>1, <1>4, <2>2
      DEF Worker, StartChild, StartChildCancelled, ChildExits, ChildTimesOut,
          ChildKilledByStop, ChildReturns, Send, WorkerEnds, Deregister
    <3> QED
      BY <2>1, <3>1
  <2>3. CASE q = r /\ stage[r] = "send"
    <3>1. stage'[r] = "await" /\ r \in running' /\ job # r
      BY <1>1, <1>4, <2>3
      DEF Worker, StartChild, StartChildCancelled, ChildExits, ChildTimesOut,
          ChildKilledByStop, ChildReturns, Send, AfterSend, WorkerEnds
    <3> QED
      BY <2>1, <3>1
  <2>4. CASE q = r /\ stage[r] \in {"begin", "inflight", "await"}
    <3>1. stage'[r] \in {"inflight", "send"} /\ r \in running'
      BY <1>1, <1>4, <2>4
      DEF Worker, StartChild, StartChildCancelled, ChildExits, ChildTimesOut,
          ChildKilledByStop, ChildReturns, Send, WorkerEnds
    <3> QED
      BY <3>1
  <2> QED
    BY <2>2, <2>3, <2>4
<1>5. ASSUME Exit PROVE FALSE
  BY <1>5 DEF Exit, ClosedAfterWorkers
<1>6. CASE Receive
  BY <1>6 DEF Receive, workers
<1>7. CASE Release
  BY <1>1, <1>7 DEF Release, DoneClosed
<1>8. CASE \/ AppendContext \/ AddComment \/ LoadProject \/ FileFollowUp
           \/ SetFinalStatus \/ FinishRun \/ DrainerExits
  <2>1. UNCHANGED <<running, stage, job>>
    BY <1>8
    DEF AppendContext, AddComment, WriteReport, LoadProject, FileFollowUp,
        SetFinalStatus, FinishRun, DrainerExits, workers
  <2>2. r = job =>
          step' \in {"context", "comment", "project", "followups", "status"}
    BY <1>1, <1>8
    DEF AppendContext, AddComment, WriteReport, LoadProject, FileFollowUp,
        SetFinalStatus, FinishRun, DrainerExits
  <2> QED
    BY <2>1, <2>2
<1> QED
  BY <1>2, <1>3, <1>4, <1>5, <1>6, <1>7, <1>8, WorkersFrame, DrainerFrame
  DEF workers, drainer, Drainer, CloseQueue, Worker

\* A claim passes from the loop to a worker, and from the worker to the status
\* write, without a gap; a row is finished before its worker leaves.
LEMMA NothingStrandedStep ==
    ASSUME TypeOK, QueueMatchesWorkers, MapMatchesWorkers, RowsExist,
           ClosedAfterWorkers, RowsFollowWorkers, NothingStranded, [Next]_vars
    PROVE  NothingStranded'
<1> SUFFICES ASSUME spent'["fault"] = 0, spent'["crash"] = 0
             PROVE  NothingStranded'
  BY DEF NothingStranded
<1>1. /\ spent["fault"] = 0 /\ spent["crash"] = 0
      /\ ~Spend("fault") /\ ~Crash
  BY SpentGrows DEF Kind, Spend, Crash, TypeOK, TypeOfHistory
<1>2. ASSUME NEW r \in RunId, runResult'[r] = "running" PROVE r \in running'
  <2>1. CASE StartWorker /\ runResult[r] = "none"
    BY <1>2, <2>1 DEF StartWorker, TypeOK, TypeOfTables
  <2>2. CASE runResult[r] = "running" /\ runResult'[r] = runResult[r]
    <3>1. r \in running
      BY <1>1, <2>2 DEF NothingStranded
    <3>2. CASE StartWorker
      BY <3>1, <3>2 DEF StartWorker
    <3>3. ~Exit
      BY <3>1 DEF Exit, ClosedAfterWorkers
    <3>4. ~WorkerEnds(r)
      BY <1>1, <2>2, <3>1
      DEF WorkerEnds, RowsFollowWorkers, Settled, ResultStatus
    <3> QED
      BY <1>1, <3>1, <3>2, <3>3, <3>4, RunningFrame DEF WorkerEnds, Deregister
  <2> QED
    BY <1>2, <2>1, <2>2, ResultsFrame, ClassifyType DEF ResultStatus
<1>3. ASSUME NEW f \in FeatureId, status'[f] = "claimed", ~Touched(f)'
      PROVE  \/ pc' = "insert" /\ sel' = f
             \/ \E r \in running' : runFeature'[r] = f /\ BeforeFinalStatus(r)'
  <2>0. ~Touched(f) /\ edited'[f] = {}
    BY <1>3, EditsGrow DEF Touched
  <2>1. CASE status[f] # "claimed"
    <3>1. pc = "claim" /\ sel = f
      BY <1>3, <2>0, <2>1, StatusFrame, FinalStatusType
      DEF StatusOfResult, FinalStatuses
    <3>2. ClaimFeature
      BY <1>1, <1>3, <2>1, <2>0, <3>1, TablesFrame
      DEF db, Start, ClaimFails, StartWorker, RollBack, FileFollowUp,
          AddFeature, SetFinalStatus, FinishRun, Outside, PersonAddsFeature,
          PersonSetsStatus, TypeOK, TypeOfTables, TypeOfHistory,
          StatusOfResult, FinalStatus
    <3> QED
      BY <3>1, <3>2 DEF ClaimFeature, locals
  <2>2. CASE status[f] = "claimed" /\ pc = "insert" /\ sel = f
    <3>1. CASE StartWorker
      <4>1. PICK r \in RunId : /\ runFeature'[r] = f
                               /\ r \in running'
                               /\ stage'[r] = "begin"
        BY <2>2, <3>1 DEF StartWorker, TypeOK, TypeOfTables, TypeOfWorkers
      <4> QED
        BY <4>1 DEF BeforeFinalStatus
    <3>2. CASE ~StartWorker
      <4>1. UNCHANGED <<pc, sel>>
        BY <1>1, <2>2, <3>2, LoopFrame
        DEF loop, locals, PollLoop, TickOnce,
            Start, Interrupt, Exit, Tick, TickFails, TickDone, SelectFeature,
            SelectNothing, ClaimFeature, ClaimFails, StartRunFails, RollBack,
            TickerFires, StopSelected, CloseQueue, RunReturns
      <4> QED
        BY <2>2, <4>1
    <3> QED
      BY <3>1, <3>2
  <2>3. ASSUME status[f] = "claimed",
               NEW r \in running, runFeature[r] = f, BeforeFinalStatus(r)
        PROVE  r \in running' /\ runFeature'[r] = f /\ BeforeFinalStatus(r)'
    <3>1. ~ (SetFinalStatus /\ r = job)
      <4>1. SUFFICES ASSUME SetFinalStatus, r = job PROVE FALSE
        OBVIOUS
      <4>2. status'[f] = StatusOfResult
        BY <1>1, <2>3, <4>1 DEF SetFinalStatus, TypeOK, TypeOfTables
      <4> QED
        BY <1>3, <4>2, FinalStatusType DEF StatusOfResult, FinalStatuses
    <3>2. r \in RunId /\ runFeature'[r] = runFeature[r]
      BY RunsFrame
      DEF StartWorker, NextRun, RowsExist, TypeOK, TypeOfTables, TypeOfWorkers
    <3> QED
      BY <1>1, <2>3, <3>1, <3>2, BeforeFinalStatusFrame
  <2> QED
    BY <1>1, <2>0, <2>1, <2>2, <2>3 DEF NothingStranded
<1> QED
  BY <1>2, <1>3 DEF NothingStranded

-----------------------------------------------------------------------------
(* The inductive invariant.                                                 *)

\* The initial state is consistent.
LEMMA ConsistentInit == Init => Consistent
<1> SUFFICES ASSUME Init PROVE Consistent
  OBVIOUS
<1>1. MemoryOfOff /\ MapMatchesWorkers /\ QueueMatchesWorkers
  BY DEF Init, MemoryOfOff, MapMatchesWorkers, QueueMatchesWorkers
<1>2. Capacity
  BY FS_EmptySet, SizeAssumption DEF Init, Capacity
<1>3. ClosedAfterWorkers /\ RowsExist /\ ClaimsAreExclusive
  BY DEF Init, ClosedAfterWorkers, RowsExist, ClaimsAreExclusive
<1>4. DispatchedOnce /\ RowsFollowWorkers
  BY DEF Init, DispatchedOnce, RowsFollowWorkers
<1>5. NothingStranded /\ StatusBeforeResult /\ OutcomeAgrees
  BY DEF Init, NothingStranded, StatusBeforeResult, OutcomeAgrees
<1> QED
  BY <1>1, <1>2, <1>3, <1>4, <1>5 DEF Consistent

\* Types and consistency are preserved together.
LEMMA InductiveStep ==
    TypeOK /\ Consistent /\ [Next]_vars => TypeOK' /\ Consistent'
<1> SUFFICES ASSUME TypeOK, Consistent, [Next]_vars
             PROVE  TypeOK' /\ Consistent'
  OBVIOUS
<1> USE DEF Consistent
<1>1. TypeOK'
  BY TypeOfTablesStep, TypeOfLoopStep, TypeOfWorkersStep, TypeOfDrainerStep,
     TypeOfFlagsStep, TypeOfHistoryStep
  DEF TypeOK
<1>2. /\ MemoryOfOff' /\ MapMatchesWorkers' /\ Capacity'
      /\ ClosedAfterWorkers' /\ QueueMatchesWorkers'
  BY MemoryOfOffStep, MapMatchesWorkersStep, CapacityStep,
     ClosedAfterWorkersStep, QueueMatchesWorkersStep
<1>3. RowsExist' /\ ClaimsAreExclusive' /\ DispatchedOnce'
  BY RowsExistStep, ClaimsAreExclusiveStep, DispatchedOnceStep
<1>4. /\ RowsFollowWorkers' /\ NothingStranded'
      /\ StatusBeforeResult' /\ OutcomeAgrees'
  BY RowsFollowWorkersStep, NothingStrandedStep, StatusBeforeResultStep,
     OutcomeAgreesStep
<1> QED
  BY <1>1, <1>2, <1>3, <1>4

\* The state of the three kinds of goroutine and the two tables stay
\* consistent with each other, for every persona list, cap, queue size,
\* outcome set and budget: the invariant everything below follows from.
THEOREM Inductive == Spec => [](TypeOK /\ Consistent)
<1>1. Init => TypeOK /\ Consistent
  BY TypeInit, ConsistentInit
<1> QED
  BY <1>1, InductiveStep, PTL DEF Spec

-----------------------------------------------------------------------------
(* What follows from it.                                                    *)

\* Every variable keeps its type.
THEOREM TypeCorrect == Spec => []TypeOK
  BY Inductive, PTL

\* tickOnce never starts more workers than Config.MaxParallelism.
THEOREM CapHolds == Spec => []ParallelismCap
<1>1. TypeOK /\ Consistent => ParallelismCap
  BY DEF Consistent, Capacity, ParallelismCap
<1> QED
  BY <1>1, Inductive, PTL

\* Run closes the side-effect channel only when no worker can still send.
THEOREM NoPanicOnSend == Spec => []NoSendOnClosed
<1>1. TypeOK /\ Consistent => NoSendOnClosed
  BY DEF Consistent, ClosedAfterWorkers, MapMatchesWorkers, NoSendOnClosed
<1> QED
  BY <1>1, Inductive, PTL

\* Two runs of one feature exist only when somebody outside reopened it.
THEOREM FeaturesAreDispatchedOnce == Spec => []DispatchedOnce
<1>1. TypeOK /\ Consistent => DispatchedOnce
  BY DEF Consistent
<1> QED
  BY <1>1, Inductive, PTL

\* Without crashes and failing statements no claim and no running row is left
\* without somebody who will still settle it.
THEOREM NobodyIsStranded == Spec => []NothingStranded
<1>1. TypeOK /\ Consistent => NothingStranded
  BY DEF Consistent
<1> QED
  BY <1>1, Inductive, PTL

\* A run that says completed, blocked or needs_review and the status of an
\* untouched feature it ran tell the same story, crashes included.
THEOREM TablesAgree == Spec => []OutcomeAgrees
<1>1. TypeOK /\ Consistent => OutcomeAgrees
  BY DEF Consistent
<1> QED
  BY <1>1, Inductive, PTL

\* The drainer finishes only rows that are still running.
LEMMA FinishesRunningRow ==
    ASSUME TypeOK, Consistent, FinishRun
    PROVE  job \in RunId /\ job \in running /\ runResult[job] = "running"
<1>1. job \in RunId /\ job \in running
  BY DEF FinishRun, Consistent, QueueMatchesWorkers, MapMatchesWorkers, TypeOK,
         TypeOfDrainer
<1>2. ~Settled(job)
  BY DEF FinishRun, Settled, Consistent, QueueMatchesWorkers
<1> QED
  BY <1>1, <1>2 DEF Consistent, RowsFollowWorkers

\* Neither the drainer nor a later start's MarkStaleRunsErrored overwrites the
\* result of a run.
THEOREM ResultsStay == Spec => ResultsAreFinal
<1>1. ASSUME TypeOK, Consistent, [Next]_vars, NEW r \in RunId,
             runResult[r] \in ResultStatus
      PROVE  runResult'[r] = runResult[r]
  BY <1>1, ResultsFrame, FinishesRunningRow DEF ResultStatus
<1>2. TypeOK /\ Consistent /\ [Next]_vars =>
          [\A r \in RunId : runResult[r] \in ResultStatus =>
              runResult'[r] = runResult[r]]_vars
  BY <1>1
<1> QED
  BY <1>2, Inductive, PTL DEF Spec, ResultsAreFinal

-----------------------------------------------------------------------------
(* The daemon implements the ledger.                                        *)

\* An empty database without a daemon is an empty ledger.
LEMMA LedgerInit == Init => Ledger!Init
  BY DEF Init, Ledger!Init, Kind

\* A step that leaves rows and workers alone is a lost statement or nothing.
LEMMA LedgerQuietStep ==
    ASSUME TypeOK, [Next]_vars, UNCHANGED <<runResult, running>>
    PROVE  [Ledger!Next]_(Ledger!ledger)
<1>1. spent["fault"] > 0 => spent'["fault"] > 0
  BY SpentGrows DEF Kind
<1>2. CASE (spent'["fault"] > 0) = (spent["fault"] > 0)
  BY <1>2 DEF Ledger!ledger
<1>3. CASE (spent'["fault"] > 0) = TRUE
  BY <1>3 DEF Ledger!Next, Ledger!Lose
<1>4. CASE spent'["fault"] > 0
  <2>1. (spent'["fault"] > 0) = TRUE
    BY <1>4
  <2> QED
    BY <1>3, <2>1
<1>5. CASE ~(spent'["fault"] > 0)
  <2>1. (spent'["fault"] > 0) = (spent["fault"] > 0)
    BY <1>1, <1>5
  <2> QED
    BY <1>2, <2>1
<1> QED
  BY <1>4, <1>5

\* Every step of the daemon is a step of the ledger or leaves it alone.
LEMMA LedgerStep ==
    ASSUME TypeOK, Consistent, TypeOK', [Next]_vars
    PROVE  [Ledger!Next]_(Ledger!ledger)
<1> DEFINE Same == (spent'["fault"] > 0) = (spent["fault"] > 0)
<1>1. CASE Start
  <2>1. running = {} /\ running' = running /\ Same
    BY <1>1 DEF Start, Consistent, MemoryOfOff, workers, history
  <2>2. PICK n \in 0..MaxRuns :
           runResult' = [r \in RunId |->
                           IF r \in StaleRows(n) THEN "error" ELSE runResult[r]]
    BY <1>1 DEF Start
  <2>3. StaleRows(n) \in SUBSET {r \in RunId : runResult[r] = "running"}
    BY DEF StaleRows
  <2> QED
    BY <2>1, <2>2, <2>3 DEF Ledger!Next, Ledger!Reap
<1>2. CASE StartWorker
  <2>1. PICK r \in RunId : /\ NextRun(r)
                           /\ runResult' = [runResult EXCEPT ![r] = "running"]
                           /\ running' = running \cup {r}
    BY <1>2 DEF StartWorker
  <2>2. Cardinality(running) < MaxParallelism
    BY <1>2, RunningIsFinite, SizeAssumption
    DEF StartWorker, Consistent, Capacity, TypeOK, TypeOfLoop
  <2>3. Same
    BY <1>2 DEF StartWorker, history
  <2>4. runResult[r] = "none" /\ \A q \in RunId : q < r => runResult[q] # "none"
    BY <2>1 DEF NextRun
  <2> HIDE DEF Same
  <2>5. (spent'["fault"] > 0) = (spent["fault"] > 0)
    BY <2>3 DEF Same
  <2>6. Ledger!Cardinality(running) < MaxParallelism
    BY <2>2 DEF Cardinality, Ledger!Cardinality
  <2>7. Ledger!Open(r)
    BY <2>1, <2>4, <2>5, <2>6 DEF Ledger!Open
  <2> QED
    BY <2>7 DEF Ledger!Next
<1>3. CASE FinishRun /\ UNCHANGED spent
  <2>1. CASE runResult' = [runResult EXCEPT ![job] = Classify(outcome[job])]
    <3>1. job \in RunId /\ job \in running /\ runResult[job] = "running"
      BY <1>3, FinishesRunningRow
    <3>2. running' = running /\ Same
      BY <1>3 DEF FinishRun, workers
    <3>3. Ledger!Close(job)
      BY <2>1, <3>1, <3>2, ClassifyType DEF Ledger!Close
    <3> QED
      BY <3>1, <3>3 DEF Ledger!Next
  <2>2. CASE UNCHANGED runResult
    BY <1>3, <2>2, LedgerQuietStep DEF FinishRun, workers
  <2> QED
    BY <1>3, <2>1, <2>2 DEF FinishRun
<1>4. CASE FinishRun /\ UNCHANGED runResult
  BY <1>4, LedgerQuietStep DEF FinishRun, workers
<1>5. ASSUME NEW r \in RunId, WorkerEnds(r)
      PROVE  [Ledger!Next]_(Ledger!ledger)
  <2>1. r \in running /\ Settled(r)
    BY <1>5 DEF WorkerEnds, Settled, Consistent, MapMatchesWorkers
  <2>2. runResult[r] \in ResultStatus \/ spent["fault"] > 0
    BY <2>1 DEF Consistent, RowsFollowWorkers
  <2>3. /\ running' = running \ {r} /\ UNCHANGED runResult
        /\ Same
    BY <1>5 DEF WorkerEnds, Deregister, db
  <2>4. Ledger!Retire(r)
    BY <2>1, <2>2, <2>3 DEF Ledger!Retire
  <2> QED
    BY <2>4 DEF Ledger!Next
<1>6. CASE Crash \/ Exit
  <2>1. running' = {} /\ UNCHANGED runResult
    BY <1>6 DEF Crash, Exit, ForgetProcess, db
  <2>2. Same
    BY <1>6 DEF Crash, Exit, Spend, TypeOK, TypeOfHistory, Kind
  <2> QED
    BY <2>1, <2>2 DEF Ledger!Next, Ledger!Die
<1>7. CASE UNCHANGED <<runResult, running>>
  BY <1>7, LedgerQuietStep
<1>8. CASE UNCHANGED running /\ ~Start /\ ~StartWorker /\ ~FinishRun
  <2>1. UNCHANGED runResult
    BY <1>8, TablesFrame
    DEF db, ClaimFeature, ClaimFails, RollBack, FileFollowUp,
        SetFinalStatus, Outside, PersonAddsFeature, PersonSetsStatus
  <2> QED
    BY <1>8, <2>1, LedgerQuietStep
<1> QED
  BY <1>1, <1>2, <1>3, <1>4, <1>5, <1>6, <1>7, <1>8, RunningFrame
  DEF FinishRun

\* Rows open one at a time and under the cap, a live worker stands behind each
\* until it has a result, and a start settles only rows of dead workers.
THEOREM ImplementsLedger == Spec => LedgerSpec
<1>1. TypeOK /\ Consistent /\ (TypeOK /\ Consistent)' /\ [Next]_vars
          => [Ledger!Next]_(Ledger!ledger)
  BY LedgerStep
<1> QED
  BY <1>1, LedgerInit, Inductive, PTL DEF Spec, LedgerSpec, Ledger!Spec
=============================================================================

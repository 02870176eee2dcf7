---------------------- MODULE OrchestratorDrainProofs ----------------------
(***************************************************************************)
(* What the workers and the drainer of Orchestrator owe each other, for    *)
(* every channel size, number of workers and length of follow-up lists.    *)
(*                                                                         *)
(* A worker is released only after its whole block of writes has landed,   *)
(* in the closure's order: as long as no statement fails, what has landed  *)
(* followed by what the closure has still to write is its script, and      *)
(* whatever fails nothing that landed is ahead of the drainer.  Nobody     *)
(* waits for somebody who waits for him, and every step takes its run      *)
(* nearer to its end: what a stop has to wait for is finite.               *)
(***************************************************************************)
EXTENDS OrchestratorProofs, SequenceTheorems

-----------------------------------------------------------------------------
(* Sequences of writes.                                                     *)

\* A write that lands moves from what is left to what has landed.
LEMMA Moves ==
    ASSUME NEW a \in Seq(Write), NEW w \in Write, NEW b \in Seq(Write)
    PROVE  Append(a, w) \o b = a \o (<<w>> \o b)
<1>1. <<w>> \in Seq(Write)
  OBVIOUS
<1>2. Append(a, w) = a \o <<w>>
  BY AppendIsConcat
<1> QED
  BY <1>1, <1>2, ConcatAssociative

\* What comes before is a prefix.
LEMMA IsPrefix ==
    ASSUME NEW a \in Seq(Write), NEW b \in Seq(Write)
    PROVE  Len(a) <= Len(a \o b) /\ a = SubSeq(a \o b, 1, Len(a))
<1>1. Len(a) \in Nat /\ Len(b) \in Nat /\ Len(a \o b) = Len(a) + Len(b)
  OBVIOUS
<1> QED
  BY <1>1, SubSeqOfConcat1, SubSeqFull

LEMMA Nothingness ==
    ASSUME NEW a \in Seq(Write)
    PROVE  a \o <<>> = a /\ <<>> \o a = a
  BY ConcatEmptySeq

LEMMA FilingsType ==
    ASSUME NEW n \in Nat
    PROVE  Filings(n) \in Seq(Write) /\ Len(Filings(n)) = n
  BY DEF Filings, Write

\* One filing less.
LEMMA OneIsFiled ==
    ASSUME NEW n \in Nat
    PROVE  Filings(n + 1) = <<"followup">> \o Filings(n)
<1>1. <<"followup">> \in Seq(Write) /\ Len(<<"followup">>) = 1
  BY DEF Write
<1>2. Len(Filings(n + 1)) = Len(<<"followup">> \o Filings(n))
  BY <1>1, FilingsType
<1>3. \A i \in 1 .. n + 1 : (<<"followup">> \o Filings(n))[i] = "followup"
  BY <1>1, FilingsType DEF Filings
<1>4. /\ Filings(n + 1) \in Seq(Write)
      /\ <<"followup">> \o Filings(n) \in Seq(Write)
  BY <1>1, FilingsType
<1>5. \A i \in 1 .. n + 1 : Filings(n + 1)[i] = "followup"
  BY DEF Filings
<1>6. Len(Filings(n + 1)) = n + 1
  BY FilingsType
<1> HIDE DEF Write
<1> QED
  BY <1>2, <1>3, <1>4, <1>5, <1>6, SeqEqual

LEMMA NoFilings == Filings(0) = <<>>
<1>1. Filings(0) \in Seq(Write) /\ Len(Filings(0)) = 0
  BY FilingsType
<1>2. <<>> \in Seq(Write) /\ Len(<<>>) = 0
  BY EmptySeq
<1> QED
  BY <1>1, <1>2, SeqEqual

LEMMA OptionalType ==
    ASSUME NEW w \in {"context", "comment"}, NEW result
    PROVE  Optional(w, result) \in Seq(Write)
<1>1. <<w>> \in Seq(Write)
  BY DEF Write
<1>2. <<>> \in Seq(Write)
  OBVIOUS
<1> QED
  BY <1>1, <1>2 DEF Optional

LEMMA ClosingType ==
    /\ Closing \in Seq(Write)
    /\ Closing = <<"status">> \o <<"finish">>
    /\ <<"finish">> \in Seq(Write)
    /\ <<"status">> \in Seq(Write)
  BY DEF Closing, Write

LEMMA FollowUpsType ==
    ASSUME NEW result \in Spawned
    PROVE  /\ result.reply.followUps \in Seq(Target)
           /\ Len(result.reply.followUps) \in Nat
  BY DEF Spawned, SpawnedWith, Reply

\* The block at each statement.
LEMMA RestType ==
    ASSUME NEW result \in Spawned, NEW n \in Nat, NEW s \in Step
    PROVE  Rest(s, result, n) \in Seq(Write) /\ Script(result) \in Seq(Write)
<1>1. /\ Filings(Len(result.reply.followUps)) \o Closing \in Seq(Write)
      /\ Filings(n) \o Closing \in Seq(Write)
  BY FollowUpsType, FilingsType, ClosingType
<1>2. Optional("comment", result) \o
         (Filings(Len(result.reply.followUps)) \o Closing) \in Seq(Write)
  BY <1>1, OptionalType
<1>3. Script(result) \in Seq(Write)
  BY <1>2, OptionalType DEF Script
<1>4. <<>> \in Seq(Write)
  OBVIOUS
<1> QED
  BY <1>1, <1>2, <1>3, <1>4, ClosingType DEF Rest, Step

\* What each statement takes from the block.
LEMMA Takes ==
    ASSUME NEW o \in Spawned, NEW n \in Nat
    PROVE  LET files == Len(o.reply.followUps) IN
           /\ Rest("context", o, n) = Script(o)
           /\ Rest("context", o, n)
                 = Optional("context", o) \o Rest("comment", o, n)
           /\ Rest("comment", o, n)
                 = Optional("comment", o) \o Rest("project", o, n)
           /\ Rest("project", o, n)
                 = IF files = 0 THEN Rest("status", o, files)
                                ELSE Rest("followups", o, files)
           /\ Rest("followups", o, n + 1)
                 = <<"followup">> \o
                      (IF n = 0 THEN Rest("status", o, n)
                                ELSE Rest("followups", o, n))
           /\ Rest("status", o, n) = <<"status">> \o Rest("finish", o, n)
           /\ Rest("finish", o, n) = <<"finish">> \o Rest("release", o, n)
           /\ Rest("release", o, n) = <<>>
<1> DEFINE files == Len(o.reply.followUps)
<1>1. /\ Rest("context", o, n) = Script(o)
      /\ Rest("comment", o, n)
            = Optional("comment", o) \o (Filings(files) \o Closing)
      /\ Rest("project", o, n) = Filings(files) \o Closing
      /\ Rest("finish", o, n) = <<"finish">>
      /\ Rest("release", o, n) = <<>>
  BY DEF Rest
<1>2. \A k : /\ Rest("followups", o, k) = Filings(k) \o Closing
              /\ Rest("status", o, k) = Closing
  BY DEF Rest
<1>3. Script(o) = Optional("context", o) \o Rest("comment", o, n)
  BY <1>1 DEF Script
<1>4. Filings(0) \o Closing = Closing
  BY NoFilings, Nothingness, ClosingType
<1>5. Filings(n + 1) \o Closing = <<"followup">> \o (Filings(n) \o Closing)
  <2>1. <<"followup">> \in Seq(Write)
    BY DEF Write
  <2>2. Filings(n) \in Seq(Write) /\ Closing \in Seq(Write)
    BY FilingsType, ClosingType
  <2>3. (<<"followup">> \o Filings(n)) \o Closing
           = <<"followup">> \o (Filings(n) \o Closing)
    BY ONLY <2>1, <2>2, ConcatAssociative
  <2> QED
    BY <2>3, OneIsFiled
<1>6. Closing = <<"status">> \o <<"finish">>
  BY ClosingType
<1>7. <<"finish">> = <<"finish">> \o <<>>
  BY Nothingness, ClosingType
<1> QED
  BY <1>1, <1>2, <1>3, <1>4, <1>5, <1>6, <1>7

-----------------------------------------------------------------------------
(* The steps of the daemon.                                                 *)

LEMMA NoFault ==
    ASSUME TypeOK, spent'["fault"] = 0
    PROVE  ~ Spend("fault")
<1>1. spent \in [Kind -> Nat] /\ "fault" \in Kind
  BY DEF TypeOK, TypeOfHistory, Kind
<1> QED
  BY <1>1 DEF Spend

LEMMA Lands ==
    ASSUME TypeOK, job \in RunId, NEW w \in Write, Land(w),
           NEW b \in Seq(Write)
    PROVE  landed'[job] \o b = landed[job] \o (<<w>> \o b)
<1>1. landed[job] \in Seq(Write) /\ landed'[job] = Append(landed[job], w)
  BY DEF TypeOK, TypeOfHistory, Land
<1> QED
  BY <1>1, Moves

\* A statement of the closure.
Statement ==
    \/ AppendContext \/ AddComment \/ LoadProject \/ FileFollowUp
    \/ SetFinalStatus \/ FinishRun

\* A statement that does not fail takes its write from the block and lands it.
LEMMA Applies ==
    ASSUME TypeOK, TypeOK', job \in RunId, QueueMatchesWorkers, Statement,
           spent'["fault"] = 0
    PROVE  landed'[job] \o Rest(step', outcome[job], Len(todo'))
              = landed[job] \o Rest(step, outcome[job], Len(todo))
<1> DEFINE o == outcome[job]
           left == Len(todo)
<1>1. /\ o \in Spawned
      /\ left \in Nat /\ Len(todo') \in Nat
      /\ landed[job] \in Seq(Write)
  BY DEF TypeOK, TypeOfWorkers, TypeOfDrainer, TypeOfHistory
<1>2. \A s \in Step, n \in Nat : Rest(s, o, n) \in Seq(Write)
  BY <1>1, RestType
<1>3. ~ Spend("fault")
  BY NoFault
<1>4. \A w \in Write, b \in Seq(Write) :
         Land(w) => landed'[job] \o b = landed[job] \o (<<w>> \o b)
  BY Lands
<1>5. \A b \in Seq(Write) : <<>> \o b = b
  BY Nothingness
<1>6. CASE AppendContext
  <2>1. step = "context" /\ step' = "comment" /\ UNCHANGED todo
    BY <1>6 DEF AppendContext, WriteReport
  <2>2. Rest("comment", o, left) \in Seq(Write)
    BY <1>1, <1>2 DEF Step
  <2>3. Rest("context", o, left)
           = Optional("context", o) \o Rest("comment", o, left)
    BY <1>1, Takes
  <2>4. CASE "context" \in o.reply.writes
    <3>1. Land("context")
      BY <1>3, <1>6, <2>4 DEF AppendContext, WriteReport
    <3>2. Optional("context", o) = <<"context">>
      BY <2>4 DEF Optional
    <3>3. landed'[job] \o Rest("comment", o, left)
             = landed[job] \o (<<"context">> \o Rest("comment", o, left))
      <4>1. "context" \in Write
        BY DEF Write
      <4> QED
        BY <1>4, <2>2, <3>1, <4>1
    <3> QED
      BY <2>1, <2>3, <3>2, <3>3
  <2>5. CASE "context" \notin o.reply.writes
    <3>1. UNCHANGED landed
      BY <1>6, <2>5 DEF AppendContext, WriteReport
    <3>2. Optional("context", o) = <<>>
      BY <2>5 DEF Optional
    <3> QED
      BY <1>5, <2>1, <2>2, <2>3, <3>1, <3>2
  <2> QED
    BY <2>4, <2>5
<1>7. CASE AddComment
  <2>1. step = "comment" /\ step' = "project" /\ UNCHANGED todo
    BY <1>7 DEF AddComment, WriteReport
  <2>2. Rest("project", o, left) \in Seq(Write)
    BY <1>1, <1>2 DEF Step
  <2>3. Rest("comment", o, left)
           = Optional("comment", o) \o Rest("project", o, left)
    BY <1>1, Takes
  <2>4. CASE "comment" \in o.reply.writes
    <3>1. Land("comment")
      BY <1>3, <1>7, <2>4 DEF AddComment, WriteReport
    <3>2. Optional("comment", o) = <<"comment">>
      BY <2>4 DEF Optional
    <3>3. landed'[job] \o Rest("project", o, left)
             = landed[job] \o (<<"comment">> \o Rest("project", o, left))
      <4>1. "comment" \in Write
        BY DEF Write
      <4> QED
        BY <1>4, <2>2, <3>1, <4>1
    <3> QED
      BY <2>1, <2>3, <3>2, <3>3
  <2>5. CASE "comment" \notin o.reply.writes
    <3>1. UNCHANGED landed
      BY <1>7, <2>5 DEF AddComment, WriteReport
    <3>2. Optional("comment", o) = <<>>
      BY <2>5 DEF Optional
    <3> QED
      BY <1>5, <2>1, <2>2, <2>3, <3>1, <3>2
  <2> QED
    BY <2>4, <2>5
<1>8. CASE LoadProject
  <2> DEFINE files == Len(o.reply.followUps)
  <2>1. /\ step = "project" /\ todo' = o.reply.followUps
        /\ step' = IF todo' = <<>> THEN "status" ELSE "followups"
        /\ UNCHANGED landed
    BY <1>3, <1>8 DEF LoadProject
  <2>2. todo' = <<>> <=> files = 0
    BY <1>1, <2>1, FollowUpsType, EmptySeq
  <2>3. Rest("project", o, left)
           = IF files = 0 THEN Rest("status", o, files)
                          ELSE Rest("followups", o, files)
    BY <1>1, Takes
  <2> QED
    BY <2>1, <2>2, <2>3
<1>9. CASE FileFollowUp
  <2> DEFINE n == Len(todo')
  <2>1. /\ step = "followups" /\ todo' = Tail(todo)
        /\ step' = IF todo' = <<>> THEN "status" ELSE "followups"
        /\ Land("followup")
    BY <1>3, <1>9 DEF FileFollowUp
  <2>2. todo \in Seq(Target) /\ todo # <<>> /\ todo' \in Seq(Target)
    BY <2>1 DEF QueueMatchesWorkers, TypeOK, TypeOfDrainer
  <2>3. left = n + 1 /\ (todo' = <<>> <=> n = 0)
    <3>1. Len(Tail(todo)) = Len(todo) - 1
      BY <2>2, HeadTailProperties
    <3>2. todo' = <<>> <=> n = 0
      BY <2>2, EmptySeq
    <3> QED
      BY <1>1, <2>1, <3>1, <3>2
  <2>4. Rest("followups", o, left) = <<"followup">> \o Rest(step', o, n)
    <3>1. Rest("followups", o, n + 1)
             = <<"followup">> \o
                  (IF n = 0 THEN Rest("status", o, n)
                            ELSE Rest("followups", o, n))
      BY <1>1, Takes
    <3> QED
      BY <2>1, <2>3, <3>1
  <2>5. Rest(step', o, n) \in Seq(Write)
    BY <1>1, <1>2, <2>1 DEF Step
  <2>6. "followup" \in Write
    BY DEF Write
  <2>7. landed'[job] \o Rest(step', o, n)
           = landed[job] \o (<<"followup">> \o Rest(step', o, n))
    BY <1>4, <2>1, <2>5, <2>6
  <2> QED
    BY <2>1, <2>4, <2>7
<1>10. CASE SetFinalStatus
  <2>1. /\ step = "status" /\ step' = "finish" /\ UNCHANGED todo
        /\ Land("status")
    BY <1>3, <1>10 DEF SetFinalStatus
  <2>2. Rest("status", o, left) = <<"status">> \o Rest("finish", o, left)
    BY <1>1, Takes
  <2>3. Rest("finish", o, left) \in Seq(Write)
    BY <1>1, <1>2 DEF Step
  <2> QED
    BY <1>4, <2>1, <2>2, <2>3 DEF Write
<1>11. CASE FinishRun
  <2>1. /\ step = "finish" /\ step' = "release" /\ UNCHANGED todo
        /\ Land("finish")
    BY <1>3, <1>11 DEF FinishRun
  <2>2. Rest("finish", o, left) = <<"finish">> \o Rest("release", o, left)
    BY <1>1, Takes
  <2>3. Rest("release", o, left) \in Seq(Write)
    BY <1>1, <1>2 DEF Step
  <2> QED
    BY <1>4, <2>1, <2>2, <2>3 DEF Write
<1> QED
  BY <1>6, <1>7, <1>8, <1>9, <1>10, <1>11 DEF Statement

\* What the accounts below read is touched by the end of the process, by the
\* close, by the start and the steps of workers and by the drainer.
LEMMA HandoverFrame ==
    [Next]_vars =>
        \/ UNCHANGED <<landed, stage, outcome, queue, closed, job, step, todo>>
        \/ Crash \/ Exit \/ StartWorker \/ CloseQueue \/ Drainer
        \/ \E q \in RunId : Worker(q)
  BY DEF Next, PollLoop, TickOnce, Outside, vars, history, workers, drainer,
         Start, Interrupt, Tick, TickFails, TickDone, SelectFeature,
         SelectNothing, ClaimFeature, ClaimFails, StartRunFails, RollBack,
         TickerFires, StopSelected, RunReturns,
         PersonAddsFeature, PersonSetsStatus

\* A statement concerns the run whose closure is applied and no other.
LEMMA StatementFrame ==
    ASSUME TypeOK, QueueMatchesWorkers, Statement
    PROVE  /\ job \in RunId /\ stage[job] = "await"
           /\ UNCHANGED <<stage, outcome, job>>
           /\ \A r \in RunId : r # job => landed'[r] = landed[r]
<1>1. step \notin {"idle", "gone"} /\ UNCHANGED <<workers, job>>
  BY DEF Statement, AppendContext, AddComment, WriteReport, LoadProject,
         FileFollowUp, SetFinalStatus, FinishRun
<1>2. UNCHANGED landed \/ \E w \in Write : Land(w)
  BY DEF Statement, AppendContext, AddComment, WriteReport, LoadProject,
         FileFollowUp, SetFinalStatus, FinishRun, Write
<1>3. \A r \in RunId : r # job => landed'[r] = landed[r]
  BY <1>2 DEF Land, TypeOK, TypeOfHistory
<1> QED
  BY <1>1, <1>3 DEF QueueMatchesWorkers, TypeOK, TypeOfDrainer, workers

\* Before a daemon runs nothing has landed.
LEMMA BlockInit == Init => BlockInHand
  BY DEF Init, BlockInHand, Untouched, RunId

\* Every step of the system keeps the account of every run.
LEMMA BlockStep ==
    ASSUME TypeOK, TypeOK', Consistent, BlockInHand, [Next]_vars
    PROVE  BlockInHand'
<1> USE DEF Consistent
<1> DEFINE Account(r) ==
        /\ Untouched(r) => landed[r] = <<>>
        /\ spent["fault"] = 0 /\ job = r =>
              landed[r] \o Rest(step, outcome[r], Len(todo))
                 = Script(outcome[r])
        /\ spent["fault"] = 0 /\ stage[r] = "released" =>
              landed[r] = Script(outcome[r])
<1> SUFFICES ASSUME NEW r \in RunId PROVE Account(r)'
  BY DEF BlockInHand
<1>1. Account(r)
  BY DEF BlockInHand
<1>2. spent'["fault"] = 0 => spent["fault"] = 0
  BY SpentGrows DEF Kind, TypeOK, TypeOfHistory
<1>3. r # 0 /\ (job = r => stage[r] = "await")
  BY SizeAssumption DEF RunId, QueueMatchesWorkers
<1>4. ASSUME job' # r, job # r, stage'[r] # "released", stage[r] # "released",
             landed'[r] = landed[r]
      PROVE  Account(r)'
  BY <1>1, <1>4 DEF Untouched
<1>5. ASSUME UNCHANGED <<landed[r], stage[r], outcome[r], job, step, todo>>
      PROVE  Account(r)'
  BY <1>1, <1>2, <1>5 DEF Untouched
<1>6. CASE \/ UNCHANGED <<landed, stage, outcome, queue, closed, job, step, todo>>
           \/ CloseQueue
  BY <1>5, <1>6 DEF CloseQueue, workers, history
<1>7. CASE Crash \/ Exit
  <2>1. landed'[r] = <<>> /\ stage'[r] = "none" /\ job' = 0
    BY <1>7 DEF Crash, Exit, ForgetProcess
  <2> QED
    BY <1>3, <2>1 DEF Untouched
<1>8. CASE StartWorker
  <2>1. PICK q \in RunId : NextRun(q) /\ stage' = [stage EXCEPT ![q] = "begin"]
    BY <1>8 DEF StartWorker
  <2>2. UNCHANGED <<landed, outcome, job, step, todo>>
    BY <1>8 DEF StartWorker, drainer, history
  <2>3. stage[q] = "none"
    BY <2>1 DEF NextRun, RowsExist, MapMatchesWorkers
  <2>4. CASE r = q
    <3>1. stage'[r] = "begin"
      BY <2>1, <2>4 DEF TypeOK, TypeOfWorkers
    <3> QED
      BY <1>3, <1>4, <2>2, <2>3, <2>4, <3>1
  <2>5. CASE r # q
    <3>1. stage'[r] = stage[r]
      BY <2>1, <2>5 DEF TypeOK, TypeOfWorkers
    <3> QED
      BY <1>5, <2>2, <3>1
  <2> QED
    BY <2>4, <2>5
<1>9. ASSUME NEW q \in RunId, Worker(q) PROVE Account(r)'
  <2>1. UNCHANGED <<job, step, todo>>
    BY <1>9
    DEF Worker, StartChild, StartChildCancelled, ChildExits, ChildTimesOut,
        ChildKilledByStop, ChildReturns, Send, WorkerEnds, drainer
  <2>2. CASE r # q
    <3>1. /\ stage'[r] = stage[r] /\ outcome'[r] = outcome[r]
          /\ landed'[r] = landed[r]
      BY <1>9, <2>2
      DEF Worker, StartChild, StartChildCancelled, ChildExits, ChildTimesOut,
          ChildKilledByStop, ChildReturns, Send, WorkerEnds, workers, history,
          TypeOK, TypeOfWorkers, TypeOfHistory
    <3> QED
      BY <1>5, <2>1, <3>1
  <2>3. CASE r = q /\ WorkerEnds(r)
    <3>1. landed'[r] = <<>> /\ stage'[r] = "none" /\ stage[r] = "released"
      BY <2>3 DEF WorkerEnds, TypeOK, TypeOfWorkers, TypeOfHistory
    <3> QED
      BY <1>3, <2>1, <3>1 DEF Untouched
  <2>4. CASE r = q /\ ~WorkerEnds(r)
    <3>1. stage[r] \in {"begin", "inflight", "send"} /\ UNCHANGED landed
      BY <1>9, <2>4
      DEF Worker, StartChild, StartChildCancelled, ChildExits, ChildTimesOut,
          ChildKilledByStop, ChildReturns, Send, history
    <3>2. stage'[r] \in {"inflight", "send", "await"}
      BY <1>9, <2>4
      DEF Worker, StartChild, StartChildCancelled, ChildExits, ChildTimesOut,
          ChildKilledByStop, ChildReturns, Send, AfterSend, TypeOK,
          TypeOfWorkers
    <3> QED
      BY <1>3, <1>4, <2>1, <3>1, <3>2
  <2> QED
    BY <2>2, <2>3, <2>4
<1>10. CASE Receive
  <2>1. /\ job = 0 /\ job' = Head(queue) /\ queue # <<>> /\ step' = "context"
        /\ UNCHANGED <<landed, stage, outcome>>
    BY <1>10 DEF Receive, workers, history
  <2>2. CASE r = Head(queue)
    <3>1. stage[r] = "await"
      BY <2>1, <2>2 DEF QueueMatchesWorkers, TypeOK, TypeOfDrainer
    <3>2. landed[r] = <<>>
      BY <1>1, <1>3, <2>1, <3>1 DEF Untouched
    <3>3. /\ outcome[r] \in Spawned /\ Len(todo') \in Nat
          /\ "context" \in Step
      BY DEF TypeOK, TypeOfWorkers, TypeOfDrainer, Step
    <3>4. /\ Rest("context", outcome[r], Len(todo')) = Script(outcome[r])
          /\ Script(outcome[r]) \in Seq(Write)
      BY <3>3, Takes, RestType
    <3>5. <<>> \o Script(outcome[r]) = Script(outcome[r])
      BY <3>4, Nothingness
    <3> QED
      BY <2>1, <2>2, <3>1, <3>2, <3>4, <3>5 DEF Untouched
  <2>3. CASE r # Head(queue)
    BY <1>1, <1>2, <1>3, <2>1, <2>3 DEF Untouched
  <2> QED
    BY <2>2, <2>3
<1>11. CASE Statement
  <2>1. /\ job \in RunId /\ stage[job] = "await"
        /\ UNCHANGED <<stage, outcome, job>>
        /\ r # job => landed'[r] = landed[r]
    BY <1>11, StatementFrame
  <2>2. CASE r = job
    <3>1. ASSUME spent'["fault"] = 0
          PROVE  landed'[r] \o Rest(step', outcome'[r], Len(todo'))
                    = Script(outcome'[r])
      <4>1. landed'[r] \o Rest(step', outcome[r], Len(todo'))
               = landed[r] \o Rest(step, outcome[r], Len(todo))
        BY <1>11, <2>1, <2>2, <3>1, Applies
      <4> QED
        BY <1>1, <1>2, <2>1, <2>2, <3>1, <4>1
    <3> QED
      BY <2>1, <2>2, <3>1 DEF Untouched
  <2>3. CASE r # job
    BY <1>1, <1>2, <2>1, <2>3 DEF Untouched
  <2> QED
    BY <2>2, <2>3
<1>12. CASE Release
  <2>1. /\ step = "release" /\ job \in RunId /\ job' = 0
        /\ stage' = [stage EXCEPT ![job] = "released"]
        /\ UNCHANGED <<landed, outcome>>
    BY <1>12
    DEF Release, DoneClosed, QueueMatchesWorkers, TypeOK, TypeOfDrainer, history
  <2>2. CASE r = job
    <3>1. stage'[r] = "released"
      BY <2>1, <2>2 DEF TypeOK, TypeOfWorkers
    <3>2. Rest("release", outcome[r], Len(todo)) = <<>>
      BY DEF Rest
    <3>3. landed[r] \o <<>> = landed[r]
      BY Nothingness DEF TypeOK, TypeOfHistory
    <3> QED
      BY <1>1, <1>2, <1>3, <2>1, <2>2, <3>1, <3>2, <3>3 DEF Untouched
  <2>3. CASE r # job
    <3>1. stage'[r] = stage[r]
      BY <2>1, <2>3 DEF TypeOK, TypeOfWorkers
    <3> QED
      BY <1>1, <1>2, <1>3, <2>1, <2>3, <3>1 DEF Untouched
  <2> QED
    BY <2>2, <2>3
<1>13. CASE DrainerExits
  <2>1. job = 0 /\ UNCHANGED <<landed, stage, outcome, job>>
    BY <1>13 DEF DrainerExits, workers, history
  <2> QED
    BY <1>1, <1>2, <1>3, <2>1 DEF Untouched
<1> QED
  BY <1>6, <1>7, <1>8, <1>9, <1>10, <1>11, <1>12, <1>13, HandoverFrame
  DEF Drainer, Statement

-----------------------------------------------------------------------------
(* The order of a block, whatever statements fail.                          *)

\* A write that comes after all that has landed keeps the order.
LEMMA LandsInOrder ==
    ASSUME NEW a \in Seq(Write), NEW w \in Write, NEW B,
           InOrder(a), \A i \in DOMAIN a : a[i] \in B,
           \A x \in B : \/ PlaceOf(x) < PlaceOf(w)
                        \/ x = "followup" /\ w = "followup"
    PROVE  /\ InOrder(Append(a, w))
           /\ \A i \in DOMAIN Append(a, w) : Append(a, w)[i] \in B \cup {w}
<1>1. /\ DOMAIN a = 1..Len(a) /\ Len(a) \in Nat
      /\ DOMAIN Append(a, w) = 1..(Len(a) + 1)
      /\ \A i \in 1..Len(a) : Append(a, w)[i] = a[i]
      /\ Append(a, w)[Len(a) + 1] = w
  OBVIOUS
<1>2. \A i \in DOMAIN Append(a, w) :
         \/ i \in DOMAIN a /\ Append(a, w)[i] = a[i]
         \/ i = Len(a) + 1 /\ Append(a, w)[i] = w
  BY <1>1
<1>3. ASSUME NEW i \in DOMAIN Append(a, w), NEW j \in DOMAIN Append(a, w), i < j
      PROVE  \/ PlaceOf(Append(a, w)[i]) < PlaceOf(Append(a, w)[j])
             \/ Append(a, w)[i] = "followup" /\ Append(a, w)[j] = "followup"
  <2>1. i \in DOMAIN a /\ Append(a, w)[i] = a[i]
    BY <1>1, <1>3
  <2>2. CASE j \in DOMAIN a /\ Append(a, w)[j] = a[j]
    BY <1>3, <2>1, <2>2 DEF InOrder
  <2>3. CASE j = Len(a) + 1 /\ Append(a, w)[j] = w
    BY <2>1, <2>3
  <2> QED
    BY <1>2, <2>2, <2>3
<1> QED
  BY <1>2, <1>3 DEF InOrder

\* What a statement lands comes after what the earlier ones landed.
LEMMA StatementLands ==
    ASSUME TypeOK, Statement
    PROVE  /\ WritesBefore(step) \subseteq WritesBefore(step')
           /\ \/ UNCHANGED landed
              \/ \E w \in Write :
                    /\ Land(w) /\ w \in WritesBefore(step')
                    /\ \A x \in WritesBefore(step) :
                          \/ PlaceOf(x) < PlaceOf(w)
                          \/ x = "followup" /\ w = "followup"
<1>1. CASE AppendContext
  <2>1. /\ step = "context" /\ step' = "comment"
        /\ UNCHANGED landed \/ Land("context")
    BY <1>1 DEF AppendContext, WriteReport
  <2> QED
    BY <2>1 DEF WritesBefore, Write
<1>2. CASE AddComment
  <2>1. /\ step = "comment" /\ step' = "project"
        /\ UNCHANGED landed \/ Land("comment")
    BY <1>2 DEF AddComment, WriteReport
  <2> QED
    BY <2>1 DEF WritesBefore, Write, PlaceOf
<1>3. CASE LoadProject
  <2>1. /\ step = "project" /\ step' \in {"status", "followups"}
        /\ UNCHANGED landed
    BY <1>3 DEF LoadProject
  <2> QED
    BY <2>1 DEF WritesBefore
<1>4. CASE FileFollowUp
  <2>1. /\ step = "followups" /\ step' \in {"status", "followups"}
        /\ UNCHANGED landed \/ Land("followup")
    BY <1>4 DEF FileFollowUp
  <2> QED
    BY <2>1 DEF WritesBefore, Write, PlaceOf
<1>5. CASE SetFinalStatus
  <2>1. /\ step = "status" /\ step' = "finish"
        /\ UNCHANGED landed \/ Land("status")
    BY <1>5 DEF SetFinalStatus
  <2> QED
    BY <2>1 DEF WritesBefore, Write, PlaceOf
<1>6. CASE FinishRun
  <2>1. /\ step = "finish" /\ step' = "release"
        /\ UNCHANGED landed \/ Land("finish")
    BY <1>6 DEF FinishRun
  <2> QED
    BY <2>1 DEF WritesBefore, Write, PlaceOf
<1> QED
  BY <1>1, <1>2, <1>3, <1>4, <1>5, <1>6 DEF Statement

\* A block that has not begun is in order.
LEMMA NothingIsInOrder ==
    InOrder(<<>>) /\ \A i \in DOMAIN <<>> : FALSE
  BY DEF InOrder

\* Every step of the system keeps every block in order.
LEMMA BlockInOrderStep ==
    ASSUME TypeOK, Consistent, BlockInHand, BlockInOrder, [Next]_vars
    PROVE  BlockInOrder'
<1> USE DEF Consistent
<1> SUFFICES ASSUME NEW r \in RunId
             PROVE  /\ InOrder(landed'[r])
                    /\ job' = r => \A i \in DOMAIN landed'[r] :
                                      landed'[r][i] \in WritesBefore(step')
  BY DEF BlockInOrder, InOrder
<1>1. /\ InOrder(landed[r])
      /\ job = r => \A i \in DOMAIN landed[r] :
                       landed[r][i] \in WritesBefore(step)
  BY DEF BlockInOrder
<1>2. r # 0
  BY DEF RunId
<1>3. CASE \/ UNCHANGED <<landed, stage, outcome, queue, closed, job, step, todo>>
           \/ CloseQueue
  BY <1>1, <1>3 DEF CloseQueue, workers, history
<1>4. CASE Crash \/ Exit
  <2>1. landed'[r] = <<>> /\ job' = 0
    BY <1>4 DEF Crash, Exit, ForgetProcess
  <2> QED
    BY <1>2, <2>1, NothingIsInOrder
<1>5. CASE StartWorker
  BY <1>1, <1>5 DEF StartWorker, drainer, history
<1>6. ASSUME NEW q \in RunId, Worker(q)
      PROVE  /\ InOrder(landed'[r])
             /\ job' = r => \A i \in DOMAIN landed'[r] :
                               landed'[r][i] \in WritesBefore(step')
  <2>1. UNCHANGED <<job, step>> /\ (landed'[r] = landed[r] \/ landed'[r] = <<>>)
    BY <1>6
    DEF Worker, StartChild, StartChildCancelled, ChildExits, ChildTimesOut,
        ChildKilledByStop, ChildReturns, Send, WorkerEnds, drainer, history,
        TypeOK, TypeOfHistory
  <2> QED
    BY <1>1, <2>1, NothingIsInOrder
<1>7. CASE Receive
  <2>1. /\ job = 0 /\ job' = Head(queue) /\ queue # <<>> /\ UNCHANGED landed
    BY <1>7 DEF Receive, history
  <2>2. CASE r = Head(queue)
    <3>1. stage[r] = "await"
      BY <2>1, <2>2 DEF QueueMatchesWorkers, TypeOK, TypeOfDrainer
    <3>2. landed[r] = <<>>
      BY <1>2, <2>1, <3>1 DEF BlockInHand, Untouched
    <3> QED
      BY <2>1, <3>2, NothingIsInOrder
  <2> QED
    BY <1>1, <2>1, <2>2
<1>8. CASE Statement
  <2>1. /\ job \in RunId /\ UNCHANGED job
        /\ r # job => landed'[r] = landed[r]
    BY <1>8, StatementFrame
  <2>2. CASE r # job
    BY <1>1, <2>1, <2>2
  <2>3. CASE r = job
    <3>1. /\ WritesBefore(step) \subseteq WritesBefore(step')
          /\ \/ UNCHANGED landed
             \/ \E w \in Write :
                   /\ Land(w) /\ w \in WritesBefore(step')
                   /\ \A x \in WritesBefore(step) :
                         \/ PlaceOf(x) < PlaceOf(w)
                         \/ x = "followup" /\ w = "followup"
      BY <1>8, StatementLands
    <3>2. CASE UNCHANGED landed
      BY <1>1, <2>3, <3>1, <3>2
    <3>3. ASSUME NEW w \in Write, Land(w), w \in WritesBefore(step'),
                 \A x \in WritesBefore(step) :
                    \/ PlaceOf(x) < PlaceOf(w)
                    \/ x = "followup" /\ w = "followup"
          PROVE  /\ InOrder(landed'[r])
                 /\ \A i \in DOMAIN landed'[r] :
                       landed'[r][i] \in WritesBefore(step')
      <4>1. landed[r] \in Seq(Write) /\ landed'[r] = Append(landed[r], w)
        BY <2>3, <3>3 DEF Land, TypeOK, TypeOfHistory
      <4>2. /\ InOrder(Append(landed[r], w))
            /\ \A i \in DOMAIN Append(landed[r], w) :
                  Append(landed[r], w)[i] \in WritesBefore(step) \cup {w}
        BY <1>1, <2>3, <3>3, <4>1, LandsInOrder
      <4> QED
        BY <3>1, <3>3, <4>1, <4>2
    <3> QED
      BY <3>1, <3>2, <3>3
  <2> QED
    BY <2>2, <2>3
<1>9. CASE Release \/ DrainerExits
  <2>1. UNCHANGED landed /\ job' = 0
    BY <1>9 DEF Release, DrainerExits, history
  <2> QED
    BY <1>1, <1>2, <2>1
<1> QED
  BY <1>3, <1>4, <1>5, <1>6, <1>7, <1>8, <1>9, HandoverFrame
  DEF Drainer, Statement

-----------------------------------------------------------------------------
(* The channel.                                                             *)

\* What is behind the head of a channel.
LEMMA BehindHead ==
    ASSUME NEW q \in Seq(RunId), q # <<>>
    PROVE  /\ Head(q) \in RunId /\ Head(q) = q[1] /\ 1 \in DOMAIN q
           /\ Len(Tail(q)) = Len(q) - 1 /\ Len(q) \in Nat
           /\ \A i \in DOMAIN q : i # 1 =>
                 i - 1 \in DOMAIN Tail(q) /\ Tail(q)[i - 1] = q[i]
<1>1. /\ Len(q) \in Nat /\ Len(q) >= 1 /\ DOMAIN q = 1..Len(q)
  BY EmptySeq
<1>2. /\ Tail(q) \in Seq(RunId) /\ Len(Tail(q)) = Len(q) - 1
      /\ \A i \in 1..Len(Tail(q)) : Tail(q)[i] = q[i + 1]
  BY HeadTailProperties
<1>3. DOMAIN Tail(q) = 1..(Len(q) - 1)
  BY <1>2
<1>4. Head(q) \in RunId /\ Head(q) = q[1] /\ 1 \in DOMAIN q
  BY <1>1, HeadTailProperties
<1>5. ASSUME NEW i \in DOMAIN q, i # 1
      PROVE  i - 1 \in DOMAIN Tail(q) /\ Tail(q)[i - 1] = q[i]
  <2>1. i - 1 \in 1..(Len(q) - 1) /\ (i - 1) + 1 = i
    BY <1>1, <1>5
  <2> QED
    BY <1>2, <1>3, <2>1
<1> QED
  BY <1>1, <1>2, <1>4, <1>5

\* What is in a channel after a send.
LEMMA AfterAppend ==
    ASSUME NEW q \in Seq(RunId), NEW r \in RunId
    PROVE  /\ Len(Append(q, r)) = Len(q) + 1 /\ Len(q) \in Nat
           /\ \A i \in DOMAIN q : i \in DOMAIN Append(q, r)
                                  /\ Append(q, r)[i] = q[i]
           /\ \E i \in DOMAIN Append(q, r) : Append(q, r)[i] = r
<1>1. /\ DOMAIN q = 1..Len(q) /\ Len(q) \in Nat
      /\ Len(Append(q, r)) = Len(q) + 1
      /\ DOMAIN Append(q, r) = 1..(Len(q) + 1)
      /\ \A i \in 1..Len(q) : Append(q, r)[i] = q[i]
      /\ Append(q, r)[Len(q) + 1] = r
  OBVIOUS
<1>2. Len(q) + 1 \in DOMAIN Append(q, r)
  BY <1>1
<1> QED
  BY <1>1, <1>2

\* Every step of the system keeps what the channel delivers.
LEMMA ChannelDeliversStep ==
    ASSUME TypeOK, TypeOK', Consistent, ChannelDelivers, [Next]_vars
    PROVE  ChannelDelivers'
<1> USE DEF Consistent
<1> DEFINE Delivered(r) ==
        stage[r] = "await" => job = r \/ \E i \in DOMAIN queue : queue[i] = r
<1>1. /\ \A r \in RunId : Delivered(r)
      /\ Len(queue) <= QueueCap
      /\ step = "gone" => closed /\ queue = <<>>
  BY DEF ChannelDelivers
<1> SUFFICES /\ \A r \in RunId : Delivered(r)'
             /\ Len(queue') <= QueueCap
             /\ step' = "gone" => closed' /\ queue' = <<>>
  BY DEF ChannelDelivers
<1>2. queue \in Seq(RunId) /\ stage \in [RunId -> {"none", "begin", "inflight",
                                       "send", "await", "released"}]
  BY DEF TypeOK, TypeOfDrainer, TypeOfWorkers
<1>3. CASE UNCHANGED <<landed, stage, outcome, queue, closed, job, step, todo>>
  BY <1>1, <1>3
<1>4. CASE CloseQueue
  <2>1. closed' /\ UNCHANGED <<stage, queue, job, step>>
    BY <1>4 DEF CloseQueue, workers
  <2> QED
    BY <1>1, <2>1
<1>5. CASE Crash \/ Exit
  <2>1. /\ queue' = <<>> /\ step' = "idle"
        /\ \A r \in RunId : stage'[r] = "none"
    BY <1>5 DEF Crash, Exit, ForgetProcess
  <2>2. Len(<<>>) <= QueueCap
    BY SizeAssumption
  <2> QED
    BY <2>1, <2>2
<1>6. CASE StartWorker
  <2>1. PICK q \in RunId : stage' = [stage EXCEPT ![q] = "begin"]
    BY <1>6 DEF StartWorker
  <2>2. UNCHANGED <<queue, closed, job, step>>
    BY <1>6 DEF StartWorker, drainer
  <2>3. \A r \in RunId : stage'[r] = "await" => stage[r] = "await"
    BY <1>2, <2>1
  <2> QED
    BY <1>1, <2>2, <2>3
<1>7. ASSUME NEW q \in RunId, Send(q)
      PROVE  /\ \A r \in RunId : Delivered(r)'
             /\ Len(queue') <= QueueCap
             /\ step' = "gone" => closed' /\ queue' = <<>>
  <2>1. /\ stage[q] = "send" /\ Len(queue) < QueueCap
        /\ queue' = Append(queue, q)
        /\ stage' = [stage EXCEPT ![q] = "await"]
        /\ UNCHANGED <<closed, job, step>>
    BY <1>7 DEF Send, AfterSend
  <2>2. step # "gone"
    BY <1>1, <2>1 DEF ClosedAfterWorkers, MapMatchesWorkers
  <2>3. /\ Len(queue') = Len(queue) + 1 /\ Len(queue) \in Nat
        /\ \A i \in DOMAIN queue : i \in DOMAIN queue' /\ queue'[i] = queue[i]
        /\ \E i \in DOMAIN queue' : queue'[i] = q
    BY <1>2, <2>1, AfterAppend
  <2>4. Len(queue') <= QueueCap
    BY <2>1, <2>3, SizeAssumption
  <2>5. ASSUME NEW r \in RunId PROVE Delivered(r)'
    <3>1. CASE r = q
      BY <2>3, <3>1
    <3>2. CASE r # q
      <4>1. stage'[r] = stage[r] /\ job' = job
        BY <1>2, <2>1, <3>2
      <4> QED
        BY <1>1, <2>3, <4>1
    <3> QED
      BY <3>1, <3>2
  <2> QED
    BY <2>1, <2>2, <2>4, <2>5
<1>8. ASSUME NEW q \in RunId, Worker(q), ~Send(q)
      PROVE  /\ \A r \in RunId : Delivered(r)'
             /\ Len(queue') <= QueueCap
             /\ step' = "gone" => closed' /\ queue' = <<>>
  <2>1. /\ UNCHANGED <<queue, closed, job, step>>
        /\ \/ stage' = [stage EXCEPT ![q] = "inflight"]
           \/ stage' = [stage EXCEPT ![q] = "send"]
           \/ stage' = [stage EXCEPT ![q] = "none"]
    BY <1>8
    DEF Worker, StartChild, StartChildCancelled, ChildExits, ChildTimesOut,
        ChildKilledByStop, ChildReturns, WorkerEnds, drainer
  <2>2. \A r \in RunId : stage'[r] = "await" => stage[r] = "await"
    BY <1>2, <2>1
  <2> QED
    BY <1>1, <2>1, <2>2
<1>9. CASE Receive
  <2>1. /\ job = 0 /\ queue # <<>> /\ step' = "context"
        /\ job' = Head(queue) /\ queue' = Tail(queue)
        /\ UNCHANGED stage
    BY <1>9 DEF Receive, workers
  <2>2. /\ Head(queue) = queue[1]
        /\ Len(queue') = Len(queue) - 1 /\ Len(queue) \in Nat
        /\ \A i \in DOMAIN queue : i # 1 =>
              i - 1 \in DOMAIN queue' /\ queue'[i - 1] = queue[i]
    BY <1>2, <2>1, BehindHead
  <2>3. ASSUME NEW r \in RunId, stage'[r] = "await"
        PROVE  job' = r \/ \E i \in DOMAIN queue' : queue'[i] = r
    <3>1. r # 0
      BY DEF RunId
    <3>2. PICK i \in DOMAIN queue : queue[i] = r
      BY <1>1, <2>1, <2>3, <3>1
    <3>3. CASE i = 1
      BY <2>1, <2>2, <3>2, <3>3
    <3>4. CASE i # 1
      BY <2>2, <3>2, <3>4
    <3> QED
      BY <3>3, <3>4
  <2>4. Len(queue') <= QueueCap
    BY <1>1, <2>2, SizeAssumption
  <2> QED
    BY <2>1, <2>3, <2>4
<1>10. CASE Statement
  <2>1. UNCHANGED <<stage, job, queue, closed>> /\ step' # "gone"
    BY <1>10
    DEF Statement, AppendContext, AddComment, WriteReport, LoadProject,
        FileFollowUp, SetFinalStatus, FinishRun, workers
  <2> QED
    BY <1>1, <2>1
<1>11. CASE Release
  <2>1. /\ stage' = [stage EXCEPT ![job] = "released"] /\ job' = 0
        /\ step' = "idle" /\ job \in RunId
        /\ UNCHANGED queue
    BY <1>11
    DEF Release, DoneClosed, QueueMatchesWorkers, TypeOK, TypeOfDrainer
  <2>2. \A r \in RunId : stage'[r] = "await" => stage[r] = "await" /\ job # r
    BY <1>2, <2>1
  <2> QED
    BY <1>1, <2>1, <2>2
<1>12. CASE DrainerExits
  <2>1. queue = <<>> /\ closed /\ UNCHANGED <<stage, queue, closed, job>>
    BY <1>12 DEF DrainerExits, workers
  <2> QED
    BY <1>1, <2>1
<1> QED
  BY <1>3, <1>4, <1>5, <1>6, <1>7, <1>8, <1>9, <1>10, <1>11, <1>12, HandoverFrame
  DEF Drainer, Statement

\* Before a daemon runs nothing waits and nothing has landed.
LEMMA InvariantInit == Init => Invariant
<1> SUFFICES ASSUME Init PROVE Invariant
  OBVIOUS
<1>1. TypeOK /\ Consistent
  BY TypeInit, ConsistentInit
<1>2. BlockInHand
  BY BlockInit
<1>3. BlockInOrder
  <2>1. job = 0 /\ \A r \in RunId : landed[r] = <<>> /\ r # 0
    BY DEF Init, RunId
  <2> QED
    BY <2>1, NothingIsInOrder DEF BlockInOrder
<1>4. ChannelDelivers
  <2>1. /\ queue = <<>> /\ step = "idle"
        /\ \A r \in RunId : stage[r] = "none"
    BY DEF Init
  <2>2. Len(<<>>) <= QueueCap
    BY SizeAssumption
  <2> QED
    BY <2>1, <2>2 DEF ChannelDelivers
<1> QED
  BY <1>1, <1>2, <1>3, <1>4 DEF Invariant

-----------------------------------------------------------------------------
(* The theorems.                                                            *)

\* The daemon's book-keeping is whole: the memory of the loop, the workers and
\* the drainer agree with each other, with the rows of the two tables and with
\* what has landed of every block, after every step of anybody.
THEOREM InvariantHolds == Spec => []Invariant
<1>1. Invariant /\ [Next]_vars => Invariant'
  <2> SUFFICES ASSUME Invariant, [Next]_vars PROVE Invariant'
    OBVIOUS
  <2>1. TypeOK /\ Consistent /\ BlockInHand /\ BlockInOrder /\ ChannelDelivers
    BY DEF Invariant
  <2>2. TypeOK' /\ Consistent'
    BY <2>1, InductiveStep
  <2>3. BlockInHand' /\ BlockInOrder' /\ ChannelDelivers'
    BY <2>1, <2>2, BlockStep, BlockInOrderStep, ChannelDeliversStep
  <2> QED
    BY <2>2, <2>3 DEF Invariant
<1> QED
  BY <1>1, InvariantInit, PTL DEF Spec

\* As long as no statement fails, what has landed of a run's closure is the
\* beginning of its block, in buildSideEffects' order, and applySideEffects
\* returns to the worker only when the whole block has landed.  Whatever
\* statements fail, what has landed is in that order.
THEOREM BlocksLandWhole == Spec => []BlockLandsInOrder
<1>1. Invariant => BlockLandsInOrder
  <2> SUFFICES ASSUME Invariant, NEW r \in RunId,
                      stage[r] \in {"await", "released"}
               PROVE  /\ InOrder(landed[r])
                      /\ spent["fault"] = 0 =>
                            /\ Len(landed[r]) <= Len(Script(outcome[r]))
                            /\ landed[r] = SubSeq(Script(outcome[r]), 1,
                                                  Len(landed[r]))
                            /\ stage[r] = "released" =>
                                  landed[r] = Script(outcome[r])
    BY DEF BlockLandsInOrder
  <2>1. InOrder(landed[r])
    BY DEF Invariant, BlockInOrder
  <2> SUFFICES ASSUME spent["fault"] = 0
               PROVE  /\ Len(landed[r]) <= Len(Script(outcome[r]))
                      /\ landed[r] = SubSeq(Script(outcome[r]), 1,
                                            Len(landed[r]))
                      /\ stage[r] = "released" =>
                            landed[r] = Script(outcome[r])
    BY <2>1
  <2>2. /\ outcome[r] \in Spawned /\ Len(todo) \in Nat /\ step \in Step
        /\ landed[r] \in Seq(Write)
    BY DEF Invariant, TypeOK, TypeOfWorkers, TypeOfDrainer, TypeOfHistory
  <2>3. /\ Rest(step, outcome[r], Len(todo)) \in Seq(Write)
        /\ Script(outcome[r]) \in Seq(Write)
    BY <2>2, RestType
  <2>4. /\ Untouched(r) => landed[r] = <<>>
        /\ job = r => landed[r] \o Rest(step, outcome[r], Len(todo))
                         = Script(outcome[r])
        /\ stage[r] = "released" => landed[r] = Script(outcome[r])
    BY DEF Invariant, BlockInHand
  <2>5. PICK b \in Seq(Write) : landed[r] \o b = Script(outcome[r])
    <3>1. CASE job = r
      BY <2>3, <2>4, <3>1
    <3>2. CASE stage[r] = "released"
      <4>1. landed[r] \o <<>> = landed[r]
        BY <2>2, Nothingness
      <4>2. <<>> \in Seq(Write)
        OBVIOUS
      <4> QED
        BY <2>4, <3>2, <4>1, <4>2
    <3>3. CASE stage[r] = "await" /\ job # r
      <4>1. <<>> \o Script(outcome[r]) = Script(outcome[r])
        BY <2>3, Nothingness
      <4> QED
        BY <2>3, <2>4, <3>3, <4>1 DEF Untouched
    <3> QED
      BY <3>1, <3>2, <3>3
  <2>6. /\ Len(landed[r]) <= Len(Script(outcome[r]))
        /\ landed[r] = SubSeq(Script(outcome[r]), 1, Len(landed[r]))
    BY <2>2, <2>5, IsPrefix
  <2> QED
    BY <2>4, <2>6
<1> QED
  BY <1>1, InvariantHolds, PTL

\* No worker waits for the channel or for its done channel, and no part of a
\* stop waits for the workers or the drainer, while those it waits for wait
\* themselves: for any number of workers and any capacity of the channel, and
\* whatever crashed, failed or was told to stop.
THEOREM NoCircularWait == Spec => []NobodyWaitsInVain
<1>1. Invariant => NobodyWaitsInVain
  <2> SUFFICES ASSUME Invariant PROVE NobodyWaitsInVain
    OBVIOUS
  <2>1. /\ QueueMatchesWorkers /\ ClosedAfterWorkers /\ MapMatchesWorkers
        /\ ChannelDelivers /\ queue \in Seq(RunId)
        /\ job \in RunId \cup {0} /\ running \subseteq RunId
        /\ stage \in [RunId -> {"none", "begin", "inflight", "send", "await",
                                "released"}]
    BY DEF Invariant, Consistent, TypeOK, TypeOfDrainer, TypeOfWorkers
  <2>2. ASSUME NEW r \in RunId,
               \/ stage[r] = "await"
               \/ stage[r] = "send" /\ ~WorkerCanMove(r)
        PROVE  DrainerCanMove
    <3>1. ~closed /\ step # "gone"
      BY <2>1, <2>2 DEF ClosedAfterWorkers, MapMatchesWorkers, ChannelDelivers
    <3>2. CASE job # 0
      BY <2>1, <3>1, <3>2 DEF QueueMatchesWorkers, DrainerCanMove
    <3>3. CASE stage[r] = "await" /\ job = 0
      <4>1. r # 0
        BY DEF RunId
      <4>2. PICK i \in DOMAIN queue : queue[i] = r
        BY <2>1, <3>3, <4>1 DEF ChannelDelivers
      <4>3. queue # <<>>
        BY <4>2
      <4> QED
        BY <3>1, <4>3 DEF DrainerCanMove
    <3>4. CASE stage[r] = "send" /\ ~WorkerCanMove(r)
      <4>1. Len(queue) \in Nat /\ ~(Len(queue) < QueueCap)
        BY <2>1, <3>4 DEF WorkerCanMove
      <4>2. Len(queue) # 0
        BY <4>1, SizeAssumption
      <4>3. queue # <<>>
        BY <4>2
      <4> QED
        BY <3>1, <4>3 DEF DrainerCanMove
    <3> QED
      BY <2>2, <3>2, <3>3, <3>4
  <2>3. pc = "drain" /\ running # {} =>
           DrainerCanMove \/ \E r \in running : WorkerCanMove(r)
    <3> SUFFICES ASSUME NEW r \in running, ~WorkerCanMove(r)
                 PROVE  DrainerCanMove
      OBVIOUS
    <3>1. r \in RunId /\ stage[r] \in {"send", "await"}
      BY <2>1 DEF MapMatchesWorkers, WorkerCanMove
    <3> QED
      BY <2>2, <3>1
  <2>4. pc = "join" => step = "gone" \/ DrainerCanMove
    BY <2>1 DEF ClosedAfterWorkers, DrainerCanMove
  <2> QED
    BY <2>2, <2>3, <2>4 DEF NobodyWaitsInVain
<1> QED
  BY <1>1, InvariantHolds, PTL

-----------------------------------------------------------------------------
(* Every step of a worker and of the drainer is one step less to take.      *)

\* A run is at most twelve steps from its end.
LEMMA AheadType ==
    ASSUME TypeOK
    PROVE  /\ StatementsLeft \in 1..7
           /\ \A r \in RunId : Ahead(r) \in 0..12
  BY DEF TypeOK, TypeOfWorkers, TypeOfDrainer, Step, StatementsLeft, Ahead

LEMMA AheadTypeNext ==
    ASSUME TypeOK'
    PROVE  /\ StatementsLeft' \in 1..7
           /\ \A r \in RunId : Ahead(r)' \in 0..12
  BY DEF TypeOK, TypeOfWorkers, TypeOfDrainer, Step, StatementsLeft, Ahead

\* A run whose goroutine and closure stand where they stood is not further
\* away; it is enough that another one is nearer.
LEMMA NearerIsForward ==
    ASSUME TypeOK, TypeOK', NEW q \in RunId, Ahead(q)' < Ahead(q),
           \A r \in RunId \ {q} : Ahead(r)' = Ahead(r)
    PROVE  Forward
<1>1. \A r \in RunId : Ahead(r) \in 0..12 /\ Ahead(r)' \in 0..12
  BY AheadType, AheadTypeNext
<1>2. \A r \in RunId : Ahead(r)' <= Ahead(r)
  BY <1>1
<1> QED
  BY <1>2 DEF Forward

\* A step of a worker brings its run nearer to its end.
LEMMA WorkerForward ==
    ASSUME TypeOK, TypeOK', QueueMatchesWorkers, NEW q \in RunId, Worker(q)
    PROVE  Forward
<1>1. UNCHANGED <<job, step>>
  BY DEF Worker, StartChild, StartChildCancelled, ChildExits, ChildTimesOut,
         ChildKilledByStop, ChildReturns, Send, WorkerEnds, drainer
<1>2. /\ \A r \in RunId \ {q} : stage'[r] = stage[r]
      /\ \/ stage[q] = "begin"    /\ stage'[q] \in {"inflight", "send"}
         \/ stage[q] = "inflight" /\ stage'[q] = "send"
         \/ stage[q] = "send"     /\ stage'[q] = "await"
         \/ stage[q] = "released" /\ stage'[q] = "none"
  BY DEF Worker, StartChild, StartChildCancelled, ChildExits, ChildTimesOut,
         ChildKilledByStop, ChildReturns, Send, AfterSend, WorkerEnds,
         TypeOK, TypeOfWorkers
<1>3. job # 0 => stage[job] = "await"
  BY DEF QueueMatchesWorkers
<1>4. \A r \in RunId \ {q} : Ahead(r)' = Ahead(r)
  BY <1>1, <1>2 DEF Ahead, StatementsLeft
<1>5. q # 0
  BY DEF RunId
<1>6. stage[q] = "send" => job # q
  BY <1>3, <1>5
<1>7. Ahead(q)' < Ahead(q)
  BY <1>1, <1>2, <1>6 DEF Ahead
<1> QED
  BY <1>4, <1>7, NearerIsForward

\* So does a step of the drainer, for the run whose closure it applies; the
\* filing of a follow-up may only leave one less to file.
LEMMA DrainerForward ==
    ASSUME TypeOK, TypeOK', QueueMatchesWorkers, Drainer, ~DrainerExits
    PROVE  Forward
<1>1. CASE Receive
  <2>1. /\ job = 0 /\ job' = Head(queue) /\ step' = "context" /\ queue # <<>>
        /\ UNCHANGED stage
    BY <1>1 DEF Receive, workers
  <2>2. PICK q \in RunId : q = Head(queue)
    BY <2>1 DEF TypeOK, TypeOfDrainer
  <2>3. stage[q] = "await" /\ q # 0
    BY <2>1, <2>2 DEF QueueMatchesWorkers, TypeOK, TypeOfDrainer, RunId
  <2>4. \A r \in RunId \ {q} : job # r /\ job' # r
    BY <2>1, <2>2 DEF RunId
  <2>5. \A r \in RunId \ {q} : Ahead(r)' = Ahead(r)
    BY <2>1, <2>4 DEF Ahead
  <2>6. Ahead(q) = 9
    BY <2>1, <2>3 DEF Ahead
  <2>7. Ahead(q)' = 1 + StatementsLeft' /\ StatementsLeft' = 7
    BY <2>1, <2>2, <2>3 DEF Ahead, StatementsLeft
  <2> QED
    BY <2>5, <2>6, <2>7, NearerIsForward
<1>2. CASE Statement
  <2>1. job \in RunId /\ stage[job] = "await" /\ UNCHANGED <<stage, job>>
    BY <1>2, StatementFrame
  <2>2. PICK q \in RunId : q = job
    BY <2>1
  <2>3. \A r \in RunId \ {q} : Ahead(r)' = Ahead(r)
    BY <2>1, <2>2 DEF Ahead
  <2>4. Ahead(q) = 1 + StatementsLeft
    BY <2>1, <2>2 DEF Ahead
  <2>5. Ahead(q)' = 1 + StatementsLeft'
    BY <2>1, <2>2 DEF Ahead
  <2>6. CASE StatementsLeft' < StatementsLeft
    <3>1. PICK m \in Nat : m = StatementsLeft
      BY AheadType
    <3>2. PICK n \in Nat : n = StatementsLeft'
      BY AheadTypeNext
    <3>3. n < m
      BY <2>6, <3>1, <3>2
    <3>4. 1 + n < 1 + m
      BY <3>3
    <3>5. Ahead(q) = 1 + m /\ Ahead(q)' = 1 + n
      BY <2>4, <2>5, <3>1, <3>2
    <3>6. Ahead(q)' < Ahead(q)
      BY <3>4, <3>5, Zenon
    <3> QED
      BY <2>3, <3>6, NearerIsForward
  <2>7. CASE FileFollowUp /\ step' = "followups"
    <3>1. step = "followups" /\ todo' = Tail(todo)
      BY <2>7 DEF FileFollowUp
    <3>2. todo \in Seq(Target) /\ todo # <<>>
      BY <3>1 DEF QueueMatchesWorkers, TypeOK, TypeOfDrainer
    <3>3. Len(todo') < Len(todo)
      BY <3>1, <3>2
    <3>4. Ahead(q)' = Ahead(q)
      BY <2>4, <2>5, <2>7, <3>1 DEF StatementsLeft
    <3>5. \A r \in RunId : Ahead(r) \in 0..12
      BY AheadType
    <3>6. \A r \in RunId : Ahead(r)' = Ahead(r)
      BY <2>3, <3>4
    <3>7. \A r \in RunId : Ahead(r)' <= Ahead(r)
      BY <3>5, <3>6
    <3> QED
      BY <3>3, <3>7 DEF Forward
  <2>8. \/ StatementsLeft' < StatementsLeft
        \/ FileFollowUp /\ step' = "followups"
    BY <1>2
    DEF Statement, AppendContext, AddComment, WriteReport, LoadProject,
        FileFollowUp, SetFinalStatus, FinishRun, StatementsLeft
  <2> QED
    BY <2>6, <2>7, <2>8
<1>3. CASE Release
  <2>1. /\ step = "release" /\ job \in RunId /\ stage[job] = "await"
        /\ job' = 0 /\ stage' = [stage EXCEPT ![job] = "released"]
    BY <1>3
    DEF Release, DoneClosed, QueueMatchesWorkers, TypeOK, TypeOfDrainer
  <2>2. PICK q \in RunId : q = job
    BY <2>1
  <2>3. \A r \in RunId \ {q} : job # r /\ job' # r /\ stage'[r] = stage[r]
    BY <2>1, <2>2 DEF RunId, TypeOK, TypeOfWorkers
  <2>4. \A r \in RunId \ {q} : Ahead(r)' = Ahead(r)
    BY <2>3 DEF Ahead, TypeOK, TypeOfWorkers
  <2>5. Ahead(q) = 2
    BY <2>1, <2>2 DEF Ahead, StatementsLeft
  <2>6. stage'[q] = "released"
    BY <2>1, <2>2 DEF TypeOK, TypeOfWorkers
  <2>7. Ahead(q)' = 1
    BY <2>6 DEF Ahead
  <2> QED
    BY <2>4, <2>5, <2>7, NearerIsForward
<1> QED
  BY <1>1, <1>2, <1>3 DEF Drainer, Statement

\* Until the process ends only startWorker adds to what a stop has to wait
\* for: each step of a worker or of the drainer leaves less of it.  This is
\* the measure by which StopTerminates and ClaimResolved come about.
THEOREM RunsOnlyGoForward == Spec => OnlyForward
<1> DEFINE Onward ==
        \/ pc' = "off"
        \/ UNCHANGED <<stage, queue, job, step, todo>>
        \/ pc = "insert" /\ running \subseteq running' /\ running # running'
        \/ step # "gone" /\ step' = "gone" /\ UNCHANGED <<stage, queue, job>>
        \/ Forward
<1>1. TypeOK /\ Consistent /\ TypeOK' /\ [Next]_vars => [Onward]_vars
  <2> SUFFICES ASSUME TypeOK, Consistent, TypeOK', [Next]_vars PROVE Onward
    OBVIOUS
  <2> USE DEF Consistent
  <2>1. CASE \/ UNCHANGED <<landed, stage, outcome, queue, closed, job, step, todo>>
             \/ CloseQueue
    BY <2>1 DEF CloseQueue, workers
  <2>2. CASE Crash \/ Exit
    BY <2>2 DEF Crash, Exit, ForgetProcess
  <2>3. CASE StartWorker
    <3>1. pc = "insert"
      BY <2>3 DEF StartWorker
    <3>2. PICK r \in RunId : NextRun(r) /\ running' = running \cup {r}
      BY <2>3 DEF StartWorker
    <3>3. r \notin running
      BY <3>2 DEF NextRun, RowsExist
    <3> QED
      BY <3>1, <3>2, <3>3
  <2>4. ASSUME NEW q \in RunId, Worker(q) PROVE Onward
    BY <2>4, WorkerForward
  <2>5. CASE Drainer /\ ~DrainerExits
    BY <2>5, DrainerForward
  <2>6. CASE DrainerExits
    BY <2>6 DEF DrainerExits, workers
  <2> QED
    BY <2>1, <2>2, <2>3, <2>4, <2>5, <2>6, HandoverFrame
<1> QED
  BY <1>1, Inductive, PTL DEF Spec, OnlyForward
=============================================================================

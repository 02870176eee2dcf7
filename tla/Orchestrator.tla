---------------------------- MODULE Orchestrator ----------------------------
(***************************************************************************)
(* The orchestrator daemon (internal/orchestrator/orchestrator.go) over    *)
(* the features and orchestrator_runs tables (internal/db/db.go), with the *)
(* people and command-line tools that write the same tables.               *)
(*                                                                         *)
(* Three kinds of goroutine live in one process and meet at a map under a  *)
(* mutex, a context and a buffered channel:                                *)
(*   - the poll loop (Run, tickOnce, startWorker, waitWorkers),            *)
(*   - one worker per run (Execute, ClaudeSpawn, applySideEffects),        *)
(*   - one drainer (sideEffectLoop and the closures buildSideEffects       *)
(*     composes).                                                          *)
(* One SQL statement is one action: the tables can change between any two  *)
(* statements.  The process may die between any two actions; the tables    *)
(* survive it and everything else does not.                                *)
(***************************************************************************)
EXTENDS RunOutcome, FiniteSets

CONSTANTS
    Personas,       \* persona names in the order persona.List returns them
    InitialTargets, \* target persona of each feature present at the start
    MaxParallelism, \* Config.MaxParallelism
    QueueCap,       \* capacity of the sideEffects channel (64 in NewDaemon)
    Outcomes,       \* what a spawn that runs to its end may return
    EditStatuses,   \* the statuses people and tools set from outside
    MaxFeatures,    \* bound: rows of the features table
    MaxRuns,        \* bound: rows of the orchestrator_runs table
    Budget          \* bound: how often each kind of outside event happens

Kind == {"crash", "fault", "edit", "add", "followup", "timeout"}

\* The target_persona a feature has when none is given.
Untyped == ""

Listed == {Personas[i] : i \in 1..Len(Personas)}
Target == Listed \cup {Untyped}

FeatureId == 1..MaxFeatures
RunId     == 1..MaxRuns

Claimable     == {"draft", "queued"}
FeatureStatus == Claimable \cup {"claimed"} \cup FinalStatuses
Reply         == [result : ResultWord, writes : SUBSET {"context", "comment"},
                  followUps : Seq(Target)]
Spawned       == SpawnedWith(Reply)

ASSUME SizeAssumption ==
    /\ Personas \in Seq(STRING)
    /\ InitialTargets \in Seq(Target)
    /\ MaxParallelism \in Nat \ {0}
    /\ QueueCap \in Nat \ {0}
    /\ MaxFeatures \in Nat
    /\ MaxRuns \in Nat
    /\ Len(InitialTargets) <= MaxFeatures

\* The bounded tables have room for whatever the budgets allow.
ASSUME RoomAssumption ==
    /\ Len(InitialTargets) + Budget["add"] + Budget["followup"] <= MaxFeatures
    /\ MaxFeatures + Budget["edit"] <= MaxRuns

ASSUME EnvironmentAssumption ==
    /\ EditStatuses \subseteq FeatureStatus
    /\ Outcomes \subseteq Spawned
    /\ Budget \in [Kind -> Nat]

VARIABLES
    (* the database *)
    status,     \* features.status, "absent" when there is no such row
    target,     \* features.target_persona
    runFeature, \* orchestrator_runs.feature_id, 0 when there is no such row
    runResult,  \* orchestrator_runs.result, "none" when there is no such row
    (* the poll loop *)
    pc,         \* where the loop stands, "off" when no process runs
    avail,      \* tickOnce's avail
    turn,       \* index of tickOnce's loop over the personas
    sel,        \* the feature ClaimNextFeature selected, or 0
    cancelled,  \* ctx.Done is closed
    (* the workers *)
    running,    \* the keys of Daemon.running
    stage,      \* where each run's goroutine stands, "none" when it is gone
    outcome,    \* what its Spawn returned
    (* the side-effect channel and its drainer *)
    queue,      \* the runs whose jobs are buffered
    closed,     \* close(d.sideEffects) has happened
    job,        \* the run whose closure the drainer applies, or 0
    step,       \* the closure's next statement
    todo,       \* follow-ups the closure has not filed yet
    (* history and bounds *)
    landed,     \* the writes of each live run's closure that landed, in order
    edited,     \* the statuses written to each feature from outside
    spent       \* how much of each Budget is used

history == <<landed, edited, spent>>
db      == <<status, target, runFeature, runResult>>
locals  == <<avail, turn, sel>>
loop    == <<pc, locals, cancelled>>
workers == <<running, stage, outcome>>
drainer == <<queue, closed, job, step, todo>>
vars    == <<db, loop, workers, drainer, history>>

NoOutcome == [spawnError |-> FALSE, exitCode |-> 0, reply |-> NoReply]

Init ==
    /\ status = [f \in FeatureId |->
                    IF f <= Len(InitialTargets) THEN "draft" ELSE "absent"]
    /\ target = [f \in FeatureId |->
                    IF f <= Len(InitialTargets) THEN InitialTargets[f]
                                                ELSE Untyped]
    /\ runFeature = [r \in RunId |-> 0]
    /\ runResult = [r \in RunId |-> "none"]
    /\ pc = "off" /\ avail = 0 /\ turn = 1 /\ sel = 0 /\ cancelled = FALSE
    /\ running = {}
    /\ stage = [r \in RunId |-> "none"]
    /\ outcome = [r \in RunId |-> NoOutcome]
    /\ queue = <<>> /\ closed = FALSE
    /\ job = 0 /\ step = "idle" /\ todo = <<>>
    /\ landed = [r \in RunId |-> <<>>]
    /\ edited = [f \in FeatureId |-> {}]
    /\ spent = [k \in Kind |-> 0]

Spend(kind) ==
    /\ spent[kind] < Budget[kind]
    /\ spent' = [spent EXCEPT ![kind] = @ + 1]

-----------------------------------------------------------------------------
(* The tables.                                                              *)

\* AUTOINCREMENT: the row an INSERT creates is the first that does not exist.
NextFeature(f) ==
    /\ status[f] = "absent"
    /\ \A g \in FeatureId : g < f => status[g] # "absent"

NextRun(r) ==
    /\ runResult[r] = "none"
    /\ \A q \in RunId : q < r => runResult[q] # "none"

AddFeature(f, persona) ==
    /\ NextFeature(f)
    /\ status' = [status EXCEPT ![f] = "draft"]
    /\ target' = [target EXCEPT ![f] = persona]

\* Mutation: a claimed feature is still a candidate.
ClaimCandidatesAnyStatus(persona) ==
    {f \in FeatureId : /\ status[f] \in Claimable \cup {"claimed"}
                       /\ target[f] = persona}

\* The WHERE clause of ClaimNextFeature's SELECT.
ClaimCandidates(persona) ==
    {f \in FeatureId : status[f] \in Claimable /\ target[f] = persona}

\* Its ORDER BY created_at LIMIT 1: ids grow with created_at; rows created in
\* the same second are taken to come in id order.
Oldest(f, fs) == f \in fs /\ \A g \in fs : f <= g

-----------------------------------------------------------------------------
(* The process: its life, its start and its end.                            *)

\* Everything a process holds in memory, back to what a new one starts with.
ForgetProcess ==
    /\ pc' = "off" /\ avail' = 0 /\ turn' = 1 /\ sel' = 0
    /\ cancelled' = FALSE
    /\ running' = {}
    /\ stage' = [r \in RunId |-> "none"]
    /\ outcome' = [r \in RunId |-> NoOutcome]
    /\ queue' = <<>> /\ closed' = FALSE
    /\ job' = 0 /\ step' = "idle" /\ todo' = <<>>
    /\ landed' = [r \in RunId |-> <<>>]

\* Mutation: the WHERE clause of the stale-run UPDATE lost its result test.
StaleRowsAnyResult(n) == {r \in RunId : r <= n /\ runResult[r] # "none"}

\* The WHERE clause of MarkStaleRunsErrored; the rows started before the
\* cutoff are the first n.
StaleRows(n) == {r \in RunId : r <= n /\ runResult[r] = "running"}

\* Run up to its loop.  How many rows are past the cutoff depends on how long
\* the project has been without a daemon; a failing UPDATE is only logged,
\* which is n = 0.
Start ==
    /\ pc = "off"
    /\ \E n \in 0..MaxRuns :
          runResult' = [r \in RunId |->
                           IF r \in StaleRows(n) THEN "error" ELSE runResult[r]]
    /\ pc' = "tick"
    /\ UNCHANGED <<status, target, runFeature, locals, cancelled, workers,
                   drainer, history>>

\* SIGINT or SIGTERM: the signal goroutine cancels the context.
Interrupt ==
    /\ pc \notin {"off", "exit"}
    /\ ~cancelled
    /\ cancelled' = TRUE
    /\ UNCHANGED <<db, pc, locals, workers, drainer, history>>

\* Run has returned and the process ends.
Exit ==
    /\ pc = "exit"
    /\ ForgetProcess
    /\ UNCHANGED <<db, edited, spent>>

\* The process is killed.  Children it started are on their own: nothing
\* reads what they print.
Crash ==
    /\ pc # "off"
    /\ Spend("crash")
    /\ ForgetProcess
    /\ UNCHANGED <<db, edited>>

-----------------------------------------------------------------------------
(* The poll loop: tickOnce.                                                 *)

\* Mutation: avail is the configured limit, whatever is in flight.
FreeSlotsIgnoringActive == MaxParallelism

\* MaxParallelism - activeCount().
FreeSlots == MaxParallelism - Cardinality(running)

\* avail is computed once, from the running map as it is now; personas and
\* project are then read.
Tick ==
    /\ pc = "tick"
    /\ IF FreeSlots <= 0 THEN pc' = "poll" /\ UNCHANGED avail
                         ELSE pc' = "select" /\ avail' = FreeSlots
    /\ turn' = 1
    /\ UNCHANGED <<db, sel, cancelled, workers, drainer, history>>

\* persona.List or GetProject fails: the whole tick is given up.
TickFails ==
    /\ pc = "tick"
    /\ FreeSlots > 0
    /\ Spend("fault")
    /\ pc' = "poll"
    /\ UNCHANGED <<db, locals, cancelled, workers, drainer, landed, edited>>

NextPersona ==
    /\ pc' = "select"
    /\ turn' = turn + 1
    /\ sel' = 0

\* No capacity or no persona left: back to the select statement.
TickDone ==
    /\ pc = "select"
    /\ avail <= 0 \/ turn > Len(Personas)
    /\ pc' = "poll" /\ avail' = 0 /\ turn' = 1
    /\ UNCHANGED <<db, sel, cancelled, workers, drainer, history>>

\* The SELECT of ClaimNextFeature finds the persona's next feature...
SelectFeature ==
    /\ pc = "select" /\ avail > 0 /\ turn <= Len(Personas)
    /\ \E f \in FeatureId :
          Oldest(f, ClaimCandidates(Personas[turn])) /\ sel' = f
    /\ pc' = "claim"
    /\ UNCHANGED <<db, avail, turn, cancelled, workers, drainer, history>>

\* ... or nothing, or fails; either way the loop goes to the next persona.
SelectNothing ==
    /\ pc = "select" /\ avail > 0 /\ turn <= Len(Personas)
    /\ \/ ClaimCandidates(Personas[turn]) = {} /\ UNCHANGED spent
       \/ Spend("fault")
    /\ NextPersona
    /\ UNCHANGED <<db, avail, cancelled, workers, drainer, landed, edited>>

\* The UPDATE of ClaimNextFeature: by id alone, whatever the status is now.
ClaimFeature ==
    /\ pc = "claim"
    /\ status' = [status EXCEPT ![sel] = "claimed"]
    /\ pc' = "insert"
    /\ UNCHANGED <<target, runFeature, runResult, locals, cancelled, workers,
                   drainer, history>>

\* The UPDATE fails, or it lands and reading the row back fails: an error
\* either way, and nobody starts a run for the feature.
ClaimFails ==
    /\ pc = "claim"
    /\ Spend("fault")
    /\ \/ UNCHANGED status
       \/ status' = [status EXCEPT ![sel] = "claimed"]
    /\ NextPersona
    /\ UNCHANGED <<target, runFeature, runResult, avail, cancelled, workers,
                   drainer, landed, edited>>

\* startWorker: the run row, the running map and the goroutine.  Nothing else
\* in the process reads the map between the INSERT and the registration.
StartWorker ==
    /\ pc = "insert"
    /\ \E r \in RunId :
          /\ NextRun(r)
          /\ runFeature' = [runFeature EXCEPT ![r] = sel]
          /\ runResult' = [runResult EXCEPT ![r] = "running"]
          /\ running' = running \cup {r}
          /\ stage' = [stage EXCEPT ![r] = "begin"]
    /\ avail' = avail - 1
    /\ NextPersona
    /\ UNCHANGED <<status, target, cancelled, outcome, drainer, history>>

\* The INSERT fails: startWorker goes on to undo the claim.
StartRunFails ==
    /\ pc = "insert"
    /\ Spend("fault")
    /\ pc' = "rollback"
    /\ UNCHANGED <<db, locals, cancelled, workers, drainer, landed, edited>>

\* The claim is undone to "draft", also when it was "queued"; an error of this
\* UPDATE is ignored.  tickOnce counts the attempt against avail.
RollBack ==
    /\ pc = "rollback"
    /\ \/ status' = [status EXCEPT ![sel] = "draft"] /\ UNCHANGED spent
       \/ Spend("fault") /\ UNCHANGED status
    /\ avail' = avail - 1
    /\ NextPersona
    /\ UNCHANGED <<target, runFeature, runResult, cancelled, workers, drainer,
                   landed, edited>>

-----------------------------------------------------------------------------
(* The poll loop: Run's select statement and the shutdown sequence.         *)

\* tick.C fires.  With both channels ready Go picks either, so a tick may
\* still be taken after the context is cancelled.
TickerFires ==
    /\ pc = "poll"
    /\ pc' = "tick"
    /\ UNCHANGED <<db, locals, cancelled, workers, drainer, history>>

\* ctx.Done is taken: waitWorkers begins.
StopSelected ==
    /\ pc = "poll" /\ cancelled
    /\ pc' = "drain"
    /\ UNCHANGED <<db, locals, cancelled, workers, drainer, history>>

\* Mutation: nobody waits for the workers.
WaitForNobody == TRUE

\* waitWorkers returns.
WorkersAreDone == running = {}

\* ... and then close(d.sideEffects).
CloseQueue ==
    /\ pc = "drain"
    /\ WorkersAreDone
    /\ closed' = TRUE
    /\ pc' = "join"
    /\ UNCHANGED <<db, locals, cancelled, workers, queue, job, step, todo,
                   history>>

\* <-d.drainerDone, and Run returns.
RunReturns ==
    /\ pc = "join" /\ step = "gone"
    /\ pc' = "exit"
    /\ UNCHANGED <<db, locals, cancelled, workers, drainer, history>>

-----------------------------------------------------------------------------
(* One worker: Execute.                                                     *)

\* cmd.Start: with a live context the child starts...
StartChild(r) ==
    /\ stage[r] = "begin" /\ ~cancelled
    /\ stage' = [stage EXCEPT ![r] = "inflight"]
    /\ UNCHANGED <<db, loop, running, outcome, drainer, history>>

\* The child is over: its output has been read and parsed.  What it asks to
\* be filed counts against the bound on follow-ups.
ChildReturns(r, result, timeouts) ==
    /\ spent["followup"] + Len(result.reply.followUps) <= Budget["followup"]
    /\ spent["timeout"] + timeouts <= Budget["timeout"]
    /\ spent' = [spent EXCEPT
                    !["followup"] = @ + Len(result.reply.followUps),
                    !["timeout"] = @ + timeouts]
    /\ outcome' = [outcome EXCEPT ![r] = result]
    /\ stage' = [stage EXCEPT ![r] = "send"]
    /\ UNCHANGED <<db, loop, running, drainer, landed, edited>>

\* ... with a cancelled one it does not: a spawn error.
StartChildCancelled(r) ==
    /\ stage[r] = "begin" /\ cancelled
    /\ ChildReturns(r, NotStartedSpawn, 0)

\* The child ends by itself.
ChildExits(r) ==
    /\ stage[r] = "inflight"
    /\ \E result \in Outcomes : ChildReturns(r, result, 0)

\* What a killed child leaves behind: nothing, or all it had to say.
KilledOutcomes ==
    {KilledSpawn} \cup {[result EXCEPT !.exitCode = -1] : result \in Outcomes}

\* The worker timeout kills it.
ChildTimesOut(r) ==
    /\ stage[r] = "inflight"
    /\ \E result \in KilledOutcomes : ChildReturns(r, result, 1)

\* The child's context is derived from the daemon's: a stop kills it.
ChildKilledByStop(r) ==
    /\ stage[r] = "inflight" /\ cancelled
    /\ \E result \in KilledOutcomes : ChildReturns(r, result, 0)

\* Mutation: the worker does not wait for the drainer to apply its closure.
LeaveAtOnce == "released"

\* After the send the worker blocks on its job's done channel.
AfterSend == "await"

\* applySideEffects: the send blocks while the buffer is full.
Send(r) ==
    /\ stage[r] = "send"
    /\ Len(queue) < QueueCap
    /\ queue' = Append(queue, r)
    /\ stage' = [stage EXCEPT ![r] = AfterSend]
    /\ UNCHANGED <<db, loop, running, outcome, closed, job, step, todo,
                   history>>

\* Mutation: a finished worker stays in the map.
KeepRegistered(r) == running

\* delete(d.running, runID).
Deregister(r) == running \ {r}

\* Execute returns and the deferred delete removes the worker from the map.
WorkerEnds(r) ==
    /\ stage[r] = "released"
    /\ running' = Deregister(r)
    /\ stage' = [stage EXCEPT ![r] = "none"]
    /\ outcome' = [outcome EXCEPT ![r] = NoOutcome]
    /\ landed' = [landed EXCEPT ![r] = <<>>]
    /\ UNCHANGED <<db, loop, drainer, edited, spent>>

-----------------------------------------------------------------------------
(* The drainer: sideEffectLoop applies one closure at a time, statement by  *)
(* statement.  A statement that fails is logged and the next one runs.      *)

Land(write) == landed' = [landed EXCEPT ![job] = Append(@, write)]

Receive ==
    /\ job = 0 /\ step = "idle" /\ queue # <<>>
    /\ job' = Head(queue)
    /\ queue' = Tail(queue)
    /\ step' = "context"
    /\ UNCHANGED <<db, loop, workers, closed, todo, history>>

\* The range loop ends when the channel is closed and empty.
DrainerExits ==
    /\ job = 0 /\ step = "idle" /\ queue = <<>> /\ closed
    /\ step' = "gone"
    /\ UNCHANGED <<db, loop, workers, queue, closed, job, todo, history>>

\* 1 and 2: the context entry and the comment, when there is one to write.
WriteReport(write, to) ==
    /\ step = write
    /\ step' = to
    /\ IF write \in outcome[job].reply.writes
       THEN \/ Land(write) /\ UNCHANGED spent
            \/ Spend("fault") /\ UNCHANGED landed
       ELSE UNCHANGED <<landed, spent>>
    /\ UNCHANGED <<db, loop, workers, queue, closed, job, todo, edited>>

AppendContext == WriteReport("context", "comment")

AddComment == WriteReport("comment", "project")

\* 3: the follow-ups, filed whatever the run's result; none of them when the
\* project cannot be read.
LoadProject ==
    /\ step = "project"
    /\ \/ /\ todo' = outcome[job].reply.followUps
          /\ UNCHANGED spent
       \/ Spend("fault") /\ todo' = <<>>
    /\ step' = IF todo' = <<>> THEN "status" ELSE "followups"
    /\ UNCHANGED <<db, loop, workers, queue, closed, job, landed, edited>>

FileFollowUp ==
    /\ step = "followups"
    /\ \/ /\ \E f \in FeatureId : AddFeature(f, Head(todo))
          /\ Land("followup")
          /\ UNCHANGED spent
       \/ Spend("fault") /\ UNCHANGED <<status, target, landed>>
    /\ todo' = Tail(todo)
    /\ step' = IF todo' = <<>> THEN "status" ELSE "followups"
    /\ UNCHANGED <<runFeature, runResult, loop, workers, queue, closed, job,
                   edited>>

\* Mutation: the status the feature has is written back.
StatusUnchanged == status[runFeature[job]]

\* finalStatus, as the closure captured it.
StatusOfResult == FinalStatus(Classify(outcome[job]))

\* 4: the feature's final status, whatever its status is by now.
SetFinalStatus ==
    /\ step = "status"
    /\ \/ /\ status' = [status EXCEPT ![runFeature[job]] = StatusOfResult]
          /\ Land("status")
          /\ UNCHANGED spent
       \/ Spend("fault") /\ UNCHANGED <<status, landed>>
    /\ step' = "finish"
    /\ UNCHANGED <<target, runFeature, runResult, loop, workers, queue,
                   closed, job, todo, edited>>

\* 5: FinishOrchestratorRun, by id alone.
FinishRun ==
    /\ step = "finish"
    /\ \/ /\ runResult' = [runResult EXCEPT ![job] = Classify(outcome[job])]
          /\ Land("finish")
          /\ UNCHANGED spent
       \/ Spend("fault") /\ UNCHANGED <<runResult, landed>>
    /\ step' = "release"
    /\ UNCHANGED <<status, target, runFeature, loop, workers, queue, closed,
                   job, todo, edited>>

\* Mutation: job.done is never closed.
DoneNeverClosed == stage

\* close(job.done).
DoneClosed == [stage EXCEPT ![job] = "released"]

\* The worker may go on.
Release ==
    /\ step = "release"
    /\ stage' = DoneClosed
    /\ job' = 0 /\ step' = "idle"
    /\ UNCHANGED <<db, loop, running, outcome, queue, closed, todo, history>>

-----------------------------------------------------------------------------
(* People and tools outside the process, writing the same tables.           *)

\* feature add, or the HTTP handler: a new draft.
PersonAddsFeature ==
    /\ Spend("add")
    /\ \E f \in FeatureId, p \in Target : AddFeature(f, p)
    /\ UNCHANGED <<runFeature, runResult, loop, workers, drainer, landed,
                   edited>>

\* feature status, feature done, the status of feature add --status (a second
\* statement, any time after the INSERT) and the UPDATE of persona claim: any
\* existing feature, no condition on its status.
PersonSetsStatus ==
    /\ Spend("edit")
    /\ \E f \in FeatureId, s \in EditStatuses :
          /\ status[f] # "absent"
          /\ status' = [status EXCEPT ![f] = s]
          /\ edited' = [edited EXCEPT ![f] = @ \cup {s}]
    /\ UNCHANGED <<target, runFeature, runResult, loop, workers, drainer,
                   landed>>

-----------------------------------------------------------------------------
TickOnce ==
    \/ Tick \/ TickFails \/ TickDone
    \/ SelectFeature \/ SelectNothing
    \/ ClaimFeature \/ ClaimFails
    \/ StartWorker \/ StartRunFails \/ RollBack

PollLoop ==
    \/ TickOnce
    \/ TickerFires \/ StopSelected \/ CloseQueue \/ RunReturns \/ Exit

Worker(r) ==
    \/ StartChild(r) \/ StartChildCancelled(r)
    \/ ChildExits(r) \/ ChildTimesOut(r) \/ ChildKilledByStop(r)
    \/ Send(r) \/ WorkerEnds(r)

Drainer ==
    \/ Receive \/ AppendContext \/ AddComment
    \/ LoadProject \/ FileFollowUp
    \/ SetFinalStatus \/ FinishRun \/ Release
    \/ DrainerExits

Outside == PersonAddsFeature \/ PersonSetsStatus

Next ==
    \/ Start \/ Interrupt \/ Crash
    \/ PollLoop
    \/ \E r \in RunId : Worker(r)
    \/ Drainer
    \/ Outside

Spec == Init /\ [][Next]_vars

\* Goroutines are scheduled: the ticker fires, a worker's child ends or meets
\* its timeout and then lets go of its output, the drainer drains.  Go's
\* select is uniform over the ready channels, so the done channel is not
\* passed over for ever (strong fairness: between two ticks it is ready only
\* while the loop waits).
\* Nobody is obliged to start, stop or crash the daemon, or to edit a table.
Fairness ==
    /\ WF_vars(PollLoop)
    /\ SF_vars(StopSelected)
    /\ \A r \in RunId : WF_vars(Worker(r))
    /\ WF_vars(Drainer)

FairSpec == Spec /\ Fairness

-----------------------------------------------------------------------------
(* Vocabulary of the properties.                                            *)

\* Somebody outside the daemon made the feature claimable (again).
Reopened(f) == edited[f] \cap Claimable # {}

\* Somebody outside the daemon wrote the feature's status.
Touched(f) == edited[f] # {}

\* The run's worker is alive and its closure has not reached the statement
\* that writes the feature's status.
BeforeFinalStatus(r) ==
    \/ stage[r] \in {"begin", "inflight", "send"}
    \/ /\ stage[r] = "await"
       /\ job = r => step \in {"context", "comment", "project", "followups",
                               "status"}

\* A write a closure owes only when the report has something to put there ...
Optional(write, result) ==
    IF write \in result.reply.writes THEN <<write>> ELSE <<>>

\* ... one for each of n follow-ups, and the two it always owes.
Filings(n) == [i \in 1..n |-> "followup"]

Closing == <<"status", "finish">>

\* The place of a write in a closure.
PlaceOf(write) ==
    CASE write = "context"  -> 1
      [] write = "comment"  -> 2
      [] write = "followup" -> 3
      [] write = "status"   -> 4
      [] write = "finish"   -> 5

\* Writes that landed in the order of buildSideEffects, none of them twice but
\* follow-ups.
InOrder(writes) ==
    \A i, j \in DOMAIN writes : i < j =>
        \/ PlaceOf(writes[i]) < PlaceOf(writes[j])
        \/ writes[i] = "followup" /\ writes[j] = "followup"

\* The writes a run's closure owes, in the order of buildSideEffects.
Script(result) ==
    Optional("context", result) \o
        (Optional("comment", result) \o
            (Filings(Len(result.reply.followUps)) \o Closing))

Write == {"context", "comment", "followup", "status", "finish"}

Step == {"idle", "context", "comment", "project", "followups", "status",
         "finish", "release", "gone"}

TypeOfTables ==
    /\ status \in [FeatureId -> FeatureStatus \cup {"absent"}]
    /\ target \in [FeatureId -> Target]
    /\ runFeature \in [RunId -> FeatureId \cup {0}]
    /\ runResult \in [RunId -> ResultStatus \cup {"none", "running"}]

TypeOfLoop ==
    /\ pc \in {"off", "tick", "select", "claim", "insert", "rollback", "poll",
               "drain", "join", "exit"}
    /\ avail \in Nat
    /\ turn \in Nat
    /\ sel \in FeatureId \cup {0}

TypeOfWorkers ==
    /\ running \in SUBSET RunId
    /\ stage \in [RunId -> {"none", "begin", "inflight", "send", "await",
                            "released"}]
    /\ outcome \in [RunId -> Spawned]

TypeOfDrainer ==
    /\ queue \in Seq(RunId)
    /\ job \in RunId \cup {0}
    /\ step \in Step
    /\ todo \in Seq(Target)

TypeOfFlags == cancelled \in BOOLEAN /\ closed \in BOOLEAN

TypeOfHistory ==
    /\ landed \in [RunId -> Seq(Write)]
    /\ edited \in [FeatureId -> SUBSET FeatureStatus]
    /\ spent \in [Kind -> Nat]

TypeOK ==
    /\ TypeOfTables /\ TypeOfLoop /\ TypeOfWorkers /\ TypeOfDrainer
    /\ TypeOfFlags /\ TypeOfHistory

-----------------------------------------------------------------------------
(* Safety.                                                                  *)

\* The cap of TestDaemon_ParallelismCap: no more workers than
\* Config.MaxParallelism, although tickOnce counts the map once, before it
\* starts several workers, while other workers come to an end.
ParallelismCap == Cardinality(running) <= MaxParallelism

\* A feature is dispatched once: two runs of the same feature exist only when
\* somebody outside set its status back to draft or queued.  Whatever crashes,
\* restarts, stale-run marking, failing statements and undone claims happen.
DispatchedOnce ==
    \A r, q \in RunId :
        /\ r # q
        /\ runFeature[r] # 0
        /\ runFeature[r] = runFeature[q]
        => Reopened(runFeature[r])

\* Run's comment on close(d.sideEffects): no further sends will happen.
NoSendOnClosed ==
    closed => \A r \in RunId : stage[r] \notin {"begin", "inflight", "send"}

\* applySideEffects: no run completes until its writes have landed.  Whatever
\* statements fail, what has landed is in the closure's order; as long as none
\* fails it is a prefix of the closure's script, and all of it once the worker
\* is released.
BlockLandsInOrder ==
    \A r \in RunId : stage[r] \in {"await", "released"} =>
        /\ InOrder(landed[r])
        /\ spent["fault"] = 0 =>
              LET script == Script(outcome[r])
              IN  /\ Len(landed[r]) <= Len(script)
                  /\ landed[r] = SubSeq(script, 1, Len(landed[r]))
                  /\ stage[r] = "released" => landed[r] = script

\* TestDaemon_NoSQLiteContentionUnderLoad: no features stuck in 'claimed', no
\* runs stuck in 'running'.  Without a crash or a failing statement a claimed
\* feature nobody touched is in the hands of the loop or of a worker that will
\* still write its status, and a running row has a live worker.
NothingStranded ==
    spent["fault"] = 0 /\ spent["crash"] = 0 =>
        /\ \A f \in FeatureId : status[f] = "claimed" /\ ~Touched(f) =>
              \/ pc = "insert" /\ sel = f
              \/ \E r \in running : runFeature[r] = f /\ BeforeFinalStatus(r)
        /\ \A r \in RunId : runResult[r] = "running" => r \in running

\* The two tables agree: when a run says completed, blocked or needs_review,
\* the feature it ran, unless touched from outside, carries the status that
\* belongs to it, across crashes and restarts.  (An "error" may also be
\* written by a later start, so it promises nothing of the feature.)
OutcomeAgrees ==
    spent["fault"] = 0 =>
        \A r \in RunId :
            /\ runResult[r] \in {"completed", "blocked", "needs_review"}
            /\ ~Touched(runFeature[r])
            => status[runFeature[r]] = FinalStatus(runResult[r])

\* A run that has a result keeps it: the drainer and a later start's
\* MarkStaleRunsErrored never write the same row one after the other.
ResultsAreFinal ==
    [][\A r \in RunId : runResult[r] \in ResultStatus =>
          runResult'[r] = runResult[r]]_vars

\* The drainer's next step does not depend on anybody else's.
DrainerCanMove ==
    /\ step # "gone"
    /\ step = "idle" => queue # <<>> \/ closed

\* Nor does that of r's worker.
WorkerCanMove(r) ==
    \/ stage[r] \in {"begin", "inflight", "released"}
    \/ stage[r] = "send" /\ Len(queue) < QueueCap

\* Waiting is never in a circle: whoever waits for a place in the channel or
\* for its done channel waits for a drainer that can move; waitWorkers waits
\* for a drainer or a worker that can; drainerDone for a drainer that can, or
\* that is gone.  Whatever crashes, stops and failing statements happened.
NobodyWaitsInVain ==
    /\ \A r \in RunId :
          \/ stage[r] = "await"
          \/ stage[r] = "send" /\ ~WorkerCanMove(r)
          => DrainerCanMove
    /\ pc = "drain" /\ running # {} =>
          DrainerCanMove \/ \E r \in running : WorkerCanMove(r)
    /\ pc = "join" => step = "gone" \/ DrainerCanMove

\* How many steps the drainer has still to take for the run it applies,
\* follow-ups after the first aside.
StatementsLeft ==
    CASE step = "context"   -> 7
      [] step = "comment"   -> 6
      [] step = "project"   -> 5
      [] step = "followups" -> 4
      [] step = "status"    -> 3
      [] step = "finish"    -> 2
      [] OTHER              -> 1

\* How many steps of its worker and of the drainer are between a run and its
\* end.
Ahead(r) ==
    CASE stage[r] = "begin"                -> 12
      [] stage[r] = "inflight"             -> 11
      [] stage[r] = "send"                 -> 10
      [] stage[r] = "await" /\ job # r     -> 9
      [] stage[r] = "await" /\ job = r     -> 1 + StatementsLeft
      [] stage[r] = "released"             -> 1
      [] stage[r] = "none"                 -> 0

\* Some run comes nearer to its end, or files one more follow-up, and none
\* goes back.
Forward ==
    /\ \A r \in RunId : Ahead(r)' <= Ahead(r)
    /\ \/ \E r \in RunId : Ahead(r)' < Ahead(r)
       \/ Len(todo') < Len(todo)

\* Nothing a worker or the drainer does adds to what a stop has to wait for:
\* until the process ends, only startWorker does.
OnlyForward ==
    [][\/ pc' = "off"
       \/ UNCHANGED <<stage, queue, job, step, todo>>
       \/ pc = "insert" /\ running \subseteq running' /\ running # running'
       \/ step # "gone" /\ step' = "gone" /\ UNCHANGED <<stage, queue, job>>
       \/ Forward]_vars

\* The daemon implements the ledger: rows open one by one under the cap, a
\* worker stands behind each until it is closed, closed once, and a start
\* settles only rows that no worker stands behind.
Ledger == INSTANCE RunLedger
    WITH MaxActive <- MaxParallelism,
         Result <- ResultStatus,
         row <- runResult,
         active <- running,
         lossy <- spent["fault"] > 0

LedgerSpec == Ledger!Spec

-----------------------------------------------------------------------------
(* Liveness, under Fairness.                                                *)

\* A claimable feature of a listed persona leaves the queue, unless the
\* daemon ends or is told to.
Dispatched ==
    \A f \in FeatureId :
        status[f] \in Claimable /\ target[f] \in Listed
            ~> status[f] \notin Claimable \/ pc = "off" \/ cancelled

\* A claim ends: as long as nothing fails and nobody sets it so from outside,
\* no feature stays claimed, stopping the daemon included.
ClaimResolved ==
    \A f \in FeatureId :
        status[f] = "claimed"
            ~> \/ status[f] # "claimed"
               \/ spent["fault"] > 0 \/ spent["crash"] > 0 \/ Touched(f)

\* A stop request ends the process: no worker, no full buffer and no ticker
\* keeps Run from returning.
StopTerminates == cancelled ~> pc = "off"

-----------------------------------------------------------------------------
(* What the sources say and the code does not do.                           *)

\* Daemon.sideEffects: "so SQLite never sees concurrent writers from this
\* process": never are the loop and the drainer both about to run a writing
\* statement.
SingleWriter ==
    ~ /\ pc \in {"claim", "insert", "rollback"}
      /\ step \in {"comment", "followups", "status", "finish"}

\* orchestrator start: "graceful - waits for in-flight workers".  With children
\* that never fail by themselves, no timeout, crash or failing statement, no
\* run ends in error: being told to stop is not a reason.
StopIsGraceful ==
    /\ \A result \in Outcomes : Classify(result) # "error"
    /\ spent["timeout"] = 0 /\ spent["crash"] = 0 /\ spent["fault"] = 0
    => \A r \in RunId : runResult[r] # "error"
=============================================================================

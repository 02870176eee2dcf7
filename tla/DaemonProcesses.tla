-------------------------- MODULE DaemonProcesses --------------------------
(***************************************************************************)
(* Several processes of one project: `tillr orchestrator start` and `stop` *)
(* (internal/cli/orchestrator.go) around the pid file, `tillr persona      *)
(* claim` (internal/cli/persona.go), and the tables they share.            *)
(*                                                                         *)
(* Orchestrator follows one daemon through every goroutine and every       *)
(* failing statement.  Here a daemon is the few steps other processes can  *)
(* run into: how it starts and ends, the two statements of a claim, the    *)
(* INSERT of a run and the rollback of a claim without one, the two last   *)
(* statements of a closure, and the UPDATE of stale runs.  Each system     *)
(* call on the pid file or on a pid, and each statement, is an action.     *)
(***************************************************************************)
EXTENDS Integers, FiniteSets

CONSTANTS
    Pid,        \* process ids the system gives out
    FeatureId,  \* features of one persona, in the order of created_at
    MaxRuns,    \* bound: rows of the orchestrator_runs table
    Budget      \* bound: how often each kind of event happens

\* "other": a death, a failing call, an edit, a claim by hand, a program.
Kind == {"start", "stop", "other"}

RunId == 1..MaxRuns

ASSUME ProcessAssumption ==
    /\ 0 \notin Pid /\ -1 \notin Pid
    /\ FeatureId \subseteq Nat \ {0}
    /\ MaxRuns \in Nat
    /\ Budget \in [Kind -> Nat]

\* What reading the pid file may give besides a pid.
NoFile    == 0
EmptyFile == -1

VARIABLES
    stage,      \* where the process with each pid stands, "free" if none
    told,       \* the daemons whose context is cancelled
    seen,       \* the pid a start has read in the file and not probed yet, or 0
    pidFile,    \* what is at the path of the pid file
    holds,      \* the processes whose open descriptor is that very file
    inHand,     \* the pid a `stop` has read and not signalled yet, or 0
    status,     \* features.status: "draft", "claimed" or "final"
    sel,        \* the feature each process has selected and not yet claimed
    runFeature, \* orchestrator_runs.feature_id, 0 when there is no such row
    runResult,  \* orchestrator_runs.result, "none" when there is no such row
    worker,     \* the process in which the run's worker lives, or 0
    settled,    \* the runs whose worker has written the feature's status
    overlapped, \* a start passed the guard on a file read too early
    raced,      \* two claimers had the same feature selected at once
    recycled,   \* a pid in the file, or read there, went to a new process
    granted,    \* how many claims of each feature have succeeded
    released,   \* how often each feature has become a draft again
    spent       \* how much of each Budget is used

files   == <<pidFile, holds>>
tables  == <<status, runFeature, runResult>>
work    == <<sel, worker, settled>>
claims  == <<raced, granted, released>>
history == <<overlapped, recycled, claims>>
vars    == <<stage, told, seen, files, inHand, tables, work, history, spent>>

Init ==
    /\ stage = [p \in Pid |-> "free"]
    /\ told = {} /\ seen = [p \in Pid |-> 0]
    /\ pidFile = NoFile /\ holds = {} /\ inHand = 0
    /\ status = [f \in FeatureId |-> "draft"]
    /\ sel = [p \in Pid |-> 0]
    /\ runFeature = [r \in RunId |-> 0]
    /\ runResult = [r \in RunId |-> "none"]
    /\ worker = [r \in RunId |-> 0] /\ settled = {}
    /\ overlapped = FALSE /\ raced = FALSE /\ recycled = FALSE
    /\ granted = [f \in FeatureId |-> 0]
    /\ released = [f \in FeatureId |-> 0]
    /\ spent = [k \in Kind |-> 0]

Spend(kind) ==
    /\ spent[kind] < Budget[kind]
    /\ spent' = [spent EXCEPT ![kind] = @ + 1]

\* Between the guard's answer and the end of WriteFile.
Window  == {"truncate", "write"}

\* A daemon that can claim and run workers.
Polling == {"loop", "insert", "rollback"}

\* From the pid file on, until it is removed.
Working == {"load", "reap", "remove"} \cup Polling

Goto(p, s) == stage' = [stage EXCEPT ![p] = s]

\* The process is gone, and with it all it kept in memory.
Gone(p) ==
    /\ Goto(p, "free")
    /\ told' = told \ {p}
    /\ seen' = [seen EXCEPT ![p] = 0]
    /\ holds' = holds \ {p}
    /\ sel' = [sel EXCEPT ![p] = 0]
    /\ worker' = [r \in RunId |-> IF worker[r] = p THEN 0 ELSE worker[r]]
    /\ settled' = {r \in settled : worker[r] # p}

-----------------------------------------------------------------------------
(* Processes come and go.                                                   *)

\* A new process gets a free pid.  It may be the one of a daemon that has
\* died and that the pid file, or a start that has read it, still names.
Launch(p, s) ==
    /\ stage[p] = "free"
    /\ Goto(p, s)
    /\ recycled' = (recycled \/ p = pidFile \/ \E q \in Pid : seen[q] = p)
    /\ UNCHANGED <<told, seen, files, inHand, tables, work, overlapped, claims>>

LaunchStart(p) == Spend("start") /\ Launch(p, "guard")

LaunchClaim(p) == Spend("other") /\ Launch(p, "hand")

\* Any other program.
LaunchStranger(p) == Spend("other") /\ Launch(p, "other")

StrangerEnds(p) ==
    /\ stage[p] = "other"
    /\ Goto(p, "free")
    /\ UNCHANGED <<told, seen, files, inHand, tables, work, history, spent>>

Crash(p) ==
    /\ stage[p] \notin {"free", "other"}
    /\ Spend("other")
    /\ Gone(p)
    /\ UNCHANGED <<pidFile, inHand, tables, history>>

-----------------------------------------------------------------------------
(* orchestrator start.                                                      *)

\* A start goes on to WriteFile, having read `pid` (or none) in the file.  It
\* overlaps with another one if that has passed too and not written yet, or
\* has written since.
Passes(p, pid) ==
    /\ Goto(p, "truncate")
    /\ overlapped' =
          \/ overlapped
          \/ \E q \in Pid : stage[q] \in Window
          \/ pidFile \in Pid \ {pid}

\* pidExists reads the file: with no file and no number in it, nobody runs.
GuardReads(p) ==
    /\ stage[p] = "guard"
    /\ IF pidFile \in Pid
       THEN /\ seen' = [seen EXCEPT ![p] = pidFile]
            /\ Goto(p, "probe")
            /\ UNCHANGED overlapped
       ELSE Passes(p, 0) /\ UNCHANGED seen
    /\ UNCHANGED <<told, files, inHand, tables, work, recycled, claims, spent>>

\* Mutation: nobody is asked whether the pid is alive.
ToldByFileAlone(pid) == pid # 0

\* Mutation: the guard never says yes.
GuardAsleep(pid) == FALSE

\* Some process answers signal 0, whatever program it is, the one that asks
\* included.
Answers(pid) == stage[pid] # "free"

\* Mutation: the deferred Remove is registered ahead of the guard.
FileRemovedOnRefusal == NoFile

\* The refusal returns ahead of the deferred Remove.
FileAfterRefusal == pidFile

\* ... and then probes the pid it has read.
GuardRefuses(p) ==
    /\ stage[p] = "probe"
    /\ Answers(seen[p])
    /\ Goto(p, "refused")
    /\ seen' = [seen EXCEPT ![p] = 0]
    /\ pidFile' = FileAfterRefusal
    /\ UNCHANGED <<told, holds, inHand, tables, work, history, spent>>

GuardPasses(p) ==
    /\ stage[p] = "probe"
    /\ ~Answers(seen[p])
    /\ Passes(p, seen[p])
    /\ seen' = [seen EXCEPT ![p] = 0]
    /\ UNCHANGED <<told, files, inHand, tables, work, recycled, claims, spent>>

\* os.WriteFile opens the file with O_CREATE and O_TRUNC ...
TruncatePidFile(p) ==
    /\ stage[p] = "truncate"
    /\ Goto(p, "write")
    /\ pidFile' = EmptyFile
    /\ holds' = holds \cup {p}
    /\ UNCHANGED <<told, seen, inHand, tables, work, history, spent>>

\* ... and writes to what it has opened, which somebody may have removed.
\* Two descriptors write at the same offset, pids being equally long.
WritePidFile(p) ==
    /\ stage[p] = "write"
    /\ Goto(p, "load")
    /\ pidFile' = IF p \in holds THEN p ELSE pidFile
    /\ holds' = holds \ {p}
    /\ UNCHANGED <<told, seen, inHand, tables, work, history, spent>>

\* WriteFile fails: start returns, and leaves an empty file if it got so far.
WritePidFileFails(p) ==
    /\ stage[p] \in Window
    /\ Spend("other")
    /\ Goto(p, "refused")
    /\ holds' = holds \ {p}
    /\ UNCHANGED <<told, seen, pidFile, inHand, tables, work, history>>

\* LoadConfigFromDB, NewDaemon and signal.Notify; a failing load gets to the
\* deferred calls ahead of the signals.
LoadConfig(p) ==
    /\ stage[p] = "load"
    /\ \/ Goto(p, "reap") /\ UNCHANGED spent
       \/ Goto(p, "remove") /\ Spend("other")
    /\ UNCHANGED <<told, seen, files, inHand, tables, work, history>>

\* MarkStaleRunsErrored: rows started before the cutoff are the first n.
Reap(p) ==
    /\ stage[p] = "reap"
    /\ Goto(p, "loop")
    /\ \E n \in 0..MaxRuns :
          runResult' = [r \in RunId |->
                           IF r <= n /\ runResult[r] = "running"
                           THEN "error" ELSE runResult[r]]
    /\ UNCHANGED <<told, seen, files, inHand, status, runFeature, work,
                   history, spent>>

\* Run returns once a cancelled daemon has no claim and no worker under way.
RunReturns(p) ==
    /\ stage[p] = "loop" /\ p \in told
    /\ sel[p] = 0
    /\ \A r \in RunId : worker[r] # p
    /\ Goto(p, "remove")
    /\ UNCHANGED <<told, seen, files, inHand, tables, work, history, spent>>

\* The deferred os.Remove, whosever pid the file holds.
RemovePidFile(p) ==
    /\ stage[p] = "remove"
    /\ Goto(p, "close")
    /\ pidFile' = NoFile
    /\ holds' = {}
    /\ UNCHANGED <<told, seen, inHand, tables, work, history, spent>>

\* The database.Close deferred ahead of it, and the end: all the while the
\* process still answers.
CloseDatabase(p) ==
    /\ stage[p] \in {"refused", "close"}
    /\ Goto(p, "free")
    /\ told' = told \ {p}
    /\ UNCHANGED <<seen, files, inHand, tables, work, history, spent>>

-----------------------------------------------------------------------------
(* orchestrator stop: two steps, reading the file and signalling the pid.   *)

StopReads ==
    /\ inHand = 0
    /\ pidFile \in Pid
    /\ Spend("stop")
    /\ inHand' = pidFile
    /\ UNCHANGED <<stage, told, seen, files, tables, work, history>>

\* The daemon has called signal.Notify.
Hears(p) == stage[p] \in {"reap"} \cup Polling \/ p \in told

\* SIGTERM cancels the context of a daemon that hears it, and ends any other
\* process there and then, a daemon on its way there included.
StopSignals ==
    /\ inHand # 0
    /\ IF Hears(inHand)
       THEN told' = told \cup {inHand} /\ UNCHANGED <<stage, seen, holds, work>>
       ELSE Gone(inHand)
    /\ inHand' = 0
    /\ UNCHANGED <<pidFile, tables, history, spent>>

-----------------------------------------------------------------------------
(* The tables.                                                              *)

\* SetFeatureStatus, and the count of the features it makes drafts again.
SetStatus(f, s) ==
    /\ status' = [status EXCEPT ![f] = s]
    /\ released' = [released EXCEPT ![f] =
                       IF s = "draft" /\ status[f] # "draft" THEN @ + 1 ELSE @]

\* `tillr feature status` and `feature done`: a person sets any status.
PersonSetsStatus(f) ==
    /\ Spend("other")
    /\ \E s \in {"draft", "claimed", "final"} : SetStatus(f, s)
    /\ UNCHANGED <<stage, told, seen, files, inHand, runFeature, runResult,
                   work, overlapped, recycled, raced, granted>>

\* Mutation: the SELECT has lost its condition on the status.
ClaimCandidatesAnyStatus == {f \in FeatureId : status[f] # "final"}

\* The WHERE clause of ClaimNextFeature's SELECT.
ClaimCandidates == {f \in FeatureId : status[f] = "draft"}

\* Between the SELECT and the UPDATE of a claim.
Choosing(p) == stage[p] \in {"loop", "hand"} /\ sel[p] # 0

\* The SELECT, by a daemon's tick or by `persona claim`.
SelectFeature(p) ==
    /\ stage[p] \in {"loop", "hand"} /\ sel[p] = 0
    /\ \E f \in ClaimCandidates :
          /\ \A g \in ClaimCandidates : f <= g
          /\ sel' = [sel EXCEPT ![p] = f]
          /\ raced' = (raced \/ \E q \in Pid : Choosing(q) /\ sel[q] = f)
    /\ UNCHANGED <<stage, told, seen, files, inHand, tables, worker, settled,
                   overlapped, recycled, granted, released, spent>>

\* `persona claim` finds nothing to claim, or cannot look.
ClaimNothing(p) ==
    /\ stage[p] = "hand" /\ sel[p] = 0
    /\ \/ ClaimCandidates = {} /\ UNCHANGED spent
       \/ Spend("other")
    /\ Goto(p, "free")
    /\ UNCHANGED <<told, seen, files, inHand, tables, work, history>>

\* The UPDATE, by id alone, and the row read back: the caller now takes the
\* feature for its own.
ClaimFeature(p) ==
    /\ Choosing(p)
    /\ SetStatus(sel[p], "claimed")
    /\ granted' = [granted EXCEPT ![sel[p]] = @ + 1]
    /\ IF stage[p] = "hand"
       THEN Goto(p, "free") /\ sel' = [sel EXCEPT ![p] = 0]
       ELSE Goto(p, "insert") /\ UNCHANGED sel
    /\ UNCHANGED <<told, seen, files, inHand, runFeature, runResult, worker,
                   settled, overlapped, raced, recycled, spent>>

\* The UPDATE fails, or it lands and the row cannot be read back: either way
\* the caller goes on without the feature.
ClaimFails(p) ==
    /\ Choosing(p)
    /\ Spend("other")
    /\ SetStatus(sel[p], "claimed") \/ UNCHANGED <<status, released>>
    /\ Goto(p, IF stage[p] = "hand" THEN "free" ELSE "loop")
    /\ sel' = [sel EXCEPT ![p] = 0]
    /\ UNCHANGED <<told, seen, files, inHand, runFeature, runResult, worker,
                   settled, overlapped, raced, recycled, granted>>

\* startWorker: the next row and its worker ...
StartWorker(p) ==
    /\ stage[p] = "insert"
    /\ \E r \in RunId :
          /\ runResult[r] = "none"
          /\ \A q \in RunId : q < r => runResult[q] # "none"
          /\ runFeature' = [runFeature EXCEPT ![r] = sel[p]]
          /\ runResult' = [runResult EXCEPT ![r] = "running"]
          /\ worker' = [worker EXCEPT ![r] = p]
    /\ sel' = [sel EXCEPT ![p] = 0]
    /\ Goto(p, "loop")
    /\ UNCHANGED <<told, seen, files, inHand, status, settled, history, spent>>

\* ... or no row, and the claim is to be rolled back ...
StartRunFails(p) ==
    /\ stage[p] = "insert"
    /\ Spend("other")
    /\ Goto(p, "rollback")
    /\ UNCHANGED <<told, seen, files, inHand, tables, work, history>>

\* ... by an UPDATE whose own error is dropped.
RollBack(p) ==
    /\ stage[p] = "rollback"
    /\ \/ SetStatus(sel[p], "draft") /\ UNCHANGED spent
       \/ Spend("other") /\ UNCHANGED <<status, released>>
    /\ sel' = [sel EXCEPT ![p] = 0]
    /\ Goto(p, "loop")
    /\ UNCHANGED <<told, seen, files, inHand, runFeature, runResult, worker,
                   settled, overlapped, recycled, raced, granted>>

\* SetFeatureStatus with the final status ...
WorkerSettles(r) ==
    /\ worker[r] # 0 /\ r \notin settled
    /\ \/ SetStatus(runFeature[r], "final") /\ UNCHANGED spent
       \/ Spend("other") /\ UNCHANGED <<status, released>>
    /\ settled' = settled \cup {r}
    /\ UNCHANGED <<stage, told, seen, files, inHand, runFeature, runResult,
                   sel, worker, overlapped, recycled, raced, granted>>

\* ... and FinishOrchestratorRun, by id alone; the worker is gone.
WorkerFinishes(r) ==
    /\ worker[r] # 0 /\ r \in settled
    /\ \/ /\ \E result \in {"completed", "error"} :
                runResult' = [runResult EXCEPT ![r] = result]
          /\ UNCHANGED spent
       \/ Spend("other") /\ UNCHANGED runResult
    /\ worker' = [worker EXCEPT ![r] = 0]
    /\ settled' = settled \ {r}
    /\ UNCHANGED <<stage, told, seen, files, inHand, status, runFeature, sel,
                   history>>

-----------------------------------------------------------------------------
Process(p) ==
    \/ LaunchStart(p) \/ LaunchClaim(p)
    \/ LaunchStranger(p) \/ StrangerEnds(p) \/ Crash(p)
    \/ GuardReads(p) \/ GuardRefuses(p) \/ GuardPasses(p)
    \/ TruncatePidFile(p) \/ WritePidFile(p) \/ WritePidFileFails(p)
    \/ LoadConfig(p) \/ Reap(p) \/ RunReturns(p)
    \/ RemovePidFile(p) \/ CloseDatabase(p)
    \/ SelectFeature(p) \/ ClaimNothing(p) \/ ClaimFeature(p) \/ ClaimFails(p)
    \/ StartWorker(p) \/ StartRunFails(p) \/ RollBack(p)

Next ==
    \/ \E p \in Pid : Process(p)
    \/ StopReads \/ StopSignals
    \/ \E f \in FeatureId : PersonSetsStatus(f)
    \/ \E r \in RunId : WorkerSettles(r) \/ WorkerFinishes(r)

Spec == Init /\ [][Next]_vars

-----------------------------------------------------------------------------
(* Properties.                                                              *)

\* The pid file guard: unless a start passes it on a file that another start
\* is replacing or has replaced, there is never more than one daemon, whatever
\* is killed or stopped on the way.  Orchestrator is about that one.
OneDaemon ==
    ~overlapped =>
        \A p, q \in Pid :
            stage[p] \in Working /\ stage[q] \in Working => p = q

\* ... and `orchestrator stop` can find it: no refused or failed start and no
\* daemon on its way out takes the pid file from under it.
FileNamesDaemon ==
    ~overlapped =>
        \A p \in Pid : stage[p] \in Working => pidFile = p

\* A start calls only runs stale that really have nobody behind them: the row
\* of a live worker stays running until that worker finishes it.
NoLiveRunReaped ==
    ~overlapped =>
        \A r \in RunId : worker[r] # 0 => runResult[r] = "running"

\* db.go of ClaimNextFeature: "Idempotent under concurrent claims".  Each
\* claim that succeeds has the feature to itself, until a rollback or a person
\* makes it a draft again.
ClaimsAreExclusive ==
    \A f \in FeatureId : granted[f] <= 1 + released[f]

\* It is so unless two claimers have the feature selected at the same time:
\* claims that fail half way, rollbacks, edits, deaths and daemons that
\* overlap do not hand it out twice.
ClaimedOnce == ~raced => ClaimsAreExclusive

\* A start is refused because of a daemon: as long as the system has not
\* given the pid it goes by to another process, that is some other process
\* that is one, or has just removed its pid file and is closing its database.
RefusedForADaemon ==
    [][\A p \in Pid :
          stage[p] = "probe" /\ stage'[p] = "refused" /\ ~recycled
              => /\ seen[p] # p
                 /\ stage[seen[p]] \in Working \cup {"close"}]_vars

-----------------------------------------------------------------------------
(* The inductive invariant.                                                 *)

Stage ==
    {"free", "other", "hand", "guard", "probe", "refused", "close"}
        \cup Window \cup Working

TypeOK ==
    /\ stage \in [Pid -> Stage]
    /\ told \in SUBSET Pid
    /\ seen \in [Pid -> Pid \cup {0}]
    /\ pidFile \in Pid \cup {NoFile, EmptyFile}
    /\ holds \in SUBSET Pid
    /\ inHand \in Pid \cup {0}
    /\ status \in [FeatureId -> {"draft", "claimed", "final"}]
    /\ sel \in [Pid -> FeatureId \cup {0}]
    /\ runFeature \in [RunId -> FeatureId \cup {0}]
    /\ runResult \in [RunId -> {"none", "running", "completed", "error"}]
    /\ worker \in [RunId -> Pid \cup {0}]
    /\ settled \in SUBSET RunId
    /\ overlapped \in BOOLEAN /\ raced \in BOOLEAN /\ recycled \in BOOLEAN
    /\ granted \in [FeatureId -> Nat]
    /\ released \in [FeatureId -> Nat]
    /\ spent \in [Kind -> Nat]

\* A start has a pid in hand exactly between its two looks.
SeenByProbers == \A p \in Pid : seen[p] # 0 <=> stage[p] = "probe"

\* A start that has passed the guard is alone until it has written the file,
\* and what it has opened is still the file.
AloneInWindow ==
    ~overlapped =>
        /\ \A p, q \in Pid :
              stage[p] \in Window /\ stage[q] \in Window \cup Working => p = q
        /\ \A p \in Pid : stage[p] = "write" => p \in holds

\* The file names a daemon or a process that is gone, until its pid is given
\* to another one; so do the starts that have read it, but for a daemon that
\* has removed the file in the meantime.
FileNamesNoStranger ==
    ~recycled =>
        /\ pidFile \in Pid => stage[pidFile] \in Working \cup {"free"}
        /\ \A p \in Pid :
              seen[p] # 0 => stage[seen[p]] \in Working \cup {"close", "free"}

\* Workers live in processes that are in their loop, and have a row.
WorkersAtHome ==
    \A r \in RunId : worker[r] # 0 =>
        /\ stage[worker[r]] \in Polling
        /\ runResult[r] # "none"
        /\ runFeature[r] # 0

\* Only a claimer has a feature selected.
SelectedByClaimers ==
    \A p \in Pid :
        /\ sel[p] # 0 => stage[p] \in {"hand"} \cup Polling
        /\ stage[p] \in {"insert", "rollback"} => sel[p] # 0

\* A feature that is a draft, or that somebody has selected to claim, has been
\* given back as often as it was given out; there is one such claimer at most.
SelectedOnce ==
    ~raced =>
        /\ \A p, q \in Pid :
              Choosing(p) /\ Choosing(q) /\ sel[p] = sel[q] => p = q
        /\ \A p \in Pid :
              Choosing(p) => granted[sel[p]] <= released[sel[p]]
        /\ \A f \in FeatureId :
              status[f] = "draft" => granted[f] <= released[f]

Consistent ==
    /\ TypeOK
    /\ SeenByProbers
    /\ AloneInWindow /\ FileNamesDaemon /\ FileNamesNoStranger
    /\ WorkersAtHome /\ NoLiveRunReaped
    /\ SelectedByClaimers /\ SelectedOnce /\ ClaimedOnce
=============================================================================

----------------------- MODULE OrchestratorInvariants -----------------------
(***************************************************************************)
(* The inductive invariant of Orchestrator: what has to be said of the     *)
(* loop, the workers, the drainer and the tables together for the safety   *)
(* properties to follow.  OrchestratorProofs proves it; the safety run     *)
(* checks it on a small instance.                                          *)
(***************************************************************************)
EXTENDS Orchestrator

\* Between two processes nothing is left in memory.
MemoryOfOff ==
    pc = "off" => /\ running = {} /\ ~closed /\ ~cancelled
                  /\ queue = <<>> /\ job = 0 /\ step = "idle"

\* The map holds exactly the runs whose goroutine exists.
MapMatchesWorkers ==
    \A r \in RunId : r \in running <=> stage[r] # "none"

\* The capacity left to tickOnce is really there: only tickOnce adds workers.
Capacity ==
    /\ Cardinality(running) <= MaxParallelism
    /\ pc = "select" =>
           Cardinality(running) + avail <= MaxParallelism
    /\ pc \in {"claim", "insert", "rollback"} =>
           avail > 0 /\ Cardinality(running) + avail <= MaxParallelism

\* The channel is closed once the loop has seen an empty map, and no worker
\* starts after that.
ClosedAfterWorkers ==
    /\ closed <=> pc \in {"join", "exit"}
    /\ closed => running = {}

\* A run's closure is in the channel or with the drainer, once, while its
\* worker waits for it; the drainer's loop body has something to file.
QueueMatchesWorkers ==
    /\ \A i \in DOMAIN queue : stage[queue[i]] = "await" /\ queue[i] # job
    /\ \A i, j \in DOMAIN queue : queue[i] = queue[j] => i = j
    /\ job # 0 => stage[job] = "await" /\ step \notin {"idle", "gone"}
    /\ job = 0 => step \in {"idle", "gone"}
    /\ step = "followups" => todo # <<>>

\* Run rows point at feature rows that exist.
RowsExist ==
    /\ \A r \in RunId : runFeature[r] = 0 <=> runResult[r] = "none"
    /\ \A r \in RunId : runFeature[r] # 0 => status[runFeature[r]] # "absent"
    /\ \A r \in running : runResult[r] # "none"
    /\ pc \in {"claim", "insert", "rollback"} =>
           sel # 0 /\ status[sel] # "absent"

\* A feature that has a run, or is being given one, is not claimable, unless
\* somebody outside made it so; and the feature being claimed has no run yet.
ClaimsAreExclusive ==
    /\ \A r \in RunId :
          runFeature[r] # 0 /\ ~Reopened(runFeature[r])
              => status[runFeature[r]] \notin Claimable
    /\ pc \in {"claim", "insert", "rollback"} /\ ~Reopened(sel)
           => \A r \in RunId : runFeature[r] # sel
    /\ pc = "insert" /\ ~Reopened(sel) => status[sel] \notin Claimable

\* The closure's last statement is behind r.
Settled(r) == stage[r] = "released" \/ (job = r /\ step = "release")

\* The row of a live run stays running until its own closure finishes it,
\* and then has a result unless that statement failed.
RowsFollowWorkers ==
    \A r \in running :
        /\ ~Settled(r) => runResult[r] = "running"
        /\ Settled(r) => runResult[r] \in ResultStatus \/ spent["fault"] > 0

\* Between the closure's last two statements the feature already has the
\* status that belongs to the result about to be written.
StatusBeforeResult ==
    step = "finish" /\ spent["fault"] = 0 /\ ~Touched(runFeature[job])
        => status[runFeature[job]] = FinalStatus(Classify(outcome[job]))

Consistent ==
    /\ MemoryOfOff
    /\ MapMatchesWorkers
    /\ Capacity
    /\ ClosedAfterWorkers
    /\ QueueMatchesWorkers
    /\ RowsExist
    /\ ClaimsAreExclusive
    /\ DispatchedOnce
    /\ RowsFollowWorkers
    /\ NothingStranded
    /\ StatusBeforeResult
    /\ OutcomeAgrees

-----------------------------------------------------------------------------
(* What the workers and the drainer owe each other.                         *)

\* What a closure that stands before statement s has still to write, when n
\* follow-ups have not been filed.
Rest(s, result, n) ==
    CASE s = "context"   -> Script(result)
      [] s = "comment"   -> Optional("comment", result) \o
                               (Filings(Len(result.reply.followUps)) \o Closing)
      [] s = "project"   -> Filings(Len(result.reply.followUps)) \o Closing
      [] s = "followups" -> Filings(n) \o Closing
      [] s = "status"    -> Closing
      [] s = "finish"    -> <<"finish">>
      [] OTHER           -> <<>>

\* Nothing of the run's closure has been applied.
Untouched(r) == stage[r] # "released" /\ job # r

\* As long as no statement fails, what has landed of a block followed by what
\* is left of it is the whole block.
BlockInHand ==
    \A r \in RunId :
        /\ Untouched(r) => landed[r] = <<>>
        /\ spent["fault"] = 0 /\ job = r =>
              landed[r] \o Rest(step, outcome[r], Len(todo))
                 = Script(outcome[r])
        /\ spent["fault"] = 0 /\ stage[r] = "released" =>
              landed[r] = Script(outcome[r])

\* The writes that may have landed before statement s.
WritesBefore(s) ==
    CASE s = "context"               -> {}
      [] s = "comment"               -> {"context"}
      [] s = "project"               -> {"context", "comment"}
      [] s \in {"followups", "status"} -> {"context", "comment", "followup"}
      [] s = "finish"                -> Write \ {"finish"}
      [] OTHER                       -> Write

\* Whatever failed, the block so far is in order, and nothing of it is ahead
\* of the drainer.
BlockInOrder ==
    \A r \in RunId :
        /\ InOrder(landed[r])
        /\ job = r => \A i \in DOMAIN landed[r] :
                         landed[r][i] \in WritesBefore(step)

\* A worker that waits has its closure in the channel or with the drainer; the
\* channel holds no more than it can; the drainer goes after the close.
ChannelDelivers ==
    /\ \A r \in RunId : stage[r] = "await" =>
          job = r \/ \E i \in DOMAIN queue : queue[i] = r
    /\ Len(queue) <= QueueCap
    /\ step = "gone" => closed /\ queue = <<>>

\* All of it: the invariant that is proved.
Invariant ==
    TypeOK /\ Consistent /\ BlockInHand /\ BlockInOrder /\ ChannelDelivers
=============================================================================

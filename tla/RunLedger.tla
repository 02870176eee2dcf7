----------------------------- MODULE RunLedger ------------------------------
(***************************************************************************)
(* What the orchestrator promises of the orchestrator_runs table, without  *)
(* loops, workers, channels or statements: a ledger of runs and the set of *)
(* runs somebody is working on.  Orchestrator implements it.               *)
(***************************************************************************)
EXTENDS Naturals, FiniteSets

CONSTANTS
    RunId,      \* row ids, in the order they are given out
    MaxActive,  \* how many runs may be worked on at once
    Result      \* what a finished row may hold

VARIABLES
    row,        \* "none", "running" or a result
    active,     \* the runs a live worker stands behind
    lossy       \* some statement has failed: rows may be left behind

ledger == <<row, active, lossy>>

Init ==
    /\ row = [r \in RunId |-> "none"]
    /\ active = {}
    /\ lossy = FALSE

\* The next row opens, running, while there is room for one more.
Open(r) ==
    /\ row[r] = "none"
    /\ \A q \in RunId : q < r => row[q] # "none"
    /\ Cardinality(active) < MaxActive
    /\ row' = [row EXCEPT ![r] = "running"]
    /\ active' = active \cup {r}
    /\ UNCHANGED lossy

\* A run that is worked on gets its result, once.
Close(r) ==
    /\ r \in active /\ row[r] = "running"
    /\ \E result \in Result : row' = [row EXCEPT ![r] = result]
    /\ UNCHANGED <<active, lossy>>

\* The worker behind a run leaves, and leaves a result unless a statement
\* has failed.
Retire(r) ==
    /\ r \in active
    /\ row[r] \in Result \/ lossy
    /\ active' = active \ {r}
    /\ UNCHANGED <<row, lossy>>

\* A statement fails.
Lose ==
    /\ lossy' = TRUE
    /\ UNCHANGED <<row, active>>

\* The process dies.
Die ==
    /\ active' = {}
    /\ UNCHANGED <<row, lossy>>

\* A start settles rows nobody works on, and only those.
Reap ==
    /\ active = {}
    /\ \E stale \in SUBSET {r \in RunId : row[r] = "running"} :
          row' = [r \in RunId |-> IF r \in stale THEN "error" ELSE row[r]]
    /\ UNCHANGED <<active, lossy>>

Next ==
    \/ \E r \in RunId : Open(r) \/ Close(r) \/ Retire(r)
    \/ Lose \/ Die \/ Reap

Spec == Init /\ [][Next]_ledger
=============================================================================

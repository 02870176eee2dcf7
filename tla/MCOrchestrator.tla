--------------------------- MODULE MCOrchestrator ---------------------------
(* Small instances of Orchestrator for TLC.                                 *)
EXTENDS OrchestratorInvariants

\* Two personas; as InitialTargets, one feature for each.
AlphaBeta == <<"alpha", "beta">>

\* One feature to begin with; the follow-up it files is the second.
OneFeature == <<"alpha">>

Report(word, writes, followUps) ==
    ClaudeSpawn("exit0",
        [shape |-> "envelope",
         env |-> [structured_output |->
                     [kind |-> "object",
                      reply |-> [result |-> word, writes |-> writes,
                                 followUps |-> followUps]],
                  result |-> [kind |-> "absent", reply |-> NoReply],
                  response |-> [kind |-> "absent", reply |-> NoReply],
                  top |-> NoReply]])

\* A full report with a follow-up for the second persona, and a report that
\* asks for review.
SafetyOutcomes ==
    {Report("completed", {"context", "comment"}, <<"beta">>),
     Report("needs_review", {"comment"}, <<>>)}

SafetyBudget ==
    [crash |-> 2, fault |-> 1, edit |-> 1, add |-> 0, followup |-> 1,
     timeout |-> 0]

\* A child that says nothing: only the two statuses are written.
LiveOutcomes == {ClaudeSpawn("exit0", NoOutput)}

LiveBudget ==
    [crash |-> 0, fault |-> 0, edit |-> 0, add |-> 1, followup |-> 0,
     timeout |-> 1]
=============================================================================

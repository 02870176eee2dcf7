----------------------------- MODULE RunVerdict -----------------------------
(***************************************************************************)
(* One spawn seen from the end of the child process to the two statuses    *)
(* the side-effect closure will write.  Every combination of an ending and *)
(* an output is an initial state; the worker then parses and classifies    *)
(* in two steps, as ClaudeSpawn and buildSideEffects do.                   *)
(***************************************************************************)
EXTENDS RunOutcome

CONSTANTS
    Reply,      \* the decoded Results that can appear under a key
    TopLevel    \* the Results made of an envelope's own top-level fields

ASSUME ReplyAssumption ==
    \A r \in Reply \cup TopLevel :
        /\ DOMAIN r = {"result", "writes", "followUps"}
        /\ r.result \in ResultWord

VARIABLES
    ending,     \* how the child process ended
    stdout,     \* what it printed
    out,        \* <<>> until ClaudeSpawn returns, then <<its result>>
    verdict     \* <<>> until classified, then <<run result, feature status>>

vars == <<ending, stdout, out, verdict>>

Value ==
         {[kind |-> "absent", reply |-> NoReply]}
    \cup {[kind |-> "text", reply |-> [NoReply EXCEPT !.result = w]] :
             w \in ResultWord}
    \cup {[kind |-> "object", reply |-> r] : r \in Reply}

Envelope ==
    [structured_output : Value, result : Value, response : Value,
     top : TopLevel]

Stdout ==
         {NoOutput, [shape |-> "not_json"]}
    \cup {[shape |-> "envelope", env |-> e] : e \in Envelope}

Init ==
    /\ ending \in Ending
    /\ stdout \in Stdout
    /\ ending = "not_started" => stdout = NoOutput
    /\ out = <<>>
    /\ verdict = <<>>

Return ==
    /\ out = <<>>
    /\ out' = <<ClaudeSpawn(ending, stdout)>>
    /\ UNCHANGED <<ending, stdout, verdict>>

Settle ==
    /\ out # <<>>
    /\ verdict = <<>>
    /\ LET run == Classify(out[1])
       IN  verdict' = <<run, FinalStatus(run)>>
    /\ UNCHANGED <<ending, stdout, out>>

Next == Return \/ Settle

Spec == Init /\ [][Next]_vars

-----------------------------------------------------------------------------
\* The statuses stay inside the documented vocabularies.
TypeOK ==
    /\ ending \in Ending
    /\ out # <<>> => out[1].exitCode \in {-1, 0, 1}
    /\ verdict # <<>> => /\ verdict[1] \in ResultStatus
                         /\ verdict[2] \in FinalStatuses

\* The objects an output holds under the keys the parser knows and that
\* carry a result word.
Reports ==
    IF stdout.shape = "envelope"
    THEN {v \in {stdout.env[k] : k \in Key} :
             v.kind = "object" /\ v.reply.result # ""}
    ELSE {}

\* A child that failed never closes its feature, however complete the report
\* it printed before failing: exit code and spawn errors come before the
\* report in buildSideEffects' switch.
FailureIsNeverDone ==
    verdict # <<>> /\ (ending # "exit0" \/ stdout.shape = "not_json")
        => verdict = <<"error", "error">>

\* Free text never shadows a report: when some key holds an object with a
\* result word, what the run is classified by is one of those objects, and
\* structured_output's own whenever it reports.
ReportBeatsText ==
    out # <<>> /\ Reports # {} =>
        /\ out[1].reply \in {v.reply : v \in Reports}
        /\ stdout.env.structured_output \in Reports =>
               out[1].reply = stdout.env.structured_output.reply

\* A persona that says it is blocked, or asks for review, is believed: what a
\* child that exits normally is classified by decides both statuses, and a
\* feature whose child reports a hold under any key ends as done only when an
\* earlier key reports something else (resultStatus starts as completed, so
\* whatever the parser misses would close the feature).
HoldsAreHonoured ==
    /\ verdict # <<>> /\ ending = "exit0" /\ Reports # {}
          => LET word == out[1].reply.result
             IN  /\ word = "blocked" => verdict = <<"blocked", "blocked">>
                 /\ word = "needs_review"
                       => verdict = <<"needs_review", "human-qa">>
    /\ verdict # <<>> /\ Reports # {} =>
          \A i \in DOMAIN KeyOrder :
             /\ verdict[2] = "done"
             /\ stdout.env[KeyOrder[i]] \in Reports
             /\ stdout.env[KeyOrder[i]].reply.result
                   \in {"blocked", "needs_review"}
             => \E j \in DOMAIN KeyOrder :
                   /\ j < i
                   /\ stdout.env[KeyOrder[j]] \in Reports
=============================================================================

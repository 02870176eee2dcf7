----------------------------- MODULE RunOutcome -----------------------------
(***************************************************************************)
(* How one `claude -p` invocation becomes a run result and a feature       *)
(* status: ClaudeSpawn and parseClaudeEnvelope (orchestrator/spawn.go) and *)
(* the classification at the head of buildSideEffects                      *)
(* (orchestrator/orchestrator.go).                                         *)
(*                                                                         *)
(* The data is abstracted to what the classification can tell apart: how   *)
(* the child process ended, whether its standard output is empty, not JSON *)
(* or a JSON object, and for each key the parser looks under, whether the  *)
(* value is missing, a JSON text, or an object and which "result" word it  *)
(* carries.  "other" stands for every word that is not one of the three    *)
(* the persona schema lists.  Costs, tokens and session ids are left out.  *)
(***************************************************************************)
EXTENDS Integers, Sequences

\* A decoded Result (schema.go): the result word, what its non-empty fields
\* give to write (a summary a comment, a context entry an append to the
\* persona's context), and the persona of each titled follow-up.
ResultWord == {"", "completed", "blocked", "needs_review", "other"}

ResultStatus == {"completed", "blocked", "needs_review", "error"}

NoReply ==
    [result |-> "", writes |-> {}, followUps |-> <<>>]

Key == {"structured_output", "result", "response"}

\* The order in which parseClaudeEnvelope tries the keys.
KeyOrder == <<"structured_output", "result", "response">>

-----------------------------------------------------------------------------
(* parseClaudeEnvelope.  An envelope maps each key to                       *)
(* [kind |-> "absent" | "text" | "object", reply |-> a decoded Result]      *)
(* (the reply of a text holds the text as its result word) and has the      *)
(* Result fields found at its own top level under "top".                    *)

\* A value under a key is taken only when it decodes to a Result whose
\* result word is not empty.  A JSON text never decodes to the struct.
Usable(value) == value.kind = "object" /\ value.reply.result # ""

\* The last resort: decode the whole envelope as a Result.  Its result word
\* is then the text under "result"; an object there makes decoding fail.
WholeEnvelope(env) ==
    IF env.result.kind = "text" /\ env.result.reply.result # ""
    THEN [env.top EXCEPT !.result = env.result.reply.result]
    ELSE NoReply

\* Mutation: the fallback is tried first.
ParseTextFirst(env) ==
    IF WholeEnvelope(env) # NoReply
    THEN WholeEnvelope(env)
    ELSE LET usable == {i \in DOMAIN KeyOrder : Usable(env[KeyOrder[i]])}
         IN  IF usable = {}
             THEN NoReply
             ELSE env[KeyOrder[CHOOSE i \in usable : TRUE]].reply

ParseEnvelope(env) ==
    LET usable == {i \in DOMAIN KeyOrder : Usable(env[KeyOrder[i]])}
    IN  IF usable = {}
        THEN WholeEnvelope(env)
        ELSE LET first == CHOOSE i \in usable : \A j \in usable : i <= j
             IN  env[KeyOrder[first]].reply

(* ClaudeSpawn.  "ending" is what cmd.Run reported: a normal exit with code *)
(* 0 or 1, a kill by the deadline or the cancelled context (exit code -1),  *)
(* or no process at all (binary missing, context cancelled before Start).   *)
Ending == {"exit0", "exit1", "killed", "not_started"}

ExitCode(ending) ==
    CASE ending = "exit1"  -> 1
      [] ending = "killed" -> -1
      [] OTHER             -> 0

\* What the spawn returns: spawnError is set when no process ran or when a
\* non-empty output is not JSON; an empty output is no error at all.
ClaudeSpawn(ending, stdout) ==
    LET reply == IF stdout.shape = "envelope" THEN ParseEnvelope(stdout.env)
                                              ELSE NoReply
    IN  [spawnError |-> ending = "not_started" \/ stdout.shape = "not_json",
         exitCode   |-> ExitCode(ending),
         reply      |-> reply]

SpawnedWith(Replies) ==
    [spawnError : BOOLEAN, exitCode : {-1, 0, 1}, reply : Replies]

NoOutput == [shape |-> "empty"]

\* The two results a cancelled context produces: the running child killed,
\* or the child never started.
KilledSpawn     == ClaudeSpawn("killed", NoOutput)
NotStartedSpawn == ClaudeSpawn("not_started", NoOutput)

-----------------------------------------------------------------------------
(* The classification of buildSideEffects.                                  *)

\* Mutation: the report is looked at before the exit code.
ClassifyReportFirst(spawned) ==
    IF spawned.reply.result \in {"completed", "blocked", "needs_review"}
    THEN spawned.reply.result
    ELSE IF spawned.spawnError \/ spawned.exitCode # 0 THEN "error"
                                                       ELSE "completed"

\* Mutation: the needs_review case is missing from the switch.
ClassifyNoReview(spawned) ==
    IF spawned.spawnError \/ spawned.exitCode # 0
    THEN "error"
    ELSE IF spawned.reply.result = "blocked" THEN "blocked" ELSE "completed"

\* resultStatus starts as "completed" and only the listed cases change it.
Classify(spawned) ==
    IF spawned.spawnError \/ spawned.exitCode # 0
    THEN "error"
    ELSE IF spawned.reply.result \in {"blocked", "needs_review"}
         THEN spawned.reply.result
         ELSE "completed"

\* The feature status a run result leads to.
FinalStatus(resultStatus) ==
    CASE resultStatus = "blocked"      -> "blocked"
      [] resultStatus = "needs_review" -> "human-qa"
      [] resultStatus = "error"        -> "error"
      [] OTHER                         -> "done"

FinalStatuses == {"done", "blocked", "human-qa", "error"}
=============================================================================

-------------------------- MODULE RunVerdictProofs --------------------------
(***************************************************************************)
(* What RunVerdict's runs check over one set of reports holds for every    *)
(* set of them.  The invariant behind it (Faithful) says that what the     *)
(* worker holds is what ClaudeSpawn makes of the child's end, and that the *)
(* two statuses are what the classification makes of that; the rest is     *)
(* about the two pure functions.                                           *)
(***************************************************************************)
EXTENDS RunVerdict, TLAPS

Faithful ==
    /\ ending \in Ending
    /\ stdout \in Stdout
    /\ out # <<>> => out = <<ClaudeSpawn(ending, stdout)>>
    /\ verdict # <<>> =>
          /\ out # <<>>
          /\ verdict = <<Classify(out[1]), FinalStatus(Classify(out[1]))>>

LEMMA KeysInOrder ==
    /\ DOMAIN KeyOrder = {1, 2, 3}
    /\ KeyOrder[1] = "structured_output"
    /\ KeyOrder[2] = "result"
    /\ KeyOrder[3] = "response"
    /\ \A k \in Key : \E i \in DOMAIN KeyOrder : KeyOrder[i] = k
  BY DEF KeyOrder, Key

\* When a key can be used, the parser takes the first that can.
LEMMA FirstIsTaken ==
    ASSUME NEW env, \E i \in DOMAIN KeyOrder : Usable(env[KeyOrder[i]])
    PROVE  \E i \in DOMAIN KeyOrder :
              /\ Usable(env[KeyOrder[i]])
              /\ \A j \in DOMAIN KeyOrder : Usable(env[KeyOrder[j]]) => i <= j
              /\ ParseEnvelope(env) = env[KeyOrder[i]].reply
<1> DEFINE usable == {i \in DOMAIN KeyOrder : Usable(env[KeyOrder[i]])}
           first == CHOOSE i \in usable : \A j \in usable : i <= j
<1>1. usable # {} /\ usable \subseteq {1, 2, 3}
  BY KeysInOrder
<1>2. \E i \in usable : \A j \in usable : i <= j
  <2>1. CASE 1 \in usable
    BY <1>1, <2>1
  <2>2. CASE 1 \notin usable /\ 2 \in usable
    BY <1>1, <2>2
  <2>3. CASE 1 \notin usable /\ 2 \notin usable
    BY <1>1, <2>3
  <2>4. QED
    BY <2>1, <2>2, <2>3
<1>3. first \in usable /\ \A j \in usable : first <= j
  <2> HIDE DEF usable
  <2>1. QED
    BY <1>2
<1>4. ParseEnvelope(env) = env[KeyOrder[first]].reply
  BY <1>1 DEF ParseEnvelope
<1> HIDE DEF first
<1>5. QED
  BY <1>3, <1>4

LEMMA Codes ==
    ASSUME NEW e \in Ending
    PROVE  /\ e = "exit0" => ExitCode(e) = 0
           /\ ExitCode(e) = 0 => e \in {"exit0", "not_started"}
  BY DEF ExitCode, Ending

\* When the classification sees a failure.
LEMMA Failures ==
    ASSUME NEW e \in Ending, NEW printed
    PROVE  ClaudeSpawn(e, printed).spawnError
              \/ ClaudeSpawn(e, printed).exitCode # 0
           <=> e # "exit0" \/ printed.shape = "not_json"
<1> DEFINE spawned == ClaudeSpawn(e, printed)
<1>1. spawned.spawnError
         <=> e = "not_started" \/ printed.shape = "not_json"
  BY Zenon DEF ClaudeSpawn
<1>2. spawned.exitCode = ExitCode(e)
  BY DEF ClaudeSpawn
<1>3. e = "not_started" => e # "exit0"
  OBVIOUS
<1>4. spawned.exitCode # 0 => e # "exit0"
  BY <1>2, Codes
<1>5. e # "exit0" => e = "not_started" \/ spawned.exitCode # 0
  BY <1>2, Codes
<1> HIDE DEF ClaudeSpawn
<1>6. QED
  BY <1>1, <1>3, <1>4, <1>5, Zenon

LEMMA Start ==
    Init => Faithful
  BY DEF Init, Faithful

LEMMA Preserved ==
    Faithful /\ [Next]_vars => Faithful'
<1> SUFFICES ASSUME Faithful, [Next]_vars
             PROVE  Faithful'
  OBVIOUS
<1>1. CASE Return
  <2>1. verdict = <<>>
    BY <1>1 DEF Return, Faithful
  <2>2. QED
    BY <1>1, <2>1 DEF Return, Faithful
<1>2. CASE Settle
  BY <1>2 DEF Settle, Faithful
<1>3. CASE UNCHANGED vars
  BY <1>3 DEF vars, Faithful
<1>4. QED
  BY <1>1, <1>2, <1>3 DEF Next

\* What the worker holds, and what it writes, follow from the child's end.
THEOREM Inductive ==
    Spec => []Faithful
  BY Start, Preserved, PTL DEF Spec

\* How a status comes from a run's result, and both from what was spawned.
LEMMA StatusesFit ==
    ASSUME NEW spawned
    PROVE  /\ Classify(spawned) \in ResultStatus
           /\ FinalStatus(Classify(spawned)) \in FinalStatuses
  BY DEF Classify, FinalStatus, ResultStatus, FinalStatuses

\* Every status a run or a feature is given is one of the documented ones.
THEOREM StatusesAreKnown ==
    Spec => []TypeOK
<1>1. Faithful => TypeOK
  <2> SUFFICES ASSUME Faithful
               PROVE  TypeOK
    OBVIOUS
  <2>1. out # <<>> => out[1].exitCode \in {-1, 0, 1}
    BY DEF Faithful, ClaudeSpawn, ExitCode
  <2>2. verdict # <<>> =>
           verdict[1] \in ResultStatus /\ verdict[2] \in FinalStatuses
    BY StatusesFit DEF Faithful
  <2>3. QED
    BY <2>1, <2>2 DEF TypeOK, Faithful
<1>2. QED
  BY <1>1, Inductive, PTL

\* A child that failed ends as an error, whatever it has printed
\* (buildSideEffects: exit code and spawn error come first).
THEOREM FailuresStayFailures ==
    Spec => []FailureIsNeverDone
<1>1. Faithful => FailureIsNeverDone
  <2> SUFFICES ASSUME Faithful, verdict # <<>>,
                      ending # "exit0" \/ stdout.shape = "not_json"
               PROVE  verdict = <<"error", "error">>
    BY DEF FailureIsNeverDone
  <2>1. out[1] = ClaudeSpawn(ending, stdout)
    BY DEF Faithful
  <2>2. out[1].spawnError \/ out[1].exitCode # 0
    BY <2>1, Failures DEF Faithful
  <2>3. Classify(out[1]) = "error"
    BY <2>2 DEF Classify
  <2>4. QED
    BY <2>3 DEF Faithful, FinalStatus
<1>2. QED
  BY <1>1, Inductive, PTL

\* What reports there are stand under keys the parser can use.
LEMMA ReportsAreUsable ==
    ASSUME Reports # {}
    PROVE  /\ stdout.shape = "envelope"
           /\ \E i \in DOMAIN KeyOrder : Usable(stdout.env[KeyOrder[i]])
<1>1. stdout.shape = "envelope"
  BY DEF Reports
<1>2. PICK k \in Key : Usable(stdout.env[k])
  BY <1>1 DEF Reports, Usable
<1>3. QED
  BY <1>1, <1>2, KeysInOrder

\* No text shadows a report, and none shadows structured_output's
\* (parseClaudeEnvelope).
THEOREM ReportsAreFound ==
    Spec => []ReportBeatsText
<1>1. Faithful => ReportBeatsText
  <2> SUFFICES ASSUME Faithful, out # <<>>, Reports # {}
               PROVE  /\ out[1].reply \in {v.reply : v \in Reports}
                      /\ stdout.env.structured_output \in Reports =>
                            out[1].reply = stdout.env.structured_output.reply
    BY DEF ReportBeatsText
  <2> DEFINE env == stdout.env
  <2>1. out[1].reply = ParseEnvelope(env)
    BY ReportsAreUsable DEF Faithful, ClaudeSpawn
  <2>2. PICK i \in DOMAIN KeyOrder :
           /\ Usable(env[KeyOrder[i]])
           /\ \A j \in DOMAIN KeyOrder : Usable(env[KeyOrder[j]]) => i <= j
           /\ ParseEnvelope(env) = env[KeyOrder[i]].reply
    BY ReportsAreUsable, FirstIsTaken
  <2>3. KeyOrder[i] \in Key
    BY <2>2, KeysInOrder DEF Key
  <2>4. env[KeyOrder[i]] \in Reports
    BY <2>2, <2>3, ReportsAreUsable DEF Reports, Usable
  <2>5. ASSUME env.structured_output \in Reports
        PROVE  i = 1
    <3>1. Usable(env[KeyOrder[1]])
      BY <2>5, ReportsAreUsable, KeysInOrder DEF Reports, Usable
    <3>2. QED
      BY <2>2, <3>1, KeysInOrder
  <2>6. QED
    BY <2>1, <2>2, <2>4, <2>5, KeysInOrder
<1>2. QED
  BY <1>1, Inductive, PTL

\* Who reports to be blocked, or to need a review, is taken at its word.
THEOREM HoldsAreKept ==
    Spec => []HoldsAreHonoured
<1>1. ASSUME Faithful, verdict # <<>>, ending = "exit0", Reports # {},
             out[1].reply.result \in {"blocked", "needs_review"}
      PROVE  verdict = <<out[1].reply.result,
                         FinalStatus(out[1].reply.result)>>
  <2>1. out[1] = ClaudeSpawn(ending, stdout)
    BY <1>1 DEF Faithful
  <2>2. ~ (out[1].spawnError \/ out[1].exitCode # 0)
    BY <1>1, <2>1, ReportsAreUsable, Failures DEF Faithful
  <2>3. Classify(out[1]) = out[1].reply.result
    BY <1>1, <2>2 DEF Classify
  <2>4. QED
    BY <1>1, <2>3 DEF Faithful
<1>2. ASSUME Faithful, verdict # <<>>, Reports # {}, verdict[2] = "done",
             NEW i \in DOMAIN KeyOrder,
             stdout.env[KeyOrder[i]] \in Reports,
             stdout.env[KeyOrder[i]].reply.result
                \in {"blocked", "needs_review"}
      PROVE  \E j \in DOMAIN KeyOrder :
                j < i /\ stdout.env[KeyOrder[j]] \in Reports
  <2> DEFINE env == stdout.env
  <2>1. out[1] = ClaudeSpawn(ending, stdout)
    BY <1>2 DEF Faithful
  <2>2. Classify(out[1]) = "completed"
    BY <1>2 DEF Faithful, Classify, FinalStatus
  <2>3. out[1].reply.result \notin {"blocked", "needs_review"}
    BY <2>2 DEF Classify
  <2>4. out[1].reply = ParseEnvelope(env)
    BY <1>2, <2>1, ReportsAreUsable DEF ClaudeSpawn
  <2>5. PICK j \in DOMAIN KeyOrder :
           /\ Usable(env[KeyOrder[j]])
           /\ \A k \in DOMAIN KeyOrder : Usable(env[KeyOrder[k]]) => j <= k
           /\ ParseEnvelope(env) = env[KeyOrder[j]].reply
    BY <1>2, ReportsAreUsable, FirstIsTaken
  <2>6. j <= i
    BY <1>2, <2>5, ReportsAreUsable DEF Reports, Usable
  <2>7. j # i
    BY <1>2, <2>3, <2>4, <2>5
  <2>8. KeyOrder[j] \in Key
    BY <2>5, KeysInOrder DEF Key
  <2>9. env[KeyOrder[j]] \in Reports
    BY <1>2, <2>5, <2>8, ReportsAreUsable DEF Reports, Usable
  <2>10. QED
    BY <2>6, <2>7, <2>9, KeysInOrder
<1>3. Faithful => HoldsAreHonoured
  BY <1>1, <1>2 DEF HoldsAreHonoured, FinalStatus
<1>4. QED
  BY <1>3, Inductive, PTL
=============================================================================

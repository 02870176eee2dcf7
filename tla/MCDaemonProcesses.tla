------------------------- MODULE MCDaemonProcesses -------------------------
(* Three pids: a daemon that goes, and two starts that meet it on its way.  *)
EXTENDS DaemonProcesses, TLC

CONSTANTS a, b, c

MCPid == {a, b, c}

\* Pids are only compared, and a stranger may get any of them.
PidSymmetry == Permutations(MCPid)

MCBudget == [start |-> 3, stop |-> 1, other |-> 2]
=============================================================================

------------------------------ MODULE Settings ------------------------------
(***************************************************************************)
(* The settings `tillr orchestrator start` runs with: the flags, the keys  *)
(* of the config table over them, the defaults under both, and two of the  *)
(* flags once more on top (internal/cli/orchestrator.go,                   *)
(* LoadConfigFromDB and applyDefaults of internal/orchestrator).           *)
(*                                                                         *)
(* A stored text is a member of a small set and Atoi says which of them    *)
(* are numbers.  A duration is an int64: a product wraps around.           *)
(***************************************************************************)
EXTENDS Integers

CONSTANTS
    Text,   \* what a key of the config table may hold
    Unset,  \* the key is not in the table
    Atoi,   \* the numbers among the texts
    True,   \* the texts that switch the dry run on ("true", "1")
    Empty,  \* the empty text
    Second, \* time.Second,
    Minute, \* time.Minute,
    Half    \* and 2^63, in units of a duration

Key == {"max-parallelism", "poll-interval-sec", "claude-binary",
        "worker-timeout-min", "dry-run"}

Table == [Key -> Text \union {Unset}]

ASSUME SettingsAssumption ==
    /\ Unset \notin Text
    /\ DOMAIN Atoi \subseteq Text
    /\ \A v \in DOMAIN Atoi : Atoi[v] \in Int
    /\ True \subseteq Text
    /\ Empty \in Text \ DOMAIN Atoi
    /\ Second \in Nat \ {0}
    /\ Minute \in Nat \ {0}
    /\ Half \in Nat \ {0}
    \* the defaults are durations
    /\ 60 * Minute < Half
    /\ 5 * Second < Half

\* A product of two int64.
Times(n, unit) == ((n * unit + Half) % (2 * Half)) - Half

IsNumber(v) == v \in DOMAIN Atoi

\* What the command line says, before the database is asked.
FromFlags(f) ==
    [max     |-> IF f.max > 0 THEN f.max ELSE 0,
     poll    |-> IF f.poll > 0 THEN Times(f.poll, Second) ELSE 0,
     timeout |-> 0,
     binary  |-> Empty,
     dry     |-> f.dry]

\* LoadConfigFromDB: a key that is there, and a number where one is due,
\* replaces what the flags said.
Overlay(s, t) ==
    [max     |-> IF IsNumber(t["max-parallelism"])
                 THEN Atoi[t["max-parallelism"]] ELSE s.max,
     poll    |-> IF IsNumber(t["poll-interval-sec"])
                 THEN Times(Atoi[t["poll-interval-sec"]], Second) ELSE s.poll,
     timeout |-> IF IsNumber(t["worker-timeout-min"])
                 THEN Times(Atoi[t["worker-timeout-min"]], Minute)
                 ELSE s.timeout,
     binary  |-> IF t["claude-binary"] # Unset
                 THEN t["claude-binary"] ELSE s.binary,
     dry     |-> IF t["dry-run"] # Unset
                 THEN t["dry-run"] \in True ELSE s.dry]

\* applyDefaults; the default binary stands for itself as Unset.
WithDefaults(s) ==
    [s EXCEPT !.max     = IF @ <= 0 THEN 1 ELSE @,
              !.poll    = IF @ <= 0 THEN 5 * Second ELSE @,
              !.timeout = IF @ <= 0 THEN 60 * Minute ELSE @,
              !.binary  = IF @ = Empty THEN Unset ELSE @]

\* Mutation: a dry run asked for on the command line is forgotten.
DryRunLost(s, f) == [s EXCEPT !.max = IF f.max > 0 THEN f.max ELSE @]

\* The flags that are applied once more after the table.
FlagsAgain(s, f) ==
    [s EXCEPT !.max = IF f.max > 0 THEN f.max ELSE @,
              !.dry = @ \/ f.dry]

Effective(f, t) == FlagsAgain(WithDefaults(Overlay(FromFlags(f), t)), f)
=============================================================================

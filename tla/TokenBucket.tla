---------------------------- MODULE TokenBucket ----------------------------
(***************************************************************************)
(* What the rate limiter of internal/server/ratelimit.go promises: every   *)
(* key has a bucket that fills at a steady rate up to its capacity and was *)
(* full in the beginning; a request is admitted exactly when there is a    *)
(* token for it, and takes it.  A bucket that nobody has asked for a whole *)
(* lifetime may be filled at once, and no other.                           *)
(*                                                                         *)
(* Content is counted in drops: a token is Unit drops, and every tick of   *)
(* the clock adds Rate drops.                                              *)
(***************************************************************************)
EXTENDS Integers

CONSTANTS Key, Slot, Unit, Rate, Capacity, Lifetime

VARIABLES
    level,    \* the drops in each bucket
    idle,     \* the ticks since each was asked last, up to Lifetime
    verdict   \* what the limiter last said to each request slot

Init ==
    /\ level = [k \in Key |-> Capacity]
    /\ idle = [k \in Key |-> Lifetime]
    /\ verdict = [s \in Slot |-> "none"]

UpTo(bound, amount) == IF amount > bound THEN bound ELSE amount

Tick ==
    /\ level' = [k \in Key |-> UpTo(Capacity, level[k] + Rate)]
    /\ idle' = [k \in Key |-> UpTo(Lifetime, idle[k] + 1)]
    /\ UNCHANGED verdict

Admit(s, k) ==
    /\ verdict[s] = "none"
    /\ level[k] >= Unit
    /\ level' = [level EXCEPT ![k] = @ - Unit]
    /\ idle' = [idle EXCEPT ![k] = 0]
    /\ verdict' = [verdict EXCEPT ![s] = "yes"]

Refuse(s, k) ==
    /\ verdict[s] = "none"
    /\ level[k] < Unit
    /\ idle' = [idle EXCEPT ![k] = 0]
    /\ verdict' = [verdict EXCEPT ![s] = "no"]
    /\ UNCHANGED level

Answered(s) ==
    /\ verdict' = [verdict EXCEPT ![s] = "none"]
    /\ UNCHANGED <<level, idle>>

Forget(forgotten) ==
    /\ \A k \in forgotten : idle[k] = Lifetime
    /\ level' = [k \in Key |-> IF k \in forgotten THEN Capacity ELSE level[k]]
    /\ UNCHANGED <<idle, verdict>>

Next ==
    \/ Tick
    \/ \E forgotten \in SUBSET Key : Forget(forgotten)
    \/ \E s \in Slot :
          \/ Answered(s)
          \/ \E k \in Key : Admit(s, k) \/ Refuse(s, k)

Spec == Init /\ [][Next]_<<level, idle, verdict>>
=============================================================================

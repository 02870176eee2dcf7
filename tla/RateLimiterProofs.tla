------------------------- MODULE RateLimiterProofs -------------------------
(***************************************************************************)
(* Proofs about RateLimiter, for any requests, times, and positive rate    *)
(* and burst.                                                              *)
(*                                                                         *)
(* Everything rests on what each step does to Level, the content a caller  *)
(* would find in a bucket: the clock adds to it, Allow takes a token from  *)
(* one key's, and the sweep fills what nobody asked for a lifetime.  From  *)
(* that follow the account of the observed key, the promises of the        *)
(* headers and the refinement.                                             *)
(***************************************************************************)
EXTENDS RateLimiter, TLAPS

-----------------------------------------------------------------------------
(* Arithmetic.                                                              *)

\* A step of the clock adds Rate drops: multiplication distributes.
LEMMA OneMoreTick ==
    ASSUME NEW a \in Int, NEW b \in Int, NEW r \in Int
    PROVE  ((a + 1) - b) * r = ((a - b) * r) + r
  BY SMT

\* Seen from the end of a wait.
LEMMA OneTickLess ==
    ASSUME NEW a \in Int, NEW b \in Int, NEW r \in Int
    PROVE  r * (a - b) = (r * (a - (b + 1))) + r
  BY SMT

\* Time that has passed adds no negative amount, and more time adds more.
LEMMA MoreTime ==
    ASSUME NEW a \in Nat, NEW b \in Nat, NEW r \in Nat, a <= b
    PROVE  a * r \in Nat /\ b * r \in Nat /\ a * r <= b * r
  BY SMT

\* Multiplication is associative and commutative.
LEMMA Reassociate ==
    ASSUME NEW a \in Int, NEW b \in Int, NEW c \in Int
    PROVE  a * (b * c) = b * (a * c)
  BY SMT

\* A factor distributes over a sum and keeps an order.
LEMMA Distribute ==
    ASSUME NEW a \in Int, NEW b \in Int, NEW c \in Int
    PROVE  a * (b + c) = (a * b) + (a * c)
  BY SMT

LEMMA Monotone ==
    ASSUME NEW a \in Nat, NEW b \in Int, NEW c \in Int, b <= c
    PROVE  a * b \in Int /\ a * c \in Int /\ a * b <= a * c
  BY SMT

\* A full bucket holds a natural number of drops, at least a token.
LEMMA CapacityType == Capacity \in Nat /\ Unit <= Capacity
  BY LimiterAssumption, SMT DEF Capacity

\* A lifetime brings what the rate brings in it, and at least a new bucket.
LEMMA GainType ==
    /\ Lifetime \in Nat \ {0} /\ Gain \in Nat
    /\ Lifetime * Rate <= Gain /\ Lifetime * Rate \in Nat /\ Capacity <= Gain
  <1>1. Lifetime \in Nat \ {0}
    BY LimiterAssumption DEF Lifetime
  <1>2. Lifetime * Rate \in Nat
    BY <1>1, MoreTime, LimiterAssumption
  <1>3. Gain \in Nat /\ Lifetime * Rate <= Gain /\ Capacity <= Gain
    <2> DEFINE refills == Lifetime * Rate
    <2> HIDE DEF refills
    <2>1. refills \in Nat
      BY <1>2 DEF refills
    <2>2. Gain = IF refills >= Capacity THEN refills ELSE Capacity
      BY DEF refills, Gain, FullWhenStale
    <2>3. Gain \in Nat /\ refills <= Gain /\ Capacity <= Gain
      BY <2>1, <2>2, CapacityType
    <2> QED BY <2>3 DEF refills
  <1> QED BY <1>1, <1>2, <1>3

-----------------------------------------------------------------------------
(* What Level is, and what each step does to it.                            *)

\* A bucket in use is never below zero or above its capacity.
LEMMA RefilledType ==
    ASSUME TypeOK, InThePast, NEW k \in Key
    PROVE  /\ (now - lastRefill[k]) * Rate \in Nat
           /\ Refilled(k) \in 0..Capacity
  <1>1. now - lastRefill[k] \in Nat /\ tokens[k] \in 0..Capacity
    BY DEF TypeOK, InThePast
  <1>2. (now - lastRefill[k]) * Rate \in Nat
    BY <1>1, MoreTime, LimiterAssumption
  <1>3. Refilled(k) \in 0..Capacity
    BY <1>1, <1>2, CapacityType DEF Refilled
  <1> QED BY <1>2, <1>3

\* So is what a caller finds, whether there is a bucket or not.
LEMMA LevelType ==
    ASSUME TypeOK, InThePast, NEW k \in Key
    PROVE  Level(k) \in 0..Capacity
  BY RefilledType, CapacityType DEF Level

\* A second look at the same time finds the same.
LEMMA SameLevel ==
    ASSUME UNCHANGED <<now, bucketVars>>, NEW k
    PROVE  Level(k)' = Level(k)
  BY DEF bucketVars, Level, Refilled

\* What the clock does to a bucket.
LEMMA TickLevel ==
    ASSUME TypeOK, InThePast, Tick, NEW k \in Key
    PROVE  Level(k)' = Limiter!UpTo(Capacity, Level(k) + Rate)
  <1>1. /\ buckets' = buckets /\ tokens' = tokens
        /\ lastRefill' = lastRefill /\ now' = now + 1
    BY DEF Tick, bucketVars
  <1>2. now \in Int /\ lastRefill[k] \in Int /\ tokens[k] \in Int
    BY DEF TypeOK
  <1>3. (now' - lastRefill[k]) * Rate = ((now - lastRefill[k]) * Rate) + Rate
    <2>1. Rate \in Int
      BY LimiterAssumption
    <2>2. ((now + 1) - lastRefill[k]) * Rate
             = ((now - lastRefill[k]) * Rate) + Rate
      BY <1>2, <2>1, OneMoreTick
    <2> QED BY <1>1, <2>2
  <1>4. CASE k \in buckets
    <2> DEFINE grown == (now - lastRefill[k]) * Rate
    <2>1. grown \in Nat
      BY RefilledType
    <2>2. Level(k)' = Limiter!UpTo(Capacity, tokens[k] + (grown + Rate))
      BY <1>1, <1>3, <1>4 DEF Level, Refilled, Limiter!UpTo
    <2>3. Level(k) = Limiter!UpTo(Capacity, tokens[k] + grown)
      BY <1>4 DEF Level, Refilled, Limiter!UpTo
    <2> HIDE DEF grown
    <2> QED BY <1>2, <2>1, <2>2, <2>3, CapacityType, LimiterAssumption DEF Limiter!UpTo
  <1>5. CASE k \notin buckets
    BY <1>1, <1>5, CapacityType, LimiterAssumption DEF Level, Limiter!UpTo
  <1> QED BY <1>4, <1>5

\* A bucket the sweep forgets has not been asked for a lifetime.
LEMMA StaleForALifetime ==
    ASSUME TypeOK, NEW k \in Key, Stale(k)
    PROVE  lastRefill[k] + Lifetime <= now
  <1>1. now \in Nat /\ lastRefill[k] \in Nat /\ StaleAfter \in Nat
    BY LimiterAssumption DEF TypeOK
  <1> QED BY <1>1 DEF Stale, Lifetime

\* If a lifetime fills a bucket, one that the sweep forgets is full.
LEMMA StaleIsFull ==
    ASSUME TypeOK, InThePast, FullWhenStale, NEW k \in Key, Stale(k)
    PROVE  Refilled(k) = Capacity
  <1>1. /\ now \in Nat /\ lastRefill[k] \in Nat /\ Lifetime \in Nat
        /\ tokens[k] \in 0..Capacity
    BY GainType DEF TypeOK
  <1>2. Lifetime <= now - lastRefill[k]
    BY <1>1, StaleForALifetime
  <1>3. /\ Lifetime * Rate <= (now - lastRefill[k]) * Rate
        /\ Lifetime * Rate \in Nat /\ (now - lastRefill[k]) * Rate \in Nat
    BY <1>1, <1>2, MoreTime, LimiterAssumption
  <1> QED BY <1>1, <1>3, CapacityType DEF FullWhenStale, Refilled

\* What is forgotten is as good as full from then on.
LEMMA SweepLevel ==
    ASSUME TypeOK, InThePast, Sweep, NEW k \in Key
    PROVE  Level(k)' = IF k \in buckets /\ Stale(k) THEN Capacity ELSE Level(k)
  <1> DEFINE stale == {x \in buckets : Stale(x)}
  <1>1. /\ now' = now /\ buckets' = buckets \ stale
        /\ tokens' = [x \in Key |-> IF x \in stale THEN 0 ELSE tokens[x]]
        /\ lastRefill' = [x \in Key |-> IF x \in stale THEN 0 ELSE lastRefill[x]]
    BY DEF Sweep
  <1>2. CASE k \in stale
    <2>1. Level(k)' = Capacity
      BY <1>1, <1>2 DEF Level
    <2> QED BY <1>2, <2>1
  <1>3. CASE k \notin stale
    <2>1. /\ (k \in buckets') = (k \in buckets) /\ tokens'[k] = tokens[k]
          /\ lastRefill'[k] = lastRefill[k]
      BY <1>1, <1>3
    <2> QED BY <1>1, <1>3, <2>1 DEF Level, Refilled
  <1> QED BY <1>2, <1>3

\* Just after its refill a bucket holds what was put into it.
LEMMA AllowLevel ==
    ASSUME TypeOK, InThePast, NEW s \in Slot, Allow(s), NEW k \in Key
    PROVE  Level(k)' = IF k = key[s] /\ Enough(k) THEN Level(k) - Unit
                       ELSE Level(k)
  <1>1. pc[s] = "asking" /\ key[s] \in Key
    BY DEF Allow, TypeOK
  <1>2. /\ now' = now /\ buckets' = buckets \cup {key[s]}
        /\ lastRefill' = [lastRefill EXCEPT ![key[s]] = now]
        /\ tokens' = [tokens EXCEPT ![key[s]] = IF Enough(key[s])
                                                THEN Level(key[s]) - Unit
                                                ELSE Level(key[s])]
    BY DEF Allow, Stamp
  <1>3. lastRefill \in [Key -> Nat] /\ tokens \in [Key -> 0..Capacity] /\ now \in Nat
    BY DEF TypeOK
  <1>4. CASE k = key[s]
    <2>1. k \in buckets' /\ lastRefill'[k] = now
      BY <1>2, <1>3, <1>4
    <2>2. tokens'[k] = IF Enough(k) THEN Level(k) - Unit ELSE Level(k)
      BY <1>2, <1>3, <1>4
    <2>3. Level(k) \in 0..Capacity
      BY LevelType
    <2>4. (now' - lastRefill'[k]) * Rate = 0
      BY <1>2, <1>3, <2>1, LimiterAssumption
    <2>5. tokens'[k] <= Capacity /\ tokens'[k] \in Int
      BY <2>2, <2>3, CapacityType, LimiterAssumption
    <2>6. Level(k)' = tokens'[k]
      BY <2>1, <2>4, <2>5, CapacityType DEF Level, Refilled, Capacity
    <2> QED BY <1>4, <2>2, <2>6
  <1>5. CASE k # key[s]
    <2>1. /\ (k \in buckets') = (k \in buckets)
          /\ lastRefill'[k] = lastRefill[k] /\ tokens'[k] = tokens[k]
      BY <1>2, <1>3, <1>5
    <2> QED BY <1>2, <1>5, <2>1 DEF Level, Refilled
  <1> QED BY <1>4, <1>5

-----------------------------------------------------------------------------
(* The invariant.                                                           *)

LEMMA InitConsistent == Init => Consistent
  <1> SUFFICES ASSUME Init PROVE Consistent
    OBVIOUS
  <1>1. TypeOK
    <2>1. tokens \in [Key -> 0..Capacity] /\ lastRefill \in [Key -> Nat]
      BY CapacityType DEF Init
    <2>2. promise \in [count : 0..Burst, at : Nat]
      BY LimiterAssumption DEF Init, NoPromise
    <2>3. /\ key \in [Slot -> Key \cup {NoKey}]
          /\ pc \in [Slot -> {"idle", "asking", "admitted", "counted",
                              "refused", "warned"}]
          /\ \A s \in Slot : pc[s] # "idle" => key[s] \in Key
      BY DEF Init
    <2> QED BY <2>1, <2>2, <2>3 DEF Init, TypeOK
  <1>2. InThePast
    BY DEF Init, InThePast
  <1>3. Level(Watched) = Capacity
    BY DEF Init, Level
  <1>4. Accounted
    <2>1. now = 0 /\ since = 0 /\ admitted = 0
      BY DEF Init
    <2>2. (Unit * 0 + Capacity) - Capacity = 0
      BY CapacityType, LimiterAssumption
    <2>3. Lifetime * 0 <= Gain * (0 - 0)
      BY GainType
    <2> QED BY <1>3, <2>1, <2>2, <2>3 DEF Accounted
  <1>5. Growing
    BY <1>3, CapacityType, LimiterAssumption DEF Init, Growing, NoPromise
  <1> QED BY <1>1, <1>2, <1>4, <1>5 DEF Consistent

\* The types and the times, step by step.
LEMMA ArriveTypes ==
    ASSUME TypeOK, InThePast, NEW s \in Slot, NEW r \in Request, Arrive(s, r)
    PROVE  TypeOK' /\ InThePast'
  <1>1. rateLimitKey(r) \in Key
    BY DEF Key
  <1> QED BY <1>1 DEF TypeOK, InThePast, Arrive, bucketVars, sweepVars, watchVars

LEMMA AllowTypes ==
    ASSUME TypeOK, InThePast, NEW s \in Slot, Allow(s)
    PROVE  TypeOK' /\ InThePast'
  <1>1. key[s] \in Key /\ pc[s] = "asking"
    BY DEF TypeOK, Allow
  <1>2. Level(key[s]) \in 0..Capacity
    BY <1>1, LevelType
  <1>3. tokens' \in [Key -> 0..Capacity]
    <2>1. CASE Enough(key[s])
      <3>1. Level(key[s]) - Unit \in 0..Capacity
        BY <1>2, <2>1, CapacityType, LimiterAssumption DEF Enough
      <3> QED BY <1>1, <2>1, <3>1 DEF TypeOK, Allow
    <2>2. CASE ~Enough(key[s])
      BY <1>1, <1>2, <2>2 DEF TypeOK, Allow
    <2> QED BY <2>1, <2>2
  <1>4. buckets' \subseteq Key /\ now' = now /\ since' = since /\ key' = key
    BY <1>1 DEF TypeOK, Allow
  <1>5. lastRefill' \in [Key -> Nat] /\ \A k \in Key : lastRefill'[k] <= now
    BY <1>1 DEF TypeOK, InThePast, Allow, Stamp
  <1>6. /\ promise' \in [count : 0..Burst, at : Nat]
        /\ admitted' \in Nat
    BY LimiterAssumption DEF TypeOK, Allow, NoPromise
  <1>7. /\ pc' \in [Slot -> {"idle", "asking", "admitted", "counted", "refused",
                              "warned"}]
        /\ \A t \in Slot : pc'[t] # "idle" => key'[t] \in Key
    BY <1>1, <1>4 DEF TypeOK, Allow
  <1>8. due' = due /\ cleanup' = cleanup /\ observer' = observer
    BY DEF Allow, sweepVars
  <1>9. TypeOK'
    BY <1>3, <1>4, <1>5, <1>6, <1>7, <1>8 DEF TypeOK
  <1> QED BY <1>4, <1>5, <1>9 DEF InThePast

LEMMA SweepTypes ==
    ASSUME TypeOK, InThePast, Sweep
    PROVE  TypeOK' /\ InThePast'
  <1>1. /\ tokens' \in [Key -> 0..Capacity] /\ lastRefill' \in [Key -> Nat]
        /\ \A k \in Key : lastRefill'[k] <= now
    BY CapacityType DEF TypeOK, InThePast, Sweep
  <1> QED BY <1>1 DEF TypeOK, InThePast, Sweep, slotVars, watchVars

\* A header that is kept is one the types allow.
LEMMA HeaderTypes ==
    ASSUME TypeOK, InThePast, NEW s \in Slot,
           Remaining(s) \/ RetryAfter(s) \/ SetReset(s)
    PROVE  /\ TypeOK' /\ InThePast'
           /\ UNCHANGED <<now, bucketVars, since, admitted>>
  <1>1. UNCHANGED <<now, bucketVars, sweepVars, observer, since, admitted>>
    BY DEF Remaining, RetryAfter, SetReset, ResetTime, Promise
  <1>2. promise' \in [count : 0..Burst, at : Nat]
    <2>1. now \in Nat /\ Second \in Nat /\ 1 \in 0..Burst /\ Burst \in 0..Burst
      BY LimiterAssumption DEF TypeOK
    <2>2. \A n \in Nat : n * Second \in Nat /\ (n + 1) * Second \in Nat
      BY <2>1, MoreTime
    <2>3. CASE Remaining(s)
      BY <2>1, <2>3 DEF Remaining, Promise, TypeOK
    <2>4. CASE RetryAfter(s)
      <3>1. PICK n \in Nat : \/ promise' = promise
                             \/ promise' = [count |-> 1, at |-> now]
                             \/ promise' = [count |-> 1, at |-> now + n * Second]
        BY <2>4, LimiterAssumption DEF RetryAfter, Promise
      <3>2. now + n * Second \in Nat
        BY <2>1, <2>2
      <3> QED BY <2>1, <3>1, <3>2 DEF TypeOK
    <2>5. CASE SetReset(s)
      <3>1. now + Capacity \in Nat
        BY <2>1, CapacityType
      <3>2. PICK n \in 0..(now + Capacity) :
                \/ promise' = promise
                \/ promise' = [count |-> Burst, at |-> (n + 1) * Second]
        <4>1. PICK n \in 0..(now + Capacity) : Promise(s, Burst, (n + 1) * Second)
          BY <2>5 DEF SetReset, ResetTime
        <4> QED BY <4>1 DEF Promise
      <3>3. n \in Nat
        BY <3>1
      <3> QED BY <2>1, <2>2, <3>2, <3>3 DEF TypeOK
    <2> QED BY <2>3, <2>4, <2>5
  <1>3. /\ pc' \in [Slot -> {"idle", "asking", "admitted", "counted", "refused",
                              "warned"}]
        /\ key' \in [Slot -> Key \cup {NoKey}]
        /\ \A t \in Slot : pc'[t] # "idle" => key'[t] \in Key
    <2>1. CASE Remaining(s)
      BY <2>1 DEF Remaining, TypeOK
    <2>2. CASE RetryAfter(s)
      BY <2>2 DEF RetryAfter, TypeOK
    <2>3. CASE SetReset(s)
      BY <2>3 DEF SetReset, TypeOK
    <2> QED BY <2>1, <2>2, <2>3
  <1>4. TypeOK'
    BY <1>1, <1>2, <1>3 DEF TypeOK, bucketVars, sweepVars
  <1>5. InThePast'
    BY <1>1 DEF InThePast, bucketVars
  <1> QED BY <1>1, <1>4, <1>5

-----------------------------------------------------------------------------
(* The two accounts, step by step.                                          *)

\* A step that leaves the buckets, the clock and the observer alone.
LEMMA AccountsUntouched ==
    ASSUME Consistent, UNCHANGED <<now, bucketVars, watchVars>>
    PROVE  Accounted' /\ Growing'
  <1>1. Level(Watched)' = Level(Watched)
    BY SameLevel
  <1>2. /\ now' = now /\ since' = since /\ admitted' = admitted
        /\ promise' = promise /\ buckets' = buckets /\ lastRefill' = lastRefill
    BY DEF watchVars, bucketVars
  <1> QED BY <1>1, <1>2 DEF Consistent, Accounted, Growing

LEMMA TickAccounts ==
    ASSUME Consistent, Tick
    PROVE  Accounted' /\ Growing'
  <1> DEFINE level == Level(Watched)
  <1>1. TypeOK /\ InThePast /\ Watched \in Key
    BY WatchedAssumption DEF Consistent
  <1>2. level \in 0..Capacity /\ Level(Watched)' = Limiter!UpTo(Capacity, level + Rate)
    BY <1>1, LevelType, TickLevel
  <1>3. /\ now' = now + 1 /\ since' = since /\ admitted' = admitted
        /\ promise' = promise
    BY DEF Tick, watchVars
  <1>4. /\ now \in Nat /\ since \in Nat /\ since <= now /\ admitted \in Nat
        /\ Rate \in Nat /\ Unit \in Nat /\ Capacity \in Nat
        /\ promise.at \in Nat /\ promise.count \in 0..Burst
    BY <1>1, CapacityType, LimiterAssumption DEF TypeOK, InThePast
  <1> HIDE DEF level
  <1>5. Accounted'
    <2> DEFINE before == (Unit * admitted + level) - Capacity
               after  == (Unit * admitted + Level(Watched)') - Capacity
    <2>1. Lifetime * before <= Gain * (now - since)
      BY DEF Consistent, Accounted, level
    <2>2. before \in Int /\ after \in Int /\ after <= before + Rate
      <3>1. Level(Watched)' \in Int /\ Level(Watched)' <= level + Rate
        BY <1>2, <1>4 DEF Limiter!UpTo
      <3> QED BY <1>2, <1>4, <3>1
    <2> HIDE DEF before, after
    <2>3. /\ Lifetime * after <= Lifetime * (before + Rate)
          /\ Lifetime * (before + Rate) = (Lifetime * before) + (Lifetime * Rate)
          /\ Lifetime * after \in Int /\ Lifetime * before \in Int
      <3>1. before + Rate \in Int /\ Rate \in Int /\ Lifetime \in Nat
        BY <1>4, <2>2, GainType
      <3> QED BY <2>2, <3>1, Monotone, Distribute
    <2>4. /\ Gain * ((now + 1) - since) = (Gain * (now - since)) + Gain
          /\ Gain * (now - since) \in Int
      <3>1. now - since \in Int /\ Gain \in Int /\ (now + 1) - since = (now - since) + 1
        BY <1>4, GainType
      <3> QED BY <3>1, Distribute
    <2>5. Lifetime * after <= Gain * ((now + 1) - since)
      BY <2>1, <2>3, <2>4, GainType
    <2>6. buckets' = buckets /\ lastRefill' = lastRefill
      BY DEF Tick, bucketVars
    <2> QED BY <1>3, <2>5, <2>6 DEF Consistent, Accounted, after
  <1>6. Growing'
    <2> DEFINE owed == promise.count * Unit
    <2>1. owed \in Nat /\ owed <= Capacity
      BY <1>4, MoreTime, LimiterAssumption DEF Capacity
    <2>2. CASE promise.at <= now
      <3>1. level >= owed
        BY <2>2 DEF Consistent, Growing, level
      <3>2. Level(Watched)' >= owed
        BY <1>2, <1>4, <2>1, <3>1 DEF Limiter!UpTo
      <3> QED BY <1>3, <1>4, <2>2, <3>2 DEF Growing
    <2>3. CASE promise.at > now
      <3>1. level + Rate * (promise.at - now) >= owed
        BY <1>4, <2>3 DEF Consistent, Growing, level
      <3>2. Rate * (promise.at - now) = Rate * (promise.at - (now + 1)) + Rate
        <4>1. promise.at \in Int /\ now \in Int /\ Rate \in Int
          BY <1>4
        <4> QED BY <4>1, OneTickLess
      <3>3. Rate * (promise.at - (now + 1)) \in Nat
        BY <1>4, <2>3, MoreTime
      <3> DEFINE rest == Rate * (promise.at - (now + 1))
      <3>4. Level(Watched)' + rest >= owed
        <4> HIDE DEF rest, owed
        <4> QED BY <1>2, <1>4, <2>1, <3>1, <3>2, <3>3 DEF Limiter!UpTo, rest
      <3>5. CASE promise.at = now + 1
        <4>1. rest = 0
          BY <1>4, <3>5
        <4>2. Level(Watched)' \in Int
          BY <1>2, <1>4 DEF Limiter!UpTo
        <4>3. Level(Watched)' >= owed
          <5> HIDE DEF rest, owed
          <5> QED BY <2>1, <3>4, <4>1, <4>2
        <4> QED BY <1>3, <1>4, <3>5, <4>3 DEF Growing
      <3>6. CASE promise.at > now + 1
        BY <1>3, <1>4, <3>4, <3>6 DEF Growing
      <3> QED BY <1>4, <2>3, <3>5, <3>6
    <2> QED BY <1>4, <2>2, <2>3
  <1> QED BY <1>5, <1>6

LEMMA AllowAccounts ==
    ASSUME Consistent, NEW s \in Slot, Allow(s)
    PROVE  Accounted' /\ Growing'
  <1> DEFINE level == Level(Watched)
  <1>1. TypeOK /\ InThePast /\ Watched \in Key
    BY WatchedAssumption DEF Consistent
  <1>2. /\ level \in 0..Capacity
        /\ Level(Watched)' = IF Watched = key[s] /\ Enough(Watched)
                             THEN level - Unit ELSE level
    BY <1>1, LevelType, AllowLevel
  <1>3. now' = now /\ since' = since
    BY DEF Allow
  <1>4. /\ now \in Nat /\ since \in Nat /\ admitted \in Nat /\ Rate \in Nat
        /\ Unit \in Nat /\ Capacity \in Nat
    BY <1>1, CapacityType, LimiterAssumption DEF TypeOK
  <1>5. ASSUME Watched = key[s] /\ Enough(Watched)
      PROVE  /\ Growing' /\ admitted' \in Nat
             /\ Unit * admitted' + Level(Watched)' <= Unit * admitted + level
    <2>1. /\ admitted' \in {admitted, admitted + 1}
          /\ promise' = NoPromise
      BY <1>5 DEF Allow
    <2>2. level >= Unit /\ Level(Watched)' = level - Unit
      BY <1>2, <1>5 DEF Enough
    <2>3. Growing'
      BY <1>2, <1>3, <1>4, <2>1, <2>2 DEF Growing, NoPromise
    <2>4. Unit * (admitted + 1) = Unit * admitted + Unit
      BY <1>4
    <2>5. Unit * admitted' + Level(Watched)' <= Unit * admitted + level
      <3> HIDE DEF level
      <3>1. CASE admitted' = admitted
        BY <1>2, <1>4, <2>2, <3>1
      <3>2. CASE admitted' = admitted + 1
        BY <1>2, <1>4, <2>2, <2>4, <3>2
      <3> QED BY <2>1, <3>1, <3>2
    <2> QED BY <1>4, <1>5, <2>1, <2>3, <2>5
  <1>6. ASSUME ~(Watched = key[s] /\ Enough(Watched))
      PROVE  /\ Growing' /\ admitted' \in Nat
             /\ Unit * admitted' + Level(Watched)' <= Unit * admitted + level
    <2>1. admitted' = admitted /\ promise' = promise
      BY <1>6 DEF Allow
    <2>2. Level(Watched)' = level
      BY <1>2, <1>6
    <2>3. Growing'
      BY <1>3, <2>1, <2>2 DEF Consistent, Growing
    <2>4. Unit * admitted + level \in Int
      BY <1>2, <1>4
    <2> HIDE DEF level
    <2> QED BY <1>4, <2>1, <2>2, <2>3, <2>4
  <1>7. /\ Growing' /\ admitted' \in Nat
        /\ Unit * admitted' + Level(Watched)' <= Unit * admitted + level
        /\ Watched # key[s] => admitted' = admitted
    <2>1. Watched # key[s] => admitted' = admitted
      BY DEF Allow
    <2> QED BY <1>5, <1>6, <2>1
  <1> DEFINE before == (Unit * admitted + level) - Capacity
             after  == (Unit * admitted' + Level(Watched)') - Capacity
             taken  == Unit * admitted' - Capacity
  <1>8. before \in Int /\ after \in Int /\ after <= before
        /\ taken \in Int /\ taken <= after
    <2>1. Unit * admitted \in Int /\ Unit * admitted' \in Int
      BY <1>4, <1>7
    <2>2. Level(Watched)' \in Nat /\ level \in Int
      <3>1. Enough(Watched) => level >= Unit
        BY DEF Enough
      <3> HIDE DEF level
      <3> QED BY <1>2, <1>4, <3>1
    <2> HIDE DEF level
    <2> QED BY <1>4, <1>7, <2>1, <2>2
  <1>9. Lifetime * before <= Gain * (now - since)
    BY DEF Consistent, Accounted
  <1> HIDE DEF before, after, taken
  <1>10. Lifetime * after <= Gain * (now - since)
         /\ Lifetime * taken <= Gain * (now - since)
    <2>1. Lifetime \in Nat
      BY GainType
    <2>2. /\ Lifetime * after <= Lifetime * before
          /\ Lifetime * taken <= Lifetime * after
          /\ Lifetime * before \in Int /\ Lifetime * after \in Int
          /\ Lifetime * taken \in Int
      BY <1>8, <2>1, Monotone
    <2>3. Gain * (now - since) \in Int
      BY <1>4, GainType
    <2> QED BY <1>9, <2>2, <2>3
  <1>11. CASE Watched = key[s]
    <2>1. lastRefill'[Watched] = now
      BY <1>1, <1>11 DEF Allow, Stamp, TypeOK
    <2> QED BY <1>3, <1>7, <1>10, <2>1 DEF Accounted, after, taken
  <1>12. CASE Watched # key[s]
    <2>1. /\ (Watched \in buckets') = (Watched \in buckets)
          /\ lastRefill'[Watched] = lastRefill[Watched] /\ admitted' = admitted
      BY <1>1, <1>7, <1>12 DEF Allow, TypeOK
    <2> QED BY <1>3, <1>7, <1>10, <2>1 DEF Consistent, Accounted, after
  <1> QED BY <1>11, <1>12

\* The sweep: what a new bucket brings took a lifetime to earn.
LEMMA SweepAccounts ==
    ASSUME Consistent, Sweep
    PROVE  Accounted' /\ Growing'
  <1>1. TypeOK /\ InThePast /\ Watched \in Key
    BY WatchedAssumption DEF Consistent
  <1>2. /\ now' = now /\ since' = since /\ admitted' = admitted
        /\ promise' = promise
        /\ buckets' = buckets \ {k \in buckets : Stale(k)}
    BY DEF Sweep, watchVars
  <1>3. Level(Watched)' = IF Watched \in buckets /\ Stale(Watched)
                          THEN Capacity ELSE Level(Watched)
    BY <1>1, SweepLevel
  <1>4. /\ now \in Nat /\ since \in Nat /\ since <= now /\ admitted \in Nat
        /\ Rate \in Nat /\ Unit \in Nat /\ Capacity \in Nat
        /\ promise.at \in Nat /\ promise.count \in 0..Burst
        /\ lastRefill[Watched] \in Nat /\ Level(Watched) \in 0..Capacity
    BY <1>1, CapacityType, LevelType, LimiterAssumption DEF TypeOK, InThePast
  <1>5. CASE Watched \in buckets /\ Stale(Watched)
    <2> DEFINE last == lastRefill[Watched]
               all  == Unit * admitted
    <2>1. last + Lifetime <= now /\ Level(Watched)' = Capacity
      BY <1>1, <1>3, <1>5, StaleForALifetime
    <2>2. all \in Nat /\ Unit * 0 = 0
      BY <1>4
    <2>3. Lifetime * all <= Gain * (now - since)
      <3>1. CASE admitted = 0
        <4>1. Lifetime * all = 0
          BY <2>2, <3>1, GainType
        <4>2. now - since \in Nat
          BY <1>4
        <4>3. Gain * (now - since) \in Nat
          BY <4>2, GainType
        <4> QED BY <4>1, <4>3
      <3>2. CASE admitted > 0
        <4>1. Lifetime * (all - Capacity) <= Gain * (last - since)
          BY <1>5, <3>2 DEF Consistent, Accounted
        <4> HIDE DEF all, last
        <4>2. last \in Nat /\ Lifetime \in Nat /\ Gain \in Nat /\ all - Capacity \in Int
              /\ last - since \in Int /\ now - last \in Int /\ now - last >= Lifetime
          BY <1>4, <2>1, <2>2, GainType DEF last
        <4>3. Lifetime * ((all - Capacity) + Capacity)
                 = (Lifetime * (all - Capacity)) + (Lifetime * Capacity)
          BY <1>4, <4>2, Distribute
        <4>4. Gain * ((last - since) + (now - last))
                 = (Gain * (last - since)) + (Gain * (now - last))
          BY <4>2, Distribute
        <4>5. Gain * Lifetime <= Gain * (now - last)
          BY <4>2, Monotone
        <4>6. Lifetime * Capacity <= Lifetime * Gain /\ Lifetime * Gain = Gain * Lifetime
          <5>1. Lifetime * Capacity <= Lifetime * Gain
            BY <1>4, <4>2, GainType, Monotone
          <5> QED BY <4>2, <5>1
        <4>7. (all - Capacity) + Capacity = all
              /\ (last - since) + (now - last) = now - since
          BY <1>4, <2>2, <4>2
        <4>8. /\ Lifetime * (all - Capacity) \in Int /\ Lifetime * Capacity \in Int
              /\ Gain * (last - since) \in Int /\ Gain * (now - last) \in Int
              /\ Gain * Lifetime \in Int
          BY <1>4, <4>2
        <4> QED BY <4>1, <4>3, <4>4, <4>5, <4>6, <4>7, <4>8
      <3> QED BY <1>4, <3>1, <3>2
    <2>4. (all + Capacity) - Capacity = all
      BY <1>4, <2>2
    <2>5. Watched \notin buckets'
      BY <1>2, <1>5
    <2>6. Accounted'
      BY <1>2, <2>1, <2>3, <2>4, <2>5 DEF Accounted
    <2>7. promise.count * Unit \in Nat /\ promise.count * Unit <= Capacity
      BY <1>4, MoreTime, LimiterAssumption DEF Capacity
    <2>8. promise.at > now => Rate * (promise.at - now) \in Nat
      BY <1>4
    <2>9. Growing'
      BY <1>2, <1>4, <2>1, <2>7, <2>8 DEF Growing
    <2> QED BY <2>6, <2>9
  <1>6. CASE ~(Watched \in buckets /\ Stale(Watched))
    <2>1. (Watched \in buckets') = (Watched \in buckets)
          /\ lastRefill'[Watched] = lastRefill[Watched]
      BY <1>1, <1>2, <1>6 DEF Sweep
    <2>2. Level(Watched)' = Level(Watched)
      BY <1>3, <1>6
    <2> QED BY <1>2, <2>1, <2>2 DEF Consistent, Accounted, Growing
  <1> QED BY <1>5, <1>6

\* Each header promises no more than what will be there.
LEMMA HeaderAccounts ==
    ASSUME Consistent, NEW s \in Slot,
           Remaining(s) \/ RetryAfter(s) \/ SetReset(s)
    PROVE  Accounted' /\ Growing'
  <1> DEFINE level == Level(Watched)
  <1>1. TypeOK /\ InThePast /\ Watched \in Key
    BY WatchedAssumption DEF Consistent
  <1>2. UNCHANGED <<now, bucketVars, since, admitted>>
    BY <1>1, HeaderTypes
  <1>3. level \in 0..Capacity /\ Level(Watched)' = level
    BY <1>1, <1>2, LevelType, SameLevel
  <1>4. Accounted'
    BY <1>2, <1>3 DEF Consistent, Accounted, bucketVars
  <1>5. /\ now \in Nat /\ Rate \in Nat /\ Unit \in Nat /\ Capacity \in Nat
        /\ Second \in Nat /\ Rate > 0 /\ Burst \in Nat
    BY <1>1, CapacityType, LimiterAssumption DEF TypeOK
  <1> SUFFICES Growing'
    BY <1>4
  <1>6. level \in Int /\ Level(Watched)' = level /\ now' = now
    BY <1>2, <1>3, <1>5
  <1>7. CASE promise' = promise
    BY <1>2, <1>3, <1>7 DEF Consistent, Growing
  <1>8. CASE Remaining(s) /\ promise' # promise
    <2>1. PICK n \in 0..Burst : /\ IsFloor(n, Level(key[s]), Unit)
                                /\ Promise(s, n, now)
      BY <1>8 DEF Remaining
    <2>2. key[s] = Watched /\ promise' = [count |-> n, at |-> now]
      BY <1>8, <2>1 DEF Promise
    <2>3. n * Unit <= level
      BY <2>1, <2>2 DEF IsFloor
    <2>4. n \in Nat /\ n * Unit \in Nat
      BY <1>5, <2>1, MoreTime
    <2> HIDE DEF level
    <2>5. level >= n * Unit
      BY <1>3, <2>3, <2>4
    <2>6. promise'.at = now /\ promise'.count = n
      BY <2>2
    <2> QED BY <1>5, <1>6, <2>5, <2>6 DEF Growing
  <1>9. CASE RetryAfter(s) /\ promise' # promise
    <2>1. CASE Promise(s, 1, now) /\ Level(key[s]) >= Unit
      <3>1. key[s] = Watched /\ promise' = [count |-> 1, at |-> now]
        BY <1>9, <2>1 DEF Promise
      <3>2. level >= 1 * Unit
        BY <1>5, <2>1, <3>1
      <3>3. promise'.at = now /\ promise'.count = 1
        BY <3>1
      <3> HIDE DEF level
      <3> QED BY <1>5, <1>6, <3>2, <3>3 DEF Growing
    <2>2. CASE ~(Promise(s, 1, now) /\ Level(key[s]) >= Unit)
      <3>1. PICK n \in 0..Unit : /\ Seconds(n, Unit - Level(key[s]))
                                 /\ Promise(s, 1, now + n * Second)
        BY <1>9, <2>2 DEF RetryAfter
      <3>2. key[s] = Watched /\ promise' = [count |-> 1, at |-> now + n * Second]
        BY <1>9, <3>1 DEF Promise
      <3>3. Unit - level <= n * (Rate * Second)
        BY <3>1, <3>2 DEF Seconds, IsCeiling
      <3>4. n \in Nat /\ n * Second \in Nat /\ 0 * Second = 0
        BY <1>5, <3>1, MoreTime
      <3>5. n * (Rate * Second) = Rate * (n * Second)
        BY <1>5, <3>4, Reassociate
      <3>6. (now + n * Second) - now = n * Second
        BY <1>5, <3>4
      <3>7. Rate * (n * Second) \in Nat /\ (n * Second = 0 => Rate * (n * Second) = 0)
        BY <1>5, <3>4, MoreTime
      <3> DEFINE wait == n * Second
      <3> HIDE DEF level, wait
      <3>8. level + Rate * wait >= 1 * Unit
        BY <1>3, <1>5, <3>3, <3>5, <3>7 DEF wait
      <3>9. CASE wait = 0
        <4>1. level >= 1 * Unit /\ now + wait <= now
          BY <1>3, <1>5, <3>7, <3>8, <3>9 DEF wait
        <4>2. promise'.at <= now /\ promise'.count = 1
          BY <3>2, <4>1 DEF wait
        <4> QED BY <1>6, <4>1, <4>2 DEF Growing
      <3>10. CASE wait > 0
        <4>1. now + wait > now /\ (now + wait) - now = wait
          BY <1>5, <3>4, <3>10 DEF wait
        <4>2. promise'.at = now + wait /\ promise'.count = 1
          BY <3>2 DEF wait
        <4>3. ~(promise'.at <= now) /\ promise'.at - now = wait
          BY <1>5, <3>4, <4>1, <4>2 DEF wait
        <4> QED BY <1>6, <3>8, <4>2, <4>3 DEF Growing
      <3> QED BY <3>4, <3>9, <3>10 DEF wait
    <2> QED BY <2>1, <2>2
  <1>10. CASE SetReset(s) /\ promise' # promise
    <2>1. PICK n \in 0..(now + Capacity) :
              /\ IsFloor(n, now * Rate + Capacity - Level(key[s]), Rate * Second)
              /\ Promise(s, Burst, (n + 1) * Second)
      BY <1>10 DEF SetReset, ResetTime
    <2> DEFINE time == (n + 1) * Second
    <2>2. key[s] = Watched /\ promise' = [count |-> Burst, at |-> time]
      BY <1>10, <2>1 DEF Promise
    <2>3. now * Rate + Capacity - level < (n + 1) * (Rate * Second)
      BY <2>1, <2>2 DEF IsFloor
    <2>4. n + 1 \in Nat /\ time \in Nat
      BY <1>5, <2>1, MoreTime
    <2>5. (n + 1) * (Rate * Second) = Rate * time
      BY <1>5, <2>4, Reassociate
    <2> HIDE DEF time, level
    <2>6. now * Rate + Capacity - level < Rate * time
      BY <2>3, <2>5
    <2>7. time > now
      <3> SUFFICES ASSUME time <= now PROVE FALSE
        BY <1>5, <2>4
      <3>1. time * Rate <= now * Rate /\ time * Rate \in Nat /\ now * Rate \in Nat
        BY <1>5, <2>4, MoreTime
      <3> QED BY <1>3, <1>5, <2>4, <2>6, <3>1
    <2>8. Rate * (time - now) = Rate * time - now * Rate
      BY <1>5, <2>4
    <2>9. Rate * time \in Int /\ now * Rate \in Int
      BY <1>5, <2>4
    <2>10. level + Rate * (time - now) >= Capacity
      BY <1>3, <1>5, <2>6, <2>8, <2>9
    <2>11. level + Rate * (time - now) >= Burst * Unit
      BY <2>10 DEF Capacity
    <2>12. promise'.at = time /\ promise'.count = Burst
      BY <2>2
    <2>13. ~(promise'.at <= now)
      BY <1>5, <2>4, <2>7, <2>12
    <2> QED BY <1>6, <2>11, <2>12, <2>13 DEF Growing
  <1> QED BY <1>7, <1>8, <1>9, <1>10

-----------------------------------------------------------------------------
LEMMA StepConsistent == Consistent /\ [Next]_vars => Consistent'
  <1> SUFFICES ASSUME Consistent, [Next]_vars PROVE Consistent'
    OBVIOUS
  <1>1. TypeOK /\ InThePast
    BY DEF Consistent
  <1>2. CASE Tick
    <2>1. TypeOK' /\ InThePast'
      BY <1>1, <1>2 DEF TypeOK, InThePast, Tick, bucketVars, slotVars, watchVars
    <2> QED BY <1>2, <2>1, TickAccounts DEF Consistent
  <1>3. CASE Sweep
    <2>1. TypeOK' /\ InThePast'
      BY <1>1, <1>3, SweepTypes
    <2> QED BY <1>3, <2>1, SweepAccounts DEF Consistent
  <1>4. CASE Stop \/ CleanupReturns
    <2>1. UNCHANGED <<now, bucketVars, slotVars, watchVars>>
      BY <1>4 DEF Stop, CleanupReturns
    <2>2. due' \in BOOLEAN /\ cleanup' \in {"running", "told", "gone"}
      BY <1>1, <1>4 DEF Stop, CleanupReturns, TypeOK
    <2>3. TypeOK' /\ InThePast'
      BY <1>1, <2>1, <2>2
         DEF TypeOK, InThePast, bucketVars, slotVars, watchVars
    <2> QED BY <2>1, <2>3, AccountsUntouched DEF Consistent
  <1>5. CASE StartWindow
    <2>1. /\ UNCHANGED <<now, bucketVars, sweepVars, slotVars, observer, promise>>
          /\ since' = now /\ admitted' = 0
      BY <1>5 DEF StartWindow
    <2>2. TypeOK' /\ InThePast'
      BY <1>1, <2>1 DEF TypeOK, InThePast, bucketVars, sweepVars, slotVars
    <2>3. Level(Watched)' = Level(Watched) /\ Level(Watched) \in 0..Capacity
      BY <1>1, <2>1, SameLevel, LevelType, WatchedAssumption
    <2>4. /\ Gain * (now - now) = 0 /\ Unit * 0 = 0
          /\ Lifetime * ((0 + Level(Watched)) - Capacity) <= 0
      <3>1. (0 + Level(Watched)) - Capacity <= 0
            /\ (0 + Level(Watched)) - Capacity \in Int /\ Lifetime \in Nat
        BY <2>3, CapacityType, GainType
      <3>2. Lifetime * ((0 + Level(Watched)) - Capacity) <= Lifetime * 0
        BY <3>1, Monotone
      <3> QED BY <1>1, <3>1, <3>2, GainType, LimiterAssumption DEF TypeOK
    <2>5. Accounted'
      BY <2>1, <2>3, <2>4 DEF Accounted
    <2>6. Growing'
      BY <2>1, <2>3 DEF Consistent, Growing
    <2> QED BY <2>2, <2>5, <2>6 DEF Consistent
  <1>6. CASE \E s \in Slot, r \in Request : Arrive(s, r)
    <2>1. PICK s \in Slot, r \in Request : Arrive(s, r)
      BY <1>6
    <2>2. TypeOK' /\ InThePast'
      BY <1>1, <2>1, ArriveTypes
    <2>3. UNCHANGED <<now, bucketVars, watchVars>>
      BY <2>1 DEF Arrive
    <2> QED BY <2>2, <2>3, AccountsUntouched DEF Consistent
  <1>7. CASE \E s \in Slot : Allow(s)
    BY <1>1, <1>7, AllowTypes, AllowAccounts DEF Consistent
  <1>8. CASE \E s \in Slot : Remaining(s) \/ RetryAfter(s) \/ SetReset(s)
    <2>1. PICK s \in Slot : Remaining(s) \/ RetryAfter(s) \/ SetReset(s)
      BY <1>8
    <2>2. TypeOK' /\ InThePast'
      BY <1>1, <2>1, HeaderTypes
    <2>3. Accounted' /\ Growing'
      BY <2>1, HeaderAccounts
    <2> QED BY <2>2, <2>3 DEF Consistent
  <1>9. CASE UNCHANGED vars
    <2>1. TypeOK' /\ InThePast'
      BY <1>1, <1>9 DEF TypeOK, InThePast, vars, bucketVars, sweepVars, slotVars,
                       watchVars
    <2>2. UNCHANGED <<now, bucketVars, watchVars>>
      BY <1>9 DEF vars
    <2> QED BY <2>1, <2>2, AccountsUntouched DEF Consistent
  <1> QED BY <1>2, <1>3, <1>4, <1>5, <1>6, <1>7, <1>8, <1>9 DEF Next

\* The invariant of the limiter holds in every state, for any requests, times
\* and positive rate and burst (ratelimit.go:44-151).
THEOREM Inductive == Spec => []Consistent
  <1> QED BY InitConsistent, StepConsistent, PTL DEF Spec

-----------------------------------------------------------------------------
(* What follows from it.                                                    *)

\* No key is admitted more often in a stretch of time than a burst and what it
\* may gain in that time, sweeps and new buckets included, whether or not a
\* bucket is full when it is forgotten (ratelimit.go:50-53, 133-151).
THEOREM RateIsKept == Spec => []WindowBound
  <1>1. Consistent => WindowBound
    <2> SUFFICES ASSUME Consistent PROVE WindowBound
      OBVIOUS
    <2> DEFINE taken  == Unit * admitted - Capacity
               before == (Unit * admitted + Level(Watched)) - Capacity
    <2>1. Level(Watched) \in 0..Capacity
      BY LevelType, WatchedAssumption DEF Consistent
    <2>2. Unit * admitted \in Int /\ Gain * (now - since) \in Int
      BY LimiterAssumption, GainType DEF Consistent, TypeOK
    <2>3. taken \in Int /\ before \in Int /\ taken <= before /\ Lifetime \in Nat
      BY <2>1, <2>2, CapacityType, GainType
    <2>4. Lifetime * before <= Gain * (now - since)
      BY DEF Consistent, Accounted
    <2> HIDE DEF taken, before
    <2>5. Lifetime * taken <= Lifetime * before
          /\ Lifetime * taken \in Int /\ Lifetime * before \in Int
      BY <2>3, Monotone
    <2>6. Lifetime * taken <= Gain * (now - since)
      BY <2>2, <2>4, <2>5
    <2> QED BY <2>6 DEF WindowBound, taken
  <1> QED BY <1>1, Inductive, PTL

\* What the headers of an answer say is so, whatever other requests, sweeps
\* and ticks came between Allow and the header (ratelimit.go:228-243).
THEOREM HeadersCanBeReliedOn == Spec => []HeadersHonest
  <1>1. Consistent => HeadersHonest
    BY LimiterAssumption DEF Consistent, TypeOK, Growing, HeadersHonest
  <1> QED BY <1>1, Inductive, PTL

-----------------------------------------------------------------------------
(* The refinement.                                                          *)

LEMMA InitRefines == Init => Limiter!Init
  BY DEF Init, Level, Idle, Verdict, Limiter!Init

\* No key is idle for more than a lifetime.
LEMMA IdleType ==
    ASSUME TypeOK, InThePast, NEW k \in Key
    PROVE  /\ Idle(k) \in 0..Lifetime
           /\ Idle(k) = IF k \in buckets
                        THEN Limiter!UpTo(Lifetime, now - lastRefill[k])
                        ELSE Lifetime
  <1>1. /\ now \in Nat /\ lastRefill[k] \in Nat /\ lastRefill[k] <= now
        /\ StaleAfter \in Nat
    BY LimiterAssumption DEF TypeOK, InThePast
  <1> QED BY <1>1 DEF Idle, Stale, Lifetime, Limiter!UpTo

\* A step that leaves every bucket's content and every answer as they are.
LEMMA Stutters ==
    ASSUME UNCHANGED <<now, bucketVars>>,
           \A s \in Slot : Verdict(s)' = Verdict(s)
    PROVE  UNCHANGED <<[k \in Key |-> Level(k)], [k \in Key |-> Idle(k)],
                       [s \in Slot |-> Verdict(s)]>>
  <1>1. \A k \in Key : Level(k)' = Level(k)
    BY SameLevel
  <1>2. \A k \in Key : Idle(k)' = Idle(k)
    BY DEF bucketVars, Idle, Stale
  <1> QED BY <1>1, <1>2

LEMMA StepRefines ==
    ASSUME Consistent, [Next]_vars
    PROVE  [Limiter!Next]_<<[k \in Key |-> Level(k)], [k \in Key |-> Idle(k)],
                            [s \in Slot |-> Verdict(s)]>>
  <1> DEFINE level   == [k \in Key |-> Level(k)]
             idle    == [k \in Key |-> Idle(k)]
             verdict == [s \in Slot |-> Verdict(s)]
  <1>1. TypeOK /\ InThePast
    BY DEF Consistent
  <1>2. CASE Tick
    <2>1. \A k \in Key : Level(k)' = Limiter!UpTo(Capacity, level[k] + Rate)
      BY <1>1, <1>2, TickLevel
    <2>2. level' = [k \in Key |-> Limiter!UpTo(Capacity, level[k] + Rate)]
      BY <2>1
    <2>3. verdict' = verdict
      BY <1>2 DEF Tick, slotVars, Verdict
    <2>4. ASSUME NEW k \in Key
          PROVE  Idle(k)' = Limiter!UpTo(Lifetime, Idle(k) + 1)
      <3>1. /\ buckets' = buckets /\ lastRefill' = lastRefill /\ now' = now + 1
            /\ now \in Nat /\ lastRefill[k] \in Nat /\ lastRefill[k] <= now
            /\ StaleAfter \in Nat
        BY <1>1, <1>2, LimiterAssumption DEF Tick, bucketVars, TypeOK, InThePast
      <3> QED BY <3>1 DEF Idle, Stale, Lifetime, Limiter!UpTo
    <2>5. idle' = [k \in Key |-> Limiter!UpTo(Lifetime, idle[k] + 1)]
      BY <2>4
    <2> QED BY <2>2, <2>3, <2>5 DEF Limiter!Next, Limiter!Tick
  <1>3. CASE Sweep
    <2> DEFINE stale == {k \in buckets : Stale(k)}
    <2>1. /\ now' = now /\ buckets' = buckets \ stale /\ buckets \subseteq Key
          /\ \A k \in Key \ stale : lastRefill'[k] = lastRefill[k]
      BY <1>1, <1>3 DEF Sweep, TypeOK
    <2>2. \A k \in Key : Level(k)' = IF k \in stale THEN Capacity ELSE Level(k)
      BY <1>1, <1>3, SweepLevel
    <2>3. level' = [k \in Key |-> IF k \in stale THEN Capacity ELSE level[k]]
      BY <2>2
    <2>4. \A k \in Key : Idle(k)' = Idle(k)
      BY <2>1 DEF Idle, Stale
    <2>5. \A s \in Slot : Verdict(s)' = Verdict(s)
      BY <1>3 DEF Sweep, slotVars, Verdict
    <2>6. stale \in SUBSET Key /\ \A k \in stale : idle[k] = Lifetime
      BY <2>1 DEF Idle
    <2>7. idle' = idle /\ verdict' = verdict
      BY <2>4, <2>5
    <2> HIDE DEF level, idle, verdict, stale
    <2>8. Limiter!Forget(stale)
      BY <2>3, <2>6, <2>7 DEF Limiter!Forget, level, idle, verdict
    <2> QED BY <2>6, <2>8 DEF Limiter!Next
  <1>4. CASE Stop \/ CleanupReturns \/ StartWindow \/ UNCHANGED vars
    <2>1. UNCHANGED <<now, bucketVars, slotVars>>
      BY <1>4 DEF Stop, CleanupReturns, StartWindow, vars
    <2>2. \A s \in Slot : Verdict(s)' = Verdict(s)
      BY <2>1 DEF slotVars, Verdict
    <2> QED BY <2>1, <2>2, Stutters
  <1>5. CASE \E s \in Slot, r \in Request : Arrive(s, r)
    <2>1. PICK s \in Slot, r \in Request : Arrive(s, r)
      BY <1>5
    <2>2. UNCHANGED <<now, bucketVars>>
      BY <2>1 DEF Arrive
    <2>4. pc[s] = "idle" /\ pc' = [pc EXCEPT ![s] = "asking"]
      BY <2>1 DEF Arrive
    <2>5. \A t \in Slot : Verdict(t)' = Verdict(t)
      BY <1>1, <2>4 DEF Verdict, TypeOK
    <2> QED BY <2>2, <2>5, Stutters
  <1>6. CASE \E s \in Slot : Allow(s)
    <2>1. PICK s \in Slot : Allow(s)
      BY <1>6
    <2>2. key[s] \in Key /\ pc[s] = "asking" /\ verdict[s] = "none"
      BY <1>1, <2>1 DEF Allow, TypeOK, Verdict
    <2>3. \A k \in Key : Level(k)' = IF k = key[s] /\ Enough(k)
                                    THEN Level(k) - Unit ELSE Level(k)
      BY <1>1, <2>1, AllowLevel
    <2>6. idle' = [idle EXCEPT ![key[s]] = 0]
      <3>1. /\ now' = now /\ buckets' = buckets \cup {key[s]} /\ now \in Nat
            /\ lastRefill' = [lastRefill EXCEPT ![key[s]] = now]
            /\ lastRefill \in [Key -> Nat] /\ StaleAfter \in Nat
        BY <1>1, <2>1, LimiterAssumption DEF Allow, Stamp, TypeOK
      <3>2. ASSUME NEW k \in Key
            PROVE  Idle(k)' = IF k = key[s] THEN 0 ELSE Idle(k)
        <4>1. CASE k = key[s]
          BY <3>1, <4>1 DEF Idle, Stale
        <4>2. CASE k # key[s]
          BY <3>1, <4>2 DEF Idle, Stale
        <4> QED BY <4>1, <4>2
      <3> QED BY <2>2, <3>2
    <2>4. CASE Enough(key[s])
      <3>1. pc' = [pc EXCEPT ![s] = "admitted"]
        BY <2>1, <2>4 DEF Allow
      <3>2. verdict' = [verdict EXCEPT ![s] = "yes"]
        BY <1>1, <3>1 DEF TypeOK, Verdict
      <3>3. level' = [level EXCEPT ![key[s]] = @ - Unit]
        BY <2>2, <2>3, <2>4
      <3>4. level[key[s]] >= Unit
        BY <2>2, <2>4 DEF Enough
      <3>5. Limiter!Admit(s, key[s])
        BY <2>2, <2>6, <3>2, <3>3, <3>4 DEF Limiter!Admit
      <3> QED BY <2>2, <3>5 DEF Limiter!Next
    <2>5. CASE ~Enough(key[s])
      <3>1. pc' = [pc EXCEPT ![s] = "refused"]
        BY <2>1, <2>5 DEF Allow
      <3>2. verdict' = [verdict EXCEPT ![s] = "no"]
        BY <1>1, <3>1 DEF TypeOK, Verdict
      <3>3. level' = level
        BY <2>2, <2>3, <2>5
      <3>4. level[key[s]] < Unit
        <4>1. Level(key[s]) \in Int /\ Unit \in Int
          BY <1>1, <2>2, LevelType, LimiterAssumption
        <4> QED BY <2>2, <2>5, <4>1 DEF Enough
      <3>5. Limiter!Refuse(s, key[s])
        BY <2>2, <2>6, <3>2, <3>3, <3>4 DEF Limiter!Refuse
      <3> QED BY <2>2, <3>5 DEF Limiter!Next
    <2> QED BY <2>4, <2>5
  <1>7. CASE \E s \in Slot : Remaining(s) \/ RetryAfter(s) \/ SetReset(s)
    <2>1. PICK s \in Slot : Remaining(s) \/ RetryAfter(s) \/ SetReset(s)
      BY <1>7
    <2>2. UNCHANGED <<now, bucketVars>>
      BY <1>1, <2>1, HeaderTypes
    <2>3. level' = level /\ idle' = idle
      BY <2>2, SameLevel DEF bucketVars, Idle, Stale
    <2>4. CASE Remaining(s) \/ RetryAfter(s)
      <3>1. \/ pc[s] = "admitted" /\ pc' = [pc EXCEPT ![s] = "counted"]
            \/ pc[s] = "refused" /\ pc' = [pc EXCEPT ![s] = "warned"]
        BY <2>4 DEF Remaining, RetryAfter
      <3>2. verdict' = verdict
        BY <1>1, <3>1 DEF TypeOK, Verdict
      <3> QED BY <2>3, <3>2
    <2>5. CASE SetReset(s)
      <3>1. pc' = [pc EXCEPT ![s] = "idle"]
        BY <2>5 DEF SetReset
      <3>2. verdict' = [verdict EXCEPT ![s] = "none"]
        BY <1>1, <3>1 DEF TypeOK, Verdict
      <3> QED BY <2>3, <3>2 DEF Limiter!Next, Limiter!Answered
    <2> QED BY <2>1, <2>4, <2>5
  <1> QED BY <1>2, <1>3, <1>4, <1>5, <1>6, <1>7 DEF Next

\* The limiter behaves as one whose buckets are filled with every tick, and at
\* once only when nobody has asked for a lifetime: making them late, refilling
\* them lazily and sweeping them away show in no other way, whatever the rate
\* and the burst (ratelimit.go:44-65, 133-151).
THEOREM BucketsAreKept == Spec => LimiterSpec
  <1> QED BY InitRefines, StepRefines, Inductive, PTL
          DEF Spec, LimiterSpec, Limiter!Spec

\* If a lifetime fills a bucket (as ten minutes do at the rates and bursts of
\* the tests), a sweep changes what no key finds
\* (ratelimit.go:133-151).
THEOREM NothingIsForgotten ==
    FullWhenStale =>
        (Spec => [][Sweep => UNCHANGED [k \in Key |-> Level(k)]]_vars)
  <1> SUFFICES ASSUME FullWhenStale
               PROVE  Spec => [][Sweep => UNCHANGED [k \in Key |-> Level(k)]]_vars
    OBVIOUS
  <1>1. ASSUME Consistent, Sweep PROVE UNCHANGED [k \in Key |-> Level(k)]
    <2>1. TypeOK /\ InThePast
      BY <1>1 DEF Consistent
    <2>2. ASSUME NEW k \in Key PROVE Level(k)' = Level(k)
      <3>1. CASE k \in buckets /\ Stale(k)
        <4>1. Level(k) = Capacity
          BY <2>1, <3>1, StaleIsFull DEF Level
        <4> QED BY <1>1, <2>1, <3>1, <4>1, SweepLevel
      <3>2. CASE ~(k \in buckets /\ Stale(k))
        BY <1>1, <2>1, <3>2, SweepLevel
      <3> QED BY <3>1, <3>2
    <2> QED BY <2>2
  <1> QED BY <1>1, Inductive, PTL DEF Spec
=============================================================================

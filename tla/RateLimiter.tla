---------------------------- MODULE RateLimiter ----------------------------
(***************************************************************************)
(* The HTTP rate limiter (internal/server/ratelimit.go): token buckets     *)
(* that are made at the first request of a key and refilled lazily, the    *)
(* cleanup goroutine that forgets those not used for a while, and the      *)
(* middleware, whose headers come from separate calls to the limiter.      *)
(*                                                                         *)
(* Every method of the limiter holds its mutex and is one step; between    *)
(* two calls of one request other requests, the sweep and the clock move.  *)
(* Time is counted in ticks, the float64 tokens in drops: a token is Unit  *)
(* drops and a tick adds Rate drops, so rps is Rate * Second / Unit.       *)
(* Rounding to whole tokens and seconds is the code's; the rounding of     *)
(* float64 itself is left out.                                             *)
(***************************************************************************)
EXTENDS Integers

CONSTANTS
    Request,    \* requests, by what the limiter reads of them
    None,       \* a header or parameter that is not there
    Slot,       \* requests under way at once
    Burst,      \* tokens in a full bucket
    Unit,       \* drops in a token
    Rate,       \* drops added per tick
    Second,     \* ticks in a second
    SweepEvery, \* ticks between two sweeps (5 minutes)
    StaleAfter, \* ticks after which a bucket is forgotten (10 minutes)
    Watched,    \* the key that is observed
    MaxNow      \* bound: the clock

\* The path is kept as its class: "/ws", "page" (not under /api/), "open"
\* (health and docs) or "api".
ASSUME RequestAssumption ==
    Request \subseteq
        [path : {"ws", "page", "open", "api"}, bearer : STRING, query : STRING,
         forwarded : STRING, real : STRING, peer : STRING]

ASSUME LimiterAssumption ==
    /\ Burst \in Nat \ {0}
    /\ Unit \in Nat \ {0}
    /\ Rate \in Nat \ {0}
    /\ Second \in Nat \ {0}
    /\ SweepEvery \in Nat \ {0}
    /\ StaleAfter \in Nat
    /\ MaxNow \in Nat

Capacity == Burst * Unit

\* The shortest time without a request after which a bucket is forgotten.
Lifetime == StaleAfter + 1

\* A bucket is full by the time it is forgotten.  The constructor takes any
\* rate and burst and does not see to it.
FullWhenStale == Lifetime * Rate >= Capacity

\* The most a key can gain in a lifetime, by refills or by a new bucket.
Gain == IF FullWhenStale THEN Lifetime * Rate ELSE Capacity

VARIABLES
    now,        \* the clock
    buckets,    \* the keys that have a bucket
    tokens,     \* the drops in each bucket when it was last refilled
    lastRefill, \* when that was
    due,        \* the ticker of the cleanup goroutine has fired
    cleanup,    \* "running", "told" to stop, or "gone"
    pc,         \* where each request stands
    key,        \* its rateLimitKey
    observer,   \* what an observer of that key does, "counts" or "reads"
    since,      \* when it started to count ...
    admitted,   \* ... the requests that were admitted
    promise     \* the header it holds on to: so many tokens by then

bucketVars == <<buckets, tokens, lastRefill>>
sweepVars  == <<due, cleanup>>
slotVars   == <<pc, key>>
watchVars  == <<observer, since, admitted, promise>>
vars       == <<now, bucketVars, sweepVars, slotVars, watchVars>>

-----------------------------------------------------------------------------
(* What a request says.                                                     *)

\* The first entry of X-Forwarded-For, X-Real-IP, or the peer's address.
clientIP(r) ==
    CASE r.forwarded # None -> r.forwarded
      [] r.forwarded = None /\ r.real # None -> r.real
      [] OTHER -> r.peer

\* A token is a key of its own, whatever address it comes from.
rateLimitKey(r) ==
    CASE r.bearer # None -> <<"apikey", r.bearer>>
      [] r.bearer = None /\ r.query # None -> <<"apikey", r.query>>
      [] OTHER -> <<"ip", clientIP(r)>>

Exempt(r) == r.path \in {"ws", "page", "open"}

Key == {rateLimitKey(r) : r \in Request}

ASSUME WatchedAssumption == Watched \in Key

\* The key of a slot with no request that was asked for one.
NoKey == <<>>

\* Nothing is promised.
NoPromise == [count |-> 0, at |-> 0]

-----------------------------------------------------------------------------
Init ==
    /\ now = 0
    /\ buckets = {}
    /\ tokens = [k \in Key |-> 0]
    /\ lastRefill = [k \in Key |-> 0]
    /\ due = FALSE /\ cleanup = "running"
    /\ pc = [s \in Slot |-> "idle"]
    /\ key = [s \in Slot |-> NoKey]
    /\ observer \in {"counts", "reads"}
    /\ since = 0 /\ admitted = 0 /\ promise = NoPromise

\* math.Floor and the conversion to whole seconds, math.Ceil.
IsFloor(n, a, b)   == n * b <= a /\ a < (n + 1) * b
IsCeiling(n, a, b) == a <= n * b /\ (n - 1) * b < a

Refilled(k) ==
    LET filled == tokens[k] + (now - lastRefill[k]) * Rate
    IN  IF filled > Capacity THEN Capacity ELSE filled

\* What a call finds in a key's bucket; a key without one has a full one.
Level(k) == IF k \in buckets THEN Refilled(k) ELSE Capacity

-----------------------------------------------------------------------------
(* The middleware.                                                          *)

\* A request on /ws, a page, health or docs passes by the limiter.
Arrive(s, r) ==
    /\ pc[s] = "idle"
    /\ ~Exempt(r)
    /\ pc' = [pc EXCEPT ![s] = "asking"]
    /\ key' = [key EXCEPT ![s] = rateLimitKey(r)]
    /\ UNCHANGED <<now, bucketVars, sweepVars, watchVars>>

\* Mutation: the time of the refill is not kept.
StampLost(k) == IF k \in buckets THEN lastRefill[k] ELSE now

\* When the bucket was last refilled, after a call of Allow.
Stamp(k) == now

\* Mutation: a bucket that is not empty has a token.
SomethingLeft(k) == Level(k) > 0

Enough(k) == Level(k) >= Unit

\* Allow makes the bucket if there is none, refills it, and takes a token if
\* it can.  What the key was told before no longer binds then.
Allow(s) ==
    LET k == key[s] IN
    /\ pc[s] = "asking"
    /\ buckets' = buckets \cup {k}
    /\ lastRefill' = [lastRefill EXCEPT ![k] = Stamp(k)]
    /\ \/ /\ Enough(k)
          /\ tokens' = [tokens EXCEPT ![k] = Level(k) - Unit]
          /\ IF k = Watched
             THEN /\ admitted' = IF observer = "counts" THEN admitted + 1
                                ELSE admitted
                  /\ promise' = NoPromise
             ELSE UNCHANGED <<admitted, promise>>
          /\ pc' = [pc EXCEPT ![s] = "admitted"]
       \/ /\ ~Enough(k)
          /\ tokens' = [tokens EXCEPT ![k] = Level(k)]
          /\ pc' = [pc EXCEPT ![s] = "refused"]
          /\ UNCHANGED <<admitted, promise>>
    /\ UNCHANGED <<now, sweepVars, key, observer, since>>

\* A header is what a client may conclude from it; the observer may hold on
\* to it, or to the one before.
Promise(s, count, time) ==
    /\ \/ /\ observer = "reads" /\ key[s] = Watched
          /\ promise' = [count |-> count, at |-> time]
       \/ UNCHANGED promise
    /\ UNCHANGED <<observer, since, admitted>>

\* X-RateLimit-Remaining of a request that was admitted.
Remaining(s) ==
    /\ pc[s] = "admitted"
    /\ \E n \in 0..Burst :
          /\ IsFloor(n, Level(key[s]), Unit)
          /\ Promise(s, n, now)
    /\ pc' = [pc EXCEPT ![s] = "counted"]
    /\ UNCHANGED <<now, bucketVars, sweepVars, key>>

\* Mutation: whole seconds are cut off, not rounded up.
WholeSeconds(n, deficit) == IsFloor(n, deficit, Rate * Second)

\* The seconds in which Rate makes up for deficit drops, rounded up.
Seconds(n, deficit) == IsCeiling(n, deficit, Rate * Second)

\* Retry-After of a request that was refused.
RetryAfter(s) ==
    LET level == Level(key[s]) IN
    /\ pc[s] = "refused"
    /\ \/ level >= Unit /\ Promise(s, 1, now)
       \/ /\ level < Unit
          /\ \E n \in 0..Unit :
                /\ Seconds(n, Unit - level)
                /\ Promise(s, 1, now + n * Second)
    /\ pc' = [pc EXCEPT ![s] = "warned"]
    /\ UNCHANGED <<now, bucketVars, sweepVars, key>>

\* X-RateLimit-Reset names the second within which the bucket is full: the
\* instant itself, (now * Rate + deficit) / Rate, is cut to whole seconds.
ResetTime(s) ==
    /\ \E n \in 0..(now + Capacity) :
          /\ IsFloor(n, now * Rate + Capacity - Level(key[s]), Rate * Second)
          /\ Promise(s, Burst, (n + 1) * Second)
    /\ UNCHANGED <<now, bucketVars, sweepVars>>

\* The limiter is done with the request: it goes on to its handler if it was
\* admitted and ends with 429 if not.
SetReset(s) ==
    /\ pc[s] \in {"counted", "warned"}
    /\ pc' = [pc EXCEPT ![s] = "idle"]
    /\ key' = [key EXCEPT ![s] = NoKey]
    /\ ResetTime(s)

-----------------------------------------------------------------------------
(* The cleanup goroutine.                                                   *)

\* Mutation: as stale counts what the last sweep did not see used.
StaleAtOnce(k) == lastRefill[k] < now - SweepEvery

Stale(k) == lastRefill[k] < now - StaleAfter

Sweep ==
    LET stale == {k \in buckets : Stale(k)} IN
    /\ cleanup # "gone"
    /\ due
    /\ due' = FALSE
    /\ buckets' = buckets \ stale
    /\ tokens' = [k \in Key |-> IF k \in stale THEN 0 ELSE tokens[k]]
    /\ lastRefill' = [k \in Key |-> IF k \in stale THEN 0 ELSE lastRefill[k]]
    /\ UNCHANGED <<now, cleanup, slotVars, watchVars>>

\* Stop closes the channel the goroutine selects on; a ticker that has fired
\* may still win the select.
Stop ==
    /\ cleanup = "running"
    /\ cleanup' = "told"
    /\ UNCHANGED <<now, bucketVars, due, slotVars, watchVars>>

CleanupReturns ==
    /\ cleanup = "told"
    /\ cleanup' = "gone"
    /\ due' = FALSE
    /\ UNCHANGED <<now, bucketVars, slotVars, watchVars>>

-----------------------------------------------------------------------------
\* A ticker whose last tick was not taken yet drops the next one.
Tick ==
    /\ now < MaxNow
    /\ now' = now + 1
    /\ due' = (due \/ (cleanup # "gone" /\ now' % SweepEvery = 0))
    /\ UNCHANGED <<bucketVars, cleanup, slotVars, watchVars>>

\* The observer's window may start at any time.
StartWindow ==
    /\ observer = "counts"
    /\ since' = now
    /\ admitted' = 0
    /\ UNCHANGED <<now, bucketVars, sweepVars, slotVars, observer, promise>>

Next ==
    \/ Tick \/ Sweep \/ Stop \/ CleanupReturns \/ StartWindow
    \/ \E s \in Slot :
          \/ \E r \in Request : Arrive(s, r)
          \/ Allow(s) \/ Remaining(s) \/ RetryAfter(s) \/ SetReset(s)

Spec == Init /\ [][Next]_vars

-----------------------------------------------------------------------------
(* The types and the invariants of the clock and the buckets.               *)

TypeOK ==
    /\ now \in Nat
    /\ buckets \subseteq Key
    /\ tokens \in [Key -> 0..Capacity]
    /\ lastRefill \in [Key -> Nat]
    /\ due \in BOOLEAN
    /\ cleanup \in {"running", "told", "gone"}
    /\ pc \in [Slot -> {"idle", "asking", "admitted", "counted", "refused",
                        "warned"}]
    /\ key \in [Slot -> Key \cup {NoKey}]
    /\ \A s \in Slot : pc[s] # "idle" => key[s] \in Key
    /\ promise \in [count : 0..Burst, at : Nat]
    /\ observer \in {"counts", "reads"}
    /\ since \in Nat
    /\ admitted \in Nat

InThePast == since <= now /\ \A k \in Key : lastRefill[k] <= now

\* The drops taken since the observer started and those still there are at
\* most a full bucket and what may be gained since; those taken were taken by
\* the last request, a lifetime or more before the bucket is forgotten.
Accounted ==
    /\ Lifetime * ((Unit * admitted + Level(Watched)) - Capacity)
          <= Gain * (now - since)
    /\ admitted > 0 /\ Watched \in buckets =>
          Lifetime * (Unit * admitted - Capacity)
             <= Gain * (lastRefill[Watched] - since)

\* What a header said is there, or will be by then.
Growing ==
    IF promise.at <= now
    THEN Level(Watched) >= promise.count * Unit
    ELSE Level(Watched) + Rate * (promise.at - now) >= promise.count * Unit

\* The invariant of the limiter: no refill lies in the future, no bucket holds
\* more than its capacity or less than nothing, and the two accounts above are
\* in balance, whatever Allow, the sweep and the header calls interleave
\* (ratelimit.go:44-151).
Consistent == TypeOK /\ InThePast /\ Accounted /\ Growing

\* In any stretch of time a key is admitted at most a burst and what it may
\* gain in that stretch: what the rate allows, and no more than a burst per
\* lifetime where that is more, because the sweep forgets buckets that are not
\* full and Allow makes them anew, full (ratelimit.go:50-53, 133-151).
WindowBound == Lifetime * (Unit * admitted - Capacity) <= Gain * (now - since)

\* The headers can be relied on: a client that waits for Retry-After, or until
\* the second after X-RateLimit-Reset, or that counts on X-RateLimit-Remaining,
\* finds the tokens it was told of unless a later request of its key took one,
\* although the headers come from calls of their own after Allow
\* (ratelimit.go:228-243).
HeadersHonest ==
    now >= promise.at => Level(Watched) >= promise.count * Unit

-----------------------------------------------------------------------------
(* The abstract limiter it implements.                                      *)

Verdict(s) ==
    CASE pc[s] \in {"admitted", "counted"} -> "yes"
      [] pc[s] \in {"refused", "warned"}   -> "no"
      [] OTHER                             -> "none"

\* The ticks without a request of a key, up to a lifetime.
Idle(k) ==
    IF k \in buckets /\ ~Stale(k) THEN now - lastRefill[k] ELSE Lifetime

Limiter == INSTANCE TokenBucket WITH
    level   <- [k \in Key |-> Level(k)],
    idle    <- [k \in Key |-> Idle(k)],
    verdict <- [s \in Slot |-> Verdict(s)]

\* Lazy refills and buckets made late cannot be told from buckets that have
\* always been there, and forgetting one only from filling it, after a lifetime
\* in which nobody asked (ratelimit.go:44-65, 133-151).
LimiterSpec == Limiter!Spec
=============================================================================

----------------------------- MODULE RateLimit -----------------------------
(***************************************************************************)
(* The token buckets in front of every route (util/ratelimit.ts) and the   *)
(* guards that check them, sleep once and check again                      *)
(* (app/request-guards.ts).  Tokens are counted in units so small that one *)
(* millisecond refills a whole number of them; rounding of the floating    *)
(* point counters is not modelled.                                         *)
(***************************************************************************)
EXTENDS Naturals, Sequences

CONSTANTS
  Requests,     \* calls of enforceRateLimit or enforceRecallTextEmbedQuota
  Limiters,     \* one TokenBucketLimiter per category
  Clients,      \* bucket keys, one per category and client address
  LimiterOf,    \* the limiter each key belongs to
  ClientOf,     \* the key of each request
  Waits,        \* the requests of a kind that may sleep once
  Rate, Burst,  \* refill per millisecond and capacity, in units
  Cost,         \* one token, in units
  TtlMs, SweepEveryN, MaxWaitMs,
  MaxTime       \* bound on the clock

\* config.ts takes bursts of at least one token.
RateConstants ==
  /\ ClientOf \in [Requests -> Clients]
  /\ LimiterOf \in [Clients -> Limiters]
  /\ {Rate, Burst, Cost, TtlMs, SweepEveryN, MaxWaitMs} \subseteq Nat \ {0}
  /\ Cost <= Burst
  /\ MaxTime \in Nat

\* A bucket lives long enough to refill, as it does with the defaults of
\* config.ts, which does not enforce it: sweeping one sooner would hand its
\* client a full bucket early.
TtlCoversBurst == Rate * TtlMs >= Burst

VARIABLES
  now,
  buckets,   \* TokenBucketLimiter.buckets
  sweeps,    \* TokenBucketLimiter.sweeps of each limiter, modulo sweepEveryN
  phase,     \* where each request is in the guard
  sleep,     \* for a sleeping request: when it wakes, and what it slept on
  granted    \* history: when each client's tokens were granted

vars == <<now, buckets, sweeps, phase, sleep, granted>>

NoBucket == [tokens |-> 0, last_refill |-> 0, last_seen |-> 0, live |-> FALSE]
NoSleep == [wake |-> 0, capped |-> FALSE, seen |-> 0]

Init ==
  /\ now = 0
  /\ sweeps = [l \in Limiters |-> 0]
  /\ buckets = [c \in Clients |-> NoBucket]
  /\ phase = [q \in Requests |-> "new"]
  /\ sleep = [q \in Requests |-> NoSleep]
  /\ granted = [c \in Clients |-> <<>>]

Lesser(a, b) == IF a < b THEN a ELSE b

\* Buckets are dropped however recently they were used (a mutation of Swept).
SweptAny(c) == buckets[c].live

\* sweep(): the bucket has been idle for longer than the ttl.
Swept(c) == buckets[c].live /\ now - buckets[c].last_seen > TtlMs

\* This check of limiter l is the one that sweeps it.
Sweeps(l) == (sweeps[l] + 1) % SweepEveryN = 0

\* check() up to the refill: maybe sweep, find or make the bucket.
Found(c) ==
  LET gone == Sweeps(LimiterOf[c]) /\ Swept(c)
  IN  IF gone \/ ~buckets[c].live
      THEN [tokens |-> Burst, last_refill |-> now, last_seen |-> now, live |-> TRUE]
      ELSE buckets[c]

\* The refill does not move last_refill_ms (a mutation of Refilled).
RefilledAgain(c) ==
  LET b == Found(c)
  IN  [b EXCEPT !.tokens = Lesser(Burst, @ + Rate * (now - b.last_refill)),
                !.last_seen = now]

\* The refill of check().
Refilled(c) ==
  LET b == Found(c)
  IN  [b EXCEPT !.tokens = Lesser(Burst, @ + Rate * (now - b.last_refill)),
                !.last_refill = now, !.last_seen = now]

Allowed(c) == Refilled(c).tokens >= Cost

\* check(): the state it leaves behind.
Check(c) ==
  /\ buckets' = [d \in Clients |->
       IF d = c
       THEN [Refilled(c) EXCEPT !.tokens = IF @ >= Cost THEN @ - Cost ELSE @]
       ELSE IF LimiterOf[d] = LimiterOf[c] /\ Sweeps(LimiterOf[c]) /\ Swept(d) THEN NoBucket
       ELSE buckets[d]]
  /\ sweeps' = [sweeps EXCEPT ![LimiterOf[c]] = (@ + 1) % SweepEveryN]
  /\ granted' = IF Allowed(c) THEN [granted EXCEPT ![c] = Append(@, now)] ELSE granted

\* retry_after_ms rounded down (a mutation of RetryAfter).
RetryAfterFloor(c) == (Cost - Refilled(c).tokens) \div Rate

\* retry_after_ms of a refused check.
RetryAfter(c) ==
  LET missing == Cost - Refilled(c).tokens
  IN  (missing + Rate - 1) \div Rate

FirstCheck(q) ==
  LET c == ClientOf[q]
      retry == RetryAfter(c)
  IN  /\ phase[q] = "new"
      /\ Check(c)
      /\ \/ /\ Allowed(c)
            /\ phase' = [phase EXCEPT ![q] = "allowed"]
            /\ UNCHANGED sleep
         \/ /\ ~Allowed(c) /\ q \notin Waits
            /\ phase' = [phase EXCEPT ![q] = "limited"]
            /\ UNCHANGED sleep
         \/ /\ ~Allowed(c) /\ q \in Waits
            /\ phase' = [phase EXCEPT ![q] = "sleeping"]
            /\ sleep' = [sleep EXCEPT ![q] =
                 [wake |-> now + Lesser(MaxWaitMs, retry),
                  capped |-> MaxWaitMs < retry, seen |-> Len(granted[c])]]
      /\ UNCHANGED now

\* The sleeper is let in unchecked (a mutation of SecondCheck).
SecondCheckSkipped(q) ==
  /\ phase[q] = "sleeping" /\ now >= sleep[q].wake
  /\ phase' = [phase EXCEPT ![q] = "allowed"]
  /\ granted' = [granted EXCEPT ![ClientOf[q]] = Append(@, now)]
  /\ UNCHANGED <<now, buckets, sweeps, sleep>>

SecondCheck(q) ==
  /\ phase[q] = "sleeping" /\ now >= sleep[q].wake
  /\ Check(ClientOf[q])
  /\ phase' = [phase EXCEPT ![q] = IF Allowed(ClientOf[q]) THEN "allowed" ELSE "limited"]
  /\ UNCHANGED <<now, sleep>>

Tick == now < MaxTime /\ now' = now + 1
        /\ UNCHANGED <<buckets, sweeps, phase, sleep, granted>>

Next == Tick \/ \E q \in Requests : FirstCheck(q) \/ SecondCheck(q)

Spec == Init /\ [][Next]_vars

----------------------------------------------------------------------------
\* Types of the buckets and of the guard's calls.
TypeOK ==
  /\ now \in 0..MaxTime /\ sweeps \in [Limiters -> 0..(SweepEveryN - 1)]
  /\ buckets \in [Clients -> [tokens : 0..Burst, last_refill : 0..MaxTime,
                              last_seen : 0..MaxTime, live : BOOLEAN]]
  /\ phase \in [Requests -> {"new", "sleeping", "allowed", "limited"}]
  /\ \A q \in Requests : sleep[q].wake \in 0..(MaxTime + MaxWaitMs)
  /\ granted \in [Clients -> Seq(0..MaxTime)]

\* In every window of time a client is granted at most the burst plus what
\* the window refills, sweeps and sleepers included.
WithinBudget ==
  \A c \in Clients : \A i, j \in 1..Len(granted[c]) :
    i <= j => (j - i + 1) * Cost <= Burst + Rate * (granted[c][j] - granted[c][i])

\* A caller that slept for the whole retry_after_ms is refused only if others
\* took tokens meanwhile: the hint is long enough.
RetryAfterIsEnough ==
  [][\A q \in Requests :
       phase[q] = "sleeping" /\ phase'[q] = "limited" =>
         sleep[q].capped \/ Len(granted[ClientOf[q]]) > sleep[q].seen]_vars
============================================================================

---------------------------- MODULE RateLimiter ----------------------------
(***************************************************************************)
(* The token buckets of internal/ratelimit, one per project, in Redis.     *)
(*                                                                         *)
(* AllowN reads the clock in Go and hands the reading to a Lua script; the *)
(* script is atomic, but two callers may reach Redis in the other order    *)
(* than they read the clock.  Time is one counter, and a reading is at     *)
(* most MaxFlight old when its script runs.  Tokens are counted in a unit  *)
(* that makes Rate per tick a whole number.                                *)
(***************************************************************************)
EXTENDS Integers, Clock

CONSTANTS
  Tenant,     \* the projects that are charged
  Rate,       \* Limit.Rate, tokens per tick
  Burst,      \* Limit.Burst
  Second,     \* ticks in a second
  Slack,      \* the ten seconds added to a bucket's time to live
  MaxFlight   \* bound of the model: ticks between the reading and the script

CeilDiv(a, b) == (a + b - 1) \div b

\* A bucket that has not been touched for this long is dropped by Redis.
KeyTTL == CeilDiv(2 * Burst, Rate * Second) * Second + Slack

ASSUME LimiterAssumption ==
  /\ Rate \in Nat \ {0} /\ Burst \in Nat \ {0} /\ Second \in Nat \ {0}
  /\ Slack \in Nat /\ MaxFlight \in Nat
  /\ Burst <= Rate * (KeyTTL - MaxFlight)

VARIABLES
  bucket,    \* per project: tokens and ts, and when Redis last wrote them
  stamp,     \* per call under way: its project, cost and clock reading
  admitted,  \* history: tokens handed out per project
  opened,    \* history: ts of the bucket's first write
  setback,   \* history: ticks by which writes moved ts back, in total
  promise    \* history: the last refusal nobody has spent against since

limiterVars == <<clock, bucket, stamp, admitted, opened, setback, promise>>

NoStamp   == [project |-> "none", now |-> 0, cost |-> 0]
NoPromise == [cost |-> 0, due |-> 0]

LimiterInit ==
  /\ clock = 0
  /\ bucket = [p \in Tenant |-> [seen |-> FALSE, tokens |-> 0, ts |-> 0, at |-> 0]]
  /\ stamp = [c \in Caller |-> NoStamp]
  /\ admitted = [p \in Tenant |-> 0]
  /\ opened = [p \in Tenant |-> 0]
  /\ setback = [p \in Tenant |-> 0]
  /\ promise = [p \in Tenant |-> NoPromise]

----------------------------------------------------------------------------
\* HMGET finds the bucket: it was written and has not expired.
Found(p) == bucket[p].seen /\ clock < bucket[p].at + KeyTTL

Larger(a, b)  == IF a >= b THEN a ELSE b
Smaller(a, b) == IF a <= b THEN a ELSE b

\* Mutant: nothing caps the refill.
RefilledWithoutEnd(p, now) ==
  IF Found(p) THEN bucket[p].tokens + Larger(0, now - bucket[p].ts) * Rate ELSE Burst

Refilled(p, now) ==
  IF Found(p)
  THEN Smaller(Burst, bucket[p].tokens + Larger(0, now - bucket[p].ts) * Rate)
  ELSE Burst

Allows(p, now, cost) == cost <= Refilled(p, now)

\* retry, in ticks, and the Retry-After the gateway makes of it.
RetryIn(p, now, cost)      == CeilDiv(cost - Refilled(p, now), Rate)
RetryAfterSeconds(ticks)   == Larger(CeilDiv(ticks, Second), 1)

----------------------------------------------------------------------------
\* AllowN up to the call of the script: the reading of the clock.
ReadClock(c, p, cost) ==
  /\ stamp[c] = NoStamp
  /\ cost > 0
  /\ stamp' = [stamp EXCEPT ![c] = [project |-> p, now |-> clock, cost |-> cost]]
  /\ UNCHANGED <<clock, bucket, admitted, opened, setback, promise>>

\* Mutant: a refusal leaves ts as it was.
WrittenWhenAllowed(p, now, cost) ==
  [seen   |-> TRUE,
   tokens |-> Refilled(p, now) - (IF Allows(p, now, cost) THEN cost ELSE 0),
   ts     |-> IF Allows(p, now, cost) \/ ~Found(p) THEN now ELSE bucket[p].ts,
   at     |-> clock]

\* What HSET stores: the tokens left, and the caller's reading as ts.
Written(p, now, cost) ==
  [seen   |-> TRUE,
   tokens |-> Refilled(p, now) - (IF Allows(p, now, cost) THEN cost ELSE 0),
   ts     |-> now,
   at     |-> clock]

RunScript(c) ==
  LET p == stamp[c].project  now == stamp[c].now  cost == stamp[c].cost
      yes == Allows(p, now, cost)
  IN
  /\ stamp[c] # NoStamp
  /\ bucket' = [bucket EXCEPT ![p] = Written(p, now, cost)]
  /\ admitted' = [admitted EXCEPT ![p] = @ + (IF yes THEN cost ELSE 0)]
  /\ opened' = [opened EXCEPT ![p] = IF bucket[p].seen THEN @ ELSE now]
  /\ setback' = [setback EXCEPT ![p] =
                   @ + IF Found(p) THEN Larger(0, bucket[p].ts - now) ELSE 0]
  /\ promise' = [promise EXCEPT ![p] =
                   IF yes THEN NoPromise
                   ELSE [cost |-> cost,
                         due |-> now + Second * RetryAfterSeconds(RetryIn(p, now, cost))]]
  /\ stamp' = [stamp EXCEPT ![c] = NoStamp]
  /\ UNCHANGED clock

\* Redis does not answer: AllowN returns an error.
ScriptFails(c) ==
  /\ stamp[c] # NoStamp
  /\ stamp' = [stamp EXCEPT ![c] = NoStamp]
  /\ UNCHANGED <<clock, bucket, admitted, opened, setback, promise>>

\* The callers' requests end before they reach Redis.
GiveUp(callers) ==
  /\ stamp' = [c \in Caller |-> IF c \in callers THEN NoStamp ELSE stamp[c]]
  /\ UNCHANGED <<clock, bucket, admitted, opened, setback, promise>>

Tick ==
  /\ \A c \in Caller : stamp[c] # NoStamp => clock < stamp[c].now + MaxFlight
  /\ TimePasses
  /\ UNCHANGED <<bucket, stamp, admitted, opened, setback, promise>>

LimiterNext ==
  \/ \E c \in Caller, p \in Tenant, cost \in Nat : ReadClock(c, p, cost)
  \/ \E c \in Caller : RunScript(c) \/ ScriptFails(c)
  \/ \E callers \in SUBSET Caller : GiveUp(callers)
  \/ Tick

LimiterSpec == LimiterInit /\ [][LimiterNext]_limiterVars

----------------------------------------------------------------------------
(***************************************************************************)
(* Properties.                                                             *)
(***************************************************************************)
\* What a project was given never exceeds the burst and the rate over the time
\* since its bucket was opened, except by the refill that is paid twice when a
\* caller overtaken on its way to Redis moves ts back (ratelimit.go:70-83).
BudgetHolds ==
  \A p \in Tenant : bucket[p].seen =>
    admitted[p] + bucket[p].tokens
      <= Burst + Rate * ((bucket[p].ts - opened[p]) + setback[p])

\* Retry-After is honest (ratelimit.go:78-80, gateway.go:266-274): if nobody
\* spends in between, the refused request is allowed at the time it was told,
\* unless it costs more than the burst, which no waiting makes possible.
RetryAfterIsHonest ==
  \A p \in Tenant : promise[p] # NoPromise =>
    (Allows(p, promise[p].due, promise[p].cost) <=> promise[p].cost <= Burst)
=============================================================================

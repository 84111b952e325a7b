---------------------------- MODULE TokenBucket ----------------------------
(***************************************************************************)
(* The token bucket (dispatcher/src/schedulers/token_bucket.rs) over a     *)
(* queue whose items carry a fixed cost (fixed_cost.rs).  The bucket is    *)
(* one child of a branch that is scanned by the runtime: a scan is one     *)
(* readiness pass and one take_next, which may reach the bucket whether or *)
(* not it reported ready, because a branch asks its children in turn.      *)
(* Producers push in between.                                              *)
(*                                                                         *)
(* Balances are scaled by the refill interval, as in the code.  The i128   *)
(* arithmetic, which saturates at magnitudes no clock reaches, is exact    *)
(* here, and time, nanoseconds in the code, runs from 0 to MaxTime.        *)
(***************************************************************************)
EXTENDS Integers, FiniteSetsExt

CONSTANTS
  Configs,      \* TokenBucketConfigs: [capacity, amount, interval]
  Costs,        \* costs FixedCost may stamp
  MaxDepth,     \* capacity of the child queue
  MaxTime       \* horizon of the clock

ASSUME BucketAssumption ==
  /\ Configs \subseteq [capacity : Nat, amount : Nat, interval : Nat]
  /\ Costs \subseteq Nat
  /\ MaxDepth \in Nat /\ MaxTime \in Nat

VARIABLES
  cfg,             \* TokenBucket.cfg
  cost,            \* FixedCost.cost
  hinted,          \* FALSE: a branch without cost hint stands in between
  balance,         \* TokenBucket.scaled_balance
  last_refill,     \* TokenBucket.last_refill
  last_now,        \* TokenBucket.last_now
  admission_cost,  \* TokenBucket.admission_cost
  depth,           \* items in the child queue
  scanning,        \* between the readiness pass and the take_next of a scan
  report,          \* what update_ready returned last: [ready, at]
  clock,
  fixed,           \* set_config and set_cost were not called yet
  watch,           \* start of the period whose spending is counted
  spent            \* tokens charged since then, while fixed

bucketVars == <<cfg, cost, hinted, balance, last_refill, last_now, admission_cost,
          depth, scanning, report, clock, fixed, watch, spent>>

None == -1
MinOf(m, n) == Min({m, n})
Scale(c, conf) == c * conf.interval

\* new: the bucket starts full, its first gate is one token.
BucketInit ==
  /\ cfg \in Configs
  /\ cost \in Costs
  /\ hinted \in BOOLEAN
  /\ balance = Scale(cfg.capacity, cfg)
  /\ last_refill = 0
  /\ last_now = 0
  /\ admission_cost = 1
  /\ depth = 0
  /\ scanning = FALSE
  /\ report = [ready |-> FALSE, at |-> None]
  /\ clock = 0
  /\ fixed = TRUE
  /\ watch \in 0 .. MaxTime
  /\ spent = 0

\* refill: the balance at an instant, clamped at the capacity.
Refilled(now) ==
  IF cfg.interval = 0 THEN Scale(cfg.capacity, cfg)
  ELSE IF now <= last_refill THEN balance
  ELSE MinOf(balance + (now - last_refill) * cfg.amount, Scale(cfg.capacity, cfg))

\* Mutant: the time of the refill is not remembered.
NotRemembered(now) == last_refill

RefilledAt(now) ==
  IF cfg.interval = 0 \/ now > last_refill THEN now ELSE last_refill

Covers(bal, c) == bal >= Scale(c, cfg)

\* Mutant: the division rounds down.
CoveredAtFloor(c, bal, at) ==
  LET deficit == Scale(c, cfg) - bal
  IN  IF deficit <= 0 THEN at
      ELSE IF cfg.amount = 0 \/ cfg.interval = 0 THEN None
      ELSE at + (deficit \div cfg.amount)

\* covered_at of a bucket that was refilled at `at` to `bal`.
CoveredAt(c, bal, at) ==
  LET deficit == Scale(c, cfg) - bal
  IN  IF deficit <= 0 THEN at
      ELSE IF cfg.amount = 0 \/ cfg.interval = 0 THEN None
      ELSE at + ((deficit + (cfg.amount - 1)) \div cfg.amount)

Ready == [ready |-> TRUE, at |-> None]
NotReady(at) == [ready |-> FALSE, at |-> at]

\* The gate for the child's projected cost: at most a full bucket.
Gate == MinOf(IF hinted THEN cost ELSE 1, cfg.capacity)

UpdateReady ==
  LET bal == Refilled(clock)
      at  == RefilledAt(clock)
      debtEta == CoveredAt(admission_cost, bal, at)
  IN  /\ ~scanning
      /\ scanning' = TRUE
      /\ last_now' = clock
      /\ balance' = bal
      /\ last_refill' = at
      /\ \/ /\ bal < 0 /\ debtEta # None       \* in debt: no walk
            /\ report' = NotReady(debtEta)
            /\ UNCHANGED admission_cost
         \/ /\ bal >= 0 \/ debtEta = None
            /\ depth = 0                       \* the child is not ready
            /\ report' = NotReady(None)
            /\ UNCHANGED admission_cost
         \/ /\ bal >= 0 \/ debtEta = None
            /\ depth > 0
            /\ admission_cost' = Gate
            /\ report' = IF Covers(bal, Gate) THEN Ready
                         ELSE NotReady(CoveredAt(Gate, bal, at))
      /\ UNCHANGED <<cfg, cost, hinted, depth, clock, fixed, watch, spent>>

\* Spending is counted where a rate is promised, for one configuration, and
\* at the instant of the scan, which the dispatch follows.
Counted == fixed /\ cfg.interval # 0 /\ last_now >= watch

\* take_next refills, checks the gate again, takes and charges an item.
BucketTakeNext ==
  LET bal == Refilled(last_now)
      admit == Covers(bal, admission_cost) /\ depth > 0
  IN  /\ scanning
      /\ scanning' = FALSE
      /\ last_refill' = RefilledAt(last_now)
      /\ balance' = IF admit THEN bal - Scale(cost, cfg) ELSE bal
      /\ depth' = IF admit THEN depth - 1 ELSE depth
      /\ spent' = IF admit /\ Counted THEN spent + cost ELSE spent
      /\ UNCHANGED <<cfg, cost, hinted, last_now, admission_cost, report,
                     clock, fixed, watch>>

\* available: whole tokens, rounded down, negative in debt.
Available == IF cfg.interval = 0 THEN cfg.capacity ELSE balance \div cfg.interval

\* The balance a new configuration starts with.
Carried(c) == MinOf(Scale(Available, c), Scale(c.capacity, c))

\* What was spent under one configuration says nothing of the next.
StopCounting == fixed' = FALSE /\ watch' = 0 /\ spent' = 0

\* set_config, on a bucket that is not being scanned.
SetConfig(c) ==
  /\ ~scanning
  /\ c \in Configs \ {cfg}
  /\ cfg' = c
  /\ balance' = Carried(c)
  /\ StopCounting
  /\ UNCHANGED <<cost, hinted, last_refill, last_now, admission_cost, depth,
                 scanning, report, clock>>

\* FixedCost::set_cost.
SetCost(c) ==
  /\ ~scanning
  /\ c \in Costs \ {cost}
  /\ cost' = c
  /\ StopCounting
  /\ UNCHANGED <<cfg, hinted, balance, last_refill, last_now, admission_cost,
                 depth, scanning, report, clock>>

Push ==
  /\ depth < MaxDepth
  /\ depth' = depth + 1
  /\ UNCHANGED <<cfg, cost, hinted, balance, last_refill, last_now,
                 admission_cost, scanning, report, clock, fixed, watch, spent>>

Tick ==
  /\ clock < MaxTime
  /\ clock' = clock + 1
  /\ UNCHANGED <<cfg, cost, hinted, balance, last_refill, last_now,
                 admission_cost, depth, scanning, report, fixed, watch, spent>>

BucketNext ==
  \/ UpdateReady
  \/ BucketTakeNext
  \/ \E c \in Configs : SetConfig(c)
  \/ \E c \in Costs : SetCost(c)
  \/ Push
  \/ Tick

BucketSpec == BucketInit /\ [][BucketNext]_bucketVars
-----------------------------------------------------------------------------
(***************************************************************************)
(* Properties.                                                             *)
(***************************************************************************)

\* The types of the variables; a balance is never above the capacity.
BucketTypeOK ==
  /\ cfg \in Configs /\ cost \in Costs /\ hinted \in BOOLEAN
  /\ balance \in Int /\ balance <= Scale(cfg.capacity, cfg)
  /\ last_refill \in 0 .. MaxTime /\ last_now \in 0 .. MaxTime
  /\ admission_cost \in Nat
  /\ depth \in 0 .. MaxDepth
  /\ scanning \in BOOLEAN
  /\ report.ready \in BOOLEAN /\ report.at \in Nat \cup {None}
  /\ clock \in 0 .. MaxTime /\ watch \in 0 .. MaxTime
  /\ fixed \in BOOLEAN /\ spent \in Nat

Positive(n) == IF n > 0 THEN n ELSE 0

\* The deficit one item leaves is less than its own cost (with a bucket of
\* capacity 0, which has nothing to set against it, at most its cost).
DebtBounded ==
  fixed => balance >= -Scale(Positive(cost - MinOf(1, cfg.capacity)), cfg)

\* The limiter limits: in any period, whenever it starts, no more is spent
\* than a full bucket, the accrual of the period and the overshoot of one
\* item, and no debt is deeper than that overshoot, although refills are lazy
\* and admission checks a remembered gate (refill, take_next, charge).
RateConformance ==
  /\ BucketTypeOK
  /\ DebtBounded
  /\ spent * cfg.interval <=
        Scale(cfg.capacity + Positive(cost - MinOf(1, cfg.capacity)), cfg)
      + cfg.amount * Positive(last_now - watch)

\* A pass that finds work but not the tokens for it reports an instant that
\* is not past and not after the first one at which the tokens suffice, and
\* reports none only if they never will (while the configuration is fixed);
\* nor, if it recomputed the gate, does it wake the driver early: at the
\* instant it reports the tokens do suffice.
WakesExactly ==
  [][ scanning' # scanning /\ scanning' /\ depth > 0 /\ ~report'.ready =>
        /\ fixed =>
             /\ report'.at # None => report'.at > clock
             /\ \A t \in clock .. MaxTime :
                  Refilled(t) >= Scale(Gate, cfg) => report'.at # None /\ report'.at <= t
        /\ balance' >= 0 /\ report'.at # None =>
             Refilled(report'.at) >= Scale(Gate, cfg) ]_bucketVars
=============================================================================

# nv-redfish in TLA+

This directory specifies nv-redfish, a Rust client library for Redfish services
(the management interface of servers): the **dispatcher**, a runtime that
schedules work over a tree of schedulers; the **HTTP client** with its reply
cache; the **compatibility layer** that repairs what platforms get wrong; the
**typed resource API**; and the **CSDL compiler** that generates the types. The
modules are translated from the source under `src/`. TLC checks them on small
instances, and TLAPS proves the results of section 5 for every value of the
constants.

`PROJECT.json` is the machine-readable index: components, runs, mutants, the map
from definitions to source lines, findings, hazards and theorems.

## 1. Inventory

### Dispatcher (`src/dispatcher`)

| Component | State | Operations | Interacts with |
|---|---|---|---|
| Bounded queue (`bounded_queue.rs`), FIFO (`queue_fifo.rs`) | entries by id, discipline, lifecycle Open/Draining/Drained, in-flight and statistics counters, id and order counters, event sink, `drained_event_sent`; outside the mutex the producer count | `try_push` (admit, evict, reject), `clone`, `drop`, `close`, `take_next`, `on_complete`, `register_queue_event_sink` | producers on any thread; the scheduler thread; the runtime through the event sink, always after the mutex was dropped |
| Stochastic fair queue (`queue_sfq.rs`) | buckets of ids, rotation of buckets, bucket of each id | `push`, `take_next`, `remove` | the bounded queue, under its mutex |
| Runtime and signals (`runtime.rs`, `event.rs`) | in-flight payloads, completions, outputs, sleep hint; `Shared` (root, shutdown) behind one mutex, waker and events behind another | `next` (a poll loop), `graceful_shutdown`, `with_root_mut`, queue events | executor, payload futures, producers, the root scheduler |
| Round robin (`round_robin.rs`) | slab of slots, live list, free list, rotation of (id, generation), stale count | `add_child`, `remove_child`, `update_ready`, `take_next`, `on_complete` | children, by routing tag |
| Circuit breaker (`circuit_breaker.rs`), concurrency cap (`bounded_concurrency.rs`) | Closed/Open/HalfOpen, sample window, in-flight counters | `update_ready`, `take_next`, `on_complete` | one child |
| Token bucket (`token_bucket.rs`), fixed cost (`fixed_cost.rs`) | balance, refill instant, admission gate, config | `update_ready`, `take_next`, `set_config`, `set_cost` | one child, the runtime's clock |
| Periodic leaf (`periodic_leaf.rs`) | next due instant | `update_ready`, `take_next` | the runtime, through readiness deadlines |

Hard here: producers, payloads, handle and clock run between any two steps of
the driver's poll; several pieces of state live behind different locks, and the
code acts after it unlocked; ids, generations and orders wrap; completions come
back late, after their child was removed or their breaker opened; readiness and
deadlines are remembered and may be stale when used. Correct means: nothing is
dispatched twice or lost, the driver never sleeps on something it could do, a
shutdown ends, a closed queue is reported drained once, completions find their
child, limits limit.

### HTTP client (`src/bmc-http`)

| Component | State | Operations |
|---|---|---|
| CAR cache (`cache.rs`) | clocks T1 and T2 with reference bits, ghost lists B1 and B2, target p, index | `get`, `put` (with `replace`) |
| `HttpBmc` (`lib.rs`) | the cache and the credentials, each behind its lock | `get`, `expand`, `filter` and their repaired forms through `get_with_cache`; `create`, `create_session`, `update`, `delete`, `action`, uploads, `poll`, `stream`; `set_credentials` |
| Concurrency limit (`concurrency.rs`) | semaphore permits; a stream gives its permit back once it is open | every request |
| reqwest transport (`reqwest.rs`) | attempts and redirects of a request; delimiter state and byte count of an event stream, its last event id | requests with retries, `sse`, `sse_events` |
| Response decoding (`response.rs`) | none | modification, poll and session answers, message envelopes |

Hard here: callers interleave around the network call and may drop their future
at any await; a 304 is answered from a copy that others may evict or replace; a
retry or redirect repeats what was sent; a cap must hold at its exact byte
however the chunks fall; the cache moves keys between four lists while a put is
under way.

### Compatibility layer and resource API (`src/quirks`, `src/redfish`, `src/core`)

| Component | State | Operations |
|---|---|---|
| Quirks (`rules.rs`, `platform.rs`, `fixes.rs`, `events.rs`, `replies.rs`, `user.rs`) | the quirks a service root shows | classification, repairs of documents and events, reading of write replies |
| `CompatBmc` (`compat.rs`) | the quirks | reads and streams with repairs, `update` with its choice of ETag |
| Accounts (`account/`) | a collection as a snapshot | create (slot or POST), update, delete, refresh |
| Asynchronous actions (`task_service/`) | a handle: pending, ready, finished, done | `poll_result`, `pending_task`, `resume` |
| Resource wrappers (the rest of `redfish`) | each a snapshot of one resource | navigation, listing, update, create, delete, actions |

Hard here: a handle is a snapshot of something others change; a write is planned
around what a platform does wrong with ETags; a poll is interrupted between
learning where a result is and reading it; quirks combine.

### CSDL compiler (`src/csdl-compiler`)

A sequential translator: `compiler` indexes a bundle of schemas and compiles a
root set over a stack of frames, `optimizer` folds types away in five passes,
`generator/client_rust` decides which structs there are. Hard here: recursion
through types that hold each other, and renaming while others keep names.

### The rest

`src/server-core`, `src/bmc-mock`, `src/schema`, `src/tests` and the examples
have no protocol of their own; PROJECT.json gives the reason for each.

## 2. Plan

Done, in this order: `QueueContract`, `BoundedQueue`, `Runtime`, `RoundRobin`,
`CircuitBreaker`, `TokenBucket`, `CarCache` with the proofs of queue and cache;
then `HttpBmc`, `Transport` with `ResponseDecoding` and `EventStream`, `Quirks`,
`Repairs`, `CompatBmc`, `CompatReads`, `Accounts`, `AsyncAction`, `ResourceApi`,
`ResourceTree`, `CsdlCompiler`, `CsdlOptimizer`, `CsdlGenerator`,
`StochasticFairQueue`.

The proofs of section 5 followed: every safety invariant and action property of
the modules that reach no RECURSIVE operator is a theorem. What is left to TLC is
listed at the end of that section.

Next: the slot level of the clock and ghost lists (free slots, links, hand),
shown to implement the sequences of `CarCache`.

## 3. Modules

Conventions. A critical section of the code, or what it does between two awaits,
is one action; what follows is a later action of the same actor. Variables and
operations keep the names of the source. Widths are constants (`IdSpan` for 2^64
ids, `U32Span` for the 2^32 values of a u32, `OrderMax`, `CounterMax`), so small
instances reach the wrap. A definition commented *Mutant* (or named `Mut...`) is
not used by the specification: it is the plausible bug that the property named
in PROJECT.json has to catch.

### Dispatcher

**QueueContract** is what a queue promises, without ids, disciplines or locks:
works are queued, running or neither, oldest first when `Ordered`, an evicted
work makes room for a new one, a closed queue admits nothing and is Drained
exactly when nothing is queued or running.

**BoundedQueue** has the queue's fields as variables, the producer handles that
exist, and for each thread (`pending`) what it still does after it dropped the
guard: emit an event, or close after the drop of the last handle
(`fetch_sub`, then `close_shared`). Admission policies are user code, so any
decision may be taken; the code's own consistency checks on it are kept. With
`Malformed` the discipline may at any time forget an id or hold a stale or
repeated one, which is the case the bounded retry and the fallback to the oldest
entry exist for. The refinement mapping to QueueContract takes the works of the
live entries, ordered by admission number, so it spans wraps and rebases.

**StochasticFairQueue** is the second discipline, with its three indexes. The
hash of a flow is any bucket. `overtaken` is history: which buckets were served
while another waited.

**Runtime** models one driver that polls `Runtime::next` over a root with one
queue (by its contract) and at most one periodic leaf, which `with_root_mut` may
add, remove or reschedule. `pc` names the steps of the poll: register the waker,
forward completions, pop an output, lock the root, `update_ready`, `take_next`
(the root mutex is held over these), `drain_completed`. Between any two of them
producers push, close and wake, payloads finish and notify the task if they had
been polled, the handle shuts down, and time passes. `Resume` and `PollEarly`
are the executor (external): it polls a notified task, may poll a task that was
not notified, and the driver retains the deadline of `SleepUntil` as its timer.
A queued item may be evicted by a later push, as the queue's policy allows.

**RoundRobin** has the slab, live list, free list, rotation and stale count as
in the code, with ids from 1. Children are opaque; `ready` says which would
return work and changes at any time. `outstanding` records to which child each
item in flight belongs. A removed child with items in flight stays in its slot
until the last completion.

**CircuitBreaker** is the breaker over `BoundedConcurrency`, nested as the
breaker's comments expect. Instants are relative (time left of the cool-down,
age of a completion), so the clock is unbounded. An item is `old` once the
breaker has opened since its dispatch; `completed_at` may precede the forwarding
of the completion by any lag up to the cool-down.

**TokenBucket** is the bucket over `FixedCost` over a leaf of some depth. The
balance is the scaled integer of the code. `scanning` is true between a pass and
the `take_next` that follows it, with pushes in between. `watch` and `spent` are
history: what was spent since an arbitrary instant; `fixed` says that config and
cost have not changed since it began.

### HTTP client

**HttpBmc** has the tasks of an async runtime as actors over one shared value. A
call waits for its permit in arrival order, copies the cached entity, reads the
credentials, sends one request, and on return fills the cache and gives the
permit back; the service serves it, changes, or fails in between; the caller may
drop the future wherever the code awaits. The service is external: a resource is
its version, which is also its ETag, and conditional requests are answered as
RFC 9110 has it.

**Transport** is one request: built or refused, sent, redirected within its
origin, retried while the policy says so and the body can be cloned, and decoded
by the operators of **ResponseDecoding**. `wire` is history: where it was sent.
What a body says is kept as far as the code looks: whether it fits the type
asked for, its id, a Task of which origin, and the three places of messages.
The loop over a list of messages is a recursive function of how many it has read.

**EventStream** has the byte adapter over an alphabet of CR, LF and anything
else, and the frames above it: ids, data, errors that end the stream or do not,
the idle timeout, and a consumer that reopens with the last id it was given.

**CarCache** has the four lists as sequences that start at the clock hand or at
the LRU end, the reference bits as a set, and the index apart from the lists, as
in the code. The iterations of the loop in `replace` and the rest of `put` are
steps of their own, so termination and the transient sizes within a put can be
stated. The paths that the code takes when a list has no slot are in the model;
the invariants show that they are never taken.

### Compatibility layer and resource API

**Quirks** and **Repairs** are the crate as operators. **Quirks** has the platform
table, the repairs of event records in their order, how replies to writes are
read, and which ETag an update is sent with; **Repairs** the fixes of documents,
the walk over a document and the documents inlined in it, and the user's rules.
A property's value is named for what schema and fixes tell apart, and an event
record keeps whether each of its properties is there and well-formed: `NoId` is
an absent id, `PositionId` one that a repair made of the record's position.
**CompatBmc** puts them to work against a service: events of any payload, and an
update that may first read an ETag while another client writes. That read may
fail, which ends the update, or find a resource without an ETag, after which the
transport sends `If-Match: *` all the same; request and reply may be lost. **CompatReads**
adds the reads of documents from a device that has the defects its root
announces. They are apart because the walk over a document is recursive.

**Accounts** is the account service used by several clients: on iDRAC 8 and 9
fixed slots that are taken over with a conditional update and given back by
disabling, elsewhere POST and DELETE.

**AsyncAction** is the handle of an action that completes later, over five ways
in which services show operations, with monitors that move, polls that fail or
are dropped, and a process that resumes from a saved task.

**ResourceApi** is a table: for each typed wrapper its operations, as the
documents they read one after the other and what they return. **ResourceTree**
walks it while the service changes: a document that inlines another hands out
the copy it was read with, a hop may be answered by an inlined copy, a list
reads its members one at a time, an update or create goes on to read what the
reply names, and what a link leads to is read as the type it promises. `asOf`
dates what a handle holds. `TableAssumption` says what a row of
the table is made of; the walk and its proofs depend on nothing else of it.

### CSDL compiler

**CsdlCompiler** has the index, the three ways to a root set (types by name,
singletons with patterns, everything in the root documents), the root by root
traversal with the stack of frames, and the phases of annotations and actions.
What patterns match comes out of hash maps, so its order is any; **CsdlOptimizer** the five
passes, one step each, with the image of every original type as history;
**CsdlGenerator** the structs that are emitted and those that are named.

### Proofs and instances

**SequenceFacts**, **BoundedQueueProofs**, **BranchProofs**,
**RuntimeProofs**, **DecoratorProofs**, **HttpBmcProofs**, **TransportProofs** and
**RedfishProofs** hold the proofs; **MC*** the instances. Where an MC module puts
components side by side that share no state, a variable `subject` says which of
them a behaviour is about, and the others stay as they were built: the run checks
each of them on its own.

## 4. Runs

| Run | States | Shows |
|---|---|---|
| admission | 1,049,543 | FIFO queue of two with two producers, three works, two runtimes: counters, lifecycle, one Drained event per attachment, refinement of QueueContract; token bucket: rate over any period, bounded debt, exact wake-ups |
| recovery | 229,958 | breaker: no verdict from before an opening, no dispatch in a cool-down, every opening is probed; queue: with a misbehaving discipline a queue closed by `close` or by the last drop still drains and reports it (that such a queue keeps the contract, unordered, is the theorem `ContractImplemented`) |
| runtime | 2.1 million | the lost wake-ups, the order of completion and result, shutdown |
| runtime_liveness | – | what must eventually happen: results, queued work, deadlines, shutdown |
| branches | 847,292 | round robin: membership changes with items in flight, id reuse, generation wrap, nobody overtaken twice; fair queue: indexes and turns over pushes, takes and evictions |
| http_bmc | 245,658 | a get is no older than its call and never misses its copy; requests carry the credentials in force; permits are conserved and every call ends |
| transport | 483,497 | the wire is bounded and stays at home; answers are read as documented and what is returned can be followed; the event cap and resumption are exact; sizes, index, victim and termination of the cache |
| redfish | 3.4 million | repairs of documents and of events, writes, account slots, outcomes of actions, walks |
| csdl | 114,303 | cycles are decided rightly, no pass loses a property, every name resolves; the properties name three exceptions, see *Losses of the optimizer* |
| runtime_sticky_shutdown, redfish_members, redfish_links | violation | see *Findings* |

Why the bounds are enough.

- *admission*: capacity 2 and three works give full queues, evictions and a
  waiting entry; four ids and four orders wrap and rebase with entries live; two
  runtimes give detach and re-attach. `CounterMax` 1 makes statistics saturate.
  Bucket configurations whose rate does not divide evenly and the three zero
  edges; costs below, at and above the capacity; six time units are two full
  refills of each.
- *recovery*: cap 3 with four item names, a window of four, two samples minimum,
  threshold 2/3: trips at, above and below the fraction, up to three late
  completions over an opening. For the queue three ids against capacity 2, a
  discipline of up to three ids (each live one, stale ones, repetitions).
- *runtime*: two works, two ticks, two in flight: full and below the cap;
  a deadline may pass, be withdrawn or be replaced within time 0..2. The liveness
  instance is smaller since liveness checking is slower; the races it needs
  (signal against park) involve one item.
- *branches*: with three children one can be removed while another moves by
  swap-remove and a third keeps its place; three generations wrap; two items
  are in flight for one child, or for a removed one and its successor. Four
  entries in three buckets give every rotation with a bucket that holds more.
- *http_bmc*: three callers over two permits make one wait; a cache of one entry
  makes a get evict what another is about to fall back on; two types of one URL;
  one change of the resource and of the credentials fall anywhere.
- *transport*: one retry and one redirect, each allowed and exhausted; a limit of
  three bytes against seven; three events over reconnections; all message
  envelopes of up to two messages. The cache has four pages and 2c + 1 keys: all
  four lists can be full with a key outside, and ghost ratios above one occur.
  The run's VIEW replaces each key by the first place where it occurs, which
  identifies exactly the states that differ by a renaming of the keys.
- *redfish*: a root for every rule of the platform table; each document a fix
  looks at, alone and inlined; event records in all combinations of their
  fields; two clients and three slots, one of them without ETags; two moves and
  four polls, enough to interrupt and to resume; two changes of the service
  within a walk of any length. Every slot of the instance is numbered and a member
  of its collection: that unnumbered members and slots out of range are left
  alone is only the theorem's (`FreeSlotCorrect`). The service of `AsyncAction`
  answers at the place of a result with a result, so the bound of one place
  followed per poll (`MayFollow`) never turns a second one down.
- *csdl*: bundles around one resource and its collection, varied in what holds
  what by value, in inheritance, actions, roots and filters: direct and indirect
  cycles, folded chains, empty types (one of which admits undeclared properties),
  actions bound to one or two versions of a type, forced updates and creatable
  types occur, with roots and vocabulary terms that are refused. Not among them:
  folds deep enough for permissions to become stale more than one level up, and an
  enum and a struct of one name; `NamesResolve` says nothing of those.

Three properties are stated with a condition that a reader should know of. The
main clauses of `RateConformance` and `WakesExactly` speak of periods in which
configuration and cost stay as they are; over a `set_config` only the bound on the
debt is checked. `WireBounded` lets a streaming body go out in one attempt, with
the redirects of that attempt. `DecodedFaithfully` says of a location that it is
on the BMC, not of the `@odata.id` in an entity that a body holds, which the code
takes as it is (`response.rs:460`).

Symmetry is used where works, children, items or clients are
interchangeable, and in no run with a liveness property. Deadlock is not checked
in *transport* and *redfish*, where a request, a poll or a walk comes to its end.

**Fairness.** `BoundedQueue`: the driver keeps scanning (`TakeNext`), payloads
complete, a thread that has unlocked runs on. `Runtime`: the executor runs a
notified task and the driver calls `next` until Shutdown, which is how the
documentation tells callers to use it; threads deliver the wake-up they owe;
payloads finish; time passes. `CircuitBreaker`: the driver asks again at the
reported deadline, completions arrive, time passes. `HttpBmc`: the executor
polls every task that can go on, and a request ends, at the latest at the
transport's timeout; that waiters are served in order is the semaphore's, not an
assumption. All weak: none of these steps competes with another for a lock for
ever. Producers, closing, shutdown, cancellation and reconfiguration are never
assumed to happen.

**Findings** (the code is modelled as it is):

- `RuntimeOutput::Shutdown` is documented as sticky; with `runtime-events` a
  queue that drains afterwards makes a later `next` return an event first.
- On the AMI 1.11.0 platform, which both omits links of its root and lists
  members that are not systems or managers, `SystemCollection::new` and
  `ManagerCollection::new` reach the collection at its default address and do
  not apply the member filter there.
- `task_link` and `job_link` are documented to refuse what is not a child of their
  collection; given the address of the collection with a trailing slash they hand
  out a link to the collection (`LinksInCollection`). `HandlesTrue` therefore
  speaks of handles that are no links; following such a link fails, since the
  reply is not of the type the link promises.

**Losses of the optimizer.** `remove_empty_complex_types` calls the types it removes
"definitely not needed for code generation" (lines 18–20). In three cases the model
shows that they are, and the properties of *csdl* say exactly which; a bundle of
the run has each case, and the property without its exception is violated there.

- When an empty actions type and the ancestor that replaces it both bind actions,
  `map_types_in_actions` (`optimizer/mod.rs:78`) collects both into one entry of a
  `HashMap`, and hash order decides which set of actions is lost. `ShapeKept` asserts
  that the merged type has the actions of exactly one of the bindings.
- `ct_is_empty` (`remove_empty_complex_types.rs:71`) looks at the properties alone: an
  empty type that states `OData.AdditionalProperties` is replaced by its parent and
  the permission is lost for it and for the types deriving from it, against what the
  folding pass says of such a loss (`prune_complex_type_inheritance.rs:91`).
  `ShapeKept` admits no other loss of a permission.
- If an action takes such a type and the parent is read-only, the parameter keeps
  the type info of the empty type, so the generated request names an update struct
  that is not emitted and does not compile. `NamesResolve` admits only the updates
  of types that replaced an empty parameter type (`StaleUpdates`).

One more divergence is part of a property: `strict_success_code` is documented to
admit `ResetRequired` and to refuse `NoOperation` only beside `Success` or `Created`
(`response.rs:224–228`); it refuses `NoOperation` beside `ResetRequired` too (343–347).
`DecodedFaithfully` takes the words of the documentation (`DocumentedStrict`) and
asserts that the code gives nothing for just these bodies (`AsksResetForNothing`).

Remarks met while modelling, which no run checks:

- The breaker is documented to trip when the failure fraction *exceeds* the
  threshold (`circuit_breaker.rs:18`); it trips at equality.
- A comment of the token bucket (line 265) says that the gate is always
  recomputed before admission can pass; an item pushed between a pass that found
  the child empty (239) and the `take_next` of the same scan is admitted against
  the old gate. The debt this leaves is within what `RateConformance` bounds.
- `prune_complex_type_inheritance` notes itself that permissions of nested types
  may be stale after folding; a folded base's dynamic property patterns are not carried over.

## 5. Proofs

**BoundedQueueProofs** assumes only `QueueAssumption`: the capacity is positive
and below the number of ids, and does not exceed the largest order (in the code a
`usize` against 2^64). Producers, works and runtimes are arbitrary sets, and
`Malformed` is arbitrary. The inductive invariant `Inv` strengthens the checked
invariants with

- `CapacityHeld` and `OrdersDistinct`: without them an insertion could find no
  free id, and a rebase could give two entries one order. The rebase is shown to
  assign ranks, from which distinctness and the bound follow (`BelowGrows`,
  `RankBounded`);
- `WorkUnique`: a work is in one entry or running, not both, without which a
  dispatch could leave the number of running works unchanged;
- `HandlesCounted`, `LastDropCloses`: the producer count is the number of
  handles, so exactly one drop is the last, and it closes or is about to;
- `EventsExact`, `OneAnnouncement`: which (runtime, queue id) pairs have been
  announced, are about to be, or cannot have been yet. They carry
  `DrainedAtMostOnce` and `DrainedReported` over re-attachment.

From `Invariance` follow TypeCorrect, InFlightCorrect, LifecycleCorrect and with
them CountsCorrect (`CountsExact` of the run); DrainedOnce, DrainedTold and with
them DrainedExact (`DrainedExactlyOnce`); and OrdersCorrect. ClosingIsForGood is
an action property: no step reopens or refills a closed queue, or uses a drained
one.

`ContractImplemented` is the refinement: under the mapping of `BoundedQueue`
(the works of the live entries, ordered by admission number) the initial state is
one of QueueContract's and every step is a step of it or a stutter. It needs one
more invariant, `FifoExact`: unless `Malformed`, the discipline lists the live
ids in the order of their admission numbers, so that what `take_next` pops is the
oldest. A renumbering changes the numbers of all entries at once; that it changes
no pair's order makes it a stutter. Each action has a lemma `...Simulated`.

**BranchProofs**. The fair queue, for any number of buckets and entries:
`FairQueueInv` says that the three indexes agree, that the rotation has no
duplicates and that a bucket served while another waited is behind it; the
lemmas before it say what appending and removing do to the order in a sequence.

The round robin (`RoundRobinAssumption`): children and items are finite sets that
a u32 can count, since `in_flight` saturates and generations wrap. The memory of
the process ends long before. `RoundRobinInv` has four parts.

- `SlotsInv`: a free slot has nothing in flight, the others hold different
  children, only live children are asked. `SlabExact` is as checked: `live_ids`
  with `live_pos` survives swap-remove, the free list names the free slots.
- `ItemsInv`: `RoutesHome`, as checked. An item belongs to a slot that is not
  free, so a completion never meets a successor of its child.
- `RotationInv`: every rotation entry has an *age*, the number of generations its
  slot has had since. Of one slot's entries the older are in front, no age is
  missing below another, and a live slot has an entry of age 0. This is what the
  wrap needs: when an id is reused all its entries are stale and one of age a has
  a younger companions, so a + 1 is at most the number of stale entries, which
  purging keeps at or below the number of live children and so below 2^32 (the
  last follows because the child just removed is not live). A generation thus
  never comes round to an entry that is still there.

`take_next` and the purge reorder the rotation; `Reorders` is what the ages need
of a reordering, and `RotatedPlaces` and `PurgedPlaces` show that the two are of
that form. From the invariant follow `MembershipCorrect` (every live child is in
the rotation once, and the rotation is at most twice as long as `live_ids`),
`RoutingCorrect`, and `NoOvertaking`: entries behind the one that was served move
up without changing their order, so the served child falls behind, and nobody
else gets in front.

**RuntimeProofs**, for any producers, works, ticks, cap, interval and horizon.
`RuntimeInv` says for every point of the poll what has been noticed by then:
`Registered` (the waker is in place or was used), `Placed` (an item is in one
place, and the queue counts the dispatched ones), `ScanKnown` (what was read under
the root mutex still holds), `HintKept` (an emitted deadline is retained or
reached), `DrainedOnce`, and `Noticed`: whatever the poll has left behind at this
point was told to it afterwards. `NothingLost` is `Noticed` at the parked driver.
`ReportsCorrect` and `ShutdownCorrect` follow.

**DecoratorProofs**. `BreakerInv`: both counters count what is outstanding, a
closed breaker has no work from before an opening outstanding, an open one's time
left and the time since it opened add up to the cool-down. `BreakerCorrect` is
`OpenMeansOpen`. `BucketInv`: what was spent since the watch began, with what is
left, came from a full bucket and the accrual up to the last refill; the
remembered gate is one that bounds the debt. `RateCorrect` and `WakesCorrect` are
then arithmetic over a refill and over the ceiling division, proved once as
lemmas. Configurations and costs are any sets of naturals, zeros included.

**HttpBmcProofs**, for any callers, URLs, types, limit and cache capacity.
`HttpBmcInv` is a conjunction over the callers: what a request carries, what the
copy it took was and what the service answered are related to the versions and
credentials of *now*, which only grow; that makes one caller's part stable under
the steps of all others (`OthersKept`). With it, the queue of the semaphore holds
the waiting callers once each, and free and held permits add up to the limit.

**TransportProofs** has the cache, the wire, the answers and the event stream.

The cache assumes that the capacity is a natural number (0 included) and
holds for every set of keys. `Inv` is the exact index, finite reference bits, the
sizes at every point of a put, and that the key of the running put is not
resident. The sizes within a put are what makes it inductive: after `replace` the
pages are c - 1 and the directory is still at most 2c, which bounds B1 by c and
B2 by c + 1, so that every demotion finds a slot and every discard a ghost.
TypeCorrect, SizesCorrect and IndexCorrect together are CacheCorrect
(`CacheExact`). `ReplaceTerminates` proves the progress of each iteration of the
loop, and `SizesCorrect` that an iteration always finds a page to look at.

`VictimCorrect` needs how far the replacement has come (`Scanned`): m pages of T1
were promoted and the hand of T2 has passed over q pages, all referenced, their
bits cleared; what the clocks hold now is determined by m, q and the clocks at
the start, and so is the page that is found first.

`WireCorrect`: the wire holds full rounds of redirects for the attempts that are
over, and the first send and its redirects for the one that is not.

`AnswersAreDecodedFaithfully` is `DecodedFaithfully` for every service. It assumes
(`AnswerAssumption`, `AbsentAssumption`) that an answer and a body have the parts
the model gives them, that a list of messages is finite, and that no URI is named
like a kind of unusable Location; a body may hold an entity with any id, also one
of another service. The code folds codes and messages into a
`Names` value in the order it meets them; the documentation speaks of the set of
what a body contains. `Sums` relates the two: the `code` of the names is the
worthiest of a set of codes, `no_operation` and `other` say what the set says.
Naming a code, adding names and reading one more message keep it, a list is read
to its end by the least message at which it would not hold, and a spoiled list is
recognised because what stands for it is no success code. The rest is a case
analysis over statuses and Locations (`Sound`), with `AnswerInv`: the response
looked at is one of those to this request, and there is none before an answer.

`ResumeCorrect` (`FrameInv`): the id in effect on a stream is decided by the
frames it has received, the id to resume after by those up to the last item, and
it names a frame that was received, so a reopened stream starts with it in
effect. `CapCorrect`: the state of the delimiter automaton says how the last byte
ended and where the record began that is being counted; one more byte turns at
most one record end, a CR that an LF follows, into none.

**RedfishProofs**. `AsyncInv`: a place that is kept across polls, drops and
restarts is one that the service gave out; a settled handle stands for an
operation that completed; the handle is Done exactly when it has told its
outcome. `AccountsInv` is, per client: a handle or a target is of the past of its
slot, and if the version is unchanged so is the owner (conditional updates are
safe for that reason), and every usable slot that was never busy is still to be
looked at, a candidate, or above the one that is taken. It assumes that slots are
numbered (`AccountsAssumption`). `FreeSlotCorrect` and the action property
`AccountsKeptCorrect` follow for any number of clients.

`CompatInv`, for every set of roots and payloads, any records in them
(`PayloadAssumption` says only which properties a record has), any number of
changes by other clients and reads of any document in between: once the layer is
ready its quirks are those of the root and nothing is done before, and an update
that was called, has read its ETag (or read that there is none) or is done is
consistent with what it was given, saw and sent, and with what became of it. `WritesAreFaithful` goes through every plan an ETag quirk
leads to and every form in which a service reports success or refusal. With
`ReadInv` the repairs of a record are followed in the order of the code;
`EventsAreReadable` depends on that order twice, as the comments of `events.rs`
say.

`TreeInv`, for every service, every number of its changes and walks of any
length: a handle's data were read by now, a handle whose root gave $expand up
knows of none, a navigation has read nothing from before its call, and a member
that was listed is read, still to do, or may be passed over. Of the table of
wrappers only `TableAssumption` is used. `HandlesStayTrue`, `ListsAreWhole` and
the action property `WalksGoForward` follow.

Not proved, only model-checked:

- liveness (`CloseEventuallyReported`, `OpenIsProbed`, `EveryCallEnds`,
  `WorkServed`, `ShutdownCompletes`): fairness and ENABLED are out of the
  prover's reach;
- `DocumentsReadable` of `CompatReads`, and `CyclesDecided`, `ShapeKept` and
  `NamesResolve` of the `Csdl*` modules: documents and types are recursive, so are
  the walk, the compiler and the generator, and what a RECURSIVE operator computes
  for every input is an induction over data, which the prover cannot do.

## 6. Not modelled, and why

- Strict priority: a fixed order over `RoundRobin` classes without removal; it
  adds no state, and a property of it would restate the order of its loop.
- Values, payload results and type erasure: they move with keys and items and no
  property tells them apart.
- Saturation of i128 balances and overflow of `Instant`: reached only by
  durations of centuries; the models use exact arithmetic.
- Statistics cells (`stats.rs`), logging, builders, error texts.
- Poisoned locks and panicking user code: the code propagates the panic.
- Accessors of the resource wrappers that compute from data at hand; scalar OData
  types; query strings.
- EDMX parsing, the text of the generated code, the server generator, the
  features manifest and the command line of the compiler; generated code itself.
- TLS, connection pools and the SSE parser, which are libraries.
- `server-core`, `bmc-mock`, `schema`, tests and examples.

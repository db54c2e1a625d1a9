# Formal models of the Rust Architect Book's systems

TLA+ modules, TLC configurations and TLAPS proofs for the programs in
`src/Rust-Architect-Book/listings/`. The repository is a book: most of its 1,171
files are prose or short demonstrations of one language rule. Its own systems are
the *projects* and the fixed *reviews*, programs of 200 to 900 lines with threads,
locks, async tasks, timeouts and shutdown protocols, and the compilers of part 17.
They are what is modelled.

In what follows paths are relative to that directory, and `P3`, `P4`, `P5` and `Q` are the listings
`part-11/project-03-http-server.rs`, `part-11/project-04-ferrite-v1.rs`,
`part-13/project-05-ferrite-v2.rs` and `part-11/review-02-quota-fixed.rs`.

Run a model with `tlc -workers 2 -config quota.cfg MCQuota`, check proofs with
`tlapm FerriteV1Proofs.tla`.

## Inventory

### Worker pool (P3, reused by P4) — modelled
*State*: a bounded `VecDeque` with a `closed` flag under one mutex, a condition
variable, three counters, the workers' join handles. *Operations*: `new`,
`try_submit`, `worker_loop`, `shutdown`, `Drop`. *Used by*: the accept loops of
minihttp and ferrite v1, which hand it connections. *Hard*: notifications are sent
after the lock is released; a panic in a handler is caught; shutdown must drain,
and `Drop` runs the same code a second time. *Correct if*: no wakeup is lost,
shutdown returns, its report is final and complete, the pool behaves as a bounded
FIFO service.

### Sharded store (P4, copied to P5) — modelled
*State*: one `RwLock<HashMap>` per shard, a random hasher, `poison_recoveries`.
*Operations*: `get`, `put`, `delete`, `len`, the test hook that panics under a
lock, and the recovery in `read`/`write`/`note_recovery`. *Used by*: every
connection of ferrite. *Hard*: recovery writes (flag, counter) under a lock that
readers share; `len` is not a snapshot. *Correct if*: linearizable, no poisoning
forgotten or counted twice, `len` exact when nothing changes.

### Ferrite v1 server and connection (P4) — modelled
*State*: an `AtomicBool`, the listener, the static counters `ACTIVE` and `PEAK`,
the pool; per connection a `BufReader`, a `BufWriter` and the line. *Operations*:
`Server::run`, `ShutdownHandle::shutdown`, the handler closure,
`handle_connection`. *Hard*: a blocking `accept` has to be woken by a connection of
the process's own; counters are updated in several atomic operations; a panic
skips the decrement; replies are flushed only when the reader's buffer is empty.

### Ferrite v2 server and connection (P5) — modelled
*State*: a `JoinSet`, a `Semaphore`, a `CancellationToken`, `Stats`; per connection
a `FramedRead<LineCodec>` and a `FramedWrite`. *Operations*: `Server::run`,
`record`, `ActiveGuard`, `serve`, `LineCodec::decode`, `send_now`, `refuse`.
*Hard*: three-way biased `select!`, tasks that finish, panic, are refused or are
aborted while the drain deadline expires, cancellation against a ready request,
backpressure at the write buffer. *Correct if*: the connection limit and the peak
are exact, shutdown is bounded whatever clients do, the report accounts for every
connection, framing is independent of fragmentation, no reply is withheld.

### Partner quota tracker (Q) — modelled
*State*: sharded windows (`used`, `inflight`, `alerted`), an `ArcSwap` of limits, a
bounded audit channel and its writer. *Operations*: `try_acquire`/`decide`,
`Admission::drop`, `close_window`, `reload_limits`, `shutdown`. *Hard*: reserve,
audit and compensate are separate critical sections, and windows may be closed
between them. *Correct if*: slots and usage are exact, the audit log is complete,
nothing is lost on the way to billing, one alert per window. The unreviewed
original, `part-11/review-01-quota-pr.rs`, is the book's bad example and is not
modelled.

### Ore, two compilers (part 17) — partly modelled
*State*: a function as it goes through the stages: tree, basic blocks, SSA,
optimized SSA; or the tables of an allocation or an analysis. *Operations*: the
resolver, checker, bytecode compiler and stack machine of `ch01-01-pipeline.rs`;
lowering, dominators, SSA construction, four passes and the interpreters
(`ch06-01-cfg.rs`, `ch06-02-ssa.rs`, and `ch07-01-optimizer.rs`, which repeats
both); the data-flow analyses of `ch06-03-dataflow.rs`; liveness, linear scan,
instruction selection and the emulator of `ch08-01-regalloc.rs`. *Interact*: each
stage relies on what the one before promises: the passes on strict SSA, SSA on
exact dominance, selection on intervals that cover every live point. *Hard*: what
a pass breaks shows only in programs the next pass meets in a certain shape; the
book itself has chapters on such bugs (`ch06-06`, `ch07-04`, `ch08-03`). *Correct
if*: the two compilers agree, no pass changes a result or hides a run-time error,
SSA stays strict, two live values never share a place.

### Hand-built executor (`part-12/ch05-03-executor.rs`) — modelled
*State*: a channel of tasks, per task a future and a `queued` flag, join states and
sleeps with a waker each, the timer's heap. *Operations*: `run`, `wake_by_ref`,
`spawn`, the polls of `JoinHandle`, `Sleep` and `JoinAll` (`ch05-06-wake-dedup.rs`),
the timer thread. *Hard*: the timer wakes a task while the executor clears its
flag, polls it or completes the task it waits for. *Correct if*: no wakeup is lost,
a task is queued at most once, `run` returns when all is done.

### Webhook relay (`part-13/review-02-webhook-relay-fixed.rs`) — modelled
*State*: a queue, a semaphore, a `JoinSet` and a set of ids in flight per merchant;
four lists of outcomes; an audit log with a buffer. *Operations*: the intake,
`dispatcher`, `deliver_with_retries`, the shutdown with a deadline, the report.
*Hard*: a stop finds events in a queue, in a dispatcher's hand and in deliveries;
the deadline aborts some of these anywhere. *Correct if*: every event ends in one
list, once; the report is complete and comes whatever the endpoints do.

### SPSC ring (`part-14/review-spsc-fixed.rs`) — modelled
*State*: two counters and the slots. *Operations*: `push`, `pop`, dropping the
handles and the ring. *Hard*: a slot changes hands through an Acquire load of a
Release store only; loads may be stale; counters wrap. *Correct if*: no slot is
accessed by both sides at once, and values come out once and in order.

### Not modelled
- **Ferrite's command parser and encoder; minihttp's request parser, router and
  keep-alive loop** (P3 to P5): functions of one line or one buffer, which the
  listings' own tests cover.
- **Synchronization primitives** (part 11: condvar queue, lock ordering, channels):
  the patterns are those of the pool, the store and the tracker.
- **Of part 12**: the reactor (system calls), the simulated executor, and the
  notify review (`review-02-notify-fixed.rs`), whose `AckTracker` deserves a model
  of its own: `Drop for AckWait` removes by key, whoever registered it last.
- **Of part 13**: the short demonstrations of Tokio's API.
- **Of part 14**: the Treiber stack with ABA and with epochs, the seqlock, mini-Arc.
- **Unsafe code and FFI** (parts 15, 16): a hand-written `Vec`, handle registries.
- **Of part 17**: lexers and parsers, the full type checker and inference, code
  generation after `ch08-01`: the models start from well-typed trees.
- **Domain models** (parts 2 to 5, 8 to 10), mostly single-threaded.

### Not to be modelled
Demonstrations of language rules, compiler output, binary formats and benchmarks
(parts 1, 6, 7, 18 to 20), and the prose curricula (`system-designs-…`,
`system_design_curriculum_…`, `week*.md`), whose code is not built: none has a
protocol or a state to check.

## Modules

| module | models | composes |
|---|---|---|
| `JobService` | abstract: what the pool promises, a bounded FIFO of jobs that are accepted or refused, started in order, finished, and all finished before the report | |
| `WorkerPool` | the pool of P3/P4, one step per lock region, notification or join | implements `JobService` |
| `AtomicMap` | abstract: a linearizable map | |
| `ShardedStore`, `MCShardedStore` | the store of P4/P5, one step per lock or atomic operation and per half of a map update | implements `AtomicMap` |
| `ShardedStoreProofs` | theorems about it | `ShardedStore` |
| `FerriteV1` | accept loop, `ShutdownHandle`, handler and its counters | extends `WorkerPool`: its loop is the pool's only submitter, its handler is what a busy worker runs |
| `MCFerriteV1` | the pool in either use: with any number of callers, or behind v1's accept loop | `WorkerPool`, `FerriteV1` |
| `FerriteV1Proofs` | theorems about the pool and about v1, which extends it | `FerriteV1`, `WorkerPool`, `JobService` |
| `FerriteServer` | `Server::run` of v2, the life of its tasks, `Stats`, drain and abort | |
| `FerriteServerProofs` | theorems about it | `FerriteServer` |
| `FerriteWire` | both ends of one connection: the request stream, the socket, the write buffer; the client is the environment | |
| `FerriteConnV1`, `FerriteConn` | the connection loops of v1 and v2 | extend `FerriteWire` |
| `MCFerriteConn` | either edition against the same client | both loops |
| `FerriteConnProofs` | theorems about both loops | `MCFerriteConn` |
| `Quota`, `MCQuota` | the quota tracker and its writer thread | |
| `QuotaProofs` | theorems about it | `Quota` |
| `OreArith` | the arithmetic of the compiler chapters | |
| `OreIr` | trees, lowering to basic blocks, the interpreter of blocks and of SSA | `OreArith` |
| `OreStack` | the first compiler: resolver, checker, bytecode, stack machine | `OreIr` (trees, arithmetic) |
| `OreSsa` | dominators, frontiers, SSA construction; what strict SSA and dominance mean | `OreIr` |
| `OreOptimizer` | simplify, value numbering, dead code, block merging | `OreSsa` |
| `OreCompiler` | one program through both compilers, one stage per step | `OreStack`, `OreOptimizer` |
| `LinearScan` | register allocation, one interval per step | |
| `RegAlloc` | the back end: liveness and intervals before linear scan, selection after it, the interpreter and the emulator side by side, one line per step | `LinearScan`, `OreArith` |
| `FlowGraph` | reachability, which analyses and dominators are measured against | |
| `Dataflow` | definite assignment and liveness, one block per step | `FlowGraph` |
| `Dominance` | dominators and frontiers as the code computes them, one loop iteration per step, on any graph | `FlowGraph` |
| `SsaForm` | SSA construction for one variable: phis from a work list, then the calls of `rename` with their stack, one place of a block per step | `Dominance` |
| `OreProofs` | theorems about the back end, analysis, dominance and SSA form | `RegAlloc`, `Dataflow`, `SsaForm` |
| `MCOre` | a compilation, an allocation, an analysis or a construction of SSA form | the four above |
| `Executor` | executor thread and timer thread, one step per access to what they share | |
| `ExecutorProofs` | theorems about it | `Executor` |
| `Relay` | the relay, one step per stretch between two awaits | |
| `SpscRing` | the ring under release and acquire | |
| `AsyncProofs` | theorems about the relay and the ring | `Relay`, `SpscRing` |
| `MCAsync` | the executor, the relay or the ring | the three above |

How state and actions correspond to code is in `PROJECT.json` (`map`), line by
line. Some choices to know:

- **Critical sections.** Code under a mutex is one step, and code outside it is
  not part of that step: `try_submit` is `TrySubmit` and then `NotifyOne`;
  `decide` is `LoadLimit`, `Decide`, `Audit`, `RollBack`. In the store, whose locks
  are shared, the code under a lock is several steps and mutual exclusion is what
  is being checked.
- **Condition variable.** `WorkerPool` keeps the set of waiting workers: notify
  wakes any one of them or none if there is none, waits may end spuriously, and
  a woken worker re-evaluates the predicate of `wait_while`.
- **Atomics.** All counters are read-modify-write operations or loads that are
  steps of their own. `fetch_max(ACTIVE.load())` is two steps, and that matters.
- **Async tasks.** A task of `FerriteServer` is its position between awaits; an
  abort drops it at an await, and its guards are released one at a time in reverse
  order of declaration, as Rust drops them. `select!` with `biased` is a sequence
  of polls (`PollStop`, `PollJoin`, `PollAccept`).
- **Bytes.** On the wire a byte is a newline or not. An executed line is kept as
  its bytes so that framing can be compared with the stream (`Parsed`, the
  reference meaning); a reply is the number of its request.
- **Time.** No clock: a timeout is an action that may fire whenever its wait is in
  progress. `write_timeout` fires only while the socket is full.
- **Programs.** The compiler modules are functions on trees and blocks, recursive as
  the code is. A variable is a number and a block a position. A program either is
  in the language of both compilers (`core`) or uses calls, `return`, values of
  blocks and `if` without `else`, which only the second knows; the file of the
  second has no type checker, so those programs are well typed by construction.
  What a run does is compared as a value, a division by zero, or out of fuel.
- **Futures.** A task of `Executor` is a script of steps (spawn, await all of a set);
  what a poll does with wakers is in full. Deadlines are not numbers: the timer
  may find any entry due.
- **Weak memory.** Only `SpscRing` has it: a load may return any value not older than
  what the thread has seen, and what happens before a thread's next access is
  learned from Acquire loads alone. Elsewhere locks and single read-modify-write
  counters synchronize.
- **Harnesses.** `MCFerriteV1` runs the pool in one use or the other, with the
  fairness of that use. `MCOre` and `MCAsync` run one of several machines that share no
  state, with the others at rest where they end, so that their state spaces add up
  and do not multiply.
- **Which free register** linear scan takes is left open, and the proofs hold for
  any choice; the code takes the one freed last.
- **History variables** (`maxActive`, `late`, `poisonings`, `quiet`, and the
  windows' bookkeeping in `Quota`) are written and never read by a step.
- **Seeded faults.** A definition commented *Seeded fault* is a plausible bug of the
  definition after it. `PROJECT.json` (`mutants`) names, for each property, the
  fault that breaks it; no run uses one.

## What the runs check

Passing runs (distinct states in brackets):

- **`ferrite_v1`** (175k): 2 workers, capacity 2, and the pool in both its uses: alone,
  with 4 items from 4 threads and an owner that shuts it down or drops it, or with
  v1's accept loop as its only caller and 3 connections. `NoLostWakeup`, that a
  queued item with a sleeping worker always has a notification under way or a
  worker about to look; `ReportIsFinal`; `ShutdownReturns` (liveness);
  `ImplementsService` (refinement of `JobService`, with its fairness): of the pool, in
  both uses. `AtMostOneDropped`, `RunReturns`: of v1. Two workers are enough for a
  wakeup to go to the wrong one, 4 items for a full queue while both are busy, 3
  connections for one that is refused because neither worker has come for the
  first two. What v1's counters say is not checked here: two runs below show where
  the comments on them are wrong, and the theorems `ActiveIsOffByPanics` and
  `PeakNeverTooHigh` say what does hold.
- **`store`** (367k, symmetric in threads, keys and values): 2 threads, 2 keys, 2
  values, 2 shards with every routing, 2 poisonings. `EveryPoisoningCounted`,
  `LenExactWhenQuiet`, `ImplementsAtomicMap`. Two of each suffice for two readers
  of one shard, two writers of different shards, and a poison during a recovery.
  Symmetry is sound here: the properties are safety properties that treat all
  alike.
- **`server_v2`** (163k): 3 connections, limit 2: one more than the limit, so that
  refusals, and a slot that frees while another connects, both occur.
  `ConnectionLimit`, `PeakExact`, `ReportAccounts`, `AtMostOneLateRequest`,
  `ShutdownReturns`.
- **`conn`** (84k): streams of up to 5 bytes, lines of at most 2, reads of at most
  3, a socket that holds 1 reply and a write buffer that holds 2. Lines shorter
  than, equal to and longer than the limit fit, in one read or cut anywhere, three
  requests can be pipelined against a write buffer of two, and the reader can
  stall. `ExecutedAreRequests`, `LengthLimitExact`, `NothingWithheld`,
  `RepliesInOrder`, `Answered`.
- **`quota`** (138k): 3 requests, 2 partners, one of which only the second map of
  limits knows, 2 slots, a channel of 1, batches of 2, 3 calls and 1 window close.
  `SlotsExact`, `UsageExact`, `AuditComplete`, `BillingConserved`,
  `OneAlertPerWindow`, `Drained`. Two requests take both slots of a partner whose
  limit is 3, so that the third is refused for want of a slot and not of quota, or
  gets one that is given back in time; it only calls then
  (`LastFindsSlotsTaken`), which keeps the run short, while the other two call and
  close the window whenever they like. `MaxCalls` and `MaxWindows` bound the
  number of calls; a channel of 1 makes refusals, compensations and a blocked
  window summary frequent.

- **`ore`** (761k; integers of 4 bits, fuel 40): about 250 programs with a parameter,
  compiled with it and with each input put in its place: a branch on tests that
  trap, fold, or are no tests, a nested branch, loops with shadowing and
  reassignment, programs to be refused, and calls, returns and block values for
  the second compiler only. `CompilersAgree` (the two are independent
  implementations; a stack machine that gets stuck on an accepted program counts
  as disagreement), `PassesPreserve` and `SsaStrict` (against definitions by paths,
  dominators included) after each stage. All 1,092 graphs of 4 blocks with branches
  of two ways, and one of 5 with two irreducible loops, which needs more rounds:
  `DominanceExact`, with successors and predecessors taken in every order. On a diamond, a
  loop, a loop entered at two places and a loop in a chain, one variable with all
  choices of uses and definitions in the blocks: `VersionsExact`, against paths, with
  the work list and the children in every order. 3-block flow graphs with all choices of
  definitions and uses: `DataflowExact`, against paths. 64 programs
  of 13 instructions with a loop, from liveness to a run, on 1, 2 and 4 registers,
  fewer, as many and more than needed, and on two lists of arguments (the loop is
  taken or not): `NoSharing`; `AllocationSound`, which compares the emulator with
  the interpreter line by line. Integers of 4 bits wrap within
  the inputs, and -8 / -1 does. Programs this small reach each rule of each pass;
  a rule is local to a block, a phi or a branch.
- **`async`** (144k). Executor: 3 tasks, 30 scripts in which a root awaits two tasks
  in turn, together with a sleep, or drops a handle, and tasks that sleep twice or
  in parallel: `NoWakeLost`, `ExecutorReturns`. Relay: 4 events, 2 merchants, a
  queue of 1, 2 permits, 2 attempts, audit batches of 2, so that events are
  spilled, wait for a permit, are retried, and a batch is full or left over:
  `EventsOnce`, `ReportComplete`, `RelayReports`. Ring: 2 slots, counters that wrap
  at 4, 7 pushes, so that the counters wrap and a slot is reused three times:
  `RingHandsOver`.

Type correctness is not checked by a run of its own: it is part of the inductive
invariants below.

`CHECK_DEADLOCK FALSE` appears where the system may stop: a closed connection, a
server that has returned, a tracker whose bounded calls are used up, a program
that is compiled.

Runs that find the code at odds with what is said of it (each has one property):

- **`store_recovery`**: two readers share the lock of a poisoned shard, both see the
  flag and both count, so one panic counts as two recoveries. The comment says
  "recover once, not on every later access". Only the metric is affected.
- **`conn_v1_fragment`**: at the end of the stream v1 executes the unterminated bytes
  as a request. The chapter: "One request per `\n`-terminated line". v2 does not.
- **`ferrite_v1_peak`**: `PEAK` may miss the peak, because it is raised from a second
  read of `ACTIVE`. v2 uses `fetch_add`'s result, and `PeakExact` holds of it.
- **`ferrite_v1_active`**: a handler that panics leaves `ACTIVE` one above the number of
  connections being served, for the rest of the process, because the decrement is a
  statement after `handle_connection`. The comment on it: "Connections being served
  right now". `ActiveIsOffByPanics` proves that it is off by the panics and nothing
  else. v2 decrements in the drop of a guard, and its `active` is 0 when `run()`
  returns, whatever panicked (`ReportAccounts`).
- **`quota_overrun`**: a compensation that runs after its window was closed takes a
  use away from the next window, which then admits one request more than its
  limit. `UsageExact` says exactly by how much the counter is off, and
  `BillingConserved` that billing adds up all the same.

## Fairness

- **Pool**: threads run when they can, a handler returns or panics, a notification
  that has been decided on is sent. Nothing forces a submission or a shutdown.
- **Ferrite v1**: as the pool, with handlers that return because connections end. The
  code does not bound a client that keeps sending or stops reading (the chapter
  leaves the write timeout as an exercise), so this is an assumption about clients
  and `RunReturns` depends on it. No fairness on accept errors or on clients.
- **Ferrite v2 server**: the runtime polls what is ready and timers fire. Nothing is
  assumed of clients: a connection may listen or write for ever, and
  `ShutdownReturns` holds because of the drain deadline.
- **Connections**: the server's side proceeds when it can, v1's read timeout and v2's
  write timeout fire; v2's idle timer and the client are free. v1's `Answered` is
  conditional on a client that reads again and again.
- **Executor**: both threads run. Nothing is said of deadlines but that a sleep ends.
- **Relay**: a task that can run is polled, the deploy comes, a deadline fires.
  Nothing is assumed of the endpoints: attempts may end or not, and `RelayReports`
  holds because of the deadline.
- **Quota**: the writer proceeds weakly fair, a call strongly fair, for a blocking
  `send` waits in the channel's queue for a slot that a `try_send` could take first.

## Proofs

The theorems hold for all values of the constants, under these assumptions:
`PoolAssumption` (`NumWorkers` and `Capacity` positive, which `new` asserts or its
callers provide, and `None` not an item), `StoreAssumption` (a positive number of
shards, `Nil` not a value, finite sets of keys and threads), `ServerAssumption` (a
positive limit, finitely many connections), `V1Assumption` (the markers of the
accept loop are not connections), `QuotaAssumption` (limits are numbers, a
channel, a batch and a slot for at least one, finitely many requesting threads),
`CodesAssumption` (a program is not empty and ends in a jump or a return, and each
jump has its label: the code finds labels with `unwrap` and steps to the next line
by index), `CountsAssumption` (at least one register: with none, `linear_scan`
unwraps the last of no active intervals), `RelayAssumption` (positive
queue, permits, attempts and batch; every event has a merchant), `WireAssumption`
(a read, the socket and the write buffer take at least one), `RingAssumption` (a positive capacity that divides and is
less than the number of values of a `usize`: the code rounds it up to a power of
two), `FlowGraphsAssumption` (a successor is a block), `CfgsAssumption` (no branch to
the entry, every block reached from it, as `lower_fn` leaves them),
`TextsAssumption` (each block of such a graph has a sequence of uses and definitions) and
`ScriptsAssumption` (a future is spawned once, its handle is awaited once, by the
task that spawned it and after that; in Rust both are moved).

- **Pool.** The inductive invariant is
  `PoolInv == TypeOK /\ Coherent /\ OwnerCoherent /\ FiniteCalls /\ Accounted /\ NoLostWakeup`.
  `NoLostWakeup` is not inductive alone: a worker that leaves must leave the
  queue empty (`Coherent`), and a notification consumed by a busy worker must not
  have been the last (it counts the workers about to look against queued items).
  `ReportIsFinal` needs `OwnerCoherent`: whom the owner has joined has exited, and
  it reports only after joining all. `Accounted` (every item offered is queued,
  held or counted) needs `Coherent` to know who holds one, and finiteness for
  cardinalities to add up. From these: `TypeCorrect`, `NoWakeupLost`,
  `ReportFinal`, and `PoolImplementsService`: every step of the pool is a step of
  `JobService` or hidden (the safety part of the run's `ImplementsService`).
- **Store.** `StoreInv == TypeOK /\ Exclusive /\ Progress`: a writer shares its shard
  with nobody, and each thread has seen what its position says it has. The step
  that needs it is `Change`: between a lookup and the change the entry cannot have
  moved, so both together are the one atomic effect of `AtomicMap`
  (`Linearizable`). `PoisoningsCounted` adds the accounting of recoveries, and
  needs exclusion for the case that a panic follows a recovery on the same shard.

- **Ferrite v2 server.** `ServerInv == TypeOK /\ Balanced /\ Unwinding /\ Accounted`.
  `Balanced` counts: free permits and permit holders add up to the limit, and
  `active` is the size of a set of positions inside the holders'; `ConnectionLimit`
  follows because one set is part of the other. `active` is a natural number only
  because of it, so `TypeOK` is not inductive alone either. `Accounted` bounds the
  tasks that still owe an entry in `closed` or `panicked` by what is missing
  there: exactly so before the deadline, and by what was aborted after it.
  `Unwinding` is what makes a task owe only once. `PeakOnItsWay` (some task still
  carries a maximum that `peak` lacks) and `LateOnce` extend it for `PeakExact` and
  `AtMostOneLateRequest`.
- **Ferrite v1 server.** `V1Inv == PoolInv /\ ServerTypeOK /\ LoopCoherent /\
  ActiveOffByPanics`. Every step of the server is a step of the pool or leaves the
  pool alone, so `PoolInv` is inductive for it too; `LoopCoherent` ties the
  accept loop to the pool's owner and the connections to the items offered. The
  pool's `ReportIsFinal` then gives `AtMostOneDropped`.
- **Quota.** `QuotaInv` joins `SlotsExact` and `UsageExact`, which are inductive once
  `Typed` and `LocalsMeant` hold (a compared limit was published; a reservation is
  not younger than the open window, so closing a window leaves none of its own),
  with `AlertsOwed` (an alert given or on its way is paid for by a closed window or
  by the flag) and `AuditInv`. The latter rests on lemmas about `Copies`: a record
  appended, taken from the head, or in either of two sequences put together, the
  last by a bijection of positions.

- **Back end.** `AllocInv == LiveInv /\ SpanInv /\ PhaseInv /\ (doing = "run" => RunInv)`
  goes through the phases. Liveness: a round without a change has found every line
  it passed to agree with its followers (so a settled one solves the equations; that
  the solution is the least one is not needed). Intervals: a register that has one is
  touched at its ends and nowhere outside; they come sorted, one per register, which
  is what linear scan needs. Linear scan: the active intervals have different
  registers, none of them free; a place in a register belongs to an active interval
  or to one that ended before the newest start; stack slots are given once. Eviction
  is the step that needs it: the register changes hands while both intervals live.
  `NoSharing` follows. The run: `AllocationSound` alone is not inductive, since it
  does not say what the places hold. `Sim` does: what is live and was written is in
  its place, before every line. Two registers live at one line have overlapping
  intervals, so by `NoSharing` different places, and the result of a line overwrites
  only the dead. Inside what a line became (`Halfway`, `Temp`) this is weaker: a
  two-address instruction may already have overwritten the place that its own
  result shares with an operand that dies there, which is why `SelectBin` goes
  through the scratch register when the destination is the second operand. The
  lemmas say for each form `SelectOne` has what it reads and writes, and in which
  order. An operand is read only if the interpreter knew it, so the emulator never
  stops where the interpreter does not. Unlike in a test run, all of this is for
  every program, and for registers assigned many times, dead results and code
  that cannot be reached.
- **Relay.** `RelayInv == Typed /\ Own /\ Noted /\ Order /\ EventsOnce`. `EventsOnce` is
  a sum over the places an event may be in; it is inductive once each place knows
  its merchant (`Own`), `inFlight` has exactly the tasks that were polled and have
  not ended (`Noted`), and a dispatcher's position says which places are empty
  (`Order`). That gives `ReportAccounts`: with every dispatcher done the first
  three terms are 0. `ReportIsComplete` adds a second invariant, that audit lines
  count the delivered and that permits bound the deliveries that live.

- **Executor.** `ExecInv` has what `NoWakeLost` lacks: a set flag says where the one
  queue entry is, or who is about to send it (`Flag`), so a wake that finds it set may
  stop there; a handle holds the waker of its only joiner, and a result that is gone
  was awaited (`Handles`), so a pending join is of a task that still runs; and in
  the middle of a poll each wait already looked at either still holds the waker or
  has put the task back (`MidPoll`), which is the window between the clearing of
  the flag and the registration. `Origin` makes a spawned task new, so that its
  first entry is its only one. From these: `NoWakeIsLost`, and
  `ReturnsWhenAllFinished`, the safety half of `ExecutorReturns`.

- **Store, `len`.** `LenExact` adds to `StoreInv` that what a quiet `len` has added up
  so far is the number of keys present in the shards it has passed: the next shard
  adds a disjoint set of keys, and with the last shard it is all of them.
- **Connections.** `ConnInv` says that the stream is cut, in this order, at what was
  executed, scanned, buffered and arrived (`V2Framed`; v1's `V1Between`,
  `V1Fragment`, `V1Refused`): the bytes before `consumed` are exactly the lines
  executed, and no newline lies in what was scanned. That is what makes the result
  independent of where a read ends, and it needs the bound `MaxLine + ReadSize` on
  what is buffered. `Owed` and `Settled` say which position owes the reply of the
  request just executed. The lines of a stream are defined by the positions of its
  newlines, not by recursion over it, so the proofs need no induction over the
  stream, only that a set of positions has a least element.
- **Ring.** `RingInv == RingTypeOK /\ Counting /\ Stored /\ InOrder`: what either side
  has seen of the other's counter is old but never too new, and the values between
  the counters are in their slots. Wrapped counters agree with unwrapped ones
  because the capacity divides the range of a `usize`; two values of one slot are
  then at least a capacity apart.
- **Billing.** `BillingInv` has one equation per partner (`Balance`), over
  `billed`, the summaries in the channel and the batch, what calls of
  `close_window` have collected, and `used`. Each step moves a use from one term to
  another or adds it to both sides. `Billed` and `Collected` are folds of the
  community modules, about which nothing can be proved by induction here; so sums
  are counted instead (`Total`: the number of units `<<x, i>>` with `i <= w[x]`),
  and that the folds compute these sums follows from the least counterexample
  (`SmallerFirst`, `FoldIsTotal`).
- **Dataflow.** `FlowInv` says that a fact moved away from its start has a path that
  shows it (`Shown`), and that a round in which nothing has changed has found every
  block it visited to agree with its neighbours (`Agrees`). A settled analysis
  thus solves its equations, and by `Shown` it is the right solution of them:
  unreachable blocks stay at top, loops do not keep themselves alive.
  `DataflowExact` states this with the least closed set of blocks (`Spread`);
  `ReportedByPaths` and `LiveByPaths` state it of paths, as sequences of blocks.
- **Dominance.** `DomInv` has a part for each phase. The walk (`Walked`): a block that
  has returned has its successors seen and was entered from one that returns later;
  so at its end every block but the entry has a predecessor with a greater postorder
  number (`PostOrdered`), and a dominator never has a smaller one. The rounds
  (`Climbing`, `Rounds`, `Meeting`): whatever strictly dominates a block dominates
  what `idom` says of it and both candidates of a meet, of which one is above each
  predecessor looked at; in a meet the candidate that moves up is not a dominator of
  the block, since the other comes after it. Iterating thus only approaches the
  dominators from below, and a round without a change leaves a solution (`Solved`):
  the blocks that do not have `idom[b]` above them are closed under the edges that
  avoid it, so nothing gets around it (`SolvedIsExact`). The frontiers (`Running`):
  the runner is between a predecessor and the immediate dominator. Neither the order
  of edges nor reducibility of the graph is assumed. That the rounds come to an end
  is not proved.
- **SSA form.** `SsaInv` goes on from `DomInv`. Placing phis (`PhisUnderWay`): the
  frontier of every block that makes a version, by a definition or a phi, has phis or
  is still to be looked at. So a version that arrives anywhere without meeting
  another, or a phi, was made in a strict dominator (`ArrivesFromAbove`: where a path
  leaves what its maker dominates it enters the frontier), and of these only the
  nearest counts, since a path from one further up that avoids it would show that it
  does not dominate (`OnlyNearest`). The walk: below each call under way the stack
  holds the version in force at its place (`Based`), where in force is defined by the
  tree alone; a child begins with what holds at the end of its parent
  (`ChildInherits`). `HoldsIsExact` joins both: what the tree says is in force is what
  every path says. `Progress` says that a block is named or still to come below a
  call, so at the end nothing is left out. A variable that only one block defines gets
  no phi; there the code relies on scopes ("one definition dominates all its uses"),
  and so does the model: `Scoped` restricts such texts, and nothing else is assumed of
  a text. Of variables defined in several blocks any use is allowed, also before a
  definition. Termination of the work list and of the walk is not proved. `OreSsa` has
  the same algorithms as recursive operators, for the compilations; there `SsaStrict`
  checks them.

Only model-checked: all liveness properties (`ShutdownReturns`, `RunReturns`,
`Answered`, `Drained`, `ExecutorReturns`, `RelayReports`, and the fairness part of
`ImplementsService`), since fairness and `ENABLED` are out of the prover's reach;
and `CompilersAgree`, `PassesPreserve` and `SsaStrict`, which are about functions recursive over trees and blocks:
what those compute for every input needs induction over data, which the installed
back ends cannot do. All other invariants the passing runs check are theorems.

## Left out of the modelled parts

Command and reply text, request ids, logging, `Config` parsing, the HTTP layer;
v2's `linger` and the reset it avoids; the 100 ms bounds on refusals (the model
has refusals that take any time); `shard_lens` (a `len` that keeps the parts) and
`get_shared`; poisoning of the quota's mutex, which recovers under an exclusive
lock; unwinding inside the standard library; kernel limits on descriptors.
Of the compilers: names and spans, printing, counts of rewrites, assembly as text
(instructions are tuples), and how large an address is. Parameters are immutable in
Ore v0 (`ch04-03-resolver.rs`), so no parameter needs a phi. The second compiler
lowers a read of a variable to the variable itself, so in `x + { x = 5; 1 }` the left
operand is read after the assignment; such programs are outside the first
compiler's language and are compared only across the passes.
An `if` without `else` leaves its result unwritten on one path, where the
interpreter reads 0; `SsaStrict` allows exactly this (`AlwaysZero`).
Of the executor: the memory orders of `queued` (the model is sequentially
consistent) and panics in a poll. Of the relay: real time, latencies, and
multi-threaded runtimes: it is written for `current_thread`, and on it a delivery
that was spawned is polled before its dispatcher can see the deadline, because the
run queue is first in, first out (`Deadline`); ids enter `in_flight_ids` at the first
poll, so that order is what keeps an event from being lost.

## What would come next

In order of importance:

1. The remaining lock-free structures: the Treiber stack (the ABA listing and the
   epoch version against one abstract stack), the seqlock, mini-Arc; the notify
   review of part 12.
2. Parsers against reference grammars: ferrite's line parser, the HTTP request
   parser, Ore's expression parser; the type checker's unifier.
3. Lock ordering and the condvar queue of part 11, the hand-written `Vec` and the
   handle registry of parts 15 and 16, the order book of part 3.

# tickvault: specifications, model checks and proofs

TLA+ modules for the parts of tickvault whose correctness depends on order,
failure and concurrency, TLC configurations that check them on small instances,
and TLAPS proofs of the properties that matter most.  `PROJECT.json` gives, for
every definition, the source lines it stands for.

    tlc -workers 2 -config MCOrderBook.cfg MCOrderBook     # any run of the table below
    tlapm OrderProofs.tla                                  # any proof module

## 1. The system

tickvault (Rust, `crates/`) captures an Indian broker's (Dhan) market data over
WebSockets, aggregates ticks into candles, stores both in QuestDB and runs an
order management system against the broker's REST API.  One process owns the
account; helper Lambdas start and stop its host.

| Component | State | Operations | Interacts with | Correct means |
|---|---|---|---|---|
| OMS order book (`trading/oms/engine.rs`, `state_machine.rs`, `reconciliation.rs`) | orders, number aliases, correlation ids, risk lots | place, modify, cancel, order update, reconcile, daily reset | broker REST, order-update WebSocket, risk book | no fill booked twice or lost unnoticed; a terminal order stays terminal; the book reaches the broker's view |
| Order call path (`engine.rs`, `api_client.rs`, `error_taxonomy.rs`, `order_readiness.rs`) | halt latch, STOP-ALL cooldown, breaker, readiness | gates, retry ladder, error policy | token provider, breaker, budget | at most one order per call; a halt stops new exposure; calls return |
| Circuit breaker (`circuit_breaker.rs`) | three atomics | check, record_success, record_failure, reset | the call path | one probe per window, never stuck half-open |
| Order budget (`rate_limiter.rs`) | a fixed window per tier | try_consume, reset | the call path | the broker's ceilings; a refusal costs nothing |
| Sealed-candle spill (`storage/seal_*.rs`) | channel, ring, escalation queue, spill and dead-letter files, ledger, boot summary | seal, flush, rescue, escalate, mirror, stage, replay, confirm, archive, boot drain | aggregator, QuestDB, disk, watcher | no sealed copy vanishes; a fuller copy is never replaced by an older one |
| Paper order runtime (`app/order_runtime.rs`) | marks, paper fills, self test | fills, market-close sweep, daily reset | order book, risk engine | planned |
| Exit execution, super orders (`app/exit_execution.rs`) | exit ladders | cancel, slice, verify | call path | planned |
| Risk engine (`trading/risk`) | positions, limits, halt | fills, marks, checks | order runtime | planned |
| Candle aggregation (`trading/candles`) | one cell per bar | tick, roll, amend | seal writer | later copies are fuller (used by `SealSpill`) |
| Frame write-ahead log (`storage/ws_frame_spill.rs`, `wal_*.rs`, drain of `app/dhan_feed_stack.rs`) | segments in five folders, applied watermark, unapplied buckets and ranges, their two files, suspicion, batches waiting to settle | capture, ack, rescue, persist, probe, boot fold, replay, settle, promote, prune | sockets, tick sink, QuestDB, the suspension watcher | no segment leaves the disk, and no frame is skipped, before its rows are durable |
| Instance lock (`core/instance_lock.rs`) | a leased parameter | claim, heartbeat, release, takeover | parameter store | one owner of the account |
| Tokens (`core/auth/token_manager.rs`) | the token, its generation, the gate, the last login, the last failure, the page latch | renew, log in, coalesce, force, page | every broker call, instance lock | nobody replaces a token he did not present; one page per dead token |
| WebSockets (`core/websocket/pool_supervisor.rs`) | per slot: phase, generation dialled with, 808 episode, refreshes in the window; ladders, pool budget | dial, close, refresh, park, reconnect, subscribe | token manager, pipelines | a slot gives up only when a fresh token cannot help; otherwise it comes back |
| Drain hold (`app/drain_hold.rs`, `aws-lambdas`) | a parameter | hold, release | stop Lambdas | the host is not stopped while it drains |
| The rest: parser and pipelines, instruments, persistence of ticks and audit rows, partition archive, notification, strategy and indicators, HTTP API, Lambdas, common types | | | | see section 8 |

What is hard here: messages lost, repeated and reordered between broker and
book; answers that never arrive for requests that took effect; retries nested in
retries; atomics shared without a lock; three threads and two files between a
candle and its row; a ledger that lives in memory and a process that may die
between any two steps; a database that acknowledges what it has not made durable,
or never will; sequences that sockets race to write; sixteen sockets that share
one token and are told at once that it is dead.

## 2. Modules

| Module | Models | Runs | Proofs |
|---|---|---|---|
| `OrderBook` | the live order book, the broker as environment, lots in the risk book | `order_book` | `OrderProofs` |
| `CircuitBreaker` | the breaker, one action per atomic access, any number of threads | `circuit_breaker` | `CircuitBreakerProofs` |
| `OrderPath` | one order call through gates, ladder and error policy, with the breaker, latch and readiness around it | `order_gate`, `order_path_breaker` | `OrderProofs` |
| `OrderBudget` | the minute, hour and day windows | `order_gate` | `OrderProofs` |
| `OrderGate` | the order path behind its budget (composes the two) | `order_gate` | `OrderProofs` |
| `SealSpill` | sealed candles from producer to database, with crashes | `seal_spill`, `seal_spill_overflow` | `SealSpillProofs`, `SealFullestProofs` |
| `InstanceLock` | processes competing for the account's lock, in discrete time | `instance_lock` | `InstanceLockProofs` |
| `FrameLog` | captured frames from the socket to durable rows, across crashes | `frame_log`, `frame_log_drain` | `FrameLogProofs` |
| `CapturedLog` | what `FrameLog` promises (abstract) | refined in `frame_log` | |
| `UnappliedRanges` | the bounded ranges of the watermark, operation by operation | `unapplied_ranges` | `UnappliedRangesProofs` |
| `Coverage` | what `UnappliedRanges` promises (abstract) | refined in `unapplied_ranges` | |
| `TokenManager` | the one token, the gate, renewals and logins | through `FeedLogin` | `FeedLoginProofs` |
| `FeedLogin` | the live-feed slots and their 808 episodes, composed with `TokenManager` | `feed_login`, `feed_login_park` | `FeedLoginProofs` |

Each `MC...` module extends one of these with the names or sequences its
configurations use.  Definitions called `Fault...` are wrong variants of the
definition that follows them, each a plausible slip in that code; nothing uses
them except the sanity checks listed as mutants, which put the variant in the
place of the definition and must see the named property fail.

### OrderBook

The specification is `BookSpec` (`BudgetSpec` in `OrderBudget`, `Spec` in `OrderPath`, `GateSpec` in
`OrderGate`): one module proves things about all four.  A method of the engine takes `&mut self`, so one call is one action.  `orders`,
`aliases` and `correlations` are the maps of `OrderManagementSystem`;
`booked` is what `apply_fill` put into the risk book per order (the code sums
per security, which cannot hide what the sum per order shows) and `swallowed`
the orders for which an error line said that lots were not booked.  The broker
(external) moves an order along the documented lifecycle and `reported` keeps every state
it has ever shown: an update, or a row of a snapshot, is *any* member of that
set, which covers loss, repetition and reordering at once.  `HandleOrderUpdate`
is `handle_order_update` with its lookups, the alias table, the five arms
(unknown status, terminal refresh, same status, invalid transition, transition)
and the fill that `handle_order_update_event` books.  `Reconcile` is the whole
of `reconcile()` on a snapshot that may be stale and partial; `ReconcileFresh`
is the same on a current one.  `PlaceOrderUnanswered` is the placement whose
answer was lost.  A placement may be answered with any status: the engine says that "Dhan can
return TRADED or REJECTED immediately" (`engine.rs:995`), and the broker of the model may have
filled the order by then.  `told` (bookkeeping) holds the orders of which an update with a final status was handled.

An order answered TRADED at once has a record that is terminal at quantity 0, because the answer carries no
quantity.  Its fill is never booked into the risk book: the update that brings it meets the terminal arm, which refuses it
with a `warn!` and the flag `needs_reconciliation` (`engine.rs:1415`), and a reconcile that brings it first raises the quantity, logs it as
swallowed and books nothing.  `FillsAccounted` says that one of these signs is there once the final update was handled; before that the
fill is unknown to the engine.  The flag is a record for the operator, nothing in the code acts on it.  Of an open record a
stale snapshot can clear it; the next current one makes good for that (`ConvergesToBroker`).

Reading notes, all part of the model: a quantity corrected upward by reconcile
makes no `FillEvent` (it is logged, hence `swallowed`); a stale snapshot lowers
the quantity of a terminal record without flagging it; the capacity gate stands
in front of `cancel_order` too.  Today the process runs in dry-run mode, in which the live
reconcile is not reached: the model is of the live book.

### CircuitBreaker

Every load, store, swap and compare-exchange of `check`, `record_success`,
`record_failure` and `reset`, and every reading of the clock, is a step of its
own, for several threads.  `check` calls `state()` twice, so its steps appear
twice.  Accesses are sequentially consistent; the code uses `Relaxed` for most of them.
Two facts the model makes visible: if two calls each stall for
half a reset timeout (15 s) inside the breaker, two probes pass in one window,
hence the assumption `2 * MaxStall < ResetTimeout`; and a `record_success`
interleaved with the failure that opens the circuit can lose the trip.  Neither
can happen while the engine that owns the breaker is used through `&mut self`.

### OrderPath

One call at a time (`&mut self`), but it spans several awaits, between which the
readiness probe, the cooldown and the breaker's window move on.  `Begin` is
`circuit_breaker.check()`; the capacity and per-second gates before it leave nothing
behind when they refuse, the budget is composed in `OrderGate`, and the sandbox gate
(`engine.rs:900`) is left out: it only refuses more.  `Gates` is
`check_live_order_gates`, `Token` is `get_access_token`, the `Ladder` steps are
`run_order_ladder`, and `ApplyErrorPolicy` is `apply_engine_error_policy` with
its four outcomes.  All 28 error classes and the unclassified error are
inputs of every request.  External assumption `Refusals`: the codes by which the
broker says it did not process a request; after any other error it may have.

### OrderBudget

`try_consume` asks the tiers in order, rolls those it asks, and charges all or
none.  The governor crate's per-second limiter only paces and is left out.
`reset_daily` says it is called by the daily reset of the OMS; in
the code only `clear_order_halt` calls it (`engine.rs:554`), and there `OrderGate` has it.
`admitted`, the log of the times of the calls admitted since then, is bookkeeping for the property.
Its proofs stand with those of the call path it gates.

### OrderGate

The engine's composition of the two.  `BeginCall` charges the budget and then asks the breaker (a call that the per-second
limiter or the breaker refuses afterwards stays charged), `RefuseCall` is the call a full tier refuses before it reaches the breaker, and
`clear_order_halt` resets the breaker and the budget in one step.  While a call is under way the clock goes on, and
no second call is admitted (`&mut self`).

### SealSpill

A bar is sealed several times as late ticks amend it; copy `c+1` is fuller than
copy `c`.  The database keeps the copy written last.  Variables follow the data:
`channel`, `ring` (seal writer), `queue` (escalation thread), `todo` and
`dead` (what each thread is spilling), `live` and `dlq` (files being
written), `staged` (files in `replaying/`), `ledger`
(`SpillLedger`, field by field), `summary` (boot summary file), `db`.  Everything
under the mutex of `SealSpillWriter` is one action; what `note_live_commits`
reads before it locks is a step of its own (`ReadQueue`), and so is the gap between the
dead-letter write and its note in the ledger.  `Crash` forgets memory at any
point and stages the files for the boot drain, whose files are `BootFlushed`,
`BootUnreadable` or `BootHalts`.

A cycle of the writer takes the channel (`TakeChannel`), flushes or rescues what the ring holds, and ends with at most one
replay step, which needs an empty ring and not an empty channel: the producer goes on sealing beside it.  Finished files wait in
`awaiting`, in the order of the vector `awaiting_archive`: they are confirmed in the order they were finished, and
`swap_remove` brings the last entry to the front of the loop, so a file may be archived before an older one.  Sealing starts
once the boot drain is over (a seal produced during it would only wait in the channel).

A behaviour starts by choosing a `scenario`: its bars, copies, crashes and
`faults`.  Whatever fails beyond a crash is a fault, so that a run can ask which
failure breaks what: `disk` (appends, renames and reads fail), `boot` (the boot
drain leaves files behind), `park` (a staged file makes no progress: later ones are read, finished and archived before it).

Without any fault there are five steps after which the fullest copy of a bar may be lost all the same.  `exposed` collects
the bars they touch, and `FullestKept` speaks of all the others:
a crash between a live commit and its mirror, which the code accepts; `Behind`, a copy the full ledger could not track is
written although a fuller one was there; `HalfMirrored`, the second of two copies in one batch (run `seal_spill_overflow`); `Overtaken`,
a live seal that entered the channel after `take_channel` is flushed over the fuller copy the replay step has written; `Outlived`, a file is
archived while an older one with a less full copy stays.  Section 4 says what the code promises of them.

Assumptions: an acknowledged flush is applied (the watcher's suspicion and the
rereading that follows are actions, false acknowledgements are not); the watcher
runs (without it boot archives at once and a crash before
`persist_boot_summary` could lose that guard); a bar sealed before a crash is
not sealed again (`retired`).  Not modelled yet: refused
records and strikes of a mid-session replay, the limits on held and skipped
files, retention.

### InstanceLock

A process is one incarnation (a restart draws a new host id): it claims, reads
the holder, takes a stale or its own value over, settles and reads back, waits and
retries or parks, beats, renews, releases or dies.  Each call to the parameter
store takes effect at one instant inside its bound; it may fail with or without
its effect, its answer may be late, and a call of a renewal may hang until the
timeout.  Time is relative: a process has the time left of its step, the stored
value the age of its heartbeat, so no clock bound is needed.  `lag` is the time since the
payload was stamped (the code reads the clock once, before the claim), `window`
the time since `read_at`.  Versions are kept, because `classify_write` compares
them and a deleted parameter starts again at 1; above 3 they are folded while no
process remembers one.

External assumptions: reads and writes of the parameter are linearizable (the runbook
calls this unknown and `classify_write` refuses older read-backs), a write takes effect within
`PutDelay` of being issued or never, clocks differ by at most `Spread`.  `EnvironmentAssumption`
asks of these bounds that a put still on its way lands within the settle wait and that
the heartbeat of a live holder is never older than the TTL (`OldestHeartbeat`, the sum of section 3).  Not modelled:
values that are not JSON, and `force_takeover_instance_lock`, which nothing in the
repository calls.

### FrameLog and CapturedLog

`segs` are the segments in the order they were written, each with its frames and
its folder (`live`, `replaying`, `settling`, `archive`, or deleted).  `rows` is the truth
the process cannot see: what QuestDB has of a frame, in the page cache for one lag or two
(`fresh`, `aging`), on `disk`, or acknowledged and never applied (`lied`).  `file` and
`sidecar` are `applied.tvaw` and `unapplied_ranges.tvur`; `Save` writes the
second, then the first, and the process may die in between.  `mem` is everything the
process holds, from the watermark and its sample of one lag ago to the
probe under way and the batches that wait in `settling/`.

A process boots (`Boot`: bind, seed and fold), puts back what its predecessor
had not settled (`Recover`), and alternates `ReplayPass` with `FoldChunk`, `SettleChunk` and
`EndRound` until a pass finds nothing (`EndDrained`) or it stops (`EndStopped`).  Then
sockets `Capture`, the sink acknowledges or hands its batch to the rescue, the file is persisted
once in a while, the watcher probes, and live segments are pruned.  The sequences of
racing sockets are written up to one slack out of order and acknowledged up to one slack out of order, which is
what the second slack of `below_watermarks_by_a_slack` and of `suspension_range_lo` is for.

`CapturedLog` is three sets and three actions: frames are captured, become durable, and
only then are retired.  `KeepsThePromise` maps them to the frames of all segments,
those with rows on disk, and those of archived or deleted segments.

Faults are chosen per scenario: `shed`, `rescue`, `suspend`, `lag`, `host`, `read` (see
the module).  Abstractions: one sink (the code takes the minimum of two
watermarks); a batch is one frame; the ranges are the set of sequences they cover (their
slots are `UnappliedRanges`); the bucket table does not overflow; the gates of
the prune on age, size and upload are open at any time; time is counted in
durability lags; a suspended table is seen by a probe within a lag, as the
watcher's interval and the lag imply; no frame is captured during the drain; a
frame the write-ahead queue refuses is no captured frame.  Left out: folders that cannot be listed,
the settle capacity, deferred depth rows, the disk floors, the pruning of the archive,
and a crash between two renames of one pass.

Four places differ from the code where no property can tell.  `trim_after_round` (`dhan_feed_stack.rs:18197`) also
runs after a round that did not land: it cuts the ranges to what waits, which then includes that round's segments.  A chunk without a frame is settled without asking
whether it landed, and the boot fold settles its pass as one batch, the model segment by segment.  The inline rescue of the writer
thread (`tick_persistence.rs:5020`) acknowledges in order after its synced spill; the model never acknowledges a rescued frame, which keeps
the watermark lower.  The give-up after the retry cap of a read (`ws_frame_spill.rs:4733`) is left out: the fault `read` leaves a
segment unread as often as it likes.

### UnappliedRanges and Coverage

The slots are a set of ranges.  `add_range_avoiding` merges what overlaps or touches and,
with no slot left, joins two ranges across the lowest gap that no waiting span meets.
`clip_to` rebuilds the ranges piece by piece with the lock held, one step per piece.
`request` keeps what the operation under way was asked to add and to drop, and what was
waiting, so that `Coverage` can say what it had to achieve: exactly the request when the
result fits; otherwise more, never less, and nothing more of a waiting segment if
that can be helped at all.

### TokenManager and FeedLogin

The broker accepts one token; issuing one kills the one before.  A call goes through
the gate, is coalesced with a renewal that has just succeeded or takes over the failure of one that has just failed,
sends `RenewToken`, falls back to a login unless the cooldown or the instance lock forbids it,
stores the new token and then bumps the generation: one step each.  `FeedLogin` extends
it with the slots.  A dial reads the generation, then the token (two steps).
A rejection with 807 or 808 leads through `enter_backoff` to the refresh and a new dial, or parks the slot by one of
the four rules: fresh token rejected, hard failures, age of the episode, refreshes in the window (a ring of
the ages of the last refreshes, as in the code, of which the next one overwrites the oldest).
The slots share one reader thread (`DEFAULT_WS_READER_THREADS` is 1), so what a slot does
between two awaits is one step for the other slots, not for the token manager's other callers.
With more reader threads (`reader_runtime.rs:472` allows them) the check and the latch of a page, one step here, could interleave.
`Report` also takes for one the two reads of the generation around a failed renewal (`token_manager.rs:1987`,
`dhan_feed_stack.rs:15503`).  The ceiling on refreshes is on those after an 808; those after an 807 are not charged to the ring.

Time is counted in redial cycles; dials and requests take none.  `Quiet` stops
time while somebody is busy or a connected slot has no frame yet: the market is open.
(Before the open no frame ends an episode, and an 808 more than 300 s after the one that opened it
parks without a refresh of its own; `MintBeforePark` is a statement about an open market, and about slots that get
frames: a depth-200 socket may stay silent for long, `pool_supervisor.rs:5287`.)
Abstracted: the renewal loop, the sweep and the watchdog are callers that renew at any
time (`StartForced`).  Left out: `initialize` and the token cache, the ladder, the flap damper,
the other close codes, a close code that arrives late.  An account that answers 807 for ever
never parks a slot, by design; its scenario is left out.

## 3. Runs

| Run | Instance | What it shows |
|---|---|---|
| `order_book` | one order of 5 units in lots of 2, two broker numbers, an alias table of one, every placement answer; 149 thousand states | `NoDoubleBooking`, `FillsAccounted`: however messages are lost, repeated, reordered or stale, lots booked never exceed lots filled, recorded lots are booked or logged, and a finished order whose fill is not booked says so. `TerminalIsFinal`, `ConvergesToBroker` |
| `circuit_breaker` | 3 threads (symmetric), threshold 2, timeout 3, clock to 7; 4.5 million states | `ProbeHasOwner`, `OneProbePerWindow` under every interleaving of single accesses |
| `order_gate` | threshold 2, a ladder of two rungs, windows of 1, 3 and 5 seconds with limits 1, 2 and 3, clock to 11; 0.92 million states | `NoDuplicateOrder`, `HaltBlocksNewExposure`, `CallsReturn`; `AtMostTwiceTheLimit` for each tier, `RefusalsAreFree` |
| `order_path_breaker` | threshold 1, no rungs | **violation**: a spent probe whose call reports nothing (section 4) |
| `seal_spill` | three scenarios: 1 bar, 3 copies, 2 crashes; 2 bars of 1 and 2 copies, 1 crash with a ledger of 1; 1 bar, 3 copies, 1 crash and all three faults; 0.97 million states | `FullestKept` without faults, for bars not `exposed`; `NothingVanishes` with all of them: every copy is on its way, in the database or on disk (or a fuller one is), or counted as lost; `ReplayOnlyAdvances` with all of them |
| `seal_spill_overflow` | 3 copies of one bar, 1 of another, a ledger of 1, no crash and no fault | **violation** of `CommitsMirrored` (section 4) |
| `instance_lock` | 2 processes (symmetric) and a dead predecessor, the code's times in units of 5 s, clocks 5 s apart, writes up to 5 s, one failed renewal in a row, one failed acquire per process; 2.5 million states | `OneHolder`, `HolderOwnsLock` |
| `unapplied_ranges` | sequences to 7, 2 slots, every set of waiting spans; 65 thousand states | `SlotsLegal`, `NothingForgotten`, and the refinement of `Coverage` |
| `frame_log` | nine scenarios of up to 4 frames, 3 segments and 2 crashes, slack 2, buckets of 4; 2.9 million states | `ArchivedIsDurable`, `FileIsHonest`, and the refinement of `CapturedLog` |
| `frame_log_drain` | 3 frames, 2 segments, 1 crash, reads fail | **violation** of `ArchivedIsDurable` (section 4) |
| `feed_login` | 2 slots, another caller, cooldown 3, episode and window 6, 2 refreshes, 2 hard failures, six scenarios; 0.85 million states | `OnlyOwnToken`, `PagedOnce`, `MintBeforePark`, `RefreshCeiling`, `SettlesDown` |
| `feed_login_park` | the same, forced renewals only | **violation** of `ParkedForCause` (section 4) |

Why the bounds are enough.  Five units in lots of two give whole lots, an
off-lot remainder and a last unit that completes no lot; two numbers and a
table of one make an alias both held and refused; the reported set is unbounded in use, so
one order has every reordering.  Orders meet only
in the sizes of the tables, and the proofs cover any number of them.  The breaker needs
a straggler, a prober and a third thread that resets or fails between the two; seven
seconds hold two full windows.  Three copies of a bar give an older, a middle and a
fullest copy in different places; a ledger of one entry with two bars is the full
ledger; two crashes let one boot drain be interrupted and repeated.

A frame of the log is wrongly skipped only if another, later by more than two slacks and
durable, has lifted the watermark over it: two or three frames, a step of 5 between them and
two segments let that happen, steps of 1 give the reorderings, two crashes a boot that undoes
what another one marked.  Larger instances were run once without a violation: suspension with 3 frames, 2 segments
and a crash (13 million states), lag with steps {1, 5} and a crash, lag with a host crash, shedding with 3 segments and a crash.
The scenarios bite: each of these slips in the model was caught by one of them: the durable view without the lag or
without the rescue floor, promotion without the wait, a spoiled batch promoted, neither boot tail nor
backlog guard, every episode confirmed as if it had only lagged, a suspension range
that starts without its slack.  Two slots of ranges with seven sequences have full slots, gaps of several lengths
and spans across each of them.  All four reasons for parking were seen to occur in `feed_login`; three cycles of cooldown and
an episode of six keep the code's ratio of one to at least two.

The environment of `instance_lock` is the largest the lock survives with the
code's times: a takeover stores a heartbeat stamped before claim (5 s), put (5 s)
and settle (10 s), one failed renewal adds 60 s, the renewal that succeeds 5 s, a
peer's clock 5 s, and 90 s is not yet stale.  With reads taking up to 5 s as well
(`GetDelay = 1`), with clocks 10 s apart or with two failed renewals in a row TLC
finds two holders; the runbook admits the last (section 3.6 there), while
`renew_instance_lock` says that "a single transient SSM error does not lose the
lock".  Two contenders suffice: a takeover is decided between the last two writers.

`CHECK_DEADLOCK FALSE` stands where the model may legitimately stop: the clock
of the breaker reaches its bound, every order is finished, every copy is sealed and stored,
every process is gone.  `frame_log`, `unapplied_ranges` and `feed_login` check it.

Fairness.  `OrderBook`: weak fairness of `ReconcileFresh` only.  `run_reconcile_cycle`
runs on a timer, after every authentication of the order WebSocket and after every
broadcast lag, so it recurs for ever, and the assumption is that some of those
runs get a current snapshot.  Nothing is assumed of updates.  `OrderPath` and `OrderGate`: the steps of a call
that has begun (each await has a timeout) and the passage of time (the window elapses, the cooldown expires).
Nothing is assumed of the operator, of new calls or of the daily reset.
`FeedLogin`: the slots' task and the callers run, a request is answered or times out, time passes.  Nothing is
assumed of the faults, of which there are finitely many: `SettlesDown` says that after the last one
every slot is connected or parked for good.

## 4. What the violations show

- **Breaker stuck half-open** (`order_path_breaker`).  `check()` spends the
  probe; then the readiness gate or the token provider refuses, or the error is
  one that does not count for the breaker, and the call returns with neither
  `record_success` nor `record_failure`.  Every later order, cancels included, is refused
  until the daily reset or a cleared halt.  The comment at `circuit_breaker.rs:196`
  and the loom test `trading/tests/loom_circuit_breaker.rs` state the opposite for
  the breaker alone, where it is true (`ProbeHasOwner`).
- **Unread and drained** (`frame_log_drain`).  A segment that cannot be read is kept for a
  later pass (`ws_frame_spill.rs:4715`) and still counted as consumed, so a pass that reads
  nothing else reports no deferred segment and `catchup_drained` is true
  (`dhan_feed_stack.rs:18003`).  `reset_unapplied_below` then clears the ranges that
  guard the segment, live acknowledgements lift the watermark past it, and the prune or the next boot takes it
  for applied.  The comments at `dhan_feed_stack.rs:17794` ("only when the final pass found
  NOTHING left on disk") and `18228` say otherwise.
- **Parked for a token that was replaced** (`feed_login_park`).  A slot dials with the token its episode
  verified; the renewal loop, the sweep or the watchdog of the same process replaces it (most likely a
  `RenewToken` whose answer was lost, tried again); the broker closes the slot with 808.  The refresh closure
  sees that the slot presented its verified generation (`dhan_feed_stack.rs:15474`) and
  `note_token_refresh` parks it for the session (`pool_supervisor.rs:5916`), though the generation
  has moved on and a dial would succeed.  `websocket-connection-scope-lock.md:9106` says that rule (a) "cannot fire" then.

- **Two copies in one batch** (`seal_spill_overflow`).  `note_live_commits` promises to append "every committed copy that is fuller
  than a copy of the same bar already on disk" (`seal_spill.rs:1834`), and while the ledger is overflowed "every committed copy
  of an untracked bar ..., because an older copy may be on disk untracked" (`seal_spill.rs:1844`).  If the ledger
  has room again, the first copy of a bar in a batch gets an entry and is mirrored; the second finds that entry, with nothing
  on disk yet (the mirrored copies are recorded after the loop, `seal_spill.rs:1921`), and is not (`seal_spill_ledger.rs:360`).
  After a crash the boot drain writes the first copy over the second.  `HalfMirrored` names these bars.

Known from the models, without a run of their own:

- An older copy over a fuller one.  `seal_spill_ledger.rs:1` promises that "a replayed candle
  never replaces a fuller copy of the same bar".  Of the replay step itself this holds (`ReplayOnlyAdvances`), with every fault,
  for the files this process staged and the bars the ledger tracks.  The bar can be lost around it, without any fault: a live seal that entered the
  channel after `take_channel` is flushed over the fuller copy replayed in between (`Overtaken`); `swap_remove`
  has a later file archived before an older one, and a crash between the two leaves the boot drain the older one alone (`Outlived`); a
  full ledger lets an untracked older copy be written behind a fuller one, and once the file of the fuller copy is archived only the older
  stays on disk (`Behind`), though `seal_spill_ledger.rs:61` says that "the fullest copy is always on disk for the boot drain's max
  rule".  And with each fault: a
  parked file outlives the archived file with the fuller copy (`park`); a failed append dead-letters the older copy without a mirror
  of the fuller one (`disk`); a file left by the boot drain meets a ledger that starts empty (`boot`).
- Parked without a peer.  A failed `GetParameter` after a refused claim is answered as `AlreadyHeld`
  (`instance_lock.rs:530`) and spends the boot loop's patience: on the attempt that would find the
  predecessor's lock stale it parks the process for good.  `dhan_rest_stack.rs:486` says that
  "SSM transport errors do NOT feed this counter".
- The daily budget.  `rate_limiter.rs:123` calls the daily tier "7,000 in any rolling 24h"; a fixed window admits
  up to twice that, the bound `AtMostTwiceTheLimit` of `order_gate` states.

## 5. Proofs

All for arbitrary constants, under the assumptions named in the modules
(`ConstantsAssumption`: positive quantity and lot size, table sizes natural numbers, and nothing of the placement's answer;
`OrderPathAssumption`: a positive threshold, any ladder; `BreakerAssumption`, `BudgetAssumption`,
`RangesAssumption`, `LoginAssumption`; `TokenAssumption`, where a renewal is reused for no longer (10 s)
than the login cooldown lasts (125 s); `EnvironmentAssumption` of the lock, explained below).

`OrderProofs`, on the order book
- `BookTypeCorrect`, `NeverDoubleBooked`, `FillsAlwaysAccounted`: `BookSpec => []BookTypeOK`,
  `[]NoDoubleBooking`, `[]FillsAccounted`.
- `TerminalStaysFinal`: `BookSpec => TerminalIsFinal`.

`NoDoubleBooking` is not inductive: a record could claim more than the broker
filled and the next delta would be booked from nothing.  `BookInv` adds that no
reported state exceeds the broker's (`ReportsBehindBroker`, which needs that the
broker never lowers a quantity), that no record exceeds the broker's
(`RecordsBehindBroker`), that untracked orders have no lots (`OnlyTrackedBooked`,
for the placement that starts a record at 0), and `FillsAccounted`, which ties the
lots to the record of an open order, the only kind that books.  Its last part, on finished orders, needs that a final
status which is reported, or recorded, is the broker's own, the report with its quantity (`FinalReportsCurrent`,
`FinalRecordsCurrent`): the final update then carries the whole fill, and whichever arm it meets books, reports or flags
what is missing, and no later correction of a record with that status clears the flag and hides the fill.  The arithmetic
rests on one lemma, that `Lots` is monotone.  The proof has a lemma per action
and one shared lemma for the two arms that book.

`OrderProofs`, on the order path
- `TypeCorrect`, `NeverDuplicated`, `HaltAlwaysBlocks`.

`NoDuplicateOrder` needs `Unprocessed`: a placement or modification that is
still on its way to a request has not been acted on.  It is preserved because every class
that leads back to a request (the ladder's back-off, the engine's single retry)
is one by which the broker refused, and because `ambiguous_policy` retries cancels only.

- `GateKeepsBoth`: `GateSpec => Spec /\ BudgetSpec`, and hence the safety properties of both for the composition.

Each step of the gate is a step or a stutter of either part (`GateStep`), so nothing is proved twice.

`CircuitBreakerProofs`
- `TypeCorrect`, `ProbeNeverAbandoned`, `OneProbe`: `Spec => []TypeOK`, `[]ProbeHasOwner` and
  `OneProbePerWindow`, for any number of threads, any threshold and any timeout (`BreakerAssumption`).

`ProbeHasOwner` is not inductive: a probe that fails may find the failures below the
threshold, because a success or a reset zeroed them meanwhile, and then leaves the
flag as it is.  `ClearingFrees` says why that is harmless: a flag set while the
failures are below the threshold means that some thread is on its way to clear it.
`OpenedWasRead` (a second look that found the circuit open holds the time it
opened) rules out a wait that would treat "closed" as "opened at 0".  Each of the
breaker's atomic accesses has a step of its own.

`OneProbe` rests on the order of the readings of the clock that the threads hold (`PInv`): no opening time is
in the future, none that a thread holds is older than its stall allows, and a probe
was handed out no earlier than one timeout after the opening it belongs to.  A second probe of the same window would need
a thread that read the opening, and one that reopened the circuit, both stalled together for a whole timeout: this is where
`2 * MaxStall < ResetTimeout` is used, and the only place.

`OrderProofs`, on the budget
- `WithinLimits`, `RefusalsCostNothing`: `BudgetSpec => []BudgetTypeOK` (no window counts more than its limit) and
  `BudgetSpec => RefusalsAreFree`, for any limits and window lengths.  `BudgetTypeOK` is inductive.
- `TwiceTheLimit`: `BudgetSpec => []AtMostTwiceTheLimit`.

`AtMostTwiceTheLimit` says nothing of the counter and cannot be inductive.  `CountInv` relates the log
to each window: the calls since it began are the ones it has counted, those of the window length before
it number at most the limit, and none is later than its end.  Any span of one window length lies in those two parts.
A window that is rolled late starts at the call that rolls it, so nothing lies between the old
window's end and the new one's start.  The counting is done on index sets of the log.

`UnappliedRangesProofs`
- `SlotsStayLegal`, `RangesForgetNothing`: `Spec => []SlotsLegal` and `Spec => NothingForgotten`, for any number of
  slots and any largest sequence.

`SlotsLegal` is nearly inductive (it includes the half-built result of `clip_to`); the
strengthening says that the pieces done and left still cover what the ranges and the spans share, which is what
makes `ClipEnd` forget nothing.  The weight is in lemmas about the operators: merging
keeps the ranges apart and adds at most one (`MergedFacts`), joining loses one and covers more
(`JoinedFacts`), and hence `AddFacts`, `TrimFacts`, `WithoutFacts`, `PiecesFacts`.

- `SlotsKeepCoverage`: `Spec => KeepsCoverage`, the refinement of `Coverage`.

Refinement needs the same lemmas with equality: what is asked is covered exactly while the result fits in the slots.
If it does not fit, two ranges are joined, and a pigeonhole argument (`Crowded`) shows that if every gap
meets a waiting span then nothing could have avoided it, so what `add_range_avoiding` covers beyond the request is
covered by necessity (`BestAvoids`, `AddAvoids`).  `ClipKept` carries the argument through the steps of `clip_to`; it holds
because the pieces are taken lowest first, so that an early join cannot swallow a piece that comes later.

`FeedLoginProofs`
- `SlotsRenewOnlyTheirOwn`, `PagedAtMostOnce`: `Spec => []OnlyOwnToken` and `[]PagedOnce`, for any number of slots
  and callers, any times and any scenario.

`OnlyOwnToken` needs that whoever is past the gate holds it (`Gated`) and works on the current generation
(`SeenCurrent`), that no slot is ahead of the generation (`NotAhead`), that a slot's
call carries the generation it dialled with (`OwnCall`), and `SameToken`: a slot whose generation is
current presented the current token, unless a token has been stored and not bumped yet.  The last is
where the order of the two reads of a dial and of store and bump is used.  `PagedOnce` needs that
every page so far is below the latch and the latch at most names the current generation.

- `LoginBeforePark`: `Spec => []MintBeforePark`.

`MintBeforePark` compares two clocks, that of a slot's episode and that of the login cooldown, which other callers
restart.  `MintInv` says of every slot that its episode has seen a login or is no older than the last login or the cooldown
is over, and of a failure that a slot may take over from another caller that a login stands behind it while it is young enough to be reused: this
is where `Reuse <= Cooldown` is needed.

- `TypeCorrect`: `Spec => []TypeOK`, and `CeilingKept`: `Spec => []RefreshCeiling`, for any window and any ceiling.

`RefreshCeiling` relates a check to the use of its answer a backoff later: the ceiling is asked when the slot
is rejected, the ring is charged after the refresh.  In between entries only age, and only the slot itself
charges its ring.

`InstanceLockProofs`
- `TypeCorrect`, `HolderKeepsItsLock`, `MutualExclusion`: `Spec => []TypeOK`, `[]HolderOwnsLock` and `[]OneHolder`, for any
  number of processes and any times that satisfy `EnvironmentAssumption`.

The two safety properties follow from each other only in time.  The invariant says, for each stage of a process, how
old its payload and its reading can be (`Local`); that whoever settled or holds is the writer of the stored value and the
value's age is what that process remembers (`Own`); and that a rival which read an older value either puts
before the writer's settle wait ends or not at all (`Rival`).  A takeover needs a value older than the
TTL, which the stored value of a live holder never is: `OldestHeartbeat` adds up claim, put, settle, the failed renewals,
the renewal under way and the spread of the clocks.  `OldestHeartbeat <= Ttl` is not more than needed: the checked
instance has 18 <= 18, and with a TTL of 17 TLC finds two holders.  With the code's constants (TTL 90 s, interval 30 s,
settle 10 s, window 5 s) and one failed renewal it leaves 15 s for twice the two delays plus the clocks' spread.
Under the assumption a heartbeat never finds another holder: `LostOwnership` is a second line of defence.
The proof corrected the model: two `CASE` expressions (`classify_write`, `Due`) had overlapping
guards, for which TLA+ leaves the choice open while the code takes the first; they are `IF`s now.

`FrameLogProofs`
- `TypeCorrect`, `SegmentsOutliveTheirFrames`, `SkippedIsDurable`: `Spec => []TypeOK`, `[]ArchivedIsDurable` and
  `[]FileIsHonest`, for any slack, any larger bucket size, any number of frames, segments and crashes and any steps
  between sequences, in every scenario without the fault `read` (`EveryRead`).
- `TheLogKeepsItsPromise`: `Spec => KeepsThePromise`, the refinement of `CapturedLog`, under the same condition.

`EveryRead` is needed: `frame_log_drain` shows `ArchivedIsDurable` violated once a segment cannot be read, because a
pass that read nothing else counts as drained.  The four properties rest on one inductive invariant, `Inv`, which
accounts for every frame that a replay may still read and that is not durable.  While the process is down the file must
not vouch for it, with the sidecar that belongs to it or with a newer one (`Honest`, `Encodes`).  While it is up, memory keeps
it `Safe` in one of seven ways: its bucket is marked; everything near it is in the ranges and no confirmation is going to take
it out (`Kept`); it is in the ring; it waits for the rescue; it was written less than two lags ago, and neither the sample nor
the durable watermark is a slack above it (`Young`); a table that nobody knows to be suspended acknowledged it, and the
healthy basis, from which the next unclean answer marks, is below it (`Unnoticed`); or it was acknowledged under suspicion and is
only parked (`Suspected`).  The proof has a lemma per action, which moves frames among these ways; `ViewHonest` shows that a file
written from such a memory is honest, `FrameSkip` and `SegmentSkip` that an honest file makes a replay skip only what is
durable.  The slacks are used where the code's comments say: sequences are written less than one slack out of order (`Sorted`) and
acknowledged less than one slack out of order (`Ahead`), and `below_watermarks_by_a_slack` and `suspension_range_lo` pay for both.
`Encodes` allows for one sequence that is in the ranges and in no encoded bucket, `own_floor`, which is sound only since no frame
ever has it.  `Unnoticed` uses the assumption that a suspended table is seen before a second lag has passed, `Settled` that a
batch waits for two lags and two clean answers: after one lag its rows may still be in the page cache, and one clean
answer may be to a query sent before the table suspended.

`SealSpillProofs`
- `TypeCorrect`, `NoSealVanishes`: `Spec => []TypeOK` and `[]NothingVanishes`, for any bars, copies, capacity and queue, any
  number of crashes and every set of faults.

`NothingVanishes` lets a copy leave memory in three ways only: it is counted as lost, or it is in the database or on disk,
or a copy at least as full is.  The last is the ledger's word: `OlderNotWritten` drops a copy because an entry claims a fuller
one, and the claim must be true.  `SpillInv` therefore adds that no entry claims more than was ever reached (`Claims`), also
between the flush and its note (`Reached` bounds what the writer's batch holds) and between the dead-letter write and its
note (`unnoted`); that the threads hold only what they may (`Threaded`, `InWriter`); that channel and ring hold the copies
of a bar in their order (`InOrder`), so that the last copy a flush writes of a bar is the fullest of the batch; and the counters
(`Counters`).  Each loop of the code over a batch (`note_spilled`, `note_live_commit`, `note_mirrored`, the filter of an
append) is a recursive function of the number of seals done; what it computes is shown by taking the least number of
seals for which the claim fails (`WFMin` over the naturals), which stands in for the induction theorems this prover cannot use.
The proof changed the model: batches are walked seal by seal instead of with a fold, and the bars that
`note_live_commits` overlooks were found by it (`HalfMirrored`; the run `seal_spill_overflow` shows them).

`SealFullestProofs`
- `FullestCopyKept`: `Spec => []FullestKept`, for any bars, copies, capacity, queue and number of crashes.  Like the property it
  speaks of the scenarios without faults and of the bars that are not `exposed`.

That the fullest copy is not lost is a property of the future of a record: a replay, a drain or an archive may overwrite or drop
it.  `KeptInv` therefore says where a copy stands among the others.  For each bar (`BarInv`): within a file and from file to file
its copies never decrease (`Arranged`), so reading in order ends with the fullest; the fullest is in the database or in the part
of the files that is still to be read (`Reachable`, of which `FullestKept` is a consequence); a bar with anything on disk has its
fullest copy there, or the writer has just committed it and is about to mirror it (`Backed`, `Pending`): a later replay of the
older record would otherwise win; the ledger of this process knows of every bar of its own that is on disk until the last record
is archived, by its entry or by the overflow flag (`Known`), its entry bounds what is on disk (`Bounded`) and what it calls
committed is in the database (`Stored`).  The escalation queue runs beside all this: a queued copy that has been overtaken finds,
when its turn comes, an entry that refuses it and that is not forgotten before (`Escalated`: the queue mark of the entry is at
least the copy's place in the queue), or the writer stands between its commit and its note and read the queue as busy.  `Batched`
gives the order within a committed batch, `Drained` that a boot drain's tables are never ahead of the fullest copies.  `NotedStep`
is the longest case, for the notes of a live commit decide at once what is mirrored, forgotten and exposed.  The exceptions are used
where they arise and nowhere else: `HalfMirrored` and `Behind` in the notes and the appends, `Overtaken` in `KeptReplay`, for a seal in
the channel must be fuller than what the replay writes before it (`Onward`), `Outlived` in `KeptArchive`, which takes any file out of the
middle.  For every step there is a lemma `Kept...`; the steps
of the faults do not occur (`NoFaults`).

Only model-checked: liveness (`ConvergesToBroker`, `CallsReturn`, `SettlesDown`: beyond the prover) and `ReplayOnlyAdvances`.

## 6. Plan

Done in this order: order book, breaker, call path, budget, sealed-candle spill,
instance lock, unapplied ranges, frame log, token manager with the feed login.
Next, the most important first:

1. `SealReplay`: false acknowledgements, refused records and strikes, held and
   skipped limits.
2. `PaperRuntime` and `RiskEngine`: marks, paper fills, halts; composed with the
   order book's lots.
3. `ExitExecution`: cancel, slice and verify ladders; `modify_order`.
4. Reconnect ladder, flap damper and pool budget of the WebSockets; `DrainHold` with the stop Lambdas;
   aggregator cell.
5. `FrameLog` with two sinks and with `UnappliedRanges` in place of its set of sequences.

Abstract specifications to state: a fill ledger that `OrderBook` implements; an
atomic breaker that `CircuitBreaker` implements and `OrderPath` uses; a
last-fullest-copy table that `SealSpill` without faults implements.

Proofs to add: the abstract specifications above, refined by the modules already proved about.

## 7. Hazards

`PROJECT.json` lists each at its line with the properties that would catch it, or why
none does yet: deliveries (`NoDoubleBooking`, `FillsAccounted`,
`TerminalIsFinal`), lost answers and retries (`NoDuplicateOrder`), lock-free interleavings
(`ProbeHasOwner`, `OneProbePerWindow`), copies overtaking each other through
threads, files and crashes (`FullestKept`, `NothingVanishes`, `ReplayOnlyAdvances`, `CommitsMirrored`), a lease without
compare-and-swap (`OneHolder`, `HolderOwnsLock`), acknowledgements that are not yet true and marks that
must outlive a crash (`FileIsHonest`, `ArchivedIsDurable`, `KeepsThePromise`), slots that run
out (`NothingForgotten`, `KeepsCoverage`), a token shared by many callers (`OnlyOwnToken`, `PagedOnce`,
`MintBeforePark`, `ParkedForCause`, `SettlesDown`).

## 8. Not modelled

Parsing and decoding (pure, covered by property and fuzz tests in the
repository), indicators and strategies (numeric), instrument files, HTTP
handlers, notification wording and delivery, partition archive and disk or
memory watchers (file and cloud I/O), boot wiring, the Lambdas except as
the drain hold's counterpart, common constants and types.  Most of the repository is of this kind: the
modelled files hold the control that crashes, races and retries can break, a small share of its lines.
Of the modelled files, what each section of 2 lists as left out.  Prices appear only as
the decisions taken from them.

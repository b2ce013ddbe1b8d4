# TLA+ models of the rsnano node's election, block pipeline and broadcasts

This directory holds TLA+ specifications of parts of the C++ side of the
rsnano node (`src/`), with the TLC configurations that check them. Each
definition is translated from the source lines that `PROJECT.json` ("map")
names.

## 1. The system: parts, state, operations, interaction

| Part | Source | State | Operations |
|---|---|---|---|
| Election | `nano/node/election.cpp` lines 1-725 | `state_m` (atomic), `status.winner`, `last_votes` (rep → time, timestamp, hash), `last_blocks` (≤ `max_blocks`), `last_tally`, `final_weight`, `is_quorum` (atomic) | `vote`, `fill_from_cache`, `publish` (→ `replace_by_weight`, `remove_block`), `confirm_if_quorum` (→ `tally_impl`, `have_quorum`, `remove_votes`, `confirm_once`), `transition_time`, `broadcast_vote`, `tally`, `current_status`, `force_confirm` |
| Block processor | `unnamed/part_001`, and the publish visitor at `nano/node/election.cpp` lines 1095-1112 | the `blocks`, `forced` and verifier queues, `active`, `flushing`, `stopped`, the blocking-future table, the network's publish filter | the publish visitor (filter, full check) and `process_active`, `add` (full and work checks), `add_blocking` (future with timeout), `force`, `process_blocks`/`process_batch` (forced first, `rollback_competitor`, `process_one`), `flush`, `stop`, `queue_unchecked` |
| Optimistic scheduler | `nano/node/scheduler/optimistic.cpp` | the candidate container in insertion order, `stopped` | `start`, `activate_predicate`, `activate` (dedup, `max_size`), `predicate` (vacancy, activation delay), `run`/`run_one`, `stop` |
| Network: paced broadcasts and periodic tasks | `nano/node/election.cpp` lines 794-806, 867-1060, 1074-1093 and 1300-1394 | endpoint vectors, request bundles and block deques owned by timed tasks; the self-re-arming cleanup, syn-cookie cleanup and keepalive tasks; `network::port` and the peering endpoint peers take from slot 0 of a keepalive | `start`, `broadcast_confirm_req_base`, `_batched_many`, `_many`, `flood_block_many`, `ongoing_cleanup`, `ongoing_syn_cookie_cleanup`, `ongoing_keepalive` |
| Network: peers and syn cookies | the rest of `nano/node/election.cpp` lines 726-1527 | channels, cookie table (both in Rust, behind FFI handles) | keepalive slots other than 0, `merge_peers`, reachout, the other message visitors, cookie assign/validate/purge |
| Stats, configuration, headers, build | the remaining files | none of interest | none |

How the parts interact:

- A `publish` message from the network passes the publish filter, then
  `add`; the processing thread hands a block that is already in an
  election to `process_active`, which calls `add` again.
- The block processor's single thread calls `active.publish`, which calls
  `election::publish` for a fork.
- Vote processor threads call `election::vote`.
- The active-transactions loop calls `transition_time` on every election it
  holds, and erases an election when that returns true. Through the
  confirmation solicitor, that loop calls the paced broadcasts.
- `confirm_if_quorum` calls `block_processor.force` for a new winner, so the
  processor rolls back the competitor.
- `confirm_once` hands the winner to `process_confirmed`. The winner is
  cemented later, which erases its `election_winner_details` entry.
- The optimistic scheduler inserts optimistic elections into the same table
  that other schedulers fill with elections of their own behaviour; it asks
  the table for the room left for optimistic elections
  (`active.vacancy (election_behavior::optimistic)`).

### Hard behaviours

- **Mutex released mid-call.** `confirm_if_quorum` unlocks around
  `final_generator.add` (election.cpp:359-361). `replace_by_weight` unlocks
  between copying `last_tally` and the winner and calling `remove_block`
  (598-634). Everything another thread does in between is then read as it
  was before the unlock.
- **Two views of "confirmed".** `state_m` says confirmed. Separately,
  `confirmed (lock)` asks whether the ledger has cemented the winner (131).
- **No legality check in confirmation.** `confirm_once` stores `confirmed`
  with an unconditional `exchange`, which ignores `valid_change` (44).
- **Tally keyed by weight.** Equal weights collapse into one entry (316).
- **Block processor.** `add` checks `full ()` and enqueues under two separate
  locks. `add_blocking` can time out while its block is processed later.
  `process_batch` writes with the lock released, covered by `active`. A block
  parked in the unchecked map comes back through `add`, which may drop it.
- **Optimistic scheduler.** `predicate ()` checks the optimistic vacancy
  under the scheduler's lock. `run_one` inserts after the unlock, with a
  read transaction opened before the inner loop. The inner loop does not
  test `stopped`.
- **Paced broadcasts.** Each round schedules the next one as a timed task
  with a random delay, so rounds of different broadcasts run in any order. A
  task that runs after shutdown finds `node_w.lock ()` empty and ends the
  chain without its callback.

## 2. Modules

### `Election.tla`: one `nano::election`

It models vote threads (`VoteThreads`), the block processor's thread
(`Publishers`), the active-transactions ticker and the cementing of
notified winners.

**State.** The variables carry the names of the code: `state` (`state_m`),
`winner`, `lastVotes`, `lastBlocks`, `lastTally`, `finalWeight` and
`isQuorum`. The collaborators are kept only as the election reads or writes
them: `cemented` (`node.block_confirmed`), `winnerDetails`
(`election_winner_details`), `history` (`node.history` for the root) and
`notified` (the calls of `process_confirmed`, in order).

Every call runs under the election mutex. A call that releases the mutex is
split at that point. The thread's program counter `pc[t]` and its locals
`local[t]` carry the values it read before the unlock.

**Actions.**

- `Vote`: the whole of `vote`, with `confirm_if_quorum` via `ConfirmIfQuorum`.
- `FinalGenResume`: the rest of `confirm_if_quorum` after
  `final_generator.add`.
- `PublishStart`: `publish` up to the unlock in `replace_by_weight`.
- `ReplaceByWeight`: the victim choice, then `remove_block` and the insert.
- `Tally`: `tally`/`current_status`.
- `TickSwitch`: the switch half of `transition_time`. Passive becomes
  active, and an active election runs `broadcast_vote_impl`.
  `send_confirm_req` and `broadcast_block` change no modelled state.
- `TickTtl`: the time-to-live half up to the mutex. `confirmed ()` takes
  the election mutex only for its own read, and the age is read without
  it; the mutex is taken again before `state_change`. If the election does not expire, the switch
  half's result is returned, and a true result removes it from the table.
- `TickTtlLocked`: the same half under the mutex. `state_change`
  re-validates the move to `expired_unconfirmed` against the current
  `state_m`, since a vote may have confirmed the election in between.
- `Age` (time passing `time_to_live`) and `Cement` (the ledger cementing a
  notified winner).

**Abstractions.** An unelapsed timer makes its call a stuttering step.
Hashes are small naturals, ordered as `nano::block_hash` is. The iteration
order of `unordered_map`, and the order of `std::sort` among equal tallies,
are nondeterministic. A final vote's timestamp is `MaxTimestamp + 1`.

`MC_Election.tla` uses voters `v1` and `v2` of weights 1 and 2 with delta 2.
It has blocks {1, 2, 3} with `max_blocks` 2, timestamps {1, final}, and
inactive-cache tallies {0, 3}.

### `BlockProcessor.tla`: `nano::block_processor`

**State.**

- `blocks`, `verif` and `forced` are the three queues whose lengths make up
  `size ()`.
- `active`, `flushing` and `stopped` are as in the code. `blocking` is the
  table of `add_blocking` promises.
- Producer threads have a pc `ppc` and an argument `parg`. The processing
  thread has `bpc`, the block `cur`, and `batch`, the sequence of blocks of
  the current batch, duplicates included, as `number_of_blocks_processed`
  counts them.
- The ledger side is `ledger` (one block per root), `cemented`, `unchecked`
  and `triggered`. `processed` and `dropped` record outcomes.

**Actions.**

- Producers: `Publish` (the network's publish visitor: a block already in
  the filter, or any block while the processor is `full ()`, is dropped;
  otherwise its digest enters `filter` and it goes on to `add`),
  `ProcessActive` (the rest of that path, which runs the checks of `add`),
  `Add` (the full and work checks) with `AddEnqueue` (the
  `add_impl` under its own lock), `AddBlocking`/`AddBlockingReturn` (promise,
  or timeout and erase), `Force`, and `FlushStart`/`FlushWait`/`FlushEnd`.
- The condition variable behind `rsn_block_processor_wait` is the set
  `sleeping` of flush callers blocked in it (`FlushWait`). Every
  `notify_all` in the code (`add_impl` for a legacy block, `add_blocking`,
  `force`, the verifier's result, `stop`) empties it; the `notify_one` that
  `process_blocks` makes before its own wait (`Idle`) wakes one sleeper.
  `FlushEnd` is taken only by an awake caller.
- The processing thread: `Idle` (no block ready: notify one, then wait),
  `BatchStart`, `BatchPop` (forced first), then
  `ProcessBlock`. `ProcessBlock` is `rollback_competitor` and `process_one`
  with the lock released. Then `BatchEnd` and `BatchNotify`.
- The verifier is `VerifyBatch`: a bad signature is dropped unless the block
  is an epoch link.
- The unchecked map's satisfied observer is `UncheckedSatisfied`, which calls
  `add`. The ledger's `Cement` and `Stop` complete the actions.

The ledger's `process` and `rollback` are outside `src/` and are modelled
from spec.md (`LedgerProcess`, `Rollback` over the dependency graph
`DepGraph`). `filter` is the network's publish filter, kept to the digests
the visitor inserted. The visitor clears a digest again when it drops the
message because `full ()` holds (election.cpp:1109, through
`clear_from_publish_filter` at 1513), so in that case `Publish` leaves
`filter` as it was; nothing clears the digest when `add` later drops the
block. `flush`'s wait also tests `state_block_signature_verification.is_active
()`; the model's verifier takes and hands back its batch in one step
(`VerifyBatch`), so it is never active between steps and the test is left
out of `FlushWait` and `FlushEnd`.

**Refinement.** `BlockQueue.tla` is the abstract promise of spec.md
section 4.1: three first-in first-out lanes (forced, normal, verification)
that callers only append to; verification moves its lane, in order and
minus the failures, to the back of the normal lane; one block at a time is
taken for the ledger, forced lane first. `BlockProcessor.tla` instantiates
it with `urgent <- forced`, `normal <- blocks`, `checking <- verif`,
`taken` the block the processing thread holds, and `done <- processed`;
`ImplementsBlockQueue` (`BQ!Spec`) is checked as a property.

`MC_BlockProcessor.tla` has blocks 1 and 2, which fork on root `r1`.
Block 1 is legacy and block 2 is a state block. Block 3 is on root `r2` and
depends on 1. `full_size` is 2, the batch size is 1 and the store batch
maximum is 2. The producers publish 1, add 3, `add_blocking` 2, `force` 2 and
`flush`.

### `OptimisticScheduler.tla`: `nano::scheduler::optimistic`

**State.**

- `chain` holds each account's block count and confirmation height.
- `elections` is the election table: account, height and behaviour of each
  election. `Vacancy` counts only the optimistic ones against the limit,
  as `predicate ()` asks for the optimistic vacancy; `active_transactions`
  is not under `src/`.
- `candidates` is the container in insertion order, with an "activation
  delay elapsed" flag per candidate.
- The scheduler thread has `spc`, `inner` (it is inside the inner
  `while (predicate ())`), `sarg` and `stopped`.
- `snap` is the ledger as the read transaction opened before the inner
  loop sees it: `run_one` reads the block count through it, so an account
  that grew after the transaction was opened gets an election for its old
  head block. It is released when the inner loop ends.
- `stopPc` is the caller of `stop ()`: running, joining the thread, or
  returned.

**Actions.** `Start` (the thread is only started when the scheduler is
enabled), `Activate`, `Age`, `RunPop` (up to the unlock), `RunOne`
(`run_one` with the lock released), `RunWait`, `RunExit`, `Stop` (set `stopped`, notify) and `StopJoin`
(`join` returns once the thread has left `run` or was never started). The
environment adds `NewBlock`, `OtherInsert` (another scheduler starting a
normal election within its own limit) and `ElectionEnd` (an election of the
table ends, its block cemented or not). `MC_OptimisticScheduler.tla` has two accounts, chains of
up to 3 blocks, `max_size` 1 and a table limit of 1.

### `NetworkBroadcast.tla`: the paced broadcasts of `nano::network`

**State.**

- `pending` holds the calls not yet made.
- One pending timed task per broadcast kind: `baseTasks` (a set, because
  `broadcast_confirm_req_many` starts one base chain per request),
  `batchedTask`, `manyTask` and `floodTask`.
- What has been sent: `baseSent` counts per (hash, channel), `batchedLog`
  holds the chunks per channel, and `floodLog` the flooded blocks.
- `callbacks` counts the callback calls per kind. `alive` is false once the
  node is gone.
- The lifecycle: `channels` is `tcp_channels` (not yet made, running,
  stopped), `threads` the packet processing threads (waiting in
  `process_messages`, handling a message, exited, joined), `netStopped` is
  `network::stopped`, and `stopPc`/`joinIdx` say where each caller of
  `network::stop` (`node::stop` and `~network`) is in it.
- `port` is `network::port`, which `network::stop` sets to 0, and `peering`
  the peering endpoint a peer's channel to this node records from slot 0 of
  a keepalive (`NoPeering` until one is set).

**Actions.**

- `CallBase`, `CallBatched`, `CallMany` and `CallFlood` are the first calls.
- `RunBase`, `RunBatched`, `RunMany` and `RunFlood` are a worker running a
  due task: the call again, or nothing when `node_w.lock ()` fails.
- `NodeStop` is the node's destruction: every `node_w.lock ()` fails from
  then on. It is not taken while `node::stop` is inside `network::stop`.
- `StartThreads` is `start_threads`. `Handle`/`Handled` are a thread running
  `process_message` on a message, and `ThreadExit` is `process_messages`
  returning once `tcp_channels` is stopped.
- `network::stop` is `StopBegin` (`stopped.exchange (true)`; a second call
  returns at once), `StopChannels` (`tcp_channels->stop ()`, the resolver,
  `port = 0`), `StopJoin` (one join of the loop; joining a thread already
  joined throws) and `StopReturn`. `~network` calls it only once the node is
  gone and `node::stop` has returned: the threads hold `shared_from_this`
  references until they end.
- `NetStart` is `network::start`: it arms the periodic tasks, the cleanup
  only when `CleanupEnabled` (the node is not on the dev network).
  `RunPeriodic(k)` runs one of them: while `node_w.lock ()` succeeds it
  does its work and re-arms itself, otherwise the chain ends. For the
  keepalive task the work is `KeepaliveRound`: `flood_keepalive` (slot 0 a
  peer's endpoint, or the zero endpoint when there is no channel) and
  `flood_keepalive_self` (slot 0 the unspecified address with `port`, as
  `fill_keepalive_self` fills it without an external address). Each message
  reaches the peer, whose keepalive visitor (`KeepaliveVisit`) runs on it,
  or is lost.

Each call is one action: the loop over at most `max_reps` endpoints taken
from the back (`BaseRound`), or chunks of at most `confirm_req_hashes_max`
taken from the front of each channel's deque (`Chunk`, `BatchedRound`). Then
comes the timed task or the callback. `MC_NetworkBroadcast.tla` uses 3
channels and 3 hashes, with both limits scaled from 10 and 7 down to 2. The
base call thereby needs two rounds. Channel `c1`'s bundle of 3 needs two
chunks. The `many` call has one request with endpoints and one without.
There is one packet processing thread: both lifecycle properties are about
the join of one thread, and a second one tripled the run's time without a
new case.

## 3. Runs

| Run | cfg | Expect | What it shows |
|---|---|---|---|
| `election_basic` | `MC_Election.cfg` | pass | `TypeOK`, `WinnerIsCandidate`, `ConfirmedIffNotified`, `QuorumAtConfirmation`, `EventuallyRemoved`: the stale winner copy in `replace_by_weight` never makes it remove the current winner, a winner is handed to `process_confirmed` only when it leads every other candidate by the quorum delta in the full vote record, and every election leaves the table. |
| `election_race` | `MC_Election_Race.cfg` | pass | Two vote threads, with the final-vote canary on, interleave across the unlock around `final_generator.add` and across the gap between the unlocked `confirmed ()` read and the mutex in `transition_time`. `ConfirmedIffNotified` and `EventuallyRemoved` still hold, and `FinalQuorumAtConfirmation`: the first confirmation, direct or after `final_generator.add`, has final votes for the winner worth the quorum delta, although the test reads the cached `final_weight`. |
| `election_empty_tally` | `MC_Election_EmptyTally.cfg` | violation | `TallyNonEmpty`: a stale `replace_by_weight` removes the block holding every vote, and the tick calls `have_quorum` on an empty map. |
| `election_cap` | `MC_Election_Cap.cfg` | violation | `CandidateCap`: the victim becomes the winner during the unlock, `remove_block` spares it, and `publish` inserts anyway. |
| `election_final_vote` | `MC_Election_FinalVote.cfg` | violation | `FinalVoteNeverSuperseded`: a representative's final vote for block 1 is replaced by its final vote for a block 2 published later, because `vote` rejects an equal timestamp only when the new hash is not larger (election.cpp:421). spec.md says finality votes are never superseded. |
| `election_renotify` | `MC_Election_Renotify.cfg` | violation | `NotifiedOnce`: a thread resumes after `final_generator.add` on an election already confirmed, expired and cemented, and calls `process_confirmed` again. |
| `bp_safety` | `MC_BlockProcessor.cfg` | pass | The checks are `TypeOK`, `BlockingHeld` (a promise is held only for a waiting thread, whatever the timeout does), `ParkedTriggerPending` (a block parked in the unchecked map whose dependency is in the ledger has that dependency's trigger pending: no lost wakeup across forced rollbacks and the satisfied observer), `FlushDrains` (`flush` returns only when what was queued has been processed, including the block being written with the lock released) and `ForcedReplaces` (a forced block has replaced its uncemented competitor) and `ImplementsBlockQueue` (the processor implements `BlockQueue`: lanes only grow at the back, forced blocks are taken first, verification keeps order). It uses two producers and `stop`. |
| `bp_live` | `MC_BlockProcessor_Live.cfg` | pass | `QueuedEventuallyProcessed`: every queued block is processed or dropped by the verifier. `FlushReturns`: a flush caller asleep on the condition variable is woken, by an enqueue's `notify_all` or by the `notify_one` of an idle processing thread, and returns. |
| `bp_publish_filter` | `MC_BlockProcessor_Publish.cfg` | violation | `FilteredPublishDelivered`: the publish visitor checks `full ()`, inserts the digest into the publish filter, and `add` checks `full ()` again; when another producer fills the queue in between, `add` returns silently and the digest stays in the filter, so every later copy of the block from the network is dropped as a duplicate. |
| `bp_parked` | `MC_BlockProcessor_Parked.cfg` | violation | `ParkedRequeued`: a parked block whose dependency is written goes back through `add`, which drops it while the queue is full. spec.md says it is "retried automatically". |
| `opt_basic` | `MC_OptimisticScheduler.cfg` | pass | The checks are `TypeOK` (includes `max_size`), `CandidateEventuallyScheduled` (every candidate is popped once its delay passes and an optimistic election ends, although the thread sleeps in `wait_for` between checks and another scheduler keeps inserting normal elections), and `StopReturns` (once activations cease, `stop ()` returns: the inner loop ignores `stopped` and drains the candidates it can schedule, then the thread sees `stopped`, so `join` ends). |
| `net_broadcast` | `MC_NetworkBroadcast.cfg` | pass | The checks are `TypeOK` (chunks ≤ `confirm_req_hashes_max`), `BaseExactlyOnce` (each (hash, channel) request is sent once, or fewer after shutdown), `BatchedInOrder` (each channel gets its hashes in bundle order), `ChainCompletes` (every call chain calls its callback unless the node stops), `StopDrains` (after the node is gone, every periodic task chain ends), with tasks in any order; `NoDoubleJoin` (the second call of `network::stop`, from `~network`, joins nothing) and `NetStopReturns` (`network::stop` returns, because `tcp_channels->stop ()` ends `process_messages` before the join). |

`PROJECT.json` ("findings") says what each violation means. Its "hazards"
lists, for every risky line, the properties that cover it. Each property of
a passing run has a mutant in `PROJECT.json` ("mutants"): a plausible bug in
the mapped definition that TLC finds.

`LegalTransitions` stays in `Election.tla` without a run, because the run
set is capped at twelve questions: `confirm_once`'s exchange moves an
`expired_confirmed` election back to `confirmed`, which `valid_change`
forbids; `NotifiedOnce` and `ConfirmedIffNotified` check the side effects of
the same window. Two more disagreements are reached by the model and
listed as hazards without a run: a vote of a representative whose votes
`remove_block` erased is accepted with an older timestamp (election.cpp:576),
which stating needs a history of every timestamp accepted; and with the tie
weights `MCTieWeight`, two blocks of equal weight collapse into one tally
entry, so a winner tied with another candidate, with a stale
`final_weight`, is confirmed (316, 326). The run of `QuorumAtConfirmation`
uses weights with no ties.

**Bounds.**

- **Election:** two voters and three blocks are the fewest that give a winner
  change without quorum, a fork beyond `max_blocks`, and a victim other than
  the winner. Every violation is found within 7 steps.
  `election_basic` runs without local voting: with it, the three-block
  run reached a million states and took over three minutes. The node's own
  votes (the vote history, removing its vote on a winner change, the final
  vote generator) are checked by `election_race`, whose two blocks keep it
  small.
- **Block processor:**
  - `full_size` 2 with three blocks lets the queue fill.
  - Batch size 1 below a store maximum of 2 takes both batch exits.
  - The fork on `r1`, with block 3 depending on 1, makes the forced block
    roll back a competitor with a descendant.
  - The safety run (two producers) covers the `add` race and the race
    between the publish visitor's and `add`'s full checks. The liveness
    runs use one producer.
  - Block 1 arrives by `publish`, so the filter path is taken while the
    queue can be full.
- **Optimistic scheduler:** a limit of 1 and two accounts make candidates
  wait for the optimistic slot while normal elections come and go.
  `max_size` 1 makes `activate` refuse. `MaxCount` 3 (chains of up to 3
  blocks) lets an election end and cement the head block while `run_one`
  still holds the old transaction.
- **Broadcasts:** each limit is below its input's length, so every chain
  needs a second, timed round. All three periodic tasks are armed
  (`CleanupEnabled`), and shutdown can come before, between or after their
  rounds. One listening port and the zero endpoint are the two slot-0
  values a keepalive can carry; each keepalive may be lost. The peer's
  record is kept in the state (`peering`); no property is stated on it,
  since the visitor's port test alone decides it.

**Deadlock.** Every cfg says `CHECK_DEADLOCK FALSE`:

- a removed election stops;
- the producers make a bounded set of calls;
- the scheduler waits for new candidates;
- a broadcast chain ends.

Each of these is the intended final state, not a hang. The liveness
properties check that the wanted states are reached.

## 4. Fairness

- **Election:** `TickSwitch` and `TickTtl` are weakly fair, because
  active transactions ticks every election it holds. `Age` is weakly fair,
  because time passes. `TickTtlLocked` is weakly fair, because the ticking
  thread waits on the election mutex and gets it. `FinalGenResume` and `ReplaceByWeight` are weakly
  fair, because a thread that released the mutex takes it again. Votes,
  publishes and cementing get no fairness.
- **Block processor:** the processing thread's steps, `VerifyBatch` and
  `UncheckedSatisfied` are weakly fair. Each waits on a condition variable
  that every enqueue notifies. Producers get none, except that a flush
  caller's `FlushWait` and `FlushEnd` are weakly fair: an awake thread
  that holds the mutex goes on. A sleeping caller gets no fairness; it
  leaves `sleeping` only through a notify.
- **Optimistic scheduler:** `Start` is weakly fair, because the node calls
  `start ()` when it starts. `StopJoin` is weakly fair, because `join`
  returns once the thread has ended. The scheduler thread is weakly fair as
  one thread (`SchedulerThread`, the disjunction of `RunPop`, `RunOne`,
  `RunWait` and `RunExit`), because `wait_for` wakes it at least every half
  delay and `predicate ()` then picks the step; `Age` is weakly fair,
  because time passes. `ElectionEnd(e)` is weakly fair for each election,
  and enabled only while `e` is in the table, because an election ends by
  confirmation or by its time to live. `Activate` and `OtherInsert` get none.
- **Broadcasts:** running a due task is weakly fair, because the workers'
  timed queue runs every task once its time has come; the same holds for
  each periodic task (`RunPeriodic`). The packet processing threads
  (`Handled`, `ThreadExit`) and a thread inside `network::stop` are weakly
  fair, because they are running threads. The calls, `NetStart`,
  `StartThreads`, `Handle`, `StopBegin` and `NodeStop` get none.

## 5. Not modelled

- **Network peers, keepalive slots other than 0, `merge_peers`, reachout,
  the other message visitors and syn cookies.** They are I/O on
  `tcp_channels` and sockets, and the cookie table and channel lists are
  Rust objects behind FFI handles: `src/` holds only the calls. The cleanup
  and syn-cookie tasks are modelled only as chains that re-arm themselves.
- **What a stopped `tcp_channels` does with a send or a purge.** The
  periodic tasks test only `node_w.lock ()`, not `stopped`, so after
  `network::stop` they keep running until the node is destroyed. The model
  runs them (keepalives then advertise port 0, which the visitor ignores)
  and lets each keepalive reach the peer or be lost.
- **The external-address branch of `fill_keepalive_self`.** With
  `external_address` configured, slot 0 is that address, which the visitor
  does not take as a peering port; the model uses the default
  configuration.
- **Stats, configuration (de)serialisation, and headers whose implementation
  is in Rust** (vote cache, unchecked map, stores, ledger). The ledger's
  process and rollback appear only as spec.md describes them.
- **Cooldown arithmetic, timestamps beyond one live value, and the vote
  router's lookup.**
- **`flood_block_many` on an empty deque (no callback) and
  `broadcast_confirm_req_many` on an empty deque (`front ()` of an empty
  container).** Both are listed as hazards. Their callers are outside
  `src/`.

- **Two flush callers at once.** `process_blocks` wakes sleepers with
  `notify_one`, so with two concurrent flushes only one is woken per idle
  turn. Whether the other waits for ever depends on the Rust condition
  wait behind `rsn_block_processor_wait` (spurious wakeups), which is not
  in `src/`. `FlushReturns` is checked with one caller; the case is listed
  as a hazard.
- **Stale routes in elections.** A vote from a representative whose block
  was removed by `remove_block` is erased with it, so the tally never
  holds a vote for a hash outside `last_blocks`. Modelling routes that
  outlive the removal pushed the election runs past five million states;
  the hazard lists this.
- **Files that only wrap Rust.** `stats.cpp`, `rsnanoutils.hpp`,
  `channel.hpp`, `inproc.hpp`, `unchecked_map.hpp` and
  `bootstrap_config.cpp` forward every call through FFI handles; they
  hold no state or control of their own to model.

## 6. Further work

1. **`ElectionPipeline.tla`, composing `Election` and `BlockProcessor`
   through `force` and rollback.** Property: a cemented or notified winner is
   never rolled back by a later force. It needs a run of its own.
2. **Violation runs for the disagreements listed above** (`LegalTransitions`,
   the replay after `remove_block`), if the run set is reorganised.
3. **An abstract election specification** (one winner confirmed, at most
   once) refined by `Election`; the revival by `confirm_once` means the
   abstract machine must allow a confirmed, expired election to be
   confirmed again, or the refinement fails on that known path.

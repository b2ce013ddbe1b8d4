---------------------------- MODULE BlockProcessor ----------------------------
(***************************************************************************)
(* nano::block_processor (src/unnamed/part_001): the queue of blocks      *)
(* waiting to be written to the ledger and the single thread that writes   *)
(* them in batches.                                                        *)
(*                                                                         *)
(* Three queues make up size (): blocks (ready to process), the state     *)
(* block signature verifier's queue (verif) and forced.  Producer threads *)
(* call add, add_blocking, force and flush; the processing thread runs    *)
(* process_blocks; the verifier thread hands checked state blocks back    *)
(* through process_verified_state_blocks; the unchecked map re-adds a      *)
(* block whose dependency was written.                                     *)
(*                                                                         *)
(* The ledger is kept to what the processor reads and writes: which block *)
(* holds each root (ledger), which blocks are cemented, and a dependency  *)
(* per block (previous or source).  A block's content is its identity.    *)
(***************************************************************************)
EXTENDS Integers, Sequences, FiniteSets

LOCAL INSTANCE Graphs

CONSTANTS
  Blocks,       \* block hashes
  RootOf,       \* [Blocks -> roots]: block->qualified_root (); equal roots fork
  Dep,          \* [Blocks -> Blocks \cup {NoBlock}]: the block it depends on
  StateBlocks,  \* state and open blocks: go through signature verification
  EpochLinks,   \* state blocks with an epoch link: kept whatever the signature check says
  BadWork,      \* blocks network_params.work.validate_entry rejects
  BadSig,       \* state blocks whose signature check fails
  FullSize,     \* flags.block_processor_full_size ()
  BatchSize,    \* flags.block_processor_batch_size ()
  StoreBatchMax,\* store.max_block_write_batch_num ()
  Producers,    \* threads calling add, add_blocking, force and flush
  Calls,        \* the calls they make: records [op, block]
  MayStop,      \* whether stop () is called
  NoBlock

ASSUME /\ StateBlocks \subseteq Blocks /\ EpochLinks \subseteq StateBlocks
       /\ BadSig \subseteq StateBlocks /\ BadWork \subseteq Blocks
       /\ FullSize > 0 /\ 0 < BatchSize /\ BatchSize <= StoreBatchMax

Ops == {"add", "add_blocking", "force", "flush", "publish"}

VARIABLES
  calls,      \* the calls not yet made
  blocks,     \* blocks: the queue of blocks ready to process
  verif,      \* state_block_signature_verification's queue
  forced,     \* forced
  active,     \* active: the processing thread is inside a batch
  flushing,   \* flushing
  stopped,    \* stopped
  ledger,     \* blocks in the ledger (at most one per root)
  cemented,   \* blocks the confirmation height processor cemented
  unchecked,  \* blocks the unchecked map holds until their dependency is written
  triggered,  \* dependencies unchecked.trigger was called for, not yet handled
  filter,     \* the network's publish filter: blocks whose publish message it has seen
  ppc,        \* [Producers -> "idle" | "publishing" | "adding" | "waiting" | "flushing"]
  parg,       \* [Producers -> the block of the call in progress]
  blocking,   \* blocks with a pending add_blocking promise
  sleeping,   \* flush callers blocked in the processor's condition wait
  bpc,        \* the processing thread: "top" (loop head) | "wait" | "batch" | "process" | "notify"
  cur,        \* the block popped and being processed: [block, force] or NoBlock
  batch,      \* the blocks processed in this batch, in order (number_of_blocks_processed = Len)
  processed,  \* blocks process_one has been called for (history)
  flushSnap,  \* [Producers -> blocks queued when that flush began] (history)
  dropped     \* blocks the verifier dropped for a bad signature (history)

vars == <<calls, blocks, verif, forced, active, flushing, stopped, ledger, cemented,
          unchecked, triggered, filter, ppc, parg, blocking, sleeping, bpc, cur, batch,
          processed, flushSnap, dropped>>

-----------------------------------------------------------------------------
(* size (), full (): the three queues together against the full size.     *)
Size == Len(blocks) + Len(verif) + Len(forced)
Full == Size >= FullSize

(* have_blocks_ready (), have_blocks ().                                   *)
(* Mutant: a batch is started only for blocks, forgetting forced.       *)
HaveBlocksReadyNoForced == blocks # <<>>
HaveBlocksReady == blocks # <<>> \/ forced # <<>>
HaveBlocks == HaveBlocksReady \/ verif # <<>>

SeqSet(s) == {s[i] : i \in 1..Len(s)}

Queued == SeqSet(blocks) \cup SeqSet(verif) \cup SeqSet(forced)
            \cup (IF cur = NoBlock THEN {} ELSE {cur.block})

(* The block of ledger l that holds root r: ledger.successor.              *)
SuccessorIn(l, r) == IF \E b \in l : RootOf[b] = r
                       THEN CHOOSE b \in l : RootOf[b] = r ELSE NoBlock

Successor(r) == SuccessorIn(ledger, r)

(* Mutant: every block is sent to the signature verifier.                *)
AddImplAllVerified(b) == /\ verif' = Append(verif, b) /\ UNCHANGED blocks

(* add_impl: state and open blocks go to the signature verifier, others    *)
(* straight to blocks.                                                     *)
AddImpl(b) ==
  IF b \in StateBlocks
    THEN /\ verif' = Append(verif, b) /\ UNCHANGED blocks
    ELSE /\ blocks' = Append(blocks, b) /\ UNCHANGED verif

-----------------------------------------------------------------------------
Init ==
  /\ calls = Calls
  /\ blocks = <<>> /\ verif = <<>> /\ forced = <<>>
  /\ active = FALSE /\ flushing = FALSE /\ stopped = FALSE
  /\ ledger = {} /\ cemented = {}
  /\ unchecked = {} /\ triggered = {}
  /\ filter = {}
  /\ ppc = [p \in Producers |-> "idle"]
  /\ parg = [p \in Producers |-> NoBlock]
  /\ blocking = {}
  /\ sleeping = {}
  /\ bpc = "top" /\ cur = NoBlock /\ batch = <<>>
  /\ processed = {}
  /\ flushSnap = [p \in Producers |-> {}]
  /\ dropped = {}

ProducerVars == <<ppc, parg>>
LedgerVars == <<ledger, cemented, unchecked, triggered, filter>>
ThreadVars == <<bpc, cur, batch, processed, dropped>>

(* add (block), up to add_impl: a full queue or insufficient work drops   *)
(* the block; otherwise the thread goes on to add_impl, which takes the    *)
(* lock again.                                                             *)
AddCheck(p, b) ==
  IF Full \/ b \in BadWork
    THEN /\ ppc' = [ppc EXCEPT ![p] = "idle"]
         /\ parg' = [parg EXCEPT ![p] = NoBlock]
    ELSE /\ ppc' = [ppc EXCEPT ![p] = "adding"]
         /\ parg' = [parg EXCEPT ![p] = b]

Add(p, b) ==
  /\ ppc[p] = "idle"
  /\ [op |-> "add", block |-> b] \in calls
  /\ calls' = calls \ {[op |-> "add", block |-> b]}
  /\ AddCheck(p, b)
  /\ UNCHANGED <<blocks, verif, forced, active, flushing, stopped, blocking,
                 flushSnap>>
  /\ UNCHANGED LedgerVars /\ UNCHANGED ThreadVars
  /\ UNCHANGED sleeping

(* A publish message reaches network_message_visitor::publish unless the  *)
(* publish filter has seen it.  With block_processor.full () the digest is *)
(* cleared from the filter again and the message dropped; otherwise        *)
(* process_active (block) calls add (block), which looks at full () again  *)
(* under its own lock.                                                     *)
Publish(p, b) ==
  /\ ppc[p] = "idle"
  /\ [op |-> "publish", block |-> b] \in calls
  /\ calls' = calls \ {[op |-> "publish", block |-> b]}
  /\ IF b \in filter \/ Full
       THEN UNCHANGED <<filter, ppc, parg>>
       ELSE /\ filter' = filter \cup {b}
            /\ ppc' = [ppc EXCEPT ![p] = "publishing"]
            /\ parg' = [parg EXCEPT ![p] = b]
  /\ UNCHANGED <<blocks, verif, forced, active, flushing, stopped, blocking,
                 flushSnap, ledger, cemented, unchecked, triggered>>
  /\ UNCHANGED ThreadVars
  /\ UNCHANGED sleeping

(* process_active: add (block) for the published block.                    *)
ProcessActive(p) ==
  /\ ppc[p] = "publishing"
  /\ AddCheck(p, parg[p])
  /\ UNCHANGED <<calls, blocks, verif, forced, active, flushing, stopped, blocking,
                 flushSnap>>
  /\ UNCHANGED LedgerVars /\ UNCHANGED ThreadVars
  /\ UNCHANGED sleeping

(* add_impl of a block add accepted.                                       *)
AddEnqueue(p) ==
  /\ ppc[p] = "adding"
  /\ AddImpl(parg[p])
  /\ ppc' = [ppc EXCEPT ![p] = "idle"]
  /\ parg' = [parg EXCEPT ![p] = NoBlock]
  /\ UNCHANGED <<calls, forced, active, flushing, stopped, blocking, flushSnap>>
  /\ UNCHANGED LedgerVars /\ UNCHANGED ThreadVars
  /\ sleeping' = IF parg[p] \in StateBlocks THEN sleeping ELSE {}

(* add_blocking (block): register the promise and add_impl, with no full  *)
(* or work check; then wait for the result.                                *)
AddBlocking(p, b) ==
  /\ ppc[p] = "idle"
  /\ [op |-> "add_blocking", block |-> b] \in calls
  /\ calls' = calls \ {[op |-> "add_blocking", block |-> b]}
  /\ blocking' = blocking \cup {b}
  /\ AddImpl(b)
  /\ ppc' = [ppc EXCEPT ![p] = "waiting"]
  /\ parg' = [parg EXCEPT ![p] = b]
  /\ UNCHANGED <<forced, active, flushing, stopped, flushSnap>>
  /\ UNCHANGED LedgerVars /\ UNCHANGED ThreadVars
  /\ sleeping' = {}

(* Mutant: the timeout returns without erasing the promise.              *)
AddBlockingReturnNoErase(p) ==
  /\ ppc[p] = "waiting"
  /\ ppc' = [ppc EXCEPT ![p] = "idle"]
  /\ parg' = [parg EXCEPT ![p] = NoBlock]
  /\ UNCHANGED <<calls, blocks, verif, forced, active, flushing, stopped, flushSnap, blocking>>
  /\ UNCHANGED LedgerVars /\ UNCHANGED ThreadVars
  /\ UNCHANGED sleeping

(* future.wait_for returns: ready when the batch notification fulfilled    *)
(* the promise, otherwise (block_process_timeout) the entry is erased.    *)
AddBlockingReturn(p) ==
  /\ ppc[p] = "waiting"
  /\ \/ /\ parg[p] \notin blocking
        /\ UNCHANGED blocking
     \/ /\ parg[p] \in blocking
        /\ blocking' = blocking \ {parg[p]}
  /\ ppc' = [ppc EXCEPT ![p] = "idle"]
  /\ parg' = [parg EXCEPT ![p] = NoBlock]
  /\ UNCHANGED <<calls, blocks, verif, forced, active, flushing, stopped, flushSnap>>
  /\ UNCHANGED LedgerVars /\ UNCHANGED ThreadVars
  /\ UNCHANGED sleeping

(* force (block): append to forced, whatever the size.                     *)
Force(p, b) ==
  /\ ppc[p] = "idle"
  /\ [op |-> "force", block |-> b] \in calls
  /\ calls' = calls \ {[op |-> "force", block |-> b]}
  /\ forced' = Append(forced, b)
  /\ UNCHANGED <<blocks, verif, active, flushing, stopped, blocking, flushSnap>>
  /\ UNCHANGED ProducerVars /\ UNCHANGED LedgerVars /\ UNCHANGED ThreadVars
  /\ sleeping' = {}

(* flush (): set flushing and wait while there is anything to process.     *)
FlushStart(p) ==
  /\ ppc[p] = "idle"
  /\ [op |-> "flush", block |-> NoBlock] \in calls
  /\ calls' = calls \ {[op |-> "flush", block |-> NoBlock]}
  /\ flushing' = TRUE
  /\ ppc' = [ppc EXCEPT ![p] = "flushing"]
  /\ flushSnap' = [flushSnap EXCEPT ![p] = Queued]
  /\ UNCHANGED <<blocks, verif, forced, active, stopped, parg, blocking>>
  /\ UNCHANGED LedgerVars /\ UNCHANGED ThreadVars
  /\ UNCHANGED sleeping

(* Mutant: flush waits on the queues only, not on the active batch.      *)
FlushEndIgnoresActive(p) ==
  /\ ppc[p] = "flushing"
  /\ p \notin sleeping
  /\ stopped \/ ~HaveBlocks
  /\ flushing' = FALSE
  /\ ppc' = [ppc EXCEPT ![p] = "idle"]
  /\ UNCHANGED <<calls, blocks, verif, forced, active, stopped, parg, blocking,
                 flushSnap>>
  /\ UNCHANGED LedgerVars /\ UNCHANGED ThreadVars
  /\ UNCHANGED sleeping

(* flush (): with something still to process, wait on the condition.     *)
(* The loop also waits while state_block_signature_verification.is_active *)
(* (); the model's verifier takes its batch and hands it back in one step *)
(* (VerifyBatch), so it is never active between steps and the conjunct is *)
(* left out.                                                               *)
FlushWait(p) ==
  /\ ppc[p] = "flushing"
  /\ p \notin sleeping
  /\ ~stopped /\ (HaveBlocks \/ active)
  /\ sleeping' = sleeping \cup {p}
  /\ UNCHANGED <<calls, blocks, verif, forced, active, flushing, stopped, ppc, parg,
                 blocking, flushSnap>>
  /\ UNCHANGED LedgerVars /\ UNCHANGED ThreadVars

FlushEnd(p) ==
  /\ ppc[p] = "flushing"
  /\ p \notin sleeping
  /\ stopped \/ ~(HaveBlocks \/ active)
  /\ flushing' = FALSE
  /\ ppc' = [ppc EXCEPT ![p] = "idle"]
  /\ UNCHANGED <<calls, blocks, verif, forced, active, stopped, parg, blocking,
                 flushSnap>>
  /\ UNCHANGED LedgerVars /\ UNCHANGED ThreadVars
  /\ UNCHANGED sleeping

(* process_verified_state_blocks: the verifier hands back its checked     *)
(* blocks; a block with a good signature, or with an epoch link, is        *)
(* appended to blocks, the others are dropped.                             *)
VerifyBatch ==
  /\ verif # <<>>
  /\ blocks' = blocks \o SelectSeq(verif, LAMBDA b : b \notin BadSig \/ b \in EpochLinks)
  /\ verif' = <<>>
  /\ dropped' = dropped \cup (SeqSet(verif) \cap (BadSig \ EpochLinks))
  /\ UNCHANGED <<calls, forced, active, flushing, stopped, blocking, flushSnap>>
  /\ UNCHANGED ProducerVars /\ UNCHANGED LedgerVars /\ UNCHANGED <<bpc, cur, batch, processed>>
  /\ sleeping' = {}

(* process_blocks: with blocks ready, set active and enter process_batch; *)
(* a waiting thread is woken by the notify_all of every enqueue.          *)
BatchStart ==
  /\ bpc \in {"top", "wait"}
  /\ ~stopped
  /\ HaveBlocksReady
  /\ active' = TRUE
  /\ bpc' = "batch"
  /\ batch' = <<>>
  /\ UNCHANGED <<calls, blocks, verif, forced, flushing, stopped, blocking,
                 flushSnap, cur, processed, dropped>>
  /\ UNCHANGED ProducerVars /\ UNCHANGED LedgerVars
  /\ UNCHANGED sleeping

(* The loop condition of process_batch.  The deadline is wall-clock time:  *)
(* once batch_size blocks are done, the batch may go on or stop.          *)
MayContinue == HaveBlocksReady /\ Len(batch) < StoreBatchMax
MayStopBatch == ~HaveBlocksReady \/ Len(batch) >= BatchSize

(* Mutant: the batch takes from blocks while any are queued, forced only *)
(* when blocks is empty.                                                   *)
BatchPopBlocksFirst ==
  /\ bpc = "batch"
  /\ MayContinue
  /\ IF blocks # <<>>
       THEN /\ cur' = [block |-> Head(blocks), force |-> FALSE]
            /\ blocks' = Tail(blocks)
            /\ UNCHANGED forced
       ELSE /\ cur' = [block |-> Head(forced), force |-> TRUE]
            /\ forced' = Tail(forced)
            /\ UNCHANGED blocks
  /\ bpc' = "process"
  /\ UNCHANGED <<calls, verif, active, flushing, stopped, blocking, flushSnap,
                 batch, processed, dropped>>
  /\ UNCHANGED ProducerVars /\ UNCHANGED LedgerVars
  /\ UNCHANGED sleeping

(* One turn of the process_batch loop up to the unlock: take the head of  *)
(* forced if there is one, else the head of blocks.                        *)
BatchPop ==
  /\ bpc = "batch"
  /\ MayContinue
  /\ IF forced = <<>>
       THEN /\ cur' = [block |-> Head(blocks), force |-> FALSE]
            /\ blocks' = Tail(blocks)
            /\ UNCHANGED forced
       ELSE /\ cur' = [block |-> Head(forced), force |-> TRUE]
            /\ forced' = Tail(forced)
            /\ UNCHANGED blocks
  /\ bpc' = "process"
  /\ UNCHANGED <<calls, verif, active, flushing, stopped, blocking, flushSnap,
                 batch, processed, dropped>>
  /\ UNCHANGED ProducerVars /\ UNCHANGED LedgerVars
  /\ UNCHANGED sleeping

(* ledger.rollback (hash): refused if the block or a block depending on   *)
(* it is cemented; otherwise the block and its dependents leave the       *)
(* ledger.                                                                 *)
DepGraph == [node |-> Blocks, edge |-> {<<Dep[d], d>> : d \in {x \in Blocks : Dep[x] # NoBlock}}]

RolledBack(s) == ({s} \cup Descendants(DepGraph, s)) \cap ledger

Rollback(s) ==
  IF RolledBack(s) \cap cemented = {} THEN ledger \ RolledBack(s) ELSE ledger

(* rollback_competitor: a forced block replaces the ledger's successor of *)
(* its root, if that is a different block.                                 *)
RollbackCompetitor(b) ==
  LET s == Successor(RootOf[b])
  IN IF s # NoBlock /\ s # b THEN Rollback(s) ELSE ledger

(* ledger.process (block): the outcome for the ledger l.                   *)
LedgerProcess(l, b) ==
  CASE b \in l                                    -> "old"
    [] b \in BadSig \ EpochLinks                  -> "bad_signature"
    [] Dep[b] # NoBlock /\ Dep[b] \notin l        -> "gap"
    [] \E x \in l : RootOf[x] = RootOf[b]         -> "fork"
    [] OTHER                                      -> "progress"

(* Mutant: process_one without queue_unchecked on progress.              *)
ProcessOneNoTrigger(l, b) ==
  LET r == LedgerProcess(l, b)
  IN /\ ledger' = IF r = "progress" THEN l \cup {b} ELSE l
     /\ UNCHANGED triggered
     /\ unchecked' = IF r = "gap" THEN unchecked \cup {b} ELSE unchecked

(* process_one: write the block; on progress queue_unchecked triggers the  *)
(* blocks waiting for it, on a gap unchecked.put parks it under its        *)
(* dependency; every other outcome only counts.                            *)
ProcessOne(l, b) ==
  LET r == LedgerProcess(l, b)
  IN /\ ledger' = IF r = "progress" THEN l \cup {b} ELSE l
     /\ triggered' = IF r = "progress" THEN triggered \cup {b} ELSE triggered
     /\ unchecked' = IF r = "gap" THEN unchecked \cup {b} ELSE unchecked

(* Mutant: a forced block is processed without rollback_competitor.      *)
ProcessBlockNoRollback ==
  /\ bpc = "process"
  /\ ProcessOne(ledger, cur.block)
  /\ batch' = Append(batch, cur.block)
  /\ processed' = processed \cup {cur.block}
  /\ cur' = NoBlock
  /\ bpc' = "batch"
  /\ UNCHANGED <<calls, blocks, verif, forced, active, flushing, stopped, blocking,
                 flushSnap, cemented, dropped, filter>>
  /\ UNCHANGED ProducerVars
  /\ UNCHANGED sleeping

(* The rest of the loop turn: rollback_competitor for a forced block,      *)
(* process_one, and the lock taken again.                                  *)
ProcessBlock ==
  /\ bpc = "process"
  /\ ProcessOne(IF cur.force THEN RollbackCompetitor(cur.block) ELSE ledger, cur.block)
  /\ batch' = Append(batch, cur.block)
  /\ processed' = processed \cup {cur.block}
  /\ cur' = NoBlock
  /\ bpc' = "batch"
  /\ UNCHANGED <<calls, blocks, verif, forced, active, flushing, stopped, blocking,
                 flushSnap, cemented, dropped, filter>>
  /\ UNCHANGED ProducerVars
  /\ UNCHANGED sleeping

(* The end of process_batch and of the process_blocks turn: unlock, notify *)
(* batch_processed (the blocking promises of the batch's blocks are        *)
(* fulfilled), lock, clear active.                                         *)
BatchEnd ==
  /\ bpc = "batch"
  /\ MayStopBatch
  /\ bpc' = "notify"
  /\ UNCHANGED <<calls, blocks, verif, forced, active, flushing, stopped, blocking,
                 flushSnap, cur, batch, processed, dropped>>
  /\ UNCHANGED ProducerVars /\ UNCHANGED LedgerVars
  /\ UNCHANGED sleeping

BatchNotify ==
  /\ bpc = "notify"
  /\ blocking' = blocking \ SeqSet(batch)
  /\ active' = FALSE
  /\ bpc' = "top"
  /\ UNCHANGED <<calls, blocks, verif, forced, flushing, stopped, flushSnap,
                 cur, batch, processed, dropped>>
  /\ UNCHANGED ProducerVars /\ UNCHANGED LedgerVars
  /\ UNCHANGED sleeping

(* Mutant: the loop waits without notifying.                             *)
IdleNoNotify ==
  /\ bpc = "top"
  /\ ~stopped /\ ~HaveBlocksReady
  /\ bpc' = "wait"
  /\ UNCHANGED <<calls, blocks, verif, forced, active, flushing, stopped, blocking,
                 sleeping, flushSnap, cur, batch, processed, dropped>>
  /\ UNCHANGED ProducerVars /\ UNCHANGED LedgerVars

(* process_blocks with nothing ready: notify_one, then wait.  One flush    *)
(* caller blocked in the wait, if any, is woken.                           *)
Idle ==
  /\ bpc = "top"
  /\ ~stopped /\ ~HaveBlocksReady
  /\ \/ sleeping = {} /\ UNCHANGED sleeping
     \/ \E p \in sleeping : sleeping' = sleeping \ {p}
  /\ bpc' = "wait"
  /\ UNCHANGED <<calls, blocks, verif, forced, active, flushing, stopped, blocking,
                 flushSnap, cur, batch, processed, dropped>>
  /\ UNCHANGED ProducerVars /\ UNCHANGED LedgerVars

(* The unchecked map's satisfied observer for a triggered dependency: the *)
(* blocks parked under it leave the map and go through add (block), which *)
(* drops them if the queue is full or the work is insufficient.            *)
UncheckedSatisfied ==
  \E d \in triggered :
    LET ready == {b \in unchecked : Dep[b] = d}
        kept  == IF Full THEN {} ELSE ready \ BadWork
    IN /\ triggered' = triggered \ {d}
       /\ unchecked' = unchecked \ ready
       /\ \E order \in {s \in [1..Cardinality(kept) -> kept] : SeqSet(s) = kept} :
            /\ blocks' = blocks \o SelectSeq(order, LAMBDA b : b \notin StateBlocks)
            /\ verif' = verif \o SelectSeq(order, LAMBDA b : b \in StateBlocks)
       /\ UNCHANGED <<calls, forced, active, flushing, stopped, blocking, flushSnap,
                      ledger, cemented, filter>>
       /\ UNCHANGED ProducerVars /\ UNCHANGED ThreadVars
       /\ sleeping' = IF kept \ StateBlocks = {} THEN sleeping ELSE {}

(* The confirmation height processor cements a ledger block whose         *)
(* dependency is cemented.                                                 *)
Cement ==
  \E b \in ledger \ cemented :
    /\ Dep[b] = NoBlock \/ Dep[b] \in cemented
    /\ cemented' = cemented \cup {b}
    /\ UNCHANGED <<calls, blocks, verif, forced, active, flushing, stopped, blocking,
                   flushSnap, ledger, unchecked, triggered, filter>>
    /\ UNCHANGED ProducerVars /\ UNCHANGED ThreadVars
    /\ UNCHANGED sleeping

(* stop (): set stopped; process_blocks leaves its loop and flush returns. *)
Stop ==
  /\ MayStop /\ ~stopped
  /\ stopped' = TRUE
  /\ UNCHANGED <<calls, blocks, verif, forced, active, flushing, blocking,
                 flushSnap>>
  /\ UNCHANGED ProducerVars /\ UNCHANGED LedgerVars /\ UNCHANGED ThreadVars
  /\ sleeping' = {}

Next ==
  \/ \E p \in Producers, b \in Blocks :
       Add(p, b) \/ AddBlocking(p, b) \/ Force(p, b) \/ Publish(p, b)
  \/ \E p \in Producers : ProcessActive(p) \/ AddEnqueue(p) \/ AddBlockingReturn(p) \/ FlushStart(p) \/ FlushWait(p) \/ FlushEnd(p)
  \/ VerifyBatch \/ BatchStart \/ Idle \/ BatchPop \/ ProcessBlock \/ BatchEnd \/ BatchNotify
  \/ UncheckedSatisfied \/ Cement \/ Stop

(* The processing, verifier and unchecked threads run whenever they have  *)
(* work: each waits on a condition variable that every enqueue notifies.   *)
(* Producers get no fairness for their calls: the processing of what is   *)
(* queued does not depend on them.  A flush caller that is not blocked in  *)
(* the condition wait runs on.                                              *)
Fairness ==
  /\ WF_vars(VerifyBatch) /\ WF_vars(BatchStart) /\ WF_vars(BatchPop)
  /\ WF_vars(ProcessBlock) /\ WF_vars(BatchEnd) /\ WF_vars(BatchNotify)
  /\ WF_vars(UncheckedSatisfied) /\ WF_vars(Idle)
  /\ \A p \in Producers : WF_vars(FlushWait(p)) /\ WF_vars(FlushEnd(p))

Spec == Init /\ [][Next]_vars /\ Fairness

-----------------------------------------------------------------------------
(***************************************************************************)
(* Properties                                                              *)
(***************************************************************************)

TypeOK ==
  /\ calls \subseteq [op : Ops, block : Blocks \cup {NoBlock}]
  /\ blocks \in Seq(Blocks) /\ verif \in Seq(StateBlocks) /\ forced \in Seq(Blocks)
  /\ active \in BOOLEAN /\ flushing \in BOOLEAN /\ stopped \in BOOLEAN
  /\ ledger \subseteq Blocks /\ cemented \subseteq ledger
  /\ unchecked \subseteq Blocks /\ triggered \subseteq Blocks
  /\ filter \subseteq Blocks
  /\ ppc \in [Producers -> {"idle", "publishing", "adding", "waiting", "flushing"}]
  /\ blocking \subseteq Blocks /\ sleeping \subseteq Producers
  /\ bpc \in {"top", "wait", "batch", "process", "notify"} /\ batch \in Seq(Blocks)
  /\ processed \subseteq Blocks /\ dropped \subseteq BadSig

(* flush returns, unless the processor was stopped, only once every block *)
(* queued when it began has been through process_one or was dropped by    *)
(* the verifier: the block the processing thread popped and is writing    *)
(* with the lock released is covered by active.                            *)
FlushDrains ==
  [][\A p \in Producers :
       (ppc[p] = "flushing" /\ ppc'[p] = "idle" /\ ~stopped)
         => flushSnap[p] \subseteq processed' \cup dropped']_vars

(* An add_blocking promise is only held for a thread still waiting on it: *)
(* the timeout erases it, the batch notification fulfils it, and a block  *)
(* the verifier drops leaves it to the timeout.                            *)
BlockingHeld ==
  \A b \in blocking : \E p \in Producers : ppc[p] = "waiting" /\ parg[p] = b

(* A forced block, for which rollback_competitor rolled back an uncemented *)
(* competitor, is the ledger's block for its root once process_one ran,   *)
(* unless its own dependency is missing or its signature is bad.           *)
ForcedReplaces ==
  [][(bpc = "process" /\ bpc' = "batch" /\ cur.force
      /\ cur.block \notin BadSig \ EpochLinks
      /\ (Dep[cur.block] = NoBlock \/ Dep[cur.block] \in ledger')
      /\ Successor(RootOf[cur.block]) \notin cemented)
       => SuccessorIn(ledger', RootOf[cur.block]) = cur.block]_vars

(* No lost wakeup in the unchecked map: a block parked under a dependency *)
(* that is now in the ledger always has that dependency's trigger pending, *)
(* whatever the order of parking, processing, forced rollback and the     *)
(* satisfied observer.  process_one parks on a gap and triggers on        *)
(* progress; the observer consumes a trigger and every block under it.     *)
ParkedTriggerPending ==
  \A b \in unchecked : Dep[b] \in ledger => Dep[b] \in triggered

(* The processor implements the block queue of spec.md: forced, blocks    *)
(* and the verifier's queue are its three lanes, the block popped and     *)
(* written with the lock released is the one taken, and process_one's     *)
(* history is what is done.                                                *)
BQ == INSTANCE BlockQueue WITH
        urgent <- forced, normal <- blocks, checking <- verif,
        taken <- IF cur = NoBlock THEN NoBlock ELSE cur.block,
        done <- processed

(* Every call of add, add_blocking, force and the unchecked retry path     *)
(* appends at the back of a queue, the verifier keeps its order, and       *)
(* process_batch takes forced before blocks, one block at a time: the      *)
(* processor's behaviours are behaviours of BlockQueue.                    *)
ImplementsBlockQueue == BQ!Spec

(* A block whose publish message the filter holds, so that the network    *)
(* drops every later copy as a duplicate, has reached the processor: it is *)
(* being added, queued, processed, parked, in the ledger, or rejected for  *)
(* its work or signature.  network_message_visitor::publish clears the     *)
(* filter when it drops a publish because full () holds.                   *)
FilteredPublishDelivered ==
  \A b \in filter :
    \/ b \in Queued \/ b \in processed \/ b \in unchecked \/ b \in ledger
    \/ b \in dropped \/ b \in BadWork
    \/ \E p \in Producers : ppc[p] \in {"publishing", "adding"} /\ parg[p] = b

(* Every queued block is eventually written by process_one or dropped by  *)
(* the verifier, unless the processor stops: forced blocks first, then    *)
(* blocks, batch after batch.                                              *)
QueuedEventuallyProcessed ==
  \A b \in Blocks : (b \in Queued) ~> (b \in processed \/ b \in dropped \/ stopped)

(* flush () returns: a caller blocked in the condition wait is woken by   *)
(* an enqueue's notify_all or, once the last batch is done, by the         *)
(* notify_one process_blocks makes before it waits itself.                 *)
FlushReturns ==
  \A p \in Producers : ppc[p] = "flushing" ~> ppc[p] = "idle"

(* A block parked in the unchecked map is queued again once the block it  *)
(* depends on is in the ledger.                                            *)
ParkedRequeued ==
  \A b \in Blocks :
    (b \in unchecked /\ Dep[b] \in ledger) ~> (b \in Queued \/ b \in ledger \/ Dep[b] \notin ledger)

=============================================================================

------------------------- MODULE OptimisticScheduler -------------------------
(***************************************************************************)
(* nano::scheduler::optimistic (src/nano/node/scheduler/optimistic.cpp):  *)
(* accounts with unconfirmed chains wait as candidates, in insertion      *)
(* order, until their activation delay has passed and the election table  *)
(* has room; the scheduler thread then starts an optimistic election for  *)
(* the account's head block.                                               *)
(*                                                                         *)
(* The ledger is kept to each account's block count and confirmation      *)
(* height.  The election table (active_transactions) is a set of          *)
(* elections, one per head block, tagged with the behaviour that started  *)
(* it; other schedulers insert normal elections into it too, and          *)
(* elections end by confirmation or expiry.  Wall-clock                   *)
(* time is abstracted to one "elapsed" flag per candidate: candidates are *)
(* timestamped in insertion order, so the delay passes for a prefix of the *)
(* queue.                                                                  *)
(***************************************************************************)
EXTENDS Integers, Sequences, FiniteSets

CONSTANTS
  Accounts,      \* accounts
  MaxCount,      \* bound on an account's block count
  GapThreshold,  \* config.gap_threshold
  MaxSize,       \* config.max_size: the candidate container's limit
  Limit,         \* the election table's limit for each behaviour
  Enabled        \* config.enabled

ASSUME MaxCount \in Nat /\ GapThreshold \in Nat /\ MaxSize > 0 /\ Limit > 0

VARIABLES
  chain,       \* [Accounts -> [count, height]]: account_info.block_count (), confirmation height
  elections,   \* the election table: [account, height, behavior] of each election's block
  candidates,  \* candidates: sequence of [account, elapsed]
  spc,         \* the scheduler thread: "init" (not started), "loop" (lock held), "one" (in run_one), "done"
  inner,       \* the thread is inside the inner while (predicate ()) loop
  sarg,        \* the candidate run_one is running for
  snap,        \* the ledger as the read transaction opened before the inner loop sees it
  stopped,     \* stopped
  stopPc       \* the thread calling stop (): "running", "joining" (in join_or_pass), "returned"

vars == <<chain, elections, candidates, spc, inner, sarg, snap, stopped, stopPc>>

Behaviors == {"normal", "optimistic"}

CandidateAccounts == {candidates[i].account : i \in 1..Len(candidates)}

ElectionsOf(b) == {e \in elections : e.behavior = b}

(* active.vacancy (election_behavior::optimistic): the room left for       *)
(* optimistic elections, counted by behaviour.                             *)
Vacancy == Limit - Cardinality(ElectionsOf("optimistic"))

(* No read transaction is open: it lives for one run of the inner loop.   *)
NoSnap == [a \in Accounts |-> [count |-> 0, height |-> 0]]

HasElection(a, n) == \E e \in elections : e.account = a /\ e.height = n

-----------------------------------------------------------------------------
(* activate_predicate: a gap of more than gap_threshold blocks between the *)
(* frontier and the confirmation frontier, or nothing confirmed yet.      *)
(* block_count () - height () is unsigned: the caller's debug_assert keeps *)
(* it from wrapping.                                                       *)
ActivatePredicate(info) ==
  \/ info.count - info.height > GapThreshold
  \/ info.height = 0

(* predicate (): room in the election table, and the oldest candidate's   *)
(* activation delay has passed.                                            *)
Predicate ==
  /\ Vacancy > 0
  /\ candidates # <<>>
  /\ Head(candidates).elapsed

Init ==
  /\ chain = [a \in Accounts |-> [count |-> 1, height |-> 0]]
  /\ elections = {}
  /\ candidates = <<>>
  /\ spc = "init" /\ inner = FALSE
  /\ sarg = CHOOSE a \in Accounts : TRUE
  /\ snap = NoSnap
  /\ stopped = FALSE /\ stopPc = "running"

SchedulerVars == <<spc, inner, sarg, snap, stopped, stopPc>>

(* Mutant: activate without the max_size check.                         *)
ActivateUnbounded(a) ==
  /\ Enabled
  /\ ActivatePredicate(chain[a])
  /\ a \notin CandidateAccounts
  /\ candidates' = Append(candidates, [account |-> a, elapsed |-> FALSE])
  /\ UNCHANGED <<chain, elections>> /\ UNCHANGED SchedulerVars

(* activate (account, info, conf_info), called with the account's current *)
(* ledger values: not a duplicate and below max_size, the account is       *)
(* pushed at the back of the candidates.                                   *)
Activate(a) ==
  /\ Enabled
  /\ ActivatePredicate(chain[a])
  /\ a \notin CandidateAccounts
  /\ Len(candidates) < MaxSize
  /\ candidates' = Append(candidates, [account |-> a, elapsed |-> FALSE])
  /\ UNCHANGED <<chain, elections>> /\ UNCHANGED SchedulerVars

(* start (): the thread is only started when the scheduler is enabled.    *)
Start ==
  /\ spc = "init"
  /\ spc' = IF Enabled THEN "loop" ELSE "done"
  /\ UNCHANGED <<chain, elections, candidates, inner, sarg, snap, stopped, stopPc>>

(* optimistic_activation_delay passes for the oldest candidate still       *)
(* waiting.                                                                *)
Age ==
  \E i \in 1..Len(candidates) :
    /\ ~candidates[i].elapsed
    /\ \A j \in 1..(i - 1) : candidates[j].elapsed
    /\ candidates' = [candidates EXCEPT ![i].elapsed = TRUE]
    /\ UNCHANGED <<chain, elections>> /\ UNCHANGED SchedulerVars

(* Mutant: the front candidate is read but never popped.                 *)
RunPopNoPop ==
  /\ spc = "loop"
  /\ inner \/ ~stopped
  /\ Predicate
  /\ sarg' = Head(candidates).account
  /\ snap' = IF inner THEN snap ELSE chain
  /\ spc' = "one" /\ inner' = TRUE
  /\ UNCHANGED <<chain, elections, candidates, stopped, stopPc>>

(* run (): one turn of the inner loop up to the unlock: the front          *)
(* candidate is popped.  Entering the inner loop opens a read transaction, *)
(* which every turn of the loop reuses.  Only the outer loop looks at      *)
(* stopped.                                                                *)
RunPop ==
  /\ spc = "loop"
  /\ inner \/ ~stopped
  /\ Predicate
  /\ sarg' = Head(candidates).account
  /\ candidates' = Tail(candidates)
  /\ snap' = IF inner THEN snap ELSE chain
  /\ spc' = "one" /\ inner' = TRUE
  /\ UNCHANGED <<chain, elections, stopped, stopPc>>

(* run_one (transaction, candidate), then the lock taken again: the head   *)
(* block as the transaction sees it, unless the node has it confirmed or   *)
(* being confirmed now, is inserted into the election table, which refuses *)
(* a second election for the same block.  The vacancy was checked by       *)
(* predicate () before the unlock.                                         *)
RunOne ==
  /\ spc = "one"
  /\ LET n == snap[sarg].count
     IN elections' =
          IF n > 0 /\ chain[sarg].height < n /\ ~HasElection(sarg, n)
            THEN elections \cup {[account |-> sarg, height |-> n, behavior |-> "optimistic"]}
            ELSE elections
  /\ spc' = "loop"
  /\ UNCHANGED <<chain, candidates, inner, sarg, snap, stopped, stopPc>>

(* The inner loop ends when predicate () fails: condition.wait_for, then   *)
(* the outer loop's stopped check.                                         *)
RunWait ==
  /\ spc = "loop"
  /\ ~Predicate
  /\ ~stopped
  /\ inner' = FALSE
  /\ snap' = NoSnap
  /\ UNCHANGED <<chain, elections, candidates, spc, sarg, stopped, stopPc>>

(* Mutant: the thread leaves run () only from condition.wait_for, which  *)
(* a stopped thread still inside the inner loop never reaches.            *)
RunExitOnlyAfterWait ==
  /\ spc = "loop"
  /\ stopped
  /\ ~inner
  /\ spc' = "done"
  /\ snap' = NoSnap
  /\ UNCHANGED <<chain, elections, candidates, inner, sarg, stopped, stopPc>>

RunExit ==
  /\ spc = "loop"
  /\ stopped
  /\ ~(inner /\ Predicate)
  /\ spc' = "done"
  /\ snap' = NoSnap
  /\ UNCHANGED <<chain, elections, candidates, inner, sarg, stopped, stopPc>>

(* stop (): set stopped under the mutex and notify ...                     *)
Stop ==
  /\ stopPc = "running"
  /\ stopped' = TRUE
  /\ stopPc' = "joining"
  /\ UNCHANGED <<chain, elections, candidates, spc, inner, sarg, snap>>

(* ... then join_or_pass (thread): wait for the thread to leave run (), or *)
(* pass if it was never started.                                           *)
StopJoin ==
  /\ stopPc = "joining"
  /\ spc \in {"init", "done"}
  /\ stopPc' = "returned"
  /\ UNCHANGED <<chain, elections, candidates, spc, inner, sarg, snap, stopped>>

(* The environment: a new block on an account's chain; another scheduler *)
(* starting a normal election when there is room for normal elections;   *)
(* an election of the table ending, its block cemented or not.            *)
NewBlock(a) ==
  /\ chain[a].count < MaxCount
  /\ chain' = [chain EXCEPT ![a].count = @ + 1]
  /\ UNCHANGED <<elections, candidates>> /\ UNCHANGED SchedulerVars

OtherInsert(a) ==
  /\ Cardinality(ElectionsOf("normal")) < Limit
  /\ chain[a].height < chain[a].count
  /\ ~HasElection(a, chain[a].count)
  /\ elections' = elections \cup {[account |-> a, height |-> chain[a].count, behavior |-> "normal"]}
  /\ UNCHANGED <<chain, candidates>> /\ UNCHANGED SchedulerVars

ElectionEnd(e) ==
  /\ e \in elections
  /\ elections' = elections \ {e}
  /\ \/ chain' = [chain EXCEPT ![e.account].height = IF e.height > @ THEN e.height ELSE @]
     \/ UNCHANGED chain
  /\ UNCHANGED candidates /\ UNCHANGED SchedulerVars

Next ==
  \/ \E a \in Accounts : Activate(a) \/ NewBlock(a) \/ OtherInsert(a)
  \/ \E e \in elections : ElectionEnd(e)
  \/ Start \/ Age \/ RunPop \/ RunOne \/ RunWait \/ RunExit \/ Stop \/ StopJoin

(* The steps of the one scheduler thread.                                  *)
SchedulerThread == RunPop \/ RunOne \/ RunWait \/ RunExit

(* The node calls start () when it starts.  The scheduler thread is one   *)
(* thread, fair as a whole: it runs when it has work (condition.wait_for  *)
(* wakes it at least every half delay), whichever of its steps its       *)
(* predicate () then selects; time passes; every election in the table   *)
(* ends, by confirmation or by its time to live.  A thread blocked in     *)
(* join_or_pass returns once the scheduler thread has exited.              *)
Fairness ==
  /\ WF_vars(StopJoin)
  /\ WF_vars(Start) /\ WF_vars(SchedulerThread)
  /\ WF_vars(Age)
  /\ \A e \in [account : Accounts, height : 1..MaxCount, behavior : Behaviors] :
       WF_vars(ElectionEnd(e))

Spec == Init /\ [][Next]_vars /\ Fairness

-----------------------------------------------------------------------------
TypeOK ==
  /\ chain \in [Accounts -> [count : 0..MaxCount, height : 0..MaxCount]]
  /\ \A a \in Accounts : chain[a].height <= chain[a].count
  /\ elections \subseteq [account : Accounts, height : 1..MaxCount, behavior : Behaviors]
  /\ candidates \in Seq([account : Accounts, elapsed : BOOLEAN]) /\ Len(candidates) <= MaxSize
  /\ spc \in {"init", "loop", "one", "done"} /\ inner \in BOOLEAN
  /\ sarg \in Accounts /\ snap \in [Accounts -> [count : 0..MaxCount, height : 0..MaxCount]]
  /\ stopped \in BOOLEAN /\ stopPc \in {"running", "joining", "returned"}

(* Every candidate is eventually popped by the scheduler thread, unless    *)
(* it was stopped: the delay passes and elections end, making room.        *)
CandidateEventuallyScheduled ==
  \A a \in Accounts : (a \in CandidateAccounts) ~> (a \notin CandidateAccounts \/ stopped)

(* stop () returns: the inner while (predicate ()) loop does not look at  *)
(* stopped, so the join waits for the thread to drain the candidates it   *)
(* can schedule; once no more accounts are activated, the thread leaves   *)
(* run () and join_or_pass returns.                                       *)
StopReturns ==
  (<>[][\A a \in Accounts : ~Activate(a)]_vars) => (stopPc = "joining" ~> stopPc = "returned")

=============================================================================

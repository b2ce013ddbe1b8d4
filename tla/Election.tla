------------------------------ MODULE Election ------------------------------
(***************************************************************************)
(* One election (nano::election, src/nano/node/election.cpp): the vote      *)
(* record, the candidate blocks, the tally and quorum rule, the state      *)
(* machine driven by votes and by the periodic transition_time tick, and   *)
(* fork replacement in publish/replace_by_weight.                          *)
(*                                                                         *)
(* Vote processor threads call vote while the block processor thread      *)
(* calls publish and active_transactions ticks the election.  Each call holds the election mutex, except where *)
(* the code releases it: confirm_if_quorum around final_generator.add, and *)
(* replace_by_weight between copying last_tally and removing a block.      *)
(* Those calls are split into steps at exactly those points, with a       *)
(* program counter pc[t] and the thread's locals in local[t].             *)
(*                                                                         *)
(* Collaborators outside this object are kept to the state the election   *)
(* reads or writes: the ledger's confirmation of blocks of this root       *)
(* (cemented), node.active.election_winner_details (winnerDetails),        *)
(* node.history for this root (history) and the process_confirmed        *)
(* notifications (notified).  The block_processor.force of a new winner  *)
(* is left to the block processor model.                                  *)
(* Votes, blocks and status queries reach the election through the roots  *)
(* table of active_transactions, so once erased from it (inTable false)   *)
(* it receives no new calls; calls already in flight still complete.      *)
(* Wall-clock time is abstracted: a cooldown, broadcast interval or        *)
(* passive duration that has not elapsed makes the call a no-op, which is  *)
(* a stuttering step, so only the elapsed case is an action.               *)
(***************************************************************************)
EXTENDS Integers, Sequences, FiniteSets, FiniteSetsExt

CONSTANTS
  Voters,             \* representative accounts that send votes
  NullAccount,        \* nano::account::null (), placed in last_votes by the constructor
  Weight,             \* [Voters \cup {NullAccount} -> Nat]: ledger.weight (account)
  Blocks,             \* block hashes of this root: naturals, ordered like nano::block_hash
  InitialBlock,       \* the block the election is created with
  MaxTimestamp,       \* non-final vote timestamps are 1..MaxTimestamp
  MaxBlocks,          \* nano::election::max_blocks
  Delta,              \* online_reps.delta (): the quorum margin
  MinPrincipalWeight, \* node.minimum_principal_weight ()
  Canary,             \* ledger.cache.final_votes_confirmation_canary ()
  LocalVoting,        \* config.enable_voting && wallets.reps ().voting > 0
  LocalRep,           \* the account this node votes with when LocalVoting
  VoteThreads,        \* vote processor threads calling vote
  Publishers,         \* threads calling publish: the block processor's thread
  InactiveTallies,    \* tallies inactive_vote_cache.find (hash) may report
  NoVote, NoBlock     \* sentinels: no last_votes entry, no block chosen

Accounts == Voters \cup {NullAccount}

\* std::numeric_limits<uint64_t>::max (): the timestamp of a final vote.
Final == MaxTimestamp + 1

ASSUME /\ InitialBlock \in Blocks /\ Blocks \subseteq Nat
       /\ LocalRep \in Voters /\ Weight[NullAccount] = 0
       /\ MaxBlocks >= 2 /\ Delta > 0

States == {"passive", "active", "confirmed", "expired_unconfirmed", "expired_confirmed"}
VoteInfo == [ts : 0..Final, hash : Blocks]

VARIABLES
  state,          \* state_m
  winner,         \* status.winner, as a hash
  lastVotes,      \* last_votes: [Accounts -> VoteInfo \cup {NoVote}]
  lastBlocks,     \* the keys of last_blocks
  lastTally,      \* last_tally: hash -> weight, as of the last tally_impl
  finalWeight,    \* final_weight
  isQuorum,       \* is_quorum
  history,        \* hashes of node.history.votes (root, _): votes this node generated
  cemented,       \* blocks of this root node.block_confirmed reports confirmed
  winnerDetails,  \* keys of node.active.election_winner_details
  notified,       \* winners handed to node.process_confirmed, in order
  inTable,        \* the election is still ticked by active_transactions
  aged,           \* the election's age exceeds time_to_live ()
  tickPc,         \* "switch", "ttl" or "ttl_locked": which part of transition_time runs next
  cleanup,        \* transition_time's result so far (true: remove from table)
  pc,             \* [Threads -> "idle" | "final_gen" | "replace"]
  local           \* [Threads -> locals of the call that released the mutex]

Threads == VoteThreads \cup Publishers

vars == <<state, winner, lastVotes, lastBlocks, lastTally, finalWeight, isQuorum,
          history, cemented, winnerDetails, notified, inTable, aged,
          tickPc, cleanup, pc, local>>

-----------------------------------------------------------------------------
(* valid_change: the legal state transitions.                              *)
ValidChange(from, to) ==
  <<from, to>> \in { <<"passive", "active">>, <<"passive", "confirmed">>,
                     <<"passive", "expired_unconfirmed">>,
                     <<"active", "confirmed">>, <<"active", "expired_unconfirmed">>,
                     <<"confirmed", "expired_confirmed">> }

(* confirmed (lock): the ledger, not state_m, says the winner is confirmed. *)
LedgerConfirmed == winner \in cemented

Voted(lv) == {a \in Accounts : lv[a] # NoVote}

SumWeight(S) == MapThenSumSet(LAMBDA a : Weight[a], S)

(* tally_impl, block_weights: the weight behind every voted hash.          *)
BlockWeights(lv) ==
  [h \in {lv[a].hash : a \in Voted(lv)} |->
     SumWeight({a \in Voted(lv) : lv[a].hash = h})]

(* tally_impl, final_weights_l: the weight of final votes per hash.        *)
FinalWeights(lv) ==
  LET fin == {a \in Voted(lv) : lv[a].ts = Final}
  IN [h \in {lv[a].hash : a \in fin} |-> SumWeight({a \in fin : lv[a].hash = h})]

(* The keys of the tally_t result: a std::map keyed by weight, so blocks   *)
(* of equal weight share one entry.                                        *)
TallyKeys(bw) == {bw[h] : h \in DOMAIN bw \cap lastBlocks}

(* The blocks competing for key w; emplace keeps the first one met in     *)
(* unordered_map iteration order, which the code does not fix.             *)
TallyBlocks(bw, w) == {h \in DOMAIN bw \cap lastBlocks : bw[h] = w}

Second(keys) == IF keys \ {Max(keys)} = {} THEN 0 ELSE Max(keys \ {Max(keys)})

(* Variant of HaveQuorum that accepts a margin one short of delta.       *)
HaveQuorumOffByOne(keys) == Max(keys) - Second(keys) >= Delta - 1

(* have_quorum *)
HaveQuorum(keys) == Max(keys) - Second(keys) >= Delta

(* The final_weight tally_impl leaves behind for result winner w.         *)
NewFinalWeight(lv, keys, w) ==
  LET fw == FinalWeights(lv)
  IN IF DOMAIN fw # {} /\ keys # {} /\ w \in DOMAIN fw THEN fw[w] ELSE finalWeight

(* remove_votes (hash): drop the last vote of the local representative if *)
(* it generated one for hash, then clear the root's vote history.          *)
RemoveVotes(lv, h) ==
  IF LocalVoting /\ h \in history THEN [lv EXCEPT ![LocalRep] = NoVote] ELSE lv

RemovedHistory == IF LocalVoting THEN {} ELSE history

(* confirm_once: state_m.exchange (confirmed) always stores confirmed; the *)
(* notification runs only if the old state was not confirmed and no       *)
(* election already holds winner details for the winner.                  *)
ConfirmOnce(w) ==
  /\ state' = "confirmed"
  /\ IF state # "confirmed" /\ w \notin winnerDetails
       THEN /\ winnerDetails' = winnerDetails \cup {w}
            /\ notified' = Append(notified, w)
       ELSE UNCHANGED <<winnerDetails, notified>>

-----------------------------------------------------------------------------
Init ==
  /\ state = "passive"
  /\ winner = InitialBlock
  /\ lastVotes = [a \in Accounts |->
                    IF a = NullAccount THEN [ts |-> 0, hash |-> InitialBlock] ELSE NoVote]
  /\ lastBlocks = {InitialBlock}
  /\ lastTally = [h \in {} |-> 0]
  /\ finalWeight = 0
  /\ isQuorum = FALSE
  /\ history = {}
  /\ cemented = {}
  /\ winnerDetails = {}
  /\ notified = <<>>
  /\ inTable = TRUE
  /\ aged = FALSE
  /\ tickPc = "switch"
  /\ cleanup = FALSE
  /\ pc = [t \in Threads |-> "idle"]
  /\ local = [t \in Threads |-> NoBlock]

-----------------------------------------------------------------------------
(* tally_impl as a step of its own: recompute last_tally and final_weight. *)
TallyImpl ==
  LET bw   == BlockWeights(lastVotes)
      keys == TallyKeys(bw)
  IN /\ lastTally' = bw
     /\ IF keys = {}
          THEN UNCHANGED finalWeight
          ELSE \E w \in TallyBlocks(bw, Max(keys)) :
                 finalWeight' = NewFinalWeight(lastVotes, keys, w)

(* confirm_if_quorum, run by vote with the updated vote record lv.  When   *)
(* final votes are required and this node votes, it releases the mutex    *)
(* to call final_generator.add: the thread stops at "final_gen".           *)
ConfirmIfQuorum(t, lv) ==
  LET bw   == BlockWeights(lv)
      keys == TallyKeys(bw)
  IN \E w \in TallyBlocks(bw, Max(keys)) :
       LET change    == SumSet(keys) >= Delta /\ w # winner
           newWinner == IF change THEN w ELSE winner
           fwNew     == NewFinalWeight(lv, keys, w)
           quorum    == HaveQuorum(keys)
       IN /\ lastTally' = bw
          /\ finalWeight' = fwNew
          /\ winner' = newWinner
          /\ lastVotes' = IF change THEN RemoveVotes(lv, winner) ELSE lv
          /\ history' = IF change THEN RemovedHistory ELSE history
          /\ isQuorum' = (isQuorum \/ (quorum /\ Canary))
          /\ IF quorum /\ Canary /\ ~isQuorum /\ LocalVoting
               THEN /\ pc' = [pc EXCEPT ![t] = "final_gen"]
                    /\ local' = [local EXCEPT ![t] = newWinner]
                    /\ UNCHANGED <<state, winnerDetails, notified>>
               ELSE /\ UNCHANGED <<pc, local>>
                    /\ IF quorum /\ (~Canary \/ fwNew >= Delta)
                         THEN ConfirmOnce(newWinner)
                         ELSE UNCHANGED <<state, winnerDetails, notified>>

(* vote (rep, timestamp, hash): a vote routed to this election for one of  *)
(* its blocks.  A vote with an older timestamp, or the same timestamp and *)
(* a hash not above the recorded one, is a replay and changes nothing;    *)
(* so does a live vote inside its cooldown.                                *)
Vote(t, rep, ts, h) ==
  /\ inTable
  /\ pc[t] = "idle"
  /\ Weight[rep] > MinPrincipalWeight
  /\ h \in lastBlocks
  /\ lastVotes[rep] # NoVote =>
       \/ lastVotes[rep].ts < ts
       \/ lastVotes[rep].ts = ts /\ lastVotes[rep].hash < h
  /\ LET lv == [lastVotes EXCEPT ![rep] = [ts |-> ts, hash |-> h]]
     IN IF LedgerConfirmed
          THEN /\ lastVotes' = lv
               /\ UNCHANGED <<state, winner, lastTally, finalWeight, isQuorum, history,
                              winnerDetails, notified, pc, local>>
          ELSE ConfirmIfQuorum(t, lv)
  /\ UNCHANGED <<lastBlocks, cemented, inTable, aged, tickPc, cleanup>>

(* Variant of FinalGenResume that confirms without testing final_weight. *)
FinalGenResumeIgnoresFinalWeight(t) ==
  /\ pc[t] = "final_gen"
  /\ history' = history \cup {local[t]}
  /\ pc' = [pc EXCEPT ![t] = "idle"]
  /\ local' = [local EXCEPT ![t] = NoBlock]
  /\ ConfirmOnce(winner)
  /\ UNCHANGED <<winner, lastVotes, lastBlocks, lastTally, finalWeight, isQuorum,
                 cemented, inTable, aged, tickPc, cleanup>>

(* confirm_if_quorum after final_generator.add: the mutex is taken again   *)
(* and the decision uses final_weight and the winner as they are now.      *)
FinalGenResume(t) ==
  /\ pc[t] = "final_gen"
  /\ history' = history \cup {local[t]}
  /\ pc' = [pc EXCEPT ![t] = "idle"]
  /\ local' = [local EXCEPT ![t] = NoBlock]
  /\ IF ~Canary \/ finalWeight >= Delta
       THEN ConfirmOnce(winner)
       ELSE UNCHANGED <<state, winnerDetails, notified>>
  /\ UNCHANGED <<winner, lastVotes, lastBlocks, lastTally, finalWeight, isQuorum,
                 cemented, inTable, aged, tickPc, cleanup>>

(* publish (block), up to replace_by_weight.  A block of a confirmed       *)
(* election is refused; a known hash only has its content replaced.  When  *)
(* max_blocks is reached, replace_by_weight copies last_tally and the      *)
(* winner and releases the mutex: the thread stops at "replace".           *)
PublishStart(t, h) ==
  /\ inTable
  /\ pc[t] = "idle"
  /\ IF ~LedgerConfirmed /\ Cardinality(lastBlocks) >= MaxBlocks /\ h \notin lastBlocks
       THEN /\ pc' = [pc EXCEPT ![t] = "replace"]
            /\ local' = [local EXCEPT ![t] = [block |-> h, sorted |-> lastTally, winner |-> winner]]
            /\ UNCHANGED lastBlocks
       ELSE /\ lastBlocks' = IF LedgerConfirmed THEN lastBlocks ELSE lastBlocks \cup {h}
            /\ UNCHANGED <<pc, local>>
  /\ UNCHANGED <<state, winner, lastVotes, lastTally, finalWeight, isQuorum, history,
                 cemented, winnerDetails, notified, inTable, aged, tickPc, cleanup>>

ArgMin(S, f) == {x \in S : \A y \in S : f[x] <= f[y]}

(* The hashes replace_by_weight may pick from the copy of last_tally       *)
(* (sorted), the inactive cache tally it of the new block and the winner   *)
(* ws it copied; NoBlock when it picks none.  std::sort leaves the order   *)
(* of equal tallies open, and blocks () is iterated in unordered_map       *)
(* order, so every tie is a choice.                                        *)
ReplaceChoices(sorted, it, ws) ==
  LET dom == DOMAIN sorted
  IN IF it > 0 /\ Cardinality(dom) < MaxBlocks
       THEN LET free == {b \in lastBlocks : b \notin dom /\ b # ws}
            IN IF free = {} THEN {NoBlock} ELSE free
     ELSE IF it > 0 /\ it > Min({sorted[b] : b \in dom})
       THEN UNION { IF front # ws THEN {front}
                    ELSE { IF it > sorted[s] THEN s ELSE NoBlock :
                             s \in ArgMin(dom \ {front}, sorted) }
                  : front \in ArgMin(dom, sorted) }
     ELSE {NoBlock}

(* Variant of EraseVotesFor that resets the entries to a default        *)
(* vote_info (timestamp 0, zero hash) instead of erasing them.            *)
EraseVotesForResets(lv, h) ==
  [a \in Accounts |-> IF lv[a] # NoVote /\ lv[a].hash = h THEN [ts |-> 0, hash |-> 0] ELSE lv[a]]

(* remove_block, the loop over last_votes: erase every vote for hash h.    *)
EraseVotesFor(lv, h) ==
  [a \in Accounts |-> IF lv[a] # NoVote /\ lv[a].hash = h THEN NoVote ELSE lv[a]]

(* Variant of ReplaceByWeight whose remove_block lacks the check that    *)
(* the block is not the current winner.                                   *)
ReplaceByWeightNoWinnerCheck(t) ==
  /\ pc[t] = "replace"
  /\ \E it \in InactiveTallies :
     \E r \in ReplaceChoices(local[t].sorted, it, local[t].winner) :
       LET removed == r # NoBlock /\ r \in lastBlocks
           kept    == IF removed THEN lastBlocks \ {r} ELSE lastBlocks
       IN /\ lastVotes' = IF removed THEN EraseVotesFor(lastVotes, r) ELSE lastVotes
          /\ lastBlocks' = IF r # NoBlock THEN kept \cup {local[t].block} ELSE kept
  /\ pc' = [pc EXCEPT ![t] = "idle"]
  /\ local' = [local EXCEPT ![t] = NoBlock]
  /\ UNCHANGED <<state, winner, lastTally, finalWeight, isQuorum, history, cemented,
                 winnerDetails, notified, inTable, aged, tickPc, cleanup>>

(* The rest of replace_by_weight and publish: pick the block to replace    *)
(* without the mutex, take it again, remove_block (which spares the       *)
(* current winner), and insert the new block if a block was picked.        *)
ReplaceByWeight(t) ==
  /\ pc[t] = "replace"
  /\ \E it \in InactiveTallies :
     \E r \in ReplaceChoices(local[t].sorted, it, local[t].winner) :
       LET removed == r # NoBlock /\ r # winner /\ r \in lastBlocks
           kept    == IF removed THEN lastBlocks \ {r} ELSE lastBlocks
       IN /\ lastVotes' = IF removed THEN EraseVotesFor(lastVotes, r) ELSE lastVotes
          /\ lastBlocks' = IF r # NoBlock THEN kept \cup {local[t].block} ELSE kept
  /\ pc' = [pc EXCEPT ![t] = "idle"]
  /\ local' = [local EXCEPT ![t] = NoBlock]
  /\ UNCHANGED <<state, winner, lastTally, finalWeight, isQuorum, history, cemented,
                 winnerDetails, notified, inTable, aged, tickPc, cleanup>>

(* tally () or current_status () called by another component.            *)
Tally ==
  /\ inTable
  /\ TallyImpl
  /\ UNCHANGED <<state, winner, lastVotes, lastBlocks, isQuorum, history, cemented,
                 winnerDetails, notified, inTable, aged, tickPc, cleanup, pc, local>>

(* broadcast_vote once vote_broadcast_interval has passed: a final vote    *)
(* if the ledger confirmed the winner or the fresh tally has quorum, a     *)
(* normal one otherwise; either way the vote enters the history.           *)
BroadcastVote ==
  IF LocalVoting
    THEN /\ IF LedgerConfirmed THEN UNCHANGED <<lastTally, finalWeight>> ELSE TallyImpl
         /\ history' = history \cup {winner}
    ELSE UNCHANGED <<lastTally, finalWeight, history>>

(* Variant of TickSwitch that expires a confirmed election to the wrong  *)
(* state.                                                                  *)
TickSwitchWrongExpiry ==
  /\ inTable
  /\ tickPc = "switch"
  /\ \/ /\ state = "passive"
        /\ state' = "active"
        /\ cleanup' = FALSE
        /\ UNCHANGED <<lastTally, finalWeight, history>>
     \/ /\ state = "active"
        /\ BroadcastVote
        /\ cleanup' = FALSE
        /\ UNCHANGED state
     \/ /\ state = "confirmed"
        /\ state' = "expired_unconfirmed"
        /\ cleanup' = TRUE
        /\ UNCHANGED <<lastTally, finalWeight, history>>
     \/ /\ state # "confirmed"
        /\ cleanup' = FALSE
        /\ UNCHANGED <<state, lastTally, finalWeight, history>>
  /\ tickPc' = "ttl"
  /\ UNCHANGED <<winner, lastVotes, lastBlocks, isQuorum, cemented, winnerDetails,
                 notified, inTable, aged, pc, local>>

(* transition_time, the switch on state_m.  A step whose timer has not    *)
(* elapsed (passive duration, broadcast interval) does nothing.            *)
TickSwitch ==
  /\ inTable
  /\ tickPc = "switch"
  /\ \/ /\ state = "passive"
        /\ state' = "active"
        /\ cleanup' = FALSE
        /\ UNCHANGED <<lastTally, finalWeight, history>>
     \/ /\ state = "active"
        /\ BroadcastVote
        /\ cleanup' = FALSE
        /\ UNCHANGED state
     \/ /\ state = "confirmed"
        /\ state' = "expired_confirmed"
        /\ cleanup' = TRUE
        /\ UNCHANGED <<lastTally, finalWeight, history>>
     \/ /\ state # "confirmed"
        /\ cleanup' = FALSE
        /\ UNCHANGED <<state, lastTally, finalWeight, history>>
  /\ tickPc' = "ttl"
  /\ UNCHANGED <<winner, lastVotes, lastBlocks, isQuorum, cemented, winnerDetails,
                 notified, inTable, aged, pc, local>>

(* Variant of TickTtl that drops the result of the switch half.          *)
TickTtlIgnoresCleanup ==
  /\ tickPc = "ttl"
  /\ IF ~LedgerConfirmed /\ aged
       THEN /\ tickPc' = "ttl_locked"
            /\ UNCHANGED <<inTable, cleanup>>
       ELSE /\ tickPc' = "switch"
            /\ cleanup' = FALSE
            /\ UNCHANGED inTable
  /\ UNCHANGED <<state, winner, lastVotes, lastBlocks, lastTally, finalWeight, isQuorum,
                 history, cemented, winnerDetails, notified, aged, pc, local>>

(* transition_time, the time_to_live check, outside the mutex (confirmed  *)
(* () takes it only for its own read): an                                 *)
(* election the ledger has not confirmed and that is too old goes on to   *)
(* take the mutex; otherwise the switch half's result is returned, and a  *)
(* true result makes active_transactions drop the election.               *)
TickTtl ==
  /\ tickPc = "ttl"
  /\ IF ~LedgerConfirmed /\ aged
       THEN /\ tickPc' = "ttl_locked"
            /\ UNCHANGED <<inTable, cleanup>>
       ELSE /\ tickPc' = "switch"
            /\ cleanup' = FALSE
            /\ inTable' = ~cleanup
  /\ UNCHANGED <<state, winner, lastVotes, lastBlocks, lastTally, finalWeight, isQuorum,
                 history, cemented, winnerDetails, notified, aged, pc, local>>

(* Variant of TickTtlLocked that trusts the check made before the mutex. *)
TickTtlLockedNoRecheck ==
  /\ tickPc = "ttl_locked"
  /\ state' = "expired_unconfirmed"
  /\ inTable' = FALSE
  /\ tickPc' = "switch"
  /\ cleanup' = FALSE
  /\ UNCHANGED <<winner, lastVotes, lastBlocks, lastTally, finalWeight, isQuorum, history,
                 cemented, winnerDetails, notified, aged, pc, local>>

(* The same check under the mutex: the election may have confirmed while  *)
(* the mutex was being taken, so state_change re-validates the move to    *)
(* expired_unconfirmed against the current state_m.                        *)
TickTtlLocked ==
  /\ tickPc = "ttl_locked"
  /\ LET expire == ValidChange(state, "expired_unconfirmed")
     IN /\ state' = IF expire THEN "expired_unconfirmed" ELSE state
        /\ inTable' = ~(cleanup \/ expire)
  /\ tickPc' = "switch"
  /\ cleanup' = FALSE
  /\ UNCHANGED <<winner, lastVotes, lastBlocks, lastTally, finalWeight, isQuorum, history,
                 cemented, winnerDetails, notified, aged, pc, local>>

(* Time passes beyond time_to_live ().                                     *)
Age ==
  /\ ~aged
  /\ aged' = TRUE
  /\ UNCHANGED <<state, winner, lastVotes, lastBlocks, lastTally, finalWeight, isQuorum,
                 history, cemented, winnerDetails, notified, inTable, tickPc,
                 cleanup, pc, local>>

(* The confirmation height processor cements a notified winner; the       *)
(* cemented callback erases its election winner details.                   *)
Cement ==
  /\ \E h \in {notified[i] : i \in 1..Len(notified)} \ cemented :
       /\ cemented' = cemented \cup {h}
       /\ winnerDetails' = winnerDetails \ {h}
  /\ UNCHANGED <<state, winner, lastVotes, lastBlocks, lastTally, finalWeight, isQuorum,
                 history, notified, inTable, aged, tickPc, cleanup, pc, local>>

Next ==
  \/ \E t \in VoteThreads, rep \in Voters, ts \in 1..Final, h \in Blocks : Vote(t, rep, ts, h)
  \/ \E t \in VoteThreads : FinalGenResume(t)
  \/ \E t \in Publishers, h \in Blocks : PublishStart(t, h)
  \/ \E t \in Publishers : ReplaceByWeight(t)
  \/ Tally
  \/ TickSwitch
  \/ TickTtl
  \/ TickTtlLocked
  \/ Age
  \/ Cement

(* active_transactions ticks every election it holds, time keeps passing, *)
(* and a thread that released the mutex takes it again.                    *)
Fairness ==
  /\ WF_vars(TickSwitch) /\ WF_vars(TickTtl) /\ WF_vars(TickTtlLocked) /\ WF_vars(Age)
  /\ \A t \in VoteThreads : WF_vars(FinalGenResume(t))
  /\ \A t \in Publishers : WF_vars(ReplaceByWeight(t))

Spec == Init /\ [][Next]_vars /\ Fairness

-----------------------------------------------------------------------------
(***************************************************************************)
(* Properties                                                              *)
(***************************************************************************)

TypeOK ==
  /\ state \in States
  /\ winner \in Blocks
  /\ lastVotes \in [Accounts -> VoteInfo \cup {NoVote}]
  /\ lastBlocks \subseteq Blocks
  /\ DOMAIN lastTally \subseteq Blocks
  /\ finalWeight \in Nat
  /\ isQuorum \in BOOLEAN
  /\ history \subseteq Blocks /\ cemented \subseteq Blocks
  /\ winnerDetails \subseteq Blocks
  /\ notified \in Seq(Blocks)
  /\ inTable \in BOOLEAN /\ aged \in BOOLEAN /\ cleanup \in BOOLEAN
  /\ tickPc \in {"switch", "ttl", "ttl_locked"}
  /\ pc \in [Threads -> {"idle", "final_gen", "replace"}]

(* The winner is always one of the candidate blocks: remove_block, run by  *)
(* replace_by_weight after it released the mutex and chose a victim from  *)
(* a stale copy of the winner, never removes the current winner, and a new *)
(* winner is always taken from the tally of the candidates.                *)
WinnerIsCandidate == winner \in lastBlocks

(* When the tick's broadcast_vote_impl calls have_quorum (tally_impl ())  *)
(* (an active election, a voting node, a winner the ledger has not         *)
(* confirmed), some recorded vote is for a candidate, so the tally is not  *)
(* empty and have_quorum does not dereference begin () of an empty map.    *)
(* Votes are dropped by remove_votes and remove_block, and candidates by   *)
(* replace_by_weight.                                                      *)
TallyNonEmpty ==
  (inTable /\ state = "active" /\ LocalVoting /\ ~LedgerConfirmed) =>
    \E a \in Accounts : lastVotes[a] # NoVote /\ lastVotes[a].hash \in lastBlocks

(* state_m reports confirmed (or expired after confirmation) exactly when  *)
(* confirm_once has handed a winner to process_confirmed.                  *)
ConfirmedIffNotified ==
  (state \in {"confirmed", "expired_confirmed"}) <=> (notified # <<>>)

(* The election's candidate set never exceeds max_blocks (publish with    *)
(* replace_by_weight).                                                     *)
CandidateCap == Cardinality(lastBlocks) <= MaxBlocks

(* Every change of state_m is one valid_change allows: an expired election *)
(* is never revived (confirm_once's exchange, a vote racing the expiry).   *)
LegalTransitions == [][state' # state => ValidChange(state, state')]_state

(* A final vote is never superseded (spec.md: finality votes are never    *)
(* superseded): once last_votes holds a representative's final vote, vote *)
(* leaves that entry as it is until remove_block erases it.  vote's replay *)
(* test lets an equal timestamp through when the new hash is larger.       *)
FinalVoteNeverSuperseded ==
  [][\A a \in Voted(lastVotes) \cap Voted(lastVotes') :
       lastVotes[a].ts = Final => lastVotes'[a] = lastVotes[a]]_lastVotes

(* process_confirmed runs at most once per election.                       *)
NotifiedOnce == Len(notified) <= 1

(* Margin of block h over every other candidate in the full vote record.   *)
Margin(lv, blocks, h) ==
  LET bw == BlockWeights(lv)
      w(b) == IF b \in DOMAIN bw THEN bw[b] ELSE 0
  IN \A b \in blocks \ {h} : w(h) - w(b) >= Delta

(* A winner is handed to process_confirmed only when it leads every other  *)
(* candidate by the quorum delta (have_quorum over tally_impl).            *)
QuorumAtConfirmation ==
  [][Len(notified') > Len(notified) => Margin(lastVotes', lastBlocks', notified'[Len(notified')])]_notified

(* Under the final-votes canary, the first confirmation (confirm_once    *)
(* from confirm_if_quorum, directly or after final_generator.add) hands a *)
(* winner to process_confirmed only when the final votes recorded for     *)
(* that winner weigh at least the quorum delta.  The code tests the       *)
(* cached final_weight, which tally_impl leaves unchanged when the winner *)
(* has no final votes and which is not recomputed after the mutex is      *)
(* taken again.  (A second confirmation is the renotify finding.)         *)
FinalQuorumAtConfirmation ==
  [][Canary /\ notified = <<>> /\ notified' # <<>> =>
       SumWeight({a \in Voted(lastVotes') : lastVotes'[a].ts = Final
                    /\ lastVotes'[a].hash = notified'[Len(notified')]}) >= Delta]_<<notified, lastVotes>>

(* Every election active_transactions holds is eventually dropped: it     *)
(* confirms and expires, or outlives its time to live.                     *)
EventuallyRemoved == <>(~inTable)

=============================================================================

------------------------- MODULE NetworkBroadcast -------------------------
(***************************************************************************)
(* The paced broadcasts of nano::network (src/nano/node/election.cpp):    *)
(* broadcast_confirm_req_base, broadcast_confirm_req_batched_many,        *)
(* broadcast_confirm_req_many and flood_block_many.  Each sends a bounded *)
(* part of its work and hands the rest to a timed task on node.workers,   *)
(* which calls it again after a random delay; the task holds a weak_ptr   *)
(* to the node and does nothing once the node is gone.                    *)
(*                                                                         *)
(* The network's lifecycle is modelled with them: start_threads, the     *)
(* packet processing threads, and network::stop with its two callers.     *)
(*                                                                         *)
(* Timed tasks run in any order: their delays are random.  A send is      *)
(* recorded in a log per chain; channels, hashes and blocks are model     *)
(* values.                                                                 *)
(***************************************************************************)
EXTENDS Integers, Sequences, FiniteSets

LOCAL INSTANCE FiniteSetsExt
LOCAL INSTANCE SequencesExt

CONSTANTS
  Channels,       \* representatives' channels
  Hashes,         \* block hashes (a block stands for its hash + root)
  MaxReps,        \* max_reps in broadcast_confirm_req_base
  HashesMax,      \* confirm_req_hashes_max
  BaseBlock,      \* the block of a direct broadcast_confirm_req_base call
  BaseEndpoints,  \* its endpoints vector
  Bundle,         \* the request bundle of broadcast_confirm_req_batched_many
  Requests,       \* the requests deque of broadcast_confirm_req_many
  FloodBlocks,    \* the blocks deque of flood_block_many
  CleanupEnabled, \* !node.flags.disable_connection_cleanup ()
  NetworkThreads, \* packet processing threads start_threads creates: 0 when
                  \* disable_tcp_realtime, else config->network_threads
  ListenPort,     \* the port network is constructed with (config peering port)
  NoPeering       \* a channel whose peering endpoint was never set

Kinds == {"base", "batched", "many", "flood"}

(* The self-rescheduling tasks network::start begins.                      *)
Periodic == {"cleanup", "syn_cookie_cleanup", "keepalive"}

(* The two callers of network::stop: node::stop, and ~network when the     *)
(* node's members are destroyed.                                           *)
StopCallers == {"node", "dtor"}

Threads == 1..NetworkThreads

(* Slot 0 of a keepalive's peers, kept to what the keepalive visitor looks *)
(* at: whether the address is the unspecified address_v6 {} and the port. *)
(* flood_keepalive's slot 0 is a peer's endpoint from random_fill, or the *)
(* zero endpoint when tcp_channels has no channel to fill it with.         *)
ZeroEndpoint == [any |-> TRUE, port |-> 0]
PeerEndpoints == {ZeroEndpoint, [any |-> FALSE, port |-> ListenPort]}

ASSUME /\ MaxReps > 0 /\ HashesMax > 0
       /\ BaseEndpoints \in Seq(Channels) /\ FloodBlocks \in Seq(Hashes)
       /\ DOMAIN Bundle \subseteq Channels /\ \A c \in DOMAIN Bundle : Bundle[c] \in Seq(Hashes)
       /\ Requests \in Seq([block : Hashes, eps : Seq(Channels)]) /\ Requests # <<>>
       /\ ListenPort \in Nat \ {0}

VARIABLES
  pending,      \* the entry points not yet called
  baseTasks,    \* timed tasks of broadcast_confirm_req_base: [block, eps]
  batchedTask,  \* the timed task's request bundle (empty domain: none)
  manyTask,     \* the timed task's requests (<<>>: none)
  floodTask,    \* the timed task's blocks (<<>>: none)
  baseSent,     \* [<<hash, channel>> -> number of confirm_req sent]
  batchedLog,   \* [Channels -> the batched confirm_req messages sent, in order]
  floodLog,     \* the blocks flood_block published, in order
  callbacks,    \* [Kinds -> times the callback was called]
  alive,        \* the node is alive: node_w.lock () succeeds
  netStarted,   \* network::start has run
  periodic,     \* the periodic tasks with a timed task pending
  channels,     \* tcp_channels: "none" before start_threads, "running", "stopped"
  threads,      \* [Threads -> "none" | "waiting" | "handling" | "exited" | "joined"]
  netStopped,   \* network::stopped
  stopPc,       \* [StopCallers -> where that caller is in network::stop]
  joinIdx,      \* [StopCallers -> the thread its join loop is at]
  port,         \* network::port
  peering       \* the peering endpoint a peer's channel to this node records

vars == <<pending, baseTasks, batchedTask, manyTask, floodTask, baseSent, batchedLog,
          floodLog, callbacks, alive, netStarted, periodic,
          channels, threads, netStopped, stopPc, joinIdx, port, peering>>

(* The periodic tasks, the port the keepalive task advertises and what    *)
(* peers record from it.                                                   *)
PeriodicVars == <<netStarted, periodic, port, peering>>

LifeVars == <<channels, threads, netStopped, stopPc, joinIdx>>

NoBundle == [c \in {} |-> <<>>]

CountIn(s, x) == Cardinality({i \in 1..Len(s) : s[i] = x})

SeqMin(a, b) == IF a < b THEN a ELSE b

-----------------------------------------------------------------------------
(* Mutant: the endpoints are sent to but not popped.                     *)
BaseRoundNoPop(eps) ==
  LET k == SeqMin(Len(eps), MaxReps)
  IN [sent |-> [i \in 1..k |-> eps[Len(eps) - i + 1]], rest |-> eps]

(* broadcast_confirm_req_base, the while loop: send to up to max_reps      *)
(* endpoints, taking each from the back and popping it.                    *)
BaseRound(eps) ==
  LET k == SeqMin(Len(eps), MaxReps)
  IN [sent |-> [i \in 1..k |-> eps[Len(eps) - i + 1]],
      rest |-> SubSeq(eps, 1, Len(eps) - k)]

(* The whole call for block h: the sends, and a timed task for the rest    *)
(* of the endpoints; tasks is the set of other pending base tasks.          *)
BaseCall(h, eps, tasks) ==
  LET r == BaseRound(eps)
  IN /\ baseSent' = [x \in DOMAIN baseSent |->
                       baseSent[x] + IF x[1] = h THEN CountIn(r.sent, x[2]) ELSE 0]
     /\ baseTasks' = IF r.rest = <<>> THEN tasks
                     ELSE tasks \cup {[block |-> h, eps |-> r.rest]}

(* Mutant: the inner while loop runs while size () <= the maximum.         *)
ChunkInclusive(q) == SubSeq(q, 1, SeqMin(Len(q), HashesMax + 1))

(* broadcast_confirm_req_batched_many, the for loop: every channel of the  *)
(* bundle gets one confirm_req with up to confirm_req_hashes_max pairs     *)
(* from the front of its deque; emptied channels are erased.               *)
Chunk(q) == SubSeq(q, 1, SeqMin(Len(q), HashesMax))

(* Mutant: the pairs are taken from the back of each deque.               *)
BatchedRoundFromBack(bundle) ==
  LET k(q) == SeqMin(Len(q), HashesMax)
  IN [chunk |-> [c \in DOMAIN bundle |-> SubSeq(bundle[c], Len(bundle[c]) - k(bundle[c]) + 1, Len(bundle[c]))],
      rest  |-> [c \in {d \in DOMAIN bundle : Len(bundle[d]) > k(bundle[d])} |->
                   SubSeq(bundle[c], 1, Len(bundle[c]) - k(bundle[c]))]]

BatchedRound(bundle) ==
  [chunk |-> [c \in DOMAIN bundle |-> Chunk(bundle[c])],
   rest  |-> [c \in {d \in DOMAIN bundle : Len(bundle[d]) > Len(Chunk(bundle[d]))} |->
                SubSeq(bundle[c], Len(Chunk(bundle[c])) + 1, Len(bundle[c]))]]

(* The whole call: log the messages, then a timed task if the bundle is   *)
(* not empty, else the callback.                                           *)
BatchedCall(bundle) ==
  LET r == BatchedRound(bundle)
  IN /\ batchedLog' = [c \in Channels |->
                         IF c \in DOMAIN bundle THEN Append(batchedLog[c], r.chunk[c])
                         ELSE batchedLog[c]]
     /\ batchedTask' = r.rest
     /\ callbacks' = IF DOMAIN r.rest = {} THEN [callbacks EXCEPT !["batched"] = @ + 1]
                     ELSE callbacks

(* Mutant: the last request is sent but the callback is not called.      *)
ManyCallNoCallback(reqs) ==
  LET req == Head(reqs)
  IN /\ IF req.eps # <<>> THEN BaseCall(req.block, req.eps, baseTasks)
        ELSE UNCHANGED <<baseSent, baseTasks>>
     /\ manyTask' = Tail(reqs)
     /\ UNCHANGED callbacks

(* broadcast_confirm_req_many: pop the front request, broadcast its block  *)
(* to its endpoints if there are any, then a timed task for the other      *)
(* requests, else the callback.  The deque is never empty here.            *)
ManyCall(reqs) ==
  LET req == Head(reqs)
  IN /\ IF req.eps # <<>> THEN BaseCall(req.block, req.eps, baseTasks)
        ELSE UNCHANGED <<baseSent, baseTasks>>
     /\ manyTask' = Tail(reqs)
     /\ callbacks' = IF Tail(reqs) = <<>> THEN [callbacks EXCEPT !["many"] = @ + 1]
                     ELSE callbacks

(* flood_block_many: with blocks left, flood the front one, then a timed   *)
(* task for the others, else the callback.  An empty deque does nothing.  *)
FloodCall(blocks) ==
  IF blocks = <<>>
    THEN UNCHANGED <<floodLog, floodTask, callbacks>>
    ELSE /\ floodLog' = Append(floodLog, Head(blocks))
         /\ floodTask' = Tail(blocks)
         /\ callbacks' = IF Tail(blocks) = <<>> THEN [callbacks EXCEPT !["flood"] = @ + 1]
                         ELSE callbacks

-----------------------------------------------------------------------------
Init ==
  /\ pending = Kinds
  /\ baseTasks = {} /\ batchedTask = NoBundle /\ manyTask = <<>> /\ floodTask = <<>>
  /\ baseSent = [x \in Hashes \X Channels |-> 0]
  /\ batchedLog = [c \in Channels |-> <<>>]
  /\ floodLog = <<>>
  /\ callbacks = [k \in Kinds |-> 0]
  /\ alive = TRUE
  /\ netStarted = FALSE /\ periodic = {}
  /\ channels = "none" /\ threads = [t \in Threads |-> "none"]
  /\ netStopped = FALSE
  /\ stopPc = [s \in StopCallers |-> "idle"] /\ joinIdx = [s \in StopCallers |-> 1]
  /\ port = ListenPort /\ peering = NoPeering

(* The callers (confirmation solicitor, active transactions, RPC) make     *)
(* each call once, on a live node, with channels they took from            *)
(* tcp_channels, which exists once start_threads has run.                  *)
CallBase ==
  /\ alive /\ channels # "none" /\ "base" \in pending
  /\ pending' = pending \ {"base"}
  /\ BaseCall(BaseBlock, BaseEndpoints, baseTasks)
  /\ UNCHANGED <<batchedTask, manyTask, floodTask, batchedLog, floodLog, callbacks, alive>>
  /\ UNCHANGED PeriodicVars /\ UNCHANGED LifeVars

CallBatched ==
  /\ alive /\ channels # "none" /\ "batched" \in pending
  /\ pending' = pending \ {"batched"}
  /\ BatchedCall(Bundle)
  /\ UNCHANGED <<baseTasks, manyTask, floodTask, baseSent, floodLog, alive>>
  /\ UNCHANGED PeriodicVars /\ UNCHANGED LifeVars

CallMany ==
  /\ alive /\ channels # "none" /\ "many" \in pending
  /\ pending' = pending \ {"many"}
  /\ ManyCall(Requests)
  /\ UNCHANGED <<batchedTask, floodTask, batchedLog, floodLog, alive>>
  /\ UNCHANGED PeriodicVars /\ UNCHANGED LifeVars

CallFlood ==
  /\ alive /\ channels # "none" /\ "flood" \in pending
  /\ pending' = pending \ {"flood"}
  /\ FloodCall(FloodBlocks)
  /\ UNCHANGED <<baseTasks, batchedTask, manyTask, baseSent, batchedLog, alive>>
  /\ UNCHANGED PeriodicVars /\ UNCHANGED LifeVars

(* A worker runs a due timed task: node_w.lock () and the call again, or   *)
(* nothing once the node is gone.                                           *)
RunBase(t) ==
  /\ t \in baseTasks
  /\ IF alive THEN BaseCall(t.block, t.eps, baseTasks \ {t})
     ELSE /\ baseTasks' = baseTasks \ {t} /\ UNCHANGED baseSent
  /\ UNCHANGED <<pending, batchedTask, manyTask, floodTask, batchedLog, floodLog,
                 callbacks, alive>>
  /\ UNCHANGED PeriodicVars /\ UNCHANGED LifeVars

RunBatched ==
  /\ DOMAIN batchedTask # {}
  /\ IF alive THEN BatchedCall(batchedTask)
     ELSE /\ batchedTask' = NoBundle /\ UNCHANGED <<batchedLog, callbacks>>
  /\ UNCHANGED <<pending, baseTasks, manyTask, floodTask, baseSent, floodLog, alive>>
  /\ UNCHANGED PeriodicVars /\ UNCHANGED LifeVars

RunMany ==
  /\ manyTask # <<>>
  /\ IF alive THEN ManyCall(manyTask)
     ELSE /\ manyTask' = <<>> /\ UNCHANGED <<baseSent, baseTasks, callbacks>>
  /\ UNCHANGED <<pending, batchedTask, floodTask, batchedLog, floodLog, alive>>
  /\ UNCHANGED PeriodicVars /\ UNCHANGED LifeVars

RunFlood ==
  /\ floodTask # <<>>
  /\ IF alive THEN FloodCall(floodTask)
     ELSE /\ floodTask' = <<>> /\ UNCHANGED <<floodLog, callbacks>>
  /\ UNCHANGED <<pending, baseTasks, batchedTask, manyTask, baseSent, batchedLog, alive>>
  /\ UNCHANGED PeriodicVars /\ UNCHANGED LifeVars

(* The node shuts down: the weak pointers no longer lock.                  *)
NodeStop ==
  /\ alive /\ stopPc["node"] \in {"idle", "returned"}
  /\ alive' = FALSE
  /\ UNCHANGED <<pending, baseTasks, batchedTask, manyTask, floodTask, baseSent,
                 batchedLog, floodLog, callbacks>>
  /\ UNCHANGED PeriodicVars /\ UNCHANGED LifeVars

(* network::start: ongoing_cleanup () unless connection cleanup is        *)
(* disabled, ongoing_syn_cookie_cleanup () and ongoing_keepalive (): each  *)
(* does its work (purging channels or cookies, flooding keepalives) and    *)
(* schedules itself again.                                                 *)
NetStart ==
  /\ alive /\ ~netStarted /\ channels = "running"
  /\ netStarted' = TRUE
  /\ periodic' = IF CleanupEnabled THEN Periodic ELSE Periodic \ {"cleanup"}
  /\ UNCHANGED <<pending, baseTasks, batchedTask, manyTask, floodTask, baseSent,
                 batchedLog, floodLog, callbacks, alive, port, peering>>
  /\ UNCHANGED LifeVars

(* Mutant: the task schedules itself again without node_w.lock ().      *)
RunPeriodicIgnoresLock(k) ==
  /\ k \in periodic
  /\ UNCHANGED <<periodic, port, peering>>
  /\ UNCHANGED <<pending, baseTasks, batchedTask, manyTask, floodTask, baseSent,
                 batchedLog, floodLog, callbacks, alive, netStarted>>
  /\ UNCHANGED LifeVars

(* network_message_visitor::keepalive at a peer, for the channel to this   *)
(* node: slot 0 with the unspecified address and a non-zero port becomes  *)
(* the channel's peering endpoint (merge_peers and merge_peer start        *)
(* connections in tcp_channels).                                           *)
KeepaliveVisit(pe, ep) == IF ep.any /\ ep.port # 0 THEN ep.port ELSE pe

(* fill_keepalive_self, slot 0: the unspecified address with network::port *)
(* when no external address is configured, with or without a port mapping. *)
SelfEndpoint == [any |-> TRUE, port |-> port]

(* ongoing_keepalive: flood_keepalive, then flood_keepalive_self; each     *)
(* message reaches the peer, whose visitor runs on it, or is lost.         *)
KeepaliveRound ==
  \E e \in PeerEndpoints, got \in SUBSET {"keepalive", "self"} :
    LET p1 == IF "keepalive" \in got THEN KeepaliveVisit(peering, e) ELSE peering
    IN peering' = IF "self" \in got THEN KeepaliveVisit(p1, SelfEndpoint) ELSE p1

(* A worker runs a periodic task: with the node alive it does its work     *)
(* and schedules itself again, otherwise the chain ends.  None of the      *)
(* tasks looks at network::stopped.                                        *)
RunPeriodic(k) ==
  /\ k \in periodic
  /\ periodic' = IF alive THEN periodic ELSE periodic \ {k}
  /\ IF alive /\ k = "keepalive" THEN KeepaliveRound ELSE UNCHANGED peering
  /\ UNCHANGED <<pending, baseTasks, batchedTask, manyTask, floodTask, baseSent,
                 batchedLog, floodLog, callbacks, alive, netStarted, port>>
  /\ UNCHANGED LifeVars

-----------------------------------------------------------------------------
(* The network's lifecycle.  start_threads makes tcp_channels and the      *)
(* packet processing threads; each runs tcp_channels->process_messages,    *)
(* which hands every message to process_message and returns once           *)
(* tcp_channels is stopped.  network::stop is called by node::stop and     *)
(* again by ~network; stopped.exchange lets only the first one stop        *)
(* tcp_channels and join the threads.  start_threads does not look at     *)
(* stopped; the guard ~netStopped is the callers' order: node::start,      *)
(* which calls start_threads, returns before the node's owner calls        *)
(* node::stop.  Started after a network::stop, its threads would never be  *)
(* joined.                                                                  *)
StartThreads ==
  /\ channels = "none" /\ ~netStopped
  /\ channels' = "running"
  /\ threads' = [t \in Threads |-> "waiting"]
  /\ UNCHANGED <<netStopped, stopPc, joinIdx>>
  /\ UNCHANGED <<pending, baseTasks, batchedTask, manyTask, floodTask, baseSent,
                 batchedLog, floodLog, callbacks, alive>> /\ UNCHANGED PeriodicVars

(* process_messages takes a message and process_message runs the visitor   *)
(* on it; the handler returns to process_messages.                          *)
Handle(t) ==
  /\ threads[t] = "waiting" /\ channels = "running"
  /\ threads' = [threads EXCEPT ![t] = "handling"]
  /\ UNCHANGED <<channels, netStopped, stopPc, joinIdx>>
  /\ UNCHANGED <<pending, baseTasks, batchedTask, manyTask, floodTask, baseSent,
                 batchedLog, floodLog, callbacks, alive>> /\ UNCHANGED PeriodicVars

Handled(t) ==
  /\ threads[t] = "handling"
  /\ threads' = [threads EXCEPT ![t] = "waiting"]
  /\ UNCHANGED <<channels, netStopped, stopPc, joinIdx>>
  /\ UNCHANGED <<pending, baseTasks, batchedTask, manyTask, floodTask, baseSent,
                 batchedLog, floodLog, callbacks, alive>> /\ UNCHANGED PeriodicVars

(* process_messages returns once tcp_channels is stopped; the thread ends. *)
ThreadExit(t) ==
  /\ threads[t] = "waiting" /\ channels = "stopped"
  /\ threads' = [threads EXCEPT ![t] = "exited"]
  /\ UNCHANGED <<channels, netStopped, stopPc, joinIdx>>
  /\ UNCHANGED <<pending, baseTasks, batchedTask, manyTask, floodTask, baseSent,
                 batchedLog, floodLog, callbacks, alive>> /\ UNCHANGED PeriodicVars

(* Who may call network::stop: node::stop at any time (~node calls it as   *)
(* well); ~network runs once the node is gone and ~node's stop returned,   *)
(* the threads having released their shared_from_this references.          *)
MayCallStop(s) ==
  IF s = "node" THEN TRUE ELSE ~alive /\ stopPc["node"] = "returned"

(* Mutant: the result of stopped.exchange is ignored: every call stops    *)
(* tcp_channels and joins the threads.                                      *)
StopBeginNoExchange(s) ==
  /\ stopPc[s] = "idle" /\ MayCallStop(s)
  /\ netStopped' = TRUE
  /\ stopPc' = [stopPc EXCEPT ![s] = "channels"]
  /\ UNCHANGED <<channels, threads, joinIdx>>
  /\ UNCHANGED <<pending, baseTasks, batchedTask, manyTask, floodTask, baseSent,
                 batchedLog, floodLog, callbacks, alive>> /\ UNCHANGED PeriodicVars

(* network::stop: if (!stopped.exchange (true)) ..., else return at once.  *)
StopBegin(s) ==
  /\ stopPc[s] = "idle" /\ MayCallStop(s)
  /\ netStopped' = TRUE
  /\ stopPc' = [stopPc EXCEPT ![s] = IF netStopped THEN "returned" ELSE "channels"]
  /\ UNCHANGED <<channels, threads, joinIdx>>
  /\ UNCHANGED <<pending, baseTasks, batchedTask, manyTask, floodTask, baseSent,
                 batchedLog, floodLog, callbacks, alive>> /\ UNCHANGED PeriodicVars

(* Mutant: tcp_channels->stop () is left out.                              *)
StopChannelsMissing(s) ==
  /\ stopPc[s] = "channels"
  /\ port' = 0
  /\ stopPc' = [stopPc EXCEPT ![s] = "joining"]
  /\ joinIdx' = [joinIdx EXCEPT ![s] = 1]
  /\ UNCHANGED <<channels, threads, netStopped>>
  /\ UNCHANGED <<pending, baseTasks, batchedTask, manyTask, floodTask, baseSent,
                 batchedLog, floodLog, callbacks, alive>>
  /\ UNCHANGED <<netStarted, periodic, peering>>

(* if (tcp_channels) tcp_channels->stop (); resolver.cancel (); port = 0.  *)
StopChannels(s) ==
  /\ stopPc[s] = "channels"
  /\ channels' = IF channels = "none" THEN "none" ELSE "stopped"
  /\ port' = 0
  /\ stopPc' = [stopPc EXCEPT ![s] = "joining"]
  /\ joinIdx' = [joinIdx EXCEPT ![s] = 1]
  /\ UNCHANGED <<threads, netStopped>>
  /\ UNCHANGED <<pending, baseTasks, batchedTask, manyTask, floodTask, baseSent,
                 batchedLog, floodLog, callbacks, alive>>
  /\ UNCHANGED <<netStarted, periodic, peering>>

(* The threads packet_processing_threads holds: all of them once           *)
(* start_threads ran, none before.                                          *)
Created == {t \in Threads : threads[t] # "none"}

(* for (auto & thread : packet_processing_threads) thread.join (): the     *)
(* join returns when the thread has ended; a thread already joined is not  *)
(* joinable, and join throws.                                               *)
StopJoin(s) ==
  /\ stopPc[s] = "joining" /\ joinIdx[s] \in Created
  /\ LET t == joinIdx[s] IN
       \/ /\ threads[t] = "exited"
          /\ threads' = [threads EXCEPT ![t] = "joined"]
          /\ joinIdx' = [joinIdx EXCEPT ![s] = t + 1]
          /\ UNCHANGED stopPc
       \/ /\ threads[t] = "joined"
          /\ stopPc' = [stopPc EXCEPT ![s] = "threw"]
          /\ UNCHANGED <<threads, joinIdx>>
  /\ UNCHANGED <<channels, netStopped>>
  /\ UNCHANGED <<pending, baseTasks, batchedTask, manyTask, floodTask, baseSent,
                 batchedLog, floodLog, callbacks, alive>> /\ UNCHANGED PeriodicVars

StopReturn(s) ==
  /\ stopPc[s] = "joining" /\ joinIdx[s] \notin Created
  /\ stopPc' = [stopPc EXCEPT ![s] = "returned"]
  /\ UNCHANGED <<channels, threads, netStopped, joinIdx>>
  /\ UNCHANGED <<pending, baseTasks, batchedTask, manyTask, floodTask, baseSent,
                 batchedLog, floodLog, callbacks, alive>> /\ UNCHANGED PeriodicVars

LifeNext ==
  \/ StartThreads
  \/ \E t \in Threads : Handle(t) \/ Handled(t) \/ ThreadExit(t)
  \/ \E s \in StopCallers : StopBegin(s) \/ StopChannels(s) \/ StopJoin(s) \/ StopReturn(s)

Next ==
  \/ NetStart \/ \E k \in periodic : RunPeriodic(k)
  \/ CallBase \/ CallBatched \/ CallMany \/ CallFlood
  \/ \E t \in baseTasks : RunBase(t)
  \/ RunBatched \/ RunMany \/ RunFlood
  \/ NodeStop
  \/ LifeNext

(* node.workers runs every timed task once it is due.                      *)
Fairness ==
  /\ WF_vars(\E t \in baseTasks : RunBase(t))
  /\ WF_vars(RunBatched) /\ WF_vars(RunMany) /\ WF_vars(RunFlood)
  /\ \A k \in Periodic : WF_vars(RunPeriodic(k))
  /\ \A t \in Threads : WF_vars(Handled(t)) /\ WF_vars(ThreadExit(t))
  /\ \A s \in StopCallers : WF_vars(StopChannels(s) \/ StopJoin(s) \/ StopReturn(s))

Spec == Init /\ [][Next]_vars /\ Fairness

-----------------------------------------------------------------------------
(* The confirm_req owed by the pending timed tasks, and those the calls    *)
(* made so far asked for.                                                  *)
ReqCount(reqs, h, c) ==
  MapThenSumSet(LAMBDA i : IF reqs[i].block = h THEN CountIn(reqs[i].eps, c) ELSE 0,
                1..Len(reqs))

Owed(h, c) ==
  MapThenSumSet(LAMBDA t : IF t.block = h THEN CountIn(t.eps, c) ELSE 0, baseTasks)
    + ReqCount(manyTask, h, c)

Expected(h, c) ==
  (IF "base" \notin pending /\ h = BaseBlock THEN CountIn(BaseEndpoints, c) ELSE 0)
    + (IF "many" \notin pending THEN ReqCount(Requests, h, c) ELSE 0)

TypeOK ==
  /\ pending \subseteq Kinds
  /\ baseTasks \subseteq [block : Hashes, eps : Seq(Channels)]
  /\ DOMAIN batchedTask \subseteq Channels /\ manyTask \in Seq([block : Hashes, eps : Seq(Channels)])
  /\ floodTask \in Seq(Hashes) /\ floodLog \in Seq(Hashes)
  /\ baseSent \in [Hashes \X Channels -> Nat]
  /\ \A c \in Channels : \A i \in 1..Len(batchedLog[c]) : Len(batchedLog[c][i]) <= HashesMax
  /\ callbacks \in [Kinds -> 0..1]
  /\ alive \in BOOLEAN
  /\ netStarted \in BOOLEAN /\ periodic \subseteq Periodic
  /\ channels \in {"none", "running", "stopped"}
  /\ threads \in [Threads -> {"none", "waiting", "handling", "exited", "joined"}]
  /\ netStopped \in BOOLEAN
  /\ stopPc \in [StopCallers -> {"idle", "channels", "joining", "returned", "threw"}]
  /\ joinIdx \in [StopCallers -> 1..NetworkThreads + 1]
  /\ port \in {0, ListenPort} /\ peering \in {NoPeering, 0, ListenPort}

(* broadcast_confirm_req_base and broadcast_confirm_req_many, through any  *)
(* order of their timed tasks: every (block, endpoint) pair is sent once   *)
(* or still owed by exactly one pending task; none is sent twice, and      *)
(* after the node is gone pairs may only be lost.                          *)
BaseExactlyOnce ==
  \A h \in Hashes, c \in Channels :
    IF alive THEN baseSent[<<h, c>>] + Owed(h, c) = Expected(h, c)
    ELSE baseSent[<<h, c>>] + Owed(h, c) <= Expected(h, c)

(* broadcast_confirm_req_batched_many: each representative receives its   *)
(* requests in the bundle's priority order, each once: what was sent,      *)
(* followed by what the timed task still holds, is the channel's deque.    *)
BatchedInOrder ==
  "batched" \notin pending =>
    \A c \in Channels :
      LET done == FlattenSeq(batchedLog[c])
          left == IF c \in DOMAIN batchedTask THEN batchedTask[c] ELSE <<>>
          want == IF c \in DOMAIN Bundle THEN Bundle[c] ELSE <<>>
      IN IF alive THEN done \o left = want ELSE IsPrefix(done \o left, want)

(* Every call, once made, completes on a live node: all its messages sent  *)
(* and its callback called.                                                *)
Done(k) ==
  CASE k = "base"    -> \A c \in Channels : baseSent[<<BaseBlock, c>>] = CountIn(BaseEndpoints, c)
    [] k = "batched" -> callbacks["batched"] = 1
    [] k = "many"    -> /\ callbacks["many"] = 1
                        /\ \A i \in 1..Len(Requests), c \in Channels :
                             baseSent[<<Requests[i].block, c>>] = ReqCount(Requests, Requests[i].block, c)
    [] k = "flood"   -> callbacks["flood"] = 1 /\ floodLog = FloodBlocks

ChainCompletes == \A k \in Kinds : (k \notin pending) ~> (~alive \/ Done(k))

(* Once the node is gone, every chain of timed tasks, the paced broadcasts *)
(* and the periodic cleanup and keepalive tasks alike, dies out: no task   *)
(* keeps rescheduling itself for a node that no longer exists.             *)
NoTasks ==
  /\ baseTasks = {} /\ DOMAIN batchedTask = {} /\ manyTask = <<>> /\ floodTask = <<>>
  /\ periodic = {}

StopDrains == ~alive ~> NoTasks

(* network::stop, called by node::stop and again by ~network, joins every  *)
(* packet processing thread exactly once: stopped.exchange turns the later *)
(* call into a no-op, so no join meets a thread that is no longer          *)
(* joinable (which throws out of a destructor).                            *)
NoDoubleJoin == \A s \in StopCallers : stopPc[s] # "threw"

(* A call of network::stop returns: tcp_channels->stop () makes every      *)
(* packet processing thread leave process_messages, whatever message it is *)
(* handling, so each join ends.                                             *)
NetStopReturns ==
  \A s \in StopCallers : stopPc[s] \in {"channels", "joining"} ~> stopPc[s] = "returned"

=============================================================================

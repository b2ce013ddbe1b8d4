------------------------- MODULE MC_BlockProcessor -------------------------
(* BlockProcessor instantiated for TLC.  Blocks 1 and 2 fork on root r1:   *)
(* 1 is a legacy block, 2 a state block (signature verifier).  Block 3, a  *)
(* state block on root r2, depends on 1 (say, receives it), so it gaps    *)
(* when it comes first and is rolled back with 1 when 2 is forced.        *)
EXTENDS BlockProcessor, TLC

CONSTANTS p1, p2, r1, r2

MCProducers == {p1, p2}
MCBlocks == {1, 2, 3}
(* One producer: the liveness runs, where every producer adds fairness    *)
(* conditions to check.                                                    *)
MCOneProducer == {p1}
MCRootOf == (1 :> r1) @@ (2 :> r1) @@ (3 :> r2)
MCDep == (1 :> NoBlock) @@ (2 :> NoBlock) @@ (3 :> 1)

(* The calls of the main run: block 1 published by the network, block 3   *)
(* added, 2 added blocking, then forced as an election would force its    *)
(* new winner, and a flush.                                                *)
MCCalls == {[op |-> "publish", block |-> 1], [op |-> "add", block |-> 3],
            [op |-> "add_blocking", block |-> 2], [op |-> "force", block |-> 2],
            [op |-> "flush", block |-> NoBlock]}
=============================================================================

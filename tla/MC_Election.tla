---------------------------- MODULE MC_Election ----------------------------
(* Election instantiated for TLC.  Two voters of weights 1 and 2 with a    *)
(* quorum delta of 2: v2 alone reaches quorum, v1 alone does not, and the  *)
(* two split over two blocks change the winner (sum 3 >= 2) without        *)
(* quorum (margin 1).  No two different sets of voters carry the same      *)
(* weight, except under MCTieWeight, which is there to make ties.          *)
(* Three blocks of one root with room for two of them (max_blocks) make    *)
(* replace_by_weight run; two blocks keep the thread races small.          *)
EXTENDS Election, TLC

CONSTANTS v1, v2, v3, null

MCVoters == {v1, v2}
MCWeight == (v1 :> 1) @@ (v2 :> 2) @@ (null :> 0)
(* Three voters, for ties: v2 and v3 together match v1, and no single      *)
(* vote reaches the quorum delta of 2 over the other block.                *)
MCTieVoters == {v1, v2, v3}
MCTieWeight == (v1 :> 2) @@ (v2 :> 1) @@ (v3 :> 1) @@ (null :> 0)
MCBlocks == {1, 2, 3}
MCTwoBlocks == {1, 2}
=============================================================================

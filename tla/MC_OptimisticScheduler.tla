---------------------- MODULE MC_OptimisticScheduler ----------------------
(* OptimisticScheduler instantiated for TLC.  Two accounts whose chains    *)
(* grow to three blocks: with a gap threshold of 1, an account qualifies   *)
(* with nothing confirmed, or with two unconfirmed blocks above a         *)
(* confirmed one, but not with one.  One election slot and one candidate   *)
(* slot make both limits bite.                                             *)
EXTENDS OptimisticScheduler, TLC

CONSTANTS a1, a2

MCAccounts == {a1, a2}
=============================================================================

----------------------------- MODULE MCStaking -----------------------------
(***************************************************************************)
(* Staking on a small instance; see Staking.cfg and FindingElection.cfg.   *)
(* The delegators are interchangeable and all properties are safety.       *)
(***************************************************************************)
EXTENDS Staking, TLC

Symmetry == Permutations(Delegators)
=============================================================================

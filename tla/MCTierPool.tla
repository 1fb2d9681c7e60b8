---------------------------- MODULE MCTierPool ----------------------------
(* Three scenarios of two epochs in a pool of up to two workers, two     *)
(* processes that run the tier, and one bundle of another tier.         *)
EXTENDS TierPool
=============================================================================

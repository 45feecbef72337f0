------------------------- MODULE MCRewardScoring -------------------------
(* RewardScoring as model-checked; the constants' values are in the cfgs. *)
EXTENDS RewardScoring
==========================================================================

---------------------------- MODULE MCFinalityNet ----------------------------
EXTENDS FinalityNet, TLC

CONSTANTS v1, v2, v3, v4

Four == {v1, v2, v3, v4}
\* v1 stays on the first branch, v2 votes on both, v3 changes sides, v4 was pruned
Pruned == (v1 :> 3 @@ v2 :> 1 @@ v3 :> 2 @@ v4 :> 3)
\* Only splits of a chain that was finalizing
SplitAfterFinality ==
    epoch >= ForkEpoch => \A b \in Branches : st[b].finalized.epoch >= ForkEpoch - 2
BranchSymmetry == Permutations(Branches)
=============================================================================

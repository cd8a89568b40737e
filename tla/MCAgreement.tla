----------------------------- MODULE MCAgreement -----------------------------
(***************************************************************************)
(* Agreement, in three parts of which one runs: the abstract protocol      *)
(* (FFG); a split network with a faulty voter and its history              *)
(* (FinalityHistory, which has the protocol's variables for its own); and  *)
(* a split network that prunes its finality sets (FinalityNet).            *)
(***************************************************************************)
EXTENDS FinalityHistory, FiniteSets, TLC

CONSTANTS v1, v2, v3, v4, b1, b2, SplitEpoch, LastEpoch

VARIABLE running

netVars == <<st, epoch, ballot, mark>>

Three == {v1, v2, v3}
Four == {v1, v2, v3, v4}
Even == [v \in Four |-> 1]
ThreeOfFour == {Q \in SUBSET Four : Cardinality(Q) >= 3}
TwoBranches == {b1, b2}
ForkRoot == [b \in TwoBranches |-> [e \in 0..MaxEpoch |-> IF e < ForkEpoch THEN Common ELSE b]]
RootSet == {Common, b1, b2}

\* Nobody votes on both sides, any vote may be lost, and absence of one epoch is
\* enough to be pruned.
Split == INSTANCE FinalityNet WITH
    Validators <- Three, Faulty <- {}, Roster <- [v \in Three |-> 1],
    ForkEpoch <- SplitEpoch, MaxEpoch <- LastEpoch, Lossy <- TRUE, ForeignVotes <- FALSE,
    FrozenFrom <- 0, OwnFrom <- 0, PruneAfter <- 1

ASSUME Instances == Split!NetConstants

MCInit ==
    /\ running \in {"protocol", "network", "history"}
    /\ IF running = "history" THEN HistoryInit ELSE Init /\ Split!Init

MCNext ==
    /\ \/ running = "protocol" /\ Next /\ UNCHANGED netVars
       \/ running = "network" /\ Split!Next /\ UNCHANGED vars
       \/ running = "history" /\ HistoryNext
    /\ UNCHANGED running

MCSpec == MCInit /\ [][MCNext]_<<vars, netVars, running>>

\* FinalityNet.Agreement: branches that hand off to different frozen sets
\* (close_finality_set) never finalize different histories while no voter is on both.
NetAgreement == running = "network" => Split!Agreement

\* FinalityHistory.ImplementsFFG: every vote the signing record lets through conflicts with
\* no earlier one, and an epoch closes as no change or as one justification by a quorum from
\* a justified source (guard_attestation, process_epoch).
HistoryImplementsFFG ==
    /\ running = "history" => Init
    /\ [][running = "history" => Next]_vars

Symmetric == Permutations(Three) \cup Permutations(TwoBranches)
=============================================================================

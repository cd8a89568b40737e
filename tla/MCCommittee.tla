------------------------------ MODULE MCCommittee ----------------------------
(***************************************************************************)
(* Four parts of the committee crate on small instances, one of which      *)
(* runs.  GossipPool, where votes arrive, with two blocks and four votes   *)
(* for them.  CommittedVotes on small chains, and Staking with one genesis *)
(* validator and two applicants (the constants of this module; a second    *)
(* registry pays rewards).  ForkChoice on small block trees whose          *)
(* identities and slots are ordered differently, so that the two           *)
(* tie-breaks disagree.                                                    *)
(***************************************************************************)
EXTENDS CommittedVotes, ForkChoice, Staking, TLC

CONSTANTS h1, h2, v1, v2, MaxId, LastSlot

VARIABLES running, pool, known, held, wall, headEpoch, relayed, evidence

poolVars == <<pool, known, held, wall, headEpoch, relayed, evidence>>

TwoHeads == {h1, h2}
TwoValidators == {v1, v2}

UnitStake == [v \in TwoValidators |-> 1]
BlockIds == 1..MaxId
SlotOfId == [b \in 0..MaxId |-> <<0, 2, 1, 3, 2>>[b + 1]]

\* One validator votes three times in one slot, another in a slot where it has no seat.
Vote(slot_, v, head, target) == [slot |-> slot_, validator |-> v, head |-> head, target |-> target]
PoolVotes ==
    {Vote(0, 1, "x", "base"), Vote(0, 1, "y", "x"), Vote(0, 1, "x", "y"), Vote(1, 2, "y", "x")}

Gossip == INSTANCE GossipPool WITH
    Votes <- PoolVotes, Seated <- {<<0, 1>>}, Base <- "base", Another <- "another",
    Sources <- {"peer"}, Unattributed <- "local",
    Limits <- [pending |-> 2, roots |-> 2, duty |-> 2, root |-> 2, source |-> 2, free |-> 2]
                @@ ("source root" :> 1) @@ ("free root" :> 1),
    PerDuty <- 2, Window <- 2, Skew <- 1, SlotsPerEpoch <- 1, FirstSlot <- 0

\* Rewards of two units an epoch, over fewer epochs
Rewarded == INSTANCE Staking WITH EpochIssuance <- 2, LastEpoch <- 3

MCInit ==
    /\ VotesInit /\ ForkInit /\ Gossip!InitPool
    /\ running \in {"gossip", "committed votes", "fork choice", "staking", "rewards"}
    /\ IF running = "rewards" THEN Rewarded!StakingInit ELSE StakingInit
    /\ running # "committed votes" => \A v \in Validators : seats[v] = {0}

voteVars == <<committedVars, forkVars, poolVars>>

MCNext ==
    /\ \/ running = "committed votes" /\ VotesNext /\ UNCHANGED <<forkVars, poolVars, stakingVars>>
       \/ running = "fork choice" /\ ForkNext /\ UNCHANGED <<committedVars, poolVars, stakingVars>>
       \/ running = "gossip" /\ Gossip!NextPool /\ UNCHANGED <<committedVars, forkVars, stakingVars>>
       \/ running = "staking" /\ StakingNext /\ UNCHANGED voteVars
       \/ running = "rewards" /\ Rewarded!StakingNext /\ UNCHANGED voteVars
    /\ UNCHANGED running

MCSpec == MCInit /\ [][MCNext]_<<voteVars, stakingVars, running>>

\* The part where votes arrive alone
GossipSpec ==
    /\ MCInit /\ running = "gossip"
    /\ [][/\ Gossip!NextPool
          /\ UNCHANGED <<committedVars, forkVars, stakingVars, running>>]_<<voteVars, stakingVars, running>>

\* GossipPool.SharesExact: remove_pending and hold keep every counter beside the
\* pending votes in step with them.
SharesExact == running = "gossip" => Gossip!SharesExact

\* GossipPool.EquivocationCaptured: no vote is accepted twice, and no two of one duty
\* without their pair reported, although prune forgets duties and votes come back late.
EquivocationCaptured == running = "gossip" => Gossip!EquivocationCaptured

\* GossipPool.NoWaiterStranded: a parked vote whose block is here is due for replay
\* (schedule_held_release, release_held_turn).
NoWaiterStranded == running = "gossip" => Gossip!NoWaiterStranded

\* GossipPool.HeldTurnProgresses: each release_held_turn leaves less to replay.
HeldTurnProgresses == Gossip!HeldTurnProgresses

AllSymmetry == Permutations(TwoHeads) \cup Permutations(TwoValidators)
=============================================================================

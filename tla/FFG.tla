--------------------------------- MODULE FFG ---------------------------------
(***************************************************************************)
(* What finality promises, and why: justification links over quorums.      *)
(*                                                                         *)
(* An abstraction of crates/bloch-pos-committee/src/finality.rs with the   *)
(* quorum reduced to the one fact that matters, that any two share an      *)
(* honest validator, and of the slashing conditions of attestation.rs that *)
(* an honest validator never meets.  A faulty validator's votes are not    *)
(* recorded: it counts as having voted whatever a quorum needs.            *)
(***************************************************************************)
EXTENDS Integers

CONSTANTS
    Validators,
    Honest,
    Quorums,     \* sets of validators holding two thirds of the finality set
    Branches,
    Roots,
    ChainRoot,   \* the checkpoint root of each branch at each epoch
    MaxEpoch

Epochs == 0..MaxEpoch

ASSUME EpochAssumption == MaxEpoch \in Nat

ASSUME QuorumAssumption ==
    /\ Honest \subseteq Validators
    /\ Quorums \subseteq SUBSET Validators
    /\ \A P, Q \in Quorums : P \cap Q \cap Honest # {}

\* Branches share genesis, and histories that part never meet again.
ASSUME BranchAssumption ==
    /\ ChainRoot \in [Branches -> [Epochs -> Roots]]
    /\ \A b, c \in Branches : ChainRoot[b][0] = ChainRoot[c][0]
    /\ \A b, c \in Branches : \A e, f \in Epochs :
         (e <= f /\ ChainRoot[b][e] # ChainRoot[c][e]) => ChainRoot[b][f] # ChainRoot[c][f]

VARIABLES
    votes,      \* every vote of an honest validator
    links,      \* the justified links of each branch
    finalized   \* the finalized epochs of each branch

vars == <<votes, links, finalized>>

CheckpointOf(b, e) == [epoch |-> e, root |-> ChainRoot[b][e]]
VoteOf(v, b, s, t) == [voter |-> v, source |-> CheckpointOf(b, s), target |-> CheckpointOf(b, t)]
Link(s, t) == [source |-> s, target |-> t]

Checkpoints == [epoch : Epochs, root : Roots]
Votes == [voter : Honest, source : Checkpoints, target : Checkpoints]
Links == [source : Epochs, target : Epochs]

\* attestation.rs surrounds and is_double_vote
Surrounds(d, e) == d.source.epoch < e.source.epoch /\ e.target.epoch < d.target.epoch
IsDoubleVote(d, e) == d.target.epoch = e.target.epoch /\ d # e
Conflict(d, e) == Surrounds(d, e) \/ Surrounds(e, d) \/ IsDoubleVote(d, e)

Init ==
    /\ votes = {}
    /\ links = [b \in Branches |-> {}]
    /\ finalized = [b \in Branches |-> {0}]

Justified(b, e) == e = 0 \/ \E l \in links[b] : l.target = e

Vote(v, b, s, t) ==
    /\ s < t
    /\ Justified(b, s)
    /\ \A d \in votes : d.voter = v => ~Conflict(VoteOf(v, b, s, t), d)
    /\ votes' = votes \cup {VoteOf(v, b, s, t)}
    /\ UNCHANGED <<links, finalized>>

\* Mutant: the target is justified by any vote of a quorum, not by all of them.
JustifyEarly(b, s, t, Q) ==
    /\ s < t
    /\ Justified(b, s)
    /\ \E v \in Q \cap Honest : VoteOf(v, b, s, t) \in votes
    /\ links' = [links EXCEPT ![b] = @ \cup {Link(s, t)}]
    /\ finalized' = [finalized EXCEPT ![b] = IF t = s + 1 THEN @ \cup {s} ELSE @]
    /\ UNCHANGED votes

\* A quorum voted from a justified checkpoint: the target is justified, and the
\* source is finalized when the target is the next epoch.
Justify(b, s, t, Q) ==
    /\ s < t
    /\ Justified(b, s)
    /\ \A v \in Q \cap Honest : VoteOf(v, b, s, t) \in votes
    /\ links' = [links EXCEPT ![b] = @ \cup {Link(s, t)}]
    /\ finalized' = [finalized EXCEPT ![b] = IF t = s + 1 THEN @ \cup {s} ELSE @]
    /\ UNCHANGED votes

Next ==
    \E b \in Branches, s, t \in Epochs :
        \/ \E v \in Honest : Vote(v, b, s, t)
        \/ \E Q \in Quorums : Justify(b, s, t, Q)

Spec == Init /\ [][Next]_vars

-----------------------------------------------------------------------------
\* The type invariant.
TypeOK ==
    /\ votes \subseteq Votes
    /\ links \in [Branches -> SUBSET Links]
    /\ finalized \in [Branches -> SUBSET Epochs]

\* Accountable safety: finalized checkpoints of any two branches lie on one
\* history, whatever the order of votes and whichever branch justifies first.
Agreement ==
    \A b, c \in Branches : \A e \in finalized[b] : \A f \in finalized[c] :
        e <= f => ChainRoot[b][e] = ChainRoot[c][e]

\* What makes Agreement inductive.
\* Every link is backed by a quorum and starts at a justified checkpoint.
LinksBacked ==
    \A b \in Branches : \A l \in links[b] :
        /\ l.source < l.target
        /\ Justified(b, l.source)
        /\ \E Q \in Quorums : \A v \in Q \cap Honest : VoteOf(v, b, l.source, l.target) \in votes

\* No honest validator has two conflicting votes.
HonestVotes ==
    \A d, e \in votes : d.voter = e.voter => ~Conflict(d, e)

\* A finalized epoch starts a link to the next one.
FinalizedLinked ==
    \A b \in Branches : \A e \in finalized[b] : e = 0 \/ Link(e, e + 1) \in links[b]

\* The inductive invariant behind agreement: what the record of honest votes, the
\* quorum of each link and the two adjacent epochs of each finalization leave behind.
Inv == TypeOK /\ LinksBacked /\ HonestVotes /\ FinalizedLinked
=============================================================================

----------------------------- MODULE ForkChoice -----------------------------
(***************************************************************************)
(* LMD-GHOST fork choice (crates/bloch-pos-committee/src/forkchoice.rs):   *)
(* the store of latest messages, the one-pass subtree weights, and the     *)
(* descent from the justified block to the head.                           *)
(*                                                                         *)
(* The weights are computed by Kahn's algorithm over a HashMap, so the     *)
(* order in which ready blocks are released is arbitrary.  It is a step    *)
(* of its own here: `Release' picks any ready block, and the head must not *)
(* depend on which.                                                        *)
(*                                                                         *)
(* The block tree is the caller's (engine.rs `forkchoice_store').  A block *)
(* is stored once its parent is known; an invalid block is removed while   *)
(* its descendants stay, so the parent map is a forest with dangling       *)
(* parents.  A block's identity is a hash of its header: identities are    *)
(* numbers compared for the tie-break, and SlotOf is a function of them.   *)
(***************************************************************************)
EXTENDS Ghost

CONSTANTS
    Voters,        \* validator indices
    Stake,         \* effective stake: a function on Voters
    Ids,           \* block identities, positive integers
    SlotOf,        \* the slot in each block's header
    Justified,     \* identity of the justified block, where descents start
    MaxVoteSlot    \* bound: votes name the slots 1..MaxVoteSlot

ASSUME ForkAssumption ==
    /\ IsFiniteSet(Voters) /\ Stake \in [Voters -> Nat]
    /\ SlotOf \in [Ids \cup {Justified} -> Nat]
    /\ MaxVoteSlot \in Nat

VARIABLES
    parents,       \* stored block -> its parent (BlockTree.parents)
    latest,        \* validator -> its latest message, where it has one
    equivocators,  \* validators barred for two votes in one slot
    job            \* the head computation in progress, or NoJob

forkVars == <<parents, latest, equivocators, job>>

NoJob == [running |-> FALSE]
Known == DOMAIN parents
Roots == Ids \cup {Justified}

ForkInit ==
    /\ parents = <<>>
    /\ latest = <<>>
    /\ equivocators = {}
    /\ job = NoJob

-----------------------------------------------------------------------------
(* The store.                                                              *)

Store == [latest |-> latest, equivocators |-> equivocators]

ObserveVote ==
    /\ job = NoJob
    /\ \E v \in Voters, s \in 1..MaxVoteSlot, r \in Roots :
          LET post == Observe(Store, v, [slot |-> s, root |-> r]) IN
          /\ post # Store
          /\ latest' = post.latest /\ equivocators' = post.equivocators
    /\ UNCHANGED <<parents, job>>

-----------------------------------------------------------------------------
(* The block tree.                                                         *)

AddBlock(b, p) ==
    /\ job = NoJob
    /\ b \notin Known
    /\ p \in Known \cup {Justified}
    /\ SlotOf[p] < SlotOf[b]
    /\ parents' = Put(parents, b, p)
    /\ UNCHANGED <<latest, equivocators, job>>

\* `advance' removes a block that failed to apply; its children stay.
RemoveBlock(b) ==
    /\ job = NoJob
    /\ b \in Known
    /\ parents' = Drop(parents, b)
    /\ UNCHANGED <<latest, equivocators, job>>

SubtreeWeight(b) == Weight(parents, latest, Stake, b)

\* `armed' says whether the FC-05 tie-break gate is armed in the head's epoch.
ReferenceHead(armed) == HeadReference(armed, SlotOf, parents, latest, Stake, Justified)

-----------------------------------------------------------------------------
(* subtree_weights, one released block at a time.                          *)

Pending == [b \in Roots |-> Cardinality(Children(parents, b))]

StartHead ==
    /\ job = NoJob
    /\ job' = [running |-> TRUE,
               weights |-> [b \in Roots |->
                              BackingOf(Stake, {v \in DOMAIN latest : latest[v].root = b})],
               pending |-> Pending,
               ready   |-> {b \in Known : Pending[b] = 0}]
    /\ UNCHANGED <<parents, latest, equivocators>>

\* Mutant: a block is released by its first child, not by its last.
ReleaseEarly(b) ==
    LET p == parents[b] IN
    /\ job # NoJob
    /\ b \in job.ready
    /\ job' = [job EXCEPT
                 !.weights[p] = @ + job.weights[b],
                 !.pending[p] = 0,
                 !.ready = (@ \ {b}) \cup
                     (IF job.pending[p] > 0 /\ p \in Known THEN {p} ELSE {})]
    /\ UNCHANGED <<parents, latest, equivocators>>

\* A block whose children have all handed up hands its weight to its parent.
Release(b) ==
    LET p == parents[b] IN
    /\ job # NoJob
    /\ b \in job.ready
    /\ job' = [job EXCEPT
                 !.weights[p] = @ + job.weights[b],
                 !.pending[p] = @ - 1,
                 !.ready = (@ \ {b}) \cup
                     (IF job.pending[p] = 1 /\ p \in Known THEN {p} ELSE {})]
    /\ UNCHANGED <<parents, latest, equivocators>>

Complete == job # NoJob /\ job.ready = {}

\* head_inner's descent, once the weights are complete.
HeadInner(armed) ==
    Descend(armed, SlotOf, parents, [b \in Known |-> job.weights[b]] @@ <<>>, Justified)

FinishHead ==
    /\ Complete
    /\ job' = NoJob
    /\ UNCHANGED <<parents, latest, equivocators>>

ForkNext ==
    \/ ObserveVote
    \/ \E b \in Ids, p \in Roots : AddBlock(b, p)
    \/ \E b \in Ids : RemoveBlock(b)
    \/ StartHead
    \/ \E b \in Ids : Release(b)
    \/ FinishHead

ForkSpec == ForkInit /\ [][ForkNext]_forkVars

-----------------------------------------------------------------------------
(* Properties.                                                             *)

\* Every component has its type; a barred validator has no message.
ForkTypeOK ==
    /\ Known \subseteq Ids
    /\ \A b \in Known : parents[b] \in Roots /\ SlotOf[parents[b]] < SlotOf[b]
    /\ DOMAIN latest \subseteq Voters \ equivocators
    /\ \A v \in DOMAIN latest :
          latest[v].slot \in 1..MaxVoteSlot /\ latest[v].root \in Roots
    /\ equivocators \subseteq Voters
    /\ job # NoJob =>
          /\ job.ready \subseteq Known
          /\ \A b \in Roots : job.pending[b] \in Nat /\ job.weights[b] \in Nat

\* Whatever order the HashMap releases blocks in, the one-pass weights end
\* equal to the per-block walks they replaced, for every block and for votes
\* on unknown roots and on blocks whose parents were removed, and so the head
\* is the head of the old algorithm (forkchoice.rs, "bit-identical").
HeadMatchesReference ==
    /\ ForkTypeOK
    /\ Complete =>
        /\ \A b \in Roots : job.weights[b] = SubtreeWeight(b)
        /\ \A armed \in BOOLEAN : HeadInner(armed) = ReferenceHead(armed)

\* With FC-05 armed, a block nobody has voted for, with a later slot than
\* every stored block, never displaces the head: it extends the head or it
\* changes nothing, whatever its identity (params.rs,
\* FORKCHOICE_SLOT_TIEBREAK_ACTIVATION_EPOCH).
LateBlockNeverDisplaces ==
    [][\A b \in Ids :
         (/\ b \in DOMAIN parents' \ Known
          /\ \A c \in Known : SlotOf[c] < SlotOf[b]
          /\ \A v \in DOMAIN latest : latest[v].root # b)
         => ReferenceHead(TRUE)' \in {ReferenceHead(TRUE)} \cup
                (IF parents'[b] = ReferenceHead(TRUE) THEN {b} ELSE {})]_forkVars
=============================================================================

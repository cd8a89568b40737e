--------------------------- MODULE CommittedVotes ---------------------------
(***************************************************************************)
(* The fork-choice part of the committed state                             *)
(* (crates/bloch-pos-committee/src/transition.rs, steps 8 and 9 of         *)
(* compute_post_state): which votes a block may carry, and how             *)
(* accumulate_forkchoice folds them into latest_messages, fc_equivocators  *)
(* and, once the equivocation-horizon gate binds, fc_recent_votes.         *)
(*                                                                         *)
(* Store::observe keeps one message per validator, so on its own it misses *)
(* a conflicting pair when a later vote comes between its halves.  Two     *)
(* things close that gap: before the gate, the committee partition seats a *)
(* validator in one slot of an epoch; from the gate on, the retained       *)
(* history, which is checked here without the partition: from the gate on  *)
(* a validator sits in the committee of every slot.                        *)
(***************************************************************************)
EXTENDS Ghost, EpochClock

CONSTANTS
    Validators,     \* the roster, frozen for the chain modelled
    Heads,          \* block roots a vote may name
    GateEpoch,      \* epoch from which the horizon gate binds
    MaxSlot,        \* bound: slots 0..MaxSlot
    MaxBody         \* bound: attestations in one block

ASSUME VotesAssumption ==
    /\ SlotsPerEpoch \in Nat \ {0} /\ GateEpoch \in Nat
    /\ MaxSlot \in Nat /\ MaxBody \in Nat

VARIABLES
    slot,           \* slot of the last applied block
    seats,          \* validator -> the offsets within this epoch of its committees
    latest_messages, fc_equivocators, fc_recent_votes,
    admitted        \* history: every vote a block has carried

committedVars == <<slot, seats, latest_messages, fc_equivocators, fc_recent_votes, admitted>>

Offsets == 0..SlotsPerEpoch - 1
\* What the sampler may give a validator in an epoch.
Seats(e) == IF e < GateEpoch THEN {{o} : o \in Offsets} ELSE {Offsets}
Votes == [validator : Validators, slot : 0..MaxSlot, root : Heads]

VotesInit ==
    /\ slot = 0
    /\ seats \in [Validators -> Seats(0)]
    /\ latest_messages = <<>>
    /\ fc_equivocators = {}
    /\ fc_recent_votes = [v \in Validators |-> <<>>]
    /\ admitted = {}

-----------------------------------------------------------------------------
(* Step 8: which votes the block at slot s may carry.                      *)

\* The block's own epoch, the validator's committee, no future slot.
Admissible(s, sat, att) ==
    /\ EpochOf(att.slot) = EpochOf(s)
    /\ att.slot % SlotsPerEpoch \in sat[att.validator]
    /\ att.slot <= s

-----------------------------------------------------------------------------
(* Step 9.  The fold's accumulator is the three committed components and   *)
(* the Store rebuilt for this block.                                       *)

\* record_recent_vote_conflicts: does the history hold another root for it?
Conflicts(recent, v, msg) ==
    msg.slot \in DOMAIN recent[v] /\ recent[v][msg.slot] # msg.root

Bar(acc, v) ==
    [acc EXCEPT !.barred = @ \cup {v},
                !.latest = Drop(@, v),
                !.recent[v] = <<>>]

\* One attestation of the body.
Judge(acc, att, horizon) ==
    LET v == att.validator
        msg == [slot |-> att.slot, root |-> att.root]
        kept == IF horizon
                  THEN [acc EXCEPT !.recent[v] = Put(@, msg.slot, msg.root)]
                  ELSE acc
        seen == Observe(acc.store, v, msg)
    IN  IF v \in acc.barred THEN acc
        ELSE IF horizon /\ Conflicts(acc.recent, v, msg) THEN Bar(acc, v)
        ELSE [kept EXCEPT
                !.store = seen,
                !.latest = IF seen.latest # acc.store.latest /\ v \in DOMAIN seen.latest
                             THEN Put(@, v, msg) ELSE @]

\* recent_vote_floor: the oldest slot kept after the block at slot s.
RecentVoteFloor(s) == Max({0, s - (SlotsPerEpoch - 1)})

\* Mutant: the horizon is two slots short.
PruneShort(recent, s) ==
    [v \in Validators |->
        Restrict(recent[v], {t \in DOMAIN recent[v] : t > RecentVoteFloor(s) + 1})]

\* prune_recent_votes.
Prune(recent, s) ==
    [v \in Validators |->
        Restrict(recent[v], {t \in DOMAIN recent[v] : t >= RecentVoteFloor(s)})]

\* accumulate_forkchoice, from the committed components of the pre-state.
AccumulateForkchoice(s, body) ==
    LET horizon == EpochOf(s) >= GateEpoch
        start == [latest |-> latest_messages,
                  barred |-> fc_equivocators,
                  recent |-> fc_recent_votes,
                  store  |-> [latest |-> latest_messages, equivocators |-> {}]]
        end == FoldOver(LAMBDA acc, att : Judge(acc, att, horizon), start, body)
        newly == end.store.equivocators
        recent == [v \in Validators |->
                      IF horizon /\ v \in newly THEN <<>> ELSE end.recent[v]]
    IN  [latest |-> Restrict(end.latest, DOMAIN end.latest \ newly),
         barred |-> end.barred \cup newly,
         recent |-> IF horizon THEN Prune(recent, s) ELSE recent]

Bodies(s, sat) ==
    LET includable == {a \in Votes : Admissible(s, sat, a)}
    IN  UNION {[1..n -> includable] : n \in 0..MaxBody}

\* A block at slot s carrying the body: epochs in between roll over empty.
ApplyBlock(s) ==
    /\ s > slot
    /\ \E sat \in IF EpochOf(s) = EpochOf(slot) THEN {seats}
                  ELSE [Validators -> Seats(EpochOf(s))] :
         /\ seats' = sat
         /\ \E body \in Bodies(s, sat) :
              LET post == AccumulateForkchoice(s, body) IN
              /\ latest_messages' = post.latest
              /\ fc_equivocators' = post.barred
              /\ fc_recent_votes' = post.recent
              /\ admitted' = admitted \cup Range(body)
    /\ slot' = s

VotesNext == \E s \in 1..MaxSlot : ApplyBlock(s)

VotesSpec == VotesInit /\ [][VotesNext]_committedVars

-----------------------------------------------------------------------------
(* Properties.                                                             *)

VotesOf(v) == {a \in admitted : a.validator = v}

\* The fold's state is typed; a barred validator keeps no message.
VotesTypeOK ==
    /\ slot \in 0..MaxSlot
    /\ seats \in [Validators -> Seats(EpochOf(slot))]
    /\ fc_equivocators \subseteq Validators
    /\ DOMAIN latest_messages \subseteq Validators \ fc_equivocators
    /\ \A v \in DOMAIN latest_messages :
          /\ latest_messages[v].slot \in 0..slot
          /\ latest_messages[v].root \in Heads
    /\ admitted \subseteq Votes

\* The barred set is a function of which votes the chain carried, not of the
\* order or the blocks they came in: a validator is barred exactly when two of
\* its admitted votes name one slot with two roots (accumulate_forkchoice's
\* stated invariant; params.rs gives the argument before the gate).
BarredExactly ==
    fc_equivocators =
        {v \in Validators : \E a, b \in VotesOf(v) : a.slot = b.slot /\ a.root # b.root}

\* So is the weight: a validator that is not barred weighs for its newest
\* admitted vote, and has a message once it has any.
LatestExactly ==
    \A v \in Validators \ fc_equivocators :
        IF VotesOf(v) = {}
          THEN v \notin DOMAIN latest_messages
          ELSE /\ v \in DOMAIN latest_messages
               /\ \E a \in VotesOf(v) :
                    /\ latest_messages[v] = [slot |-> a.slot, root |-> a.root]
                    /\ \A b \in VotesOf(v) : b.slot <= a.slot

\* What a chain commits to for fork choice is a function of the votes it carried.
FoldExact == VotesTypeOK /\ BarredExactly /\ LatestExactly
=============================================================================

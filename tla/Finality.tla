------------------------------- MODULE Finality -------------------------------
(***************************************************************************)
(* The fold step of the finality gadget.                                   *)
(*                                                                         *)
(* Source: crates/bloch-pos-committee/src/finality.rs.  ProcessEpoch is    *)
(* FinalityState::process_epoch as an operator from a state, a roster and  *)
(* the votes of one epoch to the next state; its parts follow the order of *)
(* the function body.  A map that has no entry for a validator has 0 for   *)
(* it (leaked stake, member stake) or -1 (last_seen).                      *)
(*                                                                         *)
(* The module has no variables: FinalityChain steps one state,             *)
(* FinalityNet one state per branch of a split network.                    *)
(***************************************************************************)
EXTENDS Integers, FiniteSets, FiniteSetsExt

CONSTANTS
    Validators,
    LeakThreshold,      \* INACTIVITY_LEAK_THRESHOLD_EPOCHS
    LeakQuotient,       \* inactivity_leak_quotient(epoch)
    RecoveryQuotient,   \* INACTIVITY_LEAK_RECOVERY_QUOTIENT
    FloorNum, FloorDen, \* MIN_QUORUM_DENOMINATOR_NUM / _DEN
    RecoveryFrom,       \* LEAK_RECOVERY_ACTIVATION_EPOCH
    FrozenFrom,         \* HF1_FROZEN_FINALITY_SET_EPOCH
    OwnFrom,            \* HF1_OWN_TARGET_VOTES_EPOCH
    PruneAfter,         \* NATIVE_FINALITY_SET_PRUNE_AFTER_EPOCHS
    ReformEpochs        \* NATIVE_FINALITY_SET_RECOVERY_EPOCHS

ASSUME FinalityConstants ==
    /\ IsFiniteSet(Validators)
    /\ LeakThreshold \in Nat /\ LeakQuotient \in Nat \ {0} /\ RecoveryQuotient \in Nat \ {0}
    /\ FloorNum \in Nat /\ FloorDen \in Nat \ {0}
    /\ RecoveryFrom \in Nat /\ FrozenFrom \in Nat /\ OwnFrom \in Nat
    /\ PruneAfter \in Nat \ {0} /\ ReformEpochs \subseteq Nat

\* A vote is [source |-> checkpoint, target |-> checkpoint]; slot and head of the
\* attestation only matter in that they make two votes differ.
Checkpoint(epoch, root) == [epoch |-> epoch, root |-> root]

NoSet == [present |-> FALSE]
Nobody == [v \in Validators |-> 0]

\* FinalityState::new
NewState(genesis) ==
    [justified |-> {genesis}, current_justified |-> genesis, finalized |-> genesis,
     leaked |-> Nobody, next_epoch |-> genesis.epoch + 1, set |-> NoSet, own |-> {}]

-----------------------------------------------------------------------------
\* Stake and the quorum denominator

StakeOf(amounts) == MapThenSumSet(LAMBDA v : amounts[v], Validators)
WeightOf(amounts, voters) == MapThenSumSet(LAMBDA v : amounts[v], voters)

Active(roster) == {v \in Validators : roster[v] > 0}

LeakAdjusted(st, roster) ==
    [v \in Validators |-> IF roster[v] > st.leaked[v] THEN roster[v] - st.leaked[v] ELSE 0]

Frozen(epoch) == epoch >= FrozenFrom

\* What a vote of each validator weighs, and the total two thirds of which justify.
VoteWeight(st, roster, epoch) ==
    IF Frozen(epoch) THEN st.set.current.members ELSE LeakAdjusted(st, roster)

\* Mutant: no floor under the leak-adjusted total.
DenominatorNoFloor(st, roster, epoch) ==
    IF Frozen(epoch) THEN StakeOf(st.set.current.members) ELSE StakeOf(LeakAdjusted(st, roster))

Denominator(st, roster, epoch) ==
    LET adjusted == StakeOf(LeakAdjusted(st, roster))
        floor    == (StakeOf(roster) * FloorNum) \div FloorDen
    IN  IF Frozen(epoch) THEN StakeOf(st.set.current.members)
        ELSE IF epoch < RecoveryFrom THEN adjusted
        ELSE IF adjusted >= floor THEN adjusted ELSE floor

-----------------------------------------------------------------------------
\* The frozen finality set

Snapshot(roster, epoch, last_seen) ==
    [epoch |-> epoch,
     members |-> [v \in Validators |->
         IF last_seen[v] = -1 \/ epoch - last_seen[v] < PruneAfter THEN roster[v] ELSE 0]]

NeverSeen == [v \in Validators |-> -1]
NoCandidate == [epoch |-> -1, members |-> Nobody]

OpenFinalitySet(st, roster, epoch) ==
    CASE ~st.set.present ->
           [st EXCEPT !.set = [present |-> TRUE, current |-> Snapshot(roster, epoch, NeverSeen),
                               pending |-> NoCandidate, last_seen |-> NeverSeen]]
      [] st.set.present /\ epoch \in ReformEpochs ->
           [st EXCEPT !.set = [present |-> TRUE, pending |-> NoCandidate,
                               current |-> Snapshot(roster, epoch, st.set.last_seen),
                               last_seen |-> st.set.last_seen]]
      [] OTHER -> st

\* Mutant: the candidate takes over at every boundary, finalized or not.
CloseFinalitySetEager(st, roster, epoch, finalized_now, present) ==
    LET set  == st.set
        seen == [v \in Validators |->
                   CASE v \notin Active(roster) -> -1
                     [] v \in present           -> epoch
                     [] set.last_seen[v] = -1   -> epoch
                     [] OTHER                   -> set.last_seen[v]]
    IN  [st EXCEPT !.set =
           [present |-> TRUE, current |-> IF set.pending = NoCandidate THEN set.current ELSE set.pending,
            pending |-> Snapshot(roster, epoch, seen), last_seen |-> seen]]

\* finalized_now is the checkpoint this epoch finalized, in a set of at most one
CloseFinalitySet(st, roster, epoch, finalized_now, present) ==
    LET set  == st.set
        seen == [v \in Validators |->
                   CASE v \notin Active(roster) -> -1
                     [] v \in present           -> epoch
                     [] set.last_seen[v] = -1   -> epoch
                     [] OTHER                   -> set.last_seen[v]]
    IN  [st EXCEPT !.set =
           [present   |-> TRUE,
            current   |-> IF \E f \in finalized_now : f.epoch = set.pending.epoch
                          THEN set.pending ELSE set.current,
            pending   |-> Snapshot(roster, epoch, seen),
            last_seen |-> seen]]

-----------------------------------------------------------------------------
\* Votes.  votes[v] is the set of different votes of v the chain included.

ForTarget(votes, v, epoch) == {d \in votes[v] : d.target.epoch = epoch}
Equivocators(roster, votes, epoch) ==
    {v \in Active(roster) : Cardinality(ForTarget(votes, v, epoch)) > 1}
Present(roster, votes, epoch) ==
    {v \in Active(roster) : Cardinality(ForTarget(votes, v, epoch)) = 1}
TheVote(votes, v, epoch) == CHOOSE d \in ForTarget(votes, v, epoch) : TRUE

OwnRule(epoch) == epoch >= OwnFrom
OwnRoots(st, epoch) == {c.root : c \in {c \in st.own : c.epoch = epoch}}

\* The vote links from the current justified checkpoint and, under the own-chain
\* rule, names only checkpoints of this chain.
IsValid(st, d, epoch) ==
    /\ d.source = st.current_justified
    /\ d.source.epoch < d.target.epoch
    /\ OwnRule(epoch) =>
         /\ d.target.root \in OwnRoots(st, epoch)
         /\ \A root \in OwnRoots(st, d.source.epoch) : root = d.source.root

ValidVoters(st, roster, votes, epoch) ==
    {v \in Present(roster, votes, epoch) : IsValid(st, TheVote(votes, v, epoch), epoch)}

\* Mutant: a source justified before the own-chain gate is trusted.
SourceIsOwnTrusted(st, epoch) == TRUE

SourceIsOwn(st, epoch) ==
    OwnRule(epoch) => st.current_justified.root \in OwnRoots(st, st.current_justified.epoch)

\* Mutant: an equivocator counts for both of its targets.
WinnersWithEquivocators(st, roster, votes, epoch) ==
    LET weight == VoteWeight(st, roster, epoch)
        total  == Denominator(st, roster, epoch)
        good(v) == {d \in ForTarget(votes, v, epoch) : IsValid(st, d, epoch)}
        backers(root) == {v \in Active(roster) : \E d \in good(v) : d.target.root = root}
    IN  {root \in {d.target.root : d \in UNION {good(v) : v \in Active(roster)}} :
            total > 0 /\ 3 * WeightOf(weight, backers(root)) >= 2 * total}

\* The target roots that reach two thirds
Winners(st, roster, votes, epoch) ==
    LET valid  == ValidVoters(st, roster, votes, epoch)
        weight == VoteWeight(st, roster, epoch)
        total  == Denominator(st, roster, epoch)
        tally(root) == WeightOf(weight, {v \in valid : TheVote(votes, v, epoch).target.root = root})
    IN  {root \in {TheVote(votes, v, epoch).target.root : v \in valid} :
            total > 0 /\ 3 * tally(root) >= 2 * total}

-----------------------------------------------------------------------------
\* Justify and finalize.  `winners` holds at most one root; see UniqueQuorum.

Justify(st, epoch, winners) ==
    IF winners = {} THEN st
    ELSE LET cp == Checkpoint(epoch, CHOOSE root \in winners : TRUE)
         IN  [st EXCEPT !.justified = {c \in @ : c.epoch # epoch} \cup {cp},
                        !.current_justified = IF epoch > @.epoch THEN cp ELSE @]

\* st is the state before the epoch: its current_justified is the link's source
FinalizedNow(st, epoch, winners) ==
    {c \in {st.current_justified} : /\ winners # {}
                                    /\ c.epoch + 1 = epoch
                                    /\ c.epoch > st.finalized.epoch
                                    /\ SourceIsOwn(st, epoch)}

Finalize(st, finalized_now) ==
    [st EXCEPT !.finalized = IF finalized_now = {} THEN @
                             ELSE CHOOSE c \in finalized_now : TRUE]

-----------------------------------------------------------------------------
\* The inactivity leak and its recovery

Leaking(st, epoch) == epoch - st.finalized.epoch > LeakThreshold

Bite(remaining, t) ==
    LET bite == (remaining * t) \div LeakQuotient
        least == IF bite >= 1 THEN bite ELSE 1
    IN  IF least <= remaining THEN least ELSE remaining

\* `stake` is the leak-adjusted stake the votes were weighed with
Charged(stake, roster, valid, leaking) ==
    IF leaking THEN {v \in Active(roster) : v \notin valid /\ stake[v] > 0} ELSE {}

Leak(st, stake, epoch, charged) ==
    LET t == epoch - st.finalized.epoch - LeakThreshold
    IN  [st EXCEPT !.leaked = [v \in Validators |->
            IF v \in charged THEN @[v] + Bite(stake[v], t) ELSE @[v]]]

Back(leaked) ==
    LET back == leaked \div RecoveryQuotient
        least == IF back >= 1 THEN back ELSE 1
    IN  IF least <= leaked THEN least ELSE leaked

\* Mutant: only a finalizing chain recovers.
CreditedWhenFinal(st, roster, valid, leaking, epoch) ==
    IF epoch < RecoveryFrom \/ leaking THEN {} ELSE {v \in Active(roster) : st.leaked[v] > 0}
Credited(st, roster, valid, leaking, epoch) ==
    IF epoch < RecoveryFrom THEN {}
    ELSE {v \in Active(roster) : st.leaked[v] > 0 /\ ~(leaking /\ v \notin valid)}

Recover(st, credited) ==
    [st EXCEPT !.leaked = [v \in Validators |->
        IF v \in credited THEN @[v] - Back(@[v]) ELSE @[v]]]

-----------------------------------------------------------------------------
\* process_epoch, for the epoch the state expects next, in its five parts: open the set,
\* weigh the votes, decide, leak, credit

Credit(st, roster, valid, leaking, epoch) ==
    Recover(st, Credited(st, roster, valid, leaking, epoch))

Adjust(st, stake, roster, valid, epoch) ==
    Credit(Leak(st, stake, epoch, Charged(stake, roster, valid, Leaking(st, epoch))),
           roster, valid, Leaking(st, epoch), epoch)

Decide(st, roster, epoch, winners, finalized_now, present) ==
    LET voted == Finalize(Justify(st, epoch, winners), finalized_now)
    IN  IF Frozen(epoch) THEN CloseFinalitySet(voted, roster, epoch, finalized_now, present)
        ELSE voted

Settle(st, roster, epoch, valid, winners, present) ==
    Adjust(Decide(st, roster, epoch, winners, FinalizedNow(st, epoch, winners), present),
           LeakAdjusted(st, roster), roster, valid, epoch)

Count(st, roster, votes, epoch) ==
    Settle(st, roster, epoch, ValidVoters(st, roster, votes, epoch),
           Winners(st, roster, votes, epoch), Present(roster, votes, epoch))

Opened(st, roster, epoch) ==
    IF Frozen(epoch) THEN OpenFinalitySet(st, roster, epoch) ELSE st

ProcessEpoch(st, roster, votes) ==
    Count(Opened([st EXCEPT !.next_epoch = @ + 1], roster, st.next_epoch),
          roster, votes, st.next_epoch)

\* record_own_checkpoint, called by close_epoch for the epoch it opens
RecordOwn(st, epoch, root) ==
    IF ~OwnRule(epoch) THEN st
    ELSE [st EXCEPT !.own =
            {c \in {d \in @ : d.epoch # epoch} \cup {Checkpoint(epoch, root)} :
                c.epoch = epoch \/ c.epoch = st.current_justified.epoch}]
=============================================================================

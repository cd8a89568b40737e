---------------------------- MODULE FinalityChain ----------------------------
(***************************************************************************)
(* One chain's finality state over its epochs.                             *)
(*                                                                         *)
(* Source: crates/bloch-pos-committee/src/finality.rs, driven as           *)
(* transition.rs close_epoch drives it: the votes the chain included are   *)
(* tallied, then the chain's own checkpoint of the epoch being opened is   *)
(* recorded.  The roster of an epoch and the votes that reach the chain    *)
(* are arbitrary: validators may be silent, stale, on another chain, or    *)
(* equivocate.                                                             *)
(***************************************************************************)
EXTENDS Finality

CONSTANTS
    OwnRoot,     \* root of this chain's checkpoint of every epoch after genesis
    OtherRoot,   \* root of another chain's checkpoint
    Rosters,     \* effective stakes the duty roster may have in an epoch
    Misvotes,    \* how a vote may be wrong: "other", "stale", "double"
    MaxEpoch     \* bound on the epochs closed

ASSUME ChainConstants ==
    /\ OwnRoot # OtherRoot /\ MaxEpoch \in Nat
    /\ Misvotes \subseteq {"other", "stale", "double"}
    /\ Rosters \subseteq [Validators -> Nat] /\ Rosters # {}

VARIABLES
    st,      \* FinalityState
    last,    \* what the last epoch justified, and the stake behind it
    full     \* epochs in a row in which the whole roster cast its one right vote

vars == <<st, last, full>>

Genesis == Checkpoint(0, OwnRoot)
Idle == [winners |-> {}, backing |-> 0, staked |-> 0]

Init == st = RecordOwn(NewState(Genesis), 1, OwnRoot) /\ last = Idle /\ full = 0

\* The votes a validator may have on the chain: its right vote, one for another
\* chain's checkpoint, one from a stale source, or two different ones.
RightVote == [source |-> st.current_justified, target |-> Checkpoint(st.next_epoch, OwnRoot)]
OtherVote == [source |-> st.current_justified, target |-> Checkpoint(st.next_epoch, OtherRoot)]
StaleVote == [source |-> Genesis, target |-> Checkpoint(st.next_epoch, OwnRoot)]
Ballots == {{}, {RightVote}} \cup {CASE m = "other"  -> {OtherVote}
                                     [] m = "stale"  -> {StaleVote}
                                     [] m = "double" -> {RightVote, OtherVote} : m \in Misvotes}

\* The parts of process_epoch the properties speak of, recomputed from its input
Observed(roster, votes) ==
    LET epoch   == st.next_epoch
        opened  == IF Frozen(epoch) THEN OpenFinalitySet(st, roster, epoch) ELSE st
        valid   == ValidVoters(opened, roster, votes, epoch)
        winners == Winners(opened, roster, votes, epoch)
    IN  [winners |-> winners,
         backing |-> WeightOf(roster, {v \in valid : TheVote(votes, v, epoch).target.root \in winners}),
         staked  |-> StakeOf(roster)]

\* close_epoch: tally, then record the own checkpoint of the epoch that opens
CloseEpoch(roster, votes) ==
    /\ st.next_epoch <= MaxEpoch
    /\ last' = Observed(roster, votes)
    /\ st' = LET done == ProcessEpoch(st, roster, votes)
             IN  RecordOwn(done, done.next_epoch, OwnRoot)
    /\ full' = IF \A v \in Active(roster) : votes[v] = {RightVote} THEN full + 1 ELSE 0

Next == \E roster \in Rosters, votes \in [Validators -> Ballots] : CloseEpoch(roster, votes)

Spec == Init /\ [][Next]_vars

-----------------------------------------------------------------------------
\* Whatever the votes, the leak and the set in force, at most one root of an epoch
\* reaches two thirds ("Two roots both reaching 2/3 is arithmetically impossible",
\* process_epoch), so which one the loop meets first cannot matter.
UniqueQuorum == Cardinality(last.winners) <= 1

\* With the denominator floor in force no set below a third of the unleaked stake
\* justifies, however long the others are absent and however much they leaked
\* ("the smallest set the leak can ever rescue is a third of the original stake";
\* the floor is rounded down, hence the unit).
ThirdBacksQuorum ==
    st.next_epoch > RecoveryFrom /\ ~Frozen(st.next_epoch - 1) /\ last.winners # {}
        => 3 * last.backing + 1 >= last.staked

\* The most one validator can have leaked, and so the epochs of full participation
\* after which the ledger cannot hold the quorum below the floor any more.
MaxStake == Max({r[v] : r \in Rosters, v \in Validators})

\* A chain on which the whole roster votes again finalizes again, however deep the
\* leak went before: recovery "has to be able to fire DURING a stall or it cannot
\* end one" (process_epoch, leak recovery).
FullParticipationFinalizes ==
    full >= MaxStake + 2 /\ st.next_epoch > RecoveryFrom
        => st.finalized.epoch + 2 >= st.next_epoch

\* Nor does it finalize one of another chain that was justified before the gate
\* (source_is_own in process_epoch).
OwnFinalityAdvances ==
    [][st'.finalized # st.finalized /\ OwnRule(st.next_epoch) => st'.finalized.root = OwnRoot]_vars

\* The frozen set in force was snapshotted at the finalized checkpoint, or at the
\* gate or a recovery epoch later than it: every finalization hands off, nothing
\* else does ("the only automatic way `current` changes", close_finality_set).
SetFollowsFinality ==
    st.set.present =>
      \/ st.set.current.epoch = st.finalized.epoch
      \/ /\ st.set.current.epoch > st.finalized.epoch
         /\ st.set.current.epoch \in ReformEpochs \cup {FrozenFrom, 1}
=============================================================================

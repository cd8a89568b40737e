----------------------------- MODULE FinalityNet -----------------------------
(***************************************************************************)
(* A split network: one finality state per branch, one set of voters.      *)
(*                                                                         *)
(* Source: crates/bloch-pos-committee/src/finality.rs, folded on each      *)
(* branch as transition.rs close_epoch does, with voters as in the node's  *)
(* attest_for: a vote names the justified checkpoint and the epoch         *)
(* checkpoint of the branch the voter follows, and passes the guard of     *)
(* slashprot.rs (one vote per epoch, the source epoch never goes back).    *)
(*                                                                         *)
(* The branches part during epoch ForkEpoch - 1.  From then on voters move *)
(* between branches as they please, votes may be lost or reach the other   *)
(* branch, and faulty voters (a key signing on two hosts, with no guard in *)
(* common) vote on every branch at once.                                   *)
(***************************************************************************)
EXTENDS Finality

CONSTANTS
    Faulty,       \* validators whose votes no guard restrains
    Branches,
    Common,       \* root of every checkpoint before the fork
    ForkEpoch,    \* first epoch whose checkpoint differs between branches
    Roster,       \* effective stakes, the same in every epoch
    Lossy,        \* a vote may reach no block
    ForeignVotes, \* a branch may include votes cast for another branch
    MaxEpoch

\* What an instance assumes of its constants
NetConstants ==
    /\ Faulty \subseteq Validators /\ Common \notin Branches
    /\ ForkEpoch \in Nat \ {0} /\ MaxEpoch \in Nat
    /\ Roster \in [Validators -> Nat] /\ {Lossy, ForeignVotes} \subseteq BOOLEAN

VARIABLES
    st,      \* FinalityState of each branch
    epoch,   \* the epoch of the wall clock
    ballot,  \* the vote each honest validator cast this epoch, if any
    mark     \* source_epoch of each honest validator's signing record

vars == <<st, epoch, ballot, mark>>
Correct == Validators \ Faulty

Root(b, e) == IF e < ForkEpoch THEN Common ELSE b
Genesis == Checkpoint(0, Common)
NoBallot == [v \in Correct |-> {}]

Init ==
    /\ st = [b \in Branches |-> RecordOwn(NewState(Genesis), 1, Root(b, 1))]
    /\ epoch = 1
    /\ ballot = NoBallot
    /\ mark = [v \in Correct |-> 0]

-----------------------------------------------------------------------------
Open(b) == st[b].next_epoch = epoch

VoteOn(b) == [source |-> st[b].current_justified, target |-> Checkpoint(epoch, Root(b, epoch))]

\* Mutant: the signing record does not hold the source back.
VoteAnySource(v, b) ==
    /\ epoch <= MaxEpoch /\ ballot[v] = {}
    /\ \A c \in Branches : Open(c)
    /\ ballot' = [ballot EXCEPT ![v] = {VoteOn(b)}]
    /\ mark' = [mark EXCEPT ![v] = st[b].current_justified.epoch]
    /\ UNCHANGED <<st, epoch>>

\* attest_for under guard_attestation: one target per epoch, no earlier source
Vote(v, b) ==
    /\ epoch <= MaxEpoch /\ ballot[v] = {}
    /\ \A c \in Branches : Open(c)
    /\ st[b].current_justified.epoch >= mark[v]
    /\ ballot' = [ballot EXCEPT ![v] = {VoteOn(b)}]
    /\ mark' = [mark EXCEPT ![v] = st[b].current_justified.epoch]
    /\ UNCHANGED <<st, epoch>>

\* The votes branch b includes when `got` of the honest votes reach it and the
\* faulty voters `also` vote there.
Included(b, got, also) ==
    [v \in Validators |-> IF v \in got THEN ballot[v]
                          ELSE IF v \in also THEN {VoteOn(b)} ELSE {}]

\* The sets of honest voters whose votes the blocks of branch b may include
Deliveries(b) ==
    LET reach == {v \in Correct : /\ ballot[v] # {}
                                  /\ ForeignVotes \/ ballot[v] = {VoteOn(b)}}
    IN  IF Lossy THEN SUBSET reach ELSE {reach}

Fold(b, got, also) ==
    LET done == ProcessEpoch(st[b], Roster, Included(b, got, also))
    IN  RecordOwn(done, done.next_epoch, Root(b, done.next_epoch))

\* The clock moves on once every branch has closed the epoch; its votes are void.
Tick(last) ==
    /\ epoch' = IF last THEN epoch + 1 ELSE epoch
    /\ ballot' = IF last THEN NoBallot ELSE ballot

\* close_epoch on one branch of the split
CloseEpoch(b, got, also) ==
    /\ ForkEpoch <= epoch + 1 /\ epoch <= MaxEpoch
    /\ Open(b)
    /\ st' = [st EXCEPT ![b] = Fold(b, got, also)]
    /\ Tick(\A c \in Branches \ {b} : ~Open(c))
    /\ UNCHANGED mark

\* close_epoch before the fork: every branch folds the same votes
CloseCommon(got, also) ==
    /\ epoch + 1 < ForkEpoch /\ epoch <= MaxEpoch
    /\ st' = [b \in Branches |-> Fold(b, got, also)]
    /\ Tick(TRUE)
    /\ UNCHANGED mark

CloseOne == \E b \in Branches, also \in SUBSET Faulty : \E got \in Deliveries(b) :
              CloseEpoch(b, got, also)
CloseAll == \E b \in Branches, also \in SUBSET Faulty : \E got \in Deliveries(b) :
              CloseCommon(got, also)

Next ==
    \/ \E v \in Correct, b \in Branches : Vote(v, b)
    \/ CloseOne
    \/ CloseAll

Spec == Init /\ [][Next]_vars

-----------------------------------------------------------------------------
Compatible(c, d) == c.root = d.root \/ c.root = Common \/ d.root = Common

\* No two branches finalize checkpoints of different histories, although honest
\* voters change sides and faulty ones vote on both.  "Two disjoint sides would
\* each need two thirds of one fixed total, so at most one side of any split can
\* justify (hence finalize)" (params::HF1_FROZEN_FINALITY_SET_EPOCH).
Agreement ==
    \A b, c \in Branches : Compatible(st[b].finalized, st[c].finalized)
=============================================================================

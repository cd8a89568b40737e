------------------------- MODULE FinalityChainProofs -------------------------
(***************************************************************************)
(* What FinalityChain promises, for every registry, every roster, every    *)
(* gate epoch and every choice of votes.                                   *)
(***************************************************************************)
EXTENDS FinalityChain, StakeSums

\* A leaf goes to the SMT solver unless it names another prover.
USE SMTT(60), Z3T(60)

Amounts == [Validators -> Nat]

-----------------------------------------------------------------------------
\* Sums of stake

LEMMA WeightIsSum ==
    ASSUME NEW amounts, NEW A
    PROVE  WeightOf(amounts, A) = SumOver(amounts, A) /\ StakeOf(amounts) = SumOver(amounts, Validators)
  BY DEF WeightOf, StakeOf, SumOver

\* A part of the validators weighs no more than all of them.
LEMMA WeightBounded ==
    ASSUME NEW amounts \in Amounts, NEW A \in SUBSET Validators
    PROVE  /\ WeightOf(amounts, A) \in Nat
           /\ StakeOf(amounts) \in Nat
           /\ WeightOf(amounts, A) <= StakeOf(amounts)
<1>1. IsFiniteSet(Validators) /\ IsFiniteSet(A) /\ \A v \in Validators : amounts[v] \in Nat
  BY FinalityConstants, FS_Subset DEF Amounts
<1>2. /\ SumOver(amounts, A) \in Nat /\ SumOver(amounts, Validators) \in Nat
      /\ SumOver(amounts, A) <= SumOver(amounts, Validators)
  BY <1>1, SumType, SumSubset
<1> QED
  BY <1>2, WeightIsSum

\* Two disjoint parts weigh no more than all of them.
LEMMA DisjointWeights ==
    ASSUME NEW amounts \in Amounts, NEW A \in SUBSET Validators, NEW B \in SUBSET Validators,
           A \cap B = {}
    PROVE  WeightOf(amounts, A) + WeightOf(amounts, B) <= StakeOf(amounts)
<1>1. IsFiniteSet(A) /\ IsFiniteSet(B) /\ \A v \in A \cup B : amounts[v] \in Nat
  BY FinalityConstants, FS_Subset DEF Amounts
<1>2. SumOver(amounts, A \cup B) = SumOver(amounts, A) + SumOver(amounts, B)
  BY <1>1, SumSplit
<1>3. WeightOf(amounts, A \cup B) <= StakeOf(amounts)
  BY WeightBounded
<1> QED
  BY <1>2, <1>3, WeightIsSum

LEMMA LeakAdjustedType ==
    ASSUME NEW s, s.leaked \in Amounts, NEW roster \in Amounts
    PROVE  /\ LeakAdjusted(s, roster) \in Amounts
           /\ \A v \in Validators : LeakAdjusted(s, roster)[v] <= roster[v]
  BY DEF LeakAdjusted, Amounts

\* Every vote counted weighs into the denominator.
LEMMA DenominatorCovers ==
    ASSUME NEW s, s.leaked \in Amounts, NEW roster \in Amounts, NEW epoch \in Nat,
           Frozen(epoch) => s.set.current.members \in Amounts
    PROVE  /\ VoteWeight(s, roster, epoch) \in Amounts
           /\ Denominator(s, roster, epoch) \in Nat
           /\ StakeOf(VoteWeight(s, roster, epoch)) <= Denominator(s, roster, epoch)
<1>1. CASE Frozen(epoch)
  <2>1. StakeOf(s.set.current.members) \in Nat
    BY <1>1, WeightBounded
  <2> QED
    BY <1>1, <2>1 DEF VoteWeight, Denominator
<1>2. CASE ~Frozen(epoch)
  <2>1. LeakAdjusted(s, roster) \in Amounts
    BY LeakAdjustedType
  <2>2. StakeOf(LeakAdjusted(s, roster)) \in Nat /\ StakeOf(roster) \in Nat
    BY <2>1, WeightBounded
  <2>3. (StakeOf(roster) * FloorNum) \div FloorDen \in Nat
    BY <2>2, FinalityConstants
  <2> QED
    BY <1>2, <2>1, <2>2, <2>3 DEF VoteWeight, Denominator
<1> QED
  BY <1>1, <1>2

\* The voters behind one target root
Backers(s, roster, votes, epoch, root) ==
    {v \in ValidVoters(s, roster, votes, epoch) : TheVote(votes, v, epoch).target.root = root}

LEMMA WinnerBacked ==
    ASSUME NEW s, NEW roster, NEW votes, NEW epoch, NEW root \in Winners(s, roster, votes, epoch)
    PROVE  /\ Denominator(s, roster, epoch) > 0
           /\ 3 * WeightOf(VoteWeight(s, roster, epoch), Backers(s, roster, votes, epoch, root))
                >= 2 * Denominator(s, roster, epoch)
           /\ Backers(s, roster, votes, epoch, root) \in SUBSET Validators
           /\ \E v \in ValidVoters(s, roster, votes, epoch) :
                  root = TheVote(votes, v, epoch).target.root
  BY DEF Winners, Backers, ValidVoters, Present, Active

\* Two roots cannot both have two thirds: their voters are different validators.
LEMMA OneWinner ==
    ASSUME NEW s, s.leaked \in Amounts, NEW roster \in Amounts, NEW votes, NEW epoch \in Nat,
           Frozen(epoch) => s.set.current.members \in Amounts
    PROVE  Cardinality(Winners(s, roster, votes, epoch)) <= 1
<1> DEFINE W == Winners(s, roster, votes, epoch)
           w == VoteWeight(s, roster, epoch)
           D == Denominator(s, roster, epoch)
<1>1. \A p, q \in W : p = q
  <2>1. SUFFICES ASSUME NEW p \in W, NEW q \in W, p # q
                 PROVE  FALSE
    OBVIOUS
  <2> DEFINE A == Backers(s, roster, votes, epoch, p)
             B == Backers(s, roster, votes, epoch, q)
  <2>2. /\ D > 0 /\ 3 * WeightOf(w, A) >= 2 * D /\ 3 * WeightOf(w, B) >= 2 * D
        /\ A \in SUBSET Validators /\ B \in SUBSET Validators
    BY WinnerBacked
  <2>3. A \cap B = {}
    BY <2>1 DEF Backers
  <2>4. w \in Amounts /\ D \in Nat /\ StakeOf(w) <= D
    BY DenominatorCovers
  <2> HIDE DEF A, B, w, D
  <2>5. WeightOf(w, A) + WeightOf(w, B) <= StakeOf(w)
    BY <2>2, <2>3, <2>4, DisjointWeights
  <2>6. WeightOf(w, A) \in Nat /\ WeightOf(w, B) \in Nat /\ StakeOf(w) \in Nat
    BY <2>2, <2>4, WeightBounded
  <2> QED
    BY <2>2, <2>4, <2>5, <2>6
<1> HIDE DEF W
<1>2. CASE W = {}
  BY <1>2, FS_EmptySet DEF W
<1>3. CASE W # {}
  <2>1. PICK p : W = {p}
    BY <1>1, <1>3
  <2> QED
    BY <2>1, FS_Singleton DEF W
<1> QED
  BY <1>2, <1>3

-----------------------------------------------------------------------------
\* The types of the state

Checkpoints == [epoch : Nat, root : {OwnRoot, OtherRoot}]
Snapshots == [epoch : Int, members : Amounts]
Sets == [present : {TRUE}, current : Snapshots, pending : Snapshots,
         last_seen : [Validators -> Int]]
States == [justified : SUBSET Checkpoints, current_justified : Checkpoints,
           finalized : Checkpoints, leaked : Amounts, next_epoch : Nat \ {0},
           set : {NoSet} \cup Sets, own : SUBSET Checkpoints]

\* The decision of an epoch leaves these alone.
SameFold(s, t) == s.next_epoch = t.next_epoch /\ s.own = t.own /\ s.leaked = t.leaked

LEMMA SnapshotType ==
    ASSUME NEW roster \in Amounts, NEW epoch \in Nat, NEW seen \in [Validators -> Int]
    PROVE  Snapshot(roster, epoch, seen) \in Snapshots /\ Snapshot(roster, epoch, seen).epoch = epoch
  BY DEF Snapshot, Snapshots, Amounts

LEMMA NeverSeenType == NeverSeen \in [Validators -> Int] /\ NoCandidate \in Snapshots
  BY DEF NeverSeen, NoCandidate, Snapshots, Amounts, Nobody

LEMMA SetPresent == ASSUME NEW set \in {NoSet} \cup Sets PROVE set.present <=> set \in Sets
<1>1. NoSet.present = FALSE
  BY DEF NoSet
<1>2. \A t \in Sets : t.present = TRUE
  BY ZenonT(60) DEF Sets
<1> QED
  BY <1>1, <1>2, ZenonT(60)

\* open_finality_set changes nothing but the set, and leaves one.
LEMMA OpenedFacts ==
    ASSUME NEW s \in States, NEW roster \in Amounts, NEW epoch \in Nat, NEW o,
           o = Opened(s, roster, epoch)
    PROVE  /\ o \in States
           /\ SameFold(o, s) /\ o.finalized = s.finalized
           /\ o.current_justified = s.current_justified
           /\ Frozen(epoch) => o.set \in Sets
           /\ ~Frozen(epoch) => o.set = s.set
           /\ Frozen(epoch) /\ ~s.set.present =>
                o.set.current.epoch = epoch /\ o.set.pending.epoch = -1
           /\ Frozen(epoch) /\ s.set.present /\ epoch \in ReformEpochs =>
                o.set.current.epoch = epoch /\ o.set.pending.epoch = -1
           /\ Frozen(epoch) /\ s.set.present /\ epoch \notin ReformEpochs => o.set = s.set
<1>1. s.set.present => s.set \in Sets
  BY SetPresent DEF States
<1>2. CASE ~Frozen(epoch)
  BY <1>2 DEF Opened, States, SameFold
<1>3. CASE Frozen(epoch) /\ ~s.set.present
  <2> DEFINE new == [present |-> TRUE, current |-> Snapshot(roster, epoch, NeverSeen),
                     pending |-> NoCandidate, last_seen |-> NeverSeen]
  <2>1. o = [s EXCEPT !.set = new]
    BY <1>3 DEF Opened, OpenFinalitySet
  <2>2. new \in Sets /\ new.current.epoch = epoch /\ new.pending.epoch = -1
    BY SnapshotType, NeverSeenType DEF Sets, NoCandidate
  <2> HIDE DEF new
  <2> QED
    BY <1>3, <2>1, <2>2 DEF States, SameFold
<1>4. CASE Frozen(epoch) /\ s.set.present /\ epoch \in ReformEpochs
  <2> DEFINE new == [present |-> TRUE, pending |-> NoCandidate,
                     current |-> Snapshot(roster, epoch, s.set.last_seen),
                     last_seen |-> s.set.last_seen]
  <2>1. o = [s EXCEPT !.set = new]
    BY <1>4 DEF Opened, OpenFinalitySet
  <2>2. new \in Sets /\ new.current.epoch = epoch /\ new.pending.epoch = -1
    <3>1. s.set \in Sets /\ s.set.last_seen \in [Validators -> Int]
      BY <1>1, <1>4, ZenonT(60) DEF Sets
    <3>2. /\ Snapshot(roster, epoch, s.set.last_seen) \in Snapshots
          /\ Snapshot(roster, epoch, s.set.last_seen).epoch = epoch
      BY <3>1, SnapshotType
    <3> QED
      BY <3>1, <3>2, NeverSeenType DEF Sets, NoCandidate
  <2> HIDE DEF new
  <2> QED
    BY <1>4, <2>1, <2>2 DEF States, SameFold
<1>5. CASE Frozen(epoch) /\ s.set.present /\ epoch \notin ReformEpochs
  <2>1. o = s
    BY <1>5 DEF Opened, OpenFinalitySet
  <2> QED
    BY <1>1, <1>5, <2>1 DEF States, SameFold
<1> QED
  BY <1>2, <1>3, <1>4, <1>5

-----------------------------------------------------------------------------
\* Justification and finalization

TargetRoots == {OwnRoot, OtherRoot}

\* A winner of the epoch, which is after the source, is the new justified checkpoint.
LEMMA JustifyFacts ==
    ASSUME NEW s \in States, NEW epoch \in Nat, s.current_justified.epoch < epoch,
           NEW winners \in SUBSET TargetRoots, NEW j, j = Justify(s, epoch, winners)
    PROVE  /\ j \in States
           /\ SameFold(j, s) /\ j.finalized = s.finalized /\ j.set = s.set
           /\ winners = {} => j.current_justified = s.current_justified
           /\ winners # {} => j.current_justified.epoch = epoch
<1>1. CASE winners = {}
  BY <1>1 DEF Justify, States, SameFold
<1>2. CASE winners # {}
  <2> DEFINE cp == Checkpoint(epoch, CHOOSE root \in winners : TRUE)
  <2>1. cp \in Checkpoints /\ cp.epoch = epoch
    BY <1>2 DEF Checkpoint, Checkpoints, TargetRoots
  <2>2. j = [s EXCEPT !.justified = {c \in @ : c.epoch # epoch} \cup {cp},
                      !.current_justified = cp]
    BY <1>2 DEF Justify, States, Checkpoints
  <2> HIDE DEF cp
  <2> QED
    BY <1>2, <2>1, <2>2, ZenonT(60) DEF States, SameFold
<1> QED
  BY <1>1, <1>2

\* What an epoch finalizes is its source, of the epoch before, with a winner.
LEMMA FinalizedNowFacts ==
    ASSUME NEW s, NEW epoch, NEW winners
    PROVE  \/ FinalizedNow(s, epoch, winners) = {}
           \/ /\ FinalizedNow(s, epoch, winners) = {s.current_justified}
              /\ winners # {} /\ s.current_justified.epoch + 1 = epoch
              /\ s.current_justified.epoch > s.finalized.epoch
              /\ SourceIsOwn(s, epoch)
  BY DEF FinalizedNow

\* close_finality_set changes nothing but the set, and hands off with finality only.
LEMMA CloseFacts ==
    ASSUME NEW s \in States, s.set \in Sets, NEW roster \in Amounts, NEW epoch \in Nat,
           NEW f, NEW present, NEW d, d = CloseFinalitySet(s, roster, epoch, f, present)
    PROVE  /\ d \in States
           /\ SameFold(d, s) /\ d.finalized = s.finalized
           /\ d.current_justified = s.current_justified
           /\ d.set \in Sets
           /\ d.set.pending.epoch = epoch
           /\ d.set.current = IF \E c \in f : c.epoch = s.set.pending.epoch
                              THEN s.set.pending ELSE s.set.current
<1> DEFINE seen == [v \in Validators |->
                      CASE v \notin Active(roster)    -> -1
                        [] v \in present              -> epoch
                        [] s.set.last_seen[v] = -1    -> epoch
                        [] OTHER                      -> s.set.last_seen[v]]
           current == IF \E c \in f : c.epoch = s.set.pending.epoch
                      THEN s.set.pending ELSE s.set.current
           new == [present |-> TRUE, current |-> current,
                   pending |-> Snapshot(roster, epoch, seen), last_seen |-> seen]
<1>1. d = [s EXCEPT !.set = new]
  BY DEF CloseFinalitySet
<1>2. seen \in [Validators -> Int]
  <2>1. \A v \in Validators : s.set.last_seen[v] \in Int
    BY ZenonT(60) DEF Sets
  <2> QED
    BY <2>1
<1> HIDE DEF seen
<1>3. current \in Snapshots
  BY ZenonT(60) DEF Sets
<1> HIDE DEF current
<1>4. Snapshot(roster, epoch, seen) \in Snapshots /\ Snapshot(roster, epoch, seen).epoch = epoch
  BY <1>2, SnapshotType
<1>5. new \in Sets /\ new.pending.epoch = epoch /\ new.current = current
  BY <1>2, <1>3, <1>4 DEF Sets
<1> HIDE DEF new
<1> QED
  BY <1>1, <1>5 DEF States, current, SameFold

\* The decision of an epoch on an opened state
LEMMA DecideFacts ==
    ASSUME NEW s \in States, NEW roster \in Amounts, NEW epoch \in Nat,
           s.current_justified.epoch < epoch, Frozen(epoch) => s.set \in Sets,
           NEW winners \in SUBSET TargetRoots, NEW present,
           NEW f, f = FinalizedNow(s, epoch, winners),
           NEW d, d = Decide(s, roster, epoch, winners, f, present)
    PROVE  /\ d \in States
           /\ SameFold(d, s)
           /\ winners = {} => d.current_justified = s.current_justified
           /\ winners # {} => d.current_justified.epoch = epoch
           /\ d.finalized = IF f = {} THEN s.finalized ELSE s.current_justified
           /\ ~Frozen(epoch) => d.set = s.set
           /\ Frozen(epoch) =>
                /\ d.set \in Sets
                /\ d.set.pending.epoch = epoch
                /\ d.set.current = IF \E c \in f : c.epoch = s.set.pending.epoch
                                   THEN s.set.pending ELSE s.set.current
<1> DEFINE j == Justify(s, epoch, winners)
           voted == Finalize(j, f)
<1>0. j = Justify(s, epoch, winners)
  OBVIOUS
<1> HIDE DEF j
<1>1. /\ j \in States
      /\ SameFold(j, s) /\ j.finalized = s.finalized /\ j.set = s.set
      /\ winners = {} => j.current_justified = s.current_justified
      /\ winners # {} => j.current_justified.epoch = epoch
  BY <1>0, JustifyFacts
<1>2. f = {} \/ f = {s.current_justified}
  BY FinalizedNowFacts
<1>3. /\ voted \in States /\ SameFold(voted, s) /\ voted.set = s.set
      /\ voted.current_justified = j.current_justified
      /\ voted.finalized = IF f = {} THEN s.finalized ELSE s.current_justified
  <2>1. CASE f = {}
    BY <1>1, <2>1 DEF Finalize, States, SameFold
  <2>2. CASE f = {s.current_justified}
    <3>1. (CHOOSE c \in f : TRUE) = s.current_justified
      BY <2>2
    <3> QED
      BY <1>1, <2>2, <3>1 DEF Finalize, States, SameFold
  <2> QED
    BY <1>2, <2>1, <2>2
<1>4. d = IF Frozen(epoch) THEN CloseFinalitySet(voted, roster, epoch, f, present) ELSE voted
  BY DEF Decide, j
<1> HIDE DEF voted
<1>5. CASE ~Frozen(epoch)
  BY <1>1, <1>3, <1>4, <1>5
<1>6. CASE Frozen(epoch)
  <2>1. /\ d \in States /\ SameFold(d, voted) /\ d.finalized = voted.finalized
        /\ d.current_justified = voted.current_justified
        /\ d.set \in Sets /\ d.set.pending.epoch = epoch
        /\ d.set.current = IF \E c \in f : c.epoch = voted.set.pending.epoch
                           THEN voted.set.pending ELSE voted.set.current
    <3>1. voted.set \in Sets /\ d = CloseFinalitySet(voted, roster, epoch, f, present)
      BY <1>3, <1>4, <1>6
    <3> QED
      BY <1>3, <3>1, CloseFacts
  <2>2. d.set.current = IF \E c \in f : c.epoch = s.set.pending.epoch
                        THEN s.set.pending ELSE s.set.current
    BY <1>3, <2>1
  <2> QED
    BY <1>1, <1>3, <1>6, <2>1, <2>2 DEF SameFold
<1> QED
  BY <1>5, <1>6

-----------------------------------------------------------------------------
\* The leak and its recovery

LEMMA QuotientType ==
    ASSUME NEW n \in Nat, NEW t \in Nat, NEW q \in Nat \ {0}
    PROVE  (n * t) \div q \in Nat /\ n \div q \in Nat
<1>1. n * t \in Nat
  OBVIOUS
<1>2. \A m \in Nat : m \div q \in Nat
  OBVIOUS
<1> QED
  BY <1>1, <1>2

\* What is charged is a part of what remains, what is credited a part of what leaked.
LEMMA BiteBounded ==
    ASSUME NEW remaining \in Nat, NEW t \in Nat
    PROVE  Bite(remaining, t) \in Nat /\ Bite(remaining, t) <= remaining
  BY QuotientType, FinalityConstants DEF Bite

LEMMA BackBounded ==
    ASSUME NEW leaked \in Nat
    PROVE  Back(leaked) \in Nat /\ Back(leaked) <= leaked
  BY QuotientType, FinalityConstants DEF Back

\* The leak changes nothing but the ledger of leaked stake.
LEMMA AdjustFacts ==
    ASSUME NEW s \in States, NEW stake \in Amounts, NEW roster, NEW valid, NEW epoch \in Nat,
           NEW a, a = Adjust(s, stake, roster, valid, epoch)
    PROVE  /\ a \in States
           /\ a.next_epoch = s.next_epoch /\ a.own = s.own /\ a.set = s.set
           /\ a.finalized = s.finalized /\ a.current_justified = s.current_justified
<1> DEFINE charged == Charged(stake, roster, valid, Leaking(s, epoch))
           t == epoch - s.finalized.epoch - LeakThreshold
           l == Leak(s, stake, epoch, charged)
           due == [v \in Validators |-> IF v \in charged THEN s.leaked[v] + Bite(stake[v], t)
                                        ELSE s.leaked[v]]
<1>1. due \in Amounts
  <2>1. ASSUME NEW v \in Validators, v \in charged
        PROVE  s.leaked[v] + Bite(stake[v], t) \in Nat
    <3>1. t \in Nat
      <4>1. Leaking(s, epoch)
        BY <2>1 DEF Charged
      <4>2. s.finalized.epoch \in Nat
        BY DEF States, Checkpoints
      <4> QED
        BY <4>1, <4>2, FinalityConstants DEF Leaking
    <3> HIDE DEF t, charged
    <3>2. stake[v] \in Nat /\ s.leaked[v] \in Nat
      <4>1. s.leaked \in Amounts
        BY DEF States
      <4> QED
        BY <4>1 DEF Amounts
    <3>3. Bite(stake[v], t) \in Nat
      BY <3>1, <3>2, BiteBounded, ZenonT(60)
    <3> QED
      BY <3>2, <3>3
  <2>2. \A v \in Validators : s.leaked[v] \in Nat
    BY DEF Amounts, States
  <2> HIDE DEF charged, t
  <2> QED
    BY <2>1, <2>2 DEF Amounts
<1>2. l = [s EXCEPT !.leaked = due]
  BY DEF Leak
<1>3. l \in States /\ l.leaked = due
  <2> HIDE DEF l, due
  <2> QED
    BY <1>1, <1>2 DEF States
<1> HIDE DEF l, due
<1> DEFINE credited == Credited(l, roster, valid, Leaking(s, epoch), epoch)
           left == [v \in Validators |-> IF v \in credited THEN l.leaked[v] - Back(l.leaked[v])
                                         ELSE l.leaked[v]]
<1>4. left \in Amounts
  <2>1. \A v \in Validators : l.leaked[v] \in Nat
    BY <1>3 DEF Amounts, States
  <2>2. \A v \in Validators : l.leaked[v] - Back(l.leaked[v]) \in Nat
    BY <2>1, BackBounded
  <2> HIDE DEF credited
  <2> QED
    BY <2>1, <2>2 DEF Amounts
<1>5. a = [l EXCEPT !.leaked = left]
  BY DEF Adjust, Credit, Recover, l
<1> HIDE DEF left
<1> QED
  BY <1>2, <1>3, <1>4, <1>5, ZenonT(60) DEF States

-----------------------------------------------------------------------------
\* The chain's own checkpoints

LEMMA RecordOwnFacts ==
    ASSUME NEW s \in States, \A c \in s.own : c.root = OwnRoot,
           NEW r, r = RecordOwn(s, s.next_epoch, OwnRoot)
    PROVE  /\ r \in States
           /\ r.next_epoch = s.next_epoch /\ r.set = s.set /\ r.finalized = s.finalized
           /\ r.current_justified = s.current_justified
           /\ \A c \in r.own : c.root = OwnRoot
<1>1. CASE ~OwnRule(s.next_epoch)
  BY <1>1 DEF RecordOwn
<1>2. CASE OwnRule(s.next_epoch)
  <2> DEFINE cp == Checkpoint(s.next_epoch, OwnRoot)
             own == {c \in {d \in s.own : d.epoch # s.next_epoch} \cup {cp} :
                       c.epoch = s.next_epoch \/ c.epoch = s.current_justified.epoch}
  <2>1. r = [s EXCEPT !.own = own]
    BY <1>2 DEF RecordOwn
  <2>2. cp \in Checkpoints /\ cp.root = OwnRoot
    BY DEF Checkpoint, Checkpoints, States
  <2> HIDE DEF cp
  <2>3. own \in SUBSET Checkpoints /\ \A c \in own : c.root = OwnRoot
    BY <2>2 DEF States
  <2> HIDE DEF own
  <2> QED
    BY <2>1, <2>3 DEF States
<1> QED
  BY <1>1, <1>2

\* A ballot names roots of this chain or of the other one.
LEMMA BallotRoots ==
    ASSUME NEW b \in Ballots, NEW d \in b
    PROVE  d.target.root \in TargetRoots
<1>1. RightVote.target.root \in TargetRoots /\ OtherVote.target.root \in TargetRoots /\ StaleVote.target.root \in TargetRoots
  BY DEF RightVote, OtherVote, StaleVote, Checkpoint, TargetRoots
<1>2. d \in {RightVote, OtherVote, StaleVote}
  BY ChainConstants DEF Ballots
<1> QED
  BY <1>1, <1>2

LEMMA WinnersAreRoots ==
    ASSUME NEW s, NEW roster, NEW votes \in [Validators -> Ballots], NEW epoch
    PROVE  Winners(s, roster, votes, epoch) \in SUBSET TargetRoots
<1>1. SUFFICES ASSUME NEW root \in Winners(s, roster, votes, epoch)
               PROVE  root \in TargetRoots
  OBVIOUS
<1>2. PICK v \in ValidVoters(s, roster, votes, epoch) : root = TheVote(votes, v, epoch).target.root
  BY WinnerBacked
<1>3. v \in Validators /\ Cardinality(ForTarget(votes, v, epoch)) = 1
  BY DEF ValidVoters, Present, Active
<1>4. ForTarget(votes, v, epoch) # {}
  BY <1>3, FS_EmptySet
<1>5. TheVote(votes, v, epoch) \in votes[v] /\ votes[v] \in Ballots
  BY <1>3, <1>4 DEF TheVote, ForTarget
<1> QED
  BY <1>2, <1>5, BallotRoots

-----------------------------------------------------------------------------
\* Inductive: a set is in force exactly from the gate on, its candidate is always the
\* snapshot of the epoch just closed, so the checkpoint the next epoch may finalize is the one
\* the candidate was taken at.
ChainInv ==
    /\ st \in States
    /\ st.finalized.epoch <= st.current_justified.epoch
    /\ st.current_justified.epoch < st.next_epoch
    /\ st.set \in Sets <=> (st.next_epoch > FrozenFrom /\ st.next_epoch > 1)
    /\ st.set \in Sets => st.set.pending.epoch = st.next_epoch - 1
    /\ \A c \in st.own : c.root = OwnRoot
    /\ SetFollowsFinality

LEMMA ChainInit == Init => ChainInv
<1>1. SUFFICES ASSUME Init PROVE ChainInv
  OBVIOUS
<1> DEFINE s == NewState(Genesis)
<1>2. /\ s \in States /\ s.next_epoch = 1 /\ s.own = {} /\ s.set = NoSet
      /\ s.finalized = Genesis /\ s.current_justified = Genesis /\ Genesis.epoch = 0
  BY DEF NewState, Genesis, Checkpoint, States, Checkpoints, Amounts, Nobody
<1>3. st = RecordOwn(s, s.next_epoch, OwnRoot)
  BY <1>1, <1>2 DEF Init
<1> HIDE DEF s
<1>4. /\ st \in States
      /\ st.next_epoch = 1 /\ st.set = NoSet /\ st.finalized = Genesis
      /\ st.current_justified = Genesis
      /\ \A c \in st.own : c.root = OwnRoot
  BY <1>2, <1>3, RecordOwnFacts
<1>5. ~st.set.present /\ st.set \notin Sets
  <2>1. NoSet.present = FALSE
    BY DEF NoSet
  <2> QED
    BY <1>4, <2>1, SetPresent
<1> QED
  BY <1>2, <1>4, <1>5 DEF ChainInv, SetFollowsFinality

\* One epoch closed, part by part
LEMMA ChainStep ==
    ASSUME ChainInv, NEW roster \in Rosters, NEW votes \in [Validators -> Ballots],
           CloseEpoch(roster, votes)
    PROVE  /\ ChainInv'
           /\ st'.next_epoch = st.next_epoch + 1
           /\ st'.finalized # st.finalized /\ OwnRule(st.next_epoch) => st'.finalized.root = OwnRoot
<1> DEFINE e == st.next_epoch
           n == [st EXCEPT !.next_epoch = @ + 1]
           o == Opened(n, roster, e)
           valid == ValidVoters(o, roster, votes, e)
           winners == Winners(o, roster, votes, e)
           present == Present(roster, votes, e)
           f == FinalizedNow(o, e, winners)
           d == Decide(o, roster, e, winners, f, present)
           a == Adjust(d, LeakAdjusted(o, roster), roster, valid, e)
<1>1. st' = RecordOwn(a, a.next_epoch, OwnRoot)
  BY DEF CloseEpoch, ProcessEpoch, Count, Settle
<1>2. roster \in Amounts
  BY ChainConstants DEF Amounts
<1>3. e \in Nat \ {0} /\ st \in States /\ FrozenFrom \in Nat
  BY FinalityConstants DEF ChainInv, States
<1> HIDE DEF e
<1>4. /\ n \in States /\ n.next_epoch = e + 1 /\ n.own = st.own /\ n.leaked = st.leaked
      /\ n.set = st.set /\ n.finalized = st.finalized
      /\ n.current_justified = st.current_justified
  BY <1>3 DEF States, e
<1> HIDE DEF n
<1>5. /\ o \in States /\ SameFold(o, n) /\ o.finalized = n.finalized
      /\ o.current_justified = n.current_justified
      /\ Frozen(e) => o.set \in Sets
      /\ ~Frozen(e) => o.set = n.set
      /\ Frozen(e) /\ ~n.set.present => o.set.current.epoch = e /\ o.set.pending.epoch = -1
      /\ Frozen(e) /\ n.set.present /\ e \in ReformEpochs =>
           o.set.current.epoch = e /\ o.set.pending.epoch = -1
      /\ Frozen(e) /\ n.set.present /\ e \notin ReformEpochs => o.set = n.set
  BY <1>2, <1>3, <1>4, OpenedFacts
<1> HIDE DEF o
<1>6. winners \in SUBSET TargetRoots
  BY WinnersAreRoots
<1>7. \/ f = {}
      \/ /\ f = {o.current_justified} /\ winners # {}
         /\ o.current_justified.epoch + 1 = e
         /\ o.current_justified.epoch > o.finalized.epoch
         /\ SourceIsOwn(o, e)
  BY FinalizedNowFacts
<1> HIDE DEF winners
<1>8. o.current_justified.epoch < e
  BY <1>4, <1>5 DEF ChainInv, e
<1>9. /\ d \in States /\ SameFold(d, o)
      /\ winners = {} => d.current_justified = o.current_justified
      /\ winners # {} => d.current_justified.epoch = e
      /\ d.finalized = IF f = {} THEN o.finalized ELSE o.current_justified
      /\ ~Frozen(e) => d.set = o.set
      /\ Frozen(e) => /\ d.set \in Sets
                      /\ d.set.pending.epoch = e
                      /\ d.set.current = IF \E c \in f : c.epoch = o.set.pending.epoch
                                         THEN o.set.pending ELSE o.set.current
  <2> HIDE DEF present
  <2> QED
    BY <1>2, <1>3, <1>5, <1>6, <1>8, DecideFacts
<1> HIDE DEF f, d
<1>10. /\ a \in States
       /\ a.next_epoch = d.next_epoch /\ a.own = d.own /\ a.set = d.set
       /\ a.finalized = d.finalized /\ a.current_justified = d.current_justified
  <2>1. LeakAdjusted(o, roster) \in Amounts
    <3>1. o.leaked \in Amounts
      BY <1>5 DEF States
    <3> QED
      BY <1>2, <3>1, LeakAdjustedType
  <2> HIDE DEF valid
  <2> QED
    BY <1>3, <1>9, <2>1, AdjustFacts
<1> HIDE DEF a
<1>11. \A c \in a.own : c.root = OwnRoot
  BY <1>4, <1>5, <1>9, <1>10 DEF ChainInv, SameFold
<1>12. /\ st' \in States
       /\ st'.next_epoch = a.next_epoch /\ st'.set = a.set /\ st'.finalized = a.finalized
       /\ st'.current_justified = a.current_justified
       /\ \A c \in st'.own : c.root = OwnRoot
  BY <1>1, <1>10, <1>11, RecordOwnFacts
<1>13. /\ st'.next_epoch = e + 1 /\ st'.set = d.set /\ st'.finalized = d.finalized
       /\ st'.current_justified = d.current_justified
  BY <1>4, <1>5, <1>9, <1>10, <1>12 DEF SameFold
<1>14. n.set.present <=> n.set \in Sets
  BY <1>4, SetPresent DEF States
<1>15. st'.set.present <=> st'.set \in Sets
  BY <1>12, SetPresent DEF States
<1>16. o.current_justified \in Checkpoints /\ o.finalized \in Checkpoints
  BY <1>5 DEF States
<1>17. /\ st'.finalized.epoch <= st'.current_justified.epoch
       /\ st'.current_justified.epoch < st'.next_epoch
       /\ st'.finalized.epoch < e
  <2>1. o.finalized.epoch <= o.current_justified.epoch
    BY <1>4, <1>5 DEF ChainInv
  <2> QED
    BY <1>3, <1>7, <1>8, <1>9, <1>13, <1>16, <2>1 DEF Checkpoints
<1>18. st'.set \in Sets <=> (st'.next_epoch > FrozenFrom /\ st'.next_epoch > 1)
  <2>1. CASE Frozen(e)
    BY <1>3, <1>9, <1>13, <2>1 DEF Frozen
  <2>2. CASE ~Frozen(e)
    <3>1. st'.set = st.set /\ ~(e > FrozenFrom) /\ ~(e + 1 > FrozenFrom)
      BY <1>3, <1>4, <1>5, <1>9, <1>13, <2>2 DEF Frozen
    <3>2. st.set \notin Sets
      BY <3>1 DEF ChainInv, e
    <3> QED
      BY <1>13, <3>1, <3>2
  <2> QED
    BY <2>1, <2>2
<1>19. st'.set \in Sets => Frozen(e)
  BY <1>3, <1>13, <1>18 DEF Frozen
<1>20. st'.set \in Sets => st'.set.pending.epoch = st'.next_epoch - 1
  BY <1>3, <1>9, <1>13, <1>19
<1>21. SetFollowsFinality'
  <2>1. SUFFICES ASSUME st'.set \in Sets
                 PROVE  \/ st'.set.current.epoch = st'.finalized.epoch
                        \/ /\ st'.set.current.epoch > st'.finalized.epoch
                           /\ st'.set.current.epoch \in ReformEpochs \cup {FrozenFrom, 1}
    BY <1>15 DEF SetFollowsFinality
  <2>2. Frozen(e) /\ st'.set.current = IF \E c \in f : c.epoch = o.set.pending.epoch
                                       THEN o.set.pending ELSE o.set.current
    BY <1>9, <1>13, <1>19, <2>1
  <2>3. CASE n.set \notin Sets
    <3>1. e = FrozenFrom \/ e = 1
      BY <1>3, <1>4, <2>2, <2>3 DEF ChainInv, Frozen, e
    <3>2. o.set.current.epoch = e /\ o.set.pending.epoch = -1
      BY <1>5, <1>14, <2>2, <2>3
    <3>3. st'.set.current.epoch = e
      BY <1>7, <1>16, <2>2, <3>2 DEF Checkpoints
    <3> QED
      BY <1>3, <1>12, <1>17, <3>1, <3>3 DEF States, Checkpoints
  <2>4. CASE n.set \in Sets /\ e \in ReformEpochs
    <3>2. o.set.current.epoch = e /\ o.set.pending.epoch = -1
      BY <1>5, <1>14, <2>2, <2>4
    <3>3. st'.set.current.epoch = e
      BY <1>7, <1>16, <2>2, <3>2 DEF Checkpoints
    <3> QED
      BY <1>3, <1>12, <1>17, <2>4, <3>3 DEF States, Checkpoints
  <2>5. CASE n.set \in Sets /\ e \notin ReformEpochs
    <3>1. o.set = st.set /\ st.set \in Sets /\ st.set.present
      BY <1>4, <1>5, <1>14, <2>2, <2>5
    <3>2. o.set.pending.epoch = e - 1
      BY <3>1 DEF ChainInv, e
    <3>3. CASE f = {}
      <4>1. st'.set.current = st.set.current /\ st'.finalized = st.finalized
        BY <1>4, <1>5, <1>9, <1>13, <2>2, <3>1, <3>3
      <4> QED
        BY <3>1, <4>1 DEF ChainInv, SetFollowsFinality
    <3>4. CASE f # {}
      <4>1. f = {o.current_justified} /\ o.current_justified.epoch = e - 1
        BY <1>3, <1>7, <1>16, <3>4 DEF Checkpoints
      <4>2. st'.set.current.epoch = e - 1
        BY <2>2, <3>2, <4>1
      <4>3. st'.finalized.epoch = e - 1
        BY <1>9, <1>13, <3>4, <4>1
      <4> QED
        BY <4>2, <4>3
    <3> QED
      BY <3>3, <3>4
  <2> QED
    BY <2>3, <2>4, <2>5
<1>22. st'.finalized # st.finalized /\ OwnRule(st.next_epoch) => st'.finalized.root = OwnRoot
  <2>1. SUFFICES ASSUME st'.finalized # st.finalized, OwnRule(e)
                 PROVE  st'.finalized.root = OwnRoot
    BY DEF e
  <2>2. st'.finalized = o.current_justified /\ SourceIsOwn(o, e)
    BY <1>4, <1>5, <1>7, <1>9, <1>13, <2>1
  <2>3. o.current_justified.root \in OwnRoots(o, o.current_justified.epoch)
    BY <2>1, <2>2 DEF SourceIsOwn
  <2>4. \A c \in o.own : c.root = OwnRoot
    BY <1>4, <1>5 DEF ChainInv, SameFold
  <2> QED
    BY <2>2, <2>3, <2>4 DEF OwnRoots
<1> QED
  BY <1>12, <1>13, <1>17, <1>18, <1>20, <1>21, <1>22 DEF ChainInv, e

LEMMA ChainNext == ChainInv /\ [Next]_vars => ChainInv'
<1>1. SUFFICES ASSUME ChainInv, [Next]_vars PROVE ChainInv'
  OBVIOUS
<1>2. CASE UNCHANGED vars
  BY <1>1, <1>2 DEF ChainInv, SetFollowsFinality, vars
<1>3. CASE Next
  BY <1>1, <1>3, ChainStep DEF Next
<1> QED
  BY <1>1, <1>2, <1>3

-----------------------------------------------------------------------------
\* The frozen set in force is always the snapshot taken at the finalized checkpoint, or at the
\* gate or a recovery epoch after it (open_finality_set, close_finality_set).
THEOREM SetVouchedFor == Spec => []SetFollowsFinality
<1>1. ChainInv => SetFollowsFinality
  BY DEF ChainInv
<1> QED
  BY <1>1, ChainInit, ChainNext, PTL DEF Spec

\* Past the gate of the own-chain rule only checkpoints of this chain become final
\* (source_is_own of process_epoch).
THEOREM OnlyOwnFinalized == Spec => OwnFinalityAdvances
<1>1. ChainInv /\ [Next]_vars =>
        [st'.finalized # st.finalized /\ OwnRule(st.next_epoch) => st'.finalized.root = OwnRoot]_vars
  BY ChainStep DEF Next
<1> QED
  BY <1>1, ChainInit, ChainNext, PTL DEF Spec, OwnFinalityAdvances

-----------------------------------------------------------------------------
\* The state whose votes an epoch weighs
LEMMA WeighedState ==
    ASSUME ChainInv, NEW roster \in Rosters
    PROVE  LET o == Opened(st, roster, st.next_epoch)
           IN  /\ st.next_epoch \in Nat /\ roster \in Amounts /\ o.leaked \in Amounts
               /\ Frozen(st.next_epoch) => o.set.current.members \in Amounts
<1> DEFINE o == Opened(st, roster, st.next_epoch)
<1>1. st.next_epoch \in Nat /\ roster \in Amounts /\ st \in States
  BY ChainConstants DEF ChainInv, States, Amounts
<1>2. o \in States /\ (Frozen(st.next_epoch) => o.set \in Sets)
  BY <1>1, OpenedFacts
<1> HIDE DEF o
<1>3. o.leaked \in Amounts /\ (Frozen(st.next_epoch) => o.set.current.members \in Amounts)
  BY <1>2, ZenonT(60) DEF States, Sets, Snapshots
<1> QED
  BY <1>1, <1>3 DEF o

\* At most one root of an epoch reaches two thirds, whatever the votes, the leak and the set
\* in force: the votes counted for two roots are those of different validators, and no more
\* is counted than the denominator holds (process_epoch, tally).
THEOREM QuorumIsUnique == Spec => []UniqueQuorum
<1>1. Init => UniqueQuorum
  BY FS_EmptySet DEF Init, Idle, UniqueQuorum
<1>2. ASSUME ChainInv, UniqueQuorum, [Next]_vars PROVE UniqueQuorum'
  <2>1. CASE UNCHANGED vars
    BY <1>2, <2>1 DEF UniqueQuorum, vars
  <2>2. ASSUME NEW roster \in Rosters, NEW votes \in [Validators -> Ballots],
               CloseEpoch(roster, votes)
        PROVE  UniqueQuorum'
    <3> DEFINE o == Opened(st, roster, st.next_epoch)
    <3>1. last'.winners = Winners(o, roster, votes, st.next_epoch)
      BY <2>2 DEF CloseEpoch, Observed, Opened
    <3>2. /\ st.next_epoch \in Nat /\ roster \in Amounts /\ o.leaked \in Amounts
          /\ Frozen(st.next_epoch) => o.set.current.members \in Amounts
      BY <1>2, WeighedState
    <3> HIDE DEF o
    <3>3. Cardinality(Winners(o, roster, votes, st.next_epoch)) <= 1
      BY <3>2, OneWinner
    <3> QED
      BY <3>1, <3>3 DEF UniqueQuorum
  <2> QED
    BY <1>2, <2>1, <2>2 DEF Next
<1> QED
  BY <1>1, <1>2, ChainInit, ChainNext, PTL DEF Spec

\* Half the unleaked stake, rounded down, stays in the denominator: no set below a third of
\* the unleaked stake justifies, whatever leaked before (MIN_QUORUM_DENOMINATOR_NUM / _DEN of
\* process_epoch, which are 1 and 2).
THEOREM ThirdAlwaysNeeded ==
    ASSUME FloorNum = 1, FloorDen = 2
    PROVE  Spec => []ThirdBacksQuorum
<1>1. Init => ThirdBacksQuorum
  BY DEF Init, Idle, ThirdBacksQuorum
<1>2. ASSUME ChainInv, ThirdBacksQuorum, [Next]_vars PROVE ThirdBacksQuorum'
  <2>1. CASE UNCHANGED vars
    BY <1>2, <2>1 DEF ThirdBacksQuorum, vars
  <2>2. ASSUME NEW roster \in Rosters, NEW votes \in [Validators -> Ballots],
               CloseEpoch(roster, votes)
        PROVE  ThirdBacksQuorum'
    <3> DEFINE e == st.next_epoch
               o == Opened(st, roster, e)
               W == Winners(o, roster, votes, e)
               valid == ValidVoters(o, roster, votes, e)
               A == {v \in valid : TheVote(votes, v, e).target.root \in W}
    <3>1. /\ last'.winners = W /\ last'.backing = WeightOf(roster, A)
          /\ last'.staked = StakeOf(roster)
      BY <2>2 DEF CloseEpoch, Observed, Opened
    <3>2. e \in Nat /\ roster \in Amounts /\ o.leaked \in Amounts
      BY <1>2, WeighedState
    <3>3. st'.next_epoch = e + 1
      BY <1>2, <2>2, ChainStep
    <3>4. SUFFICES ASSUME e + 1 > RecoveryFrom, ~Frozen(e), W # {}
                   PROVE  3 * WeightOf(roster, A) + 1 >= StakeOf(roster)
      <4>1. st'.next_epoch - 1 = e
        BY <3>2, <3>3
      <4> HIDE DEF e, W, A
      <4> QED
        BY <3>1, <3>3, <4>1 DEF ThirdBacksQuorum
    <3>5. PICK root \in W : TRUE
      BY <3>4
    <3> DEFINE w == LeakAdjusted(o, roster)
               D == Denominator(o, roster, e)
               B == Backers(o, roster, votes, e, root)
    <3>6. 3 * WeightOf(VoteWeight(o, roster, e), B) >= 2 * D /\ B \in SUBSET Validators
      BY <3>5, WinnerBacked
    <3>7. B \in SUBSET A /\ A \in SUBSET Validators
      BY <3>5 DEF Backers, ValidVoters, Present, Active
    <3>8. VoteWeight(o, roster, e) = w
      BY <3>4 DEF VoteWeight
    <3>9. w \in Amounts /\ \A v \in Validators : w[v] <= roster[v]
      BY <3>2, LeakAdjustedType
    <3> HIDE DEF B, A, w, o, e
    <3>10. IsFiniteSet(A) /\ IsFiniteSet(B)
      BY <3>7, FinalityConstants, FS_Subset
    <3>11. WeightOf(w, B) <= WeightOf(roster, B) /\ WeightOf(roster, B) <= WeightOf(roster, A)
      <4>1. SumOver(w, B) <= SumOver(roster, B)
        BY <3>2, <3>6, <3>9, <3>10, SumMonotone DEF Amounts
      <4>2. SumOver(roster, B) <= SumOver(roster, A)
        BY <3>2, <3>7, <3>10, SumSubset DEF Amounts
      <4> QED
        BY <4>1, <4>2, WeightIsSum
    <3>12. /\ WeightOf(w, B) \in Nat /\ WeightOf(roster, B) \in Nat /\ WeightOf(roster, A) \in Nat
           /\ StakeOf(roster) \in Nat /\ StakeOf(w) \in Nat
      BY <3>2, <3>6, <3>7, <3>9, WeightBounded
    <3>13. D \in Nat /\ D >= StakeOf(roster) \div 2
      <4>1. ~(e < RecoveryFrom)
        BY <3>2, <3>4, FinalityConstants
      <4>2. (StakeOf(roster) * FloorNum) \div FloorDen = StakeOf(roster) \div 2
        BY <3>12
      <4>3. D = IF StakeOf(w) >= StakeOf(roster) \div 2 THEN StakeOf(w) ELSE StakeOf(roster) \div 2
        BY <3>4, <4>1, <4>2 DEF Denominator, w
      <4> HIDE DEF D
      <4> QED
        BY <3>12, <4>3
    <3> HIDE DEF D
    <3>14. 2 * (StakeOf(roster) \div 2) + 1 >= StakeOf(roster)
      BY <3>12
    <3> QED
      BY <3>6, <3>8, <3>11, <3>12, <3>13, <3>14
  <2> QED
    BY <1>2, <2>1, <2>2 DEF Next
<1> QED
  BY <1>1, <1>2, ChainInit, ChainNext, PTL DEF Spec
=============================================================================

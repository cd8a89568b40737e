------------------------------ MODULE FFGProofs ------------------------------
(***************************************************************************)
(* Agreement of FFG for every validator set, quorum system and tree of     *)
(* branches, and that a network of nodes past the finality gates           *)
(* implements FFG (FinalityHistory), so that its branches agree.           *)
(***************************************************************************)
EXTENDS FinalityHistory, WellFoundedInduction, FiniteSetTheorems, TLAPS

\* A leaf goes to the SMT solver unless it names another prover.
USE SMTT(60), Z3T(60)

\* Every vote and link that FFG builds is well typed.
LEMMA Typing ==
    ASSUME NEW v \in Honest, NEW b \in Branches, NEW s \in Epochs, NEW t \in Epochs
    PROVE  /\ VoteOf(v, b, s, t) \in Votes
           /\ Link(s, t) \in Links
           /\ Epochs \subseteq Nat
<1>1. ChainRoot[b][s] \in Roots /\ ChainRoot[b][t] \in Roots
  BY BranchAssumption
<1>2. CheckpointOf(b, s) \in Checkpoints /\ CheckpointOf(b, t) \in Checkpoints
  BY <1>1 DEF CheckpointOf, Checkpoints
<1>3. Epochs \subseteq Nat
  BY EpochAssumption DEF Epochs
<1> QED
  BY <1>2, <1>3 DEF VoteOf, Votes, Link, Links

\* A conflict does not depend on the order of the two votes.
LEMMA ConflictSymmetric ==
    ASSUME NEW d, NEW e, ~Conflict(d, e)
    PROVE  ~Conflict(e, d)
BY DEF Conflict, Surrounds, IsDoubleVote

\* The initial state satisfies the inductive invariant.
LEMMA InitInv == Init => Inv
<1> SUFFICES ASSUME Init PROVE Inv
  OBVIOUS
<1>1. TypeOK
  BY EpochAssumption DEF Init, TypeOK, Epochs
<1>2. LinksBacked /\ HonestVotes /\ FinalizedLinked
  BY DEF Init, LinksBacked, HonestVotes, FinalizedLinked
<1> QED
  BY <1>1, <1>2 DEF Inv

\* A vote of an honest validator preserves the invariant: it adds no conflict and
\* takes no quorum away.
LEMMA VoteInv ==
    ASSUME Inv, NEW v \in Honest, NEW b \in Branches, NEW s \in Epochs, NEW t \in Epochs,
           Vote(v, b, s, t)
    PROVE  Inv'
<1> DEFINE d == VoteOf(v, b, s, t)
<1>1. d \in Votes
  BY Typing
<1>2. TypeOK'
  BY <1>1 DEF Inv, TypeOK, Vote
<1>3. LinksBacked'
  BY DEF Inv, LinksBacked, Vote, Justified
<1>4. HonestVotes'
  <2> SUFFICES ASSUME NEW x \in votes', NEW y \in votes', x.voter = y.voter
               PROVE  ~Conflict(x, y)
    BY DEF HonestVotes, Conflict, Surrounds, IsDoubleVote
  <2>1. d.voter = v
    BY DEF VoteOf
  <2>2. x \in votes \cup {d} /\ y \in votes \cup {d}
    BY DEF Vote
  <2>3. \A e \in votes : e.voter = v => ~Conflict(d, e)
    BY DEF Vote
  <2>4. CASE x \in votes /\ y \in votes
    BY <2>4 DEF Inv, HonestVotes
  <2>5. CASE x = d /\ y \in votes
    BY <2>1, <2>3, <2>5
  <2>6. CASE x \in votes /\ y = d
    <3>1. ~Conflict(d, x)
      BY <2>1, <2>3, <2>6
    <3> QED
      BY <3>1, <2>6, ConflictSymmetric
  <2>7. CASE x = d /\ y = d
    <3>1. d.source.epoch \in Nat /\ d.target.epoch \in Nat
      BY Typing, ZenonT(60) DEF VoteOf, CheckpointOf
    <3> QED
      BY <3>1, <2>7 DEF Conflict, Surrounds, IsDoubleVote
  <2> QED
    BY <2>2, <2>4, <2>5, <2>6, <2>7
<1>5. FinalizedLinked'
  BY DEF Inv, FinalizedLinked, Vote
<1> QED
  BY <1>2, <1>3, <1>4, <1>5 DEF Inv

\* A justification preserves the invariant: the new link is backed by its quorum and
\* the epoch it finalizes starts it.
LEMMA JustifyInv ==
    ASSUME Inv, NEW b \in Branches, NEW s \in Epochs, NEW t \in Epochs, NEW Q \in Quorums,
           Justify(b, s, t, Q)
    PROVE  Inv'
<1> DEFINE l == Link(s, t)
<1>1. l \in Links /\ l.source = s /\ l.target = t
  BY Typing DEF Link, Links
<1>2. /\ links \in [Branches -> SUBSET Links]
      /\ finalized \in [Branches -> SUBSET Epochs]
  BY DEF Inv, TypeOK
<1>3. /\ \A c \in Branches : links'[c] = IF c = b THEN links[b] \cup {l} ELSE links[c]
      /\ \A c \in Branches : finalized'[c] = IF c = b /\ t = s + 1 THEN finalized[b] \cup {s}
                                              ELSE finalized[c]
      /\ votes' = votes
  BY <1>2 DEF Justify
<1>4. TypeOK'
  BY <1>1, <1>2 DEF Inv, TypeOK, Justify
<1>5. \A c \in Branches : \A e : Justified(c, e) => Justified(c, e)'
  BY <1>3 DEF Justified
<1>6. LinksBacked'
  <2> SUFFICES ASSUME NEW c \in Branches, NEW k \in links'[c]
               PROVE  /\ k.source < k.target
                      /\ Justified(c, k.source)'
                      /\ \E P \in Quorums : \A v \in P \cap Honest :
                           VoteOf(v, c, k.source, k.target) \in votes'
    BY DEF LinksBacked, VoteOf, CheckpointOf
  <2>1. CASE k \in links[c]
    BY <2>1, <1>3, <1>5 DEF Inv, LinksBacked
  <2>2. CASE c = b /\ k = l
    BY <2>2, <1>1, <1>3, <1>5 DEF Justify
  <2> QED
    BY <2>1, <2>2, <1>3
<1>7. HonestVotes'
  BY <1>3 DEF Inv, HonestVotes, Conflict, Surrounds, IsDoubleVote
<1>8. FinalizedLinked'
  <2> SUFFICES ASSUME NEW c \in Branches, NEW e \in finalized'[c]
               PROVE  e = 0 \/ Link(e, e + 1) \in links'[c]
    BY ZenonT(60) DEF FinalizedLinked, Link
  <2>1. CASE e \in finalized[c]
    BY <2>1, <1>3 DEF Inv, FinalizedLinked
  <2>2. CASE c = b /\ e = s /\ t = s + 1
    BY <2>2, <1>3
  <2> QED
    BY <2>1, <2>2, <1>3
<1> QED
  BY <1>4, <1>6, <1>7, <1>8 DEF Inv

\* Every step preserves the invariant.
LEMMA NextInv == Inv /\ [Next]_vars => Inv'
<1> SUFFICES ASSUME Inv, [Next]_vars PROVE Inv'
  OBVIOUS
<1>1. CASE Next
  <2>1. PICK b \in Branches, s \in Epochs, t \in Epochs :
           \/ \E v \in Honest : Vote(v, b, s, t)
           \/ \E Q \in Quorums : Justify(b, s, t, Q)
    BY <1>1 DEF Next
  <2> QED
    BY <2>1, VoteInv, JustifyInv
<1>2. CASE UNCHANGED vars
  BY <1>2 DEF vars, Inv, TypeOK, LinksBacked, HonestVotes, FinalizedLinked, Justified
<1> QED
  BY <1>1, <1>2

-----------------------------------------------------------------------------
\* Two links, of any branches, share an honest validator that voted for both.
LEMMA SharedVoter ==
    ASSUME Inv, NEW b \in Branches, NEW c \in Branches, NEW k \in links[b], NEW l \in links[c]
    PROVE  \E v \in Honest : /\ VoteOf(v, b, k.source, k.target) \in votes
                             /\ VoteOf(v, c, l.source, l.target) \in votes
<1>1. PICK P \in Quorums : \A v \in P \cap Honest : VoteOf(v, b, k.source, k.target) \in votes
  BY DEF Inv, LinksBacked
<1>2. PICK Q \in Quorums : \A v \in Q \cap Honest : VoteOf(v, c, l.source, l.target) \in votes
  BY DEF Inv, LinksBacked
<1>3. PICK v \in P \cap Q \cap Honest : TRUE
  BY QuorumAssumption
<1> QED
  BY <1>1, <1>2, <1>3

\* Hence no two links conflict: they never have one target epoch with different
\* roots, and neither surrounds the other.
LEMMA LinksCompatible ==
    ASSUME Inv, NEW b \in Branches, NEW c \in Branches, NEW k \in links[b], NEW l \in links[c]
    PROVE  /\ k.target = l.target => ChainRoot[b][k.target] = ChainRoot[c][k.target]
           /\ ~(l.source < k.source /\ k.target < l.target)
<1>1. PICK v \in Honest : /\ VoteOf(v, b, k.source, k.target) \in votes
                          /\ VoteOf(v, c, l.source, l.target) \in votes
  BY SharedVoter
<1> DEFINE d == VoteOf(v, b, k.source, k.target)
           e == VoteOf(v, c, l.source, l.target)
<1>2. d.voter = v /\ e.voter = v
  BY DEF VoteOf
<1>3. ~Conflict(e, d)
  BY <1>1, <1>2 DEF Inv, HonestVotes
<1>4. /\ d.source.epoch = k.source /\ d.target.epoch = k.target
      /\ d.target.root = ChainRoot[b][k.target]
      /\ e.source.epoch = l.source /\ e.target.epoch = l.target
      /\ e.target.root = ChainRoot[c][l.target]
  BY DEF VoteOf, CheckpointOf
<1> HIDE DEF d, e
<1>5. ~(l.source < k.source /\ k.target < l.target)
  BY <1>3, <1>4 DEF Conflict, Surrounds
<1>6. ASSUME k.target = l.target PROVE ChainRoot[b][k.target] = ChainRoot[c][k.target]
  BY <1>3, <1>4, <1>6 DEF Conflict, IsDoubleVote
<1> QED
  BY <1>5, <1>6

\* The targets of a branch at or after an epoch have a first one, and the link to it
\* starts before that epoch: its source is justified, so it would come first.
LEMMA FirstLink ==
    ASSUME Inv, NEW c \in Branches, NEW e \in Epochs, e > 0,
           NEW m \in links[c], m.target >= e
    PROVE  \E l \in links[c] : l.source < e /\ e <= l.target
<1> DEFINE T == {t \in Nat : t >= e /\ \E l \in links[c] : l.target = t}
<1>1. Epochs \subseteq Nat /\ \A l \in links[c] : l.source \in Nat /\ l.target \in Nat
  BY EpochAssumption DEF Inv, TypeOK, Links, Epochs
<1>2. T \subseteq Nat /\ T # {}
  BY <1>1
<1> HIDE DEF T
<1>3. PICK t \in T : \A u \in T : ~(<<u, t>> \in OpToRel(<, Nat))
  BY <1>2, WFMin, NatLessThanWellFounded, ZenonT(60)
<1>4. \A u \in T : ~(u < t)
  BY <1>2, <1>3, ZenonT(60) DEF OpToRel
<1>5. PICK l \in links[c] : l.target = t
  BY DEF T
<1>6. l.source < l.target /\ Justified(c, l.source)
  BY DEF Inv, LinksBacked
<1>7. l.source < e
  <2> SUFFICES ASSUME l.source >= e PROVE FALSE
    BY <1>1
  <2>1. l.source \in T
    BY <1>1, <1>6 DEF T, Justified
  <2> QED
    BY <2>1, <1>4, <1>5, <1>6
<1>8. e <= l.target
  BY <1>5 DEF T
<1> QED
  BY <1>7, <1>8

\* The inductive invariant gives agreement: the link of one branch that jumps over an
\* epoch finalized on another conflicts with the link that finalized it, or with the
\* link that justified it.
LEMMA InvAgreement == Inv => Agreement
<1> SUFFICES ASSUME Inv, NEW b \in Branches, NEW c \in Branches,
                    NEW e \in finalized[b], NEW f \in finalized[c], e <= f,
                    ChainRoot[b][e] # ChainRoot[c][e]
             PROVE  FALSE
  BY DEF Agreement
<1>1. /\ e \in Epochs /\ f \in Epochs /\ Epochs \subseteq Nat
      /\ \A x \in Branches : \A l \in links[x] : l.source \in Epochs /\ l.target \in Epochs
  BY EpochAssumption DEF Inv, TypeOK, Links, Epochs
<1>2. e > 0 /\ f > 0
  BY <1>1, BranchAssumption
<1>3. Link(e, e + 1) \in links[b] /\ Link(f, f + 1) \in links[c]
  BY <1>2 DEF Inv, FinalizedLinked
<1>4. /\ Link(e, e + 1).source = e /\ Link(e, e + 1).target = e + 1
      /\ Link(f, f + 1).source = f /\ Link(f, f + 1).target = f + 1
  BY DEF Link
<1>5. PICK j \in links[b] : j.target = e
  BY <1>2, <1>3, <1>4 DEF Inv, LinksBacked, Justified
<1>6. PICK m \in links[c] : m.target = f
  BY <1>2, <1>3, <1>4 DEF Inv, LinksBacked, Justified
<1>7. PICK l \in links[c] : l.source < e /\ e <= l.target
  BY <1>1, <1>2, <1>6, FirstLink
<1>t. e \in Nat /\ l.target \in Nat /\ l.target \in Epochs
  BY <1>1, ZenonT(60)
<1>8. ChainRoot[b][l.target] # ChainRoot[c][l.target]
  BY <1>1, <1>7, <1>t, BranchAssumption
<1>9. CASE l.target = e
  BY <1>5, <1>8, <1>9, LinksCompatible
<1>10. CASE l.target = e + 1
  BY <1>3, <1>4, <1>8, <1>10, LinksCompatible
<1>11. CASE l.target > e + 1
  BY <1>3, <1>4, <1>7, <1>11, LinksCompatible
<1> QED
  BY <1>t, <1>7, <1>9, <1>10, <1>11

\* The inductive invariant holds in every reachable state.
THEOREM Invariance == Spec => []Inv
<1> QED
  BY InitInv, NextInv, PTL DEF Spec

\* Votes, links and finalized epochs keep their types.
THEOREM TypeCorrect == Spec => []TypeOK
<1>1. Inv => TypeOK
  BY DEF Inv
<1> QED
  BY <1>1, Invariance, PTL

\* Finalized checkpoints never conflict, for any validators, any quorums that pairwise
\* share an honest validator, and any tree of branches.
THEOREM AgreementHolds == Spec => []Agreement
<1> QED
  BY Invariance, InvAgreement, PTL

-----------------------------------------------------------------------------
\* The network implements FFG.  The finality state of a branch, field by field: the code's
\* struct, of which the leaked stakes play no part past the gates.
IsState(s) ==
    s = [justified |-> s.justified, current_justified |-> s.current_justified,
         finalized |-> s.finalized, leaked |-> s.leaked, next_epoch |-> s.next_epoch,
         set |-> s.set, own |-> s.own]

\* The leak leaves the decision of an epoch alone.
LEMMA AdjustKeeps ==
    ASSUME NEW s, IsState(s), NEW stake, NEW valid, NEW e, NEW a,
           a = Net!Adjust(s, stake, Roster, valid, e)
    PROVE  /\ IsState(a)
           /\ a.next_epoch = s.next_epoch /\ a.own = s.own /\ a.set = s.set
           /\ a.finalized = s.finalized /\ a.current_justified = s.current_justified
<1> DEFINE l == Net!Leak(s, stake, e, Net!Charged(stake, Roster, valid, Net!Leaking(s, e)))
<1>1. /\ IsState(l) /\ l.next_epoch = s.next_epoch /\ l.own = s.own /\ l.set = s.set
      /\ l.finalized = s.finalized /\ l.current_justified = s.current_justified
  BY DEF IsState, Net!Leak
<1> HIDE DEF l
<1>2. a = Net!Recover(l, Net!Credited(l, Roster, valid, Net!Leaking(s, e), e))
  BY DEF Net!Adjust, Net!Credit, l
<1> QED
  BY <1>1, <1>2 DEF IsState, Net!Recover

\* The set in force, and the candidate if there is one, is the whole roster.
Seen == [Validators -> Nat \cup {-1}]
Whole(set) ==
    /\ set = [present |-> TRUE, current |-> set.current, pending |-> set.pending,
              last_seen |-> set.last_seen]
    /\ set.current.members = Roster
    /\ set.pending.epoch = -1 \/ set.pending.members = Roster
    /\ set.last_seen \in Seen

LEMMA SnapshotWhole ==
    ASSUME NEW e \in Nat, e <= MaxEpoch, NEW seen \in Seen
    PROVE  Net!Snapshot(Roster, e, seen).members = Roster
<1>1. Roster = [v \in Validators |-> Roster[v]] /\ PruneAfter \in Nat /\ PruneAfter > MaxEpoch
  BY HistoryAssumption DEF Net!NetConstants
<1>2. \A v \in Validators : seen[v] = -1 \/ e - seen[v] < PruneAfter
  <2>1. SUFFICES ASSUME NEW v \in Validators, seen[v] # -1
                 PROVE  e - seen[v] < PruneAfter
    BY ZenonT(60)
  <2>2. seen[v] \in Nat
    BY <2>1 DEF Seen
  <2> QED
    BY <1>1, <2>2, EpochAssumption
<1> QED
  BY <1>1, <1>2 DEF Net!Snapshot

LEMMA OpenedWhole ==
    ASSUME NEW s, IsState(s), s.set = Net!NoSet \/ Whole(s.set), NEW e \in Nat, e <= MaxEpoch,
           NEW o, o = Net!Opened(s, Roster, e)
    PROVE  /\ IsState(o) /\ Whole(o.set)
           /\ o.next_epoch = s.next_epoch /\ o.own = s.own
           /\ o.finalized = s.finalized /\ o.current_justified = s.current_justified
<1>1. o = Net!OpenFinalitySet(s, Roster, e)
  BY DEF Net!Opened, Net!Frozen
<1>2. Net!NoSet.present = FALSE /\ (Whole(s.set) => s.set.present = TRUE)
  BY DEF Net!NoSet, Whole
<1>3. Net!NeverSeen \in Seen /\ Net!NoCandidate.epoch = -1
  BY DEF Net!NeverSeen, Seen, Net!NoCandidate
<1>4. CASE s.set = Net!NoSet
  <2> DEFINE new == [present |-> TRUE, current |-> Net!Snapshot(Roster, e, Net!NeverSeen),
                     pending |-> Net!NoCandidate, last_seen |-> Net!NeverSeen]
  <2>1. o = [s EXCEPT !.set = new]
    BY <1>1, <1>2, <1>4 DEF Net!OpenFinalitySet
  <2>2. Whole(new)
    BY <1>3, SnapshotWhole DEF Whole
  <2> HIDE DEF new
  <2> QED
    BY <2>1, <2>2 DEF IsState
<1>5. CASE Whole(s.set) /\ e \in ReformEpochs
  <2> DEFINE new == [present |-> TRUE, current |-> Net!Snapshot(Roster, e, s.set.last_seen),
                     pending |-> Net!NoCandidate, last_seen |-> s.set.last_seen]
  <2>1. o = [s EXCEPT !.set = new]
    BY <1>1, <1>2, <1>5 DEF Net!OpenFinalitySet
  <2>2. Whole(new)
    <3>1. s.set.last_seen \in Seen
      BY <1>5 DEF Whole
    <3>2. Net!Snapshot(Roster, e, s.set.last_seen).members = Roster
      BY <3>1, SnapshotWhole
    <3> QED
      BY <1>3, <1>5, <3>1, <3>2 DEF Whole
  <2> HIDE DEF new
  <2> QED
    BY <2>1, <2>2 DEF IsState
<1>6. CASE Whole(s.set) /\ e \notin ReformEpochs
  <2>1. o = s
    BY <1>1, <1>2, <1>6 DEF Net!OpenFinalitySet
  <2> QED
    BY <1>6, <2>1
<1> QED
  BY <1>4, <1>5, <1>6

\* A root wins with the votes of a quorum, all from the justified checkpoint, and is this
\* chain's own.
LEMMA WinnerHasQuorum ==
    ASSUME NEW o, Whole(o.set), NEW e \in Nat, NEW included,
           NEW root \in Net!Winners(o, Roster, included, e)
    PROVE  /\ root \in Net!OwnRoots(o, e)
           /\ \E Q \in Quorums : \A v \in Q : \E d \in included[v] :
                /\ d.source = o.current_justified
                /\ d.target.epoch = e /\ d.target.root = root
<1> DEFINE valid == Net!ValidVoters(o, Roster, included, e)
           Q == {v \in valid : Net!TheVote(included, v, e).target.root = root}
<1>1. ASSUME NEW v \in valid
      PROVE  /\ v \in Validators
             /\ Net!TheVote(included, v, e) \in included[v]
             /\ Net!TheVote(included, v, e).target.epoch = e
             /\ Net!IsValid(o, Net!TheVote(included, v, e), e)
  <2>1. /\ v \in Validators /\ Net!IsValid(o, Net!TheVote(included, v, e), e)
        /\ Cardinality(Net!ForTarget(included, v, e)) = 1
    <3>1. v \in Net!Present(Roster, included, e) /\ Net!IsValid(o, Net!TheVote(included, v, e), e)
      BY <1>1 DEF Net!ValidVoters
    <3>2. v \in Net!Active(Roster) /\ Net!Cardinality(Net!ForTarget(included, v, e)) = 1
      BY <3>1 DEF Net!Present
    <3>3. v \in Validators
      BY <3>2 DEF Net!Active
    <3>4. ASSUME NEW S PROVE Net!Cardinality(S) = Cardinality(S)
      BY DEF Net!Cardinality, Cardinality
    <3> QED
      BY <3>1, <3>2, <3>3, <3>4
  <2>2. Net!ForTarget(included, v, e) # {}
    BY <2>1, FS_EmptySet
  <2>3. Net!TheVote(included, v, e) \in Net!ForTarget(included, v, e)
    BY <2>2 DEF Net!TheVote
  <2> QED
    BY <2>1, <2>3 DEF Net!ForTarget
<1> HIDE DEF valid
<1>2. /\ \E v \in valid : root = Net!TheVote(included, v, e).target.root
      /\ 3 * Net!WeightOf(Net!VoteWeight(o, Roster, e), Q) >= 2 * Net!Denominator(o, Roster, e)
  BY DEF Net!Winners, valid
<1>3. Net!VoteWeight(o, Roster, e) = Roster /\ Net!Denominator(o, Roster, e) = Net!StakeOf(Roster)
  BY DEF Net!VoteWeight, Net!Denominator, Net!Frozen, Whole
<1>4. Q \in Quorums
  <2>1. Q \in SUBSET Validators
    BY <1>1
  <2> HIDE DEF Q
  <2> QED
    BY <1>2, <1>3, <2>1, HistoryAssumption
<1>5. \A v \in Q : \E d \in included[v] : /\ d.source = o.current_justified
                                          /\ d.target.epoch = e /\ d.target.root = root
  BY <1>1 DEF Net!IsValid
<1>6. root \in Net!OwnRoots(o, e)
  <2>1. PICK v \in valid : root = Net!TheVote(included, v, e).target.root
    BY <1>2
  <2>2. Net!IsValid(o, Net!TheVote(included, v, e), e)
    BY <1>1
  <2> QED
    BY <2>1, <2>2 DEF Net!IsValid, Net!OwnRule
<1> QED
  BY <1>4, <1>5, <1>6

\* What an epoch decides: nothing, or its root is justified and, from the epoch before, the
\* source is final.
LEMMA Decided ==
    ASSUME NEW o, IsState(o), Whole(o.set), NEW e \in Nat, e <= MaxEpoch,
           o.current_justified.epoch \in Nat, o.current_justified.epoch < e,
           NEW winners, NEW root, \A r \in winners : r = root, NEW present,
           NEW f, f = Net!FinalizedNow(o, e, winners),
           NEW d, d = Net!Decide(o, Roster, e, winners, f, present)
    PROVE  /\ IsState(d) /\ Whole(d.set) /\ d.next_epoch = o.next_epoch /\ d.own = o.own
           /\ winners = {} => /\ d.current_justified = o.current_justified
                              /\ d.finalized = o.finalized
           /\ winners # {} => /\ d.current_justified = [epoch |-> e, root |-> root]
                              /\ d.finalized = IF f = {} THEN o.finalized
                                               ELSE o.current_justified
<1> DEFINE j == Net!Justify(o, e, winners)
           voted == Net!Finalize(j, f)
<1>1. /\ IsState(j) /\ j.next_epoch = o.next_epoch /\ j.own = o.own /\ j.set = o.set
      /\ j.finalized = o.finalized
      /\ winners = {} => j.current_justified = o.current_justified
      /\ winners # {} => j.current_justified = [epoch |-> e, root |-> root]
  <2>1. CASE winners = {}
    BY <2>1 DEF Net!Justify
  <2>2. CASE winners # {}
    <3> DEFINE cp == [epoch |-> e, root |-> root]
    <3>1. (CHOOSE r \in winners : TRUE) = root
      BY <2>2
    <3>2. j = [o EXCEPT !.justified = {c \in @ : c.epoch # e} \cup {cp},
                        !.current_justified = cp]
      BY <2>2, <3>1, ZenonT(60) DEF Net!Justify, Net!Checkpoint, IsState
    <3> HIDE DEF cp
    <3> QED
      BY <2>2, <3>2, ZenonT(60) DEF IsState, cp
  <2> QED
    BY <2>1, <2>2
<1> HIDE DEF j
<1>2. f = {} \/ (f = {o.current_justified} /\ winners # {})
  BY DEF Net!FinalizedNow
<1>3. /\ IsState(voted) /\ voted.next_epoch = o.next_epoch /\ voted.own = o.own
      /\ voted.set = o.set /\ voted.current_justified = j.current_justified
      /\ voted.finalized = IF f = {} THEN o.finalized ELSE o.current_justified
  <2> DEFINE final == IF f = {} THEN o.finalized ELSE o.current_justified
  <2>1. f # {} => (CHOOSE c \in f : TRUE) = o.current_justified
    BY <1>2
  <2>2. voted = [j EXCEPT !.finalized = final]
    BY <1>1, <2>1, ZenonT(60) DEF Net!Finalize, IsState
  <2> HIDE DEF final
  <2>3. /\ IsState(voted) /\ voted.next_epoch = o.next_epoch /\ voted.own = o.own
        /\ voted.set = o.set /\ voted.current_justified = j.current_justified
        /\ voted.finalized = final
    BY <1>1, <2>2 DEF IsState
  <2> QED
    BY <2>3 DEF final
<1>4. d = Net!CloseFinalitySet(voted, Roster, e, f, present)
  BY DEF Net!Decide, Net!Frozen, j
<1> HIDE DEF voted
<1> DEFINE seen == [v \in Validators |->
                      CASE v \notin Net!Active(Roster)    -> -1
                        [] v \in present                  -> e
                        [] voted.set.last_seen[v] = -1    -> e
                        [] OTHER                          -> voted.set.last_seen[v]]
           new == [present   |-> TRUE,
                   current   |-> IF \E c \in f : c.epoch = voted.set.pending.epoch
                                 THEN voted.set.pending ELSE voted.set.current,
                   pending   |-> Net!Snapshot(Roster, e, seen),
                   last_seen |-> seen]
<1>5. d = [voted EXCEPT !.set = new]
  BY <1>4 DEF Net!CloseFinalitySet
<1>6. Whole(new)
  <2>1. Whole(voted.set)
    BY <1>3
  <2>2. seen \in Seen
    <3>1. \A v \in Validators : voted.set.last_seen[v] \in Nat \cup {-1}
      BY <2>1 DEF Whole, Seen
    <3> QED
      BY <3>1 DEF Seen
  <2> HIDE DEF seen
  <2>3. Net!Snapshot(Roster, e, seen).members = Roster
    BY <2>2, SnapshotWhole
  <2>4. new.current.members = Roster
    <3>1. \A c \in f : c.epoch # -1
      BY <1>2
    <3> QED
      BY <2>1, <3>1 DEF Whole
  <2> QED
    BY <2>2, <2>3, <2>4 DEF Whole
<1> HIDE DEF new
<1>7. /\ IsState(d) /\ d.set = new /\ d.next_epoch = voted.next_epoch /\ d.own = voted.own
      /\ d.current_justified = voted.current_justified /\ d.finalized = voted.finalized
  BY <1>3, <1>5 DEF IsState
<1> QED
  BY <1>1, <1>2, <1>3, <1>6, <1>7, ZenonT(60)

\* The finality state of a branch: what it justified and recorded is on its own chain, and
\* its justified checkpoint and the epoch it waits for are recorded.
BranchState(b, s) ==
    /\ IsState(s) /\ (s.set = Net!NoSet \/ Whole(s.set))
    /\ s.next_epoch \in Nat \ {0}
    /\ s.current_justified.epoch \in Epochs /\ s.current_justified.epoch < s.next_epoch
    /\ s.current_justified = Net!Checkpoint(s.current_justified.epoch,
                                            Net!Root(b, s.current_justified.epoch))
    /\ s.finalized.epoch \in Epochs /\ s.finalized.epoch <= s.current_justified.epoch
    /\ s.finalized.root = Net!Root(b, s.finalized.epoch)
    /\ \A c \in s.own : c.root = Net!Root(b, c.epoch)
    /\ Net!Checkpoint(s.next_epoch, Net!Root(b, s.next_epoch)) \in s.own
    /\ s.current_justified.epoch = 0 \/ s.current_justified \in s.own

\* What one epoch does to it: nothing is decided, or a quorum justifies the branch's
\* checkpoint of the epoch, and finalizes the source when that is the epoch before.
Quiet(s, n) == n.current_justified = s.current_justified /\ n.finalized = s.finalized
Advanced(b, s, n, included) ==
    /\ n.current_justified.epoch = s.next_epoch
    /\ n.finalized.epoch = IF s.current_justified.epoch + 1 = s.next_epoch
                           THEN s.current_justified.epoch ELSE s.finalized.epoch
    /\ \E Q \in Quorums : \A v \in Q : \E d \in included[v] :
         /\ d.source = s.current_justified
         /\ d.target.epoch = s.next_epoch /\ d.target.root = Net!Root(b, s.next_epoch)

\* The record of own checkpoints keeps what the next epoch needs.
LEMMA RecordedOwn ==
    ASSUME NEW b \in Branches, NEW d, IsState(d), NEW m \in Nat \ {0}, d.next_epoch = m,
           Whole(d.set),
           d.current_justified.epoch \in Epochs, d.current_justified.epoch < m,
           d.current_justified = Net!Checkpoint(d.current_justified.epoch,
                                                Net!Root(b, d.current_justified.epoch)),
           d.finalized.epoch \in Epochs, d.finalized.epoch <= d.current_justified.epoch,
           d.finalized.root = Net!Root(b, d.finalized.epoch),
           \A c \in d.own : c.root = Net!Root(b, c.epoch),
           d.current_justified.epoch = 0 \/ d.current_justified \in d.own,
           NEW n, n = Net!RecordOwn(d, m, Net!Root(b, m))
    PROVE  /\ BranchState(b, n) /\ n.next_epoch = m
           /\ n.current_justified = d.current_justified /\ n.finalized = d.finalized
<1> DEFINE new == Net!Checkpoint(m, Net!Root(b, m))
           own == {c \in {x \in d.own : x.epoch # m} \cup {new} :
                     c.epoch = m \/ c.epoch = d.current_justified.epoch}
<1>1. n = [d EXCEPT !.own = own]
  BY DEF Net!RecordOwn, Net!OwnRule, IsState
<1>2. new.epoch = m /\ new.root = Net!Root(b, m)
  BY DEF Net!Checkpoint
<1>3. Epochs \subseteq Nat
  BY EpochAssumption DEF Epochs
<1>4. /\ \A c \in own : c.root = Net!Root(b, c.epoch)
      /\ new \in own
      /\ d.current_justified.epoch = 0 \/ d.current_justified \in own
  BY <1>2, <1>3
<1> HIDE DEF own
<1>5. /\ IsState(n) /\ n.own = own /\ n.set = d.set /\ n.next_epoch = d.next_epoch
      /\ n.current_justified = d.current_justified /\ n.finalized = d.finalized
  BY <1>1 DEF IsState
<1> QED
  BY <1>4, <1>5 DEF BranchState

\* Whether the epoch is quiet or justifies the branch's checkpoint, the checkpoints
\* it leaves are again the branch's own, in order and before the next epoch.
LEMMA OwnCheckpoints ==
    ASSUME NEW b, NEW s, BranchState(b, s), NEW e, e = s.next_epoch, e \in Epochs,
           NEW done, done.own = s.own,
           \/ Quiet(s, done)
           \/ /\ done.current_justified = Net!Checkpoint(e, Net!Root(b, e))
              /\ done.finalized = s.finalized \/ done.finalized = s.current_justified
    PROVE  /\ done.current_justified.epoch \in Epochs /\ done.current_justified.epoch < e + 1
           /\ done.current_justified = Net!Checkpoint(done.current_justified.epoch,
                                                      Net!Root(b, done.current_justified.epoch))
           /\ done.finalized.epoch \in Epochs
           /\ done.finalized.epoch <= done.current_justified.epoch
           /\ done.finalized.root = Net!Root(b, done.finalized.epoch)
           /\ done.current_justified.epoch = 0 \/ done.current_justified \in done.own
<1> DEFINE j == s.current_justified
           k == s.finalized
<1>1. Epochs \subseteq Nat
  BY EpochAssumption DEF Epochs
<1>2. /\ j.epoch \in Epochs /\ j.epoch < e /\ j = Net!Checkpoint(j.epoch, Net!Root(b, j.epoch))
      /\ k.epoch \in Epochs /\ k.epoch <= j.epoch /\ k.root = Net!Root(b, k.epoch)
      /\ Net!Checkpoint(e, Net!Root(b, e)) \in s.own
      /\ j.epoch = 0 \/ j \in s.own
  BY ZenonT(60) DEF BranchState
<1>3. j.root = Net!Root(b, j.epoch)
  BY <1>2 DEF Net!Checkpoint
<1>4. j.epoch < e + 1 /\ e < e + 1 /\ k.epoch <= e /\ j.epoch <= e /\ j.epoch <= j.epoch
  BY <1>1, <1>2
<1> HIDE DEF j, k
<1>5. CASE Quiet(s, done)
  BY <1>2, <1>4, <1>5, ZenonT(60) DEF Quiet, j, k
<1>6. CASE /\ done.current_justified = Net!Checkpoint(e, Net!Root(b, e))
           /\ done.finalized = k \/ done.finalized = j
  <2>1. done.current_justified.epoch = e
    BY <1>6 DEF Net!Checkpoint
  <2> QED
    BY <1>2, <1>3, <1>4, <1>6, <2>1, ZenonT(60)
<1> QED
  BY <1>5, <1>6, ZenonT(60) DEF j, k

\* An epoch closes on a branch as no change or as one justification by a quorum.
LEMMA Folded ==
    ASSUME NEW b \in Branches, NEW s, BranchState(b, s), s.next_epoch <= MaxEpoch,
           NEW included, NEW done, done = Net!ProcessEpoch(s, Roster, included),
           NEW n, n = Net!RecordOwn(done, done.next_epoch, Net!Root(b, done.next_epoch))
    PROVE  /\ BranchState(b, n) /\ n.next_epoch = s.next_epoch + 1
           /\ Quiet(s, n) \/ Advanced(b, s, n, included)
<1> DEFINE e == s.next_epoch
           r == Net!Root(b, e)
           s1 == [s EXCEPT !.next_epoch = e + 1]
           o == Net!Opened(s1, Roster, e)
           valid == Net!ValidVoters(o, Roster, included, e)
           winners == Net!Winners(o, Roster, included, e)
           present == Net!Present(Roster, included, e)
           f == Net!FinalizedNow(o, e, winners)
           d == Net!Decide(o, Roster, e, winners, f, present)
<1>1. /\ e \in Nat \ {0} /\ e <= MaxEpoch /\ e \in Epochs /\ Epochs \subseteq Nat
      /\ IsState(s) /\ (s.set = Net!NoSet \/ Whole(s.set))
  BY EpochAssumption DEF BranchState, Epochs
<1>2. done = Net!Adjust(d, Net!LeakAdjusted(o, Roster), Roster, valid, e)
  BY <1>1 DEF Net!ProcessEpoch, Net!Count, Net!Settle, IsState
<1>3. /\ IsState(s1) /\ s1.next_epoch = e + 1 /\ s1.set = s.set /\ s1.own = s.own
      /\ s1.finalized = s.finalized /\ s1.current_justified = s.current_justified
  BY <1>1 DEF IsState
<1> HIDE DEF e, s1
<1>4. /\ IsState(o) /\ Whole(o.set) /\ o.next_epoch = e + 1 /\ o.own = s.own
      /\ o.finalized = s.finalized /\ o.current_justified = s.current_justified
  BY <1>1, <1>3, OpenedWhole
<1> HIDE DEF o, valid, r
<1>5. \A root \in winners :
        /\ root = r
        /\ \E Q \in Quorums : \A v \in Q : \E x \in included[v] :
             /\ x.source = s.current_justified
             /\ x.target.epoch = e /\ x.target.root = root
  <2> SUFFICES ASSUME NEW root \in winners
               PROVE  /\ root = r
                      /\ \E Q \in Quorums : \A v \in Q : \E x \in included[v] :
                           /\ x.source = s.current_justified
                           /\ x.target.epoch = e /\ x.target.root = root
    BY ZenonT(60)
  <2>1. /\ root \in Net!OwnRoots(o, e)
        /\ \E Q \in Quorums : \A v \in Q : \E x \in included[v] :
             /\ x.source = o.current_justified
             /\ x.target.epoch = e /\ x.target.root = root
    BY <1>1, <1>4, WinnerHasQuorum
  <2>2. root = r
    BY <1>4, <2>1, ZenonT(60) DEF Net!OwnRoots, BranchState, r
  <2> QED
    BY <1>4, <2>1, <2>2, ZenonT(60)
<1> HIDE DEF winners, present
<1>6. /\ o.current_justified.epoch \in Nat /\ o.current_justified.epoch < e
      /\ s.finalized.epoch \in Nat /\ s.finalized.epoch <= s.current_justified.epoch
  BY <1>1, <1>4, ZenonT(60) DEF BranchState, e
<1>7. /\ IsState(d) /\ Whole(d.set) /\ d.next_epoch = e + 1 /\ d.own = s.own
      /\ winners = {} => /\ d.current_justified = s.current_justified
                         /\ d.finalized = s.finalized
      /\ winners # {} => /\ d.current_justified = [epoch |-> e, root |-> r]
                         /\ d.finalized = IF f = {} THEN s.finalized ELSE s.current_justified
  <2> HIDE DEF f
  <2>1. f = Net!FinalizedNow(o, e, winners)
    BY DEF f
  <2> HIDE DEF d
  <2>2. d = Net!Decide(o, Roster, e, winners, f, present)
    BY DEF d
  <2> QED
    BY <1>1, <1>4, <1>5, <1>6, <2>1, <2>2, Decided
<1>8. winners # {} =>
        d.finalized.epoch = IF s.current_justified.epoch + 1 = e
                            THEN s.current_justified.epoch ELSE s.finalized.epoch
  <2> SUFFICES ASSUME winners # {}
               PROVE  d.finalized.epoch = IF s.current_justified.epoch + 1 = e
                                          THEN s.current_justified.epoch ELSE s.finalized.epoch
    OBVIOUS
  <2>1. s.current_justified.epoch > s.finalized.epoch => Net!SourceIsOwn(o, e)
    <3> SUFFICES ASSUME s.current_justified.epoch > s.finalized.epoch
                 PROVE  Net!SourceIsOwn(o, e)
      OBVIOUS
    <3>1. s.current_justified \in s.own
      BY <1>4, <1>6 DEF BranchState
    <3> QED
      BY <1>4, <3>1 DEF Net!SourceIsOwn, Net!OwnRoots
  <2>2. f # {} <=> /\ s.current_justified.epoch + 1 = e
                   /\ s.current_justified.epoch > s.finalized.epoch
    BY <1>4, <2>1, ZenonT(60) DEF Net!FinalizedNow
  <2> HIDE DEF d, f
  <2>3. CASE f = {}
    <3>1. d.finalized = s.finalized
      BY <1>7, <2>3, ZenonT(60)
    <3>2. ~(s.current_justified.epoch + 1 = e /\ s.current_justified.epoch > s.finalized.epoch)
      BY <2>2, <2>3, ZenonT(60)
    <3>3. s.current_justified.epoch + 1 = e => s.current_justified.epoch = s.finalized.epoch
      BY <1>4, <1>6, <3>2
    <3> QED
      BY <3>1, <3>3, ZenonT(60)
  <2>4. CASE f # {}
    BY <1>7, <2>2, <2>4, ZenonT(60)
  <2> QED
    BY <2>3, <2>4, ZenonT(60)
<1> HIDE DEF d, f
<1>9. /\ IsState(done) /\ Whole(done.set) /\ done.next_epoch = e + 1 /\ done.own = s.own
      /\ done.finalized = d.finalized /\ done.current_justified = d.current_justified
  BY <1>2, <1>7, AdjustKeeps
<1>10. /\ done.current_justified.epoch \in Epochs /\ done.current_justified.epoch < e + 1
       /\ done.current_justified = Net!Checkpoint(done.current_justified.epoch,
                                                  Net!Root(b, done.current_justified.epoch))
       /\ done.finalized.epoch \in Epochs
       /\ done.finalized.epoch <= done.current_justified.epoch
       /\ done.finalized.root = Net!Root(b, done.finalized.epoch)
       /\ done.current_justified.epoch = 0 \/ done.current_justified \in done.own
  <2>1. \/ Quiet(s, done)
        \/ /\ done.current_justified = Net!Checkpoint(e, r)
           /\ done.finalized = s.finalized \/ done.finalized = s.current_justified
    BY <1>7, <1>9, ZenonT(60) DEF Quiet, Net!Checkpoint
  <2>2. e = s.next_epoch /\ r = Net!Root(b, e)
    BY DEF e, r
  <2> QED
    BY <1>1, <1>9, <2>1, <2>2, OwnCheckpoints
<1>11. /\ BranchState(b, n) /\ n.next_epoch = e + 1
       /\ n.current_justified = done.current_justified /\ n.finalized = done.finalized
  <2>1. \A c \in done.own : c.root = Net!Root(b, c.epoch)
    BY <1>9, ZenonT(60) DEF BranchState
  <2>2. e + 1 \in Nat \ {0}
    BY <1>1
  <2> QED
    BY <1>9, <1>10, <2>1, <2>2, RecordedOwn
<1>12. CASE winners = {}
  BY <1>7, <1>9, <1>11, <1>12, ZenonT(60) DEF Quiet, e
<1>13. CASE winners # {}
  <2>1. PICK root \in winners : TRUE
    BY <1>13
  <2> QED
    <3>1. n.current_justified.epoch = e
      BY <1>7, <1>9, <1>11, <1>13
    <3>2. n.finalized.epoch = IF s.current_justified.epoch + 1 = e
                              THEN s.current_justified.epoch ELSE s.finalized.epoch
      BY <1>8, <1>9, <1>11, <1>13
    <3>3. \E Q \in Quorums : \A v \in Q : \E x \in included[v] :
            /\ x.source = s.current_justified
            /\ x.target.epoch = e /\ x.target.root = r
      BY <1>5, <2>1
    <3>4. Advanced(b, s, n, included)
      BY <3>1, <3>2, <3>3 DEF Advanced, e, r
    <3> QED
      BY <1>11, <3>4, ZenonT(60) DEF e
<1> QED
  BY <1>12, <1>13

-----------------------------------------------------------------------------
\* What the network's state says of its history: a branch justified and finalized what the
\* links say; the ballot of the epoch is among the votes; every vote lies below the marks of
\* its voter's signing record, and an epoch without a ballot has no vote.
HistoryInv ==
    /\ epoch \in Nat \ {0}
    /\ st = [b \in Branches |-> st[b]]
    /\ ballot = [v \in Honest |-> ballot[v]] /\ mark \in [Honest -> Nat]
    /\ links \in [Branches -> SUBSET Links] /\ finalized \in [Branches -> SUBSET Epochs]
    /\ \A b \in Branches :
         /\ BranchState(b, st[b]) /\ st[b].next_epoch \in {epoch, epoch + 1}
         /\ Justified(b, st[b].current_justified.epoch)
         /\ st[b].finalized.epoch \in finalized[b]
    /\ \A v \in Honest : \A d \in ballot[v] :
         /\ d.target = [epoch |-> epoch, root |-> d.target.root]
         /\ [voter |-> v, source |-> d.source, target |-> d.target] \in votes
    /\ \A d \in votes :
         /\ d.voter \in Honest /\ d.source.epoch \in Nat /\ d.target.epoch \in Nat
         /\ d.source.epoch <= mark[d.voter] /\ d.target.epoch <= epoch
         /\ d.target.epoch = epoch => ballot[d.voter] # {}

LEMMA BranchStatePrime ==
    ASSUME NEW b PROVE BranchState(b, st'[b]) <=> BranchState(b, st[b])'
BY ZenonT(60) DEF BranchState, IsState, Whole, Seen, Net!NoSet, Net!Checkpoint, Net!Root, Epochs

\* Checkpoints of the network are those of FFG, and the voters under the guard its honest ones.
LEMMA SameNames ==
    /\ Net!Correct = Honest
    /\ \A b \in Branches, e \in Epochs : Net!Checkpoint(e, Net!Root(b, e)) = CheckpointOf(b, e)
BY QuorumAssumption, HistoryAssumption, ZenonT(60) DEF Net!Correct, Net!Checkpoint, CheckpointOf

LEMMA HistoryInitInv == HistoryInit => HistoryInv
<1> SUFFICES ASSUME HistoryInit PROVE HistoryInv
  OBVIOUS
<1>1. /\ votes = {} /\ links = [b \in Branches |-> {}] /\ finalized = [b \in Branches |-> {0}]
      /\ epoch = 1 /\ ballot = [v \in Honest |-> {}] /\ mark = [v \in Honest |-> 0]
      /\ st = [b \in Branches |-> Net!RecordOwn(Net!NewState(Net!Genesis), 1, Net!Root(b, 1))]
  BY SameNames DEF HistoryInit, Init, Net!Init, Net!NoBallot
<1>2. 0 \in Epochs /\ ForkEpoch \in Nat \ {0}
  BY EpochAssumption, HistoryAssumption DEF Epochs, Net!NetConstants
<1>3. ASSUME NEW b \in Branches
      PROVE  /\ BranchState(b, st[b]) /\ st[b].next_epoch = 1
             /\ st[b].current_justified.epoch = 0 /\ st[b].finalized.epoch = 0
  <2> DEFINE g == Net!Genesis
             new == Net!NewState(g)
             own == {Net!Checkpoint(1, Net!Root(b, 1))}
             s == st[b]
  <2>1. g = [epoch |-> 0, root |-> Common] /\ Net!Root(b, 0) = Common
    BY <1>2 DEF Net!Genesis, Net!Checkpoint, Net!Root
  <2>2. new = [justified |-> {g}, current_justified |-> g, finalized |-> g,
               leaked |-> Net!Nobody, next_epoch |-> 1, set |-> Net!NoSet, own |-> {}]
    BY <2>1 DEF Net!NewState
  <2> HIDE DEF g, new
  <2>3. s = [new EXCEPT !.own = own]
    <3>1. Net!Checkpoint(1, Net!Root(b, 1)).epoch = 1
      BY DEF Net!Checkpoint
    <3>2. s = Net!RecordOwn(new, 1, Net!Root(b, 1))
      BY <1>1 DEF new, g
    <3>3. own = {c \in {d \in new.own : d.epoch # 1} \cup own :
                    c.epoch = 1 \/ c.epoch = new.current_justified.epoch}
      BY <2>2, <3>1
    <3> QED
      BY <2>2, <3>2, <3>3 DEF Net!RecordOwn, Net!OwnRule
  <2> HIDE DEF s, own
  <2>4. /\ IsState(s) /\ s.set = Net!NoSet /\ s.next_epoch = 1 /\ s.own = own
        /\ s.current_justified = g /\ s.finalized = g
    BY <2>2, <2>3, ZenonT(60) DEF IsState
  <2>5. BranchState(b, s)
    <3>1. g = Net!Checkpoint(0, Net!Root(b, 0)) /\ g.epoch = 0 /\ g.root = Net!Root(b, 0)
      BY <2>1 DEF Net!Checkpoint
    <3>2. \A c \in own : c.root = Net!Root(b, c.epoch)
      BY DEF own, Net!Checkpoint
    <3>3. Net!Checkpoint(1, Net!Root(b, 1)) \in own
      BY DEF own
    <3> QED
      BY <1>2, <2>4, <3>1, <3>2, <3>3 DEF BranchState
  <2> QED
    BY <2>1, <2>4, <2>5 DEF s
<1> QED
  BY <1>1, <1>2, <1>3 DEF HistoryInv, Justified

\* A vote the signing record lets through is a vote of FFG: it conflicts with no earlier one.
LEMMA HistoryVoteStep ==
    ASSUME HistoryInv, NEW v \in Honest, NEW b \in Branches, HistoryVote(v, b)
    PROVE  HistoryInv' /\ Next
<1> DEFINE s == st[b].current_justified.epoch
           d == VoteOf(v, b, s, epoch)
<1>1. /\ epoch \in Nat \ {0} /\ epoch <= MaxEpoch /\ epoch \in Epochs /\ ballot[v] = {}
      /\ Net!Open(b)
  BY EpochAssumption DEF HistoryVote, Net!Vote, HistoryInv, Epochs
<1>2. /\ s \in Epochs /\ s < epoch /\ s >= mark[v] /\ Justified(b, s)
      /\ s \in Nat /\ mark[v] \in Nat
      /\ st[b].current_justified = CheckpointOf(b, s)
  <2>1. BranchState(b, st[b]) /\ Justified(b, s) /\ mark[v] \in Nat
    BY DEF HistoryInv
  <2>2. s >= mark[v]
    BY DEF HistoryVote, Net!Vote
  <2>3. s \in Epochs /\ s < epoch /\ st[b].current_justified = CheckpointOf(b, s)
    BY <1>1, <2>1, SameNames, ZenonT(60) DEF BranchState, Net!Open
  <2> QED
    BY <2>1, <2>2, <2>3, EpochAssumption DEF Epochs
<1>3. /\ Net!VoteOn(b) = [source |-> CheckpointOf(b, s), target |-> CheckpointOf(b, epoch)]
      /\ votes' = votes \cup {d}
  <2>1. Net!VoteOn(b) = [source |-> CheckpointOf(b, s), target |-> CheckpointOf(b, epoch)]
    BY <1>1, <1>2, SameNames, ZenonT(60) DEF Net!VoteOn
  <2> QED
    BY <2>1 DEF HistoryVote, VoteOf
<1>4. /\ d.voter = v /\ d.source.epoch = s /\ d.target.epoch = epoch
      /\ d.source = CheckpointOf(b, s) /\ d.target = CheckpointOf(b, epoch)
      /\ d = [voter |-> v, source |-> d.source, target |-> d.target]
  BY ZenonT(60) DEF VoteOf, CheckpointOf
<1>5. /\ ballot' = [ballot EXCEPT ![v] = {Net!VoteOn(b)}]
      /\ mark' = [mark EXCEPT ![v] = s]
      /\ st' = st /\ epoch' = epoch /\ links' = links /\ finalized' = finalized
  BY ZenonT(60) DEF HistoryVote, Net!Vote
<1> HIDE DEF d
<1>6. \A x \in votes : x.voter = v => ~Conflict(d, x)
  <2> SUFFICES ASSUME NEW x \in votes, x.voter = v PROVE ~Conflict(d, x)
    BY ZenonT(60)
  <2>1. /\ x.source.epoch \in Nat /\ x.target.epoch \in Nat /\ x.source.epoch <= mark[v]
        /\ x.target.epoch <= epoch /\ x.target.epoch # epoch
    BY <1>1, ZenonT(60) DEF HistoryInv
  <2> QED
    BY <1>1, <1>2, <1>4, <2>1 DEF Conflict, Surrounds, IsDoubleVote
<1>7. Next
  <2>1. Vote(v, b, s, epoch)
    BY <1>2, <1>3, <1>5, <1>6, ZenonT(60) DEF Vote, d
  <2> QED
    BY <1>1, <1>2, <2>1 DEF Next
<1>8. HistoryInv'
  <2>1. /\ ballot' = [w \in Honest |-> ballot'[w]] /\ mark' \in [Honest -> Nat]
        /\ \A w \in Honest : /\ w # v => ballot'[w] = ballot[w] /\ mark'[w] = mark[w]
                             /\ w = v => ballot'[w] = {Net!VoteOn(b)} /\ mark'[w] = s
    BY <1>2, <1>5, ZenonT(60) DEF HistoryInv
  <2>2. ASSUME NEW w \in Honest, NEW x \in ballot'[w]
        PROVE  /\ x.target = [epoch |-> epoch', root |-> x.target.root]
               /\ [voter |-> w, source |-> x.source, target |-> x.target] \in votes'
    <3>1. CASE w = v
      <4>1. x = [source |-> d.source, target |-> d.target] /\ x.source = d.source /\ x.target = d.target
        BY <1>3, <1>4, <2>1, <2>2, <3>1
      <4>2. x.target = [epoch |-> epoch, root |-> x.target.root]
        BY <1>4, <4>1, ZenonT(60) DEF CheckpointOf
      <4> QED
        BY <1>3, <1>4, <1>5, <3>1, <4>1, <4>2
    <3>2. CASE w # v
      BY <1>3, <1>5, <2>1, <2>2, <3>2, ZenonT(60) DEF HistoryInv
    <3> QED
      BY <3>1, <3>2
  <2>3. ASSUME NEW x \in votes'
        PROVE  /\ x.voter \in Honest /\ x.source.epoch \in Nat /\ x.target.epoch \in Nat
               /\ x.source.epoch <= mark'[x.voter] /\ x.target.epoch <= epoch'
               /\ x.target.epoch = epoch' => ballot'[x.voter] # {}
    <3>1. CASE x = d
      BY <1>1, <1>2, <1>4, <1>5, <2>1, <3>1
    <3>2. CASE x \in votes
      <4>1. /\ x.voter \in Honest /\ x.source.epoch \in Nat /\ x.target.epoch \in Nat
            /\ x.source.epoch <= mark[x.voter] /\ x.target.epoch <= epoch
            /\ x.target.epoch = epoch => ballot[x.voter] # {}
        BY <3>2, ZenonT(60) DEF HistoryInv
      <4> QED
        BY <1>2, <1>5, <2>1, <4>1
    <3> QED
      BY <1>3, <2>3, <3>1, <3>2
  <2>4. \A c \in Branches :
          /\ BranchState(c, st[c])' /\ st'[c].next_epoch \in {epoch', epoch' + 1}
          /\ Justified(c, st[c].current_justified.epoch)'
          /\ st'[c].finalized.epoch \in finalized'[c]
    <3>1. \A c \in Branches : BranchState(c, st'[c])
      BY <1>5 DEF HistoryInv
    <3>2. \A c \in Branches : BranchState(c, st[c])'
      BY <3>1, BranchStatePrime, ZenonT(60)
    <3> QED
      BY <1>5, <3>2, ZenonT(60) DEF HistoryInv, Justified
  <2>5. /\ epoch' \in Nat \ {0} /\ st' = [c \in Branches |-> st'[c]]
        /\ links' \in [Branches -> SUBSET Links] /\ finalized' \in [Branches -> SUBSET Epochs]
    BY <1>5, ZenonT(60) DEF HistoryInv
  <2> QED
    BY <2>1, <2>2, <2>3, <2>4, <2>5, ZenonT(60) DEF HistoryInv
<1> QED
  BY <1>7, <1>8, ZenonT(60)

\* An epoch that closes is a justification of FFG, or nothing that FFG sees.
LEMMA HistoryCloseStep ==
    ASSUME HistoryInv, NEW b \in Branches, NEW also \in SUBSET (Validators \ Honest),
           NEW got \in Net!Deliveries(b), HistoryClose(b, got, also)
    PROVE  HistoryInv' /\ [Next]_vars
<1> DEFINE s == st[b]
           included == Net!Included(b, got, also)
           done == Net!ProcessEpoch(s, Roster, included)
           n == Net!RecordOwn(done, done.next_epoch, Net!Root(b, done.next_epoch))
           from == s.current_justified.epoch
           last == \A c \in Branches \ {b} : ~Net!Open(c)
<1>1. /\ epoch \in Nat \ {0} /\ epoch <= MaxEpoch /\ epoch \in Epochs /\ s.next_epoch = epoch
      /\ Epochs \subseteq Nat
  BY EpochAssumption DEF HistoryClose, Net!CloseEpoch, Net!Open, HistoryInv, Epochs
<1>2. /\ BranchState(b, s) /\ Justified(b, from) /\ s.finalized.epoch \in finalized[b]
      /\ from \in Epochs /\ from < epoch /\ s.current_justified = CheckpointOf(b, from)
      /\ links \in [Branches -> SUBSET Links] /\ finalized \in [Branches -> SUBSET Epochs]
  <2>1. /\ BranchState(b, s) /\ Justified(b, from) /\ s.finalized.epoch \in finalized[b]
        /\ links \in [Branches -> SUBSET Links] /\ finalized \in [Branches -> SUBSET Epochs]
    BY DEF HistoryInv
  <2>2. from \in Epochs /\ from < epoch /\ s.current_justified = CheckpointOf(b, from)
    BY <1>1, <2>1, SameNames, ZenonT(60) DEF BranchState
  <2> QED
    BY <2>1, <2>2, ZenonT(60)
<1>3. /\ st' = [st EXCEPT ![b] = n]
      /\ epoch' = IF last THEN epoch + 1 ELSE epoch
      /\ ballot' = IF last THEN [v \in Honest |-> {}] ELSE ballot
      /\ mark' = mark /\ votes' = votes
      /\ finalized' = [finalized EXCEPT ![b] = @ \cup {st'[b].finalized.epoch}]
      /\ links' = [links EXCEPT ![b] = IF st'[b].current_justified.epoch = from THEN @
                                       ELSE @ \cup {Link(from, st'[b].current_justified.epoch)}]
  BY SameNames DEF HistoryClose, Net!CloseEpoch, Net!Tick, Net!Fold, Net!NoBallot
<1> HIDE DEF last
<1>4. /\ BranchState(b, n) /\ n.next_epoch = epoch + 1
      /\ Quiet(s, n) \/ Advanced(b, s, n, included)
  <2> HIDE DEF n, done, s, included
  <2>1. done = Net!ProcessEpoch(s, Roster, included)
    BY DEF done
  <2>2. n = Net!RecordOwn(done, done.next_epoch, Net!Root(b, done.next_epoch))
    BY ZenonT(60) DEF n
  <2>3. BranchState(b, s) /\ s.next_epoch <= MaxEpoch /\ s.next_epoch = epoch
    BY <1>1, <1>2
  <2>4. /\ BranchState(b, n) /\ n.next_epoch = s.next_epoch + 1
        /\ Quiet(s, n) \/ Advanced(b, s, n, included)
    BY <2>1, <2>2, <2>3, Folded
  <2> QED
    BY <2>3, <2>4
<1> HIDE DEF n, done
<1>5. st'[b] = n /\ \A c \in Branches \ {b} : st'[c] = st[c]
  BY <1>3, ZenonT(60) DEF HistoryInv
<1> DEFINE Kept == /\ [Next]_vars
                   /\ links' \in [Branches -> SUBSET Links]
                   /\ finalized' \in [Branches -> SUBSET Epochs]
                   /\ \A c \in Branches : links[c] \subseteq links'[c]
                   /\ \A c \in Branches : finalized[c] \subseteq finalized'[c]
                   /\ n.current_justified.epoch = 0
                      \/ \E l \in links'[b] : l.target = n.current_justified.epoch
                   /\ n.finalized.epoch \in finalized'[b]
<1>6. ASSUME Quiet(s, n) PROVE Kept
  <2>1. n.current_justified = s.current_justified /\ n.finalized = s.finalized
    BY <1>6 DEF Quiet
  <2>2. links' = links /\ finalized' = finalized
    <3>1. st'[b].current_justified.epoch = from /\ st'[b].finalized.epoch = s.finalized.epoch
      BY <1>5, <2>1
    <3>2. links' = [links EXCEPT ![b] = @]
      BY <1>3, <3>1
    <3>3. finalized' = [finalized EXCEPT ![b] = @]
      BY <1>2, <1>3, <3>1, ZenonT(60)
    <3> QED
      BY <1>2, <3>2, <3>3, ZenonT(60)
  <2>3. n.current_justified.epoch = 0 \/ \E l \in links'[b] : l.target = n.current_justified.epoch
    BY <1>2, <2>1, <2>2 DEF Justified
  <2>4. [Next]_vars
    BY <1>3, <2>2 DEF vars
  <2> QED
    BY <1>2, <2>1, <2>2, <2>3, <2>4
<1>7. ASSUME Advanced(b, s, n, included) PROVE Kept
  <2>1. PICK Q \in Quorums : \A v \in Q : \E d \in included[v] :
          /\ d.source = s.current_justified
          /\ d.target.epoch = epoch /\ d.target.root = Net!Root(b, epoch)
    BY <1>1, <1>7, ZenonT(60) DEF Advanced
  <2>2. /\ n.current_justified.epoch = epoch
        /\ n.finalized.epoch = IF from + 1 = epoch THEN from ELSE s.finalized.epoch
    BY <1>1, <1>7, ZenonT(60) DEF Advanced
  <2>3. ASSUME NEW v \in Q \cap Honest PROVE VoteOf(v, b, from, epoch) \in votes
    <3>1. PICK d \in included[v] : /\ d.source = s.current_justified
                                   /\ d.target.epoch = epoch /\ d.target.root = Net!Root(b, epoch)
      BY <2>1, ZenonT(60)
    <3>2. d \in ballot[v]
      BY <2>3, QuorumAssumption, ZenonT(60) DEF Net!Included
    <3>3. /\ d.target = [epoch |-> epoch, root |-> d.target.root]
          /\ [voter |-> v, source |-> d.source, target |-> d.target] \in votes
      BY <2>3, <3>2, ZenonT(60) DEF HistoryInv
    <3>4. d.source = CheckpointOf(b, from) /\ d.target = CheckpointOf(b, epoch)
      BY <1>1, <1>2, <3>1, <3>3, SameNames, ZenonT(60) DEF Net!Checkpoint
    <3> QED
      BY <3>3, <3>4, ZenonT(60) DEF VoteOf
  <2>4. /\ links' = [links EXCEPT ![b] = @ \cup {Link(from, epoch)}]
        /\ finalized' = [finalized EXCEPT ![b] = IF epoch = from + 1 THEN @ \cup {from} ELSE @]
    <3>1. epoch # from
      BY <1>1, <1>2
    <3>2. links' = [links EXCEPT ![b] = @ \cup {Link(from, epoch)}]
      BY <1>3, <1>5, <2>2, <3>1, ZenonT(60)
    <3>3. finalized' = [finalized EXCEPT ![b] = @ \cup {n.finalized.epoch}]
      BY <1>3, <1>5, ZenonT(60)
    <3>4. CASE from + 1 = epoch
      BY <2>2, <3>2, <3>3, <3>4, ZenonT(60)
    <3>5. CASE from + 1 # epoch
      <4>1. finalized[b] \cup {n.finalized.epoch} = finalized[b]
        BY <1>2, <2>2, <3>5, ZenonT(60)
      <4> QED
        BY <1>2, <3>2, <3>3, <3>5, <4>1, ZenonT(60)
    <3> QED
      BY <3>4, <3>5, ZenonT(60)
  <2>5. Next
    <3>1. Justify(b, from, epoch, Q)
      BY <1>2, <1>3, <2>3, <2>4, ZenonT(60) DEF Justify
    <3> QED
      BY <1>1, <1>2, <3>1, ZenonT(60) DEF Next
  <2>6. Link(from, epoch) \in Links /\ Link(from, epoch).target = epoch
    BY <1>1, <1>2, ZenonT(60) DEF Link, Links
  <2> HIDE DEF s, from
  <2>7. /\ links' \in [Branches -> SUBSET Links] /\ finalized' \in [Branches -> SUBSET Epochs]
        /\ \A c \in Branches : links[c] \subseteq links'[c]
        /\ \A c \in Branches : finalized[c] \subseteq finalized'[c]
        /\ Link(from, epoch) \in links'[b]
    BY <1>2, <2>4, <2>6, ZenonT(60)
  <2>8. n.finalized.epoch \in finalized'[b]
    BY <1>2, <2>2, <2>4, <2>7
  <2> QED
    BY <2>2, <2>5, <2>6, <2>7, <2>8, ZenonT(60)
<1>8. Kept
  BY <1>4, <1>6, <1>7, ZenonT(60)
<1> HIDE DEF included
<1>9. HistoryInv'
  <2>1. last => \A c \in Branches : st'[c].next_epoch = epoch + 1
    BY <1>4, <1>5, ZenonT(60) DEF last, Net!Open, HistoryInv
  <2>2. ASSUME NEW c \in Branches
        PROVE  /\ BranchState(c, st[c])' /\ st'[c].next_epoch \in {epoch', epoch' + 1}
               /\ Justified(c, st[c].current_justified.epoch)'
               /\ st'[c].finalized.epoch \in finalized'[c]
    <3>1. BranchState(c, st'[c])
      BY <1>4, <1>5, ZenonT(60) DEF HistoryInv
    <3>2. st'[c].next_epoch \in {epoch', epoch' + 1}
      <4>1. st'[c].next_epoch \in {epoch, epoch + 1}
        BY <1>4, <1>5, ZenonT(60) DEF HistoryInv
      <4> QED
        BY <1>1, <1>3, <2>1, <4>1, ZenonT(60)
    <3>3. st'[c].finalized.epoch \in finalized'[c]
      BY <1>5, <1>8, ZenonT(60) DEF HistoryInv
    <3>4. st'[c].current_justified.epoch = 0
          \/ \E l \in links'[c] : l.target = st'[c].current_justified.epoch
      BY <1>5, <1>8, ZenonT(60) DEF HistoryInv, Justified
    <3> QED
      BY <3>1, <3>2, <3>3, <3>4, BranchStatePrime, ZenonT(60) DEF Justified
  <2>3. ASSUME NEW v \in Honest, NEW d \in ballot'[v]
        PROVE  /\ d.target = [epoch |-> epoch', root |-> d.target.root]
               /\ [voter |-> v, source |-> d.source, target |-> d.target] \in votes'
    BY <1>3, <2>3, ZenonT(60) DEF HistoryInv
  <2>4. ASSUME NEW d \in votes'
        PROVE  /\ d.voter \in Honest /\ d.source.epoch \in Nat /\ d.target.epoch \in Nat
               /\ d.source.epoch <= mark'[d.voter] /\ d.target.epoch <= epoch'
               /\ d.target.epoch = epoch' => ballot'[d.voter] # {}
    BY <1>1, <1>3, <2>4 DEF HistoryInv
  <2>5. /\ epoch' \in Nat \ {0} /\ st' = [c \in Branches |-> st'[c]]
        /\ ballot' = [v \in Honest |-> ballot'[v]] /\ mark' \in [Honest -> Nat]
    <3>1. epoch' \in Nat \ {0} /\ mark' \in [Honest -> Nat]
      BY <1>1, <1>3 DEF HistoryInv
    <3>2. st' = [c \in Branches |-> st'[c]]
      BY <1>3 DEF HistoryInv
    <3>3. ballot' = [v \in Honest |-> ballot'[v]]
      <4>1. CASE last
        BY <1>3, <4>1, ZenonT(60)
      <4>2. CASE ~last
        BY <1>3, <4>2 DEF HistoryInv
      <4> QED
        BY <4>1, <4>2
    <3> QED
      BY <3>1, <3>2, <3>3, ZenonT(60)
  <2>6. links' \in [Branches -> SUBSET Links] /\ finalized' \in [Branches -> SUBSET Epochs]
    BY <1>8, ZenonT(60)
  <2> QED
    BY <2>2, <2>3, <2>4, <2>5, <2>6, ZenonT(60) DEF HistoryInv
<1> QED
  BY <1>8, <1>9, ZenonT(60)

\* Every step keeps the history in step with the network, and is a step of FFG or none.
LEMMA HistoryStep == HistoryInv /\ [HistoryNext]_historyVars => HistoryInv' /\ [Next]_vars
<1> SUFFICES ASSUME HistoryInv, [HistoryNext]_historyVars
             PROVE  HistoryInv' /\ [Next]_vars
  OBVIOUS
<1>1. ASSUME NEW v \in Honest, NEW b \in Branches, HistoryVote(v, b)
      PROVE  HistoryInv' /\ [Next]_vars
  BY <1>1, HistoryVoteStep
<1>2. ASSUME NEW b \in Branches, NEW also \in SUBSET (Validators \ Honest),
             NEW got \in Net!Deliveries(b), HistoryClose(b, got, also)
      PROVE  HistoryInv' /\ [Next]_vars
  BY <1>2, HistoryCloseStep
<1>3. CASE UNCHANGED historyVars
  <2>1. /\ st' = st /\ epoch' = epoch /\ ballot' = ballot /\ mark' = mark /\ votes' = votes
        /\ links' = links /\ finalized' = finalized
    BY <1>3 DEF historyVars
  <2>2. [Next]_vars
    BY <2>1 DEF vars
  <2>3. \A b \in Branches : BranchState(b, st[b])'
    <3>1. \A b \in Branches : BranchState(b, st'[b])
      BY <2>1, ZenonT(60) DEF HistoryInv
    <3> QED
      BY <3>1, BranchStatePrime, ZenonT(60)
  <2>4. HistoryInv'
    BY <2>1, <2>3 DEF HistoryInv, Justified
  <2> QED
    BY <2>2, <2>4
<1> QED
  BY <1>1, <1>2, <1>3 DEF HistoryNext

\* The network's state and its history stay in step.
THEOREM HistoryInStep == HistorySpec => []HistoryInv
<1> QED
  BY HistoryInitInv, HistoryStep, PTL DEF HistorySpec

\* The finality states of a split chain implement FFG, for every number of validators and
\* branches, every stake and every quorum of two thirds: process_epoch under the signing
\* record takes no step that FFG does not.
THEOREM NetworkImplementsFFG == HistorySpec => ImplementsFFG
<1>1. HistoryInit => Init
  BY DEF HistoryInit
<1>2. HistorySpec => Init /\ [][Next]_vars
  BY <1>1, HistoryInitInv, HistoryStep, PTL DEF HistorySpec
<1> QED
  BY <1>2 DEF ImplementsFFG, Spec

\* Hence nothing finalized on one branch of a split chain conflicts with what any other
\* branch finalized, then or before.
THEOREM HistoryAgrees == HistorySpec => []Agreement
<1>1. HistorySpec => Spec
  BY NetworkImplementsFFG DEF ImplementsFFG
<1> QED
  BY <1>1, AgreementHolds

\* And the finalized checkpoints that the branches hold at any one time lie on one history.
THEOREM BranchesAgree == HistorySpec => []Net!Agreement
<1>1. HistoryInv /\ Agreement => Net!Agreement
  <2> SUFFICES ASSUME HistoryInv, Agreement, NEW b \in Branches, NEW c \in Branches
               PROVE  Net!Compatible(st[b].finalized, st[c].finalized)
    BY ZenonT(60) DEF Net!Agreement
  <2>1. ASSUME NEW x \in Branches
        PROVE  /\ st[x].finalized.epoch \in Epochs /\ st[x].finalized.epoch \in finalized[x]
               /\ st[x].finalized.root = Net!Root(x, st[x].finalized.epoch)
    BY DEF HistoryInv, BranchState
  <2>2. \A x \in Branches, e \in Epochs : ChainRoot[x][e] = Net!Root(x, e)
    BY HistoryAssumption, ZenonT(60)
  <2>3. ASSUME NEW x \in Branches, NEW y \in Branches,
               st[x].finalized.epoch <= st[y].finalized.epoch
        PROVE  Net!Root(x, st[x].finalized.epoch) = Net!Root(y, st[x].finalized.epoch)
    BY <2>1, <2>2, <2>3 DEF Agreement
  <2>4. ASSUME NEW x \in Branches, NEW y \in Branches,
               st[x].finalized.epoch <= st[y].finalized.epoch
        PROVE  x = y \/ Net!Root(x, st[x].finalized.epoch) = Common
    BY <2>3, <2>4 DEF Net!Root
  <2>5. st[b].finalized.epoch \in Nat /\ st[c].finalized.epoch \in Nat
    BY <2>1, EpochAssumption DEF Epochs
  <2>6. CASE st[b].finalized.epoch <= st[c].finalized.epoch
    BY <2>1, <2>4, <2>6, ZenonT(60) DEF Net!Compatible
  <2>7. CASE st[c].finalized.epoch <= st[b].finalized.epoch
    BY <2>1, <2>4, <2>7 DEF Net!Compatible
  <2> QED
    BY <2>5, <2>6, <2>7
<1> QED
  BY <1>1, HistoryInStep, HistoryAgrees, PTL
=============================================================================

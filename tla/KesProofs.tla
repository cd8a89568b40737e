----------------------------- MODULE KesProofs -----------------------------
(***************************************************************************)
(* The validator's KES key, for trees of any size and number, any period   *)
(* length, any delay and any number of faults.                             *)
(*                                                                         *)
(* First the chain's record of it (KesLedger): RetiredDisjoint and         *)
(* AuthorityFixed.  Then the node's files, memory and jobs beside that     *)
(* record (KesNode): NodeInv, and that it survives what the chain does,    *)
(* crashes and start-ups, and the steps between two file plans.            *)
(* KesNodeProofs has the file operations and the theorems.                 *)
(***************************************************************************)
EXTENDS KesNode, TLAPS

\* A leaf goes to the SMT solver unless it names another prover.
USE SMTT(60), Z3T(60)

Keys == [tree : Nat, start : Nat]
Olds == [key : Keys, end : Nat]
Entry == [current : Keys, next : Keys, retired : SUBSET Olds]

Disjoint(retired) ==
    \A r, s \in retired : r = s \/ r.end <= s.key.start \/ s.end <= r.key.start

Before(retired, p) == \A old \in retired : old.key.start < old.end /\ old.end <= p

WellFormed(en) ==
    /\ en \in Entry
    /\ Disjoint(en.retired)
    /\ Before(en.retired, en.current.start)
    /\ en.next # NoKey => en.current.start < en.next.start

\* The inductive invariant: the entry is well formed, and no replaced key
\* reaches past the present period.
LedgerInv ==
    /\ epoch \in Nat
    /\ enforcedFrom \in Nat \cup {NoEpoch}
    /\ WellFormed(entry)
    /\ Before(entry.retired, Period(epoch))

\* The key signatures of period p verify under, NoKey for none.
KeyAt(en, p) == IF Signs(InForce(en, p), p) THEN InForce(en, p) ELSE NoKey

\* Periods are natural numbers and follow the epochs.
LEMMA PeriodNat == ASSUME NEW e \in Nat PROVE Period(e) \in Nat
BY KesConstants DEF Period

\* A later epoch (kes_period) is in the same period or a later one.
LEMMA PeriodMonotone ==
    ASSUME NEW e \in Nat, NEW f \in Nat, e <= f PROVE Period(e) <= Period(f)
BY KesConstants DEF Period

\* In a well-formed entry at most one retired key covers a period, so the
\* search finds that one, in whatever order it looks.
LEMMA RetiredFound ==
    ASSUME NEW en, WellFormed(en), NEW p \in Nat, NEW old \in en.retired, Covers(old, p)
    PROVE  InForce(en, p) = old.key
<1>1. /\ old \in Olds /\ en.current.start \in Nat /\ en.next.start \in Nat
      /\ old.end <= en.current.start
      /\ en.next # NoKey => en.current.start < en.next.start
  BY DEF WellFormed, Entry, Keys, Before
<1>2. p < en.current.start /\ ~(en.next # NoKey /\ p >= en.next.start)
  BY <1>1 DEF Covers, Olds, Keys
<1>3. ASSUME NEW r \in en.retired, Covers(r, p) PROVE r = old
  <2>1. r = old \/ r.end <= old.key.start \/ old.end <= r.key.start
    BY DEF WellFormed, Disjoint
  <2>2. r \in Olds
    BY DEF WellFormed, Entry
  <2> QED
    BY <1>1, <1>3, <2>1, <2>2 DEF Covers, Olds, Keys
<1> DEFINE found == CHOOSE r \in en.retired : Covers(r, p)
<1>4. found \in en.retired /\ Covers(found, p)
  BY ZenonT(60)
<1>5. found = old
  BY <1>3, <1>4
<1>6. InForce(en, p) = found.key
  <2>1. ~(p >= en.current.start)
    BY <1>1, <1>2
  <2>2. \E r \in en.retired : Covers(r, p)
    OBVIOUS
  <2> QED
    BY <1>2, <2>1, <2>2, ZenonT(60) DEF InForce
<1> QED
  BY <1>5, <1>6, ZenonT(60)

\* Without a covering key the search ends at the current key.
LEMMA RetiredMissed ==
    ASSUME NEW en, WellFormed(en), NEW p \in Nat, p < en.current.start,
           \A old \in en.retired : ~Covers(old, p)
    PROVE  InForce(en, p) = en.current /\ KeyAt(en, p) = NoKey
<1>1. en.current.start \in Nat /\ en.next.start \in Nat
  BY DEF WellFormed, Entry, Keys
<1>2. en.next # NoKey => en.current.start < en.next.start
  BY DEF WellFormed
<1>3. InForce(en, p) = en.current
  BY <1>1, <1>2 DEF InForce
<1>4. ~Signs(en.current, p)
  BY <1>1 DEF Signs
<1> QED
  BY <1>3, <1>4 DEF KeyAt

\* Pruning at period q only drops keys whose last period is more than
\* History before q.
LEMMA PrunedKeeps ==
    ASSUME NEW retired \in SUBSET Olds, NEW q \in Nat, NEW p \in Nat, p + History >= q,
           NEW old \in retired, Covers(old, p)
    PROVE  old \in Pruned(retired, q)
<1>1. old.end \in Nat /\ p < old.end
  BY DEF Olds, Covers
<1> QED
  BY <1>1, KesConstants DEF Pruned

\* Pruning (KesEntry::prune) adds no key.
LEMMA PrunedSubset ==
    ASSUME NEW retired, NEW q PROVE Pruned(retired, q) \subseteq retired
BY DEF Pruned

\* Retiring a key from its start to the start of the one that follows keeps
\* a history disjoint and before that one.
LEMMA RetireDisjoint ==
    ASSUME NEW retired \in SUBSET Olds, Disjoint(retired), NEW k \in Keys,
           Before(retired, k.start), NEW end \in Nat, k.start < end
    PROVE  /\ retired \cup {Retire(k, end)} \in SUBSET Olds
           /\ Disjoint(retired \cup {Retire(k, end)})
           /\ Before(retired \cup {Retire(k, end)}, end)
<1> DEFINE r == Retire(k, end)
<1>1. r \in Olds /\ r.key = k /\ r.end = end
  BY DEF Retire, Olds
<1> HIDE DEF r
<1>2. \A s \in retired : s.end \in Nat /\ s.key.start \in Nat /\ s.end <= k.start
  BY DEF Before, Olds, Keys
<1>3. k.start \in Nat
  BY DEF Keys
<1>4. Disjoint(retired \cup {r})
  BY <1>1, <1>2 DEF Disjoint
<1>5. Before(retired \cup {r}, end)
  BY <1>1, <1>2, <1>3 DEF Before
<1> QED
  BY <1>1, <1>4, <1>5 DEF r

\* A history stays one when keys are dropped from it.
LEMMA DisjointSubset ==
    ASSUME NEW retired, NEW kept, kept \subseteq retired, NEW q,
           Disjoint(retired), Before(retired, q)
    PROVE  Disjoint(kept) /\ Before(kept, q)
BY DEF Disjoint, Before

\* Two entries give a period before both their current keys the same key when
\* they hold the same retired keys that cover it.
LEMMA SameRetired ==
    ASSUME NEW en, WellFormed(en), NEW em, WellFormed(em), NEW p \in Nat,
           p < en.current.start, p < em.current.start,
           \A old \in en.retired : Covers(old, p) => old \in em.retired,
           \A old \in em.retired : Covers(old, p) => old \in en.retired
    PROVE  KeyAt(em, p) = KeyAt(en, p)
<1>1. CASE \E old \in en.retired : Covers(old, p)
  <2>1. PICK old \in en.retired : Covers(old, p)
    BY <1>1
  <2>2. InForce(en, p) = old.key
    BY <2>1, RetiredFound
  <2>3. InForce(em, p) = old.key
    BY <2>1, RetiredFound
  <2> QED
    BY <2>2, <2>3 DEF KeyAt
<1>2. CASE ~ \E old \in en.retired : Covers(old, p)
  <2>1. KeyAt(en, p) = NoKey
    BY <1>2, RetiredMissed
  <2>2. KeyAt(em, p) = NoKey
    BY <1>2, RetiredMissed
  <2> QED
    BY <2>1, <2>2
<1> QED
  BY <1>1, <1>2

\* Settling keeps an entry well formed, and its history before the present.
LEMMA SettledWellFormed ==
    ASSUME NEW en, WellFormed(en), NEW q \in Nat, Before(en.retired, q)
    PROVE  WellFormed(Settled(en, q)) /\ Before(Settled(en, q).retired, q)
<1>1. /\ en \in Entry /\ en.current \in Keys /\ en.next \in Keys
      /\ en.retired \in SUBSET Olds /\ Disjoint(en.retired)
      /\ Before(en.retired, en.current.start)
      /\ en.next # NoKey => en.current.start < en.next.start
  BY DEF WellFormed, Entry
<1>2. en.current.start \in Nat /\ en.next.start \in Nat /\ NoKey \in Keys
  BY <1>1 DEF Keys, NoKey
<1>3. CASE en.next # NoKey /\ q >= en.next.start
  <2> DEFINE all == en.retired \cup {Retire(en.current, en.next.start)}
             kept == Pruned(all, q)
  <2>1. Settled(en, q) = [current |-> en.next, next |-> NoKey, retired |-> kept]
    BY <1>3 DEF Settled
  <2>2. all \in SUBSET Olds /\ Disjoint(all) /\ Before(all, en.next.start)
    BY <1>1, <1>2, <1>3, RetireDisjoint
  <2>3. kept \subseteq all
    BY PrunedSubset
  <2> HIDE DEF all, kept
  <2>4. kept \in SUBSET Olds /\ Disjoint(kept) /\ Before(kept, en.next.start)
    BY <2>2, <2>3, DisjointSubset
  <2>5. Before(kept, q)
    BY <1>2, <1>3, <2>4 DEF Before, Olds, Keys
  <2> QED
    BY <1>1, <1>2, <2>1, <2>4, <2>5 DEF WellFormed, Entry
<1>4. CASE ~(en.next # NoKey /\ q >= en.next.start)
  <2> DEFINE kept == Pruned(en.retired, q)
  <2>1. Settled(en, q) = [en EXCEPT !.retired = kept]
    BY <1>4 DEF Settled
  <2>2. kept \subseteq en.retired
    BY PrunedSubset
  <2> HIDE DEF kept
  <2>3. Disjoint(kept) /\ Before(kept, en.current.start) /\ Before(kept, q)
    BY <1>1, <2>2, DisjointSubset
  <2>4. /\ Settled(en, q).current = en.current /\ Settled(en, q).next = en.next
        /\ Settled(en, q).retired = kept /\ Settled(en, q) \in Entry
    BY <1>1, <2>1, <2>2 DEF Entry
  <2> QED
    BY <1>1, <2>3, <2>4 DEF WellFormed
<1> QED
  BY <1>3, <1>4

\* Settling at period q changes the key of no period up to q that is at most
\* History back.
LEMMA SettledKeyAt ==
    ASSUME NEW en, WellFormed(en), NEW q \in Nat, Before(en.retired, q),
           NEW p \in Nat, p <= q, p + History >= q
    PROVE  KeyAt(Settled(en, q), p) = KeyAt(en, p)
<1> DEFINE em == Settled(en, q)
<1> SUFFICES KeyAt(em, p) = KeyAt(en, p)
  OBVIOUS
<1>1. /\ en.current \in Keys /\ en.next \in Keys /\ en.retired \in SUBSET Olds
      /\ en.current.start \in Nat /\ en.next.start \in Nat
      /\ en.next # NoKey => en.current.start < en.next.start
      /\ en \in Entry
  BY DEF WellFormed, Entry, Keys
<1>2. WellFormed(em)
  BY SettledWellFormed
<1>3. CASE en.next # NoKey /\ q >= en.next.start
  <2> DEFINE r == Retire(en.current, en.next.start)
             all == en.retired \cup {r}
  <2>1. em.current = en.next /\ em.next = NoKey /\ em.retired = Pruned(all, q)
    BY <1>3 DEF Settled
  <2>2. r \in Olds /\ r.key = en.current /\ r.end = en.next.start
    BY <1>1 DEF Retire, Olds
  <2>3. all \in SUBSET Olds
    BY <1>1, <2>2
  <2> HIDE DEF em, r
  <2>4. CASE p >= en.next.start
    <3>1. InForce(en, p) = en.next
      BY <1>3, <2>4 DEF InForce
    <3>2. InForce(em, p) = en.next
      BY <2>1, <2>4 DEF InForce
    <3> QED
      BY <3>1, <3>2 DEF KeyAt
  <2>5. CASE p < en.next.start /\ p >= en.current.start
    <3>1. InForce(en, p) = en.current
      BY <1>1, <2>5 DEF InForce
    <3>2. Covers(r, p)
      BY <2>2, <2>5 DEF Covers
    <3>3. r \in em.retired
      BY <2>1, <2>3, <3>2, PrunedKeeps
    <3>4. InForce(em, p) = en.current
      BY <1>2, <2>2, <3>2, <3>3, RetiredFound
    <3> QED
      BY <3>1, <3>4 DEF KeyAt
  <2>6. CASE p < en.next.start /\ p < en.current.start
    <3>1. \A old \in en.retired : Covers(old, p) => old \in em.retired
      BY <2>1, <2>3, PrunedKeeps
    <3>2. ~Covers(r, p)
      BY <1>1, <2>2, <2>6 DEF Covers
    <3>3. \A old \in em.retired : Covers(old, p) => old \in en.retired
      BY <2>1, <3>2, PrunedSubset
    <3> QED
      BY <1>2, <2>1, <2>6, <3>1, <3>3, SameRetired
  <2> QED
    BY <1>1, <2>4, <2>5, <2>6
<1>4. CASE ~(en.next # NoKey /\ q >= en.next.start)
  <2>1. em.current = en.current /\ em.next = en.next /\ em.retired = Pruned(en.retired, q)
    BY <1>1, <1>4 DEF Settled, Entry
  <2> HIDE DEF em
  <2>2. CASE p >= en.current.start
    <3>1. InForce(en, p) = en.current
      BY <1>1, <1>4, <2>2 DEF InForce
    <3>2. InForce(em, p) = en.current
      BY <1>1, <1>4, <2>1, <2>2 DEF InForce
    <3> QED
      BY <3>1, <3>2 DEF KeyAt
  <2>3. CASE p < en.current.start
    <3>1. \A old \in en.retired : Covers(old, p) => old \in em.retired
      BY <1>1, <2>1, PrunedKeeps
    <3>2. \A old \in em.retired : old \in en.retired
      BY <2>1, PrunedSubset
    <3> QED
      BY <1>2, <2>1, <2>3, <3>1, <3>2, SameRetired
  <2> QED
    BY <1>1, <2>2, <2>3
<1> QED
  BY <1>3, <1>4

\* A successor that starts after period q changes the key of no period up to q.
LEMMA SuccessorKeyAt ==
    ASSUME NEW en \in Entry, en.next = NoKey, NEW k \in Keys, NEW q \in Nat, k.start = q + 1,
           NEW p \in Nat, p <= q
    PROVE  KeyAt([en EXCEPT !.next = k], p) = KeyAt(en, p)
<1> DEFINE em == [en EXCEPT !.next = k]
<1>1. em.current = en.current /\ em.next = k /\ em.retired = en.retired
  BY DEF Entry
<1> HIDE DEF em
<1>2. ~(p >= k.start)
  OBVIOUS
<1>3. InForce(em, p) = InForce(en, p)
  BY <1>1, <1>2 DEF InForce
<1> QED
  BY <1>3 DEF KeyAt, em

\* The entry in which a key that has signed its last period is replaced by one
\* that starts later.
Rescued(en, fresh, q) ==
    [current |-> fresh, next |-> NoKey,
     retired |-> en.retired \cup Pruned({Retire(en.current, EndPeriod(en.current))}, q)]

\* Replacing an expired key keeps the entry well formed and every key of a
\* period up to q.
LEMMA RescuedKeeps ==
    ASSUME NEW en, WellFormed(en), en.next = NoKey, NEW q \in Nat, Before(en.retired, q),
           EndPeriod(en.current) <= q, NEW fresh \in Keys, fresh.start > q
    PROVE  /\ WellFormed(Rescued(en, fresh, q)) /\ Before(Rescued(en, fresh, q).retired, q)
           /\ \A p \in Nat : p <= q /\ p + History >= q =>
                  KeyAt(Rescued(en, fresh, q), p) = KeyAt(en, p)
<1> DEFINE em == Rescued(en, fresh, q)
           end == EndPeriod(en.current)
           r == Retire(en.current, end)
           all == en.retired \cup {r}
           kept == Pruned({r}, q)
<1>1. /\ en.current \in Keys /\ en.retired \in SUBSET Olds /\ Disjoint(en.retired)
      /\ Before(en.retired, en.current.start) /\ en.current.start \in Nat
      /\ fresh.start \in Nat
  BY DEF WellFormed, Entry, Keys
<1>2. end \in Nat /\ en.current.start < end /\ end <= q /\ end = en.current.start + Leaves
  BY <1>1, KesConstants DEF EndPeriod
<1>3. r \in Olds /\ r.key = en.current /\ r.end = end
  BY <1>1, <1>2 DEF Retire, Olds
<1>4. em.current = fresh /\ em.next = NoKey /\ em.retired = en.retired \cup kept
  BY DEF Rescued
<1>5. kept \subseteq {r}
  BY PrunedSubset
<1> HIDE DEF end
<1>6. all \in SUBSET Olds /\ Disjoint(all) /\ Before(all, end)
  BY <1>1, <1>2, RetireDisjoint, ZenonT(60)
<1>7. em.retired \subseteq all
  BY <1>4, <1>5
<1>8. Disjoint(em.retired) /\ Before(em.retired, end)
  BY <1>6, <1>7, DisjointSubset
<1>9. Before(em.retired, q) /\ Before(em.retired, fresh.start)
  <2>1. \A old \in em.retired : old.key.start < old.end /\ old.end <= end /\ old.end \in Nat
    BY <1>6, <1>7, <1>8 DEF Before, Olds
  <2> QED
    BY <1>1, <1>2, <2>1 DEF Before
<1>10. em \in Entry
  BY <1>4, <1>6, <1>7 DEF Rescued, Entry, Keys, NoKey
<1>11. WellFormed(em)
  BY <1>4, <1>8, <1>9, <1>10 DEF WellFormed
<1> HIDE DEF em, r, kept
<1>12. ASSUME NEW p \in Nat, p <= q, p + History >= q PROVE KeyAt(em, p) = KeyAt(en, p)
  <2>1. p < em.current.start
    BY <1>1, <1>4, <1>12
  <2>2. CASE p < en.current.start
    <3>1. ~Covers(r, p)
      BY <1>1, <1>3, <2>2 DEF Covers
    <3>2. \A old \in em.retired : Covers(old, p) => old \in en.retired
      BY <1>4, <1>5, <3>1
    <3>3. \A old \in en.retired : old \in em.retired
      BY <1>4
    <3> QED
      BY <1>11, <2>1, <2>2, <3>2, <3>3, SameRetired
  <2>3. CASE en.current.start <= p /\ p < end
    <3>1. Covers(r, p)
      BY <1>3, <2>3 DEF Covers
    <3>2. r \in kept
      BY <1>3, <1>12, <3>1, PrunedKeeps DEF kept
    <3>3. InForce(em, p) = en.current
      BY <1>3, <1>4, <1>11, <3>1, <3>2, RetiredFound
    <3>4. InForce(en, p) = en.current
      BY <2>3 DEF InForce
    <3> QED
      BY <3>3, <3>4 DEF KeyAt
  <2>4. CASE en.current.start <= p /\ end <= p
    <3>1. \A old \in em.retired : ~Covers(old, p)
      <4>1. \A old \in em.retired : old.end <= end /\ old.end \in Nat
        BY <1>6, <1>7, <1>8 DEF Before, Olds
      <4> QED
        BY <1>2, <2>4, <4>1 DEF Covers
    <3>2. KeyAt(em, p) = NoKey
      BY <1>11, <2>1, <3>1, RetiredMissed
    <3>3. InForce(en, p) = en.current
      BY <2>4 DEF InForce
    <3>4. ~Signs(en.current, p)
      BY <1>2, <2>4 DEF Signs, end
    <3> QED
      BY <3>2, <3>3, <3>4 DEF KeyAt
  <2> QED
    BY <1>1, <1>2, <2>2, <2>3, <2>4
<1> QED
  BY <1>9, <1>11, <1>12 DEF em

\* Pruning (KesEntry::prune) judges every key by itself.
LEMMA PrunedUnion ==
    ASSUME NEW A, NEW B, NEW q PROVE Pruned(A \cup B, q) = Pruned(A, q) \cup Pruned(B, q)
BY DEF Pruned

\* No replaced key reaches the present period, so the key in force there is
\* the successor or the current key.
LEMMA PresentKey ==
    ASSUME NEW en, WellFormed(en), NEW q \in Nat, Before(en.retired, q)
    PROVE  InForce(en, q) = IF en.next # NoKey /\ q >= en.next.start THEN en.next ELSE en.current
<1>1. \A old \in en.retired : ~Covers(old, q)
  BY DEF WellFormed, Entry, Olds, Before, Covers
<1> QED
  BY <1>1 DEF InForce

\* A rescue replaces the settled entry's key, which has signed its last period.
LEMMA RescueReplaces ==
    ASSUME NEW en, WellFormed(en), NEW q \in Nat, Before(en.retired, q),
           q >= EndPeriod(InForce(en, q)), ~PendingAt(en, q),
           NEW fresh \in Keys, fresh.start > q
    PROVE  /\ Settled(en, q).next = NoKey
           /\ EndPeriod(Settled(en, q).current) <= q
           /\ ReplacedBy(en, fresh, q) = Rescued(Settled(en, q), fresh, q)
<1>1. /\ en \in Entry /\ en.current.start \in Nat /\ en.next.start \in Nat /\ fresh.start \in Nat
  BY DEF WellFormed, Entry, Keys
<1>2. CASE en.next # NoKey
  <2>1. q >= en.next.start
    BY <1>1, <1>2 DEF PendingAt
  <2>2. InForce(en, q) = en.next
    BY <1>2, <2>1, PresentKey
  <2>3. EndPeriod(en.next) <= q /\ Sooner(EndPeriod(en.next), fresh.start) = EndPeriod(en.next)
    BY <1>1, <2>2, KesConstants DEF EndPeriod, Sooner
  <2> DEFINE a == Retire(en.current, en.next.start)
             b == Retire(en.next, EndPeriod(en.next))
  <2>4. /\ Settled(en, q).current = en.next /\ Settled(en, q).next = NoKey
        /\ Settled(en, q).retired = Pruned(en.retired \cup {a}, q)
    BY <1>2, <2>1 DEF Settled
  <2>5. ReplacedBy(en, fresh, q) =
            [current |-> fresh, next |-> NoKey, retired |-> Pruned(en.retired \cup {a, b}, q)]
    BY <1>2, <2>3 DEF ReplacedBy
  <2>6. Pruned(en.retired \cup {a, b}, q) = Pruned(en.retired \cup {a}, q) \cup Pruned({b}, q)
    <3> HIDE DEF a, b
    <3>1. en.retired \cup {a, b} = (en.retired \cup {a}) \cup {b}
      OBVIOUS
    <3> QED
      BY <3>1, PrunedUnion
  <2> QED
    BY <2>3, <2>4, <2>5, <2>6, ZenonT(60) DEF Rescued
<1>3. CASE en.next = NoKey
  <2>1. InForce(en, q) = en.current
    BY <1>3, PresentKey
  <2>2. EndPeriod(en.current) <= q
        /\ Sooner(EndPeriod(en.current), fresh.start) = EndPeriod(en.current)
    BY <1>1, <2>1, KesConstants DEF EndPeriod, Sooner
  <2> DEFINE b == Retire(en.current, EndPeriod(en.current))
  <2>3. Settled(en, q) = [en EXCEPT !.retired = Pruned(en.retired, q)]
    BY <1>3 DEF Settled
  <2>4. /\ Settled(en, q).current = en.current /\ Settled(en, q).next = NoKey
        /\ Settled(en, q).retired = Pruned(en.retired, q)
    BY <1>1, <1>3, <2>3 DEF Entry
  <2>5. ReplacedBy(en, fresh, q) =
            [current |-> fresh, next |-> NoKey, retired |-> Pruned(en.retired \cup {b}, q)]
    BY <1>3, <2>2 DEF ReplacedBy
  <2>6. Pruned(en.retired \cup {b}, q) = Pruned(en.retired, q) \cup Pruned({b}, q)
    BY PrunedUnion
  <2> QED
    BY <2>2, <2>4, <2>5, <2>6, ZenonT(60) DEF Rescued
<1> QED
  BY <1>2, <1>3

\* A rotation signed by the key in force gives the settled entry a successor.
LEMMA RotationKeeps ==
    ASSUME NEW en, WellFormed(en), NEW q \in Nat, Before(en.retired, q), NEW t \in Nat,
           ~PendingAt(Settled(en, q), q), Signs(InForce(en, q), q)
    PROVE  LET em == [Settled(en, q) EXCEPT !.next = [tree |-> t, start |-> q + 1]]
           IN  /\ WellFormed(em) /\ Before(em.retired, q)
               /\ \A p \in Nat : p <= q /\ p + History >= q => KeyAt(em, p) = KeyAt(en, p)
<1> DEFINE S == Settled(en, q)
           k == [tree |-> t, start |-> q + 1]
           em == [S EXCEPT !.next = k]
<1>1. WellFormed(S) /\ Before(S.retired, q)
  BY SettledWellFormed
<1>2. /\ S \in Entry /\ S.next.start \in Nat /\ S.current.start \in Nat /\ en \in Entry
      /\ en.current.start \in Nat /\ en.next.start \in Nat
  BY <1>1 DEF WellFormed, Entry, Keys
<1>3. k \in Keys /\ k.start = q + 1
  BY DEF Keys
<1>4. S.next = NoKey /\ S.current.start <= q
  <2>1. CASE en.next # NoKey /\ q >= en.next.start
    BY <2>1 DEF Settled
  <2>2. CASE ~(en.next # NoKey /\ q >= en.next.start)
    <3>1. S.current = en.current /\ S.next = en.next
      BY <1>2, <2>2 DEF Settled, Entry
    <3>2. InForce(en, q) = en.current
      BY <2>2, PresentKey
    <3> QED
      BY <1>2, <2>2, <3>1, <3>2 DEF PendingAt, Signs
  <2> QED
    BY <2>1, <2>2
<1>5. em.current = S.current /\ em.next = k /\ em.retired = S.retired /\ em \in Entry
  BY <1>2, <1>3 DEF Entry
<1>6. \A p \in Nat : p <= q /\ p + History >= q => KeyAt(em, p) = KeyAt(en, p)
  <2> SUFFICES ASSUME NEW p \in Nat, p <= q, p + History >= q PROVE KeyAt(em, p) = KeyAt(en, p)
    OBVIOUS
  <2>1. KeyAt(S, p) = KeyAt(en, p)
    BY SettledKeyAt
  <2> HIDE DEF S, k
  <2>2. KeyAt(em, p) = KeyAt(S, p)
    BY <1>2, <1>3, <1>4, SuccessorKeyAt
  <2> QED
    BY <2>1, <2>2
<1> HIDE DEF S, k, em
<1>7. WellFormed(em) /\ Before(em.retired, q)
  BY <1>1, <1>2, <1>3, <1>4, <1>5 DEF WellFormed
<1> QED
  BY <1>6, <1>7 DEF em, S, k

\* A state without registrations satisfies the invariant.
LEMMA InitInv == LedgerInit => LedgerInv
<1> SUFFICES ASSUME LedgerInit PROVE LedgerInv
  OBVIOUS
<1>1. NoEntry \in Entry /\ NoEntry.retired = {} /\ NoEntry.next = NoKey
  BY DEF NoEntry, NoKey, Entry, Keys
<1> QED
  BY <1>1 DEF LedgerInit, LedgerInv, WellFormed, Disjoint, Before

\* What a registration or a rotation leaves of the entry.
EntryKept ==
    LET q == Period(epoch)
    IN  /\ WellFormed(entry') /\ Before(entry'.retired, q)
        /\ Registered'
        /\ Registered => \A p \in Nat : p <= q /\ p + History >= q => KeyAt(entry', p) = KeyAt(entry, p)

\* apply_kes_register, first registration or rescue, keeps the past keys.
LEMMA RegisterKept ==
    ASSUME LedgerInv, NEW t \in Trees, KesRegister(t) PROVE EntryKept
<1> DEFINE q == Period(epoch)
           fresh == [tree |-> t, start |-> RegisterStart]
<1>1. q \in Nat /\ WellFormed(entry) /\ Before(entry.retired, q)
  BY PeriodNat DEF LedgerInv
<1>2. RegisterStart \in Nat /\ (Registered => RegisterStart > q)
  BY <1>1, KesConstants DEF RegisterStart
<1>3. fresh \in Keys /\ fresh # NoKey /\ fresh.start = RegisterStart
  BY <1>2, KesConstants DEF Keys, NoKey
<1>4. CASE ~Registered
  <2>1. entry' = [current |-> fresh, next |-> NoKey, retired |-> {}]
    BY <1>4 DEF KesRegister, NoEntry
  <2>2. entry'.current = fresh /\ entry'.next = NoKey /\ entry'.retired = {} /\ entry' \in Entry
    BY <1>3, <2>1 DEF Entry, Keys, NoKey
  <2>3. WellFormed(entry') /\ Before(entry'.retired, q)
    BY <2>2 DEF WellFormed, Disjoint, Before
  <2> QED
    BY <1>3, <1>4, <2>2, <2>3 DEF EntryKept, Registered
<1>5. CASE Registered
  <2>1. RescueOpen /\ entry' = ReplacedBy(entry, fresh, q)
    BY <1>5 DEF KesRegister, RegisterRefuses
  <2>2. q >= EndPeriod(InForce(entry, q)) /\ ~PendingAt(entry, q)
    BY <2>1 DEF RescueOpen
  <2> DEFINE S == Settled(entry, q)
  <2>3. fresh.start > q
    BY <1>2, <1>3, <1>5
  <2> HIDE DEF q, fresh
  <2>4. S.next = NoKey /\ EndPeriod(S.current) <= q /\ entry' = Rescued(S, fresh, q)
    BY <1>1, <1>3, <2>1, <2>2, <2>3, RescueReplaces
  <2>5. WellFormed(S) /\ Before(S.retired, q)
    BY <1>1, SettledWellFormed
  <2>6. \A p \in Nat : p <= q /\ p + History >= q => KeyAt(S, p) = KeyAt(entry, p)
    BY <1>1, SettledKeyAt
  <2> HIDE DEF S
  <2>7. /\ WellFormed(entry') /\ Before(entry'.retired, q)
        /\ \A p \in Nat : p <= q /\ p + History >= q => KeyAt(entry', p) = KeyAt(S, p)
    BY <1>1, <1>3, <2>3, <2>4, <2>5, RescuedKeeps
  <2>8. Registered'
    BY <1>3, <2>4 DEF Registered, Rescued
  <2> QED
    BY <2>6, <2>7, <2>8 DEF EntryKept, q
<1> QED
  BY <1>4, <1>5

\* apply_kes_rotate keeps the past keys.
LEMMA RotateKept ==
    ASSUME LedgerInv, NEW t \in Trees, KesRotate(t, Period(epoch)) PROVE EntryKept
<1> DEFINE q == Period(epoch)
           S == Settled(entry, q)
           k == [tree |-> t, start |-> q + 1]
<1>1. q \in Nat /\ WellFormed(entry) /\ Before(entry.retired, q)
  BY PeriodNat DEF LedgerInv
<1>2. /\ Registered /\ ~PendingAt(S, q) /\ Signs(InForce(entry, q), q)
      /\ entry' = [S EXCEPT !.next = k]
  BY DEF KesRotate, RotateRefuses
<1>3. t \in Nat
  BY KesConstants
<1>4. Registered'
  <2>1. entry \in Entry /\ S \in Entry /\ k \in Keys
    BY <1>1, <1>3, SettledWellFormed DEF WellFormed, Keys
  <2>2. S.current # NoKey
    BY <1>2, <2>1 DEF Settled, Registered, Entry
  <2> HIDE DEF S, k
  <2>3. entry'.current = S.current
    BY <1>2, <2>1 DEF Entry
  <2> QED
    BY <2>2, <2>3 DEF Registered
<1> HIDE DEF q
<1>5. /\ WellFormed(entry') /\ Before(entry'.retired, q)
      /\ \A p \in Nat : p <= q /\ p + History >= q => KeyAt(entry', p) = KeyAt(entry, p)
  BY <1>1, <1>2, <1>3, RotationKeeps
<1> QED
  BY <1>4, <1>5 DEF EntryKept, q

\* The invariant is inductive.
LEMMA NextInv == LedgerInv /\ [LedgerNext]_ledgerVars => LedgerInv'
<1> SUFFICES ASSUME LedgerInv, [LedgerNext]_ledgerVars PROVE LedgerInv'
  OBVIOUS
<1>1. epoch \in Nat /\ enforcedFrom \in Nat \cup {NoEpoch} /\ WellFormed(entry)
  BY DEF LedgerInv
<1>2. CASE \E covered \in BOOLEAN : CloseEpoch(covered)
  <2>1. epoch' = epoch + 1 /\ entry' = entry /\ enforcedFrom' \in Nat \cup {NoEpoch}
    BY <1>1, <1>2, KesConstants DEF CloseEpoch
  <2>2. /\ Period(epoch) \in Nat /\ Period(epoch') \in Nat /\ Period(epoch) <= Period(epoch')
    BY <1>1, <2>1, PeriodNat, PeriodMonotone
  <2>3. Before(entry.retired, Period(epoch')) /\ WellFormed(entry)
    <3>1. Before(entry.retired, Period(epoch)) /\ \A old \in entry.retired : old.end \in Nat
      BY DEF LedgerInv, WellFormed, Entry, Olds
    <3> QED
      BY <1>1, <2>2, <3>1 DEF Before
  <2> QED
    BY <1>1, <2>1, <2>3 DEF LedgerInv
<1>3. CASE \E t \in Trees : KesRegister(t) \/ KesRotate(t, Period(epoch))
  <2>1. EntryKept
    BY <1>3, RegisterKept, RotateKept
  <2>2. epoch' = epoch /\ enforcedFrom' = enforcedFrom
    BY <1>3 DEF KesRegister, KesRotate
  <2> QED
    BY <1>1, <2>1, <2>2 DEF LedgerInv, EntryKept
<1>4. CASE UNCHANGED ledgerVars
  BY <1>1, <1>4 DEF LedgerInv, ledgerVars
<1> QED
  BY <1>2, <1>3, <1>4 DEF LedgerNext

\* Every reachable entry is well formed and its history lies in the past.
THEOREM LedgerInvariant == LedgerSpec => []LedgerInv
<1>1. LedgerInit => LedgerInv
  BY InitInv
<1>2. LedgerInv /\ [LedgerNext]_ledgerVars => LedgerInv'
  BY NextInv
<1> QED
  BY <1>1, <1>2, PTL DEF LedgerSpec

\* "Replaced keys, oldest first, with disjoint ascending period ranges" holds
\* of every entry, for every period length, tree size and delay.
THEOREM RetiredAlwaysDisjoint == LedgerSpec => []RetiredDisjoint
<1>1. LedgerInv => RetiredDisjoint
  BY DEF LedgerInv, WellFormed, Before, Disjoint, RetiredDisjoint
<1> QED
  BY <1>1, LedgerInvariant, PTL

\* What AuthorityFixed says of one step.
AuthorityStep ==
    \A e \in 0..epoch :
        /\ Period(e) + History >= Period(epoch')
        /\ ~(enforcedFrom # NoEpoch /\ e >= enforcedFrom /\ Authority(e) = Static)
        => Authority(e)' = Authority(e)

\* A step that leaves the invariant's states changes no authority within the
\* kept history.
LEMMA StepAuthority == LedgerInv /\ [LedgerNext]_ledgerVars => [AuthorityStep]_ledgerVars
<1> SUFFICES ASSUME LedgerInv, LedgerNext, NEW e \in 0..epoch,
                    Period(e) + History >= Period(epoch'),
                    ~(enforcedFrom # NoEpoch /\ e >= enforcedFrom /\ Authority(e) = Static)
             PROVE  Authority(e)' = Authority(e)
  BY DEF AuthorityStep
<1>1. /\ epoch \in Nat /\ enforcedFrom \in Nat \cup {NoEpoch} /\ e \in Nat /\ e <= epoch
      /\ Period(e) \in Nat /\ Period(epoch) \in Nat /\ Period(e) <= Period(epoch)
  BY PeriodNat, PeriodMonotone DEF LedgerInv
<1>2. CASE \E covered \in BOOLEAN : CloseEpoch(covered)
  <2>1. CASE enforcedFrom' = enforcedFrom
    BY <1>2, <2>1 DEF CloseEpoch, Authority, Registered
  <2>2. CASE enforcedFrom' # enforcedFrom
    <3>1. enforcedFrom = NoEpoch /\ enforcedFrom' = epoch + 1 + BindDelay
      BY <1>2, <2>2 DEF CloseEpoch
    <3>2. e < enforcedFrom'
      BY <1>1, <3>1, KesConstants
    <3> QED
      BY <3>1, <3>2 DEF Authority
  <2> QED
    BY <2>1, <2>2
<1>3. CASE \E t \in Trees : KesRegister(t) \/ KesRotate(t, Period(epoch))
  <2>1. EntryKept
    BY <1>3, RegisterKept, RotateKept
  <2>2. epoch' = epoch /\ enforcedFrom' = enforcedFrom
    BY <1>3 DEF KesRegister, KesRotate
  <2>3. CASE enforcedFrom = NoEpoch \/ e < enforcedFrom
    BY <2>2, <2>3 DEF Authority
  <2>4. CASE enforcedFrom # NoEpoch /\ e >= enforcedFrom
    <3>1. Registered
      BY <2>4 DEF Authority
    <3>2. KeyAt(entry', Period(e)) = KeyAt(entry, Period(e)) /\ Registered'
      BY <1>1, <2>1, <2>2, <3>1 DEF EntryKept
    <3>3. ~(enforcedFrom = NoEpoch \/ e < enforcedFrom \/ ~Registered)
      BY <1>1, <2>4, <3>1
    <3>4. Authority(e) = KeyAt(entry, Period(e))
      BY <3>3 DEF Authority, KeyAt
    <3>5. Authority(e)' = KeyAt(entry', Period(e))
      BY <2>2, <3>2, <3>3 DEF Authority, KeyAt
    <3> QED
      BY <3>2, <3>4, <3>5
  <2> QED
    BY <1>1, <2>3, <2>4 DEF NoEpoch
<1> QED
  BY <1>2, <1>3 DEF LedgerNext

\* Evidence stays provable: whatever registrations, rotations and rescues
\* follow, a signature of an epoch is verified against the same key as long
\* as the code promises to keep it (KES_KEY_HISTORY_PERIODS).
THEOREM EvidenceProvable == LedgerSpec => AuthorityFixed
<1>1. LedgerInv /\ [LedgerNext]_ledgerVars => [AuthorityStep]_ledgerVars
  BY StepAuthority
<1>2. LedgerSpec => [][AuthorityStep]_ledgerVars
  BY <1>1, LedgerInvariant, PTL DEF LedgerSpec
<1> QED
  BY <1>2 DEF AuthorityFixed, AuthorityStep

-----------------------------------------------------------------------------
(***************************************************************************)
(* The node's key files.  A key file in use names a tree and a leaf.       *)
(***************************************************************************)
KeyFile == [tree : Trees, leaf : Nat]
Files == KeyFile \cup {NoFile, Unreadable}

\* The key the chain ends up with, and whether it still waits for its first period.
Newest == IF entry.next # NoKey THEN entry.next ELSE entry.current
Pending == PendingAt(entry, Period(epoch))

\* The leaves the node has used, or may use before it evolves: a file is no earlier than any.
Marks == signed \cup {key, [tree |-> pool.by, leaf |-> pool.leaf]}
Top(f) == \A m \in Marks : m.tree = f.tree => m.leaf <= f.leaf

\* The chain will not ask key k for a later leaf.
Superseded(k) ==
    /\ k.tree # Newest.tree
    /\ Pending /\ k.tree = entry.current.tree =>
           k.leaf >= entry.next.start - 1 - entry.current.start

\* A key and a successor, in memory or as a start-up would load them, that fit the chain.
Loadable(k, n) ==
    /\ k \in KeyFile /\ n \in KeyFile \cup {NoFile}
    /\ n # NoFile =>
         /\ n.tree # k.tree
         /\ n.tree = Newest.tree => Superseded(k)
         /\ entry.next # NoKey => n.tree # entry.current.tree
    /\ Registered /\ Period(epoch) < EndPeriod(Newest) => Newest.tree \in {k.tree, n.tree}
    /\ Pending => k.tree = entry.current.tree \/ (k.tree = Newest.tree /\ duties > 0)
    /\ pool # NoTx => k.tree = pool.by /\ n.tree = pool.tree

\* A tree that is not the one just generated and still unsealed.
Old(t) == t \in 0..made /\ (keygen > 0 => t # keygen)

Successor == [tree |-> keygen, leaf |-> 0]

\* A directory a crash or a power loss may leave.
Kept(d) ==
    /\ d \in [Names -> Files]
    /\ IF Interrupted(d) THEN Loadable(d["next"], NoFile) ELSE Loadable(d["kes"], d["next"])
    /\ Top(d["kes"]) /\ Top(d["next"]) /\ Top(d["retired"])
    /\ d["retired"].tree # 0 => d["retired"].tree # d["kes"].tree /\ d["retired"].tree # d["next"].tree
    /\ Old(d["kes"].tree) /\ Old(d["retired"].tree)
    /\ Old(d["next"].tree) \/ (job.step = "seal" /\ d["next"] = Successor)

Holds(d, t) == IF Interrupted(d) THEN d["next"].tree = t ELSE t \in {d["kes"].tree, d["next"].tree}

Disk ==
    /\ dir \in dirs /\ \A d \in dirs : Kept(d)
    /\ \A d \in dirs : dir["kes"] # NoFile => Holds(d, dir["kes"].tree)

\* What the chain holds, and the pending rotation it may include.
Chain ==
    /\ LedgerInv
    /\ Registered => entry.current.tree \in Trees
    /\ entry.next # NoKey => Registered /\ entry.next.tree \in Trees
    /\ pool # NoTx =>
        /\ Registered /\ ~Pending /\ pool.period = Period(epoch)
        /\ pool.tree \in Trees /\ pool.tree # Newest.tree
        /\ pool.by = Newest.tree
        /\ Signs(Newest, pool.period) /\ pool.leaf = pool.period - Newest.start

\* Trees are numbered as they are made.
Numbered ==
    /\ made \in Nat /\ keygen \in Int /\ (keygen > 0 => keygen \in Trees /\ keygen <= made)
    /\ \A m \in Marks : Old(m.tree)
    /\ Old(next.tree) /\ Old(pool.tree) /\ Old(entry.current.tree) /\ Old(entry.next.tree)

Tallies == duties \in Nat /\ signed \subseteq KeyFile

Clean(d) == d["retired"] \in {NoFile, Unreadable}

\* No swap is under way.
Plain ==
    /\ dir["retired"] = NoFile
    /\ \A d \in dirs :
         /\ d["kes"].tree = key.tree /\ Clean(d)
         /\ next # NoFile => d["next"] = next
         /\ next = NoFile /\ d["next"] # NoFile => d["next"].tree # Newest.tree

\* A swap is under way: the chain has the successor for its newest key.
Heir == next # NoFile /\ next.tree = Newest.tree /\ \A d \in dirs : Holds(d, next.tree)
MidSwap == dir["kes"] = NoFile /\ dir["next"] = next /\ dir["retired"].tree = key.tree
Swapped == dir["kes"] = next /\ dir["next"] = NoFile

\* The file operations still to come, and what is on disk before each.
Zeroing == Zero("retired")
Removing == RemoveFile("retired")
Syncing == SyncKesDir
MovingOut == RenameTo("kes", "retired")
MovingIn == RenameTo("next", "kes")

Shreds ==
    /\ dir["kes"] # NoFile
    /\ \/ todo = <<Zeroing, Removing, Syncing>> /\ dirs = {dir} /\ dir["retired"] # NoFile
       \/ todo = <<Removing, Syncing>> /\ dirs = {dir} /\ dir["retired"] = Unreadable
       \/ /\ todo = <<Syncing>> /\ dir["retired"] = NoFile
          /\ \A d \in dirs : Clean(d) /\ d["kes"] = dir["kes"] /\ d["next"] = dir["next"]
       \/ todo = <<>> /\ dirs = {dir} /\ dir["retired"] = NoFile

Boots ==
    /\ job = [for |-> "boot", step |-> "load", epoch |-> 0]
    /\ \/ todo = <<MovingIn, Syncing, Zeroing, Removing, Syncing>> /\ Interrupted(dir) /\ dirs = {dir}
       \/ todo = <<Syncing, Zeroing, Removing, Syncing>> /\ dir["kes"] # NoFile /\ dir["retired"] # NoFile
       \/ Shreds

Adopts ==
    /\ job.step = "adopt" /\ job.for \in {"duty", "turn"}
    /\ Heir
    /\ Pending => duties > 0
    /\ \/ todo = <<MovingOut, MovingIn, Syncing, Zeroing, Removing, Syncing>> /\ Plain
       \/ todo = <<MovingIn, Syncing, Zeroing, Removing, Syncing>> /\ MidSwap
       \/ todo = <<Syncing, Zeroing, Removing, Syncing>> /\ Swapped /\ dir["retired"].tree = key.tree
       \/ Shreds /\ Swapped

Evolves ==
    /\ job.step = "evolve" /\ job.for \in {"duty", "rotate"}
    /\ Plain /\ key.tree = Newest.tree /\ Leaf \in Nat /\ Leaf > key.leaf
    /\ \/ todo = <<Create("kesTmp"), Fill("kesTmp", Evolved), RenameTo("kesTmp", "kes"), Syncing>>
       \/ todo = <<Fill("kesTmp", Evolved), RenameTo("kesTmp", "kes"), Syncing>>
       \/ todo = <<RenameTo("kesTmp", "kes"), Syncing>> /\ dir["kesTmp"] = Evolved
       \/ todo = <<Syncing>> /\ dir["kes"] = Evolved
       \/ todo = <<>> /\ dir["kes"] = Evolved /\ dirs = {dir}

Seals ==
    /\ job.step = "seal" /\ job.for = "turn"
    /\ Plain /\ next = NoFile /\ keygen > 0
    /\ \/ todo = <<Create("nextTmp"), Fill("nextTmp", Successor), RenameTo("nextTmp", "next"), Syncing>>
       \/ todo = <<Fill("nextTmp", Successor), RenameTo("nextTmp", "next"), Syncing>>
       \/ todo = <<RenameTo("nextTmp", "next"), Syncing>> /\ dir["nextTmp"] = Successor
       \/ todo = <<Syncing>> /\ dir["next"] = Successor
       \/ todo = <<>> /\ dir["next"] = Successor /\ dirs = {dir}

Rests ==
    /\ todo = <<>>
    /\ \/ job = Idle
       \/ job.for \in {"duty", "rotate"} /\ job.step = "prepare"
       \/ job.for = "turn" /\ job.step \in {"poll", "decide"}
    /\ Plain \/ (Heir /\ (MidSwap \/ Swapped))

Jobs == [for : {"duty", "turn", "rotate"},
         step : {"prepare", "adopt", "evolve", "poll", "decide", "seal"}, epoch : Nat]

JobOK ==
    job # Idle =>
        /\ job \in Jobs /\ job.epoch >= epoch
        /\ job.for \in {"turn", "rotate"} => job.epoch = epoch
        /\ job.for = "duty" => duties > 0
        /\ job.for = "rotate" => CanRotate /\ UsableNext

Unloaded == key = NoFile /\ next = NoFile /\ keygen = 0

Loaded ==
    /\ running /\ JobOK /\ Loadable(key, next) /\ Top(key) /\ Top(next)
    /\ keygen # 0 => next = NoFile
    /\ Adopts \/ Evolves \/ Seals \/ Rests

Mode ==
    \/ ~running /\ Unloaded /\ job = Idle /\ todo = <<>>
    \/ running /\ Unloaded /\ Boots
    \/ Loaded

Sound == Chain /\ Numbered /\ Tallies /\ Disk /\ Mode

NodeInv == exposed \/ Sound

-----------------------------------------------------------------------------
(* What the parts of the invariant depend on.                              *)

\* Trees are positive, periods natural, and the chain's keys have both.
LEMMA KeyTypes ==
    ASSUME Chain
    PROVE  /\ entry.current \in Keys /\ entry.next \in Keys /\ Newest \in Keys
           /\ Period(epoch) \in Nat /\ epoch \in Nat
           /\ Registered => Newest.tree \in Trees /\ entry.current.tree \in Trees
           /\ entry.next # NoKey => Registered /\ entry.next.tree \in Trees
BY PeriodNat DEF Chain, LedgerInv, WellFormed, Entry, Newest

\* From the present period on (active_key_at) the key in force is the newest one, or the
\* current one while its successor waits.
LEMMA InForceAhead ==
    ASSUME Chain, NEW p \in Nat, p >= Period(epoch)
    PROVE  InForce(entry, p) =
             IF entry.next # NoKey /\ p < entry.next.start THEN entry.current ELSE Newest
<1>1. /\ entry.current.start \in Nat /\ entry.next.start \in Nat /\ Period(epoch) \in Nat
  BY KeyTypes DEF Keys
<1>2. \A old \in entry.retired : old.end \in Nat /\ old.end <= Period(epoch)
  BY DEF Chain, LedgerInv, WellFormed, Entry, Olds, Before
<1>3. \A old \in entry.retired : ~Covers(old, p)
  BY <1>1, <1>2 DEF Covers
<1> QED
  BY <1>1, <1>3 DEF InForce, Newest

\* What the files are judged by stays while the chain, the pool, the duties and the leaves
\* in use stay.
LEMMA SameChain ==
    ASSUME UNCHANGED <<ledgerVars, pool, duties>>
    PROVE  /\ Newest' = Newest /\ (Pending' <=> Pending) /\ (Registered' <=> Registered)
           /\ \A k, n : Loadable(k, n)' <=> Loadable(k, n)
           /\ Chain => Chain'
<1>1. /\ Newest' = Newest /\ (Pending' <=> Pending) /\ (Registered' <=> Registered)
  BY DEF ledgerVars, Newest, Pending, PendingAt, Registered
<1>2. \A k : Superseded(k)' <=> Superseded(k)
  BY <1>1 DEF Superseded, ledgerVars
<1>3. \A k, n : Loadable(k, n)' <=> Loadable(k, n)
  BY <1>1, <1>2 DEF Loadable, ledgerVars
<1>4. Chain => Chain'
  BY <1>1 DEF Chain, LedgerInv, ledgerVars
<1> QED
  BY <1>1, <1>3, <1>4

\* The leaves in use stay while the messages, the key in memory and the pool stay.
LEMMA SameLeaves ==
    ASSUME UNCHANGED <<signed, key, pool>>
    PROVE  Marks' = Marks /\ \A f : Top(f)' <=> Top(f)
BY DEF Marks, Top

\* The trees in use stay while none is made.
LEMMA SameTrees ==
    ASSUME UNCHANGED <<made, keygen>>
    PROVE  \A t : Old(t)' <=> Old(t)
BY DEF Old

\* A directory stays one, unless a successor was being sealed in it.
LEMMA SameKept ==
    ASSUME UNCHANGED <<ledgerVars, pool, duties, signed, key, made, keygen>>,
           job.step # "seal" \/ job'.step = "seal"
    PROVE  \A d : Kept(d) => Kept(d)'
<1> SUFFICES ASSUME NEW d, Kept(d) PROVE Kept(d)'
  OBVIOUS
<1>1. \A k, n : Loadable(k, n)' <=> Loadable(k, n)
  BY SameChain
<1>2. \A f : Top(f)' <=> Top(f)
  BY SameLeaves
<1>3. \A t : Old(t)' <=> Old(t)
  BY SameTrees
<1>4. Old(d["next"].tree) \/ (job'.step = "seal" /\ d["next"] = Successor')
  BY DEF Kept, Successor
<1> QED
  BY <1>1, <1>2, <1>3, <1>4 DEF Kept

\* NoFile and Unreadable name no tree; a key file does.
LEMMA FileFacts ==
    /\ \A f \in KeyFile : f.tree \in Nat /\ f.tree # 0 /\ f.tree \in Trees /\ f.leaf \in Nat
    /\ \A f \in KeyFile : f # NoFile /\ f # Unreadable
    /\ NoFile.tree = 0 /\ NoFile.leaf = 0 /\ Unreadable.tree = 0 /\ Unreadable.leaf = 1
    /\ NoFile # Unreadable /\ NoFile \notin KeyFile /\ Unreadable \notin KeyFile
    /\ \A f \in Files : f.tree \in Nat /\ f.leaf \in Nat
<1>1. NoFile.tree = 0 /\ NoFile.leaf = 0 /\ Unreadable.tree = 0 /\ Unreadable.leaf = 1
  BY DEF NoFile, Unreadable
<1>2. \A f \in KeyFile : f.tree \in Nat /\ f.tree # 0 /\ f.tree \in Trees /\ f.leaf \in Nat
  BY KesConstants, ZenonT(60) DEF KeyFile
<1> QED
  BY <1>1, <1>2 DEF Files

-----------------------------------------------------------------------------
(* Which part of the mode a step starts from.                              *)

\* A job between two file plans finds a loaded key and the files at rest.
LEMMA RestingJob ==
    ASSUME Mode, running, todo = <<>>, job.step \in {"idle", "prepare", "poll", "decide"}
    PROVE  Loaded /\ Rests
BY DEF Mode, Loaded, Boots, Adopts, Evolves, Seals

\* The parts of the mode by the job they serve.
LEMMA JobParts ==
    /\ Boots => job.for = "boot" /\ job.step = "load"
    /\ Adopts => next # NoFile /\ job.for \in {"duty", "turn"} /\ job.step = "adopt"
    /\ Evolves => job.for \in {"duty", "rotate"} /\ job.step = "evolve"
    /\ Seals => keygen > 0 /\ job.for = "turn" /\ job.step = "seal"
    /\ Rests => /\ job.for \in {"idle", "duty", "turn", "rotate"}
                /\ job.step \in {"idle", "prepare", "poll", "decide"}
<1>1. Rests => job.for \in {"idle", "duty", "turn", "rotate"}
               /\ job.step \in {"idle", "prepare", "poll", "decide"}
  BY DEF Rests, Idle
<1>2. Boots => job.for = "boot" /\ job.step = "load"
  BY DEF Boots
<1>3. Adopts => next # NoFile
  BY ZenonT(60) DEF Adopts, Heir
<1> QED
  BY <1>1, <1>2, <1>3, ZenonT(60) DEF Adopts, Evolves, Seals

\* Without a job the node is down, or loaded with the files at rest.
LEMMA IdleRests ==
    ASSUME Mode, job = Idle
    PROVE  \/ ~running /\ Unloaded /\ todo = <<>>
           \/ running /\ Loaded /\ Rests
BY ZenonT(60) DEF Mode, Loaded, Boots, Adopts, Evolves, Seals, Idle

\* The key in memory, if one is loaded.
LEMMA KeyInMemory ==
    ASSUME Mode
    PROVE  key \in KeyFile \cup {NoFile} /\ next \in KeyFile \cup {NoFile}
BY DEF Mode, Loaded, Unloaded, Loadable

\* A directory in which no swap is under way has a key file.
LEMMA NotInterrupted ==
    ASSUME NEW d, d["kes"].tree # 0
    PROVE  ~Interrupted(d) /\ d["kes"] # NoFile
BY DEF Interrupted, NoFile

\* While a rotation is pending no swap is under way, and no key is made.
LEMMA PoolFacts ==
    ASSUME Chain, pool # NoTx
    PROVE  /\ ~(\E n : Heir /\ n = next /\ Loadable(key, next))
           /\ \A k : ~Loadable(k, NoFile)
           /\ ~RescueOpen
<1>1. /\ Registered /\ ~Pending /\ pool.period = Period(epoch) /\ Signs(Newest, pool.period)
      /\ pool.tree \in Trees /\ pool.tree # Newest.tree
  BY DEF Chain
<1>2. InForce(entry, Period(epoch)) = Newest
  BY <1>1, InForceAhead, KeyTypes DEF Pending, PendingAt, Keys
<1>3. ~RescueOpen
  <2>1. Newest.start \in Nat /\ Period(epoch) \in Nat /\ Leaves \in Nat
    BY KeyTypes, KesConstants DEF Keys
  <2> QED
    BY <1>1, <1>2, <2>1 DEF RescueOpen, Signs, EndPeriod
<1>4. \A k : ~Loadable(k, NoFile)
  BY <1>1, FileFacts, KesConstants DEF Loadable
<1> QED
  BY <1>1, <1>3, <1>4 DEF Heir, Loadable

-----------------------------------------------------------------------------
(* Lists of file operations.                                               *)

\* Sequences with the same entries are the same.
LEMMA SameEntries ==
    ASSUME NEW S, NEW s \in Seq(S), NEW t \in Seq(S), Len(s) = Len(t), \A i \in 1..Len(s) : s[i] = t[i]
    PROVE  s = t
OBVIOUS

\* Two plans in one: the shapes of PromoteNext and FinishInterruptedRotation.
LEMMA Append11 == ASSUME NEW a, NEW b PROVE <<a>> \o <<b>> = <<a, b>>
<1> DEFINE s == <<a>> \o <<b>>
           t == <<a, b>>
<1>1. s \in Seq({a, b}) /\ t \in Seq({a, b}) /\ Len(s) = 2 /\ Len(t) = 2
  OBVIOUS
<1>2. \A i \in 1..2 : s[i] = t[i]
  OBVIOUS
<1> HIDE DEF s, t
<1>3. s = t
  BY <1>1, <1>2, SameEntries
<1> QED
  BY <1>3 DEF s, t

\* One operation after two.
LEMMA Append21 == ASSUME NEW a, NEW b, NEW c PROVE <<a, b>> \o <<c>> = <<a, b, c>>
<1> DEFINE s == <<a, b>> \o <<c>>
           t == <<a, b, c>>
<1>1. s \in Seq({a, b, c}) /\ t \in Seq({a, b, c}) /\ Len(s) = 3 /\ Len(t) = 3
  OBVIOUS
<1>2. \A i \in 1..3 : s[i] = t[i]
  OBVIOUS
<1> HIDE DEF s, t
<1>3. s = t
  BY <1>1, <1>2, SameEntries
<1> QED
  BY <1>3 DEF s, t

\* Three operations after two.
LEMMA Append23 ==
    ASSUME NEW a, NEW b, NEW c, NEW d, NEW e PROVE <<a, b>> \o <<c, d, e>> = <<a, b, c, d, e>>
<1> DEFINE s == <<a, b>> \o <<c, d, e>>
           t == <<a, b, c, d, e>>
<1>1. s \in Seq({a, b, c, d, e}) /\ t \in Seq({a, b, c, d, e}) /\ Len(s) = 5 /\ Len(t) = 5
  OBVIOUS
<1>2. \A i \in 1..5 : s[i] = t[i]
  OBVIOUS
<1> HIDE DEF s, t
<1>3. s = t
  BY <1>1, <1>2, SameEntries
<1> QED
  BY <1>3 DEF s, t

\* Three operations after three.
LEMMA Append33 ==
    ASSUME NEW a, NEW b, NEW c, NEW d, NEW e, NEW f
    PROVE  <<a, b, c>> \o <<d, e, f>> = <<a, b, c, d, e, f>>
<1> DEFINE s == <<a, b, c>> \o <<d, e, f>>
           t == <<a, b, c, d, e, f>>
<1>1. s \in Seq({a, b, c, d, e, f}) /\ t \in Seq({a, b, c, d, e, f}) /\ Len(s) = 6 /\ Len(t) = 6
  OBVIOUS
<1>2. \A i \in 1..6 : s[i] = t[i]
  OBVIOUS
<1> HIDE DEF s, t
<1>3. s = t
  BY <1>1, <1>2, SameEntries
<1> QED
  BY <1>3 DEF s, t

\* A plan after none.
LEMMA AppendNone == ASSUME NEW S, NEW s \in Seq(S) PROVE <<>> \o s = s
<1>1. <<>> \o s \in Seq(S) /\ Len(<<>> \o s) = Len(s)
  OBVIOUS
<1>2. \A i \in 1..Len(s) : (<<>> \o s)[i] = s[i]
  OBVIOUS
<1> QED
  BY <1>1, <1>2, SameEntries

\* The operations of promote_next, with and without a validator.kes to move out.
LEMMA PromoteOps ==
    ASSUME NEW d \in [Names -> Files]
    PROVE  /\ d["kes"] # NoFile =>
                PromoteNext(d) = <<MovingOut, MovingIn, Syncing, Zeroing, Removing, Syncing>>
           /\ d["kes"] = NoFile /\ d["retired"] # NoFile =>
                PromoteNext(d) = <<MovingIn, Syncing, Zeroing, Removing, Syncing>>
<1>1. ASSUME NEW c, c["retired"] # NoFile PROVE Shred(c) = <<Zeroing, Removing, Syncing>>
  BY <1>1 DEF Shred, Zeroing, Removing, Syncing
<1>2. ASSUME d["kes"] # NoFile
      PROVE  PromoteNext(d) = <<MovingOut, MovingIn, Syncing, Zeroing, Removing, Syncing>>
  <2>1. Cleared(d)["retired"] # NoFile
    BY <1>2 DEF Cleared, Renamed, Names
  <2>2. Swap(d) = <<MovingOut, MovingIn>>
    BY <1>2, Append11 DEF Swap, MovingOut, MovingIn
  <2>3. Swap(d) \o <<SyncKesDir>> = <<MovingOut, MovingIn, Syncing>>
    BY <2>2, Append21 DEF Syncing
  <2>4. Shred(Cleared(d)) = <<Zeroing, Removing, Syncing>>
    BY <1>1, <2>1
  <2>5. PromoteNext(d) = <<MovingOut, MovingIn, Syncing>> \o <<Zeroing, Removing, Syncing>>
    BY <2>3, <2>4, ZenonT(60) DEF PromoteNext
  <2> QED
    BY <2>5, Append33
<1>3. ASSUME d["kes"] = NoFile, d["retired"] # NoFile
      PROVE  PromoteNext(d) = <<MovingIn, Syncing, Zeroing, Removing, Syncing>>
  <2>1. Cleared(d) = d
    BY <1>3 DEF Cleared
  <2>2. Swap(d) = <<>> \o <<MovingIn>>
    BY <1>3 DEF Swap, MovingIn
  <2>3. <<MovingIn>> \in Seq({MovingIn})
    OBVIOUS
  <2>4. Swap(d) = <<MovingIn>>
    BY <2>2, <2>3, AppendNone
  <2>5. Swap(d) \o <<SyncKesDir>> = <<MovingIn, Syncing>>
    BY <2>4, Append11 DEF Syncing
  <2>6. Shred(Cleared(d)) = <<Zeroing, Removing, Syncing>>
    BY <1>1, <1>3, <2>1
  <2>7. PromoteNext(d) = <<MovingIn, Syncing>> \o <<Zeroing, Removing, Syncing>>
    BY <2>5, <2>6, ZenonT(60) DEF PromoteNext
  <2> QED
    BY <2>7, Append23
<1> QED
  BY <1>2, <1>3

-----------------------------------------------------------------------------
(* The chain's steps.                                                      *)

\* What a step of the chain keeps of the node, when it keeps what the files are judged by.
LEMMA ChainKeeps ==
    ASSUME Sound, running => job = Idle,
           UNCHANGED <<running, keyFiles, signerVars, job, todo, signed, tallies>>,
           Chain', Old(pool.tree)', Old(entry.current.tree)', Old(entry.next.tree)',
           pool' = pool \/ pool' = NoTx,
           \A d \in dirs : IF Interrupted(d) THEN Loadable(d["next"], NoFile)'
                           ELSE Loadable(d["kes"], d["next"])',
           running => Loadable(key, next)',
           running /\ Plain => Plain',
           running /\ Heir /\ (MidSwap \/ Swapped) => next.tree = Newest.tree'
    PROVE  Sound'
<1>1. /\ Chain /\ Numbered /\ Tallies /\ Disk /\ Mode
  BY ZenonT(60) DEF Sound
<1>2. \A m \in Marks' : m \in Marks \/ m = NoFile
  BY DEF Marks, signerVars, NoTx, NoFile
<1>3. \A f \in Files : Top(f) => Top(f)'
  BY <1>2, FileFacts DEF Top
<1>4. \A t : Old(t)' <=> Old(t)
  BY SameTrees DEF signerVars, tallies
<1>5. Old(0)
  BY <1>1 DEF Numbered, Old
<1>6. ASSUME NEW d \in dirs PROVE Kept(d)'
  <2>1. Kept(d)
    BY <1>1, ZenonT(60) DEF Disk
  <2>2. /\ d["kes"] \in Files /\ d["next"] \in Files /\ d["retired"] \in Files
    BY <2>1, ZenonT(60) DEF Kept, Names
  <2>3. Top(d["kes"])' /\ Top(d["next"])' /\ Top(d["retired"])'
    BY <1>3, <2>1, <2>2 DEF Kept
  <2>4. Successor' = Successor /\ job' = job
    BY DEF Successor, signerVars
  <2> QED
    BY <1>4, <2>1, <2>3, <2>4, ZenonT(60) DEF Kept
<1>7. Disk'
  BY <1>1, <1>6 DEF Disk, keyFiles
<1>8. Numbered'
  <2>1. \A m \in Marks' : Old(m.tree)'
    BY <1>1, <1>2, <1>4, <1>5, FileFacts, ZenonT(60) DEF Numbered
  <2>2. Old(next.tree)'
    BY <1>1, <1>4 DEF Numbered, signerVars
  <2> QED
    BY <1>1, <2>1, <2>2, ZenonT(60) DEF Numbered, signerVars, tallies
<1>9. Tallies'
  BY <1>1 DEF Tallies, tallies
<1>10. Mode'
  <2>1. CASE ~running
    BY <2>1, <1>1 DEF Mode, Loaded, Unloaded, signerVars
  <2>2. CASE running
    <3>1. Loaded /\ Rests /\ job = Idle
      BY <1>1, <2>2, IdleRests
    <3>2. Loadable(key, next)'
      BY <2>2, ZenonT(60)
    <3>3. Top(key)' /\ Top(next)'
      <4>1. key \in Files /\ next \in Files
        BY <1>1, KeyInMemory DEF Files
      <4> QED
        BY <4>1, <3>1, <1>3, ZenonT(60) DEF Loaded, signerVars
    <3>4. (Plain \/ (Heir /\ (MidSwap \/ Swapped)))'
      <4>1. CASE Plain
        BY <4>1, <2>2, ZenonT(60)
      <4>2. CASE Heir /\ (MidSwap \/ Swapped)
        BY <4>2, <2>2 DEF Heir, MidSwap, Swapped, signerVars, keyFiles
      <4> QED
        BY <4>1, <4>2, <3>1 DEF Rests
    <3>5. Rests' /\ JobOK'
      BY <3>1, <3>4, ZenonT(60) DEF Rests, JobOK
    <3> QED
      BY <2>2, <3>1, <3>2, <3>3, <3>5, ZenonT(60) DEF Mode, Loaded, signerVars
  <2> QED
    BY <2>1, <2>2, ZenonT(60)
<1> QED
  BY <1>7, <1>8, <1>9, <1>10 DEF Sound

\* An epoch closes (close_epoch): a waiting successor may come into force, and a pending
\* rotation of an earlier period leaves the pool.
LEMMA ClosesSound ==
    ASSUME Sound, NEW covered \in BOOLEAN, ChainCloses(covered)
    PROVE  Sound'
<1>1. /\ Chain /\ Numbered /\ Disk /\ Mode /\ CloseEpoch(covered)
  BY DEF Sound, ChainCloses
<1>2. /\ entry' = entry /\ epoch' = epoch + 1 /\ epoch \in Nat /\ epoch' \in Nat
      /\ Period(epoch) \in Nat /\ Period(epoch') \in Nat /\ Period(epoch) <= Period(epoch')
  <2>1. entry' = entry /\ epoch' = epoch + 1 /\ epoch \in Nat
    BY <1>1, KeyTypes DEF CloseEpoch
  <2> QED
    BY <2>1, PeriodNat, PeriodMonotone
<1>3. LedgerInv'
  <2>1. LedgerNext
    BY <1>1 DEF LedgerNext
  <2> QED
    BY <1>1, <2>1, NextInv DEF Chain
<1>4. /\ Newest' = Newest /\ (Registered' <=> Registered) /\ (Pending' => Pending)
  <2>1. entry.next.start \in Nat
    BY <1>1, KeyTypes DEF Keys
  <2> QED
    BY <1>2, <2>1 DEF Newest, Registered, Pending, PendingAt
<1>5. /\ pool' = pool \/ pool' = NoTx
      /\ pool' # NoTx => pool' = pool /\ pool.period = Period(epoch')
  BY DEF ChainCloses
<1>6. Chain'
  BY <1>1, <1>2, <1>3, <1>4, <1>5 DEF Chain
<1>7. \A k : Superseded(k) => Superseded(k)'
  BY <1>2, <1>4, ZenonT(60) DEF Superseded
<1>8. ASSUME NEW k, NEW n, Loadable(k, n) PROVE Loadable(k, n)'
  <2>1. EndPeriod(Newest) \in Nat
    BY <1>1, KeyTypes, KesConstants DEF Keys, EndPeriod
  <2>2. duties' = duties
    BY DEF ChainCloses, tallies
  <2>3. Period(epoch)' = Period(epoch') /\ EndPeriod(Newest)' = EndPeriod(Newest)
    BY <1>4, ZenonT(60) DEF Period, EndPeriod
  <2> QED
    BY <1>2, <1>4, <1>5, <1>7, <1>8, <2>1, <2>2, <2>3 DEF Loadable
<1>9. /\ Old(pool.tree)' /\ Old(entry.current.tree)' /\ Old(entry.next.tree)'
  BY <1>1, <1>2, <1>5 DEF Numbered, Old, ChainCloses, signerVars, tallies, NoTx
<1>10. \A d \in dirs : IF Interrupted(d) THEN Loadable(d["next"], NoFile)'
                       ELSE Loadable(d["kes"], d["next"])'
  BY <1>1, <1>8 DEF Disk, Kept
<1>11. running => Loadable(key, next)'
  <2>1. UNCHANGED <<running, key, next>> /\ (running => Loadable(key, next))
    BY <1>1, IdleRests DEF ChainCloses, signerVars, Loaded
  <2> QED
    BY <2>1, <1>8
<1>12. Plain => Plain'
  BY <1>4 DEF Plain, Clean, ChainCloses, keyFiles, signerVars
<1>13. Heir => next.tree = Newest.tree'
  BY <1>4, ZenonT(60) DEF Heir
<1> QED
  BY <1>5, <1>6, <1>9, <1>10, <1>11, <1>12, <1>13, ChainKeeps DEF ChainCloses

\* The operator registers the tree in validator.kes: it becomes the newest key, and every
\* directory a power loss can leave has it.
LEMMA RegistersSound ==
    ASSUME Sound, ChainRegisters
    PROVE  Sound'
<1> DEFINE t == dir["kes"].tree
<1>1. /\ Chain /\ Numbered /\ Disk /\ Mode
      /\ dir["kes"] \notin {NoFile, Unreadable} /\ KesRegister(t)
      /\ UNCHANGED nodeVars /\ epoch' = epoch
  BY DEF Sound, ChainRegisters, KesRegister
<1>2. Kept(dir) /\ dir["kes"] \in KeyFile /\ t \in Trees /\ Old(t)
  <2>1. Kept(dir)
    BY <1>1 DEF Disk
  <2>2. dir["kes"] \in Files
    BY <2>1 DEF Kept, Names
  <2> QED
    BY <1>1, <2>1, <2>2, FileFacts DEF Kept, Files
<1>3. pool = NoTx /\ pool' = NoTx
  <2>1. Registered => RescueOpen
    BY <1>1 DEF KesRegister, RegisterRefuses
  <2> QED
    BY <1>1, <2>1, PoolFacts, ZenonT(60) DEF Chain, nodeVars
<1>4. LedgerInv'
  <2>1. LedgerNext
    BY <1>1, <1>2 DEF LedgerNext
  <2> QED
    BY <1>1, <2>1, NextInv, ZenonT(60) DEF Chain
<1>5. /\ entry'.current.tree = t /\ entry'.next = NoKey
  BY <1>1 DEF KesRegister, ReplacedBy, NoEntry
<1>6. /\ Registered' /\ Newest'.tree = t /\ ~Pending'
  <2>1. t # 0
    BY <1>2, FileFacts
  <2> QED
    BY <1>5, <2>1 DEF Registered, Newest, Pending, PendingAt, NoKey
<1>7. Chain'
  BY <1>2, <1>3, <1>4, <1>5, ZenonT(60) DEF Chain
<1>8. ASSUME NEW k, NEW n, Loadable(k, n), t \in {k.tree, n.tree} PROVE Loadable(k, n)'
  <2>1. n # NoFile => Superseded(k)' \/ n.tree # Newest'.tree
    BY <1>6, <1>8, ZenonT(60) DEF Loadable, Superseded
  <2> QED
    BY <1>3, <1>5, <1>6, <1>8, <2>1 DEF Loadable
<1>9. /\ Old(pool.tree)' /\ Old(entry.current.tree)' /\ Old(entry.next.tree)'
  BY <1>1, <1>2, <1>3, <1>5 DEF Numbered, Old, nodeVars, signerVars, tallies, NoTx, NoKey
<1>10. ASSUME NEW d \in dirs
       PROVE  IF Interrupted(d) THEN Loadable(d["next"], NoFile)'
              ELSE Loadable(d["kes"], d["next"])'
  <2>1. Kept(d) /\ Holds(d, t)
    BY <1>1, ZenonT(60) DEF Disk
  <2> QED
    BY <1>8, <2>1 DEF Kept, Holds
<1>11. ASSUME running
       PROVE  /\ Loadable(key, next)' /\ (Plain => Plain')
              /\ (Heir /\ (MidSwap \/ Swapped) => next.tree = Newest.tree')
  <2>1. Loaded /\ Rests /\ UNCHANGED <<key, next>>
    BY <1>1, <1>11, IdleRests, ZenonT(60) DEF ChainRegisters, nodeVars, signerVars
  <2>2. t \in {key.tree, next.tree}
    BY <1>1, <2>1 DEF Rests, Plain, Heir, MidSwap, Swapped, Disk
  <2>3. Loadable(key, next)'
    BY <1>8, <2>1, <2>2 DEF Loaded
  <2>4. ASSUME Plain PROVE Plain'
    <3>1. ASSUME NEW d \in dirs, next = NoFile, d["next"] # NoFile PROVE d["next"].tree # t
      <4>1. Kept(d) /\ d["kes"].tree = t /\ t # 0
        BY <1>1, <1>2, <2>4, FileFacts, ZenonT(60) DEF Disk, Plain
      <4> QED
        BY <3>1, <4>1, NotInterrupted, ZenonT(60) DEF Kept, Loadable
    <3> QED
      BY <1>1, <1>6, <2>4, <3>1 DEF Plain, Clean, nodeVars, keyFiles, signerVars
  <2>5. Heir /\ (MidSwap \/ Swapped) => next.tree = Newest.tree'
    BY <1>1, <1>6 DEF MidSwap, Swapped
  <2> QED
    BY <2>3, <2>4, <2>5
<1> QED
  BY <1>1, <1>3, <1>7, <1>9, <1>10, <1>11, ChainKeeps DEF ChainRegisters, nodeVars

\* A block carries the pending rotation: the sealed successor becomes the newest key, from
\* the next period on, and the key that signed the rotation has nothing more to sign.
LEMMA RotatesSound ==
    ASSUME Sound, ChainRotates
    PROVE  Sound'
<1> DEFINE p == pool.period
<1>1. /\ Chain /\ Numbered /\ Disk /\ Mode
      /\ pool # NoTx /\ KesRotate(pool.tree, p) /\ pool' = NoTx /\ epoch' = epoch
      /\ UNCHANGED <<running, keyFiles, signerVars, job, todo, signed, tallies>>
  BY ZenonT(60) DEF Sound, ChainRotates, KesRotate
<1>2. /\ Registered /\ ~Pending /\ p = Period(epoch) /\ pool.tree \in Trees
      /\ pool.tree # Newest.tree /\ pool.by = Newest.tree
      /\ Signs(Newest, p) /\ pool.leaf = p - Newest.start
  BY <1>1 DEF Chain
<1>3. /\ entry.current.start \in Nat /\ entry.next.start \in Nat /\ p \in Nat
      /\ Newest \in Keys /\ Newest.start \in Nat /\ Newest.tree \in Trees
  BY <1>1, <1>2, KeyTypes DEF Keys
<1>4. LedgerInv'
  <2>1. LedgerNext
    BY <1>1, <1>2, ZenonT(60) DEF LedgerNext
  <2> QED
    BY <1>1, <2>1, NextInv, ZenonT(60) DEF Chain
<1>5. /\ entry'.current = Newest /\ entry'.next = [tree |-> pool.tree, start |-> p + 1]
      /\ entry'.next.tree = pool.tree /\ entry'.next.start = p + 1
  <2>1. Settled(entry, p).current = Newest
    BY <1>2, <1>3 DEF Settled, Newest, Pending, PendingAt
  <2>2. entry' = [Settled(entry, p) EXCEPT !.next = [tree |-> pool.tree, start |-> p + 1]]
    BY <1>1 DEF KesRotate
  <2>3. Settled(entry, p) \in [current : Keys, next : Keys, retired : SUBSET Olds]
    <3>1. entry \in Entry
      BY <1>1, ZenonT(60) DEF Chain, LedgerInv, WellFormed
    <3> QED
      BY <3>1, KeyTypes, <1>1 DEF Settled, Entry, Pruned, Keys, Olds, Retire, NoKey
  <2> QED
    BY <2>1, <2>2, <2>3
<1>6. /\ Registered' /\ Newest' = [tree |-> pool.tree, start |-> p + 1] /\ Pending'
      /\ entry'.next # NoKey
  <2>1. pool.tree # 0 /\ Newest.tree # 0
    BY <1>2, <1>3, KesConstants
  <2>2. entry'.next # NoKey /\ entry'.current # NoKey
    BY <1>5, <2>1 DEF NoKey
  <2>3. Period(epoch') = p
    BY <1>1, <1>2
  <2> QED
    BY <1>3, <1>5, <2>2, <2>3 DEF Registered, Newest, Pending, PendingAt
<1>7. Chain'
  <2>1. entry'.current.tree \in Trees /\ entry'.next.tree \in Trees
    BY <1>2, <1>3, <1>5
  <2> QED
    BY <1>1, <1>4, <1>6, <2>1, ZenonT(60) DEF Chain
<1>8. ASSUME NEW k, NEW n, Loadable(k, n), Top(k) PROVE Loadable(k, n)'
  <2>1. /\ k \in KeyFile /\ n \in KeyFile \cup {NoFile} /\ k.tree = pool.by /\ n.tree = pool.tree
    BY <1>1, <1>8, ZenonT(60) DEF Loadable
  <2>2. k.leaf >= pool.leaf
    <3>1. [tree |-> pool.by, leaf |-> pool.leaf] \in Marks /\ pool.leaf \in Int /\ k.leaf \in Nat
      <4>1. pool.leaf \in Int /\ k.leaf \in Nat
        BY <1>2, <1>3, <2>1, FileFacts
      <4>2. pool # NoTx
        BY <1>1
      <4> QED
        BY <4>1, <4>2, ZenonT(60) DEF Marks
    <3> QED
      BY <1>8, <2>1, <3>1, ZenonT(60) DEF Top
  <2>3. Superseded(k)'
    <3>1. k.tree # Newest'.tree /\ entry'.next.start - 1 - entry'.current.start = pool.leaf
      <4>1. k.tree # Newest'.tree
        BY <1>2, <1>6, <2>1
      <4>2. entry'.next.start = p + 1 /\ entry'.current.start = Newest.start
        BY <1>5, ZenonT(60)
      <4> QED
        BY <1>2, <1>3, <4>1, <4>2
    <3> QED
      BY <2>2, <3>1, ZenonT(60) DEF Superseded
  <2>4. Pending' => k.tree = entry'.current.tree
    BY <1>2, <1>5, <2>1
  <2>5. Newest'.tree = n.tree /\ n.tree # entry'.current.tree /\ n.tree # k.tree
    BY <1>2, <1>5, <1>6, <2>1, ZenonT(60)
  <2> QED
    BY <1>1, <2>1, <2>3, <2>4, <2>5, ZenonT(60) DEF Loadable
<1>9. /\ Old(pool.tree)' /\ Old(entry.current.tree)' /\ Old(entry.next.tree)'
  <2>1. Old(pool.tree) /\ Old(Newest.tree) /\ Old(0)
    <3>1. Old(pool.tree) /\ Old(entry.current.tree) /\ Old(entry.next.tree)
      BY <1>1, ZenonT(60) DEF Numbered
    <3>2. Old(0)
      <4>1. made \in Nat /\ keygen \in Int
        BY <1>1, ZenonT(60) DEF Numbered
      <4> QED
        BY <4>1 DEF Old
    <3> QED
      BY <3>1, <3>2, ZenonT(60) DEF Newest
  <2>2. \A t : Old(t) => Old(t)'
    <3>1. made' = made /\ keygen' = keygen
      BY <1>1, ZenonT(60) DEF tallies, signerVars
    <3> QED
      BY <3>1, ZenonT(60) DEF Old
  <2>3. pool'.tree = 0
    BY <1>1 DEF NoTx
  <2>4. entry'.current = Newest /\ entry'.next.tree = pool.tree
    BY <1>5, ZenonT(60)
  <2> QED
    BY <2>1, <2>2, <2>3, <2>4, ZenonT(60)
<1>10. ASSUME NEW d \in dirs
       PROVE  IF Interrupted(d) THEN Loadable(d["next"], NoFile)'
              ELSE Loadable(d["kes"], d["next"])'
  <2>1. Kept(d)
    BY <1>1 DEF Disk
  <2> QED
    BY <1>8, <2>1 DEF Kept
<1>11. ASSUME running
       PROVE  /\ Loadable(key, next)' /\ (Plain => Plain')
              /\ (Heir /\ (MidSwap \/ Swapped) => next.tree = Newest.tree')
  <2>1. Loaded /\ Rests /\ UNCHANGED <<key, next>>
    BY <1>1, <1>11, IdleRests DEF ChainRotates, signerVars
  <2>2. Loadable(key, next)'
    BY <1>8, <2>1 DEF Loaded
  <2>3. next # NoFile /\ ~Heir
    BY <1>1, <2>1, PoolFacts DEF Loaded
  <2>4. Plain => Plain'
    BY <1>1, <2>3 DEF Plain, Clean, keyFiles, signerVars
  <2> QED
    BY <2>2, <2>3, <2>4, ZenonT(60)
<1> QED
  BY <1>1, <1>7, <1>9, <1>10, <1>11, ChainKeeps, ZenonT(60) DEF ChainRotates

\* The operator replaces an expired key by a new one (keygen): no leaf of the new tree has
\* been used, and no rotation is pending.
LEMMA OperatorSound ==
    ASSUME Sound, OperatorKeygen
    PROVE  Sound'
<1> DEFINE k == [tree |-> made + 1, leaf |-> 0]
<1>1. /\ Chain /\ Numbered /\ Tallies /\ Disk /\ Mode
      /\ ~running /\ RescueOpen /\ dir["kes"].tree = InForce(entry, Period(epoch)).tree
      /\ made + 1 \in Trees /\ made' = made + 1
      /\ dir' = [dir EXCEPT !["kes"] = k] /\ dirs' = {dir'}
      /\ UNCHANGED <<ledgerVars, running, signerVars, job, todo, pool, signed, duties>>
  BY DEF Sound, OperatorKeygen
<1>2. /\ Unloaded /\ job = Idle /\ todo = <<>>
  BY <1>1, ZenonT(60) DEF Mode, Loaded
<1>3. /\ Registered /\ ~Pending /\ pool = NoTx
      /\ ~(Period(epoch) < EndPeriod(Newest)) /\ dir["kes"].tree = Newest.tree /\ Newest.tree # 0
  <2>1. /\ Registered /\ ~Pending /\ Period(epoch) >= EndPeriod(InForce(entry, Period(epoch)))
    BY <1>1 DEF RescueOpen, Pending
  <2>2. pool = NoTx
    BY <1>1, PoolFacts, ZenonT(60)
  <2>3. Newest.start \in Nat /\ Period(epoch) \in Nat /\ entry.next.start \in Nat
    BY <1>1, KeyTypes, ZenonT(60) DEF Keys
  <2>4. InForce(entry, Period(epoch)) = Newest
    BY <1>1, <2>1, <2>3, InForceAhead DEF Pending, PendingAt
  <2>5. Newest.tree # 0
    BY <1>1, <2>1, KeyTypes, KesConstants
  <2> QED
    BY <1>1, <2>1, <2>2, <2>3, <2>4, <2>5, KesConstants DEF EndPeriod
<1>4. Kept(dir) /\ ~Interrupted(dir) /\ Loadable(dir["kes"], dir["next"])
  BY <1>1, <1>3, NotInterrupted, ZenonT(60) DEF Disk, Kept
<1>5. /\ made \in Nat /\ keygen = 0 /\ keygen' = 0
      /\ \A t : Old(t) => Old(t)' /\ t # made + 1
      /\ \A t : t = made + 1 => Old(t)'
  <2>1. made \in Nat /\ keygen = 0 /\ keygen' = 0
    BY <1>1, <1>2, ZenonT(60) DEF Numbered, Unloaded, signerVars
  <2> QED
    BY <1>1, <2>1 DEF Old
<1>6. /\ Old(dir["retired"].tree) /\ Old(dir["next"].tree)
  BY <1>2, <1>4 DEF Kept, Idle
<1>7. /\ \A f : Top(f)' <=> Top(f)
      /\ \A a, n : Loadable(a, n)' <=> Loadable(a, n)
      /\ Chain' /\ Marks' = Marks
  BY <1>1, SameLeaves, SameChain DEF signerVars
<1>8. k \in KeyFile /\ k # NoFile
  BY <1>1, <1>5 DEF KeyFile, NoFile
<1>9. Top(k)
  BY <1>1, <1>5, ZenonT(60) DEF Top, Numbered
<1>10. Loadable(k, dir["next"])
  BY <1>3, <1>4, <1>5, <1>6, <1>8, ZenonT(60) DEF Loadable
<1>11. /\ dir' \in [Names -> Files] /\ dir'["kes"] = k /\ dir'["next"] = dir["next"]
       /\ dir'["retired"] = dir["retired"]
  BY <1>1, <1>4, <1>8, ZenonT(60) DEF Kept, Names, Files
<1>12. ASSUME NEW d, d = dir' PROVE Kept(d)' /\ Holds(d, k.tree)
  <2>1. /\ d \in [Names -> Files] /\ d["kes"] = k /\ d["next"] = dir["next"]
        /\ d["retired"] = dir["retired"] /\ ~Interrupted(d)
    BY <1>8, <1>11, <1>12, ZenonT(60) DEF Interrupted
  <2>2. Loadable(d["kes"], d["next"])' /\ Top(d["kes"])'
    BY <1>7, <1>9, <1>10, <2>1
  <2>3. Top(d["next"])' /\ Top(d["retired"])'
    BY <1>4, <1>7, <2>1, ZenonT(60) DEF Kept
  <2>4. d["retired"].tree # 0 => d["retired"].tree # d["kes"].tree /\ d["retired"].tree # d["next"].tree
    BY <1>4, <1>5, <1>6, <2>1 DEF Kept
  <2>5. Old(d["kes"].tree)' /\ Old(d["retired"].tree)' /\ Old(d["next"].tree)'
    BY <1>5, <1>6, <2>1
  <2> QED
    BY <2>1, <2>2, <2>3, <2>4, <2>5, ZenonT(60) DEF Kept, Holds
<1>13. Disk'
  BY <1>1, <1>11, <1>12, ZenonT(60) DEF Disk
<1>14. Numbered'
  BY <1>1, <1>5, <1>7 DEF Numbered, signerVars, ledgerVars
<1>15. Mode' /\ Tallies'
  BY <1>1, <1>2 DEF Mode, Unloaded, Tallies, signerVars
<1> QED
  BY <1>7, <1>13, <1>14, <1>15 DEF Sound

-----------------------------------------------------------------------------
(* Faults and start-up.                                                    *)

\* What a process that ends leaves behind: any directory will do.
LEMMA DiesSound ==
    ASSUME Sound, KesDie, dir' \in dirs', dirs' \subseteq dirs,
           \A d \in dirs' : dir'["kes"] # NoFile => Holds(d, dir'["kes"].tree)
    PROVE  Sound'
<1>1. /\ Chain /\ Numbered /\ Tallies /\ Disk /\ Mode
      /\ UNCHANGED <<ledgerVars, pool, signed, made, duties>>
      /\ key' = NoFile /\ next' = NoFile /\ keygen' = 0 /\ job' = Idle /\ todo' = <<>> /\ ~running'
  BY DEF Sound, KesDie
<1>2. \A m \in Marks' : m \in Marks \/ m = NoFile
  BY <1>1, ZenonT(60) DEF Marks
<1>3. \A f \in Files : Top(f) => Top(f)'
  BY <1>2, FileFacts DEF Top
<1>4. /\ \A t : Old(t) => Old(t)'
      /\ \A t : keygen > 0 /\ t = keygen => Old(t)'
      /\ Old(0)'
  BY <1>1 DEF Old, Numbered
<1>5. Chain' /\ \A k, n : Loadable(k, n)' <=> Loadable(k, n)
  BY <1>1, SameChain, ZenonT(60)
<1>6. ASSUME NEW d \in dirs' PROVE Kept(d)'
  <2>1. Kept(d)
    BY <1>1 DEF Disk
  <2>2. /\ d["kes"] \in Files /\ d["next"] \in Files /\ d["retired"] \in Files
    BY <2>1 DEF Kept, Names
  <2>3. Top(d["kes"])' /\ Top(d["next"])' /\ Top(d["retired"])'
    BY <1>3, <2>1, <2>2 DEF Kept
  <2>4. Old(d["next"].tree)'
    <3>1. CASE Old(d["next"].tree)
      BY <1>4, <3>1
    <3>2. CASE job.step = "seal" /\ d["next"] = Successor
      <4>1. keygen > 0 /\ d["next"].tree = keygen
        <5>1. Seals
          BY <1>1, <3>2, JobParts DEF Mode, Loaded, Idle
        <5> QED
          BY <3>2, <5>1, JobParts DEF Successor
      <4> QED
        BY <1>4, <4>1, ZenonT(60)
    <3> QED
      BY <2>1, <3>1, <3>2 DEF Kept
  <2> QED
    BY <1>4, <1>5, <2>1, <2>3, <2>4 DEF Kept
<1>7. Disk'
  BY <1>6, ZenonT(60) DEF Disk
<1>8. Numbered'
  <2>1. \A m \in Marks' : Old(m.tree)'
    BY <1>1, <1>2, <1>4, FileFacts, ZenonT(60) DEF Numbered
  <2>2. Old(next.tree)' /\ Old(pool.tree)' /\ Old(entry.current.tree)' /\ Old(entry.next.tree)'
    BY <1>1, <1>4, FileFacts DEF Numbered, ledgerVars
  <2> QED
    BY <1>1, <2>1, <2>2 DEF Numbered
<1>9. Mode' /\ Tallies'
  BY <1>1 DEF Mode, Unloaded, Tallies
<1> QED
  BY <1>5, <1>7, <1>8, <1>9 DEF Sound

\* The process is killed, or the power fails and any kept directory is left.
LEMMA CrashSound ==
    ASSUME Sound, KesCrash \/ KesPowerLoss
    PROVE  Sound'
<1>1. Disk /\ KesDie
  BY DEF Sound, KesCrash, KesPowerLoss
<1>2. CASE KesCrash
  BY <1>1, <1>2, DiesSound DEF KesCrash, keyFiles, Disk
<1>3. CASE KesPowerLoss
  <2>1. dir' \in dirs /\ dirs' = {dir'}
    BY <1>3 DEF KesPowerLoss
  <2>2. dir'["kes"] # NoFile => Holds(dir', dir'["kes"].tree)
    BY DEF Holds, Interrupted
  <2> QED
    BY <1>1, <2>1, <2>2, DiesSound
<1> QED
  BY <1>2, <1>3

\* Start-up from a synced directory finishes an interrupted swap, then shreds.
LEMMA StartSound ==
    ASSUME Sound, Start, ~exposed'
    PROVE  Sound'
<1>1. /\ Chain /\ Numbered /\ Tallies /\ Disk /\ Mode /\ ~running /\ running'
      /\ todo' = FinishInterruptedRotation(dir)
      /\ job' = [for |-> "boot", step |-> "load", epoch |-> 0] /\ dirs = {dir}
      /\ UNCHANGED <<ledgerVars, keyFiles, signerVars, pool, signed, made, duties>>
  BY ZenonT(60) DEF Sound, Start
<1>2. Unloaded /\ job = Idle
  BY <1>1 DEF Mode, Loaded
<1>3. Kept(dir)
  BY <1>1 DEF Disk
<1>4. Boots'
  <2>1. CASE Interrupted(dir)
    <3>1. Shred(dir) = <<Zeroing, Removing, Syncing>>
      BY <2>1 DEF Shred, Interrupted, Zeroing, Removing, Syncing
    <3>2. todo' = <<MovingIn, Syncing>> \o <<Zeroing, Removing, Syncing>>
      BY <1>1, <2>1, <3>1 DEF FinishInterruptedRotation, MovingIn, Syncing
    <3>3. todo' = <<MovingIn, Syncing, Zeroing, Removing, Syncing>>
      BY <3>2, Append23
    <3> QED
      BY <1>1, <2>1, <3>3 DEF Boots, keyFiles
  <2>2. CASE ~Interrupted(dir)
    <3>1. dir["kes"] # NoFile
      BY <1>3, <2>2, FileFacts, ZenonT(60) DEF Kept, Loadable
    <3>2. todo' = <<>> \o Shred(dir)
      BY <1>1, <2>2, ZenonT(60) DEF FinishInterruptedRotation
    <3>3. CASE dir["retired"] = NoFile
      <4>1. todo' = <<>>
        BY <3>2, <3>3, AppendNone DEF Shred
      <4> QED
        BY <1>1, <3>1, <3>3, <4>1 DEF Boots, Shreds, keyFiles
    <3>4. CASE dir["retired"] # NoFile
      <4>1. Shred(dir) = <<Zeroing, Removing, Syncing>>
        BY <3>4 DEF Shred, Zeroing, Removing, Syncing
      <4>2. <<Zeroing, Removing, Syncing>> \in Seq({Zeroing, Removing, Syncing})
        OBVIOUS
      <4>3. todo' = <<Zeroing, Removing, Syncing>>
        BY <3>2, <4>1, <4>2, AppendNone
      <4> QED
        BY <1>1, <3>1, <3>4, <4>3 DEF Boots, Shreds, keyFiles
    <3> QED
      BY <3>3, <3>4
  <2> QED
    BY <2>1, <2>2
<1>5. Chain'
  BY <1>1, SameChain
<1>6. Disk'
  <2>1. \A d : Kept(d) => Kept(d)'
    BY <1>1, <1>2, SameKept DEF signerVars, Idle
  <2> QED
    BY <1>1, <2>1, ZenonT(60) DEF Disk, keyFiles
<1>7. Numbered'
  <2>1. Marks' = Marks /\ \A t : Old(t)' <=> Old(t)
    BY <1>1, SameLeaves, SameTrees DEF signerVars
  <2> QED
    BY <1>1, <2>1, ZenonT(60) DEF Numbered, signerVars, ledgerVars
<1>8. Mode' /\ Tallies'
  BY <1>1, <1>2, <1>4 DEF Mode, Unloaded, Tallies, signerVars
<1> QED
  BY <1>5, <1>6, <1>7, <1>8 DEF Sound

-----------------------------------------------------------------------------
(* The engine thread's steps between file operations.                      *)

\* A job that goes on keeps its kind and its epoch.
LEMMA NextStep ==
    ASSUME job \in Jobs, NEW s \in {"prepare", "adopt", "evolve", "poll", "decide"},
           job' = [job EXCEPT !.step = s]
    PROVE  /\ job'.step = s /\ job'.for = job.for /\ job'.epoch = job.epoch /\ job' # Idle
           /\ job' \in Jobs
<1>1. /\ job'.step = s /\ job'.for = job.for /\ job'.epoch = job.epoch
  BY DEF Jobs
<1>2. job' \in Jobs
  BY DEF Jobs
<1>3. Idle.step = "idle"
  BY DEF Idle
<1> QED
  BY <1>1, <1>2, <1>3, ZenonT(60)

\* How far a swap is depends on the files, on the key and its successor, and on the chain.
LEMMA SamePlace ==
    ASSUME UNCHANGED <<entry, keyFiles, key, next>>
    PROVE  /\ Plain' <=> Plain
           /\ Heir' <=> Heir
           /\ MidSwap' <=> MidSwap
           /\ Swapped' <=> Swapped
<1>1. Newest' = Newest /\ dir' = dir /\ dirs' = dirs
  BY DEF Newest, keyFiles
<1> QED
  BY <1>1, ZenonT(60) DEF Plain, Clean, Heir, MidSwap, Swapped

\* A step that only decides what to do next.
LEMMA JobKeeps ==
    ASSUME Sound, Loaded, running' = running,
           UNCHANGED <<ledgerVars, keyFiles, key, next, keygen, pool, signed, made, duties>>,
           job.step # "seal", JobOK', (Adopts \/ Evolves \/ Seals \/ Rests)'
    PROVE  Sound'
<1>1. /\ Chain /\ Numbered /\ Tallies /\ Disk
  BY DEF Sound
<1>2. /\ Chain' /\ \A k, n : Loadable(k, n)' <=> Loadable(k, n)
      /\ Marks' = Marks /\ (\A f : Top(f)' <=> Top(f)) /\ (\A t : Old(t)' <=> Old(t))
  BY <1>1, SameChain, SameLeaves, SameTrees
<1>3. Disk'
  <2>1. \A d : Kept(d) => Kept(d)'
    BY SameKept
  <2> QED
    BY <1>1, <2>1 DEF Disk, keyFiles
<1>4. Numbered' /\ Tallies'
  BY <1>1, <1>2, ZenonT(60) DEF Numbered, Tallies, ledgerVars
<1>5. /\ Loadable(key, next)' /\ Top(key)' /\ Top(next)'
  BY <1>2 DEF Loaded
<1>6. Loaded'
  BY <1>5 DEF Loaded
<1> QED
  BY <1>2, <1>3, <1>4, <1>6 DEF Sound, Mode

\* The same, from rest to rest.
LEMMA StillRests ==
    ASSUME Sound, Loaded, Rests, running' = running,
           UNCHANGED <<ledgerVars, keyFiles, key, next, keygen, todo, pool, signed, made, duties>>,
           JobOK',
           \/ job' = Idle
           \/ job'.for \in {"duty", "rotate"} /\ job'.step = "prepare"
           \/ job'.for = "turn" /\ job'.step \in {"poll", "decide"}
    PROVE  Sound'
<1>1. Rests'
  BY SamePlace DEF Rests, ledgerVars
<1>2. job.step # "seal"
  BY DEF Rests, Idle
<1> QED
  BY <1>1, <1>2, JobKeeps

\* A job's epoch is not behind the head's, so the key it wants is the newest one, or the
\* current one while its successor waits.
LEMMA WantedKey ==
    ASSUME Chain, JobOK, job # Idle
    PROVE  /\ Period(job.epoch) \in Nat /\ Period(job.epoch) >= Period(epoch)
           /\ Wanted = IF entry.next # NoKey /\ Period(job.epoch) < entry.next.start
                       THEN entry.current ELSE Newest
           /\ Wanted \in Keys
<1>1. job.epoch \in Nat /\ job.epoch >= epoch /\ epoch \in Nat /\ Period(epoch) \in Nat
  BY KeyTypes DEF JobOK, Jobs
<1>2. Period(job.epoch) \in Nat /\ Period(job.epoch) >= Period(epoch)
  BY <1>1, PeriodNat, PeriodMonotone, ZenonT(60)
<1> QED
  BY <1>2, InForceAhead, KeyTypes DEF Wanted

\* A successor the node is about to adopt is the chain's newest key.
LEMMA AdoptsNewest ==
    ASSUME Chain, JobOK, job # Idle, Loadable(key, next), AdoptsSuccessor(Wanted)
    PROVE  /\ next # NoFile /\ next.tree = Newest.tree
           /\ job.epoch = epoch => ~Pending
<1>1. /\ key.tree # Wanted.tree /\ next # NoFile /\ next.tree = Wanted.tree
  BY ZenonT(60) DEF AdoptsSuccessor
<1>2. entry.next # NoKey => next.tree # entry.current.tree
  BY <1>1 DEF Loadable
<1>3. Wanted = Newest
  BY <1>1, <1>2, WantedKey, ZenonT(60)
<1>4. ASSUME job.epoch = epoch PROVE ~Pending
  BY <1>1, <1>2, <1>4, WantedKey, KeyTypes DEF Pending, PendingAt, Keys
<1> QED
  BY <1>1, <1>3, <1>4

\* promote_next starts: the swap moves on from where the files are.
LEMMA PromoteSound ==
    ASSUME Sound, Loaded, Rests, job # Idle, job.for \in {"duty", "turn"},
           AdoptsSuccessor(Wanted), Promote
    PROVE  Sound'
<1>1. /\ Chain /\ Disk /\ JobOK /\ Loadable(key, next)
      /\ UNCHANGED <<ledgerVars, running, keyFiles, signerVars, pool, signed, tallies>>
  BY DEF Sound, Loaded, Promote
<1>2. UNCHANGED <<running, ledgerVars, keyFiles, key, next, keygen, pool, signed, made, duties>>
  BY <1>1 DEF signerVars, tallies
<1>3. CASE dir["next"] = NoFile
  <2>1. job' = Idle /\ UNCHANGED todo
    BY <1>3 DEF Promote
  <2> QED
    BY <1>2, <2>1, StillRests DEF JobOK
<1>4. CASE dir["next"] # NoFile
  <2>1. job' = [job EXCEPT !.step = "adopt"] /\ todo' = PromoteNext(dir)
    BY <1>4 DEF Promote
  <2>2. job \in Jobs
    BY <1>1 DEF JobOK
  <2>3. /\ job'.step = "adopt" /\ job'.for = job.for /\ job'.epoch = job.epoch /\ job' # Idle
        /\ job' \in Jobs
    BY <2>1, <2>2, NextStep, ZenonT(60)
  <2>4. JobOK'
    BY <1>1, <1>2, <2>3, ZenonT(60) DEF JobOK, ledgerVars
  <2>5. /\ next # NoFile /\ next.tree = Newest.tree /\ (Pending => duties > 0)
    <3>1. /\ next # NoFile /\ next.tree = Newest.tree /\ (job.epoch = epoch => ~Pending)
      BY <1>1, AdoptsNewest
    <3> QED
      BY <1>1, <3>1, ZenonT(60) DEF JobOK
  <2>6. Kept(dir) /\ dir \in [Names -> Files]
    BY <1>1, ZenonT(60) DEF Disk, Kept
  <2>7. key.tree # 0 /\ key # NoFile
    BY <1>1, FileFacts DEF Loadable
  <2>8. CASE Plain
    <3>1. dir["kes"].tree = key.tree
      BY <1>1, <2>8, ZenonT(60) DEF Plain, Disk
    <3>2. todo' = <<MovingOut, MovingIn, Syncing, Zeroing, Removing, Syncing>>
      BY <2>1, <2>6, <2>7, <3>1, NotInterrupted, PromoteOps
    <3>3. Heir
      <4>1. ASSUME NEW d \in dirs PROVE Holds(d, next.tree)
        BY <2>5, <2>7, <2>8, NotInterrupted DEF Plain, Holds
      <4> QED
        BY <2>5, <4>1, ZenonT(60) DEF Heir
    <3>4. Adopts'
      BY <1>2, <2>3, <2>5, <2>8, <3>2, <3>3, SamePlace, SameChain, ZenonT(60) DEF Adopts, ledgerVars
    <3> QED
      BY <1>2, <2>4, <3>4, JobKeeps DEF Rests, Idle
  <2>9. CASE Heir /\ MidSwap
    <3>1. dir["kes"] = NoFile /\ dir["retired"] # NoFile
      BY <2>7, <2>9 DEF MidSwap, NoFile
    <3>2. todo' = <<MovingIn, Syncing, Zeroing, Removing, Syncing>>
      BY <2>1, <2>6, <3>1, PromoteOps, ZenonT(60)
    <3>3. Adopts'
      BY <1>2, <2>3, <2>5, <2>9, <3>2, SamePlace, SameChain DEF Adopts, ledgerVars
    <3> QED
      BY <1>2, <2>4, <3>3, JobKeeps DEF Rests, Idle
  <2> QED
    BY <1>4, <2>8, <2>9 DEF Rests, Swapped
<1> QED
  BY <1>3, <1>4

\* A duty begins: a counter moves, and what was judged fit stays so.
LEMMA DutySound ==
    ASSUME Sound, NEW e \in 0..MaxEpoch, Duty(e)
    PROVE  Sound'
<1>1. /\ Chain /\ Numbered /\ Tallies /\ Disk /\ Mode
      /\ running /\ todo = <<>> /\ job = Idle /\ e >= epoch /\ duties' = duties + 1
      /\ job' = [for |-> "duty", step |-> "prepare", epoch |-> e]
      /\ UNCHANGED <<ledgerVars, running, keyFiles, signerVars, todo, pool, signed, made>>
  BY DEF Sound, Duty
<1>2. Loaded /\ Rests
  BY <1>1, IdleRests
<1>3. duties \in Nat /\ duties' \in Nat /\ duties' > 0
  BY <1>1 DEF Tallies
<1>4. e \in Nat
  BY KesConstants
<1>5. /\ Newest' = Newest /\ (Pending' <=> Pending) /\ (Registered' <=> Registered)
  BY <1>1 DEF ledgerVars, Newest, Pending, PendingAt, Registered
<1>6. \A k, n : Loadable(k, n) => Loadable(k, n)'
  <2>1. \A k : Superseded(k)' <=> Superseded(k)
    BY <1>1, <1>5 DEF Superseded, ledgerVars
  <2> QED
    BY <1>1, <1>3, <1>5, <2>1, ZenonT(60) DEF Loadable, ledgerVars
<1>7. /\ Marks' = Marks /\ (\A f : Top(f)' <=> Top(f)) /\ (\A t : Old(t)' <=> Old(t))
  BY <1>1, SameLeaves, SameTrees, ZenonT(60) DEF signerVars
<1>8. Chain'
  BY <1>1, <1>5, ZenonT(60) DEF Chain, LedgerInv, ledgerVars
<1>9. Disk'
  <2>1. ASSUME NEW d, Kept(d) PROVE Kept(d)'
    <3>1. Old(d["next"].tree)
      BY <1>1, <2>1 DEF Kept, Idle
    <3> QED
      BY <1>6, <1>7, <2>1, <3>1, ZenonT(60) DEF Kept
  <2> QED
    BY <1>1, <2>1 DEF Disk, keyFiles
<1>10. Numbered' /\ Tallies'
  BY <1>1, <1>3, <1>7, ZenonT(60) DEF Numbered, Tallies, ledgerVars, signerVars
<1>11. JobOK'
  <2>1. /\ job'.for = "duty" /\ job'.epoch = e /\ job' \in Jobs
    BY <1>1, <1>4 DEF Jobs
  <2> QED
    BY <1>1, <1>3, <2>1 DEF JobOK, ledgerVars
<1>12. Rests'
  BY <1>1, <1>2, SamePlace DEF Rests, ledgerVars, signerVars
<1>13. Loadable(key, next)' /\ Top(key)' /\ Top(next)'
  <2>1. key' = key /\ next' = next
    BY <1>1, ZenonT(60) DEF signerVars
  <2> QED
    BY <1>2, <1>6, <1>7, <2>1 DEF Loaded
<1>14. Mode'
  BY <1>1, <1>2, <1>11, <1>12, <1>13 DEF Mode, Loaded, signerVars
<1> QED
  BY <1>8, <1>9, <1>10, <1>14 DEF Sound

\* A duty's key cannot be made ready: the job ends.
LEMMA RefusedSound ==
    ASSUME Sound, PrepareRefused
    PROVE  Sound'
<1>1. /\ Mode /\ running /\ todo = <<>> /\ job.step = "prepare" /\ job' = Idle
      /\ UNCHANGED <<ledgerVars, running, keyFiles, signerVars, todo, pool, signed, tallies>>
  BY DEF Sound, PrepareRefused, Preparing, At
<1>2. Loaded /\ Rests
  BY <1>1, RestingJob
<1> QED
  BY <1>1, <1>2, StillRests DEF JobOK, signerVars, tallies

\* The successor in force is taken up by a duty or by a maintenance turn.
LEMMA TakesUpSound ==
    ASSUME Sound, PrepareAdopts \/ TurnAdopts
    PROVE  Sound'
<1>1. /\ Mode /\ Chain /\ running /\ todo = <<>> /\ job.step \in {"prepare", "poll"}
      /\ job.for \in {"duty", "rotate", "turn"} /\ AdoptsSuccessor(Wanted) /\ Promote
  BY DEF Sound, PrepareAdopts, TurnAdopts, Preparing, Adopting, At
<1>2. Loaded /\ Rests /\ job # Idle
  BY <1>1, RestingJob DEF Idle
<1>3. job.for # "rotate"
  BY <1>1, <1>2 DEF Loaded, JobOK, CanRotate, AdoptsSuccessor
<1> QED
  BY <1>1, <1>2, <1>3, PromoteSound

\* The turn finds no successor to adopt.
LEMMA TurnKeepsSound ==
    ASSUME Sound, TurnKeeps
    PROVE  Sound'
<1>1. /\ Mode /\ running /\ todo = <<>> /\ job.for = "turn" /\ job.step = "poll"
      /\ job' = [job EXCEPT !.step = "decide"]
      /\ UNCHANGED <<ledgerVars, running, keyFiles, signerVars, todo, pool, signed, tallies>>
  BY DEF Sound, TurnKeeps, At
<1>2. Loaded /\ Rests /\ job # Idle /\ JobOK
  <2>1. Loaded /\ Rests
    BY <1>1, RestingJob
  <2> QED
    BY <1>1, <2>1 DEF Loaded, Idle
<1>3. job \in Jobs
  BY <1>2 DEF JobOK
<1>4. /\ job'.step = "decide" /\ job'.for = job.for /\ job'.epoch = job.epoch /\ job' # Idle
      /\ job' \in Jobs
  BY <1>1, <1>3, NextStep, ZenonT(60)
<1>5. JobOK'
  BY <1>1, <1>2, <1>4 DEF JobOK, ledgerVars
<1> QED
  BY <1>1, <1>2, <1>4, <1>5, StillRests DEF signerVars, tallies

\* A maintenance turn begins: a generated key is sealed as the successor.
LEMMA TurnSound ==
    ASSUME Sound, Turn
    PROVE  Sound'
<1>1. /\ Mode /\ Chain /\ Numbered /\ running /\ todo = <<>> /\ job = Idle
      /\ UNCHANGED <<ledgerVars, running, keyFiles, signerVars, pool, signed, tallies>>
  BY DEF Sound, Turn
<1>2. Loaded /\ Rests /\ epoch \in Nat
  BY <1>1, IdleRests, KeyTypes
<1>3. /\ UNCHANGED <<ledgerVars, keyFiles, key, next, keygen, pool, signed, made, duties>>
      /\ epoch' = epoch
  BY <1>1 DEF signerVars, tallies, ledgerVars
<1>4. CASE keygen > 0
  <2>1. /\ todo' = SaveNamed("next", Successor)
        /\ job' = [for |-> "turn", step |-> "seal", epoch |-> epoch]
    BY <1>4 DEF Turn, Successor
  <2>2. todo' = <<Create("nextTmp"), Fill("nextTmp", Successor), RenameTo("nextTmp", "next"), Syncing>>
    BY <2>1, ZenonT(60) DEF SaveNamed, TmpOf, Syncing
  <2>3. next = NoFile /\ Plain
    BY <1>1, <1>2, <1>4 DEF Loaded, Rests, Heir, Numbered
  <2>4. JobOK'
    BY <1>2, <1>3, <2>1 DEF JobOK, Jobs
  <2>5. Successor' = Successor
    BY <1>3 DEF Successor
  <2>6. Plain'
    BY <1>3, <2>3, SamePlace, ZenonT(60) DEF ledgerVars
  <2>7. Seals'
    BY <1>3, <1>4, <2>1, <2>2, <2>3, <2>5, <2>6, ZenonT(60) DEF Seals
  <2> QED
    BY <1>1, <1>2, <1>3, <2>4, <2>7, JobKeeps DEF Idle
<1>5. CASE ~(keygen > 0)
  <2>1. todo' = todo /\ job' = [for |-> "turn", step |-> "poll", epoch |-> epoch]
    BY <1>5 DEF Turn
  <2>2. JobOK'
    BY <1>2, <1>3, <2>1 DEF JobOK, Jobs
  <2> QED
    BY <1>1, <1>2, <1>3, <2>1, <2>2, StillRests, ZenonT(60)
<1> QED
  BY <1>4, <1>5

\* A step that may start, end or fail a key generation.
LEMMA GeneratesSound ==
    ASSUME Sound, Loaded, running' = running,
           UNCHANGED <<ledgerVars, keyFiles, key, next, pool, signed, duties>>,
           made' \in Nat, keygen' \in Int, keygen' > 0 => keygen' \in Trees /\ keygen' <= made',
           \A t : Old(t) => Old(t)',
           job.step = "seal" => \A t : t = keygen => Old(t)',
           keygen' # 0 => next = NoFile,
           JobOK', (Adopts \/ Evolves \/ Seals \/ Rests)'
    PROVE  Sound'
<1>1. /\ Chain /\ Numbered /\ Tallies /\ Disk
  BY DEF Sound
<1>2. /\ Chain' /\ \A k, n : Loadable(k, n)' <=> Loadable(k, n)
      /\ Marks' = Marks /\ (\A f : Top(f)' <=> Top(f))
  BY <1>1, SameChain, SameLeaves, ZenonT(60)
<1>3. ASSUME NEW d \in dirs PROVE Kept(d)'
  <2>1. Kept(d)
    BY <1>1, ZenonT(60) DEF Disk
  <2>2. Old(d["next"].tree)'
    BY <2>1 DEF Kept, Successor
  <2> QED
    BY <1>2, <2>1, <2>2 DEF Kept
<1>4. Disk'
  BY <1>1, <1>3 DEF Disk, keyFiles
<1>5. Numbered' /\ Tallies'
  BY <1>1, <1>2, ZenonT(60) DEF Numbered, Tallies, ledgerVars
<1>6. /\ Loadable(key, next)' /\ Top(key)' /\ Top(next)'
  BY <1>2, ZenonT(60) DEF Loaded
<1>7. Loaded'
  BY <1>6, ZenonT(60) DEF Loaded
<1> QED
  BY <1>2, <1>4, <1>5, <1>7 DEF Sound, Mode

\* The background thread ends, with a key or without.
LEMMA KeygenSound ==
    ASSUME Sound, KeygenDone \/ KeygenFails
    PROVE  Sound'
<1>1. /\ Mode /\ Numbered /\ keygen = -1
      /\ UNCHANGED <<ledgerVars, running, keyFiles, key, next, job, todo, pool, signed, duties>>
  BY DEF Sound, KeygenDone, KeygenFails, tallies
<1>2. Loaded /\ next = NoFile
  BY <1>1 DEF Mode, Unloaded, Loaded
<1>3. made \in Nat /\ \A t : Old(t) => Old(t)'
  BY <1>1 DEF Numbered, Old, KeygenDone, KeygenFails, tallies
<1>4. /\ made' \in Nat /\ keygen' \in Int /\ (keygen' > 0 => keygen' \in Trees /\ keygen' <= made')
  BY <1>3 DEF KeygenDone, KeygenFails, tallies
<1>5. Evolves \/ Rests
  BY <1>1, <1>2, JobParts DEF Loaded
<1>6. /\ Plain' <=> Plain
      /\ Heir' <=> Heir
      /\ MidSwap' <=> MidSwap
      /\ Swapped' <=> Swapped
      /\ Newest' = Newest
  BY <1>1, SamePlace, SameChain DEF ledgerVars
<1>7. Rests => Rests'
  BY <1>1, <1>6 DEF Rests
<1>8. Evolves => Evolves'
  <2>1. Leaf' = Leaf /\ Evolved' = Evolved
    BY <1>1 DEF Leaf, Wanted, Evolved, ledgerVars
  <2> QED
    BY <1>1, <1>6, <2>1, ZenonT(60) DEF Evolves, keyFiles
<1>9. JobOK'
  BY <1>1, <1>2, ZenonT(60) DEF Loaded, JobOK, CanRotate, UsableNext, Wanted, ledgerVars
<1>10. job.step # "seal"
  BY <1>5 DEF Evolves, Rests, Idle
<1> QED
  BY <1>1, <1>2, <1>3, <1>4, <1>5, <1>7, <1>8, <1>9, <1>10, GeneratesSound

\* One step of the rotation policy.
LEMMA DecideSound ==
    ASSUME Sound, Decide
    PROVE  Sound'
<1>1. /\ Mode /\ Numbered /\ running /\ todo = <<>> /\ job.for = "turn" /\ job.step = "decide"
      /\ UNCHANGED <<ledgerVars, running, keyFiles, key, next, todo, pool, signed, made, duties>>
  BY ZenonT(60) DEF Sound, Decide, At, tallies
<1>2. Loaded /\ Rests /\ job # Idle /\ JobOK
  <2>1. Loaded /\ Rests
    BY <1>1, RestingJob, ZenonT(60)
  <2> QED
    BY <1>1, <2>1 DEF Loaded, Idle
<1>3. CASE Submits
  <2>1. /\ job' = [for |-> "rotate", step |-> "prepare", epoch |-> job.epoch] /\ keygen' = keygen
        /\ CanRotate /\ UsableNext
    BY <1>3, ZenonT(60) DEF Decide, Submits
  <2>2. /\ job'.for = "rotate" /\ job'.step = "prepare" /\ job'.epoch = job.epoch /\ job' \in Jobs
    BY <1>2, <2>1 DEF JobOK, Jobs
  <2>3. JobOK'
    BY <1>1, <1>2, <2>1, <2>2, ZenonT(60) DEF JobOK, CanRotate, UsableNext, Wanted, ledgerVars
  <2> QED
    BY <1>1, <1>2, <2>1, <2>2, <2>3, StillRests, ZenonT(60)
<1>4. CASE ~Submits /\ ~Generates
  <2>1. job' = Idle /\ keygen' = keygen
    BY <1>4, ZenonT(60) DEF Decide
  <2> QED
    BY <1>1, <1>2, <2>1, StillRests, ZenonT(60) DEF JobOK
<1>5. CASE ~Submits /\ Generates
  <2>1. /\ job' = Idle /\ keygen' = -1 /\ keygen = 0 /\ CanRotate /\ ~UsableNext
    BY <1>5 DEF Decide, Generates
  <2>2. next = NoFile
    BY <1>2, <2>1, ZenonT(60) DEF CanRotate, UsableNext, Loaded, Loadable
  <2>3. made' \in Nat /\ keygen' \in Int /\ ~(keygen' > 0) /\ \A t : Old(t) => Old(t)'
    BY <1>1, <2>1 DEF Numbered, Old
  <2>4. JobOK'
    BY <2>1, ZenonT(60) DEF JobOK
  <2>5. Rests'
    BY <1>1, <1>2, <2>1, SamePlace DEF Rests, ledgerVars
  <2> QED
    BY <1>1, <1>2, <2>2, <2>3, <2>4, <2>5, GeneratesSound, ZenonT(60)
<1> QED
  BY <1>3, <1>4, <1>5, ZenonT(60)

\* The sealed successor is durable: memory takes it.
LEMMA SealedSound ==
    ASSUME Sound, Sealed
    PROVE  Sound'
<1>1. /\ Chain /\ Numbered /\ Tallies /\ Disk /\ Mode
      /\ running /\ todo = <<>> /\ job.for = "turn" /\ job.step = "seal"
      /\ next' = Successor /\ keygen' = 0 /\ job' = [job EXCEPT !.step = "poll"]
      /\ UNCHANGED <<ledgerVars, running, keyFiles, key, todo, pool, signed, made, duties>>
  BY DEF Sound, Sealed, At, Successor, tallies
<1>2. /\ Loaded /\ Seals
  BY <1>1 DEF Mode, Loaded, Boots, Adopts, Evolves, Rests, Idle
<1>3. /\ Plain /\ next = NoFile /\ keygen > 0 /\ dir["next"] = Successor /\ dirs = {dir}
  BY <1>1, <1>2, ZenonT(60) DEF Seals
<1>4. /\ Successor \in KeyFile /\ Successor # NoFile /\ Successor.tree = keygen
      /\ keygen \in Trees /\ keygen <= made /\ made \in Nat /\ keygen \in Nat
  <2>1. keygen \in Trees /\ keygen <= made /\ made \in Nat /\ keygen \in Int
    BY <1>1, <1>3 DEF Numbered
  <2>2. Successor \in KeyFile
    BY <2>1 DEF Successor, KeyFile
  <2> QED
    BY <1>3, <2>1, <2>2, FileFacts DEF Successor
<1>5. /\ \A t : Old(t) => Old(t)'
      /\ Old(0)'
      /\ \A t : t = keygen => Old(t)'
  BY <1>1, <1>4 DEF Old
<1>6. /\ Chain' /\ \A k, n : Loadable(k, n)' <=> Loadable(k, n)
      /\ Marks' = Marks /\ (\A f : Top(f)' <=> Top(f)) /\ Newest' = Newest
  BY <1>1, SameChain, SameLeaves
<1>7. Kept(dir) /\ dir["kes"].tree = key.tree /\ Successor.tree # Newest.tree /\ key \in KeyFile
  BY <1>1, <1>2, <1>3, <1>4, ZenonT(60) DEF Disk, Plain, Loaded, Loadable
<1>8. Loadable(dir["kes"], Successor)
  BY <1>3, <1>7, FileFacts, NotInterrupted DEF Kept
<1>9. Loadable(key, Successor)
  BY <1>4, <1>7, <1>8, ZenonT(60) DEF Loadable
<1>10. ASSUME NEW d \in dirs PROVE Kept(d)'
  <2>1. Kept(d) /\ d = dir
    BY <1>1, <1>3 DEF Disk
  <2>2. Old(d["next"].tree)'
    BY <1>3, <1>4, <1>5, <2>1
  <2> QED
    BY <1>5, <1>6, <2>1, <2>2 DEF Kept
<1>11. Disk'
  BY <1>1, <1>10 DEF Disk, keyFiles
<1>12. Numbered' /\ Tallies'
  <2>1. Old(next.tree)'
    BY <1>1, <1>4, <1>5
  <2> QED
    BY <1>1, <1>5, <1>6, <2>1 DEF Numbered, Tallies, ledgerVars
<1>13. /\ job'.step = "poll" /\ job'.for = job.for /\ job'.epoch = job.epoch /\ job' # Idle
       /\ job' \in Jobs /\ JobOK /\ job # Idle
  <2>1. JobOK /\ job \in Jobs /\ job # Idle
    BY <1>1, <1>2 DEF Loaded, JobOK, Idle
  <2> QED
    BY <1>1, <2>1, NextStep, ZenonT(60)
<1>14. JobOK'
  BY <1>1, <1>13 DEF JobOK, ledgerVars
<1>15. Plain'
  BY <1>1, <1>3, <1>4 DEF Plain, Clean, keyFiles
<1>16. Rests'
  BY <1>1, <1>13, <1>15 DEF Rests
<1>17. Loadable(key, next)' /\ Top(key)' /\ Top(next)'
  <2>1. Top(Successor) /\ Top(key)
    BY <1>2, <1>3, <1>7 DEF Kept, Loaded
  <2> QED
    BY <1>1, <1>6, <1>9, <2>1, ZenonT(60)
<1>18. Mode'
  BY <1>1, <1>14, <1>16, <1>17 DEF Mode, Loaded
<1> QED
  BY <1>6, <1>11, <1>12, <1>18 DEF Sound

\* The files of a swap are in place: the successor signs.
LEMMA AdoptedSound ==
    ASSUME Sound, Adopted
    PROVE  Sound'
<1>1. /\ Chain /\ Numbered /\ Tallies /\ Disk /\ Mode
      /\ running /\ todo = <<>> /\ job.step = "adopt" /\ key' = next /\ next' = NoFile
      /\ job' = [job EXCEPT !.step = IF job.for = "turn" THEN "decide" ELSE "prepare"]
      /\ UNCHANGED <<ledgerVars, running, keyFiles, keygen, todo, pool, signed, made, duties>>
  BY DEF Sound, Adopted, At, tallies
<1>2. /\ Loaded /\ Adopts
  BY <1>1 DEF Mode, Loaded, Boots, Seals, Evolves, Rests, Idle
<1>3. /\ job.for \in {"duty", "turn"} /\ Heir /\ Swapped /\ dirs = {dir} /\ dir["retired"] = NoFile
      /\ dir["kes"] # NoFile /\ JobOK /\ keygen = 0
  BY <1>1, <1>2 DEF Adopts, Shreds, Loaded, Heir
<1>4. pool = NoTx
  BY <1>1, <1>2, <1>3, PoolFacts DEF Loaded
<1>5. /\ Kept(dir) /\ dir["kes"] = next /\ dir["next"] = NoFile /\ next \in KeyFile
  BY <1>1, <1>2, <1>3, ZenonT(60) DEF Disk, Swapped, Loaded, Loadable, Heir
<1>6. Loadable(next, NoFile) /\ Top(next) /\ Top(NoFile)
  BY <1>3, <1>5 DEF Kept, Interrupted
<1>7. /\ Chain' /\ (\A k, n : Loadable(k, n)' <=> Loadable(k, n)) /\ Newest' = Newest
      /\ \A t : Old(t)' <=> Old(t)
  BY <1>1, SameChain, SameTrees
<1>8. \A m \in Marks' : m \in Marks \/ m = next
  BY <1>1 DEF Marks
<1>9. next.tree # 0 /\ next.leaf \in Nat /\ NoFile.tree = 0
  BY <1>5, FileFacts, ZenonT(60)
<1>10. \A f : f = next \/ f = NoFile => Top(f)'
  BY <1>6, <1>8, <1>9 DEF Top
<1>11. ASSUME NEW d \in dirs PROVE Kept(d)'
  <2>1. d = dir /\ Kept(d)
    BY <1>3, <1>5
  <2>2. Top(d["kes"])' /\ Top(d["next"])' /\ Top(d["retired"])'
    BY <1>3, <1>5, <1>10, <2>1
  <2>3. Old(d["next"].tree)
    BY <1>1, <1>5, <2>1 DEF Numbered, Old, NoFile
  <2> QED
    BY <1>7, <2>1, <2>2, <2>3 DEF Kept
<1>12. Disk'
  BY <1>1, <1>11 DEF Disk, keyFiles
<1>13. Numbered' /\ Tallies'
  <2>1. \A m \in Marks' : Old(m.tree)'
    BY <1>1, <1>7, <1>8 DEF Numbered
  <2>2. Old(next.tree)'
    BY <1>1, <1>3, <1>9 DEF Old, Numbered
  <2> QED
    BY <1>1, <1>7, <2>1, <2>2 DEF Numbered, Tallies, ledgerVars
<1>14. job # Idle /\ job \in Jobs
  BY <1>1, <1>3 DEF JobOK, Idle
<1>15. /\ \/ job.for = "turn" /\ job'.step = "decide"
          \/ job.for = "duty" /\ job'.step = "prepare"
       /\ job'.for = job.for /\ job'.epoch = job.epoch /\ job' # Idle /\ job' \in Jobs
  <2>1. CASE job.for = "turn"
    <3>1. job' = [job EXCEPT !.step = "decide"]
      BY <1>1, <2>1
    <3> QED
      BY <1>14, <2>1, <3>1, NextStep, ZenonT(60)
  <2>2. CASE job.for = "duty"
    <3>1. job' = [job EXCEPT !.step = "prepare"]
      BY <1>1, <2>2
    <3> QED
      BY <1>14, <2>2, <3>1, NextStep, ZenonT(60)
  <2> QED
    BY <1>3, <2>1, <2>2
<1>16. JobOK'
  BY <1>1, <1>3, <1>14, <1>15 DEF JobOK, ledgerVars
<1>17. Plain'
  BY <1>1, <1>3, <1>5 DEF Plain, Clean, keyFiles
<1>18. Rests'
  BY <1>1, <1>15, <1>17 DEF Rests
<1>19. Loadable(key, next)' /\ Top(key)' /\ Top(next)'
  BY <1>1, <1>6, <1>7, <1>10
<1>20. Mode'
  BY <1>1, <1>3, <1>16, <1>18, <1>19 DEF Mode, Loaded
<1> QED
  BY <1>7, <1>12, <1>13, <1>20 DEF Sound

\* Start-up has finished its file operations and loads both files.
LEMMA LoadSound ==
    ASSUME Sound, Load
    PROVE  Sound'
<1>1. /\ Chain /\ Numbered /\ Tallies /\ Disk /\ Mode
      /\ running /\ todo = <<>> /\ job.for = "boot" /\ job.step = "load" /\ job' = Idle
      /\ key' = dir["kes"] /\ next' = IF dir["kes"] = NoFile THEN NoFile ELSE dir["next"]
      /\ UNCHANGED <<ledgerVars, running, keyFiles, keygen, todo, pool, signed, made, duties>>
  BY DEF Sound, Load, At, tallies
<1>2. /\ Unloaded /\ Boots
  BY <1>1, JobParts, ZenonT(60) DEF Mode, Loaded, Idle
<1>3. /\ dirs = {dir} /\ dir["retired"] = NoFile /\ dir["kes"] # NoFile /\ keygen = 0
  BY <1>1, <1>2, ZenonT(60) DEF Boots, Shreds, Unloaded
<1>4. /\ Kept(dir) /\ Loadable(dir["kes"], dir["next"]) /\ next' = dir["next"]
  BY <1>1, <1>3, ZenonT(60) DEF Disk, Kept, Interrupted
<1>5. /\ dir["kes"] \in KeyFile /\ dir["kes"].tree # 0 /\ dir["next"] \in KeyFile \cup {NoFile}
      /\ dir["next"].tree # dir["kes"].tree /\ NoFile.tree = 0 /\ dir["kes"].leaf \in Nat
  BY <1>4, FileFacts, ZenonT(60) DEF Loadable
<1>6. /\ Chain' /\ (\A k, n : Loadable(k, n)' <=> Loadable(k, n))
      /\ \A t : Old(t)' <=> Old(t)
  BY <1>1, SameChain, SameTrees
<1>7. \A m \in Marks' : m \in Marks \/ m = dir["kes"]
  BY <1>1, ZenonT(60) DEF Marks
<1>8. /\ Top(dir["kes"]) /\ Top(dir["next"]) /\ Top(NoFile)
  BY <1>3, <1>4, ZenonT(60) DEF Kept
<1>9. \A f : f \in {dir["kes"], dir["next"], NoFile} => Top(f)'
  BY <1>5, <1>7, <1>8 DEF Top
<1>10. Old(dir["next"].tree) /\ Old(dir["kes"].tree)
  BY <1>1, <1>4, ZenonT(60) DEF Kept
<1>11. ASSUME NEW d \in dirs PROVE Kept(d)'
  <2>1. d = dir /\ Kept(d)
    BY <1>3, <1>4
  <2>2. Top(d["kes"])' /\ Top(d["next"])' /\ Top(d["retired"])'
    BY <1>3, <1>9, <2>1
  <2> QED
    BY <1>6, <1>10, <2>1, <2>2, ZenonT(60) DEF Kept
<1>12. Disk'
  BY <1>1, <1>11, ZenonT(60) DEF Disk, keyFiles
<1>13. Numbered' /\ Tallies'
  <2>1. \A m \in Marks' : Old(m.tree)'
    BY <1>1, <1>6, <1>7, <1>10, ZenonT(60) DEF Numbered
  <2>2. Old(next.tree)'
    BY <1>4, <1>6, <1>10, ZenonT(60)
  <2> QED
    BY <1>1, <1>6, <2>1, <2>2, ZenonT(60) DEF Numbered, Tallies, ledgerVars
<1>14. JobOK' /\ Rests'
  <2>1. Plain'
    BY <1>1, <1>3, <1>4, ZenonT(60) DEF Plain, Clean, keyFiles
  <2> QED
    BY <1>1, <2>1, ZenonT(60) DEF JobOK, Rests
<1>15. Loadable(key, next)' /\ Top(key)' /\ Top(next)'
  BY <1>1, <1>4, <1>6, <1>9, ZenonT(60)
<1>16. Mode'
  BY <1>1, <1>3, <1>14, <1>15, ZenonT(60) DEF Mode, Loaded
<1> QED
  BY <1>6, <1>12, <1>13, <1>16 DEF Sound

\* A file operation fails: a start-up ends the process, a seal is given up, and a duty or a
\* turn ends with the files where they are.
LEMMA FailsSound ==
    ASSUME Sound, FileFails
    PROVE  Sound'
<1>1. /\ Chain /\ Numbered /\ Tallies /\ Disk /\ Mode
      /\ todo # <<>> /\ todo' = <<>> /\ running' = (job.for # "boot")
      /\ UNCHANGED <<ledgerVars, keyFiles, key, next, pool, signed, made, duties>>
  BY DEF Sound, FileFails
<1>2. CASE Unloaded /\ Boots
  <2>1. job.for = "boot" /\ job.step = "load"
    BY <1>2, ZenonT(60) DEF Boots
  <2>2. ~running' /\ job' = Idle /\ keygen' = keygen
    BY <1>1, <2>1, ZenonT(60) DEF FileFails
  <2>3. /\ Chain' /\ Marks' = Marks /\ \A t : Old(t)' <=> Old(t)
    BY <1>1, <2>2, SameChain, SameLeaves, SameTrees, ZenonT(60)
  <2>4. Disk'
    <3>1. \A d : Kept(d) => Kept(d)'
      BY <1>1, <2>1, <2>2, SameKept, ZenonT(60)
    <3> QED
      BY <1>1, <3>1, ZenonT(60) DEF Disk, keyFiles
  <2>5. Numbered' /\ Tallies'
    BY <1>1, <2>2, <2>3, ZenonT(60) DEF Numbered, Tallies, ledgerVars
  <2>6. Mode'
    BY <1>1, <1>2, <2>2, ZenonT(60) DEF Mode, Unloaded
  <2> QED
    BY <2>3, <2>4, <2>5, <2>6 DEF Sound
<1>3. CASE Loaded /\ (Adopts \/ Evolves)
  <2>1. job.step \in {"adopt", "evolve"} /\ job.for # "boot" /\ running
    BY <1>3, ZenonT(60) DEF Adopts, Evolves, Loaded
  <2>2. running' = running /\ job' = Idle /\ keygen' = keygen
    BY <1>1, <2>1, ZenonT(60) DEF FileFails
  <2>3. Plain \/ (Heir /\ (MidSwap \/ Swapped))
    BY <1>3, ZenonT(60) DEF Adopts, Evolves
  <2>4. Rests' /\ JobOK'
    BY <1>1, <2>2, <2>3, SamePlace, ZenonT(60) DEF Rests, JobOK, ledgerVars
  <2> QED
    BY <1>1, <1>3, <2>1, <2>2, <2>4, JobKeeps, ZenonT(60)
<1>4. CASE Loaded /\ Seals
  <2>1. /\ job.step = "seal" /\ job.for = "turn" /\ Plain /\ running /\ next = NoFile /\ keygen > 0
        /\ JobOK
    BY <1>4, ZenonT(60) DEF Seals, Loaded
  <2>2. running' = running /\ job' = [job EXCEPT !.step = "poll"] /\ keygen' = 0
    BY <1>1, <2>1, ZenonT(60) DEF FileFails
  <2>3. job # Idle /\ job \in Jobs
    BY <2>1 DEF JobOK, Idle
  <2>4. /\ job'.step = "poll" /\ job'.for = job.for /\ job'.epoch = job.epoch /\ job' # Idle
        /\ job' \in Jobs
    BY <2>2, <2>3, NextStep, ZenonT(60)
  <2>5. JobOK'
    BY <1>1, <2>1, <2>3, <2>4, ZenonT(60) DEF JobOK, ledgerVars
  <2>6. Rests'
    BY <1>1, <2>1, <2>4, SamePlace, ZenonT(60) DEF Rests, ledgerVars
  <2>7. /\ made' \in Nat /\ keygen' \in Int /\ ~(keygen' > 0)
        /\ (\A t : Old(t) => Old(t)') /\ \A t : t = keygen => Old(t)'
    BY <1>1, <2>1, <2>2 DEF Numbered, Old
  <2> QED
    BY <1>1, <1>4, <2>2, <2>5, <2>6, <2>7, GeneratesSound
<1> QED
  BY <1>1, <1>2, <1>3, <1>4, ZenonT(60) DEF Mode, Loaded, Rests
=============================================================================

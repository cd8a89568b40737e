----------------------------- MODULE KesLedger -----------------------------
(***************************************************************************)
(* What the committed state records of one validator's forward-secure      *)
(* (KES) key: the key in force, at most one successor, the replaced keys   *)
(* still kept for evidence, and the epoch from which KES is enforced.      *)
(* A key is a tree and the period its leaf 0 signs; leaf i signs period    *)
(* start + i, for Leaves periods.  The retired list of the code is a set   *)
(* here: RetiredDisjoint shows that at most one of its members covers a    *)
(* period, so the order the code searches it in does not matter.           *)
(*                                                                         *)
(* The validator stays active (neither slashed nor exited) and every tree  *)
(* has an admissible depth.  The stake the registered keys of all          *)
(* validators carry is an input of CloseEpoch.                             *)
(***************************************************************************)
EXTENDS Integers

CONSTANTS
    Trees,          \* the trees a validator can generate, positive integers
    Leaves,         \* periods one tree signs (2^depth)
    PeriodEpochs,   \* KES_PERIOD_EPOCHS
    BindDelay,      \* KES_BIND_DELAY_EPOCHS
    RescueDelay,    \* KES_RESCUE_DELAY_PERIODS
    History,        \* KES_KEY_HISTORY_PERIODS
    MaxEpoch        \* bound on the epochs of a behaviour

ASSUME KesConstants ==
    /\ Trees \subseteq Nat \ {0}
    /\ Leaves \in Nat \ {0} /\ PeriodEpochs \in Nat \ {0}
    /\ BindDelay \in Nat /\ RescueDelay \in Nat \ {0} /\ History \in Nat
    /\ MaxEpoch \in Nat

VARIABLES
    epoch,          \* CommittedState::epoch, counted from the activation gate
    enforcedFrom,   \* CommittedState::kes_enforced_from, NoEpoch for None
    entry           \* the validator's KesEntry; current = NoKey when it has none

ledgerVars == <<epoch, enforcedFrom, entry>>

NoEpoch == -1
NoKey == [tree |-> 0, start |-> 0]
NoEntry == [current |-> NoKey, next |-> NoKey, retired |-> {}]
Registered == entry.current # NoKey

Period(e) == e \div PeriodEpochs

EndPeriod(key) == key.start + Leaves

Signs(key, p) == key.start <= p /\ p < EndPeriod(key)

Covers(old, p) == old.key.start <= p /\ p < old.end

InForce(en, p) ==
    IF en.next # NoKey /\ p >= en.next.start THEN en.next
    ELSE IF p >= en.current.start THEN en.current
    ELSE IF \E old \in en.retired : Covers(old, p)
         THEN (CHOOSE old \in en.retired : Covers(old, p)).key
         ELSE en.current

PendingAt(en, p) == en.next # NoKey /\ en.next.start > p

Pruned(retired, p) ==
    LET keepFrom == IF p > History THEN p - History ELSE 0
    IN  {old \in retired : old.end > keepFrom}

Retire(key, end) == [key |-> key, end |-> end]

\* The key a successor takes over from is not kept.
SettledForgets(en, p) ==
    IF en.next # NoKey /\ p >= en.next.start
    THEN [current |-> en.next, next |-> NoKey, retired |-> Pruned(en.retired, p)]
    ELSE [en EXCEPT !.retired = Pruned(en.retired, p)]

Settled(en, p) ==
    IF en.next # NoKey /\ p >= en.next.start
    THEN [current |-> en.next, next |-> NoKey,
          retired |-> Pruned(en.retired \cup {Retire(en.current, en.next.start)}, p)]
    ELSE [en EXCEPT !.retired = Pruned(en.retired, p)]

Sooner(p, q) == IF p < q THEN p ELSE q

ReplacedBy(en, fresh, p) ==
    LET gone == IF en.next # NoKey
                THEN {Retire(en.current, en.next.start),
                      Retire(en.next, Sooner(EndPeriod(en.next), fresh.start))}
                ELSE {Retire(en.current, Sooner(EndPeriod(en.current), fresh.start))}
    IN  [current |-> fresh, next |-> NoKey, retired |-> Pruned(en.retired \cup gone, p)]

Bound == enforcedFrom # NoEpoch /\ epoch >= enforcedFrom

RescueOpen ==
    LET p == Period(epoch)
    IN  Registered /\ Bound /\ p >= EndPeriod(InForce(entry, p)) /\ ~PendingAt(entry, p)

(***************************************************************************)
(* check_kes_register: once, or as the rescue of an expired key with a     *)
(* tree the validator has not used before.  The static key signs it.       *)
(***************************************************************************)
RegisterRefuses(t) ==
    /\ Registered
    /\ \/ ~RescueOpen
       \/ t = InForce(entry, Period(epoch)).tree
       \/ t = entry.next.tree
       \/ \E old \in entry.retired : t = old.key.tree

RegisterStart ==
    IF Registered THEN Period(epoch) + RescueDelay
    ELSE IF Bound THEN Period(epoch) + 1 ELSE 0

KesRegister(t) ==
    /\ ~RegisterRefuses(t)
    /\ LET fresh == [tree |-> t, start |-> RegisterStart]
       IN  entry' = IF Registered THEN ReplacedBy(entry, fresh, Period(epoch))
                    ELSE [NoEntry EXCEPT !.current = fresh]
    /\ UNCHANGED <<epoch, enforcedFrom>>

(***************************************************************************)
(* check_kes_rotate: in a block of the period p it was signed for, by the  *)
(* leaf of p under the key in force, to a tree not used before.            *)
(***************************************************************************)
RotateRefuses(t, p) ==
    LET settled == Settled(entry, p)
        current == InForce(settled, p)
    IN  \/ p # Period(epoch)
        \/ ~Registered
        \/ PendingAt(settled, p)
        \/ t = current.tree
        \/ \E old \in settled.retired : t = old.key.tree
        \/ ~Signs(InForce(entry, p), p)

KesRotate(t, p) ==
    /\ ~RotateRefuses(t, p)
    /\ entry' = [Settled(entry, p) EXCEPT !.next = [tree |-> t, start |-> p + 1]]
    /\ UNCHANGED <<epoch, enforcedFrom>>

(***************************************************************************)
(* The epoch boundary: KES binds BindDelay epochs after the first boundary *)
(* at which the registered keys cover enough stake.                        *)
(***************************************************************************)
CloseEpoch(covered) ==
    /\ epoch < MaxEpoch
    /\ epoch' = epoch + 1
    /\ enforcedFrom' = IF enforcedFrom = NoEpoch /\ covered
                       THEN epoch + 1 + BindDelay ELSE enforcedFrom
    /\ UNCHANGED entry

LedgerInit == epoch = 0 /\ enforcedFrom = NoEpoch /\ entry = NoEntry

LedgerNext ==
    \/ \E covered \in BOOLEAN : CloseEpoch(covered)
    \/ \E t \in Trees : KesRegister(t) \/ KesRotate(t, Period(epoch))

LedgerSpec == LedgerInit /\ [][LedgerNext]_ledgerVars

-----------------------------------------------------------------------------
Static == [tree |-> 0, start |-> 1]

(***************************************************************************)
(* verify_validator: who the signature of a message of epoch e is checked  *)
(* against, in the present state.  NoKey stands for "nothing verifies".    *)
(***************************************************************************)
Authority(e) ==
    IF enforcedFrom = NoEpoch \/ e < enforcedFrom \/ ~Registered THEN Static
    ELSE LET key == InForce(entry, Period(e))
         IN  IF Signs(key, Period(e)) THEN key ELSE NoKey

\* Type: a retired key's range is not empty, keys start at a period, and
\* the successor starts after the current key.
KesTypeOK ==
    /\ epoch \in Nat
    /\ enforcedFrom \in Nat \cup {NoEpoch}
    /\ {entry.current, entry.next} \subseteq [tree : Trees \cup {0}, start : Nat]
    /\ entry.retired \subseteq [key : [tree : Trees, start : Nat], end : Nat]

\* "Replaced keys, oldest first, with disjoint ascending period ranges"
\* (kes.rs, KesEntry::retired): no period is claimed by two of the keys an
\* entry holds, whatever rotations and rescues built it.
RetiredDisjoint ==
    /\ \A old \in entry.retired :
           old.key.start < old.end /\ old.end <= entry.current.start
    /\ \A r, s \in entry.retired : r = s \/ r.end <= s.key.start \/ s.end <= r.key.start
    /\ entry.next # NoKey => entry.current.start < entry.next.start

\* Evidence stays provable (review R-1): for every epoch up to the present
\* one, and for History periods after, no registration, rotation, rescue or
\* pruning changes the key a signature of that epoch is verified against.
\* The one exception is the static fallback of a validator that registers
\* after KES has bound.
AuthorityFixed ==
    [][\A e \in 0..epoch :
          /\ Period(e) + History >= Period(epoch')
          /\ ~(enforcedFrom # NoEpoch /\ e >= enforcedFrom /\ Authority(e) = Static)
          => Authority(e)' = Authority(e)]_ledgerVars
=============================================================================

----------------------------- MODULE GossipPool -----------------------------
(***************************************************************************)
(* Votes that arrive by gossip: crates/bloch-pos-committee/src/gossip.rs   *)
(* (AttestationPool), and the engine around it (on_attestation,            *)
(* judge_admission, the replay of held votes in release_held_turn).        *)
(*                                                                         *)
(* A vote is its slot, its validator and the two blocks it names; its      *)
(* signature is good and its key known, since what fails those checks      *)
(* leaves the pool as it was.  `pending' is in order of insertion.  The    *)
(* five maps of counters are one bag of shares: an entry holds one share   *)
(* in each of its duty, root and source, and of the last two together.     *)
(***************************************************************************)
EXTENDS Integers, Sequences, SequencesExt, BagsExt

CONSTANTS
    Votes,         \* the votes that may arrive: [slot, validator, head, target]
    Seated,        \* the duties of each validator: <<slot, validator>>
    Base,          \* a block known from the start
    Another,       \* stands for the blocks no vote names
    Sources,       \* normalized transport identities
    Unattributed,  \* no source
    Limits,        \* of the pool and of each kind of share
    PerDuty,       \* MAX_EQUIVOCATIONS_PER_DUTY
    Window, Skew,  \* ATTESTATION_WINDOW_SLOTS, CLOCK_SKEW_SLOTS
    SlotsPerEpoch,
    FirstSlot,     \* bounds on the clock
    LastSlot

VARIABLES
    pool,      \* AttestationPool
    known,     \* blocks in the engine's store, beside Base
    held,      \* held_release_roots
    wall,      \* wall_slot
    headEpoch, \* the epoch of the head's state
    relayed,   \* how often each vote was accepted and passed on
    evidence   \* the pairs given to the slashing pool

poolVars == <<pool, known, held, wall, headEpoch, relayed, evidence>>

Blocks == UNION {{a.head, a.target} : a \in Votes} \ {Base}
Known(root) == root \in known \cup {Base}
EpochOf(slot) == slot \div SlotsPerEpoch
Duty(a) == <<a.slot, a.validator>>

-----------------------------------------------------------------------------
(* The pool.                                                               *)

NewPool == [seen |-> EmptyBag, pending |-> <<>>, shares |-> EmptyBag, keys |-> {}]
Accepted(p, a) == IF Duty(a) \in DOMAIN p.seen THEN p.seen[Duty(a)] ELSE <<>>

Entry(a, root, source) == [att |-> a, root |-> root, source |-> source]
SharesOf(e) ==
    {<<"duty", Duty(e.att)>>, <<"root", e.root>>} \cup
    IF e.source = Unattributed THEN {<<"free", Base>>, <<"free root", e.root>>}
    ELSE {<<"source", e.source>>, <<"source root", <<e.source, e.root>>>>}

Waiting(p, root) == SelectSeq(p.pending, LAMBDA e : e.root = root)
Roots(p) == {s \in BagToSet(p.shares) : s[1] = "root"}

\* Mutant: the share of the source in the root is not given back.
DropKeepingShare(p, e) ==
    [p EXCEPT !.pending = Remove(@, e), !.keys = @ \ {e.att},
              !.shares = @ (-) SetToBag({s \in SharesOf(e) : s[1] # "source root"})]

\* remove_pending
Drop(p, e) ==
    [p EXCEPT !.pending = Remove(@, e), !.keys = @ \ {e.att},
              !.shares = @ (-) SetToBag(SharesOf(e))]

\* pending_capacity_reason: the entry would exceed one of its shares, or be the first of one
\* root too many.
Full(p, e) ==
    \/ \E s \in SharesOf(e) : CopiesIn(s, p.shares) >= Limits[s[1]]
    \/ <<"root", e.root>> \notin Roots(p) /\ Cardinality(Roots(p)) >= Limits["roots"]

\* hold: the oldest entry makes room.
Hold(p, e) ==
    LET q == IF Len(p.pending) < Limits["pending"] THEN p ELSE Drop(p, Head(p.pending))
    IN  [q EXCEPT !.pending = Append(@, e), !.keys = @ \cup {e.att},
                  !.shares = @ (+) SetToBag(SharesOf(e))]

Record(p, a) == [p EXCEPT !.seen = (Duty(a) :> Append(Accepted(p, a), a)) @@ @]

Ignore(p) == [pool |-> p, accepted |-> {}, pairs |-> {}]

\* What process_inner answers Ignore or Reject before it looks at the capacity.
Refused(p, a) ==
    \/ a.slot + Window < wall \/ a.slot > wall + Skew
    \/ Contains(Accepted(p, a), a) \/ Len(Accepted(p, a)) >= PerDuty
    \/ a \in p.keys
    \/ Known(a.target) /\ Duty(a) \notin Seated  \* with no seed everyone is admitted

\* process_inner
Process(p, a, source) ==
    LET missing == SelectSeq(<<a.head, a.target>>, LAMBDA root : ~Known(root))
        e == Entry(a, Head(missing), source)
    IN  IF Refused(p, a) \/ (missing # <<>> /\ Full(p, e)) THEN Ignore(p)
        ELSE IF missing # <<>> THEN [Ignore(p) EXCEPT !.pool = Hold(p, e)]
        ELSE [pool |-> Record(p, a), accepted |-> {a},
              pairs |-> {{Accepted(p, a)[i], a} : i \in DOMAIN Accepted(p, a) \cap {1}}]

\* Mutant: the duties of the oldest slot still in the window are forgotten.
PruneWindow(p) ==
    LET expired == SelectSeq(p.pending, LAMBDA e : e.att.slot + Window < wall')
    IN  [FoldLeft(Drop, p, expired) EXCEPT
            !.seen = Restrict(@, {d \in DOMAIN @ : d[1] + Window > wall'})]

\* prune, for the slot the clock moves to.
Prune(p) ==
    LET expired == SelectSeq(p.pending, LAMBDA e : e.att.slot + Window < wall')
    IN  [FoldLeft(Drop, p, expired) EXCEPT
            !.seen = Restrict(@, {d \in DOMAIN @ : d[1] + Window >= wall'})]

-----------------------------------------------------------------------------
(* The engine.  `able': this node reaches the branch of a target it knows. *)

\* judge_admission
Judge(p, a, source, able) ==
    IF EpochOf(a.slot) < headEpoch \/ (Known(a.target) /\ ~able) THEN Ignore(p)
    ELSE Process(p, a, source)

\* apply_decision, and the end of release_held_turn.
Apply(r) ==
    /\ pool' = r.pool
    /\ relayed' = relayed (+) SetToBag(r.accepted)
    /\ evidence' = evidence \cup r.pairs

InitPool ==
    /\ pool = NewPool /\ known = {} /\ held = <<>>
    /\ wall = FirstSlot /\ headEpoch = EpochOf(FirstSlot)
    /\ relayed = EmptyBag /\ evidence = {}

\* on_attestation; a fresh vote that cannot be judged, or verified within the budget, is dropped
\* with no trace.
OnAttestation(a, source) ==
    /\ EpochOf(a.slot) - EpochOf(wall) \in {0, 1}
    /\ Apply(Judge(pool, a, source, TRUE))
    /\ UNCHANGED <<known, held, wall, headEpoch>>

\* schedule_held_release
Schedule(root) ==
    held' = IF Waiting(pool, root) = <<>> \/ Contains(held, root) THEN held
            ELSE Append(held, root)

\* The end of ingest: the block is stored, advance moves the head and may drop blocks, this one
\* included, and what waits for it is scheduled.  Pruning below the finalized block comes last.
Ingest(root, gone, epoch) ==
    /\ known' = (known \cup ({root} \ {Another})) \ gone
    /\ headEpoch' = epoch
    /\ Schedule(root)
    /\ UNCHANGED <<pool, wall, relayed, evidence>>

\* Mutant: the root leaves the queue with its first waiter.
ReleaseAndForget(able) ==
    LET waiting == Waiting(pool, Head(held))
    IN  /\ held # <<>> /\ held' = Tail(held)
        /\ IF waiting = <<>> THEN Apply(Ignore(pool))
           ELSE Apply(Judge(Drop(pool, waiting[1]), waiting[1].att, waiting[1].source, able))
        /\ UNCHANGED <<known, wall, headEpoch>>

\* release_held_turn: one waiter of the front root is taken out and judged again; the root goes
\* when no other waiter was left behind it.
ReleaseHeldTurn(able) ==
    LET waiting == Waiting(pool, Head(held))
    IN  /\ held # <<>>
        /\ held' = IF Len(waiting) > 1 THEN held ELSE Tail(held)
        /\ IF waiting = <<>> THEN Apply(Ignore(pool))
           ELSE Apply(Judge(Drop(pool, waiting[1]), waiting[1].att, waiting[1].source, able))
        /\ UNCHANGED <<known, wall, headEpoch>>

\* A turn of the slot loop in a new slot.
NewSlot ==
    /\ wall < LastSlot /\ wall' = wall + 1
    /\ pool' = Prune(pool)
    /\ UNCHANGED <<known, held, headEpoch, relayed, evidence>>

NextPool ==
    \/ \E a \in Votes, source \in Sources \cup {Unattributed} : OnAttestation(a, source)
    \/ \E root \in (Blocks \ known) \cup {Another} :
            \E gone \in SUBSET (known \cup {root}), epoch \in 0..EpochOf(wall) :
                Ingest(root, gone, epoch)
    \/ \E able \in BOOLEAN : ReleaseHeldTurn(able)
    \/ NewSlot

PoolSpec == InitPool /\ [][NextPool]_poolVars

-----------------------------------------------------------------------------
(* The counters beside the pending map agree with it after any sequence of *)
(* holds, evictions, extractions and expiries ("the single place that      *)
(* cannot leave any pending index out of sync"), so that no share is lost  *)
(* for good and no limit is exceeded.                                      *)
SharesExact ==
    LET Holders(s) == {i \in DOMAIN pool.pending : s \in SharesOf(pool.pending[i])}
        held_shares == UNION {SharesOf(e) : e \in ToSet(pool.pending)}
    IN  /\ BagToSet(pool.shares) = held_shares
        /\ \A s \in held_shares : CopiesIn(s, pool.shares) = Cardinality(Holders(s))
        /\ \A s \in held_shares : CopiesIn(s, pool.shares) <= Limits[s[1]]
        /\ pool.keys = {e.att : e \in ToSet(pool.pending)}
        /\ Cardinality(Roots(pool)) <= Limits["roots"]
        /\ Len(pool.pending) <= Limits["pending"]

(* No vote is accepted twice, no duty is passed on more than twice, and    *)
(* two votes of one duty are never both accepted without their pair going  *)
(* to the slashing pool, although duties are forgotten with the window and *)
(* parked votes come back long after they arrived.                         *)
EquivocationCaptured ==
    \A a, b \in BagToSet(relayed) :
        /\ CopiesIn(a, relayed) = 1
        /\ a # b /\ Duty(a) = Duty(b) => {a, b} \in evidence
        /\ Cardinality({c \in BagToSet(relayed) : Duty(c) = Duty(a)}) <= PerDuty

(* A parked vote whose block is here is on its way to be judged: its block *)
(* is in the queue of landed roots.                                        *)
NoWaiterStranded ==
    \A e \in ToSet(pool.pending) : Known(e.root) => Contains(held, e.root)

(* "Replay one FIFO entry for the earliest landed root": every turn leaves *)
(* fewer votes waiting for that root, or takes the root off the queue.     *)
HeldTurnProgresses ==
    [][(\E able \in BOOLEAN : ReleaseHeldTurn(able)) =>
            \/ Len(Waiting(pool', Head(held))) < Len(Waiting(pool, Head(held)))
            \/ held' = Tail(held)]_poolVars
=============================================================================

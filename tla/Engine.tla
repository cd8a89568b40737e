------------------------------- MODULE Engine -------------------------------
(***************************************************************************)
(* How a node adopts blocks (crates/bloch-pos-node/src/engine.rs): the     *)
(* door that stores, queues or drops an arriving block, the loop `advance' *)
(* that moves the canonical chain to the LMD-GHOST head, reorgs, the       *)
(* finality latch, pruning, the transaction index, and what a restart      *)
(* rebuilds from the block log.                                            *)
(*                                                                         *)
(* What blocks exist, and what the transition makes of each of them, is    *)
(* the record `world', chosen once by `scene'.  A block's post-state is a  *)
(* function of its ancestry, so the world gives it per block: its          *)
(* justified and finalized checkpoints, its active stakes, whether it      *)
(* applies.  A checkpoint is an epoch and a root.  The root need not be on *)
(* the block's own chain: while the gate of own-target votes is inert, a   *)
(* block may carry the votes of another branch and justify its checkpoint. *)
(* The world also says who sends blocks (`local' is this node's proposer), *)
(* whether the operator runs with finality_rewind_override, and bounds the *)
(* clock and the restarts.                                                 *)
(*                                                                         *)
(* The engine is one thread.  Between two messages `adv' is Idle; an       *)
(* accepted block starts the loop, and each turn of it is a step.  The log *)
(* writer is another thread: `Publish' may come at any time.               *)
(***************************************************************************)
EXTENDS Ghost, EpochClock

CONSTANTS
    Ids,                \* block identities: 1..n, compared as in a BTreeMap
    Worlds,             \* the block trees to choose from: a function
    Tolerance,          \* FUTURE_SLOT_TOLERANCE
    MaxParked,          \* MAX_PARKED_REFUSED_FINALITY
    MaxOrphans,         \* ORPHAN_MAX
    OrphansPerSource,
    MaxFuture,          \* FUTURE_BLOCKS_MAX
    FuturePerSource,
    MaxVariants,        \* MAX_PROPOSALS_PER_GENESIS_DUTY
    MaxTxIndex          \* MAX_TX_SLOT_INDEX

VARIABLES
    scene,      \* which world this is
    wall,       \* the wall clock's slot
    blocks,     \* stored blocks (BlockInventory)
    hollow,     \* stored blocks whose body was released from memory
    pool,       \* loose attestations
    accepted,   \* attestations the gossip pool has let through since boot
    covered,    \* fc_covered_removals
    chain,      \* the canonical chain, genesis first
    latch,      \* finalized_latch
    parked,     \* parked_refused_finality, oldest first
    orphans,    \* waiting blocks, oldest first
    deferred,   \* deferred_orphans: blocks made judgeable, oldest first
    future,     \* future_blocks: block -> who sent it
    variants,   \* proposal_admission_seen
    txs,        \* tx_slot_index and tx_slot_index_order
    logged,     \* the blocks of the published log, genesis first
    rewriting,  \* a reorg's log rewrite has not been seen to complete
    restarts,   \* how often the node has restarted
    adv         \* the `advance' call in progress

queues == <<parked, orphans, deferred, future, variants>>
vars == <<scene, wall, blocks, hollow, pool, accepted, covered, chain, latch,
          queues, txs, logged, rewriting, restarts, adv>>

world == Worlds[scene]
Genesis == 0
NoLatch == [height |-> 0, root |-> Genesis]
NoMemo == [inputs |-> {}, head |-> Genesis]
Idle == [pc |-> "idle"]
NoTxs == [slot |-> <<>>, order |-> <<>>]

-----------------------------------------------------------------------------
(* The canonical chain and its checkpoints.                                *)

\* What the transition guarantees of a world: a child's checkpoints are not behind its
\* parent's, a finalized epoch is behind a justified one, which is behind the block's own.
\* The log of the first boot is one that replays.
ASSUME WorldsConsistent ==
    \A s \in DOMAIN Worlds : LET w == Worlds[s] IN
        /\ {w.justifiedRoot[Genesis], w.finalizedRoot[Genesis]} = {Genesis}
        /\ \A b \in Ids :
            /\ {w.justifiedRoot[b], w.finalizedRoot[b]} \subseteq Ids \cup {Genesis}
            /\ w.justified[w.parent[b]] <= w.justified[b]
            /\ w.finalized[w.parent[b]] <= w.finalized[b]
            /\ w.finalized[b] < w.justified[b] \/ w.finalized[b] = 0
            /\ w.justified[b] < w.slot[b] \div SlotsPerEpoch \/ w.justified[b] = 0
        /\ Genesis \notin w.valid
        /\ w.log \in Seq(w.valid \cup {Genesis}) /\ w.log # <<>> /\ w.log[1] = Genesis
        /\ \A i \in 2..Len(w.log) : w.log[i] \in w.valid /\ w.parent[w.log[i]] = w.log[i - 1]

Canonical == Range(chain)
Known == blocks \cup Canonical
HeadOf(c) == c[Len(c)]

\* height_of, for a block of the chain c.
Height(c, b) == (CHOOSE i \in DOMAIN c : c[i] = b) - 1

\* first_slot_of_epoch
FirstSlot(e) == e * SlotsPerEpoch

\* The roots of the head state's two checkpoints.
Justified == world.justifiedRoot[HeadOf(chain)]
Finalized(c) == world.finalizedRoot[HeadOf(c)]

\* The height of the root c finalizes.  A root that c does not hold defines no floor, and
\* neither does genesis.
FinalizedHeight(c) == IF Finalized(c) \in Range(c) THEN Height(c, Finalized(c)) ELSE 0

-----------------------------------------------------------------------------
(* Fork choice over every stored block.                                    *)

\* BlockInventory::head over the stored blocks bs folds the votes of every body, in the order
\* of identities, and then the pool's.
FoldedVotes(bs) ==
    FoldOver(LAMBDA votes, body : votes \o body, <<>>,
             [b \in 1..Max(Ids) |-> IF b \in bs THEN world.body[b] ELSE <<>>])
    \o SelectSeq(world.votes, LAMBDA a : a \in pool)

LatestMessages(bs) ==
    FoldOver(LAMBDA store, a : Observe(store, a.validator, [slot |-> a.slot, root |-> a.head]),
             NewStore, FoldedVotes(bs)).latest

\* BlockInventory::subtree: the tree below the walk's start.
Subtree(bs, start) ==
    LET tree == [b \in bs |-> world.parent[b]]
        below == {b : b \in {d \in bs \ {start} : IsDescendantOrSelf(tree, d, start)}}
    IN  [b \in below |-> world.parent[b]]

HeadOver(bs) ==
    HeadReference(FALSE, world.slot, Subtree(bs, Justified), LatestMessages(bs),
                  world.stake[HeadOf(chain)], Justified)

\* forkchoice_head.  The gate of the slot tie-break is inert (epoch u64::MAX).
ForkChoiceHead == HeadOver(blocks)

\* Mutant: the walk's start is left out.
InputsWithoutJustified ==
    {<<"blocks", Cardinality(blocks)>>, <<"pool", Cardinality(pool) + covered>>,
     <<"validators", world.stake[HeadOf(chain)]>>}

\* forkchoice_inputs: two collections by their size, two values.
ForkChoiceInputs ==
    {<<"blocks", Cardinality(blocks)>>, <<"pool", Cardinality(pool) + covered>>,
     <<"justified", Justified>>, <<"validators", world.stake[HeadOf(chain)]>>}

\* path_to_canonical: the stored branch from the nearest canonical ancestor up to b.  It is
\* empty when b is canonical, and the ancestor is b's; NoPath when a parent is missing.
NoPath == [ancestor |-> -1, branch |-> <<>>]

\* The walk of `cur' from b to parent after parent, as long as blocks are stored
Ancestry(b) ==
    LET cur[n \in 0..Cardinality(blocks) + 1] ==
            IF n = 0 THEN b
            ELSE IF cur[n - 1] \in blocks THEN world.parent[cur[n - 1]] ELSE cur[n - 1]
    IN  cur

\* What the walk cur makes of its first canonical block, the n-th, if it meets one.
Met(cur) == {n \in DOMAIN cur : /\ cur[n] \in Canonical
                                /\ \A i \in 0..n - 1 : cur[i] \in blocks \ Canonical}
PathAlong(cur) ==
    IF Met(cur) = {} THEN NoPath
    ELSE LET n == CHOOSE n \in Met(cur) : TRUE
         IN  [ancestor |-> cur[n], branch |-> [i \in 1..n |-> cur[n - i]]]

PathToCanonical(b) == PathAlong(Ancestry(b))

-----------------------------------------------------------------------------
(* Bookkeeping of an adopted chain.                                        *)

\* ratchet_finalized: the latch when the chain becomes c.
RatchetedLatch(c) ==
    LET h == FinalizedHeight(c) IN
    IF h > latch.height THEN [height |-> h, root |-> Finalized(c)] ELSE latch

\* hollow_finalized_bodies, called by the ratchet when c finalizes a block: newest first,
\* down to the first body already released, and not while a log rewrite is pending.
HollowedBy(c, held) ==
    LET top == IF FinalizedHeight(c) = 0 \/ rewriting THEN 0
               ELSE Min({RatchetedLatch(c).height, Len(c)}) IN
    held \cup {c[i] : i \in {j \in 2..top : \A k \in j..top : c[k] \notin held}}

\* pool.retain: what is left of ps once the head's slot is s.
Current(ps, s) == {a \in ps : EpochOf(a.slot) >= EpochOf(s)}

\* note_tx_slots
NoteTxs(index, b) ==
    LET new == SelectSeq(world.txs[b], LAMBDA t : t \notin DOMAIN index.slot)
        all == index.order \o new
        kept == SubSeq(all, Max({1, Len(all) - MaxTxIndex + 1}), Len(all))
    IN  [order |-> kept,
         slot  |-> [t \in Range(kept) |->
                       IF t \in Range(world.txs[b]) THEN world.slot[b] ELSE index.slot[t]]]

\* Mutant: what leaves the chain stays indexed.
ForgetNothing(index, bs) == index

\* forget_tx_slots_if_stale for the blocks bs, and the compaction of the order after them.
ForgetTxs(index, bs) ==
    LET stale == {t \in DOMAIN index.slot :
                     \E b \in bs : t \in Range(world.txs[b]) /\ index.slot[t] = world.slot[b]}
    IN  [order |-> SelectSeq(index.order, LAMBDA t : t \notin stale),
         slot  |-> Restrict(index.slot, DOMAIN index.slot \ stale)]

-----------------------------------------------------------------------------
(* The door: ingest_one_deferred.                                          *)

QueuedIds(q) == {q[i].id : i \in DOMAIN q}
HeldFrom(q, src) == Len(SelectSeq(q, LAMBDA o : o.src = src))
Remote(src) == src # "local"        \* bounded_by_wall_clock

\* admit_proposal_variant: only keys of the genesis registry are counted.
SameDuty(b) == {c \in variants : world.proposer[c] = world.proposer[b]
                                   /\ world.slot[c] = world.slot[b]}
AdmitsVariant(b, src) ==
    \/ world.registrar[b] # Genesis \/ b \in variants \/ ~Remote(src)
    \/ Cardinality(SameDuty(b)) < MaxVariants

RefusedBefore(b) == {b, world.parent[b]} \cap Range(parked) # {}

\* The checks in their order; b's identity is known once the block that registers its
\* proposer is canonical.
Verdict(b, src, queued) ==
    LET p == world.parent[b] IN
    IF b \in Known \/ b \in queued THEN "duplicate"
    ELSE IF RefusedBefore(b) THEN "refused before"
    ELSE IF Remote(src) /\ world.slot[b] > wall + Tolerance THEN "too early"
    ELSE IF p \in blocks /\ world.slot[b] <= world.slot[p] THEN "bad slot"
    ELSE IF world.registrar[b] \notin Canonical THEN "unknown identity"
    ELSE IF ~AdmitsVariant(b, src) THEN "third variant"
    ELSE IF Remote(src) /\ world.slot[b] > wall THEN "early"
    ELSE IF p \notin Known THEN "unknown parent"
    ELSE "stored"

\* park_orphan_authenticated: the orphans o after b is parked beside the ready queue d.
Park(o, d, b, src) ==
    IF \/ Remote(src) /\ HeldFrom(o, src) + HeldFrom(d, src) >= OrphansPerSource
       \/ Len(d) >= MaxOrphans
      THEN o
      ELSE Append(SubSeq(o, Max({1, Len(o) + Len(d) - MaxOrphans + 2}), Len(o)),
                  [id |-> b, src |-> src])

FutureFits(f, src) ==
    /\ Cardinality(DOMAIN f) < MaxFuture
    /\ Cardinality({b \in DOMAIN f : f[b] = src}) < FuturePerSource

\* Mutant: two turns are enough.
StartShortAdvance(b) ==
    [pc |-> "turn", landed |-> b, left |-> 2, memo |-> NoMemo, path |-> NoPath]

StartAdvance(b) ==
    [pc |-> "turn", landed |-> b, left |-> 2 * Cardinality(blocks \cup {b}) + 3,
     memo |-> NoMemo, path |-> NoPath]

\* One envelope through the door, when the queues are o, d and f.
Ingest(b, src, o, d, f) ==
    LET verdict == Verdict(b, src, QueuedIds(o) \cup QueuedIds(d) \cup DOMAIN f) IN
    /\ variants' = IF verdict \in {"early", "unknown parent", "stored"}
                       /\ world.registrar[b] = Genesis THEN variants \cup {b} ELSE variants
    /\ orphans' = IF verdict \in {"unknown identity", "unknown parent"}
                     THEN Park(o, d, b, src) ELSE o
    /\ deferred' = d
    /\ future' = IF verdict = "early" /\ FutureFits(f, src) THEN Put(f, b, src) ELSE f
    /\ blocks' = IF verdict = "stored" THEN blocks \cup {b} ELSE blocks
    /\ adv' = IF verdict = "stored" THEN StartAdvance(b) ELSE Idle
    /\ UNCHANGED <<scene, wall, hollow, pool, accepted, covered, chain, latch,
                   parked, txs, logged, rewriting, restarts>>

\* A block from a peer, or the block this node has built on its head.
Receive(b, src) ==
    /\ adv = Idle
    /\ Remote(src) \/ (world.parent[b] = HeadOf(chain) /\ world.slot[b] = wall)
    /\ Ingest(b, src, orphans, deferred, future)

\* release_orphan_turn
ReleaseOrphan ==
    /\ adv = Idle
    /\ deferred # <<>>
    /\ Ingest(Head(deferred).id, Head(deferred).src, orphans, Tail(deferred), future)

\* release_future_blocks
ReadyFuture == {b \in DOMAIN future : world.slot[b] <= wall}
ReleaseFuture ==
    /\ adv = Idle
    /\ ReadyFuture # {}
    /\ LET b == Min(ReadyFuture) IN Ingest(b, future[b], orphans, deferred, Drop(future, b))

-----------------------------------------------------------------------------
(* advance: one turn of its loop at a time.                                *)

\* Mutant: the cut is judged by what the head's state has finalized.
CutsFinalized(ancestor) ==
    ~world.override /\ Height(chain, ancestor) < FinalizedHeight(chain)

\* cut_below_finalized_latch
CutsLatch(ancestor) == ~world.override /\ Height(chain, ancestor) < latch.height

\* b descends from a block of bs through waiting orphans, or blocks of `through'.
HangsFrom(b, bs, through) ==
    LET between == QueuedIds(orphans) \cup through
        Below[n \in 0..Cardinality(between), x \in Ids \cup {Genesis}] ==
            \/ x \in bs
            \/ n > 0 /\ x \in between /\ Below[n - 1, world.parent[x]]
    IN  b \in between /\ Below[Cardinality(between), world.parent[b]]

\* refuse_finality_rewind: the branch leaves the store, its identities are parked, and what
\* waited for it is dropped.
RefuseRewind(branch) ==
    LET fresh == SelectSeq(branch, LAMBDA b : b \notin Range(parked))
        all == parked \o fresh
    IN
    /\ blocks' = blocks \ Range(branch)
    /\ parked' = SubSeq(all, Max({1, Len(all) - MaxParked + 1}), Len(all))
    /\ orphans' = SelectSeq(orphans, LAMBDA o : ~HangsFrom(o.id, Range(branch), {}))
    /\ UNCHANGED <<hollow, pool, covered, chain, latch, txs, logged, rewriting>>

\* The canonical chain up to ancestor, and the blocks above it.
UpTo(ancestor) == SubSeq(chain, 1, Height(chain, ancestor) + 1)
Above(ancestor) == Canonical \ Range(UpTo(ancestor))

\* do_reorg, when every block of the branch applies.  The log's rewrite is only queued, after
\* the rewrite before it has been joined.
Adopt(ancestor, branch) ==
    LET c == UpTo(ancestor) \o branch
        gone == Above(ancestor)
    IN
    /\ chain' = c
    /\ txs' = FoldOver(NoteTxs, ForgetTxs(txs, gone), branch)
    /\ latch' = RatchetedLatch(c)
    /\ hollow' = HollowedBy(c, hollow \ gone)
    /\ pool' = Current(pool, world.slot[HeadOf(c)])
    /\ logged' = IF rewriting THEN chain ELSE logged
    /\ rewriting' = TRUE
    /\ UNCHANGED <<blocks, covered, parked, orphans>>

\* do_reorg, when a block of the branch does not apply: it is removed.  The released bodies
\* above the ancestor were restored from the log before the branch was validated.
RemoveInvalid(ancestor, branch) ==
    /\ \E bad \in DOMAIN branch :
         /\ branch[bad] \notin world.valid /\ \A i \in 1..bad - 1 : branch[i] \in world.valid
         /\ blocks' = blocks \ {branch[bad]}
    /\ hollow' = hollow \ Above(ancestor)
    /\ UNCHANGED <<pool, covered, chain, latch, txs, logged, rewriting, parked, orphans>>

Keep == UNCHANGED <<blocks, hollow, pool, covered, chain, latch, txs, logged, rewriting, parked,
                    orphans>>

Loop == UNCHANGED <<scene, wall, accepted, deferred, future, variants, restarts>>

\* The top of the loop: the head fork choice names, and the way to it.
Choose ==
    /\ adv.pc = "turn"
    /\ adv.left > 0
    /\ \E inputs \in {ForkChoiceInputs} :
       \E target \in {IF adv.memo.inputs = inputs THEN adv.memo.head ELSE ForkChoiceHead} :
           adv' = [adv EXCEPT !.pc = "chosen", !.left = @ - 1,
                              !.memo = [inputs |-> inputs, head |-> target],
                              !.path = PathToCanonical(target)]
    /\ Keep /\ Loop

\* The head has stopped moving; or its lineage is incomplete, and the chain stays.
Settle ==
    /\ adv.pc = "chosen"
    /\ adv.path \in {NoPath, [ancestor |-> HeadOf(chain), branch |-> <<>>]}
    /\ adv' = [adv EXCEPT !.pc = "landed"]
    /\ Keep /\ Loop

StartExtension ==
    /\ adv.pc = "chosen"
    /\ adv.path.ancestor = HeadOf(chain) /\ adv.path.branch # <<>>
    /\ adv' = [adv EXCEPT !.pc = "extend"]
    /\ Keep /\ Loop

\* The way to the head is not an extension of the chain.
Diverges == adv.pc = "chosen" /\ adv.path # NoPath /\ adv.path.ancestor # HeadOf(chain)

Refuse ==
    /\ Diverges
    /\ CutsLatch(adv.path.ancestor)
    /\ RefuseRewind(adv.path.branch)
    /\ adv' = [adv EXCEPT !.pc = "landed"]
    /\ Loop

Reorg ==
    /\ Diverges
    /\ ~CutsLatch(adv.path.ancestor)
    /\ IF Range(adv.path.branch) \subseteq world.valid
         THEN Adopt(adv.path.ancestor, adv.path.branch)
         ELSE RemoveInvalid(adv.path.ancestor, adv.path.branch)
    /\ adv' = [adv EXCEPT !.pc = "turn"]
    /\ Loop

\* The loop's bound is spent.
Exhaust ==
    /\ adv.pc = "turn"
    /\ adv.left = 0
    /\ adv' = [adv EXCEPT !.pc = "landed"]
    /\ Keep /\ Loop

\* apply_canonical for the next block of an extension.  The append joins a pending rewrite.
ApplyCanonical ==
    LET b == Head(adv.path.branch)
        c == Append(chain, b)
        carried == Range(world.body[b])
        left == Tail(adv.path.branch)
    IN
    /\ adv.pc = "extend"
    /\ IF b \in world.valid
         THEN /\ chain' = c
              /\ latch' = RatchetedLatch(c)
              /\ hollow' = HollowedBy(c, hollow)
              /\ covered' = covered + Cardinality(pool \cap carried)
              /\ pool' = Current(pool \ carried, world.slot[b])
              /\ txs' = NoteTxs(txs, b)
              /\ logged' = c /\ rewriting' = FALSE
              /\ UNCHANGED <<blocks, parked, orphans>>
         ELSE RemoveInvalid(HeadOf(chain), <<b>>)
    /\ adv' = IF b \in world.valid /\ left # <<>>
                THEN [adv EXCEPT !.path = [ancestor |-> b, branch |-> left]] ELSE [adv EXCEPT !.pc = "turn"]
    /\ Loop

\* prune_below_finalized: what sits below the finalized checkpoint's epoch and is not
\* canonical, stored or waiting, and what hangs from it.
Floor == FirstSlot(world.finalized[HeadOf(chain)])

\* Mutant: canonical blocks are pruned too.
PrunableAll == blocks \cup QueuedIds(orphans)

Prunable == (blocks \cup QueuedIds(orphans)) \ Canonical
Old == {b \in Prunable : world.slot[b] < Floor}
Doomed == {b \in Prunable : b \in Old \/ HangsFrom(b, Old, blocks \ Canonical)}

\* Mutant: only a deposit releases.
UnblockedByDeposit(o) == adv.landed \in world.grows

\* schedule_unblocked_orphans: the block that landed may have registered o's proposer, or is
\* o's parent.
Unblocked(o) == adv.landed \in world.grows \/ world.parent[o.id] = adv.landed

\* The end of ingest_one: prune_below_finalized and schedule_unblocked_orphans.
Land ==
    LET doomed == Doomed
        left == SelectSeq(orphans, LAMBDA o : o.id \notin doomed)
    IN
    /\ adv.pc = "landed"
    /\ variants' = {b \in variants : world.slot[b] >= Floor}
    /\ blocks' = blocks \ doomed
    /\ deferred' = deferred \o SelectSeq(left, Unblocked)
    /\ orphans' = SelectSeq(left, LAMBDA o : ~Unblocked(o))
    /\ adv' = Idle
    /\ UNCHANGED <<scene, wall, hollow, pool, accepted, covered, chain, latch, parked,
                   future, txs, logged, rewriting, restarts>>

-----------------------------------------------------------------------------
(* Attestations, the clock, the log writer, and restarts.                  *)

\* on_attestation and apply_decision for a vote the gossip pool accepts: it is of this or
\* the next epoch by the clock, not of an epoch behind the head, names a known block, and is
\* judged once.
Attest(a) ==
    /\ adv = Idle
    /\ a \notin accepted
    /\ a.head \in Known
    /\ EpochOf(a.slot) \in {EpochOf(wall), EpochOf(wall) + 1}
    /\ EpochOf(a.slot) >= EpochOf(world.slot[HeadOf(chain)])
    /\ pool' = pool \cup {a}
    /\ accepted' = accepted \cup {a}
    /\ UNCHANGED <<scene, wall, blocks, hollow, covered, chain, latch, queues, txs,
                   logged, rewriting, restarts, adv>>

Tick ==
    /\ adv = Idle
    /\ wall < world.lastSlot
    /\ wall' = wall + 1
    /\ UNCHANGED <<scene, blocks, hollow, pool, accepted, covered, chain, latch,
                   queues, txs, logged, rewriting, restarts, adv>>

\* The writer thread renames the new log into place.
Publish ==
    /\ rewriting /\ logged # chain
    /\ logged' = chain
    /\ UNCHANGED <<scene, wall, blocks, hollow, pool, accepted, covered, chain, latch,
                   queues, txs, rewriting, restarts, adv>>

\* poll_rewrite sees that it has.
Poll ==
    /\ adv = Idle
    /\ rewriting /\ logged = chain
    /\ rewriting' = FALSE
    /\ UNCHANGED <<scene, wall, blocks, hollow, pool, accepted, covered, chain, latch,
                   queues, txs, logged, restarts, adv>>

\* The latch after ingest_replay has applied every block of the log c.
ReplayedLatch(c) ==
    LET h == Max({FinalizedHeight(SubSeq(c, 1, i)) : i \in DOMAIN c}) IN
    IF h = 0 THEN NoLatch ELSE [height |-> h, root |-> c[h + 1]]

\* A process that has replayed the log c: ingest_replay for each of its blocks.
Boot(c, bs, ca, la, ho, tx, va) ==
    /\ ca = c
    /\ bs = Range(c) \ {Genesis}
    /\ la = ReplayedLatch(c)
    /\ ho = {c[i] : i \in 2..ReplayedLatch(c).height}
    /\ tx = FoldOver(NoteTxs, NoTxs, Tail(c))
    /\ va = {b \in Range(c) \ {Genesis} : world.registrar[b] = Genesis}

Init ==
    /\ scene \in DOMAIN Worlds
    /\ wall = world.wall
    /\ logged = world.log
    /\ Boot(logged, blocks, chain, latch, hollow, txs, variants)
    /\ pool = {} /\ accepted = {} /\ covered = 0
    /\ parked = <<>> /\ orphans = <<>> /\ deferred = <<>> /\ future = <<>>
    /\ rewriting = FALSE
    /\ restarts = 0
    /\ adv = Idle

\* The process dies at any point, and boots from its log.
Restart ==
    /\ restarts < world.restarts
    /\ restarts' = restarts + 1
    /\ Boot(logged, blocks', chain', latch', hollow', txs', variants')
    /\ pool' = {} /\ accepted' = {} /\ covered' = 0
    /\ parked' = <<>> /\ orphans' = <<>> /\ deferred' = <<>> /\ future' = <<>>
    /\ rewriting' = FALSE
    /\ adv' = Idle
    /\ UNCHANGED <<scene, wall, logged>>

Next ==
    \/ \E b \in Ids, src \in world.sources : Receive(b, src)
    \/ ReleaseOrphan \/ ReleaseFuture
    \/ Choose \/ Settle \/ StartExtension \/ ApplyCanonical \/ Refuse \/ Reorg \/ Exhaust \/ Land
    \/ \E a \in Range(world.votes) : Attest(a)
    \/ Tick \/ Publish \/ Poll \/ Restart

Spec == Init /\ [][Next]_vars

-----------------------------------------------------------------------------
(* Properties.                                                             *)

TypeOK ==
    /\ blocks \subseteq Ids /\ hollow \subseteq blocks
    /\ Canonical \subseteq Ids \cup {Genesis} /\ chain[1] = Genesis
    /\ QueuedIds(orphans) \cup QueuedIds(deferred) \cup DOMAIN future \subseteq Ids \ blocks
    /\ Len(orphans) + Len(deferred) <= MaxOrphans
    /\ Len(parked) <= MaxParked

\* The block this node has finalized stays on its chain, whatever branch is heaviest: no
\* reorg cuts below the latch (cut_below_finalized_latch) unless the operator allows it.
LatchHeld == ~world.override => chain[latch.height + 1] = latch.root

\* The canonical chain is stored whole, linked, and made of blocks that apply: replay_to,
\* do_reorg and the RPC take every canonical block from the store.
CanonicalStored ==
    \A i \in 2..Len(chain) :
        /\ chain[i] \in blocks \cap world.valid
        /\ world.parent[chain[i]] = chain[i - 1]

\* A fork choice answer kept for unchanged inputs is the answer of a fresh run, though
\* forkchoice_inputs compares two collections by their size only.
MemoExact ==
    adv.pc = "turn" /\ adv.memo.inputs = ForkChoiceInputs => adv.memo.head = ForkChoiceHead

\* Every state justifies a block of its own chain.
OwnRoots ==
    \A b \in Ids : IsDescendantOrSelf([x \in Ids |-> world.parent[x]], b, world.justifiedRoot[b])

\* Where states justify blocks of their own chain, pruning never changes what fork choice
\* says (prune_below_finalized: "Nothing removed here is on either walk").
PruneKeepsHead ==
    adv.pc = "landed" /\ OwnRoots => HeadOver(blocks \ Doomed) = ForkChoiceHead

\* The two shortcuts of `advance' never cost it the head of a fresh run over every block:
\* the answer it keeps while its inputs look unchanged, and the blocks it pruned.
HeadExact == MemoExact /\ PruneKeepsHead

\* The loop of `advance' settles before its bound, whatever the epochs the branches justify,
\* where every branch has the same active stakes and justifies its own blocks.
SameStakes == \A b \in Ids : world.stake[b] = world.stake[Genesis]
Converges == adv.pc = "turn" /\ adv.left = 0 => ~(SameStakes /\ OwnRoots)

\* gettxstatus: an indexed transaction is in the canonical block of that slot, and the index
\* and its eviction order name the same transactions, once each.
TxIndexCanonical ==
    /\ \A t \in DOMAIN txs.slot : \E b \in Canonical \ {Genesis} :
          world.slot[b] = txs.slot[t] /\ t \in Range(world.txs[b])
    /\ Range(txs.order) = DOMAIN txs.slot /\ Len(txs.order) = Cardinality(DOMAIN txs.slot)

\* Released bodies are the canonical blocks strictly below some finalized height, without
\* gaps: what a reorg may still cut has its body.
HollowIsFinalizedPrefix ==
    \E h \in 1..Len(chain) :
        /\ hollow = {chain[i] : i \in 2..h}
        /\ ~world.override => h <= Max({1, latch.height})

\* What is derived from the canonical chain stays that of the canonical chain, through
\* reorgs, finality and restarts: the transaction index and the released bodies.
IndexesFollowChain == TxIndexCanonical /\ HollowIsFinalizedPrefix

\* A block of a genesis validator waits for a parent this node has never seen, and is made
\* ready by its landing: a missed release leaves it waiting, its repeats dropped as duplicates.
OrphansLackParent ==
    adv = Idle => \A i \in DOMAIN orphans :
        world.registrar[orphans[i].id] = Genesis => world.parent[orphans[i].id] \notin Known

\* The queues at the door keep within their limits and hold no stored block, and what waits
\* in them still has something to wait for.
QueuesExact == TypeOK /\ OrphansLackParent

\* What the release is for: a waiting block can not be judged yet.  Its parent is unknown,
\* or its proposer is not registered at the head.
OrphansNotJudgeable ==
    adv = Idle => \A i \in DOMAIN orphans :
        \/ world.parent[orphans[i].id] \notin Known
        \/ world.registrar[orphans[i].id] \notin Canonical

\* The latch is the highest checkpoint this node has ever adopted.
LatchNeverLowers == [][latch'.height >= latch.height]_vars
=============================================================================

------------------------------ MODULE SlashProt ------------------------------
(***************************************************************************)
(* Signing protection of one validator key on one host.                    *)
(*                                                                         *)
(* Source: crates/bloch-pos-node/src/slashprot.rs (the record and its      *)
(* guards), signer_anchor.rs (the per-key lock and the copy of the record  *)
(* outside the data directory), slashing_cli.rs (export, import, floor,    *)
(* retire) and the callers in engine.rs and engine/validator_lifecycle.rs. *)
(*                                                                         *)
(* A duty is signed in this order: check the guards against the record in  *)
(* memory, write the raised record to the data directory, write the same   *)
(* bytes to the anchor, adopt it in memory, release the signature.  The    *)
(* process may crash, and either write may fail, at every point of it.     *)
(* The operator may restore an old data directory, copy it, import an      *)
(* exported record, set a floor or retire the key.  The wall clock is not  *)
(* modelled: it may be stepped, so a duty of any slot may come at any time.*)
(***************************************************************************)
EXTENDS Integers, FiniteSets

CONSTANTS
    Dirs,             \* data directories on this host that hold the key
    Slots,            \* slots a duty may be for
    SlotsPerEpoch,    \* params::SLOTS_PER_EPOCH
    Roots,            \* what a signed block or vote may say
    Generations,      \* RANDAO chain generations (never 0)
    Commitments,      \* RANDAO chain commitments
    NoCommitment,     \* stands for the commitment of an absent intent
    AllowUnanchored,  \* BLOCH_NO_SIGNER_ANCHOR, or a default root that is unreachable
    AllowRestore,     \* the operator may restore an old data directory
    RenameErrors,     \* publish() may fail after its rename is already visible
    Kinds,            \* the kinds of message this instance signs
    FloorSlots,       \* minimum slots the operator may give to `set-floor`
    MaxSightings      \* bound on the foreign signatures of this key that show up

ASSUME SlotsAssumption == Slots \subseteq Nat /\ SlotsPerEpoch \in Nat \ {0}
ASSUME BoundsAssumption ==
    /\ Kinds \subseteq {"proposal", "vote", "recommit"} /\ MaxSightings \in Nat
    /\ FloorSlots \subseteq Nat \ {0}
ASSUME RandaoAssumption ==
    Generations \subseteq Nat \ {0} /\ NoCommitment \notin Commitments
\* Without the anchor nothing outside the data directory remembers what was
\* signed (signer_anchor.rs, module documentation), so protection is only
\* promised for one data directory that is never rolled back.
ASSUME DeploymentAssumption ==
    /\ AllowUnanchored \in BOOLEAN /\ AllowRestore \in BOOLEAN /\ RenameErrors \in BOOLEAN
    /\ AllowUnanchored => ~AllowRestore /\ \A d, e \in Dirs : d = e

-----------------------------------------------------------------------------
\* Messages the key can sign.

EpochOf(slot) == slot \div SlotsPerEpoch
Epochs == {EpochOf(slot) : slot \in Slots}

Proposals == [kind : {"proposal"}, slot : Slots, root : Roots]
\* The engine votes for target = epoch_of(slot), never in epoch 0, from the
\* justified checkpoint of its view, which lies strictly below the target.
Votes == {v \in [kind : {"vote"}, slot : Slots, source : Epochs, target : Epochs, root : Roots] :
             v.target = EpochOf(v.slot) /\ v.source < v.target}
Recommits == [kind : {"recommit"}, epoch : Epochs, generation : Generations,
              commitment : Commitments]
Duties == Proposals \cup Votes          \* what the network shows of this key
Messages == Duties \cup Recommits

\* AttestationData::surrounds
Surrounds(v, w) == v.source < w.source /\ w.target < v.target

\* Two different messages of one key that must not both exist: a second block
\* for a slot, a double vote (is_double_vote), a vote for an already voted slot,
\* a surround vote; for RANDAO, a second signing root in an epoch or a second
\* commitment for a generation.
Conflict(m, n) ==
    /\ m # n
    /\ \/ m.kind = "proposal" /\ n.kind = "proposal" /\ m.slot = n.slot
       \/ /\ m.kind = "vote" /\ n.kind = "vote"
          /\ \/ m.target = n.target \/ m.slot = n.slot
             \/ Surrounds(m, n) \/ Surrounds(n, m)
       \/ /\ m.kind = "recommit" /\ n.kind = "recommit"
          /\ \/ m.epoch = n.epoch
             \/ m.generation = n.generation /\ m.commitment # n.commitment

-----------------------------------------------------------------------------
\* The record.  -1 is Rust's None, which also orders below every Some.

Mark == Nat \cup {-1}
Record == [proposal_slot : Mark, attestation_slot : Mark, source_epoch : Mark,
           target_epoch : Mark, epoch_floor : Mark, intent_epoch : Mark,
           intent_generation : Nat, intent_commitment : Commitments \cup {NoCommitment}]
Default == [proposal_slot |-> -1, attestation_slot |-> -1, source_epoch |-> -1,
            target_epoch |-> -1, epoch_floor |-> -1, intent_epoch |-> -1,
            intent_generation |-> 0, intent_commitment |-> NoCommitment]

MaxMark(a, b) == IF a >= b THEN a ELSE b

\* merge_recommit: which of the two intents is kept, and when none can be.
Intent(r) == <<r.intent_epoch, r.intent_generation, r.intent_commitment>>
RecommitConflict(a, b) ==
    /\ a.intent_epoch # -1 /\ b.intent_epoch # -1
    /\ \/ a.intent_epoch = b.intent_epoch /\ Intent(a) # Intent(b)
       \/ a.intent_generation = b.intent_generation
            /\ a.intent_commitment # b.intent_commitment
       \/ a.intent_epoch < b.intent_epoch /\ a.intent_generation > b.intent_generation
       \/ b.intent_epoch < a.intent_epoch /\ b.intent_generation > a.intent_generation

\* max_marks and merge_recommit, when there is no conflict
Merge(a, b) ==
    LET later == IF a.intent_epoch >= b.intent_epoch THEN a ELSE b
    IN  [proposal_slot     |-> MaxMark(a.proposal_slot, b.proposal_slot),
         attestation_slot  |-> MaxMark(a.attestation_slot, b.attestation_slot),
         source_epoch      |-> MaxMark(a.source_epoch, b.source_epoch),
         target_epoch      |-> MaxMark(a.target_epoch, b.target_epoch),
         epoch_floor       |-> MaxMark(a.epoch_floor, b.epoch_floor),
         intent_epoch      |-> later.intent_epoch,
         intent_generation |-> later.intent_generation,
         intent_commitment |-> later.intent_commitment]

\* The conditions of guard_proposal, guard_attestation and guard_recommit.
GuardProposal(r, m) == m.slot > r.proposal_slot
GuardAttestation(r, m) ==
    /\ m.slot > r.attestation_slot
    /\ m.target > r.target_epoch
    /\ m.source >= r.source_epoch
\* A signing root is a hash of the epoch and the commitment, so two intents of
\* one epoch have the same root exactly when they have the same commitment.
GuardRecommit(r, m) ==
    /\ m.epoch > r.epoch_floor
    /\ m.epoch >= r.intent_epoch
    /\ m.generation >= r.intent_generation
    /\ m.epoch = r.intent_epoch => m.commitment = r.intent_commitment
    /\ m.generation = r.intent_generation => m.commitment = r.intent_commitment
    /\ m.epoch = r.intent_epoch => m.generation = r.intent_generation
Guard(r, m) == CASE m.kind = "proposal" -> GuardProposal(r, m)
                 [] m.kind = "vote"     -> GuardAttestation(r, m)
                 [] m.kind = "recommit" -> GuardRecommit(r, m)

\* The record each guard writes before it lets the signature exist.
Raised(r, m) ==
    CASE m.kind = "proposal" -> [r EXCEPT !.proposal_slot = m.slot]
      [] m.kind = "vote"     -> [r EXCEPT !.attestation_slot = m.slot,
                                          !.source_epoch = m.source,
                                          !.target_epoch = m.target]
      [] m.kind = "recommit" -> [r EXCEPT !.intent_epoch = m.epoch,
                                          !.intent_generation = m.generation,
                                          !.intent_commitment = m.commitment]

\* raise_to_published: component-wise maximum, never lowers a mark
RaisedToPublished(r, m) == Merge(r, Raised(Default, m))

\* is_uncovered: the source epoch of a vote is not looked at
IsUncovered(r, m) ==
    CASE m.kind = "proposal" -> m.slot > r.proposal_slot
      [] m.kind = "vote"     -> m.slot > r.attestation_slot \/ m.target > r.target_epoch

\* initialize_floor(min_slot)
FloorRecord(min_slot) ==
    LET slot == min_slot - 1
    IN  [Default EXCEPT !.proposal_slot = slot, !.attestation_slot = slot,
                        !.source_epoch = EpochOf(slot), !.target_epoch = EpochOf(slot),
                        !.epoch_floor = EpochOf(slot)]

-----------------------------------------------------------------------------
VARIABLES
    data,         \* slashing_protection.bin of each data directory
    anchor,       \* signing_record.bin of the anchor, when it exists
    anchorExists,
    retired,      \* SIGNER-RETIRED has been written on this host
    saved,        \* the operator's copy: a backup or an exported record
    pc,           \* "down" -> "opened" -> ("raise" ->) "running"
    dir,          \* the data directory of the running process
    mem,          \* SlashingProtection.wm and .recommit of the running process
    mirror,       \* SlashingProtection.mirror is set
    duties,       \* doppelganger gate: "observing", "open" or "halted"
    pend,         \* the write in progress: the data directory has it, memory not yet
    signed,       \* every message this host released a signature for
    sighted,      \* foreign messages of this key seen, none in conflict when seen
    raised        \* those of them the record was raised to cover

process == <<pc, dir, mem, mirror, duties, pend>>
disk == <<data, anchor, anchorExists, retired, saved>>
history == <<signed, sighted, raised>>
vars == <<data, anchor, anchorExists, retired, saved, pc, dir, mem, mirror, duties,
          pend, signed, sighted, raised>>

Pending == {p \in [rec : Record, msg : Messages, own : BOOLEAN, live : BOOLEAN] :
               p.own \/ p.msg \in Duties}

Init ==
    /\ data = [d \in Dirs |-> Default]
    /\ anchor = Default /\ anchorExists = FALSE
    /\ retired = FALSE
    /\ saved = Default
    /\ pc = "down" /\ dir \in Dirs /\ mem = Default /\ mirror = FALSE
    /\ duties = "open" /\ pend = {}
    /\ signed = {} /\ sighted = {} /\ raised = {}

-----------------------------------------------------------------------------
\* Boot: SlashingProtection::open_bound, then attach_signer_anchor.

\* The data-dir lock and the anchor lock admit one process of this key; the
\* retirement marker admits none.  Duties wait for the observation window unless
\* the operator switched it off.
Open(d) ==
    /\ pc = "down" /\ ~retired
    /\ pc' = "opened" /\ dir' = d /\ mem' = data[d] /\ mirror' = FALSE /\ pend' = {}
    /\ duties' \in {"observing", "open"}
    /\ UNCHANGED <<disk, history>>

AttachUnavailable ==
    /\ pc = "opened" /\ AllowUnanchored
    /\ pc' = "running"
    /\ UNCHANGED <<disk, dir, mem, mirror, duties, pend, history>>

\* No anchor yet: it starts as a copy of the record.
AttachAdopt ==
    /\ pc = "opened" /\ ~anchorExists
    /\ anchor' = mem /\ anchorExists' = TRUE
    /\ mirror' = TRUE /\ pc' = "running"
    /\ UNCHANGED <<data, retired, saved, dir, mem, duties, pend, history>>

DataBehind == Merge(mem, anchor) # mem

\* The data directory is raised first, and only under --accept-signing-rollback
\* when it was behind; the anchor follows in a second write.
AttachMerge(accept) ==
    /\ pc = "opened" /\ anchorExists
    /\ ~RecommitConflict(mem, anchor)
    /\ DataBehind => accept
    /\ mem' = Merge(mem, anchor)
    /\ data' = [data EXCEPT ![dir] = Merge(mem, anchor)]
    /\ pc' = "raise"
    /\ UNCHANGED <<anchor, anchorExists, retired, saved, dir, mirror, duties, pend, history>>

AttachRaise ==
    /\ pc = "raise"
    /\ anchor' = mem /\ mirror' = TRUE /\ pc' = "running"
    /\ UNCHANGED <<data, anchorExists, retired, saved, dir, mem, duties, pend, history>>

\* The process ends: a crash, a failed write while booting, a refused rollback,
\* conflicting RANDAO histories, or an orderly stop.  Both locks are released.
Crash ==
    /\ pc # "down"
    /\ pc' = "down" /\ mem' = Default /\ mirror' = FALSE /\ duties' = "open" /\ pend' = {}
    /\ UNCHANGED <<disk, dir, history>>

-----------------------------------------------------------------------------
\* Signing: guard_*, then write_record, then memory, then the signature.

\* The observation window of doppelganger protection closes without a sighting.
ObservationEnds ==
    /\ pc = "running" /\ duties = "observing" /\ duties' = "open"
    /\ UNCHANGED <<disk, pc, dir, mem, mirror, pend, history>>

\* Mutants: nothing durable before the signature; the two writes swapped.
BeginSignMemoryOnly(m) ==
    /\ pc = "running" /\ pend = {} /\ duties = "open"
    /\ m.kind \in Kinds
    /\ Guard(mem, m)
    /\ pend' = {[rec |-> Raised(mem, m), msg |-> m, own |-> TRUE, live |-> FALSE]}
    /\ UNCHANGED <<disk, pc, dir, mem, mirror, duties, history>>
BeginSignAnchorFirst(m) ==
    /\ pc = "running" /\ pend = {} /\ duties = "open"
    /\ m.kind \in Kinds
    /\ Guard(mem, m)
    /\ anchor' = IF mirror THEN Raised(mem, m) ELSE anchor
    /\ pend' = {[rec |-> Raised(mem, m), msg |-> m, own |-> TRUE, live |-> FALSE]}
    /\ UNCHANGED <<data, anchorExists, retired, saved, pc, dir, mem, mirror, duties, history>>

\* attest_for, retry_missed_attestation, propose and maintain_validator_lifecycle
\* up to the first of the two atomic_private_write calls.
BeginSign(m) ==
    /\ pc = "running" /\ pend = {} /\ duties = "open"
    /\ m.kind \in Kinds
    /\ Guard(mem, m)
    /\ data' = [data EXCEPT ![dir] = Raised(mem, m)]
    /\ pend' = {[rec |-> Raised(mem, m), msg |-> m, own |-> TRUE, live |-> FALSE]}
    /\ UNCHANGED <<anchor, anchorExists, retired, saved, pc, dir, mem, mirror, duties, history>>

\* The second write succeeds, memory adopts the record and sign() runs; sign_duty
\* may still produce an empty signature, which spends the mark and releases nothing.
FinishSign(p, released) ==
    /\ p \in pend /\ p.own
    /\ anchor' = IF mirror THEN p.rec ELSE anchor
    /\ mem' = p.rec
    /\ pend' = {}
    /\ signed' = IF released THEN signed \cup {p.msg} ELSE signed
    /\ UNCHANGED <<data, anchorExists, retired, saved, pc, dir, mirror, duties, sighted, raised>>

\* A write returns an error.  The rename may have happened all the same, in the
\* data directory and, if it got that far, in the anchor; memory does not move.
Abort(p, renamed) ==
    /\ p \in pend
    /\ renamed => RenameErrors
    /\ anchor' = IF mirror /\ renamed THEN p.rec ELSE anchor
    /\ pend' = {}
    /\ duties' = IF p.own THEN duties ELSE "halted"
    /\ UNCHANGED <<data, anchorExists, retired, saved, pc, dir, mem, mirror, history>>

-----------------------------------------------------------------------------
\* note_own_signature and note_possible_doppelganger: an authenticated duty of
\* this key that this process did not sign, live from the network or replayed.

Consistent(m) == \A n \in signed \cup sighted : ~Conflict(m, n)

\* Mutant: the record is raised in memory and not on disk.
SightMemoryOnly(m, live) ==
    /\ pc = "running" /\ pend = {}
    /\ m \notin signed \cup sighted /\ Cardinality(sighted) < MaxSightings
    /\ IsUncovered(mem, m)
    /\ pend' = {[rec |-> RaisedToPublished(mem, m), msg |-> m, own |-> FALSE, live |-> live]}
    /\ UNCHANGED <<disk, pc, dir, mem, mirror, duties, history>>

Sight(m, live) ==
    /\ pc = "running" /\ pend = {}
    /\ m \notin signed \cup sighted /\ Cardinality(sighted) < MaxSightings
    /\ IsUncovered(mem, m)
    /\ data' = [data EXCEPT ![dir] = RaisedToPublished(mem, m)]
    /\ pend' = {[rec |-> RaisedToPublished(mem, m), msg |-> m, own |-> FALSE, live |-> live]}
    /\ UNCHANGED <<anchor, anchorExists, retired, saved, pc, dir, mem, mirror, duties, history>>

FinishRaise(p) ==
    /\ p \in pend /\ ~p.own
    /\ anchor' = IF mirror THEN p.rec ELSE anchor
    /\ mem' = p.rec
    /\ pend' = {}
    /\ duties' = IF p.live THEN "halted" ELSE duties
    /\ sighted' = IF Consistent(p.msg) THEN sighted \cup {p.msg} ELSE sighted
    /\ raised' = IF Consistent(p.msg) THEN raised \cup {p.msg} ELSE raised
    /\ UNCHANGED <<data, anchorExists, retired, saved, pc, dir, mirror, signed>>

\* The record already covers it: nothing is written.  Inside the observation
\* window a recent one still proves a duplicate.
SightCovered(m, duplicate) ==
    /\ pc = "running" /\ pend = {}
    /\ m \notin signed \cup sighted /\ Cardinality(sighted) < MaxSightings
    /\ ~IsUncovered(mem, m)
    /\ duplicate => duties = "observing"
    /\ duties' = IF duplicate THEN "halted" ELSE duties
    /\ sighted' = IF Consistent(m) THEN sighted \cup {m} ELSE sighted
    /\ UNCHANGED <<disk, pc, dir, mem, mirror, pend, signed, raised>>

-----------------------------------------------------------------------------
\* The operator: file copies and the offline `slashing-protection` tool, which
\* takes the locks and so runs only while no process of this key does.

Backup(d) ==
    /\ AllowRestore
    /\ saved' = data[d]
    /\ UNCHANGED <<data, anchor, anchorExists, retired, process, history>>

Restore(d) ==
    /\ AllowRestore
    /\ pc = "down" \/ d # dir
    /\ data' = [data EXCEPT ![d] = saved]
    /\ UNCHANGED <<anchor, anchorExists, retired, saved, process, history>>

Export(d) ==
    /\ pc = "down"
    /\ anchorExists => ~RecommitConflict(data[d], anchor)
    /\ saved' = IF anchorExists THEN Merge(data[d], anchor) ELSE data[d]
    /\ UNCHANGED <<data, anchor, anchorExists, retired, process, history>>

Import(d) ==
    /\ pc = "down"
    /\ ~RecommitConflict(data[d], saved)
    /\ data' = [data EXCEPT ![d] = Merge(data[d], saved)]
    /\ UNCHANGED <<anchor, anchorExists, retired, saved, process, history>>

SetFloor(d, min_slot) ==
    /\ pc = "down"
    /\ data' = [data EXCEPT ![d] = Merge(data[d], FloorRecord(min_slot))]
    /\ UNCHANGED <<anchor, anchorExists, retired, saved, process, history>>

Retire ==
    /\ pc = "down" /\ ~retired /\ retired' = TRUE
    /\ UNCHANGED <<data, anchor, anchorExists, saved, process, history>>

-----------------------------------------------------------------------------
Boot ==
    \/ \E d \in Dirs : Open(d)
    \/ AttachUnavailable
    \/ AttachAdopt
    \/ \E accept \in BOOLEAN : AttachMerge(accept)
    \/ AttachRaise

Sign ==
    \/ ObservationEnds
    \/ \E m \in Messages : BeginSign(m)
    \/ \E p \in pend, released \in BOOLEAN : FinishSign(p, released)
    \/ \E p \in pend, renamed \in BOOLEAN : Abort(p, renamed)

Observe ==
    \/ \E m \in Duties, live \in BOOLEAN : Sight(m, live)
    \/ \E p \in pend : FinishRaise(p)
    \/ \E m \in Duties, duplicate \in BOOLEAN : SightCovered(m, duplicate)

Operator ==
    \/ \E d \in Dirs : Backup(d) \/ Restore(d) \/ Export(d) \/ Import(d)
    \/ \E d \in Dirs, min_slot \in FloorSlots : SetFloor(d, min_slot)
    \/ Retire

Next == Boot \/ Crash \/ Sign \/ Observe \/ Operator

Spec == Init /\ [][Next]_vars

-----------------------------------------------------------------------------
\* Every record, on disk, in the anchor and in memory, is a record; and only a
\* foreign signature that conflicts with nothing known is ever raised to.
TypeOK ==
    /\ data \in [Dirs -> Record]
    /\ anchor \in Record /\ anchorExists \in BOOLEAN
    /\ retired \in BOOLEAN
    /\ saved \in Record
    /\ pc \in {"down", "opened", "raise", "running"} /\ dir \in Dirs
    /\ mem \in Record /\ mirror \in BOOLEAN
    /\ duties \in {"observing", "open", "halted"}
    /\ pend \subseteq Pending
    /\ signed \subseteq Messages
    /\ raised \subseteq sighted /\ sighted \subseteq Duties

\* No sequence of duties, crashes, failed writes, rollbacks and restarts makes
\* this host release two signatures that contradict each other: no second block
\* for a slot, no double or surround vote, no second RANDAO intent for an epoch
\* (guard_proposal, guard_attestation, guard_recommit, attach_anchor).
NoContradiction == \A m, n \in signed : ~Conflict(m, n)

\* Once the record has been raised to cover a foreign signature of this key
\* (note_own_signature), this host never signs against it, whatever restarts and
\* rollbacks come after.
RaisedNeverContradicted == \A m \in raised, n \in signed : ~Conflict(m, n)

\* A crash between the two writes never locks the key out: with no data directory
\* restored or replaced, the next boot finds a record it can attach without
\* --accept-signing-rollback ("An anchor that lags is simply raised: that is the
\* crash window between the two writes", attach_anchor).
CrashNeverRefused ==
    pc = "opened" /\ anchorExists => ~RecommitConflict(mem, anchor) /\ ~DataBehind

\* is_uncovered is "True when `seen` is a signature of this key that the record
\* does not cover", and an uncovered one is raised "so no later duty can conflict
\* with it": hence no later duty conflicts with any signature that was seen.
SightedNeverContradicted == \A m \in sighted, n \in signed : ~Conflict(m, n)

Promise == INSTANCE SafeSigner

\* The host behaves as a signer that compares every message with everything it ever
\* released, although it remembers only a few marks and loses its memory, and with
\* a restored directory its disk, between signatures.
ImplementsSafeSigner == Promise!Spec
=============================================================================

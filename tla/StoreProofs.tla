---------------------------- MODULE StoreProofs -----------------------------
(***************************************************************************)
(* What a node's files carry across crashes: proofs about SlashProt, for   *)
(* every set of data directories, slots, roots, generations and            *)
(* commitments, and about BlockLog, for chains of every length and any     *)
(* number of reorganisations, crashes and power losses.                    *)
(*                                                                         *)
(* The signing record: one that covers every promised message (signed, or  *)
(* seen and raised to) lets no guard pass for a message in conflict with   *)
(* one of them.  So it is enough that the record in memory always covers   *)
(* them, and that a boot never adopts one that does not.  The anchor is    *)
(* what carries this across rollbacks of the data directory; without it    *)
(* the data directory itself must.                                         *)
(*                                                                         *)
(* The block log: in every phase of an append, of a rewrite and of its     *)
(* background writer, the log on disk is the chain or the one before it.   *)
(***************************************************************************)
EXTENDS SlashProt, BlockLog, TLAPS

\* A leaf goes to the SMT solver unless it names another prover.
USE SMTT(60), Z3T(60)

-----------------------------------------------------------------------------
(* The signing record as data.                                             *)

\* What it means for a record to remember a message.
Covers(r, m) ==
    /\ m.kind = "proposal" => r.proposal_slot >= m.slot
    /\ m.kind = "vote" => /\ r.attestation_slot >= m.slot
                          /\ r.source_epoch >= m.source
                          /\ r.target_epoch >= m.target
    /\ m.kind = "recommit" =>
          /\ r.intent_epoch >= m.epoch
          /\ r.intent_generation >= m.generation
          /\ r.intent_epoch = m.epoch => /\ r.intent_generation = m.generation
                                         /\ r.intent_commitment = m.commitment
          /\ r.intent_generation = m.generation => r.intent_commitment = m.commitment

\* Epoch numbers are naturals (epoch_of).
LEMMA EpochType ==
    /\ \A s \in Nat : EpochOf(s) \in Nat
    /\ Epochs \subseteq Nat
<1>1. \A s \in Nat : EpochOf(s) \in Nat
  BY SlotsAssumption DEF EpochOf
<1> QED
  BY <1>1, SlotsAssumption DEF Epochs

\* The types of the components of a message, by its kind.
LEMMA MessageType ==
    ASSUME NEW m \in Messages
    PROVE  \/ m \in Proposals /\ m.kind = "proposal" /\ m.slot \in Nat
           \/ /\ m \in Votes /\ m.kind = "vote"
              /\ m.slot \in Nat /\ m.source \in Nat /\ m.target \in Nat
           \/ /\ m \in Recommits /\ m.kind = "recommit"
              /\ m.epoch \in Nat /\ m.generation \in Nat /\ m.generation # 0
              /\ m.commitment \in Commitments
  BY EpochType, SlotsAssumption, RandaoAssumption, ZenonT(60)
     DEF Messages, Duties, Proposals, Votes, Recommits

\* The empty record, and what write_record is given, are records.
LEMMA DefaultType == Default \in Record
  BY DEF Default, Record, Mark

LEMMA MergeType ==
    ASSUME NEW a \in Record, NEW b \in Record
    PROVE  Merge(a, b) \in Record
  BY DEF Merge, MaxMark, Record, Mark

LEMMA RaisedType ==
    ASSUME NEW r \in Record, NEW m \in Messages
    PROVE  Raised(r, m) \in Record
<1>1. CASE m \in Proposals /\ m.kind = "proposal" /\ m.slot \in Nat
  BY <1>1 DEF Raised, Record, Mark
<1>2. CASE /\ m \in Votes /\ m.kind = "vote"
           /\ m.slot \in Nat /\ m.source \in Nat /\ m.target \in Nat
  BY <1>2, ZenonT(60) DEF Raised, Record, Mark
<1>3. CASE /\ m \in Recommits /\ m.kind = "recommit" /\ m.epoch \in Nat
           /\ m.generation \in Nat /\ m.commitment \in Commitments
  BY <1>3, ZenonT(60) DEF Raised, Record, Mark
<1> QED
  BY <1>1, <1>2, <1>3, MessageType

LEMMA FloorType ==
    ASSUME NEW s \in FloorSlots
    PROVE  FloorRecord(s) \in Record
<1>1. s - 1 \in Nat
  BY BoundsAssumption
<1>2. EpochOf(s - 1) \in Nat
  BY <1>1, EpochType
<1> QED
  BY <1>1, <1>2, DefaultType, ZenonT(60) DEF FloorRecord, Record, Mark, Default

-----------------------------------------------------------------------------
\* max_marks and merge_recommit lose nothing: the merge of two records remembers
\* what either of them did.
LEMMA MergeCovers ==
    ASSUME NEW a \in Record, NEW b \in Record, ~RecommitConflict(a, b),
           NEW m \in Messages, Covers(a, m) \/ Covers(b, m)
    PROVE  Covers(Merge(a, b), m)
<1>1. CASE m.kind = "proposal" /\ m.slot \in Nat
  BY <1>1 DEF Covers, Merge, MaxMark, Record, Mark
<1>2. CASE m.kind = "vote" /\ m.slot \in Nat /\ m.source \in Nat /\ m.target \in Nat
  BY <1>2 DEF Covers, Merge, MaxMark, Record, Mark
<1>3. CASE /\ m.kind = "recommit" /\ m.epoch \in Nat /\ m.generation \in Nat
           /\ m.commitment \in Commitments
  BY <1>3 DEF Covers, Merge, RecommitConflict, Intent, Record, Mark
<1> QED
  BY <1>1, <1>2, <1>3, MessageType

\* The record a guard writes remembers the new message and all the old ones.
LEMMA RaisedCovers ==
    ASSUME NEW r \in Record, NEW m \in Messages, Guard(r, m)
    PROVE  /\ Covers(Raised(r, m), m)
           /\ \A n \in Messages : Covers(r, n) => Covers(Raised(r, m), n)
<1>1. CASE m.kind = "proposal" /\ m.slot \in Nat
  BY <1>1, MessageType DEF Covers, Raised, Guard, GuardProposal, Record, Mark
<1>2. CASE m.kind = "vote" /\ m.slot \in Nat /\ m.source \in Nat /\ m.target \in Nat
  <2> DEFINE q == Raised(r, m)
  <2>1. /\ q.attestation_slot = m.slot /\ q.source_epoch = m.source
        /\ q.target_epoch = m.target /\ q.proposal_slot = r.proposal_slot
        /\ q.intent_epoch = r.intent_epoch /\ q.intent_generation = r.intent_generation
        /\ q.intent_commitment = r.intent_commitment
    BY <1>2, ZenonT(60) DEF Raised, Record
  <2>2. Covers(q, m)
    BY <1>2, <2>1 DEF Covers
  <2>3. ASSUME NEW n \in Messages, Covers(r, n)
        PROVE  Covers(q, n)
    BY <1>2, <2>1, <2>3, MessageType DEF Covers, Guard, GuardAttestation, Record, Mark
  <2> QED
    BY <2>2, <2>3
<1>3. CASE /\ m.kind = "recommit" /\ m.epoch \in Nat /\ m.generation \in Nat
           /\ m.commitment \in Commitments
  <2> DEFINE q == Raised(r, m)
  <2>1. /\ q.attestation_slot = r.attestation_slot /\ q.source_epoch = r.source_epoch
        /\ q.target_epoch = r.target_epoch /\ q.proposal_slot = r.proposal_slot
        /\ q.intent_epoch = m.epoch /\ q.intent_generation = m.generation
        /\ q.intent_commitment = m.commitment
    BY <1>3, ZenonT(60) DEF Raised, Record
  <2>2. Covers(q, m)
    BY <1>3, <2>1 DEF Covers
  <2>3. ASSUME NEW n \in Messages, Covers(r, n)
        PROVE  Covers(q, n)
    BY <1>3, <2>1, <2>3, MessageType DEF Covers, Guard, GuardRecommit, Record, Mark
  <2> QED
    BY <2>2, <2>3
<1> QED
  BY <1>1, <1>2, <1>3, MessageType

\* No guard passes for a message in conflict with one the record remembers.
LEMMA GuardExcludesConflict ==
    ASSUME NEW r \in Record, NEW m \in Messages, NEW n \in Messages,
           Guard(r, m), Covers(r, n)
    PROVE  ~Conflict(m, n) /\ ~Conflict(n, m)
<1>1. CASE m.kind = "proposal" /\ m.slot \in Nat
  BY <1>1, MessageType DEF Covers, Conflict, Guard, GuardProposal, Record, Mark
<1>2. CASE m.kind = "vote" /\ m.slot \in Nat /\ m.source \in Nat /\ m.target \in Nat
  BY <1>2, MessageType DEF Covers, Conflict, Surrounds, Guard, GuardAttestation, Record, Mark
<1>3. CASE /\ m \in Recommits /\ m.kind = "recommit" /\ m.epoch \in Nat
           /\ m.generation \in Nat /\ m.commitment \in Commitments
  <2>1. CASE n \in Recommits /\ n.kind = "recommit" /\ n.epoch \in Nat /\ n.generation \in Nat
    <3>1. m.epoch = n.epoch => m.generation = n.generation /\ m.commitment = n.commitment
      BY <1>3, <2>1 DEF Covers, Guard, GuardRecommit, Record, Mark
    <3>2. m.generation = n.generation => m.commitment = n.commitment
      BY <1>3, <2>1 DEF Covers, Guard, GuardRecommit, Record, Mark
    <3>3. m.epoch = n.epoch => m = n
      BY <3>1, <1>3, <2>1 DEF Recommits
    <3> QED
      BY <3>2, <3>3, <1>3, <2>1 DEF Conflict
  <2>2. CASE n.kind # "recommit"
    BY <1>3, <2>2 DEF Conflict
  <2> QED
    BY <2>1, <2>2, MessageType
<1> QED
  BY <1>1, <1>2, <1>3, MessageType

\* raise_to_published yields a record that remembers the foreign duty as well.
LEMMA PublishedCovers ==
    ASSUME NEW r \in Record, NEW m \in Duties
    PROVE  /\ RaisedToPublished(r, m) \in Record
           /\ Covers(RaisedToPublished(r, m), m)
           /\ \A n \in Messages : Covers(r, n) => Covers(RaisedToPublished(r, m), n)
<1> DEFINE b == Raised(Default, m)
<1>1. m \in Messages /\ m.kind # "recommit"
  BY DEF Messages, Duties, Proposals, Votes
<1>2. b \in Record
  BY <1>1, DefaultType, RaisedType
<1>3. b.intent_epoch = -1
  BY <1>1, MessageType DEF Raised, Default
<1>4. ~RecommitConflict(r, b)
  BY <1>3 DEF RecommitConflict
<1>5. Covers(b, m)
  BY <1>1, MessageType DEF Raised, Default, Covers
<1> QED
  BY <1>1, <1>2, <1>4, <1>5, MergeType, MergeCovers DEF RaisedToPublished

\* set-floor never forgets an intent.
LEMMA FloorNoConflict ==
    ASSUME NEW r \in Record, NEW s \in FloorSlots
    PROVE  ~RecommitConflict(r, FloorRecord(s))
  BY DEF RecommitConflict, FloorRecord, Default

-----------------------------------------------------------------------------
(* The block log.                                                          *)

Frame == [slot : Nat, branch : Nat]
Chains == Seq(Frame)
WriterSteps == {"none", "stage", "lock", "zero", "rename", "sync", "rebuild", "done"}

\* The branch of a log's last block, which is at most the number of reorganisations.
LastBranch(frames) == IF frames = <<>> THEN 0 ELSE frames[Len(frames)].branch

\* A cache holds the state of the very chain its fingerprint is of, one of the first n
\* branches.
CacheOK(cache, n) ==
    cache # <<>> => cache.log \in Chains /\ cache.state = cache.log /\ LastBranch(cache.log) <= n

\* None of the two caches is of these blocks.
Unseen(frames, two) ==
    /\ frames # <<>>
    /\ two[1] # <<>> => two[1].log # frames
    /\ two[2] # <<>> => two[2].log # frames

EntryRecs == [slot : Nat, at : Nat]

\* No entry of an index names a frame beyond the end of a log.
Within(index, frames) ==
    /\ index \in [magic : BOOLEAN, entries : Seq(EntryRecs)]
    /\ \A i \in DOMAIN index.entries : index.entries[i].at <= Len(frames)

Types ==
    /\ up \in {"open", "down", "refused"}
    /\ reorgs \in Nat
    /\ chain \in Chains /\ log \in Chains /\ logDisk \in Chains
    /\ writer \in [next : WriterSteps, new : Chains]
    /\ pending \in BOOLEAN /\ torn \in BOOLEAN /\ stale \in BOOLEAN
    /\ appending = <<>> \/ (chain # <<>> /\ appending = <<chain[Len(chain)]>>)
    /\ LastBranch(chain) <= reorgs /\ LastBranch(log) <= reorgs /\ LastBranch(logDisk) <= reorgs

\* What the files hold at each step of an append and of a rewrite.  A log whose name is not
\* durable yet is one that no cache has.
Phases ==
    /\ ~pending => writer.next = "none"
    /\ pending => appending = <<>> /\ writer.next # "none" /\ writer.new = chain
    /\ stale => pending
    /\ appending = <<>> => ~torn
    /\ IF appending # <<>> /\ torn THEN log = SubSeq(chain, 1, Len(chain) - 1)
       ELSE writer.next \in {"stage", "lock", "zero", "rename"} \/ log = chain
    /\ writer.next \in {"rename", "sync", "rebuild"} => idx.entries = <<>> /\ idxDisk.entries = <<>>
    /\ IF writer.next \in {"rebuild", "done"} \/ (appending # <<>> /\ ~torn) THEN logDisk = chain
       ELSE logDisk \in acked
    /\ \/ log \in acked
       \/ writer.next \in {"sync", "rebuild", "done"}
       \/ appending # <<>> /\ ~torn
    /\ writer.next \in {"stage", "lock", "zero", "rename", "sync"} => Unseen(writer.new, caches)
    /\ logDisk = log \/ writer.next = "sync"

\* A process that is not there does nothing.
Stopped == ~pending /\ appending = <<>> /\ writer = NoWriter /\ ~stale

LogInv ==
    /\ Types
    /\ up = "open" => Phases
    /\ up = "down" => Stopped /\ AckedSurvives /\ (logDisk = log \/ Unseen(log, caches))
    /\ up # "refused"
    /\ up = "open" \/ torn => Within(idx, log) /\ Within(idxDisk, log)
    /\ CacheOK(caches[1], reorgs) /\ CacheOK(caches[2], reorgs)

-----------------------------------------------------------------------------
(* Facts about the data.                                                   *)

\* A chain is the last block appended to it after the rest (append).
LEMMA FrontAppend ==
    ASSUME NEW c \in Chains, NEW b \in Frame
    PROVE  /\ Append(c, b) \in Chains /\ Append(c, b) # <<>>
           /\ Append(c, b)[Len(Append(c, b))] = b
           /\ SubSeq(Append(c, b), 1, Len(Append(c, b)) - 1) = c
BY DEF Chains

\* A chain that is not empty ends with a block of its own.
LEMMA FrontLast ==
    ASSUME NEW c \in Chains, c # <<>>
    PROVE  SubSeq(c, 1, Len(c) - 1) \o <<c[Len(c)]>> = c
BY DEF Chains

\* A log is any prefix of it followed by the rest.
LEMMA PrefixThenRest ==
    ASSUME NEW s \in Chains, NEW t \in Chains, Len(s) <= Len(t), SubSeq(t, 1, Len(s)) = s
    PROVE  s \o SubSeq(t, Len(s) + 1, Len(t)) = t
BY DEF Chains

\* The slot of the head is a slot.
LEMMA LastSlotNat ==
    ASSUME NEW c \in Chains
    PROVE  LastSlot(c) \in Nat
<1>1. CASE c = <<>>
  BY <1>1 DEF LastSlot
<1>2. CASE c # <<>>
  <2>1. Len(c) \in 1..Len(c)
    BY <1>2 DEF Chains
  <2>2. c[Len(c)] \in Frame
    BY <2>1 DEF Chains
  <2> QED
    BY <1>2, <2>2 DEF LastSlot, Frame
<1> QED
  BY <1>1, <1>2

LEMMA LastBranchNat ==
    ASSUME NEW c \in Chains
    PROVE  LastBranch(c) \in Nat
<1>1. CASE c = <<>>
  BY <1>1 DEF LastBranch
<1>2. CASE c # <<>>
  <2>1. Len(c) \in 1..Len(c)
    BY <1>2 DEF Chains
  <2>2. c[Len(c)] \in Frame
    BY <2>1 DEF Chains
  <2> QED
    BY <1>2, <2>2 DEF LastBranch, Frame
<1> QED
  BY <1>1, <1>2

\* A function from 1..m to frames is a chain of m frames.
LEMMA FramesAreChain ==
    ASSUME NEW m \in Nat, NEW frames \in [1..m -> Frame]
    PROVE  frames \in Chains /\ Len(frames) = m
BY DEF Chains

\* What a reorganisation adopts is a chain, on a branch of its own.
LEMMA TailsTyped ==
    ASSUME Types, NEW keep \in 0..(Len(chain) - 1), NEW tail \in Tails(keep)
    PROVE  tail \in Chains /\ tail # <<>> /\ tail[Len(tail)].branch = reorgs + 1
<1> DEFINE low == LastSlot(SubSeq(chain, 1, keep))
           Run(s, t) == [i \in 1..(t - s + 1) |-> Block(s + i - 1, reorgs + 1)]
<1>1. low \in Nat
  <2>1. SubSeq(chain, 1, keep) \in Chains
    BY DEF Types, Chains
  <2> QED
    BY <2>1, LastSlotNat
<1> HIDE DEF low
<1>2. ASSUME NEW s \in Nat, NEW t \in Nat, s <= t
      PROVE  LET r == Run(s, t) IN r \in Chains /\ r # <<>> /\ r[Len(r)].branch = reorgs + 1
  <2>1. \A i \in 1..(t - s + 1) :
            Block(s + i - 1, reorgs + 1) \in Frame /\ Block(s + i - 1, reorgs + 1).branch = reorgs + 1
    <3>1. reorgs + 1 \in Nat
      BY DEF Types
    <3>2. \A i \in 1..(t - s + 1) : s + i - 1 \in Nat
      BY <1>2
    <3>3. \A slot \in Nat, branch \in Nat :
              Block(slot, branch) \in Frame /\ Block(slot, branch).branch = branch
      BY DEF Block, Frame
    <3> QED
      BY <3>1, <3>2, <3>3, ZenonT(60)
  <2>2. t - s + 1 \in Nat \ {0}
    BY <1>2
  <2>3. Run(s, t) \in Chains /\ Len(Run(s, t)) = t - s + 1
    <3>1. Run(s, t) \in [1..(t - s + 1) -> Frame]
      BY <2>1, ZenonT(60)
    <3> HIDE DEF Run
    <3> QED
      BY <2>2, <3>1, FramesAreChain
  <2>4. \A i \in 1..(t - s + 1) : Run(s, t)[i].branch = reorgs + 1
    BY <2>1, ZenonT(60)
  <2> HIDE DEF Run
  <2>5. t - s + 1 \in 1..(t - s + 1) /\ Run(s, t) # <<>>
    BY <2>2, <2>3
  <2> QED
    BY <2>3, <2>4, <2>5
<1>3. PICK p \in {low + 1, low + 2} \X ((low + 1)..MaxSlot) : p[1] <= p[2] /\ tail = Run(p[1], p[2])
  BY DEF Tails, low
<1>4. p[1] \in Nat /\ p[2] \in Nat
  BY <1>1, <1>3, LogConstants
<1> QED
  BY <1>2, <1>3, <1>4, ZenonT(60)

\* The index repair_index builds from a log names frames of that log.
LEMMA IndexWithin ==
    ASSUME NEW frames \in Chains
    PROVE  Within(Index(frames), frames)
<1> DEFINE entries == [i \in 1..Len(frames) |-> Entry(frames, i)]
<1>1. Len(frames) \in Nat /\ DOMAIN frames = 1..Len(frames) /\ \A i \in 1..Len(frames) : frames[i] \in Frame
  BY DEF Chains
<1>2. \A i \in 1..Len(frames) : Entry(frames, i) \in EntryRecs /\ Entry(frames, i).at = i
  BY <1>1 DEF Entry, EntryRecs, Frame
<1>3. entries \in Seq(EntryRecs) /\ DOMAIN entries = 1..Len(frames)
  BY <1>1, <1>2
<1>4. \A i \in DOMAIN entries : entries[i].at <= Len(frames)
  BY <1>1, <1>2, <1>3
<1>5. Index(frames) = [magic |-> TRUE, entries |-> entries]
  BY <1>1 DEF Index
<1> HIDE DEF entries
<1> QED
  BY <1>3, <1>4, <1>5 DEF Within

\* An index of a log is one of the log with a frame more (append).
LEMMA WithinLonger ==
    ASSUME NEW s \in Chains, NEW t \in Chains, NEW index, Within(index, s), Len(s) <= Len(t)
    PROVE  Within(index, t)
<1> DEFINE entries == index.entries
<1>1. Len(s) \in Nat /\ Len(t) \in Nat
  BY DEF Chains
<1>2. entries \in Seq(EntryRecs) /\ \A i \in DOMAIN entries : entries[i].at <= Len(s)
  BY DEF Within
<1> HIDE DEF entries
<1>3. \A i \in DOMAIN entries : entries[i] \in EntryRecs
  BY <1>2
<1>4. \A i \in DOMAIN entries : entries[i].at <= Len(t)
  BY <1>1, <1>2, <1>3 DEF EntryRecs
<1> QED
  BY <1>4 DEF Within, entries

\* What a power loss leaves of an index is an index of the same log.
LEMMA WithinPrefix ==
    ASSUME NEW s \in Chains, NEW index, Within(index, s), NEW n \in 0..Len(index.entries)
    PROVE  Within([index EXCEPT !.entries = SubSeq(@, 1, n)], s)
<1> DEFINE entries == index.entries
           cut == SubSeq(entries, 1, n)
<1>1. index \in [magic : BOOLEAN, entries : Seq(EntryRecs)]
  BY DEF Within
<1>2. /\ entries \in Seq(EntryRecs) /\ n \in 0..Len(entries)
      /\ \A i \in DOMAIN entries : entries[i].at <= Len(s)
  BY DEF Within
<1> HIDE DEF entries
<1>3. cut \in Seq(EntryRecs) /\ DOMAIN cut = 1..n /\ \A i \in 1..n : cut[i] = entries[i]
  BY <1>2
<1> HIDE DEF cut
<1>4. \A i \in DOMAIN cut : cut[i].at <= Len(s)
  BY <1>2, <1>3
<1>5. [index EXCEPT !.entries = SubSeq(@, 1, n)] = [index EXCEPT !.entries = cut]
  BY <1>1 DEF cut, entries
<1>6. /\ [index EXCEPT !.entries = cut] \in [magic : BOOLEAN, entries : Seq(EntryRecs)]
      /\ [index EXCEPT !.entries = cut].entries = cut
  BY <1>1, <1>3
<1> QED
  BY <1>4, <1>5, <1>6 DEF Within

-----------------------------------------------------------------------------
(* Each operation preserves the invariant.                                 *)

\* A store without a rewrite has a writer of the right type.
LEMMA NoWriterTyped == <<>> \in Chains /\ NoWriter \in [next : WriterSteps, new : Chains]
<1>1. <<>> \in Chains
  BY DEF Chains
<1> QED
  BY <1>1 DEF NoWriter, WriterSteps

\* A store opened on an empty directory satisfies the invariant.
LEMMA InitLogInv == InitLog => LogInv
<1> SUFFICES ASSUME InitLog PROVE LogInv
  OBVIOUS
<1>1. Types
  <2>1. LastBranch(<<>>) <= 0
    BY DEF LastBranch
  <2>2. LastBranch(chain) <= reorgs /\ LastBranch(log) <= reorgs /\ LastBranch(logDisk) <= reorgs
    BY <2>1, ZenonT(60) DEF InitLog
  <2>3. reorgs \in Nat
    BY DEF InitLog
  <2> QED
    BY <2>2, <2>3, NoWriterTyped, ZenonT(60) DEF InitLog, Types
<1>2. Phases
  BY ZenonT(60) DEF InitLog, Phases, NoWriter
<1>3. Within(idx, log) /\ Within(idxDisk, log)
  <2>1. <<>> \in Chains
    BY DEF Chains
  <2> QED
    BY <2>1, IndexWithin DEF InitLog
<1>4. CacheOK(caches[1], reorgs) /\ CacheOK(caches[2], reorgs)
  BY DEF InitLog, CacheOK
<1> QED
  BY <1>1, <1>2, <1>3, <1>4 DEF InitLog, LogInv

\* A rewrite that has been joined, or none, leaves the log the chain.
LEMMA JoinedLog ==
    ASSUME LogInv, up = "open", appending = <<>>, Joined
    PROVE  /\ log = chain /\ logDisk = log /\ writer.next \in {"none", "done"}
           /\ ~pending => log \in acked
BY DEF LogInv, Types, Phases, Joined, WriterSteps

\* What an open store's phases say of the files covers every crash.
LEMMA PhasesAcked ==
    ASSUME Types, Phases
    PROVE  AckedSurvives
BY DEF Types, Phases, AckedSurvives, WriterSteps

\* append, up to the first byte of the frame, with the rewrite joined.
LEMMA StartAppendInv ==
    ASSUME LogInv, NEW b \in Frame, b.branch = reorgs, StartAppend(b)
    PROVE  LogInv'
<1>1. log = chain /\ logDisk = log /\ log \in acked'
  BY JoinedLog DEF StartAppend, Reopen
<1>2. chain' \in Chains /\ chain' # <<>> /\ chain'[Len(chain')] = b /\ SubSeq(chain', 1, Len(chain') - 1) = log
  BY <1>1, FrontAppend, ZenonT(60) DEF LogInv, Types, StartAppend
<1>3. Types'
  <2>1. LastBranch(chain') <= reorgs
    BY <1>2 DEF LastBranch, LogInv, Types
  <2> QED
    BY <1>1, <1>2, <2>1, NoWriterTyped, ZenonT(60) DEF LogInv, Types, StartAppend, Reopen, LastBranch
<1>4. Phases'
  BY <1>1, <1>2, ZenonT(60) DEF StartAppend, Reopen, NoWriter, Phases
<1>5. Within(idx, log)' /\ Within(idxDisk, log)'
  BY ZenonT(60) DEF LogInv, StartAppend, Within
<1> QED
  BY <1>1, <1>3, <1>4, <1>5 DEF LogInv, StartAppend, CacheOK

\* append: the frame is complete and synced.
LEMMA SyncAppendInv ==
    ASSUME LogInv, SyncAppend
    PROVE  LogInv'
<1>1. /\ ~pending /\ ~stale /\ writer.next = "none" /\ log = SubSeq(chain, 1, Len(chain) - 1)
      /\ logDisk = log
  BY DEF LogInv, Phases, Types, SyncAppend
<1>2. log' = chain /\ logDisk' = chain
  BY <1>1, FrontLast, ZenonT(60) DEF LogInv, Types, SyncAppend
<1>3. Len(log) <= Len(chain)
  BY <1>1 DEF LogInv, Types, Chains
<1>4. Types'
  BY <1>2, ZenonT(60) DEF LogInv, Types, SyncAppend, handles, LastBranch
<1>5. Phases'
  BY <1>1, <1>2 DEF LogInv, Phases, SyncAppend, handles
<1>6. Within(idx, chain) /\ Within(idxDisk, chain)
  BY <1>3, WithinLonger DEF LogInv, Types, SyncAppend
<1>7. Within(idx, log)' /\ Within(idxDisk, log)'
  BY <1>2, <1>6, ZenonT(60) DEF Within, SyncAppend
<1> QED
  BY <1>2, <1>4, <1>5, <1>7 DEF LogInv, SyncAppend, CacheOK

\* write_local_cache beside a log that is the chain gives a usable cache, and leaves the log
\* durable under its name if it was.
LEMMA WriteCacheInv ==
    ASSUME LogInv, WriteCache(log)
    PROVE  /\ CacheOK(caches'[1], reorgs) /\ CacheOK(caches'[2], reorgs)
           /\ logDisk' \in {logDisk, log} /\ (log # <<>> => logDisk' = log)
BY DEF WriteCache, CacheOK, LogInv, Types

\* append: the index entry, written or failed, and the periodic cache.
LEMMA IndexAppendInv ==
    ASSUME LogInv, NEW fails \in BOOLEAN, IndexAppend(fails)
    PROVE  LogInv'
<1>1. log = chain /\ logDisk = chain /\ ~pending /\ writer.next = "none" /\ chain # <<>> /\ ~stale
  BY DEF LogInv, Phases, Types, IndexAppend
<1>0. /\ CacheOK(caches'[1], reorgs) /\ CacheOK(caches'[2], reorgs)
      /\ logDisk' = logDisk
  BY <1>1, WriteCacheInv DEF LogInv, IndexAppend
<1>2. Types'
  BY <1>0 DEF LogInv, Types, IndexAppend, LastBranch
<1>3. Phases'
  BY <1>0, <1>1 DEF LogInv, Phases, IndexAppend
<1>4. Within(idx', log)
  <2>1. CASE idx' = idx
    BY <2>1 DEF LogInv, IndexAppend
  <2>2. CASE idx' = [idx EXCEPT !.entries = Append(@, Entry(log, Len(log)))]
    <3> DEFINE entries == idx.entries
               e == Entry(log, Len(log))
    <3>1. idx \in [magic : BOOLEAN, entries : Seq(EntryRecs)] /\ \A i \in DOMAIN entries : entries[i].at <= Len(log)
      BY DEF LogInv, Within, IndexAppend
    <3>2. log[Len(log)] \in Frame /\ Len(log) \in Nat
      BY <1>1 DEF LogInv, Types, Chains
    <3>3. e \in EntryRecs /\ e.at = Len(log)
      BY <3>2 DEF Entry, EntryRecs, Frame
    <3>4. entries \in Seq(EntryRecs)
      BY <3>1
    <3>5. idx' = [idx EXCEPT !.entries = Append(entries, e)]
      BY <2>2
    <3> HIDE DEF e, entries
    <3>6. /\ Append(entries, e) \in Seq(EntryRecs)
          /\ \A i \in DOMAIN Append(entries, e) :
                \/ i \in DOMAIN entries /\ Append(entries, e)[i] = entries[i]
                \/ Append(entries, e)[i] = e
      BY <3>3, <3>4
    <3>7. \A i \in DOMAIN Append(entries, e) : Append(entries, e)[i].at <= Len(log)
      BY <3>1, <3>2, <3>3, <3>6
    <3>8. idx' \in [magic : BOOLEAN, entries : Seq(EntryRecs)] /\ idx'.entries = Append(entries, e)
      BY <3>1, <3>5, <3>6, ZenonT(60)
    <3> QED
      BY <3>7, <3>8 DEF Within
  <2> QED
    BY <2>1, <2>2 DEF IndexAppend
<1>5. Within(idx, log)' /\ Within(idxDisk, log)'
  BY <1>4 DEF LogInv, Within, IndexAppend
<1> QED
  BY <1>0, <1>1, <1>2, <1>3, <1>5 DEF LogInv, IndexAppend, CacheOK

\* rewrite_tail_async after a reorganisation.
LEMMA RewriteTailInv ==
    ASSUME LogInv, NEW keep \in 0..(Len(chain) - 1), NEW tail \in Tails(keep), RewriteTail(keep, tail)
    PROVE  LogInv'
<1>1. log = chain /\ logDisk = log /\ log \in acked'
  BY JoinedLog DEF RewriteTail
<1>2. tail \in Chains /\ tail # <<>> /\ tail[Len(tail)].branch = reorgs + 1
  BY TailsTyped DEF LogInv
<1>3. SubSeq(chain, 1, keep) \o tail \in Chains
  BY <1>2 DEF LogInv, Types, Chains
<1>8. chain' # <<>> /\ LastBranch(chain') = reorgs + 1
  <2> DEFINE kept == SubSeq(chain, 1, keep)
  <2>1. kept \in Seq(Frame) /\ tail \in Seq(Frame) /\ chain' = kept \o tail
    BY <1>2 DEF LogInv, Types, Chains, RewriteTail
  <2> HIDE DEF kept
  <2>2. Len(tail) \in Nat \ {0}
    BY <1>2, <2>1
  <2>3. Len(chain') = Len(kept) + Len(tail) /\ chain'[Len(chain')] = tail[Len(tail)]
    BY <2>1, <2>2
  <2>4. chain' # <<>>
    BY <2>1, <2>2, <2>3
  <2> QED
    BY <1>2, <2>3, <2>4 DEF LastBranch
<1>9. /\ Unseen(chain', caches')
      /\ CacheOK(caches'[1], reorgs') /\ CacheOK(caches'[2], reorgs')
  <2>1. caches' = caches /\ reorgs' = reorgs + 1 /\ reorgs \in Nat
    BY DEF RewriteTail, LogInv, Types
  <2>2. CacheOK(caches[1], reorgs) /\ CacheOK(caches[2], reorgs)
    BY DEF LogInv
  <2>3. \A f \in Chains : LastBranch(f) \in Nat
    BY LastBranchNat
  <2>4. CacheOK(caches[1], reorgs') /\ CacheOK(caches[2], reorgs')
    BY <2>1, <2>2, <2>3 DEF CacheOK
  <2>5. Unseen(chain', caches)
    BY <1>8, <2>1, <2>2 DEF CacheOK, Unseen
  <2> QED
    BY <2>1, <2>4, <2>5
<1>4. chain' \in Chains /\ writer' = [next |-> "stage", new |-> chain'] /\ writer' \in [next : WriterSteps, new : Chains]
  BY <1>1, <1>3 DEF RewriteTail, WriterSteps
<1>5. Types'
  <2>1. reorgs' \in Nat /\ reorgs' = reorgs + 1
    BY DEF LogInv, Types, RewriteTail
  <2>2. log' = log /\ logDisk' = logDisk /\ log \in Chains /\ logDisk \in Chains /\ torn' \in BOOLEAN
    BY DEF LogInv, Types, RewriteTail
  <2>3. up' = "open" /\ appending' = <<>> /\ pending' \in BOOLEAN /\ stale' \in BOOLEAN
    BY ZenonT(60) DEF RewriteTail
  <2>4. LastBranch(log) <= reorgs' /\ LastBranch(logDisk) <= reorgs' /\ LastBranch(chain') <= reorgs'
    <3>1. LastBranch(log) \in Nat /\ LastBranch(logDisk) \in Nat /\ reorgs \in Nat
      BY <2>2, LastBranchNat DEF LogInv, Types
    <3>2. LastBranch(log) <= reorgs /\ LastBranch(logDisk) <= reorgs
      BY DEF LogInv, Types
    <3> QED
      BY <1>8, <2>1, <3>1, <3>2
  <2> QED
    BY <1>4, <2>1, <2>2, <2>3, <2>4 DEF Types, LastBranch
<1>6. Phases'
  <2>1. pending' /\ appending' = <<>> /\ ~torn'
    BY DEF LogInv, Phases, RewriteTail
  <2>2. log' \in acked' /\ logDisk' = log'
    BY <1>1 DEF RewriteTail
  <2>3. writer'.next = "stage" /\ writer'.new = chain'
    BY <1>4
  <2> QED
    BY <1>9, <2>1, <2>2, <2>3 DEF Phases, Unseen
<1>7. Within(idx, log)' /\ Within(idxDisk, log)'
  BY DEF LogInv, RewriteTail, Within
<1> QED
  BY <1>1, <1>5, <1>6, <1>7, <1>9, ZenonT(60) DEF LogInv, RewriteTail, CacheOK

\* The steps of the writer thread, which runs only while its store is open.
LEMMA WriterStepInv ==
    ASSUME LogInv, WriterStep
    PROVE  LogInv'
<1>1. up = "open" /\ pending /\ appending = <<>> /\ ~torn /\ writer.new = chain
  BY DEF LogInv, Types, Phases, Stopped, NoWriter, WriterStep, Writing, Stage, TakeLock, ZeroIndex,
         Rename, SyncDir, RebuildIndex
<1>2. ASSUME NEW op, NEW then \in WriterSteps, Writing(op, then)
      PROVE  writer' \in [next : WriterSteps, new : Chains] /\ writer'.next = then /\ writer'.new = chain
                /\ writer.next = op
  BY <1>1, <1>2 DEF LogInv, Types, Writing
<1>3. Within(NoIndex, log)
  <2>1. NoIndex \in [magic : BOOLEAN, entries : Seq(EntryRecs)] /\ NoIndex.entries = <<>>
    BY DEF NoIndex
  <2> QED
    BY <2>1 DEF Within
<1>4. CASE Stage
  <2>1. Types'
    BY <1>2, <1>4, ZenonT(60) DEF LogInv, Types, Stage, WriterFrame, WriterSteps, LastBranch
  <2>2. Phases'
    BY <1>1, <1>2, <1>4 DEF LogInv, Phases, Stage, WriterFrame, WriterSteps, Unseen
  <2> QED
    BY <1>1, <1>4, <2>1, <2>2, ZenonT(60) DEF LogInv, Stage, WriterFrame, Within, CacheOK
<1>5. CASE TakeLock
  <2>1. Types'
    BY <1>2, <1>5, ZenonT(60) DEF LogInv, Types, TakeLock, WriterFrame, WriterSteps, LastBranch
  <2>2. Phases'
    BY <1>1, <1>2, <1>5, ZenonT(60) DEF LogInv, Phases, TakeLock, WriterFrame, WriterSteps, Unseen
  <2> QED
    BY <1>1, <1>5, <2>1, <2>2, ZenonT(60) DEF LogInv, TakeLock, WriterFrame, Within, CacheOK
<1>6. CASE ZeroIndex
  <2>1. Types'
    BY <1>2, <1>6, ZenonT(60) DEF LogInv, Types, ZeroIndex, WriterFrame, WriterSteps, LastBranch
  <2>2. Phases'
    BY <1>1, <1>2, <1>6 DEF LogInv, Phases, ZeroIndex, WriterFrame, WriterSteps, Unseen, NoIndex
  <2>3. Within(idx, log)' /\ Within(idxDisk, log)'
    BY <1>3, <1>6 DEF ZeroIndex, Within
  <2> QED
    BY <1>1, <1>6, <2>1, <2>2, <2>3, ZenonT(60) DEF LogInv, ZeroIndex, WriterFrame, CacheOK
<1>7. CASE Rename
  <2>1. Types'
    BY <1>1, <1>2, <1>7, ZenonT(60) DEF LogInv, Types, Rename, WriterFrame, WriterSteps, LastBranch
  <2>2. Phases'
    <3>1. /\ writer.next = "rename" /\ writer'.next = "sync" /\ writer'.new = chain' /\ chain' = chain
          /\ log' = chain' /\ logDisk' = logDisk /\ acked' = acked
      BY <1>1, <1>2, <1>7 DEF Rename, WriterFrame, WriterSteps
    <3>2. pending' /\ appending' = <<>> /\ ~torn' /\ idx' = idx /\ idxDisk' = idxDisk /\ caches' = caches
      BY <1>1, <1>7 DEF Rename, WriterFrame
    <3>3. idx.entries = <<>> /\ idxDisk.entries = <<>> /\ logDisk \in acked /\ Unseen(chain, caches)
      BY <1>1, <3>1 DEF LogInv, Phases
    <3> QED
      BY <3>1, <3>2, <3>3 DEF Phases, Unseen
  <2>3. Within(idx, log)' /\ Within(idxDisk, log)'
    <3>1. idx.entries = <<>> /\ idxDisk.entries = <<>>
      BY <1>1, <1>2, <1>7, ZenonT(60) DEF LogInv, Phases, Rename, WriterSteps
    <3> QED
      BY <1>1, <1>7, <3>1 DEF LogInv, Rename, Within
  <2> QED
    BY <1>1, <1>7, <2>1, <2>2, <2>3 DEF LogInv, Rename, WriterFrame, CacheOK
<1>8. CASE SyncDir
  <2>1. Types'
    BY <1>2, <1>8 DEF LogInv, Types, SyncDir, WriterFrame, WriterSteps, LastBranch
  <2>2. Phases'
    BY <1>1, <1>2, <1>8, ZenonT(60) DEF LogInv, Phases, SyncDir, WriterFrame, WriterSteps, Unseen
  <2>3. logDisk' = chain'
    BY <1>1, <1>2, <1>8, <2>2, ZenonT(60) DEF Phases, SyncDir, WriterFrame, WriterSteps
  <2> QED
    BY <1>1, <1>8, <2>1, <2>2, <2>3 DEF LogInv, SyncDir, WriterFrame, Within, CacheOK
<1>9. CASE RebuildIndex
  <2>1. Types'
    BY <1>2, <1>9 DEF LogInv, Types, RebuildIndex, WriterFrame, WriterSteps, LastBranch
  <2>2. Phases'
    BY <1>1, <1>2, <1>9, ZenonT(60) DEF LogInv, Phases, RebuildIndex, WriterFrame, WriterSteps, Unseen
  <2>3. Within(idx, log)' /\ Within(idxDisk, log)'
    BY <1>9, IndexWithin DEF LogInv, Types, RebuildIndex
  <2> QED
    BY <1>1, <1>9, <2>1, <2>2, <2>3, ZenonT(60) DEF LogInv, RebuildIndex, WriterFrame, CacheOK
<1> QED
  BY <1>4, <1>5, <1>6, <1>7, <1>8, <1>9 DEF WriterStep

\* poll_rewrite and the cache written once a rewrite is durable.
LEMMA PollInv ==
    ASSUME LogInv, Poll
    PROVE  LogInv'
<1>1. log = chain /\ logDisk = log /\ log \in acked'
  BY JoinedLog DEF Poll
<1>4. CacheOK(caches'[1], reorgs) /\ CacheOK(caches'[2], reorgs) /\ logDisk' = logDisk
  BY <1>1, WriteCacheInv DEF Poll
<1>2. Types'
  BY <1>1, <1>4, NoWriterTyped, ZenonT(60) DEF LogInv, Types, Poll, LastBranch
<1>3. Phases'
  BY <1>1, <1>4, ZenonT(60) DEF LogInv, Phases, Poll, NoWriter
<1> QED
  BY <1>1, <1>2, <1>3, <1>4, ZenonT(60) DEF LogInv, Poll, Within, CacheOK

\* blocks_after changes neither files nor chain.
LEMMA ReaderStepInv ==
    ASSUME LogInv, ReaderFrame
    PROVE  LogInv'
<1>1. Types'
  BY ZenonT(60) DEF LogInv, Types, ReaderFrame, files, handles, LastBranch
<1>2. Phases' <=> Phases
  BY ZenonT(60) DEF Phases, ReaderFrame, files, handles, Unseen
<1> QED
  BY <1>1, <1>2, ZenonT(60)
  DEF LogInv, Stopped, AckedSurvives, ReaderFrame, files, handles, Within, CacheOK, Unseen

\* What is lost when the process ends.
LEMMA ExitInv ==
    ASSUME LogInv, Exit, CacheOK(caches'[1], reorgs), CacheOK(caches'[2], reorgs),
           log' \in {log, logDisk}, logDisk' \in {log, logDisk}, torn' \in BOOLEAN,
           torn' => Within(idx', log') /\ Within(idxDisk', log'),
           {log', logDisk'} \subseteq acked' \cup {chain}, logDisk' = log' \/ Unseen(log', caches')
    PROVE  LogInv'
<1>1. Types'
  BY NoWriterTyped, ZenonT(60) DEF LogInv, Types, Exit, LastBranch
<1>2. Stopped'
  BY DEF Stopped, Exit
<1>3. (up = "down" => Stopped /\ AckedSurvives /\ (logDisk = log \/ Unseen(log, caches)))'
  BY <1>2, ZenonT(60) DEF Exit, AckedSurvives, Unseen
<1>4. up' = "down" /\ reorgs' = reorgs
  BY DEF Exit
<1> QED
  BY <1>1, <1>3, <1>4 DEF LogInv, CacheOK, Within

\* A crash may lose the newer cache, and nothing is cached that was not.
LEMMA CachesLost ==
    ASSUME LogInv, caches' \in {caches, <<<<>>, caches[2]>>}
    PROVE  /\ CacheOK(caches'[1], reorgs) /\ CacheOK(caches'[2], reorgs)
           /\ \A frames : Unseen(frames, caches) => Unseen(frames, caches')
BY DEF LogInv, CacheOK, Unseen

\* Where the name of the log is not durable, no cache has the log.
LEMMA UnsyncedUnseen ==
    ASSUME LogInv, up = "open"
    PROVE  logDisk = log \/ Unseen(log, caches)
BY DEF LogInv, Types, Phases

\* The process dies.
LEMMA CrashInv ==
    ASSUME LogInv, CrashLog
    PROVE  LogInv'
<1>1. Within(idx', log') /\ Within(idxDisk', log')
  BY ZenonT(60) DEF LogInv, CrashLog, Die, Exit, files, Within
<1>2. AckedSurvives
  BY PhasesAcked DEF LogInv, CrashLog, Die, Exit
<1>3. logDisk = log \/ Unseen(log, caches)
  BY UnsyncedUnseen DEF CrashLog, Die, Exit
<1> QED
  BY <1>1, <1>2, <1>3, CachesLost, ExitInv DEF LogInv, Types, CrashLog, Die, files, AckedSurvives

\* The process stops in order.
LEMMA StopInv ==
    ASSUME LogInv, StopAtSlot
    PROVE  LogInv'
<1>1. log = chain /\ logDisk = log /\ log \in acked' /\ up = "open"
  BY JoinedLog DEF StopAtSlot, Exit
<1>2. CacheOK(caches'[1], reorgs) /\ CacheOK(caches'[2], reorgs) /\ logDisk' = logDisk
  BY <1>1, WriteCacheInv DEF LogInv, StopAtSlot
<1>3. Within(idx', log') /\ Within(idxDisk', log')
  BY <1>1, ZenonT(60) DEF LogInv, StopAtSlot, Within
<1>4. log' = log /\ torn' \in BOOLEAN
  BY DEF LogInv, Types, StopAtSlot
<1> QED
  BY <1>1, <1>2, <1>3, <1>4, ExitInv DEF StopAtSlot

\* The machine loses power, with any part of what was not synced.
LEMMA PowerLossInv ==
    ASSUME LogInv, PowerLoss
    PROVE  LogInv'
<1>1. Within(idx, log) /\ Within(idxDisk, log)
  BY DEF LogInv, PowerLoss, Die, Exit
<1>2. ASSUME log' = log PROVE Within(idx', log') /\ Within(idxDisk', log')
  <2>1. CASE idx' = idxDisk
    BY <1>1, <1>2, <2>1 DEF PowerLoss
  <2>2. CASE idx' # idxDisk
    <3>1. PICK n \in Len(idxDisk.entries)..Len(idx.entries) : idx' = [idx EXCEPT !.entries = SubSeq(@, 1, n)]
      BY <2>2 DEF PowerLoss
    <3>2. n \in 0..Len(idx.entries)
      <4>1. Len(idxDisk.entries) \in Nat /\ Len(idx.entries) \in Nat
        BY <1>1 DEF Within
      <4> QED
        BY <3>1, <4>1
    <3> QED
      BY <1>1, <1>2, <3>1, <3>2, WithinPrefix DEF LogInv, Types, PowerLoss
  <2> QED
    BY <2>1, <2>2
<1>3. {log', logDisk'} \subseteq acked \cup {chain}
  BY PhasesAcked, ZenonT(60) DEF LogInv, AckedSurvives, PowerLoss, Die, Exit
<1> QED
  BY <1>2, <1>3, CachesLost, ExitInv, ZenonT(60) DEF LogInv, Types, PowerLoss, Die

\* Recovery through a cache gives the chain in the log.
LEMMA RestoredIsLog ==
    ASSUME LogInv
    PROVE  Restored = log
<1>1. ASSUME NEW cache, CacheOK(cache, reorgs), Usable(cache)
      PROVE  ReplayedOn(cache) = log
  <2>1. /\ cache.log \in Chains /\ cache.state = cache.log
        /\ Len(cache.log) <= Len(log) /\ SubSeq(log, 1, Len(cache.log)) = cache.log
    BY <1>1 DEF CacheOK, Usable
  <2> QED
    BY <2>1, PrefixThenRest, ZenonT(60) DEF ReplayedOn, LogInv, Types
<1> QED
  BY <1>1 DEF Restored, LogInv

\* Store::open repairs what a crash left and recovers the chain.
LEMMA OpenInv ==
    ASSUME LogInv, OpenLog
    PROVE  LogInv' /\ up' = "open" /\ chain' = log
<1>1. ~(torn /\ Covered(idx.entries) > Len(log))
  <2>1. SUFFICES ASSUME torn PROVE Covered(idx.entries) <= Len(log)
    <3>1. ASSUME torn PROVE Covered(idx.entries) \in Nat /\ Len(log) \in Nat
      <4>1. idx.entries \in Seq(EntryRecs)
        BY <3>1 DEF LogInv, Within
      <4>2. CASE idx.entries = <<>>
        BY <4>2 DEF Covered, LogInv, Types, Chains
      <4>3. CASE idx.entries # <<>>
        <5>1. idx.entries[Len(idx.entries)] \in EntryRecs
          BY <4>1, <4>3
        <5> QED
          BY <4>3, <5>1 DEF Covered, EntryRecs, LogInv, Types, Chains
      <4> QED
        BY <4>2, <4>3
    <3> QED
      BY <3>1
  <2>2. idx.entries \in Seq(EntryRecs) /\ \A i \in DOMAIN idx.entries : idx.entries[i].at <= Len(log)
    BY <2>1 DEF LogInv, Within
  <2>3. Len(log) \in Nat
    BY DEF LogInv, Types, Chains
  <2>4. CASE idx.entries = <<>>
    BY <2>3, <2>4 DEF Covered
  <2>5. CASE idx.entries # <<>>
    <3>1. Len(idx.entries) \in DOMAIN idx.entries
      BY <2>2, <2>5
    <3> QED
      BY <2>2, <2>5, <3>1 DEF Covered
  <2> QED
    BY <2>4, <2>5
<1>2. /\ up' = "open" /\ chain' = log /\ log' = log /\ acked' = {log, logDisk'} /\ ~torn'
      /\ idx' = Index(log) /\ idxDisk' = Index(log) /\ BootCache
  BY <1>1, RestoredIsLog DEF OpenLog
<1>3. Stopped /\ (logDisk = log \/ Unseen(log, caches))
  BY DEF LogInv, OpenLog
<1>7. CacheOK(caches'[1], reorgs) /\ CacheOK(caches'[2], reorgs) /\ logDisk' = log
  <2>1. CASE NothingReplayed
    <3>1. ~Unseen(log, caches)
      BY <2>1 DEF NothingReplayed, Usable, Unseen
    <3> QED
      BY <1>2, <1>3, <2>1, <3>1 DEF BootCache, LogInv
  <2>2. CASE ~NothingReplayed
    <3>1. WriteCache(log)
      BY <1>2, <2>2, RestoredIsLog DEF BootCache
    <3> QED
      BY <1>3, <3>1, WriteCacheInv DEF Unseen
  <2> QED
    BY <2>1, <2>2
<1>4. Types'
  BY <1>2, <1>3, <1>7, ZenonT(60) DEF LogInv, Types, OpenLog, handles, Stopped, LastBranch
<1>5. Phases'
  BY <1>2, <1>3, <1>7, ZenonT(60) DEF Phases, Stopped, OpenLog, handles, NoWriter
<1>6. Within(idx, log)' /\ Within(idxDisk, log)'
  BY <1>2, IndexWithin DEF LogInv, Types
<1> QED
  BY <1>2, <1>4, <1>5, <1>6, <1>7, ZenonT(60) DEF LogInv, OpenLog, CacheOK

-----------------------------------------------------------------------------
(* The theorems.                                                           *)

\* The invariant is inductive.
LEMMA NextLogInv ==
    ASSUME LogInv, [NextLog]_blockLogVars
    PROVE  LogInv'
<1>1. CASE LastSlot(chain) < MaxSlot /\ StartAppend(Block(LastSlot(chain) + 1, reorgs))
  <2>1. Block(LastSlot(chain) + 1, reorgs) \in Frame /\ Block(LastSlot(chain) + 1, reorgs).branch = reorgs
    BY LastSlotNat DEF LogInv, Types, Block, Frame
  <2> QED
    BY <1>1, <2>1, StartAppendInv
<1>2. CASE \E fails \in BOOLEAN : IndexAppend(fails)
  BY <1>2, IndexAppendInv
<1>3. CASE \E keep \in 0..(Len(chain) - 1) : \E tail \in Tails(keep) : RewriteTail(keep, tail)
  BY <1>3, RewriteTailInv
<1>4. CASE \E after \in 0..(MaxSlot - 2) : ReadLength(after)
  BY <1>4, ReaderStepInv DEF ReadLength
<1>5. CASE ReadIndex \/ Scan \/ Serve
  BY <1>5, ReaderStepInv, ZenonT(60) DEF ReadIndex, Scan, Serve
<1>6. CASE UNCHANGED blockLogVars
  <2>1. ReaderFrame
    BY <1>6 DEF blockLogVars, ReaderFrame, files, handles
  <2> QED
    BY <2>1, ReaderStepInv
<1> QED
  BY <1>1, <1>2, <1>3, <1>4, <1>5, <1>6, SyncAppendInv, WriterStepInv, PollInv, CrashInv, PowerLossInv,
     StopInv, OpenInv DEF NextLog, EngineStep, ReaderStep

\* The invariant of the files holds throughout.
THEOREM LogInvariant == LogSpec => []LogInv
<1>1. InitLog => LogInv
  BY InitLogInv
<1>2. LogInv /\ [NextLog]_blockLogVars => LogInv'
  BY NextLogInv
<1> QED
  BY <1>1, <1>2, PTL DEF LogSpec

\* For any number of reorganisations, crashes and power losses: the log a restart reads is
\* the engine's chain, short of the block being appended or of the rewrite being staged.
THEOREM LogAlwaysChain == LogSpec => []LogIsChain
<1>1. LogInv => LogIsChain
  BY DEF LogInv, Types, Phases, LogIsChain, Replaced, WriterSteps
<1> QED
  BY <1>1, LogInvariant, PTL

\* What a crash or a power loss leaves was reported durable, or is the chain decided since.
THEOREM DurableAlways == LogSpec => []AckedSurvives
<1>1. LogInv => AckedSurvives
  BY PhasesAcked DEF LogInv, Types
<1> QED
  BY <1>1, LogInvariant, PTL

\* No crash leaves a log that Store::open refuses to repair.
THEOREM OpensAlways == LogSpec => []AlwaysOpens
<1>1. LogInv => AlwaysOpens
  BY DEF LogInv, AlwaysOpens
<1> QED
  BY <1>1, LogInvariant, PTL

\* Recovery, through a state cache or by replay, gives the chain in the log.
THEOREM RecoveryExact == LogSpec => RecoveredIsLogged
<1>1. ASSUME LogInv, [NextLog]_blockLogVars, up = "down", up' = "open"
      PROVE  chain' = log /\ log' = log
  <2>1. OpenLog
    <3>1. ~UNCHANGED up
      BY <1>1, ZenonT(60)
    <3>2. ~WriterStep
      BY <3>1 DEF WriterStep, Stage, TakeLock, ZeroIndex, Rename, SyncDir, RebuildIndex, WriterFrame
    <3>3. /\ ~(\E after \in 0..(MaxSlot - 2) : ReadLength(after)) /\ ~ReadIndex /\ ~Scan /\ ~Serve
          /\ ~SyncAppend /\ ~(\E fails \in BOOLEAN : IndexAppend(fails)) /\ ~Poll
      BY <1>1 DEF ReadLength, ReadIndex, Scan, Serve, SyncAppend, IndexAppend, Poll
    <3>4. ~CrashLog /\ ~PowerLoss /\ ~StopAtSlot /\ ~UNCHANGED blockLogVars
      BY <1>1 DEF CrashLog, PowerLoss, StopAtSlot, Die, Exit, blockLogVars
    <3>5. ~(LastSlot(chain) < MaxSlot /\ StartAppend(Block(LastSlot(chain) + 1, reorgs)))
      BY <1>1 DEF StartAppend
    <3>6. ~(\E keep \in 0..(Len(chain) - 1) : \E tail \in Tails(keep) : RewriteTail(keep, tail))
      BY <1>1 DEF RewriteTail
    <3> QED
      BY <1>1, <3>2, <3>3, <3>4, <3>5, <3>6 DEF NextLog, EngineStep, ReaderStep
  <2>2. chain' = log
    BY <1>1, <2>1, OpenInv
  <2>3. log' = log
    BY <1>1, <2>1 DEF OpenLog, files
  <2> QED
    BY <2>2, <2>3
<1>2. LogInv /\ [NextLog]_blockLogVars => [up = "down" /\ up' = "open" => chain' = log /\ log' = log]_blockLogVars
  BY <1>1
<1> QED
  BY <1>2, LogInvariant, PTL DEF LogSpec, RecoveredIsLogged

-----------------------------------------------------------------------------
(* The signing record in the running node.                                 *)

Promised == signed \cup raised
CoversAll(r) == \A m \in Promised : Covers(r, m)

\* Each part of the inductive invariant.
AnchorCovers == ~AllowUnanchored => IF anchorExists THEN CoversAll(anchor) ELSE Promised = {}
DataCovers == AllowUnanchored => \A d \in Dirs : CoversAll(data[d])
MemoryCovers == pc \in {"raise", "running"} => CoversAll(mem)
OpenedMemory == pc = "opened" => (AllowUnanchored => CoversAll(mem))
Mirrored == /\ pc = "running" /\ ~AllowUnanchored => mirror
            /\ mirror => anchorExists /\ pc = "running"
            /\ pc = "raise" => anchorExists
PendingCovers ==
    \A p \in pend : /\ pc = "running" /\ data[dir] = p.rec
                    /\ CoversAll(p.rec) /\ Covers(p.rec, p.msg)
                    /\ p.own => Guard(mem, p.msg)

Inv == /\ TypeOK
       /\ AnchorCovers /\ DataCovers /\ MemoryCovers /\ OpenedMemory /\ Mirrored
       /\ PendingCovers
       /\ NoContradiction /\ RaisedNeverContradicted

-----------------------------------------------------------------------------
\* Every step writes only well-formed records and messages.
LEMMA TypeStep == TypeOK /\ [Next]_vars => TypeOK'
<1> SUFFICES ASSUME TypeOK, [Next]_vars PROVE TypeOK'
  OBVIOUS
<1> USE DefaultType DEF TypeOK
<1>1. ASSUME NEW d \in Dirs, Open(d) PROVE TypeOK'
  BY <1>1, ZenonT(60) DEF Open, disk, history
<1>2. CASE AttachUnavailable
  BY <1>2 DEF AttachUnavailable, disk, history
<1>3. CASE AttachAdopt
  BY <1>3 DEF AttachAdopt, history
<1>4. ASSUME NEW accept \in BOOLEAN, AttachMerge(accept) PROVE TypeOK'
  BY <1>4, MergeType DEF AttachMerge, history
<1>5. CASE AttachRaise
  BY <1>5 DEF AttachRaise, history
<1>6. CASE Crash
  BY <1>6, ZenonT(60) DEF Crash, disk, history
<1>7. CASE ObservationEnds
  BY <1>7, ZenonT(60) DEF ObservationEnds, disk, history
<1>8. ASSUME NEW m \in Messages, BeginSign(m) PROVE TypeOK'
  <2>1. Raised(mem, m) \in Record
    BY RaisedType
  <2> QED
    BY <1>8, <2>1 DEF BeginSign, history, Pending
<1>9. ASSUME NEW p \in pend, NEW released \in BOOLEAN, FinishSign(p, released) PROVE TypeOK'
  BY <1>9 DEF FinishSign, Pending
<1>10. ASSUME NEW p \in pend, NEW renamed \in BOOLEAN, Abort(p, renamed) PROVE TypeOK'
  BY <1>10, ZenonT(60) DEF Abort, Pending, history
<1>11. ASSUME NEW m \in Duties, NEW live \in BOOLEAN, Sight(m, live) PROVE TypeOK'
  <2>1. RaisedToPublished(mem, m) \in Record /\ m \in Messages
    BY PublishedCovers, ZenonT(60) DEF Messages
  <2> QED
    BY <1>11, <2>1 DEF Sight, history, Pending
<1>12. ASSUME NEW m \in Duties, NEW duplicate \in BOOLEAN, SightCovered(m, duplicate)
       PROVE TypeOK'
  BY <1>12, ZenonT(60) DEF SightCovered, disk
<1>13. ASSUME NEW p \in pend, FinishRaise(p) PROVE TypeOK'
  BY <1>13, ZenonT(60) DEF FinishRaise, Pending
<1>14. ASSUME NEW d \in Dirs, Backup(d) \/ Restore(d) PROVE TypeOK'
  BY <1>14, ZenonT(60) DEF Backup, Restore, process, history
<1>15. ASSUME NEW d \in Dirs, Export(d) \/ Import(d) PROVE TypeOK'
  BY <1>15, MergeType DEF Export, Import, process, history
<1>16. ASSUME NEW d \in Dirs, NEW s \in FloorSlots, SetFloor(d, s) PROVE TypeOK'
  BY <1>16, MergeType, FloorType DEF SetFloor, process, history
<1>17. CASE Retire
  BY <1>17, ZenonT(60) DEF Retire, process, history
<1>18. CASE UNCHANGED vars
  BY <1>18 DEF vars
<1> QED
  BY ZenonT(60), <1>1, <1>2, <1>3, <1>4, <1>5, <1>6, <1>7, <1>8, <1>9, <1>10, <1>11, <1>12,
     <1>13, <1>14, <1>15, <1>16, <1>17, <1>18
     DEF Next, Boot, Sign, Observe, Operator

-----------------------------------------------------------------------------
\* Before the first boot nothing is promised.
LEMMA InvInit == Init => Inv
<1> SUFFICES ASSUME Init PROVE Inv
  OBVIOUS
<1>1. TypeOK
  BY DefaultType, ZenonT(60) DEF Init, TypeOK
<1>2. Promised = {}
  BY ZenonT(60) DEF Init, Promised
<1> QED
  BY <1>1, <1>2
     DEF Init, Inv, AnchorCovers, DataCovers, MemoryCovers, OpenedMemory, Mirrored,
         PendingCovers, NoContradiction, RaisedNeverContradicted, CoversAll

\* Steps of the boot sequence keep the invariant.
LEMMA InvBoot == Inv /\ Boot => Inv'
<1> SUFFICES ASSUME Inv, Boot PROVE Inv'
  OBVIOUS
<1> USE DEF Inv, NoContradiction, RaisedNeverContradicted
<1>0. TypeOK' /\ UNCHANGED history
  <2>1. [Next]_vars
    BY ZenonT(60) DEF Next
  <2>2. UNCHANGED history
    BY DEF Boot, Open, AttachUnavailable, AttachAdopt, AttachMerge, AttachRaise
  <2> QED
    BY <2>1, <2>2, TypeStep
<1>a. Promised' = Promised /\ \A r : CoversAll(r)' <=> CoversAll(r)
  BY <1>0 DEF history, CoversAll, Promised
<1>b. Promised \subseteq Messages
  BY DEF Promised, TypeOK, Messages
<1>1. ASSUME NEW d \in Dirs, Open(d) PROVE Inv'
  BY <1>0, <1>1, <1>a, ZenonT(60)
     DEF Open, disk, history, AnchorCovers, DataCovers, MemoryCovers, OpenedMemory,
         Mirrored, PendingCovers
<1>2. CASE AttachUnavailable
  BY <1>0, <1>2, <1>a, ZenonT(60)
     DEF AttachUnavailable, disk, history, AnchorCovers, DataCovers, MemoryCovers,
         OpenedMemory, Mirrored, PendingCovers
<1>3. CASE AttachAdopt
  <2>1. CoversAll(mem)
    BY <1>3 DEF AttachAdopt, AnchorCovers, OpenedMemory, CoversAll
  <2> QED
    BY <1>0, <1>3, <1>a, <2>1, ZenonT(60)
       DEF AttachAdopt, history, AnchorCovers, DataCovers, MemoryCovers, OpenedMemory,
           Mirrored, PendingCovers
<1>4. ASSUME NEW accept \in BOOLEAN, AttachMerge(accept) PROVE Inv'
  <2>1. CoversAll(mem) \/ CoversAll(anchor)
    BY <1>4, ZenonT(60) DEF AttachMerge, AnchorCovers, OpenedMemory
  <2>2. CoversAll(Merge(mem, anchor))
    BY <1>4, <1>b, <2>1, MergeCovers, ZenonT(60) DEF AttachMerge, CoversAll, TypeOK
  <2>3. AnchorCovers' /\ MemoryCovers' /\ OpenedMemory' /\ Mirrored' /\ PendingCovers'
    BY <1>0, <1>4, <1>a, <2>2, ZenonT(60)
       DEF AttachMerge, history, AnchorCovers, MemoryCovers, OpenedMemory, Mirrored,
           PendingCovers
  <2>4. DataCovers'
    BY <1>4, <1>a, <2>2 DEF AttachMerge, DataCovers, TypeOK
  <2> QED
    BY <1>0, <2>3, <2>4 DEF history
<1>5. CASE AttachRaise
  <2>1. CoversAll(mem)
    BY <1>5 DEF AttachRaise, MemoryCovers
  <2> QED
    BY <1>0, <1>5, <1>a, <2>1, ZenonT(60)
       DEF AttachRaise, history, AnchorCovers, DataCovers, MemoryCovers, OpenedMemory,
           Mirrored, PendingCovers
<1> QED
  BY <1>1, <1>2, <1>3, <1>4, <1>5 DEF Boot

\* The end of a process, and what the operator does, promise nothing new.
LEMMA InvCrashOperator == Inv /\ (Crash \/ Operator) => Inv'
<1> SUFFICES ASSUME Inv, Crash \/ Operator PROVE Inv'
  OBVIOUS
<1> USE DEF Inv, NoContradiction, RaisedNeverContradicted
<1>0. TypeOK' /\ UNCHANGED history
  <2>1. [Next]_vars
    BY ZenonT(60) DEF Next
  <2>2. UNCHANGED history
    BY DEF Crash, Operator, Backup, Restore, Export, Import, SetFloor, Retire
  <2> QED
    BY <2>1, <2>2, TypeStep
<1>a. Promised' = Promised /\ \A r : CoversAll(r)' <=> CoversAll(r)
  BY <1>0 DEF history, CoversAll, Promised
<1>b. Promised \subseteq Messages
  BY DEF Promised, TypeOK, Messages
<1>1. CASE Crash
  BY <1>0, <1>1, <1>a, ZenonT(60)
     DEF Crash, disk, history, AnchorCovers, DataCovers, MemoryCovers, OpenedMemory,
         Mirrored, PendingCovers
<1>2. ASSUME NEW d \in Dirs, Backup(d) \/ Restore(d) \/ Export(d) PROVE Inv'
  <2>1. DataCovers'
    BY <1>2, <1>a, DeploymentAssumption, ZenonT(60) DEF Backup, Restore, Export, DataCovers
  <2>2. pend # {} => data'[dir] = data[dir]
    BY <1>2, ZenonT(60) DEF Backup, Restore, Export, PendingCovers, TypeOK
  <2>3. UNCHANGED <<process, anchor, anchorExists>>
    BY <1>2, ZenonT(60) DEF Backup, Restore, Export
  <2>4. PendingCovers'
    BY <1>a, <2>2, <2>3, ZenonT(60) DEF process, PendingCovers
  <2>5. (AnchorCovers /\ MemoryCovers /\ OpenedMemory /\ Mirrored)'
    BY <1>a, <2>3, ZenonT(60) DEF process, AnchorCovers, MemoryCovers, OpenedMemory, Mirrored
  <2> QED
    BY <1>0, <2>1, <2>4, <2>5, ZenonT(60) DEF history
<1>3. ASSUME NEW d \in Dirs, NEW b \in Record, pc = "down", ~RecommitConflict(data[d], b),
             data' = [data EXCEPT ![d] = Merge(data[d], b)],
             UNCHANGED <<anchor, anchorExists, retired, saved, process, history>>
      PROVE  Inv'
  <2>1. CoversAll(data[d]) => CoversAll(Merge(data[d], b))
    BY <1>3, <1>b, MergeCovers DEF CoversAll, TypeOK
  <2>2. DataCovers'
    BY <1>3, <1>a, <2>1 DEF DataCovers, TypeOK
  <2> QED
    BY <1>0, <1>3, <1>a, <2>2, ZenonT(60)
       DEF process, history, AnchorCovers, MemoryCovers, OpenedMemory, Mirrored,
           PendingCovers
<1>4. ASSUME NEW d \in Dirs, Import(d) PROVE Inv'
  BY <1>3, <1>4, ZenonT(60) DEF Import, TypeOK
<1>5. ASSUME NEW d \in Dirs, NEW s \in FloorSlots, SetFloor(d, s) PROVE Inv'
  <2>1. FloorRecord(s) \in Record /\ ~RecommitConflict(data[d], FloorRecord(s))
    BY FloorType, FloorNoConflict DEF TypeOK
  <2> QED
    BY <1>3, <1>5, <2>1, ZenonT(60) DEF SetFloor
<1>6. CASE Retire
  BY <1>0, <1>6, <1>a, ZenonT(60)
     DEF Retire, process, history, AnchorCovers, DataCovers, MemoryCovers, OpenedMemory,
         Mirrored, PendingCovers
<1> QED
  BY <1>1, <1>2, <1>4, <1>5, <1>6, ZenonT(60) DEF Operator

\* Signing: the guard is checked against a record that covers every promise.
LEMMA InvSign == Inv /\ Sign => Inv'
<1> SUFFICES ASSUME Inv, Sign PROVE Inv'
  OBVIOUS
<1> USE DEF Inv
<1>0. TypeOK'
  <2>1. [Next]_vars
    BY DEF Next
  <2> QED
    BY <2>1, TypeStep
<1>b. Promised \subseteq Messages
  BY DEF Promised, TypeOK, Messages
<1>1. CASE ObservationEnds
  BY <1>0, <1>1, ZenonT(60)
     DEF ObservationEnds, disk, history, AnchorCovers, DataCovers, MemoryCovers,
         OpenedMemory, Mirrored, PendingCovers, CoversAll, Promised, NoContradiction,
         RaisedNeverContradicted
<1>2. ASSUME NEW m \in Messages, BeginSign(m) PROVE Inv'
  <2>1. CoversAll(mem)
    BY <1>2, ZenonT(60) DEF BeginSign, MemoryCovers
  <2>2. CoversAll(Raised(mem, m)) /\ Covers(Raised(mem, m), m)
    BY <1>2, <1>b, <2>1, RaisedCovers, ZenonT(60) DEF BeginSign, CoversAll, TypeOK
  <2>3. Promised' = Promised /\ \A r : CoversAll(r)' <=> CoversAll(r)
    BY <1>2, ZenonT(60) DEF BeginSign, history, CoversAll, Promised
  <2>4. DataCovers'
    BY <1>2, <2>2, <2>3, ZenonT(60) DEF BeginSign, DataCovers, TypeOK
  <2>5. PendingCovers'
    BY <1>2, <2>2, <2>3 DEF BeginSign, PendingCovers, TypeOK
  <2> QED
    BY <1>0, <1>2, <2>3, <2>4, <2>5, ZenonT(60)
       DEF BeginSign, history, AnchorCovers, MemoryCovers, OpenedMemory, Mirrored,
           NoContradiction, RaisedNeverContradicted
<1>3. ASSUME NEW p \in pend, NEW released \in BOOLEAN, FinishSign(p, released) PROVE Inv'
  <2>1. /\ p.rec \in Record /\ p.msg \in Messages /\ p.own /\ pc = "running"
        /\ CoversAll(p.rec) /\ Covers(p.rec, p.msg) /\ Guard(mem, p.msg) /\ CoversAll(mem)
    BY <1>3 DEF FinishSign, PendingCovers, MemoryCovers, TypeOK, Pending
  <2>2. \A n \in Promised : ~Conflict(p.msg, n) /\ ~Conflict(n, p.msg)
    BY <1>b, <2>1, GuardExcludesConflict DEF CoversAll, TypeOK
  <2>3. Promised' \subseteq Promised \cup {p.msg} /\ signed' \subseteq signed \cup {p.msg}
    BY <1>3, ZenonT(60) DEF FinishSign, Promised
  <2>4. NoContradiction' /\ RaisedNeverContradicted'
    <3>1. ~Conflict(p.msg, p.msg)
      BY DEF Conflict
    <3> QED
      BY <1>3, <2>2, <2>3, <3>1, ZenonT(60)
         DEF FinishSign, NoContradiction, RaisedNeverContradicted, Promised
  <2>5. CoversAll(p.rec)'
    BY <1>3, <2>1, <2>3, ZenonT(60) DEF FinishSign, CoversAll
  <2>6. DataCovers'
    <3>1. AllowUnanchored => \A d \in Dirs : data'[d] = p.rec
      BY <1>3, DeploymentAssumption DEF FinishSign, PendingCovers, TypeOK
    <3> QED
      BY <2>5, <3>1, ZenonT(60) DEF DataCovers, CoversAll
  <2> QED
    BY <1>0, <1>3, <2>1, <2>4, <2>5, <2>6, ZenonT(60)
       DEF FinishSign, AnchorCovers, MemoryCovers, OpenedMemory, Mirrored, PendingCovers
<1>4. ASSUME NEW p \in pend, NEW renamed \in BOOLEAN, Abort(p, renamed) PROVE Inv'
  <2>1. p.rec \in Record /\ CoversAll(p.rec)
    BY <1>4, ZenonT(60) DEF Abort, PendingCovers, TypeOK, Pending
  <2>2. Promised' = Promised /\ \A r : CoversAll(r)' <=> CoversAll(r)
    BY <1>4, ZenonT(60) DEF Abort, history, CoversAll, Promised
  <2> QED
    BY <1>0, <1>4, <2>1, <2>2, ZenonT(60)
       DEF Abort, history, AnchorCovers, DataCovers, MemoryCovers, OpenedMemory, Mirrored,
           PendingCovers, NoContradiction, RaisedNeverContradicted
<1> QED
  BY <1>1, <1>2, <1>3, <1>4 DEF Sign

\* Foreign signatures: raising the record keeps every promise and adds one that
\* nothing signed so far contradicts.
LEMMA InvObserve == Inv /\ Observe => Inv'
<1> SUFFICES ASSUME Inv, Observe PROVE Inv'
  OBVIOUS
<1> USE DEF Inv
<1>0. TypeOK'
  <2>1. [Next]_vars
    BY DEF Next
  <2> QED
    BY <2>1, TypeStep
<1>b. Promised \subseteq Messages
  BY DEF Promised, TypeOK, Messages
<1>1. ASSUME NEW m \in Duties, NEW live \in BOOLEAN, Sight(m, live) PROVE Inv'
  <2> DEFINE rec == RaisedToPublished(mem, m)
  <2>1. CoversAll(mem)
    BY <1>1 DEF Sight, MemoryCovers
  <2>2. CoversAll(rec) /\ Covers(rec, m)
    BY <1>b, <2>1, PublishedCovers, ZenonT(60) DEF CoversAll, TypeOK
  <2>3. Promised' = Promised /\ \A r : CoversAll(r)' <=> CoversAll(r)
    BY <1>1 DEF Sight, history, CoversAll, Promised
  <2>4. DataCovers'
    BY <1>1, <2>2, <2>3, ZenonT(60) DEF Sight, DataCovers, TypeOK
  <2>5. PendingCovers'
    <3>1. data'[dir'] = rec
      BY <1>1, ZenonT(60) DEF Sight, TypeOK
    <3>2. pc' = "running" /\ \A p \in pend' : p.rec = rec /\ p.msg = m /\ ~p.own
      BY <1>1 DEF Sight
    <3> QED
      BY <2>2, <2>3, <3>1, <3>2, ZenonT(60) DEF PendingCovers
  <2> QED
    BY <1>0, <1>1, <2>3, <2>4, <2>5, ZenonT(60)
       DEF Sight, history, AnchorCovers, MemoryCovers, OpenedMemory, Mirrored,
           NoContradiction, RaisedNeverContradicted
<1>2. ASSUME NEW p \in pend, FinishRaise(p) PROVE Inv'
  <2>1. /\ pc = "running" /\ CoversAll(p.rec) /\ Covers(p.rec, p.msg)
    BY <1>2, ZenonT(60) DEF FinishRaise, PendingCovers
  <2>2. Promised' \subseteq Promised \cup {p.msg} /\ signed' = signed
    BY <1>2 DEF FinishRaise, Promised
  <2>3. CoversAll(p.rec)'
    BY <2>1, <2>2, ZenonT(60) DEF CoversAll
  <2>4. NoContradiction' /\ RaisedNeverContradicted'
    BY <1>2, <2>2
       DEF FinishRaise, Consistent, NoContradiction, RaisedNeverContradicted
  <2>5. DataCovers'
    <3>1. AllowUnanchored => \A d \in Dirs : data'[d] = p.rec
      BY <1>2, DeploymentAssumption DEF FinishRaise, PendingCovers, TypeOK
    <3> QED
      BY <2>3, <3>1, ZenonT(60) DEF DataCovers, CoversAll
  <2> QED
    BY <1>0, <1>2, <2>1, <2>3, <2>4, <2>5, ZenonT(60)
       DEF FinishRaise, AnchorCovers, MemoryCovers, OpenedMemory, Mirrored, PendingCovers
<1>3. ASSUME NEW m \in Duties, NEW duplicate \in BOOLEAN, SightCovered(m, duplicate)
      PROVE  Inv'
  <2>1. Promised' = Promised /\ \A r : CoversAll(r)' <=> CoversAll(r)
    BY <1>3 DEF SightCovered, CoversAll, Promised
  <2> QED
    BY <1>0, <1>3, <2>1, ZenonT(60)
       DEF SightCovered, disk, AnchorCovers, DataCovers, MemoryCovers, OpenedMemory,
           Mirrored, PendingCovers, NoContradiction, RaisedNeverContradicted
<1> QED
  BY <1>1, <1>2, <1>3 DEF Observe

\* The inductive invariant holds in every reachable state.
THEOREM Invariance == Spec => []Inv
<1>1. Inv /\ UNCHANGED vars => Inv'
  <2> SUFFICES ASSUME Inv, UNCHANGED vars PROVE Inv'
    OBVIOUS
  <2>1. TypeOK'
    BY TypeStep DEF Inv
  <2>2. Promised' = Promised /\ \A r : CoversAll(r)' <=> CoversAll(r)
    BY ZenonT(60) DEF vars, history, CoversAll, Promised
  <2>3. (AnchorCovers /\ DataCovers /\ MemoryCovers /\ OpenedMemory /\ Mirrored)'
    BY <2>2, ZenonT(60)
       DEF Inv, vars, process, disk, AnchorCovers, DataCovers, MemoryCovers, OpenedMemory,
           Mirrored
  <2>4. PendingCovers'
    BY <2>2, ZenonT(60) DEF Inv, vars, process, disk, PendingCovers
  <2>5. (NoContradiction /\ RaisedNeverContradicted)'
    BY ZenonT(60) DEF Inv, vars, history, NoContradiction, RaisedNeverContradicted
  <2> QED
    BY <2>1, <2>3, <2>4, <2>5 DEF Inv
<1>2. Inv /\ [Next]_vars => Inv'
  BY <1>1, InvBoot, InvCrashOperator, InvSign, InvObserve DEF Next
<1> QED
  BY <1>2, InvInit, PTL DEF Spec

\* Every record on disk and in memory stays well formed, for every set of slots,
\* directories and commitments (the record format of slashprot.rs).
THEOREM TypeCorrect == Spec => []TypeOK
  BY Invariance, PTL DEF Inv

\* A host never releases two contradicting signatures, whatever crashes, failed
\* writes, rollbacks of the data directory and restarts happen in between.
THEOREM NoContradictionHolds == Spec => []NoContradiction
  BY Invariance, PTL DEF Inv

\* A foreign signature the record was raised to is never signed against.
THEOREM RaisedHolds == Spec => []RaisedNeverContradicted
  BY Invariance, PTL DEF Inv

\* The record, its two copies and the boot checks implement the abstract signer.
THEOREM SafeSignerImplemented == Spec => ImplementsSafeSigner
<1>1. Init => Promise!Init
  BY DEF Init, Promise!Init
<1>2. ASSUME Inv, Inv', [Next]_vars
      PROVE  [Promise!Next]_signed
  <2>1. CASE signed' = signed
    BY <2>1
  <2>2. CASE \E p \in pend : signed' = signed \cup {p.msg}
    <3>1. PICK p \in pend : signed' = signed \cup {p.msg}
      BY <2>2, ZenonT(60)
    <3>2. p.msg \in Messages
      BY <1>2, <3>1 DEF Inv, TypeOK, Pending
    <3>3. \A n \in signed : ~Conflict(p.msg, n)
      BY <1>2, <3>1 DEF Inv, NoContradiction
    <3> QED
      BY <3>1, <3>2, <3>3 DEF Promise!Next, Promise!Release
  <2>3. signed' = signed \/ \E p \in pend : signed' = signed \cup {p.msg}
    <3>1. CASE Sign
      BY <3>1, ZenonT(60) DEF Sign, ObservationEnds, BeginSign, FinishSign, Abort, history
    <3>2. CASE Boot
      BY <3>2 DEF Boot, Open, AttachUnavailable, AttachAdopt, AttachMerge, AttachRaise, history
    <3>3. CASE Crash
      BY <3>3 DEF Crash, history
    <3>4. CASE Observe
      BY <3>4, ZenonT(60) DEF Observe, Sight, FinishRaise, SightCovered, history
    <3>5. CASE Operator
      BY <3>5 DEF Operator, Backup, Restore, Export, Import, SetFloor, Retire, history
    <3>6. CASE UNCHANGED vars
      BY <3>6 DEF vars
    <3> QED
      BY <1>2, <3>1, <3>2, <3>3, <3>4, <3>5, <3>6 DEF Next
  <2> QED
    BY <2>1, <2>2, <2>3
<1> QED
  BY <1>1, <1>2, Invariance, PTL DEF Spec, Promise!Spec, ImplementsSafeSigner

=============================================================================

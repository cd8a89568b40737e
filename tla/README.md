# Verification of the Bloch proof-of-stake node

TLA+ models of the consensus core of this repository, model-checked with TLC on
small instances, with the central safety theorems proved in TLAPS for every value
of the constants. Paths below are relative to the repository; `node/` stands for
`crates/bloch-pos-node/src/`, `committee/` for `crates/bloch-pos-committee/src/`.

## 1. The system

A validator node follows a chain of blocks. In each slot one proposer makes a
block and a committee attests: a vote names a head (for LMD-GHOST) and a link from
a justified checkpoint to the checkpoint of the current epoch (for finality). At
the end of an epoch every chain folds the votes its blocks carried into its
finality state. A node moves to the head its fork choice selects, keeps its chain
and its keys on disk, and never signs two messages that could be held against its
key.

| Part | Source | What makes it hard | Modules |
|---|---|---|---|
| Signing record | `node/slashprot.rs`, `signer_anchor.rs`, `slashing_cli.rs` | crashes between writes, failed writes, restored directories, late sightings | `SlashProt`, `SafeSigner`, `StoreProofs` |
| Finality gadget | `committee/finality.rs` | equivocation, leak and recovery, gates, set handoff | `Finality`, `FinalityChain`, `StakeSums`, `FinalityChainProofs` |
| Finality across a partition | the same, with the signing record | branches close and hand off at different moments | `FinalityNet`, `FFG`, `FinalityHistory`, `FFGProofs` |
| LMD-GHOST | `committee/forkchoice.rs` | map order, ties, dangling parents | `Ghost`, `ForkChoice` |
| Committed fork-choice state | `committee/transition.rs`, steps 8 and 9 | order of votes, horizon, gate | `Ghost`, `CommittedVotes` |
| Gossip pool | `committee/gossip.rs` | shares and limits, eviction, replay | `GossipPool` |
| Staking and slashing | `committee/staking.rs`, `slashing.rs`, `transition/lifecycle.rs`, `funded.rs` | churn limits, exits before slashes, once-only evidence | `Staking`, `StakeSums`, `StakingProofs` |
| Engine | `node/engine.rs` | stale memo, partial application, restarts, bounded queues | `Engine`, `EngineProofs` |
| Block log | `node/store.rs`, `engine/local_cache.rs` | crashes between rename, sync and index; a writer thread; readers | `BlockLog`, `StoreProofs` |
| KES keys | `committee/kes.rs`, `node/kes_key.rs`, `engine/validator_lifecycle.rs` | crashes between renames, keys and chain out of step | `KesLedger`, `KesNode`, `KesProofs`, `KesNodeProofs` |
| Sync requests | `node/p2p.rs`, `p2p/sync_requests.rs` | late answers, silent peers, full queues | `Sync` |

`PROJECT.json` lists every component with its sources, modelled or not, and every
hazard at the line where it bites with the properties that would catch it.

How they interact: the committee crate is a pure function from blocks to state;
the engine calls it, feeds the fork choice with blocks and votes, and asks the
signing record before every signature. Finality is safe only because of the
signing record: `FinalityNet` takes its guard over as the action of a voter, and
`SlashProt` shows that the guard holds up on a real disk. `Ghost` holds the weights
and the descent that both `ForkChoice` (the algorithm, step by step) and `Engine`
(its use) rest on. `KesNode` composes the chain's record of keys (`KesLedger`)
with the files of one validator.

## 2. Modules

### SlashProt, SafeSigner

The record is the tuple of marks of `Watermarks` and `RecommitProtection`, with
-1 for `None`. `data`, `anchor` and `mem` are its three copies. One signature takes
two actions: `BeginSign` (guard passed, data directory written) and `FinishSign`
(anchor written, memory adopted, signature released or lost), and `Crash` or
`Abort` (a write returned an error) may come in between. A boot is `Open` followed
by one of the attach actions; the raise of a lagging anchor is a step of its own,
as it is a write of its own. `Sight`, `FinishRaise` and `SightCovered` are
`note_own_signature` and `note_possible_doppelganger`. `Backup` and `Restore` are
what an operator does with files, outside the program. The locks are modelled by
there being one process at a time. The clock is not modelled: a duty for any slot
may come at any time.

`RenameErrors` is the case in which `publish` renames the file and only then fails:
disk may be ahead of memory. `AllowUnanchored` is a boot without anchor, for which
protection is promised only with one directory that is never rolled back
(`DeploymentAssumption`, from the documentation of `signer_anchor.rs`). `SafeSigner`
is what all this promises: a signer that compares each message with everything it
released before.

### Finality, FinalityChain

`ProcessEpoch` follows `process_epoch` in its stages: open the frozen set
(`Opened`), filter targets, discard equivocators, check sources and tally
(`Count`), justify and finalize (`Decide`), leak and recover (`Adjust`, `Credit`),
close the set and prune (`Settle`). Stakes and the leak are integers with the
code's rounding. Gates and quotients are constants, so an instance can put several
gates a few epochs apart. `FinalityChain` runs it on one chain, and chooses roster
and votes of every epoch freely.

### FinalityNet, FFG, FinalityHistory

`FinalityNet` has one finality state per branch of a split chain. Its votes come
from voters that follow a branch, with the one-vote-per-epoch and
source-never-goes-back guards of the signing record; `Faulty` voters vote on every
branch. Votes may be lost (`Lossy`) or be included by the other branch
(`ForeignVotes`). `FFG` is the abstract protocol: links over quorums, conflicting
votes by faulty validators only. `FinalityHistory` adds the history of votes,
links and finalized checkpoints to the network and is the refinement of `FFG`;
it begins where the branches part, past both gates, and prunes nobody.

### Ghost, ForkChoice, CommittedVotes

`job` of `ForkChoice` holds the state of `subtree_weights`: weights, pending counts,
ready blocks. `Release` takes any ready block, since the order of the code's stack
comes from a hash map. Trees lose blocks while their children stay, as `advance`
does with a block that fails to apply. Identities are integers whose order is
unrelated to the order of slots, so the two tie-breaks differ; the properties
quantify over both settings of the FC-05 gate.

A block of `CommittedVotes` carries any sequence of admissible votes.
`AccumulateForkchoice` is the fold of the code with its rebuilt `Store`. Before the
horizon gate a validator sits in one committee of an epoch (the partition of
`committees.rs`); from the gate on the model seats it everywhere, so that the
retained history is checked without help from the partition. This admits more
blocks than the code does.

### GossipPool

Votes known, parked and relayed, the five counters beside the parked ones, and the
engine's queue of landed roots with one release turn per step. Signatures, keys and
the verification budget only decide whether a vote is dropped. A clock jump is
several `NewSlot` steps; the epoch of the head may go down on a reorganisation. Not
modelled: own votes, which are inserted directly; a checkpoint that is not
monotone, which changes nothing in the pool. The limit on root sets is not reached
with two blocks.

### Staking

The registry past the gates of epoch 2884: funded deposits, the activation queue
behind finality with its churn, voluntary exits, slashing with its correlation
window and delayed ejection, withdrawals, write-offs, issuance and the pool of
spendable coins as one total. Gates at `u64::MAX` are shut (unfunded deposits and
delegations, cancellation, queue v2, growth cap, rewards v2, fee and stake
decoupling, slashing economics v2). The legacy `resolve_activations` has no effect
on funded keys. Left out: delegation (armed at epoch 4669), stake caps and the leak
change weights only; the supply cap's clamp; `is_write_off_indeterminate`, which is
unreachable. The penalty is priced with the roster weight at each transaction
rather than at the start of the block.

### Engine

A world (constant) fixes a tree of blocks with their slots, votes, transactions,
proposers, what their post-states justify and finalize (`justifiedRoot` and
`finalizedRoot`, by the chain that ends there), and which do not apply; the actions
deliver them in any order from any source, tick the clock, release waiting blocks,
and step through `advance`: choose the head from the memoised inputs, check the
latch, undo, apply one block, roll back or commit. `Restart` may fall on any step
and replays the log. Not modelled: the ring of recent states and `replay_to`, the
mempool, byte budgets, rejects for a body or a root that does not decode, failed
restores of released bodies under the override, enforcement of the weak-subjectivity
anchor; a signature failure of an index that a deposit added counts as an unknown
identity. The epoch of the FC-05 gate is not among the memo's inputs (inert now).
Bodies are released before the rewrite is queued (`engine.rs:5321`, `5664`), and in
the model; a reorganisation under the override restores the released bodies above
its cut before it tries the branch, and they stay restored when the branch fails
(`engine.rs:5553`).

A checkpoint may name a root of another branch: before the own-chain gate a vote for
a foreign target counts. `ratchet_finalized` returns early for such a root
(`FinalizedHeight` is 0 then), and one of the worlds has it.

### BlockLog

The log file with its frames, the index, the two state caches, the staged rewrite
and the writer thread that publishes it in steps, readers that hold the shared lock,
crashes that lose the process and power losses that also lose what was not synced. A
renamed file has its name durably once the directory is synced: by the writer's last
step, or by the publication of a state cache. `OpenLog` writes the cache of a boot
that replayed anything (`BootCache`), which is what makes the name of a log durable
that a crash left between rename and sync; a frame synced into such a file before
that may be lost with it (`SyncAppend`). `StopAtSlot` is the orderly end, which
joins the rewrite and writes the cache. A failed append ends the process in the code
and is `CrashLog` here; the writer's own errors fail-stop. A crash between a rename
and the sync of the directory leaves either name. Not modelled: `require_cache` and
the replay-limit switches (`engine.rs:6940`), byte budgets; a cache write that
fails, which the code only reports (a state over 512 MiB, a full disk), and a
reorganisation back to the very blocks of an earlier cache. Where one of these meets
a crash between rename and sync, the boot leaves the name as it is and
`AckedSurvives` is not shown. A reader that races an append may get a spurious
error, never a wrong page.

### KesLedger, KesNode

`KesLedger` is the chain's record of one validator's keys: registration, binding
delay, rotation, expiry, rescue, compaction of the history. `KesNode` is the
validator: the key in memory, five file names (`dir`, and in `dirs` everything a
power loss may leave), a job made of file operations, and duties, maintenance
turns, key generation and the pool transaction around it. Every file operation may
fail, and a crash or power loss may fall between any two. KES is inert in this
build (`HF3_KES_EPOCH` is `u64::MAX`). The variable `exposed` marks a start from a
directory whose last renames were not synced: a second power loss may then undo
them, the double fault that `kes_key.rs:408` accepts. Not modelled: a slashed or
exited validator, an inadmissible depth, `BLOCH_KES_ALLOW_PERIOD_JUMP`,
reorganisations of a rotation, foreign rotations, the `keygen-next` command.

### Sync

The outbound window of requests, the choice of peers on a timer turn, the page chase
with its budget, and the bounded queue to the engine. An empty page counts as a
failure, as in the code; a block is accepted when it attaches. Any peer may
disconnect and any request may fail, the one peer that serves included, `MaxChurn`
times in all. Not modelled: the serving side and its limiter, byte budgets,
dialling, gossip.

### StakeSums

Sums of stakes over sets of validators by the community modules' `MapThenFoldSet`,
with what the proofs about finality and the registry need of them. See section 5.


## 3. Runs

Where one run covers several parts or deployments, a variable chosen at the start
(`scenario`, `deployment`, `running`) says which one the behaviour belongs to; the
parts never mix.

| Run | Properties | Shows |
|---|---|---|
| `sp` | `NoContradiction`, `RaisedNeverContradicted`, `NeverRefusedWithoutRestore` | three deployments of one directory: all kinds of messages with restored backups, late rename errors and floors; votes around a foreign signature, booted with and without anchor; votes over four epochs |
| `sp_covered_source` | `SightedNeverContradicted` (violated) | finding 1 |
| `fin` | `UniqueQuorum`, `SetFollowsFinality`, `LeakyThirdBacksQuorum`, `LeakyFullParticipationFinalizes`, `OwnFinalityAdvances` | a chain that crosses both gates with double and foreign votes, a changing roster, pruning and a recovery epoch; and one that leaks through every pattern of absence over eleven epochs |
| `agreement` | `Agreement`, `NetAgreement`, `HistoryImplementsFFG` | the abstract protocol; a split with lost votes and pruning after one epoch, no voter on both sides; and a split with one of four voting on both sides, which refines the protocol |
| `net_pruned` | `Agreement` (violated) | finding 2 |
| `committee` | `FoldExact`, `HeadMatchesReference`, `SharesExact`, `EquivocationCaptured`, `NoWaiterStranded`, `BackedByIssuance`, `ChurnBounded`, `LateBlockNeverDisplaces`, `RosterFrozen`, `LockedAfterDuty`, `PunishedOnce` | the gossip pool, the committed votes, the fork choice, and the registry without and with issuance |
| `held_release` | `HeldTurnProgresses` (violated) | finding 3 |
| `engine` | `QueuesExact`, `LatchHeld`, `CanonicalStored`, `HeadExact`, `Converges`, `IndexesFollowChain` | one node over many trees of seven blocks, arrival orders, votes, refusals, roots of another branch, an override and restarts |
| `engine_restart` | `LatchNeverLowers` (violated) | finding 4 |
| `engine_stuck` | `OrphansNotJudgeable` (violated) | finding 5 |
| `node` | `AckedSurvives`, `ServedExactly`, `RecoveredIsLogged`, `RewriteLands`; `AuthorityFixed`, `KeysAtHand`, `SignedLeafDurable`, `RetiredShredded`, `HandoverAdopted` | the block log, and the key files of a validator, under crashes and power losses |
| `sync` | `WindowExact`, `CatchesUp` | a node two blocks behind, with up to one peer that serves |

Deadlock is not checked: each model stops by its bounds (the last epoch or slot, a
spent tally of crashes, a retired key).

### Bounds

- *Signing record.* The first deployment has two slots, two roots and two commitments
  of one generation: double proposals and votes, a second intent of an epoch and a
  second commitment of a generation. A change of generation within an epoch is left to
  the theorem. The second has three epochs of one slot and one foreign signature. A
  surround vote takes four epochs, which only the third deployment has, without foreign
  signatures and with one root: without the source test of `guard_attestation` the run
  finds one there. Surrounding of or by a *foreign* vote is left to the theorem, and so
  is a foreign signature in a directory that is restored: `RaisedNeverContradicted` is
  run in a directory that never is. One directory with one backup covers what two do,
  since a second one is an older record that gets opened; the theorem covers any number.
- *Finality.* Three validators of unequal stake, so that no majority is implied by
  a count. Six epochs put every gate, a handoff and a pruning before the end; eleven
  let a leak run to its floor and recover: `MaxStake + 2` full epochs fit in after it.
- *Partition.* Two branches; a conflict needs two adjacent justified epochs on each,
  within the epochs after the fork that the instances have (1 to 3, 3 to 5). The split
  of `NetAgreement` has three validators of equal stake, of which any quorum is two; the
  pruned quorums of finding 2, which need unequal stakes, do not arise in it.
- *Fork choice.* Four blocks allow two levels of siblings, a removed inner block and
  two disagreeing tie-breaks. `LateBlockNeverDisplaces` is stated with the FC-05 gate
  armed; on this network it is inert.
- *Committed votes.* Three slots an epoch, two votes a block: a conflicting pair with
  a later vote between its halves, and a block after it.
- *Gossip pool.* Three votes of one duty and one without a seat, two blocks, and
  limits of two, with one for a source or the free share of a root: each limit but
  the one on root sets is hit.
- *Registry.* One genesis validator and two applicants, churn of one, delays of one
  and two epochs, four epochs (three with issuance): a validator can enter, be
  slashed before or after its exit, leave and be paid. One action stands for both forms
  of evidence, since past its checks they have the same effect; delegators are left out,
  so `BackedByIssuance` says nothing of their shares.
- *Engine.* Seven blocks: a logged trunk of three, two that extend it and finalize
  its second block, and two rivals that fork at every depth; one world in which a branch
  justifies and finalizes a root of the other. Queues of two. `Converges` is restricted
  to worlds whose branches agree on the stakes (`SameStakes`) and justify roots of their
  own (`OwnRoots`); see the remarks in section 4.
- *Block log.* Three slots, two reorganisations, crashes or power losses in all, any
  number of orderly stops and of failed index writes, pages of two.
- *KES.* Three trees of two leaves, periods of one epoch, seven epochs, one fault (crash,
  power loss or failed operation), two duties. `AuthorityFixed` excepts a validator that
  is on the static fallback and registers after KES has bound. `RetiredShredded` is
  stated while the key in memory is of the tree in `validator.kes`. After a fault
  `HandoverAdopted` asks only that `validator.kes` is the successor: a swap that fails
  after its renames is not tried again before a restart. All of them excuse a start from
  a directory that was never synced (`exposed`): a kill before the sync, a restart and a
  loss of power in a row are not caught.
- *Sync.* Two blocks, two peers, a window of one with one waiting, one disconnect or
  failed request (of the serving peer too). With a fanout of one a timer turn asks only
  the exploring peer, the place `sync_targets` keeps for a peer out of rank; the ranked
  places are not exercised.

Symmetry is used where elements are only compared (branches, honest validators of
one stake, heads, applicants, contents), and only in runs without liveness.

### Fairness

Only `RewriteLands`, `HandoverAdopted` and `CatchesUp` need it.

- *Block log.* Weak fairness of the writer thread's step, of a reader that holds the
  lock and of the engine's step (it polls every turn, and the node is restarted);
  strong fairness of taking the lock: it is taken that the `RwLock` of the standard
  library does not starve a waiting writer while readers come and go, which its
  documentation leaves to the platform.
- *KES.* Weak fairness of a running job and of a restart; strong fairness of the
  maintenance turn, which the engine calls in every slot, and of the closing of
  epochs.
- *Sync.* Weak fairness of the timer, of the engine's draining of its queue, of the
  end of every request (the transport answers or times out) and of redialling.

`LeakyFullParticipationFinalizes` and `Converges` state progress as bounds, which
needs no fairness.

Each property has a mutant: a definition changed as a plausible bug would change it
(a dropped guard, a missing reset, a swapped order), under which the run finds the
property violated. They stand directly before the definitions they change.

## 4. Findings

1. `sp_covered_source`: `is_uncovered` (`node/slashprot.rs:607`) looks at slot and
   target of a seen vote and not at its source. A vote with lower target and higher
   source counts as covered, the record is not raised, and a later duty may surround
   it. The documentation of `note_own_signature` says no later duty can conflict.
   It takes a duty that spent its mark without releasing a signature, and a second
   signer of the same key.
2. `net_pruned`: a branch that finalizes a checkpoint from *before* the split by
   votes from *after* it hands off to a set without the members it did not see. The
   two-thirds of that set need not meet the quorum of the other branch in a third of
   the original stake: in the run one ninth votes twice and both branches finalize.
   `committee/finality_hf1_review_tests.rs` and the module documentation of
   `finality.rs` argue that at least a third is accountable.
3. `held_release`: votes that wait for a block which `advance` drops in the ingest
   that stored it are scheduled all the same (`node/engine.rs:3899`), and rotate in
   the queue until they are too old.
4. `engine_restart`: the latch is the highest finalized checkpoint the node ever
   adopted; after a reorganisation to a branch that finalizes less, the log no
   longer shows it and a restart comes up with a lower one.
5. `engine_stuck`: a block that waits because its proposer is unknown is not
   released when a reorganisation, rather than its parent or a deposit-carrying
   block, makes the proposer known.

`PROJECT.json` quotes the lines each of them disagrees with. Remarks met on the way
that no run is kept for:

- With `RenameErrors`, an anchor rename that succeeds and reports an error leaves
  the anchor ahead of memory; if a crash then follows the next data-directory write,
  the boot takes the directory for a restored one and asks for
  `--accept-signing-rollback`. Safety is not affected (`sp` has the case).
- The comment in `process_epoch` that `total_active` is at most `unleaked_total` does
  not hold under the frozen set, whose members' stakes are those of an earlier epoch;
  nothing depends on it but an overflow bound that has room to spare.
- A validator that exits and is slashed in the same epoch gets a new exit epoch
  (`committee/transition.rs:5229`), so the count of voluntary exits of an epoch is
  not "exactly the records" the comment at `4095` describes; that comment also has
  slashing set the exit to the current epoch, the code to the next.
- The rotation of sync peers is an index modulo the peers *without* a request, so
  with a changing number of busy peers it need not give every peer its turn
  (`node/p2p.rs:1779`).
- A signing record raised by too high an operator floor silences the key without a
  message (`node/slashprot.rs:273`); no property states it.
- The file `validator.kes.tmp` that a crash leaves behind (`node/kes_key.rs:12`) is
  not among the files of `SignedLeafDurable`. With two faults (a failed directory
  sync, then a power loss between filling and renaming the file) and a wall clock
  that stepped back between the duties, it can hold an earlier leaf than one signed
  with. Nothing loads it.
- A rescue compares its new tree with the key in force, the successor and the
  history (`committee/transition.rs:4308`), not with the key an unsettled successor
  has just replaced: that tree, which the comment calls a fresh one, can be
  registered again.
- A duty ahead of the head adopts the successor early (`node/engine.rs:2536`); in the
  model too.
- Where a branch justifies a root of another branch, the head is computed from a block
  off the chain. The model then finds two things that the comments exclude ("Nothing
  removed here is on either walk", `node/engine.rs:4041`; "Bounded: every iteration",
  `4316`): pruning can remove the block the walk starts from, and the loop can go to
  and fro until its bound. `HeadExact` (its part on pruning) and `Converges` are
  therefore stated for worlds with `OwnRoots`, which the own-chain gate secures for
  every epoch after it.


## 5. Proofs

Each theorem holds for every value of the constants the named assumptions allow;
TLC evaluates those assumptions in the runs. The inductive invariants were checked
by TLC on the runs' instances before they were proved.

### StoreProofs: the signing record

From `SlotsAssumption`, `RandaoAssumption` and `DeploymentAssumption`: slots are
naturals, epochs are not empty, generation 0 and the absent commitment are no real
ones, and no rollback without anchor.

- `TypeCorrect`, `NoContradictionHolds`, `RaisedHolds`: for any number of
  directories, slots, roots, generations and commitments.
- `SafeSignerImplemented`: `SlashProt` implements `SafeSigner`. Since `signed` grows by
  one message a step this is `NoContradictionHolds` in the form of a specification, for
  a reader who wants the promise without the record; no run repeats it.

`NoContradiction` is not inductive: it says nothing of what the disk remembers. The
strengthening says that a record *covers* a message when no guard that passes on the
record admits a conflicting one, and that every promised message (released, or
raised to) is covered by the anchor, or by every directory when there may be none;
by memory as soon as the boot has attached; and by a write in progress. The lemmas
show that merging preserves cover (when intents do not conflict), that a raised
record covers the new message and all old ones, and that a guard that passes on a
covering record excludes conflict. Each action is then one step.

### StakeSums

The models sum stakes with the folds of the community modules, in the order of a
`CHOOSE`. The lemmas show that the order does not matter, that a sum splits over
disjoint sets, and that it grows with its set and its amounts. Induction is stated
over a *set of good sets* (`SubsetInduction`) instead of over a predicate, which the
provers can apply.

### FinalityChainProofs

From `FinalityConstants` and `ChainConstants`: quotients are positive, stakes are
naturals, the two roots differ.

- `QuorumIsUnique`: no two roots reach the quorum in an epoch. A validator whose
  votes name two roots is discarded, so the backers of two winners are disjoint, and
  their weights add up to no more than the denominator.
- `ThirdAlwaysNeeded`: with the floor of one half that the code sets, the backers of
  a winner hold a third of the unleaked stake, however much has leaked. The run
  checks the form that belongs to its leaking scenario (`LeakyThirdBacksQuorum`).
- `SetVouchedFor`, `OnlyOwnFinalized`: `SetFollowsFinality` and
  `OwnFinalityAdvances`.

`SetFollowsFinality` looks one finalization back; what makes it inductive
(`ChainInv`) is that a set is in force exactly from the gate on and its candidate is
always the snapshot of the epoch just closed, so the checkpoint the next epoch may
finalize is the one the candidate was taken at. The stages of `ProcessEpoch` have a
lemma each.

### FFGProofs

For `FFG`, from the assumptions that any two quorums share an honest validator and
that branches which part do not meet again:

- `Invariance`: links are backed by quorums of votes, honest votes do not conflict,
  a finalized epoch is linked to the next one.
- `AgreementHolds`: finalized checkpoints of any two branches lie on one history. If
  not, the first link of the other branch that reaches past the finalized epoch is
  either at the same target or surrounds the finalizing link, and the shared honest
  voter would have conflicting votes.

For `FinalityHistory`, the code's finality gadget on every branch with its leak and
its frozen set, from `HistoryAssumption` (the history begins past both gates where
the branches part, and nobody is pruned):

- `HistoryInStep`: the inductive invariant. Each branch's state is the one its links
  and finalized epochs determine, the ballots of the epoch are among the votes, and
  every vote lies below the marks of its voter's signing record.
- `NetworkImplementsFFG`: every step of the network is a step of `FFG` or none. A
  branch that closes an epoch with a quorum makes one link; that its backers are a
  quorum of `FFG` rests on how `HistoryAssumption` weighs quorums and on the frozen
  set being whole: the leak never enters its weights.
- `HistoryAgrees`, `BranchesAgree`: agreement of all that was ever finalized, and of
  what the branches hold at one moment.

Finding 2 is why the assumption on pruning is there.

### EngineProofs

From `WorldsConsistent`, what the transition guarantees of the checkpoints in a
block's post-state.

- `ChainIsStored`: the canonical chain is linked and every block of it is stored,
  through reorganisations that fail half-way, pruning and restarts.
- `LatchIsHeld`: without the operator's override the latched block stays on the
  canonical chain at its height.
- `EngineInvariance`: `EngineInv` adds what they rest on: the log replays, the way
  chosen by a pending `advance` leads through stored blocks from a block of the
  chain, and what remains to be applied links up with the head. Without it a
  candidate chosen before a change of the chain could leave a gap.

### StoreProofs: the block log

From `LogConstants` (positive limits).

- `LogAlwaysChain`: what a restart would read is the engine's chain, at every moment.
- `DurableAlways`: `AckedSurvives`. What was last reported durable, or the chain
  decided since, is what a crash or a power loss leaves.
- `OpensAlways`: the repair never meets a torn frame it refuses to cut.
- `RecoveryExact`: `RecoveredIsLogged`, with or without a state cache.

`LogInv` gives, for each phase of the writer, which logs a power loss may leave and
where the index may point, and keeps every cached state that of the blocks it was
written beside. What makes durability inductive across a crash between the rename and
the sync is `Unseen`: a log whose name is not durable ends on a branch younger than any
cache (`LastBranch`), so the boot cannot restore it whole from a cache, writes one, and
with it syncs the directory.

### StakingProofs

From `StakingAssumption`, whose `ExitDelay` of at least two is the constant
assertion of `staking.rs`. Registry, delays, limits, fees and amounts are free.

- `RosterIsFrozen`: no transaction changes who is on duty in the running epoch.
- `BondLockedAfterDuty`: a bond is paid only when the margin has passed since the
  last epoch served. `ClockInv` relates the clocks of a record: exit and lock are
  set together, and the lock outlasts by the margin both the last epoch served and
  the last that may still be served, whether exit or slash came first.
- `SlashedOnce`: `PunishedOnce`. `PunishInv` says that a slashed validator is among
  the ejected, so a second report of either form is refused, and that it leaves with
  the running epoch at the latest.
- `ChurnIsBounded`: `ChurnBounded`. `ChurnInv` counts the records per epoch of start
  and of exit, and says that no start lies ahead of the clock: the boundary is alone
  in deciding who starts.
- `EverythingBacked`: `BackedByIssuance`. What may be spent now or paid out some day
  never exceeds what was issued (`Backed`). The steps that are not plain transfers are
  the slash, where the part of the bond that could have been withdrawn loses at least
  what the reporter gains, even for a genesis bond whose principal was never issued;
  the withdrawal, which pays the backed part of a bond; and the boundary, whose
  bonuses add up to what it issues. `AmountInv` types the amounts, and the sums over
  the registry are those of `StakeSums`.

### KesProofs, KesNodeProofs

From `KesConstants` and `KesNodeConstants` (positive lengths; the tree of the first
key is a tree).

*The ledger.* `RetiredAlwaysDisjoint`: the keys of an entry never claim a period
twice. `EvidenceProvable`: no step changes the key that a signature of a past epoch
within the kept history is verified against; a first registration, which binds only
later, is the exception the property states. `LedgerInv` orders the keys of an entry
by their periods.

*The node.* `NodeImplementsLedger`: the validator with its files, crashes and failed
operations makes steps of the ledger only, so `NodeEvidenceProvable` holds of it.
With any number of faults and duties:

- `KeysAlwaysAtHand`: whatever instant a crash or a power loss picks, the files load
  and hold the keys the chain holds the validator to.
- `SignedLeavesDurable`: no file that start-up reads (`validator.kes`, its successor
  and the retired one) can return to a leaf before one that has signed.
- `ReplacedKeyShredded`: while the node signs with the tree in `validator.kes`, the
  key it replaced is gone, and what a power loss may bring back of it holds zeros.

`NodeInv` is the invariant behind the three. `Chain` says what the chain holds and
what the pool may add to it. `Disk` says of *every* directory a power loss may leave
that it loads to a key and a successor fitting the chain (`Loadable`), that no leaf
in use is later than a file's (`Top`), and that the tree in `validator.kes` is found
in each of them. `Mode` lists, per job, the file operations still to come and what
is on disk before each; it is what a swap needs, since between its two renames
there is no current file and the successor must be in every directory (`Heir`).
Two facts are less obvious. A successor equals the chain's newest key only when
the chain will not ask the present key for a later leaf (`Superseded`), which is why
a swap cannot strand an evolution. And a directory names only trees already sealed,
except for the successor being sealed (`Old`), which is why a lost seal cannot be
mistaken for a registered key.

All of it, in the properties as in the proofs, is under the condition that no
start-up used a directory that was never synced (`exposed`). `SignedLeafDurable`
speaks of the files start-up reads: see the remark in section 4 on temporary ones.

### Only model-checked

- *Liveness*: `RewriteLands`, `HandoverAdopted`, `CatchesUp`. Fairness is out of the
  prover's reach.
- *Folds and recursive definitions over data*: `FoldExact`, `HeadMatchesReference`,
  `LateBlockNeverDisplaces`, `HeadExact`, `Converges`. What these compute is found by
  induction on sequences or trees, each an induction of its own. `StakeSums` shows
  the way for sums; it was not taken for them.
- *Bounded progress*: `LeakyFullParticipationFinalizes`, a statement about a run of
  several epochs of integer division.
- *Instances with pruning*: `NetAgreement`. It is true of the sets the instance
  reaches; in general it needs the assumption of `NetworkImplementsFFG`.
- *Not attempted*: `NeverRefusedWithoutRestore`, `ServedExactly`, `QueuesExact`,
  `IndexesFollowChain`, `SharesExact`, `EquivocationCaptured`, `NoWaiterStranded`,
  `WindowExact`.

## 6. Not modelled

- *Pure data*: codecs, headers, the state root, outputs and scripts of the ledger,
  genesis, finality certificates; cryptography and proof of work. One sequential
  function each, reached by tests.
- *Hash-driven*: the proposer schedule, the committee partition (its contract is
  used) and the RANDAO beacon (its intents pass through the signing record).
- *Arithmetic without interleaving*: base-fee control, the emission curve, the
  supply cap, delegation shares and stake caps.
- *Decided once at boot*: weak subjectivity.
- *No safety of the chain rests on it*: mempool, byte and signature budgets, slot
  timing and the `DutySyncGate`, the equivocation watch, RPC, metrics.
- *Behind gates at `u64::MAX`*: L2 settlement, the native exchange, and the gated
  variants of staking named in section 2.
- *Other programs*: the seat committee of `bloch-ffg` (superseded), `coherence-*`,
  `bloch-ustav`, the wallets.
- *Of the network*: gossip, dialling, the serving side, the transport (libp2p).

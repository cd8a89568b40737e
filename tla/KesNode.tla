------------------------------ MODULE KesNode ------------------------------
(***************************************************************************)
(* A validator node's KES key: the files validator.kes, validator.kes.next *)
(* and validator.kes.retired, their evolution and rotation, and the chain  *)
(* of KesLedger the node follows.                                          *)
(*                                                                         *)
(* The engine thread runs one job at a time (a duty, a maintenance turn, a *)
(* start-up); a job writes files through a list of file operations (todo), *)
(* and a crash can fall between any two of them.  dirs is the set of       *)
(* directories a power loss can leave: the last one synced and every one   *)
(* reached since.  The chain moves only between two jobs.                  *)
(*                                                                         *)
(* A file is a tree and the leaf it has evolved to.  Not modelled: a head  *)
(* that leaves the branch which committed a rotation, and an operator's    *)
(* BLOCH_KES_ALLOW_PERIOD_JUMP.                                            *)
(***************************************************************************)
EXTENDS KesLedger, Sequences

CONSTANTS
    Horizon,        \* KES_ROTATE_REMAINING_PERIODS and the index's stagger
    MaxKesCrashes,  \* bound on crashes, power losses and failed file operations
    MaxDuties       \* bound on the duties of a behaviour

ASSUME KesNodeConstants ==
    /\ 1 \in Trees
    /\ Horizon \in Nat /\ MaxKesCrashes \in Nat /\ MaxDuties \in Nat

VARIABLES
    running,        \* is the node running
    dir,            \* the key files, by name
    dirs,           \* the directories a power loss can leave
    key, next,      \* KesSigner::key and ::next
    keygen,         \* KesSigner::keygen: 0 for none, -1 running, or the tree made
    submitted,      \* KesSigner::rotation_submitted
    job, todo,      \* what the engine thread is doing, and its file operations
    pool,           \* the pending KesRotate transaction
    signed,         \* the leaves consensus messages were signed with
    exposed,        \* has a start-up used a directory that was never synced
    made,           \* the trees generated so far are 1..made
    kesCrashes, duties

keyFiles == <<dir, dirs>>
signerVars == <<key, next, keygen, submitted>>
tallies == <<exposed, made, kesCrashes, duties>>
nodeVars == <<running, keyFiles, signerVars, job, todo, pool, signed, tallies>>
kesVars == <<ledgerVars, nodeVars>>

NoFile == [tree |-> 0, leaf |-> 0]
Unreadable == [tree |-> 0, leaf |-> 1]      \* truncated or overwritten with zeros
Names == {"kes", "next", "retired", "kesTmp", "nextTmp"}
NoPeriod == -1
NoTx == [period |-> NoPeriod, tree |-> 0, by |-> 0, leaf |-> 0]
Idle == [for |-> "idle", step |-> "idle", epoch |-> 0]
NoSigner == key = NoFile

(***************************************************************************)
(* The file operations.                                                    *)
(***************************************************************************)
Create(n) == [op |-> "write", name |-> n, file |-> Unreadable]
Fill(n, f) == [op |-> "write", name |-> n, file |-> f]
RenameTo(a, b) == [op |-> "rename", name |-> a, to |-> b]
SyncKesDir == [op |-> "sync"]
Zero(n) == [op |-> "zero", name |-> n]
RemoveFile(n) == [op |-> "write", name |-> n, file |-> NoFile]

TmpOf(n) == IF n = "kes" THEN "kesTmp" ELSE "nextTmp"

\* save_named without the directory sync.
SaveUnsynced(n, f) ==
    <<Create(TmpOf(n)), Fill(TmpOf(n), f), RenameTo(TmpOf(n), n)>>

SaveNamed(n, f) ==
    <<Create(TmpOf(n)), Fill(TmpOf(n), f), RenameTo(TmpOf(n), n), SyncKesDir>>

Shred(d) ==
    IF d["retired"] = NoFile THEN <<>>
    ELSE <<Zero("retired"), RemoveFile("retired"), SyncKesDir>>

Renamed(d, a, b) == [d EXCEPT ![b] = d[a], ![a] = NoFile]

\* The directory once validator.kes, if there is one, has made way.
Cleared(d) == IF d["kes"] = NoFile THEN d ELSE Renamed(d, "kes", "retired")

Swap(d) ==
    (IF d["kes"] = NoFile THEN <<>> ELSE <<RenameTo("kes", "retired")>>)
        \o <<RenameTo("next", "kes")>>

PromoteNext(d) == Swap(d) \o <<SyncKesDir>> \o Shred(Cleared(d))

Interrupted(d) == d["kes"] = NoFile /\ d["next"] # NoFile /\ d["retired"] # NoFile

\* Start-up completes the swap and leaves validator.kes.retired.
FinishUnshredded(d) ==
    IF Interrupted(d) THEN <<RenameTo("next", "kes"), SyncKesDir>> ELSE <<>>

FinishInterruptedRotation(d) ==
    (IF Interrupted(d) THEN <<RenameTo("next", "kes"), SyncKesDir>> ELSE <<>>) \o Shred(d)

FileStep ==
    /\ todo # <<>>
    /\ LET step == Head(todo)
           zeroed(d) == [n \in Names |-> IF d[n] = dir[step.name] THEN Unreadable ELSE d[n]]
       IN  \/ /\ step.op = "write"
              /\ dir' = [dir EXCEPT ![step.name] = step.file]
              /\ dirs' = dirs \cup {dir'}
           \/ /\ step.op = "rename"
              /\ dir' = Renamed(dir, step.name, step.to)
              /\ dirs' = dirs \cup {dir'}
           \/ /\ step.op = "zero"
              /\ dir' = zeroed(dir)
              /\ dirs' = {zeroed(d) : d \in dirs}
           \/ /\ step.op = "sync"
              /\ dirs' = {dir}
              /\ UNCHANGED dir
    /\ todo' = Tail(todo)
    /\ UNCHANGED <<ledgerVars, running, signerVars, job, pool, signed, tallies>>

\* A file operation returns an error.  A start-up gives up; a turn whose
\* keygen could not be sealed goes on; every other job ends.
FileFails ==
    /\ todo # <<>> /\ kesCrashes < MaxKesCrashes
    /\ kesCrashes' = kesCrashes + 1
    /\ todo' = <<>>
    /\ running' = (job.for # "boot")
    /\ IF job.step = "seal"
       THEN job' = [job EXCEPT !.step = "poll"] /\ keygen' = 0
       ELSE job' = Idle /\ UNCHANGED keygen
    /\ UNCHANGED <<ledgerVars, keyFiles, key, next, submitted, pool, signed, exposed, made, duties>>

(***************************************************************************)
(* prepare_kes: the key made ready for epoch e.  Each file write is        *)
(* finished before the step that follows it in memory.                     *)
(***************************************************************************)
At(for, step) == running /\ todo = <<>> /\ job.for = for /\ job.step = step

Wanted == InForce(entry, Period(job.epoch))

AdoptsSuccessor(k) == key.tree # k.tree /\ next # NoFile /\ next.tree = k.tree

UsesKes(e) == enforcedFrom # NoEpoch /\ e >= enforcedFrom /\ Registered

EvolutionAllowed(keyPeriod, headPeriod, target) ==
    target <= (IF keyPeriod > headPeriod THEN keyPeriod ELSE headPeriod) + 1

Leaf == Period(job.epoch) - Wanted.start

PrepareRefuses ==
    \/ ~UsesKes(job.epoch) \/ NoSigner
    \/ key.tree # Wanted.tree
    \/ ~Signs(Wanted, Period(job.epoch))
    \/ Leaf < key.leaf
    \/ /\ Leaf > key.leaf
       /\ ~EvolutionAllowed(Wanted.start + key.leaf, Period(epoch), Period(job.epoch))

Preparing == At("duty", "prepare") \/ At("rotate", "prepare")

\* promote_next fails at once without a successor's file.
Promote ==
    /\ IF dir["next"] = NoFile
       THEN job' = Idle /\ UNCHANGED todo
       ELSE job' = [job EXCEPT !.step = "adopt"] /\ todo' = PromoteNext(dir)
    /\ UNCHANGED <<ledgerVars, running, keyFiles, signerVars, pool, signed, tallies>>

Adopting == UsesKes(job.epoch) /\ ~NoSigner /\ AdoptsSuccessor(Wanted)

PrepareAdopts == Preparing /\ Adopting /\ Promote

\* The file operations of promote_next are done: the successor signs.
Adopted ==
    /\ \E for \in {"duty", "rotate", "turn"} : At(for, "adopt")
    /\ key' = next /\ next' = NoFile /\ submitted' = NoPeriod
    /\ job' = [job EXCEPT !.step = IF job.for = "turn" THEN "decide" ELSE "prepare"]
    /\ UNCHANGED <<ledgerVars, running, keyFiles, keygen, todo, pool, signed, tallies>>

PrepareRefused ==
    /\ Preparing /\ ~Adopting /\ PrepareRefuses
    /\ job' = Idle
    /\ UNCHANGED <<ledgerVars, running, keyFiles, signerVars, todo, pool, signed, tallies>>

Evolved == [key EXCEPT !.leaf = Leaf]

Ready == Preparing /\ ~Adopting /\ ~PrepareRefuses

\* The evolved key is signed with before it is on disk.
EvolveInMemory ==
    /\ Ready /\ Leaf > key.leaf
    /\ key' = Evolved
    /\ UNCHANGED <<ledgerVars, running, keyFiles, next, keygen, submitted, job, todo, pool, signed, tallies>>

EvolveTo ==
    /\ Ready /\ Leaf > key.leaf
    /\ todo' = SaveNamed("kes", Evolved)
    /\ job' = [job EXCEPT !.step = "evolve"]
    /\ UNCHANGED <<ledgerVars, running, keyFiles, signerVars, pool, signed, tallies>>

EvolveDone ==
    /\ At("duty", "evolve") \/ At("rotate", "evolve")
    /\ key' = Evolved
    /\ job' = [job EXCEPT !.step = "prepare"]
    /\ UNCHANGED <<ledgerVars, running, keyFiles, next, keygen, submitted, todo, pool, signed, tallies>>

(***************************************************************************)
(* attest and propose: a duty of an epoch the wall clock shows, at or past *)
(* the head's.                                                             *)
(***************************************************************************)
Duty(e) ==
    /\ running /\ todo = <<>> /\ job = Idle
    /\ duties < MaxDuties
    /\ e >= epoch
    /\ UsesKes(e)
    /\ duties' = duties + 1
    /\ job' = [for |-> "duty", step |-> "prepare", epoch |-> e]
    /\ UNCHANGED <<ledgerVars, running, keyFiles, signerVars, todo, pool, signed, exposed, made, kesCrashes>>

SignDuty ==
    /\ At("duty", "prepare") /\ Ready /\ Leaf = key.leaf
    /\ signed' = signed \cup {key}
    /\ job' = Idle
    /\ UNCHANGED <<ledgerVars, running, keyFiles, signerVars, todo, pool, tallies>>

-----------------------------------------------------------------------------
(***************************************************************************)
(* maintain_kes: collect a finished keygen, adopt the successor in force,  *)
(* then one step of the rotation policy.  Runs when the head is in the     *)
(* wall clock's epoch.                                                     *)
(***************************************************************************)
Turn ==
    /\ running /\ todo = <<>> /\ job = Idle
    /\ ~NoSigner /\ Registered
    /\ IF keygen > 0
       THEN /\ todo' = SaveNamed("next", [tree |-> keygen, leaf |-> 0])
            /\ job' = [for |-> "turn", step |-> "seal", epoch |-> epoch]
       ELSE /\ job' = [for |-> "turn", step |-> "poll", epoch |-> epoch]
            /\ UNCHANGED todo
    /\ UNCHANGED <<ledgerVars, running, keyFiles, signerVars, pool, signed, tallies>>

Sealed ==
    /\ At("turn", "seal")
    /\ next' = [tree |-> keygen, leaf |-> 0]
    /\ keygen' = 0
    /\ job' = [job EXCEPT !.step = "poll"]
    /\ UNCHANGED <<ledgerVars, running, keyFiles, key, submitted, todo, pool, signed, tallies>>

TurnAdopts == At("turn", "poll") /\ AdoptsSuccessor(Wanted) /\ Promote

TurnKeeps ==
    /\ At("turn", "poll")
    /\ ~AdoptsSuccessor(Wanted)
    /\ job' = [job EXCEPT !.step = "decide"]
    /\ UNCHANGED <<ledgerVars, running, keyFiles, signerVars, todo, pool, signed, tallies>>

CanRotate ==
    /\ ~PendingAt(entry, Period(job.epoch))
    /\ key.tree = Wanted.tree /\ Signs(Wanted, Period(job.epoch))

UsableNext == next # NoFile /\ next.tree # Wanted.tree

Remaining == EndPeriod(Wanted) -
    (IF Period(job.epoch) > Wanted.start THEN Period(job.epoch) ELSE Wanted.start)

Submits == CanRotate /\ UsableNext /\ submitted # Period(job.epoch)
Generates == CanRotate /\ ~UsableNext /\ keygen = 0 /\ Remaining <= Horizon

\* KesRotationStep: Submit and Generate; the other steps change nothing.
Decide ==
    /\ At("turn", "decide")
    /\ IF Submits
       THEN /\ job' = [for |-> "rotate", step |-> "prepare", epoch |-> job.epoch]
            /\ UNCHANGED keygen
       ELSE /\ job' = Idle
            /\ keygen' = IF Generates THEN -1 ELSE keygen
    /\ UNCHANGED <<ledgerVars, running, keyFiles, key, next, submitted, todo, pool, signed, tallies>>

(***************************************************************************)
(* submit_kes_rotation: at the mempool's door a rotation is refused while  *)
(* another of this validator is pending, or by the consensus rule.         *)
(***************************************************************************)
SubmitRotation ==
    LET p == Period(job.epoch)
    IN  /\ At("rotate", "prepare")
        /\ Ready /\ Leaf = key.leaf
        /\ IF pool # NoTx \/ RotateRefuses(next.tree, p)
           THEN UNCHANGED <<pool, submitted>>
           ELSE /\ pool' = [period |-> p, tree |-> next.tree, by |-> key.tree, leaf |-> key.leaf]
                /\ submitted' = p
        /\ job' = Idle
        /\ UNCHANGED <<ledgerVars, running, keyFiles, key, next, keygen, todo, signed, tallies>>

\* The background thread.
KeygenDone ==
    /\ keygen = -1
    /\ made + 1 \in Trees
    /\ made' = made + 1 /\ keygen' = made + 1
    /\ UNCHANGED <<ledgerVars, running, keyFiles, key, next, submitted, job, todo, pool, signed,
                   exposed, kesCrashes, duties>>

KeygenFails ==
    /\ keygen = -1
    /\ keygen' = 0
    /\ UNCHANGED <<ledgerVars, running, keyFiles, key, next, submitted, job, todo, pool, signed, tallies>>

-----------------------------------------------------------------------------
(***************************************************************************)
(* The chain, as the node sees it between two jobs.  A pending rotation    *)
(* signed for a period the head has left is evicted.                       *)
(***************************************************************************)
ChainCloses(covered) ==
    /\ running => job = Idle
    /\ CloseEpoch(covered)
    /\ pool' = IF pool.period = Period(epoch') THEN pool ELSE NoTx
    /\ UNCHANGED <<running, keyFiles, signerVars, job, todo, signed, tallies>>

\* The operator registers the tree in validator.kes, at first or as a rescue.
ChainRegisters ==
    /\ running => job = Idle
    /\ dir["kes"] \notin {NoFile, Unreadable}
    /\ KesRegister(dir["kes"].tree)
    /\ UNCHANGED nodeVars

\* The key expired without a successor: the operator stops the node, takes the
\* file away and runs keygen.
OperatorKeygen ==
    /\ ~running /\ RescueOpen
    /\ dir["kes"].tree = InForce(entry, Period(epoch)).tree
    /\ made + 1 \in Trees
    /\ made' = made + 1
    /\ dir' = [dir EXCEPT !["kes"] = [tree |-> made + 1, leaf |-> 0]]
    /\ dirs' = {dir'}
    /\ UNCHANGED <<ledgerVars, running, signerVars, job, todo, pool, signed, exposed,
                   kesCrashes, duties>>

ChainRotates ==
    /\ running => job = Idle
    /\ pool # NoTx
    /\ LET inForce == InForce(entry, pool.period)
       IN  pool.by = inForce.tree /\ pool.leaf = pool.period - inForce.start
    /\ KesRotate(pool.tree, pool.period)
    /\ pool' = NoTx
    /\ UNCHANGED <<running, keyFiles, signerVars, job, todo, signed, tallies>>

-----------------------------------------------------------------------------
KesDie ==
    /\ running /\ kesCrashes < MaxKesCrashes
    /\ kesCrashes' = kesCrashes + 1
    /\ running' = FALSE
    /\ key' = NoFile /\ next' = NoFile /\ keygen' = 0 /\ submitted' = NoPeriod
    /\ job' = Idle /\ todo' = <<>>
    /\ UNCHANGED <<ledgerVars, pool, signed, exposed, made, duties>>

KesCrash == KesDie /\ UNCHANGED keyFiles

KesPowerLoss == KesDie /\ dir' \in dirs /\ dirs' = {dir'}

(***************************************************************************)
(* load_kes_signer: finish an interrupted swap, then load both files.  A   *)
(* validator.kes that cannot be decoded stops the start-up.                *)
(***************************************************************************)
Start ==
    /\ ~running
    /\ running' = TRUE
    /\ todo' = FinishInterruptedRotation(dir)
    /\ job' = [for |-> "boot", step |-> "load", epoch |-> 0]
    /\ exposed' = (exposed \/ dirs # {dir})
    /\ UNCHANGED <<ledgerVars, keyFiles, signerVars, pool, signed, made, kesCrashes, duties>>

\* The successor's file is not looked for.
LoadKeyOnly ==
    /\ At("boot", "load")
    /\ Unreadable # dir["kes"]
    /\ key' = dir["kes"] /\ next' = NoFile
    /\ job' = Idle
    /\ UNCHANGED <<ledgerVars, running, keyFiles, keygen, submitted, todo, pool, signed, tallies>>

Load ==
    /\ At("boot", "load")
    /\ Unreadable \notin {dir["kes"], dir["next"]}
    /\ key' = dir["kes"]
    /\ next' = IF dir["kes"] = NoFile THEN NoFile ELSE dir["next"]
    /\ job' = Idle
    /\ UNCHANGED <<ledgerVars, running, keyFiles, keygen, submitted, todo, pool, signed, tallies>>

KesInit ==
    /\ LedgerInit
    /\ running = FALSE
    /\ dir = [n \in Names |-> IF n = "kes" THEN [tree |-> 1, leaf |-> 0] ELSE NoFile]
    /\ dirs = {dir}
    /\ key = NoFile /\ next = NoFile /\ keygen = 0 /\ submitted = NoPeriod
    /\ job = Idle /\ todo = <<>> /\ pool = NoTx /\ signed = {} /\ exposed = FALSE
    /\ made = 1 /\ kesCrashes = 0 /\ duties = 0

JobStep ==
    \/ FileStep \/ PrepareAdopts \/ Adopted \/ PrepareRefused \/ EvolveTo \/ EvolveDone
    \/ SignDuty \/ Sealed \/ TurnAdopts \/ TurnKeeps \/ Decide \/ SubmitRotation \/ Load

KesNext ==
    \/ JobStep \/ FileFails \/ Turn \/ Start \/ KeygenDone \/ KeygenFails
    \/ \E e \in 0..MaxEpoch : Duty(e)
    \/ \E covered \in BOOLEAN : ChainCloses(covered)
    \/ ChainRegisters \/ ChainRotates \/ OperatorKeygen
    \/ KesCrash \/ KesPowerLoss

\* The engine thread finishes its job; its loop takes a maintenance turn
\* every slot and applies the blocks that close epochs, both between jobs;
\* the node is restarted after a crash.
KesFairness ==
    /\ WF_kesVars(JobStep \/ Start) /\ SF_kesVars(Turn)
    /\ SF_kesVars(\E covered \in BOOLEAN : ChainCloses(covered))

KesSpec == KesInit /\ [][KesNext]_kesVars /\ KesFairness

-----------------------------------------------------------------------------
\* What start-up makes of a directory before it loads the key.
Recovered(d) == IF Interrupted(d) THEN Renamed(d, "next", "kes") ELSE d

\* Each rename of a swap is atomic and a save never writes in place
\* (kes_key.rs, promote_next and save_named): whatever instant a crash or a
\* power loss picks, start-up finds a validator.kes it can load.  This and
\* the next three properties except a power loss after the node was killed
\* between a rename and its directory sync and restarted: start-up does not
\* sync the directory it loads from, or before it shreds.
KeyLoads ==
    ~exposed =>
        \A d \in dirs :
            /\ Recovered(d)["kes"] \notin {NoFile, Unreadable}
            /\ Recovered(d)["next"] # Unreadable

\* A rotation is submitted only for a sealed successor, and the old key is
\* shredded only for a committed one: the newest tree the chain has committed
\* can always be loaded after a power loss, and so can the tree in force at
\* the head, unless a duty of a later period has already swapped it out.
HoldsKeyInForce ==
    Registered /\ ~exposed =>
        LET newest == IF entry.next # NoKey THEN entry.next ELSE entry.current
            inForce == InForce(entry, Period(epoch))
        IN  \A d \in dirs :
                LET r == Recovered(d)
                    held == {r["kes"].tree, r["next"].tree}
                IN  /\ Period(epoch) < EndPeriod(newest) => newest.tree \in held
                    /\ Signs(inForce, Period(epoch)) =>
                           inForce.tree \in held \/ (r["kes"].tree = newest.tree /\ duties > 0)

\* Whatever instant a crash or a power loss picks, the validator can load its key files and
\* finds in them the keys the chain holds it to (save_named, promote_next, maintenance).
KeysAtHand == KeyLoads /\ HoldsKeyInForce

\* "Once that rename lands, no earlier seed exists" (kes_key.rs, evolve_to), for the
\* files start-up reads: after a message is signed with a leaf, none of them, even one
\* a power loss brings back, can sign with an earlier leaf of that tree.  (The
\* temporary file of an interrupted write may hold an earlier one, when the duty it
\* served was of an earlier epoch than one whose directory sync had failed.)
SignedLeafDurable ==
    ~exposed =>
        \A s \in signed, d \in dirs, n \in {"kes", "next", "retired"} :
            d[n].tree = s.tree => d[n].leaf >= s.leaf

\* A replaced key is shredded before the node takes up another job, also
\* when the swap was interrupted by a power loss: while the node signs with the
\* tree in validator.kes, validator.kes.retired is gone, and what a power loss
\* may bring back holds zeros.
RetiredShredded ==
    ~exposed /\ running /\ job = Idle /\ key.tree = dir["kes"].tree =>
        /\ dir["retired"] = NoFile
        /\ \A d \in dirs : d["retired"] \in {NoFile, Unreadable}

\* A committed rotation is taken running: once the chain holds a successor that
\* starts within the behaviour's epochs, the node comes to sign with it.  After
\* a fault it may only come to hold it as validator.kes: a swap that fails after
\* its renames is not repeated before a restart.
HandoverAdopted ==
    \A t \in Trees :
        (entry.next.tree = t /\ entry.next.start <= Period(MaxEpoch))
            ~> (key.tree = t \/ exposed \/ (kesCrashes > 0 /\ dir["kes"].tree = t))
=============================================================================

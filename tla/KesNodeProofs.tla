--------------------------- MODULE KesNodeProofs ---------------------------
(***************************************************************************)
(* The rest of the argument of KesProofs: what a job does with a loaded    *)
(* key, and every file operation of every plan, keep NodeInv; the theorems *)
(* about the key files; and that the node's chain is KesLedger's.          *)
(***************************************************************************)
EXTENDS KesProofs

\* A leaf goes to the SMT solver unless it names another prover.
USE SMTT(60), Z3T(60)

\* The leaf of the newest key does not matter to the chain's demands.
LEMMA AnyLeaf ==
    ASSUME NEW a, NEW k \in KeyFile, NEW n, Loadable(a, n), a.tree = Newest.tree, k.tree = a.tree
    PROVE  Loadable(k, n)
BY DEF Loadable, Superseded

\* Only the newest key is asked for a later leaf (prepare_kes): an earlier one has already
\* signed the rotation, at its last leaf.
LEMMA ReadyKey ==
    ASSUME Chain, Loaded, Rests, job # Idle, Ready, Leaf > key.leaf
    PROVE  /\ key.tree = Newest.tree /\ Plain /\ Leaf \in Nat
           /\ Evolved \in KeyFile /\ Evolved.tree = key.tree /\ Evolved.leaf = Leaf
<1>1. /\ Loadable(key, next) /\ JobOK /\ key \in KeyFile /\ key.leaf \in Nat
  BY FileFacts DEF Loaded, Loadable
<1>2. key.tree = Wanted.tree
  BY DEF Ready, PrepareRefuses
<1>3. Wanted \in Keys /\ Wanted.start \in Nat /\ Period(job.epoch) \in Nat /\ Leaf \in Int
  BY <1>1, WantedKey DEF Keys, Leaf
<1>4. Leaf \in Nat
  BY <1>1, <1>3
<1>5. key.tree = Newest.tree
  <2>1. SUFFICES ASSUME key.tree # Newest.tree PROVE FALSE
    OBVIOUS
  <2>2. /\ Wanted = entry.current /\ entry.next # NoKey /\ Period(job.epoch) < entry.next.start
        /\ Newest = entry.next
    BY <1>1, <1>2, <2>1, WantedKey DEF Newest
  <2>3. /\ entry.next.start \in Nat /\ entry.current.start \in Nat /\ Period(epoch) \in Nat
        /\ Registered /\ entry.next.tree \in Trees /\ Period(epoch) <= Period(job.epoch)
    BY <1>1, <2>2, KeyTypes, WantedKey DEF Keys
  <2>4. Pending /\ Period(epoch) < EndPeriod(Newest)
    BY <1>3, <2>2, <2>3, KesConstants DEF Pending, PendingAt, EndPeriod
  <2>5. next.tree = Newest.tree /\ next # NoFile
    BY <1>1, <2>1, <2>2, <2>3, <2>4, FileFacts, KesConstants DEF Loadable
  <2>6. key.leaf >= entry.next.start - 1 - entry.current.start
    BY <1>1, <1>2, <2>2, <2>4, <2>5 DEF Loadable, Superseded
  <2> QED
    BY <1>1, <1>3, <2>2, <2>3, <2>6 DEF Leaf
<1>6. Plain
  BY <1>1, <1>5 DEF Rests, Heir, Loadable
<1>7. Evolved \in KeyFile /\ Evolved.tree = key.tree /\ Evolved.leaf = Leaf
  BY <1>1, <1>4 DEF KeyFile, Evolved
<1> QED
  BY <1>4, <1>5, <1>6, <1>7

\* prepare_kes evolves the key: first on disk.
LEMMA EvolveToSound ==
    ASSUME Sound, EvolveTo
    PROVE  Sound'
<1>1. /\ Chain /\ Mode /\ running /\ todo = <<>> /\ job.step = "prepare"
      /\ job.for \in {"duty", "rotate"} /\ Ready /\ Leaf > key.leaf
      /\ todo' = SaveNamed("kes", Evolved) /\ job' = [job EXCEPT !.step = "evolve"]
      /\ UNCHANGED <<ledgerVars, running, keyFiles, key, next, keygen, pool, signed, made, duties>>
  BY DEF Sound, EvolveTo, Ready, Preparing, At, signerVars, tallies
<1>2. Loaded /\ Rests /\ job # Idle /\ JobOK
  <2>1. Loaded /\ Rests
    BY <1>1, RestingJob
  <2> QED
    BY <1>1, <2>1 DEF Loaded, Idle
<1>3. /\ key.tree = Newest.tree /\ Plain /\ Leaf \in Nat
  BY <1>1, <1>2, ReadyKey
<1>4. job \in Jobs
  BY <1>2 DEF JobOK
<1>5. /\ job'.step = "evolve" /\ job'.for = job.for /\ job'.epoch = job.epoch /\ job' # Idle
      /\ job' \in Jobs
  BY <1>1, <1>4, NextStep, ZenonT(60)
<1>6. Wanted' = Wanted /\ Leaf' = Leaf /\ Evolved' = Evolved
  BY <1>1, <1>5 DEF Wanted, Leaf, Evolved, ledgerVars
<1>7. JobOK'
  BY <1>1, <1>2, <1>5, <1>6 DEF JobOK, CanRotate, UsableNext, ledgerVars
<1>8. todo' = <<Create("kesTmp"), Fill("kesTmp", Evolved), RenameTo("kesTmp", "kes"), Syncing>>
  BY <1>1 DEF SaveNamed, TmpOf, Syncing
<1>9. Plain' /\ Newest' = Newest
  BY <1>1, <1>3, SamePlace, SameChain DEF ledgerVars
<1>10. Evolves'
  BY <1>1, <1>3, <1>5, <1>6, <1>8, <1>9 DEF Evolves
<1> QED
  BY <1>1, <1>2, <1>7, <1>10, JobKeeps

\* The evolved key is durable: memory takes it.
LEMMA EvolveDoneSound ==
    ASSUME Sound, EvolveDone
    PROVE  Sound'
<1>1. /\ Chain /\ Numbered /\ Tallies /\ Disk /\ Mode
      /\ running /\ todo = <<>> /\ job.step = "evolve" /\ job.for \in {"duty", "rotate"}
      /\ key' = Evolved /\ job' = [job EXCEPT !.step = "prepare"]
      /\ UNCHANGED <<ledgerVars, running, keyFiles, next, keygen, todo, pool, signed, made, duties>>
  BY DEF Sound, EvolveDone, At, tallies
<1>2. /\ Loaded /\ Evolves
  BY <1>1 DEF Mode, Loaded, Boots, Seals, Adopts, Rests, Idle
<1>3. /\ Plain /\ key.tree = Newest.tree /\ Leaf \in Nat /\ Leaf > key.leaf
      /\ dir["kes"] = Evolved /\ dirs = {dir} /\ dir["retired"] = NoFile
  BY <1>1, <1>2 DEF Evolves, Plain
<1>4. /\ Loadable(key, next) /\ key \in KeyFile /\ Top(next) /\ JobOK /\ job # Idle
      /\ next \in KeyFile \cup {NoFile} /\ key.tree # next.tree
  BY <1>1, <1>2, FileFacts DEF Loaded, Loadable, Idle
<1>5. Evolved \in KeyFile /\ Evolved.tree = key.tree /\ Evolved.tree # 0
  <2>1. Evolved \in KeyFile /\ Evolved.tree = key.tree
    BY <1>3, <1>4 DEF KeyFile, Evolved
  <2> QED
    BY <2>1, FileFacts
<1>6. Loadable(Evolved, next)
  BY <1>3, <1>4, <1>5, AnyLeaf
<1>7. /\ Chain' /\ (\A k, n : Loadable(k, n)' <=> Loadable(k, n)) /\ Newest' = Newest
      /\ \A t : Old(t)' <=> Old(t)
  BY <1>1, SameChain, SameTrees
<1>8. \A m \in Marks' : m \in Marks \/ m = Evolved
  BY <1>1 DEF Marks
<1>9. /\ Kept(dir) /\ ~Interrupted(dir) /\ dir["next"].tree # Evolved.tree
  <2>1. Kept(dir) /\ ~Interrupted(dir)
    BY <1>1, <1>3, <1>5, NotInterrupted DEF Disk
  <2>2. Loadable(Evolved, dir["next"])
    BY <1>3, <2>1 DEF Kept
  <2> QED
    BY <1>5, <2>1, <2>2, FileFacts DEF Loadable
<1>10. /\ Top(Evolved) /\ Top(dir["next"]) /\ Top(NoFile) /\ NoFile.tree = 0 /\ Evolved.leaf \in Nat
  BY <1>3, <1>5, <1>9, FileFacts DEF Kept
<1>11. \A f : f \in {Evolved, dir["next"], next, NoFile} => Top(f)'
  BY <1>4, <1>5, <1>8, <1>9, <1>10 DEF Top
<1>12. ASSUME NEW d \in dirs PROVE Kept(d)'
  <2>1. d = dir /\ Kept(d)
    BY <1>3, <1>9
  <2>2. Top(d["kes"])' /\ Top(d["next"])' /\ Top(d["retired"])'
    BY <1>3, <1>11, <2>1
  <2>3. Old(d["next"].tree)
    BY <1>1, <2>1 DEF Kept
  <2> QED
    BY <1>7, <2>1, <2>2, <2>3 DEF Kept
<1>13. Disk'
  BY <1>1, <1>12 DEF Disk, keyFiles
<1>14. Numbered' /\ Tallies'
  <2>1. Old(Evolved.tree)
    BY <1>1, <1>5 DEF Numbered, Marks
  <2>2. \A m \in Marks' : Old(m.tree)'
    BY <1>1, <1>7, <1>8, <2>1 DEF Numbered
  <2> QED
    BY <1>1, <1>7, <2>2 DEF Numbered, Tallies, ledgerVars
<1>15. job \in Jobs
  BY <1>4 DEF JobOK
<1>16. /\ job'.step = "prepare" /\ job'.for = job.for /\ job'.epoch = job.epoch /\ job' # Idle
       /\ job' \in Jobs
  BY <1>1, <1>15, NextStep, ZenonT(60)
<1>17. JobOK'
  <2>1. Wanted' = Wanted /\ key'.tree = key.tree
    BY <1>1, <1>5, <1>16 DEF Wanted, ledgerVars
  <2> QED
    BY <1>1, <1>4, <1>16, <2>1 DEF JobOK, CanRotate, UsableNext, ledgerVars
<1>18. Plain'
  BY <1>1, <1>3, <1>5, <1>7 DEF Plain, Clean, keyFiles
<1>19. Rests'
  BY <1>1, <1>16, <1>18 DEF Rests
<1>20. Loadable(key, next)' /\ Top(key)' /\ Top(next)'
  BY <1>1, <1>6, <1>7, <1>11
<1>21. Mode'
  BY <1>1, <1>2, <1>17, <1>19, <1>20 DEF Mode, Loaded
<1> QED
  BY <1>7, <1>13, <1>14, <1>21 DEF Sound

\* A duty is signed with the leaf the key in memory stands at.
LEMMA SignSound ==
    ASSUME Sound, SignDuty
    PROVE  Sound'
<1>1. /\ Chain /\ Numbered /\ Tallies /\ Disk /\ Mode
      /\ running /\ todo = <<>> /\ job.step = "prepare" /\ signed' = signed \cup {key} /\ job' = Idle
      /\ UNCHANGED <<ledgerVars, running, keyFiles, key, next, keygen, todo, pool, made, duties>>
  BY DEF Sound, SignDuty, At, signerVars, tallies
<1>2. Loaded /\ Rests
  BY <1>1, RestingJob
<1>3. /\ Chain' /\ (\A k, n : Loadable(k, n)' <=> Loadable(k, n)) /\ \A t : Old(t)' <=> Old(t)
  BY <1>1, SameChain, SameTrees
<1>4. Marks' = Marks
  BY <1>1 DEF Marks
<1>5. \A f : Top(f)' <=> Top(f)
  BY <1>4 DEF Top
<1>6. ASSUME NEW d \in dirs PROVE Kept(d)'
  <2>1. Kept(d) /\ Old(d["next"].tree)
    BY <1>1 DEF Disk, Kept
  <2> QED
    BY <1>3, <1>5, <2>1 DEF Kept
<1>7. Disk'
  BY <1>1, <1>6, ZenonT(60) DEF Disk, keyFiles
<1>8. Numbered' /\ Tallies'
  BY <1>1, <1>2, <1>3, <1>4 DEF Numbered, Tallies, Loaded, Loadable, ledgerVars
<1>9. Rests' /\ JobOK'
  BY <1>1, <1>2, SamePlace DEF Rests, JobOK, ledgerVars
<1>10. Loadable(key, next)' /\ Top(key)' /\ Top(next)'
  BY <1>1, <1>2, <1>3, <1>5 DEF Loaded
<1>11. Mode'
  BY <1>1, <1>2, <1>9, <1>10 DEF Mode, Loaded
<1> QED
  BY <1>3, <1>7, <1>8, <1>11 DEF Sound

\* A rotation enters the pool: it is signed by the newest key, for the sealed successor.
LEMMA SubmitSound ==
    ASSUME Sound, SubmitRotation
    PROVE  Sound'
<1> DEFINE p == Period(job.epoch)
<1>1. /\ Chain /\ Numbered /\ Tallies /\ Disk /\ Mode
      /\ running /\ todo = <<>> /\ job.for = "rotate" /\ job.step = "prepare" /\ job' = Idle
      /\ Leaf = key.leaf
      /\ UNCHANGED <<ledgerVars, running, keyFiles, key, next, keygen, todo, signed, made, duties>>
  BY DEF Sound, SubmitRotation, At, tallies
<1>2. Loaded /\ Rests /\ job # Idle /\ JobOK /\ CanRotate /\ UsableNext /\ job.epoch = epoch
  <2>1. Loaded /\ Rests
    BY <1>1, RestingJob
  <2> QED
    BY <1>1, <2>1 DEF Loaded, JobOK, Idle
<1>3. CASE pool' = pool
  BY <1>1, <1>2, <1>3, StillRests DEF JobOK
<1>4. CASE /\ pool = NoTx
           /\ pool' = [period |-> p, tree |-> next.tree, by |-> key.tree, leaf |-> key.leaf]
  <2>1. /\ Wanted = Newest /\ ~Pending /\ Newest \in Keys /\ p = Period(epoch) /\ p \in Nat
    <3>1. /\ ~Pending /\ p = Period(epoch)
      BY <1>2 DEF CanRotate, Pending
    <3>2. entry.next.start \in Nat
      BY <1>1, KeyTypes DEF Keys
    <3> QED
      BY <1>1, <1>2, <3>1, <3>2, WantedKey, KeyTypes DEF Pending, PendingAt
  <2>2. /\ key.tree = Newest.tree /\ Signs(Newest, p) /\ next # NoFile /\ next.tree # Newest.tree
    BY <1>2, <2>1 DEF CanRotate, UsableNext
  <2>3. /\ key \in KeyFile /\ next \in KeyFile /\ Loadable(key, next) /\ key.tree # 0
        /\ key.tree \in Trees
    BY <1>2, <2>2, FileFacts DEF Loaded, Loadable
  <2>4. Registered
    <3>1. Newest.tree # 0
      BY <2>2, <2>3
    <3> QED
      BY <1>1, <3>1, KeyTypes DEF Newest, Registered, NoKey
  <2>5. /\ pool'.period = Period(epoch) /\ pool'.tree = next.tree /\ pool'.by = key.tree
        /\ pool'.leaf = key.leaf /\ key.leaf = p - Newest.start
    BY <1>1, <1>4, <2>1 DEF Leaf
  <2>6. /\ Newest' = Newest /\ (Pending' <=> Pending) /\ (Registered' <=> Registered)
    BY <1>1 DEF ledgerVars, Newest, Pending, PendingAt, Registered
  <2>7. Chain'
    <3>1. next.tree \in Trees
      BY <2>3, FileFacts
    <3> QED
      BY <1>1, <2>1, <2>2, <2>4, <2>5, <2>6, <3>1 DEF Chain, LedgerInv, ledgerVars
  <2>8. ASSUME NEW k, NEW n, Loadable(k, n), k.tree = key.tree, n.tree = next.tree
        PROVE  Loadable(k, n)'
    <3>1. Superseded(k)' <=> Superseded(k)
      BY <1>1, <2>6 DEF Superseded, ledgerVars
    <3> QED
      BY <1>1, <2>5, <2>6, <2>8, <3>1 DEF Loadable, ledgerVars
  <2>9. Plain
    BY <1>2, <2>2 DEF Rests, Heir
  <2>10. Marks' \subseteq Marks
    <3>1. [tree |-> key.tree, leaf |-> key.leaf] = key
      BY <2>3 DEF KeyFile
    <3> QED
      BY <1>1, <2>5, <3>1 DEF Marks
  <2>11. \A f : Top(f) => Top(f)'
    BY <2>10 DEF Top
  <2>12. \A t : Old(t)' <=> Old(t)
    BY <1>1, SameTrees
  <2>13. ASSUME NEW d \in dirs PROVE Kept(d)'
    <3>1. Kept(d) /\ Old(d["next"].tree) /\ d["kes"].tree = key.tree /\ d["next"] = next
      BY <1>1, <2>2, <2>9 DEF Disk, Kept, Plain
    <3>2. ~Interrupted(d)
      BY <2>3, <3>1, NotInterrupted
    <3>3. Loadable(d["kes"], d["next"])'
      BY <2>8, <3>1, <3>2 DEF Kept
    <3> QED
      BY <2>11, <2>12, <3>1, <3>2, <3>3 DEF Kept
  <2>14. Disk'
    BY <1>1, <2>13 DEF Disk, keyFiles
  <2>15. Numbered' /\ Tallies'
    <3>1. Old(pool.tree)'
      BY <1>1, <2>5, <2>12 DEF Numbered
    <3>2. \A m \in Marks' : Old(m.tree)'
      BY <1>1, <2>10, <2>12 DEF Numbered
    <3> QED
      BY <1>1, <2>12, <3>1, <3>2 DEF Numbered, Tallies, ledgerVars
  <2>16. Rests' /\ JobOK'
    BY <1>1, <1>2, SamePlace DEF Rests, JobOK, ledgerVars
  <2>17. Loadable(key, next)' /\ Top(key)' /\ Top(next)'
    BY <1>1, <1>2, <2>3, <2>8, <2>11 DEF Loaded
  <2>18. Mode'
    BY <1>1, <1>2, <2>16, <2>17 DEF Mode, Loaded
  <2> QED
    BY <2>7, <2>14, <2>15, <2>18 DEF Sound
<1> QED
  BY <1>3, <1>4 DEF SubmitRotation

-----------------------------------------------------------------------------
(* The file operations, one at a time.                                     *)

\* A write replaces one file, and the result is not yet durable.
LEMMA WriteStep ==
    ASSUME FileStep, NEW n, NEW f, Head(todo) = Fill(n, f)
    PROVE  dir' = [dir EXCEPT ![n] = f] /\ dirs' = dirs \cup {dir'}
BY DEF FileStep, Fill

\* A rename moves one file, and the result is not yet durable.
LEMMA RenameStep ==
    ASSUME FileStep, NEW a, NEW b, Head(todo) = RenameTo(a, b)
    PROVE  dir' = Renamed(dir, a, b) /\ dirs' = dirs \cup {dir'}
BY DEF FileStep, RenameTo

\* After a directory sync a power loss leaves what is there.
LEMMA SyncStep ==
    ASSUME FileStep, Head(todo) = Syncing
    PROVE  dir' = dir /\ dirs' = {dir}
BY DEF FileStep, Syncing, SyncKesDir

\* Overwriting reaches the file under every name and in every directory.
LEMMA ZeroStep ==
    ASSUME FileStep, Head(todo) = Zeroing, dirs = {dir}
    PROVE  /\ dir' = [n \in Names |-> IF dir[n] = dir["retired"] THEN Unreadable ELSE dir[n]]
           /\ dirs' = {dir'}
BY DEF FileStep, Zeroing, Zero

\* What a file operation leaves alone.
LEMMA StepFrame ==
    ASSUME Sound, FileStep
    PROVE  /\ Chain' /\ Numbered' /\ Tallies'
           /\ \A d : Kept(d) => Kept(d)'
           /\ UNCHANGED <<running, key, next, keygen, job, entry, duties>>
           /\ Newest' = Newest /\ (Pending' <=> Pending)
           /\ Loaded => /\ running /\ JobOK' /\ Loadable(key, next)' /\ Top(key)' /\ Top(next)'
                        /\ keygen # 0 => next = NoFile
           /\ todo # <<>> /\ todo' = Tail(todo)
           /\ Leaf' = Leaf /\ Evolved' = Evolved /\ Successor' = Successor
<1>1. /\ Chain /\ Numbered /\ Tallies
      /\ UNCHANGED <<ledgerVars, running, key, next, keygen, job, pool, signed, made, duties>>
      /\ todo # <<>> /\ todo' = Tail(todo)
  BY DEF Sound, FileStep, signerVars, tallies
<1>2. /\ Chain' /\ (\A k, n : Loadable(k, n)' <=> Loadable(k, n))
      /\ Newest' = Newest /\ (Pending' <=> Pending)
      /\ Marks' = Marks /\ (\A f : Top(f)' <=> Top(f)) /\ (\A t : Old(t)' <=> Old(t))
  BY <1>1, SameChain, SameLeaves, SameTrees
<1>3. \A d : Kept(d) => Kept(d)'
  BY <1>1, SameKept
<1>4. Numbered' /\ Tallies'
  BY <1>1, <1>2 DEF Numbered, Tallies, ledgerVars
<1>5. Wanted' = Wanted /\ Leaf' = Leaf /\ Evolved' = Evolved /\ Successor' = Successor
  BY <1>1 DEF Wanted, Leaf, Evolved, Successor, ledgerVars
<1>6. JobOK' <=> JobOK
  BY <1>1, <1>5 DEF JobOK, CanRotate, UsableNext, ledgerVars
<1>7. Loaded => /\ running /\ JobOK' /\ Loadable(key, next)' /\ Top(key)' /\ Top(next)'
                /\ keygen # 0 => next = NoFile
  BY <1>1, <1>2, <1>6 DEF Loaded
<1> QED
  BY <1>1, <1>2, <1>3, <1>4, <1>5, <1>7 DEF ledgerVars

\* What has to be shown of one file operation.
LEMMA StepSound ==
    ASSUME Sound, FileStep, dir' \in dirs', \A d \in dirs' : Kept(d),
           \A d \in dirs' : dir'["kes"] # NoFile => Holds(d, dir'["kes"].tree),
           \/ Loaded /\ (Adopts \/ Evolves \/ Seals \/ Rests)'
           \/ running /\ Unloaded /\ Boots'
    PROVE  Sound'
<1>1. Disk'
  BY StepFrame DEF Disk
<1>2. CASE Loaded /\ (Adopts \/ Evolves \/ Seals \/ Rests)'
  <2>1. Loaded'
    BY <1>2, StepFrame DEF Loaded
  <2> QED
    BY <1>1, <2>1, StepFrame DEF Sound, Mode
<1>3. CASE running /\ Unloaded /\ Boots'
  <2>1. Unloaded' /\ running'
    BY <1>3, StepFrame DEF Unloaded
  <2> QED
    BY <1>1, <1>3, <2>1, StepFrame DEF Sound, Mode
<1> QED
  BY <1>2, <1>3

\* A directory is judged by its three key files.
LEMMA SameNames ==
    ASSUME NEW d, NEW e \in [Names -> Files], Kept(d),
           e["kes"] = d["kes"], e["next"] = d["next"], e["retired"] = d["retired"]
    PROVE  Kept(e) /\ \A t : Holds(e, t) <=> Holds(d, t)
BY DEF Kept, Holds, Interrupted

\* Every mark has a leaf, and only the marks of no tree are leaf 0 of tree 0.
LEMMA MarkLeaves ==
    ASSUME Sound
    PROVE  \A m \in Marks : m.leaf \in Int /\ (m.tree = 0 => m.leaf = 0)
<1>1. Chain /\ Tallies /\ Mode
  BY DEF Sound
<1>2. ASSUME NEW m \in signed \cup {key} PROVE m.leaf \in Int /\ (m.tree = 0 => m.leaf = 0)
  <2>1. m \in KeyFile \cup {NoFile}
    BY <1>1, <1>2, KeyInMemory DEF Tallies
  <2> QED
    BY <2>1, FileFacts
<1>3. pool.leaf \in Int /\ (pool.by = 0 => pool.leaf = 0)
  <2>1. CASE pool = NoTx
    BY <2>1 DEF NoTx
  <2>2. CASE pool # NoTx
    <3>1. /\ Registered /\ pool.period = Period(epoch) /\ pool.by = Newest.tree
          /\ pool.leaf = pool.period - Newest.start
      BY <1>1, <2>2 DEF Chain
    <3>2. Newest.tree \in Trees /\ Newest.start \in Nat /\ Period(epoch) \in Nat
      BY <1>1, <3>1, KeyTypes DEF Keys
    <3> QED
      BY <3>1, <3>2, KesConstants
  <2> QED
    BY <2>1, <2>2
<1> QED
  BY <1>2, <1>3 DEF Marks

\* No leaf in use is later than that of a missing or a zeroed file.
LEMMA TopOfNone ==
    ASSUME Sound
    PROVE  Top(NoFile) /\ Top(Unreadable) /\ Old(0)
<1>1. Old(0)
  BY DEF Sound, Numbered, Old
<1> QED
  BY <1>1, MarkLeaves, FileFacts DEF Top

\* The directory that is synced is one of those a power loss could leave.
LEMMA SyncKeeps ==
    ASSUME Sound, FileStep, Head(todo) = Syncing
    PROVE  /\ dir' = dir /\ dirs' = {dir} /\ dir' \in dirs'
           /\ \A d \in dirs' : d \in dirs /\ Kept(d)
           /\ \A d \in dirs' : dir'["kes"] # NoFile => Holds(d, dir'["kes"].tree)
BY SyncStep DEF Sound, Disk

\* A temporary file is written: the key files stay.
LEMMA TmpStep ==
    ASSUME Sound, FileStep, NEW n \in {"kesTmp", "nextTmp"}, NEW f \in Files,
           Head(todo) = Fill(n, f), Plain
    PROVE  /\ dir' \in dirs' /\ dirs' = dirs \cup {dir'}
           /\ \A d \in dirs' : Kept(d)
           /\ \A d \in dirs' : dir'["kes"] # NoFile => Holds(d, dir'["kes"].tree)
           /\ Plain' /\ dir'[n] = f
<1>1. /\ Disk /\ Kept(dir) /\ dir \in [Names -> Files] /\ dir \in dirs
  BY DEF Sound, Disk, Kept
<1>2. /\ dir' = [dir EXCEPT ![n] = f] /\ dirs' = dirs \cup {dir'}
  BY WriteStep
<1>3. /\ dir' \in [Names -> Files] /\ dir'["kes"] = dir["kes"] /\ dir'["next"] = dir["next"]
      /\ dir'["retired"] = dir["retired"] /\ dir'[n] = f
  BY <1>1, <1>2 DEF Names
<1>4. ASSUME NEW d, d = dir' PROVE Kept(d) /\ \A t : Holds(d, t) <=> Holds(dir, t)
  <2>1. /\ d \in [Names -> Files] /\ d["kes"] = dir["kes"] /\ d["next"] = dir["next"]
        /\ d["retired"] = dir["retired"]
    BY <1>3, <1>4
  <2> QED
    BY <1>1, <2>1, SameNames
<1>5. \A d \in dirs' : Kept(d)
  BY <1>1, <1>2, <1>4 DEF Disk
<1>6. \A d \in dirs' : dir'["kes"] # NoFile => Holds(d, dir'["kes"].tree)
  BY <1>1, <1>2, <1>3, <1>4, ZenonT(60) DEF Disk
<1>7. Plain'
  BY <1>1, <1>2, <1>3, StepFrame, ZenonT(60) DEF Plain, Clean
<1> QED
  BY <1>2, <1>3, <1>5, <1>6, <1>7

\* save_named puts the evolved key in place.
LEMMA EvolvedInPlace ==
    ASSUME Sound, FileStep, Loaded, Plain, key.tree = Newest.tree, Leaf \in Nat, Leaf > key.leaf,
           Head(todo) = RenameTo("kesTmp", "kes"), dir["kesTmp"] = Evolved
    PROVE  /\ dir' \in dirs' /\ \A d \in dirs' : Kept(d)
           /\ \A d \in dirs' : dir'["kes"] # NoFile => Holds(d, dir'["kes"].tree)
           /\ Plain' /\ dir'["kes"] = Evolved
<1>1. /\ Disk /\ Kept(dir) /\ dir \in [Names -> Files] /\ dir \in dirs /\ Numbered
      /\ dir["retired"] = NoFile /\ dir["kes"].tree = key.tree
  BY DEF Sound, Disk, Kept, Plain
<1>2. dir' = Renamed(dir, "kesTmp", "kes") /\ dirs' = dirs \cup {dir'}
  BY RenameStep
<1>3. /\ dir' \in [Names -> Files] /\ dir'["kes"] = Evolved /\ dir'["next"] = dir["next"]
      /\ dir'["retired"] = NoFile
  BY <1>1, <1>2 DEF Renamed, Names, Files
<1>4. /\ key \in KeyFile /\ key.tree # 0 /\ key.leaf \in Nat /\ Top(key)
  BY FileFacts DEF Loaded, Loadable
<1>5. /\ Evolved \in KeyFile /\ Evolved.tree = key.tree /\ Evolved.leaf = Leaf
  BY <1>4 DEF KeyFile, Evolved
<1>6. Loadable(dir["kes"], dir["next"])
  BY <1>1, <1>4, NotInterrupted DEF Kept
<1>7. Loadable(Evolved, dir["next"])
  BY <1>1, <1>5, <1>6, AnyLeaf
<1>8. Top(Evolved)
  BY <1>4, <1>5, MarkLeaves DEF Top
<1>9. Old(Evolved.tree)
  BY <1>1, <1>5 DEF Numbered, Marks
<1>10. ASSUME NEW d, d = dir' PROVE Kept(d) /\ Holds(d, key.tree)
  <2>1. /\ d \in [Names -> Files] /\ d["kes"] = Evolved /\ d["next"] = dir["next"]
        /\ d["retired"] = NoFile
    BY <1>3, <1>10
  <2>2. ~Interrupted(d)
    BY <1>4, <1>5, <2>1, NotInterrupted
  <2>3. NoFile.tree = 0
    BY DEF NoFile
  <2>4. Top(d["next"]) /\ (Old(d["next"].tree) \/ (job.step = "seal" /\ d["next"] = Successor))
    BY <1>1, <2>1, ZenonT(60) DEF Kept
  <2>5. Kept(d)
    BY <1>7, <1>8, <1>9, <2>1, <2>2, <2>3, <2>4, TopOfNone DEF Kept
  <2> QED
    BY <1>5, <2>1, <2>2, <2>5 DEF Holds
<1>11. \A d \in dirs' : Kept(d)
  BY <1>1, <1>2, <1>10 DEF Disk
<1>12. ASSUME NEW d \in dirs' PROVE Holds(d, key.tree)
  <2>1. CASE d = dir'
    BY <1>10, <2>1
  <2>2. CASE d \in dirs
    BY <1>4, <2>2, NotInterrupted, ZenonT(60) DEF Plain, Holds
  <2> QED
    BY <1>2, <2>1, <2>2
<1>13. Plain'
  BY <1>1, <1>2, <1>3, <1>5, StepFrame, ZenonT(60) DEF Plain, Clean
<1> QED
  BY <1>2, <1>3, <1>5, <1>11, <1>12, <1>13

\* save_named puts the generated key in place as the successor.
LEMMA SuccessorInPlace ==
    ASSUME Sound, FileStep, Loaded, Plain, next = NoFile, keygen > 0, job.step = "seal",
           Head(todo) = RenameTo("nextTmp", "next"), dir["nextTmp"] = Successor
    PROVE  /\ dir' \in dirs' /\ \A d \in dirs' : Kept(d)
           /\ \A d \in dirs' : dir'["kes"] # NoFile => Holds(d, dir'["kes"].tree)
           /\ Plain' /\ dir'["next"] = Successor
<1>1. /\ Disk /\ Kept(dir) /\ dir \in [Names -> Files] /\ dir \in dirs /\ Numbered /\ Chain
      /\ dir["retired"] = NoFile /\ dir["kes"].tree = key.tree
      /\ dir["next"] # NoFile => dir["next"].tree # Newest.tree
  BY DEF Sound, Disk, Kept, Plain
<1>2. dir' = Renamed(dir, "nextTmp", "next") /\ dirs' = dirs \cup {dir'}
  BY RenameStep
<1>3. /\ dir' \in [Names -> Files] /\ dir'["kes"] = dir["kes"] /\ dir'["next"] = Successor
      /\ dir'["retired"] = NoFile
  BY <1>1, <1>2, ZenonT(60) DEF Renamed, Names, Files
<1>4. /\ key \in KeyFile /\ key.tree # 0 /\ pool = NoTx
  BY <1>1, FileFacts, PoolFacts, ZenonT(60) DEF Loaded, Loadable
<1>5. /\ Successor \in KeyFile /\ Successor.tree = keygen /\ Successor.tree # 0
  <2>1. Successor \in KeyFile /\ Successor.tree = keygen
    BY <1>1 DEF KeyFile, Successor, Numbered
  <2> QED
    BY <2>1, FileFacts
<1>6. /\ keygen # dir["kes"].tree /\ keygen # entry.current.tree /\ keygen # Newest.tree
  BY <1>1 DEF Kept, Numbered, Newest, Old
<1>7. Loadable(dir["kes"], dir["next"])
  BY <1>1, <1>4, NotInterrupted DEF Kept
<1>8. Registered => Newest.tree # NoFile.tree
  BY <1>1, KeyTypes, FileFacts, KesConstants, ZenonT(60)
<1>9. Loadable(dir["kes"], Successor)
  BY <1>1, <1>4, <1>5, <1>6, <1>7, <1>8 DEF Loadable
<1>10. Top(Successor)
  BY <1>1, <1>5, ZenonT(60) DEF Top, Numbered, Old
<1>11. ASSUME NEW d, d = dir' PROVE Kept(d) /\ d["kes"].tree = key.tree
  <2>1. /\ d \in [Names -> Files] /\ d["kes"] = dir["kes"] /\ d["next"] = Successor
        /\ d["retired"] = NoFile
    BY <1>3, <1>11
  <2>2. ~Interrupted(d) /\ NoFile.tree = 0
    BY <1>1, <1>4, <2>1, NotInterrupted DEF NoFile
  <2> QED
    BY <1>1, <1>9, <1>10, <2>1, <2>2, TopOfNone DEF Kept
<1>12. \A d \in dirs' : Kept(d)
  BY <1>1, <1>2, <1>11 DEF Disk
<1>13. ASSUME NEW d \in dirs' PROVE Holds(d, key.tree)
  <2>1. d["kes"].tree = key.tree
    BY <1>2, <1>11 DEF Plain
  <2> QED
    BY <1>4, <2>1, NotInterrupted DEF Holds
<1>14. Plain'
  BY <1>1, <1>2, <1>3, <1>5, <1>6, StepFrame, ZenonT(60) DEF Plain, Clean
<1> QED
  BY <1>1, <1>2, <1>3, <1>12, <1>13, <1>14, ZenonT(60)

\* promote_next moves the old key out: start-up would take the successor for the key.
LEMMA MovedOut ==
    ASSUME Sound, FileStep, Loaded, Plain, Heir, Pending => duties > 0, job.step = "adopt",
           Head(todo) = MovingOut
    PROVE  /\ dir' \in dirs' /\ \A d \in dirs' : Kept(d)
           /\ dir'["kes"] = NoFile /\ Heir' /\ MidSwap'
<1>1. /\ Disk /\ Kept(dir) /\ dir \in [Names -> Files] /\ dir \in dirs /\ Chain
      /\ dir["kes"].tree = key.tree /\ dir["next"] = next /\ next # NoFile
      /\ next.tree = Newest.tree
  BY DEF Sound, Disk, Kept, Plain, Heir
<1>2. dir' = Renamed(dir, "kes", "retired") /\ dirs' = dirs \cup {dir'}
  BY RenameStep DEF MovingOut
<1>3. /\ dir' \in [Names -> Files] /\ dir'["kes"] = NoFile /\ dir'["next"] = next
      /\ dir'["retired"] = dir["kes"]
  BY <1>1, <1>2 DEF Renamed, Names, Files
<1>4. /\ key \in KeyFile /\ key.tree # 0 /\ next \in KeyFile /\ key.tree # next.tree /\ pool = NoTx
      /\ next.tree # 0
  BY <1>1, FileFacts, PoolFacts, ZenonT(60) DEF Loaded, Loadable
<1>5. Loadable(next, NoFile)
  BY <1>1, <1>4, ZenonT(60) DEF Loadable
<1>6. ASSUME NEW d, d = dir' PROVE Kept(d) /\ Holds(d, next.tree)
  <2>1. /\ d \in [Names -> Files] /\ d["kes"] = NoFile /\ d["next"] = next
        /\ d["retired"] = dir["kes"]
    BY <1>3, <1>6
  <2>2. Interrupted(d) /\ NoFile.tree = 0
    BY <1>1, <1>4, <2>1 DEF NoFile, Interrupted
  <2>3. Top(dir["kes"]) /\ Top(next) /\ Old(dir["kes"].tree) /\ Old(next.tree)
    BY <1>1 DEF Kept
  <2>4. Kept(d)
    BY <1>1, <1>4, <1>5, <2>1, <2>2, <2>3, TopOfNone, ZenonT(60) DEF Kept
  <2> QED
    BY <2>1, <2>2, <2>4, ZenonT(60) DEF Holds
<1>7. \A d \in dirs' : Kept(d) /\ Holds(d, next.tree)
  BY <1>1, <1>2, <1>6, ZenonT(60) DEF Disk, Heir
<1>8. Heir'
  BY <1>1, <1>7, StepFrame DEF Heir, Holds, Interrupted
<1>9. MidSwap'
  BY <1>1, <1>3, StepFrame DEF MidSwap
<1> QED
  BY <1>2, <1>3, <1>7, <1>8, <1>9

\* The successor takes the key's name, in a rotation or at start-up.
LEMMA MovedIn ==
    ASSUME Sound, FileStep, Interrupted(dir), job.step # "seal", Head(todo) = MovingIn,
           \A d \in dirs : Holds(d, dir["next"].tree)
    PROVE  /\ dir' \in dirs' /\ \A d \in dirs' : Kept(d)
           /\ dir'["kes"] = dir["next"] /\ dir'["next"] = NoFile /\ dir'["retired"] = dir["retired"]
           /\ dir["next"] # NoFile /\ \A d \in dirs' : Holds(d, dir["next"].tree)
<1>1. /\ Disk /\ Kept(dir) /\ dir \in [Names -> Files] /\ dir \in dirs
      /\ dir["next"] # NoFile /\ Loadable(dir["next"], NoFile)
  BY DEF Sound, Disk, Kept, Interrupted
<1>2. dir' = Renamed(dir, "next", "kes") /\ dirs' = dirs \cup {dir'}
  BY RenameStep DEF MovingIn
<1>3. /\ dir' \in [Names -> Files] /\ dir'["kes"] = dir["next"] /\ dir'["next"] = NoFile
      /\ dir'["retired"] = dir["retired"]
  BY <1>1, <1>2 DEF Renamed, Names, Files
<1>4. ASSUME NEW d, d = dir' PROVE Kept(d) /\ Holds(d, dir["next"].tree)
  <2>1. /\ d \in [Names -> Files] /\ d["kes"] = dir["next"] /\ d["next"] = NoFile
        /\ d["retired"] = dir["retired"] /\ ~Interrupted(d) /\ NoFile.tree = 0
    BY <1>1, <1>3, <1>4 DEF Interrupted, NoFile
  <2>2. Top(d["kes"]) /\ Top(d["retired"]) /\ Old(d["kes"].tree) /\ Old(d["retired"].tree)
    BY <1>1, <2>1 DEF Kept
  <2>3. d["retired"].tree # 0 => d["retired"].tree # d["kes"].tree
    BY <1>1, <2>1 DEF Kept
  <2>4. Kept(d)
    BY <1>1, <2>1, <2>2, <2>3, TopOfNone DEF Kept
  <2> QED
    BY <2>1, <2>4 DEF Holds
<1>5. \A d \in dirs' : Kept(d) /\ Holds(d, dir["next"].tree)
  BY <1>1, <1>2, <1>4 DEF Disk
<1> QED
  BY <1>1, <1>2, <1>3, <1>5, ZenonT(60)

\* shred_retired overwrites the old key, and no other file of the same contents.
LEMMA Zeroed ==
    ASSUME Sound, FileStep, dir["kes"] # NoFile, dirs = {dir}, dir["retired"] # NoFile,
           Head(todo) = Zeroing
    PROVE  /\ dir' \in dirs' /\ dirs' = {dir'} /\ \A d \in dirs' : Kept(d)
           /\ dir'["kes"] = dir["kes"] /\ dir'["next"] = dir["next"] /\ dir'["retired"] = Unreadable
           /\ \A t : \A d \in dirs' : Holds(dir, t) => Holds(d, t)
<1>1. /\ Kept(dir) /\ dir \in [Names -> Files] /\ dir["retired"] \in Files
  BY DEF Sound, Disk, Kept, Names
<1>2. /\ dir' = [n \in Names |-> IF dir[n] = dir["retired"] THEN Unreadable ELSE dir[n]]
      /\ dirs' = {dir'}
  BY ZeroStep
<1>3. \A n \in {"kes", "next"} : dir[n] = dir["retired"] => dir[n] = Unreadable
  <2>1. dir["retired"].tree = 0 => dir["retired"] = Unreadable
    BY <1>1, FileFacts DEF Files
  <2> QED
    BY <1>1, <2>1 DEF Kept
<1>4. /\ dir' \in [Names -> Files] /\ dir'["kes"] = dir["kes"] /\ dir'["next"] = dir["next"]
      /\ dir'["retired"] = Unreadable
  BY <1>1, <1>2, <1>3 DEF Names, Files
<1>5. ASSUME NEW d, d = dir' PROVE Kept(d) /\ \A t : Holds(dir, t) => Holds(d, t)
  <2>1. /\ d \in [Names -> Files] /\ d["kes"] = dir["kes"] /\ d["next"] = dir["next"]
        /\ d["retired"] = Unreadable /\ ~Interrupted(d) /\ ~Interrupted(dir) /\ Unreadable.tree = 0
    BY <1>4, <1>5 DEF Interrupted, Unreadable
  <2> QED
    BY <1>1, <2>1, TopOfNone, ZenonT(60) DEF Kept, Holds
<1> QED
  BY <1>2, <1>4, <1>5

\* shred_retired takes the zeroed file away.
LEMMA Removed ==
    ASSUME Sound, FileStep, dir["kes"] # NoFile, dirs = {dir}, dir["retired"] = Unreadable,
           Head(todo) = Removing
    PROVE  /\ dir' \in dirs' /\ \A d \in dirs' : Kept(d)
           /\ dir'["kes"] = dir["kes"] /\ dir'["next"] = dir["next"] /\ dir'["retired"] = NoFile
           /\ \A d \in dirs' : Clean(d) /\ d["kes"] = dir["kes"] /\ d["next"] = dir["next"]
           /\ \A t : \A d \in dirs' : Holds(dir, t) => Holds(d, t)
<1>1. /\ Kept(dir) /\ dir \in [Names -> Files]
  BY ZenonT(60) DEF Sound, Disk, Kept
<1>2. /\ dir' = [dir EXCEPT !["retired"] = NoFile] /\ dirs' = dirs \cup {dir'}
  BY WriteStep DEF Removing, RemoveFile, Fill
<1>3. /\ dir' \in [Names -> Files] /\ dir'["kes"] = dir["kes"] /\ dir'["next"] = dir["next"]
      /\ dir'["retired"] = NoFile
  BY <1>1, <1>2 DEF Names, Files
<1>4. ASSUME NEW d, d = dir' PROVE Kept(d) /\ \A t : Holds(dir, t) => Holds(d, t)
  <2>1. /\ d \in [Names -> Files] /\ d["kes"] = dir["kes"] /\ d["next"] = dir["next"]
        /\ d["retired"] = NoFile /\ ~Interrupted(d) /\ ~Interrupted(dir) /\ NoFile.tree = 0
    BY <1>3, <1>4 DEF Interrupted, NoFile
  <2> QED
    BY <1>1, <2>1, TopOfNone, ZenonT(60) DEF Kept, Holds
<1> QED
  BY <1>1, <1>2, <1>3, <1>4, ZenonT(60) DEF Clean

\* Where the retired key goes, at start-up and after a swap.
LEMMA ShredStep ==
    ASSUME Sound, FileStep, Shreds
    PROVE  /\ Shreds' /\ dir' \in dirs' /\ \A d \in dirs' : Kept(d)
           /\ dir'["kes"] = dir["kes"] /\ dir'["next"] = dir["next"]
           /\ \A t : (\A d \in dirs : Holds(d, t)) => \A d \in dirs' : Holds(d, t)
           /\ \A d \in dirs' : dir'["kes"] # NoFile => Holds(d, dir'["kes"].tree)
<1>1. /\ dir["kes"] # NoFile /\ todo # <<>> /\ todo' = Tail(todo) /\ dir \in dirs
      /\ \A d \in dirs : Holds(d, dir["kes"].tree)
  BY StepFrame DEF Shreds, Sound, Disk
<1>2. CASE todo = <<Zeroing, Removing, Syncing>> /\ dirs = {dir} /\ dir["retired"] # NoFile
  <2>1. Head(todo) = Zeroing /\ todo' = <<Removing, Syncing>>
    BY <1>1, <1>2
  <2>2. /\ dir' \in dirs' /\ dirs' = {dir'} /\ \A d \in dirs' : Kept(d)
        /\ dir'["kes"] = dir["kes"] /\ dir'["next"] = dir["next"] /\ dir'["retired"] = Unreadable
        /\ \A t : \A d \in dirs' : Holds(dir, t) => Holds(d, t)
    BY <1>1, <1>2, <2>1, Zeroed
  <2>3. Shreds'
    BY <1>1, <2>1, <2>2, ZenonT(60) DEF Shreds
  <2> QED
    BY <1>1, <2>2, <2>3
<1>3. CASE todo = <<Removing, Syncing>> /\ dirs = {dir} /\ dir["retired"] = Unreadable
  <2>1. Head(todo) = Removing /\ todo' = <<Syncing>>
    BY <1>1, <1>3
  <2>2. /\ dir' \in dirs' /\ \A d \in dirs' : Kept(d)
        /\ dir'["kes"] = dir["kes"] /\ dir'["next"] = dir["next"] /\ dir'["retired"] = NoFile
        /\ \A d \in dirs' : Clean(d) /\ d["kes"] = dir["kes"] /\ d["next"] = dir["next"]
        /\ \A t : \A d \in dirs' : Holds(dir, t) => Holds(d, t)
    BY <1>1, <1>3, <2>1, Removed
  <2>3. Shreds'
    BY <1>1, <2>1, <2>2, ZenonT(60) DEF Shreds, Clean
  <2> QED
    BY <1>1, <2>2, <2>3
<1>4. CASE /\ todo = <<Syncing>> /\ dir["retired"] = NoFile
           /\ \A d \in dirs : Clean(d) /\ d["kes"] = dir["kes"] /\ d["next"] = dir["next"]
  <2>1. Head(todo) = Syncing /\ todo' = <<>>
    BY <1>1, <1>4
  <2>2. /\ dir' = dir /\ dirs' = {dir} /\ dir' \in dirs'
        /\ \A d \in dirs' : d \in dirs /\ Kept(d)
    BY <2>1, SyncKeeps
  <2>3. Shreds'
    BY <1>1, <1>4, <2>1, <2>2 DEF Shreds
  <2> QED
    BY <1>1, <2>2, <2>3
<1> QED
  BY <1>1, <1>2, <1>3, <1>4, ZenonT(60) DEF Shreds

\* One file operation of a start-up (finish_interrupted_rotation).
LEMMA BootStep ==
    ASSUME Sound, FileStep, running, Unloaded, Boots
    PROVE  Sound'
<1>1. /\ todo # <<>> /\ todo' = Tail(todo) /\ dir \in dirs /\ job' = job
      /\ job = [for |-> "boot", step |-> "load", epoch |-> 0]
  BY StepFrame, ZenonT(60) DEF Sound, Disk, Boots
<1>2. job.step # "seal"
  BY <1>1
<1>3. CASE /\ todo = <<MovingIn, Syncing, Zeroing, Removing, Syncing>> /\ Interrupted(dir)
           /\ dirs = {dir}
  <2>1. Head(todo) = MovingIn /\ todo' = <<Syncing, Zeroing, Removing, Syncing>>
    BY <1>1, <1>3
  <2>2. \A d \in dirs : Holds(d, dir["next"].tree)
    BY <1>3 DEF Holds
  <2>3. /\ dir' \in dirs' /\ \A d \in dirs' : Kept(d)
        /\ dir'["kes"] = dir["next"] /\ dir'["retired"] = dir["retired"]
        /\ dir["next"] # NoFile /\ \A d \in dirs' : Holds(d, dir["next"].tree)
    BY <1>2, <1>3, <2>1, <2>2, MovedIn, ZenonT(60)
  <2>4. Boots'
    BY <1>1, <1>3, <2>1, <2>3 DEF Boots, Interrupted
  <2> QED
    BY <2>3, <2>4, StepSound
<1>4. CASE /\ todo = <<Syncing, Zeroing, Removing, Syncing>> /\ dir["kes"] # NoFile
           /\ dir["retired"] # NoFile
  <2>1. Head(todo) = Syncing /\ todo' = <<Zeroing, Removing, Syncing>>
    BY <1>1, <1>4
  <2>2. /\ dir' = dir /\ dirs' = {dir} /\ dir' \in dirs' /\ \A d \in dirs' : Kept(d)
        /\ \A d \in dirs' : dir'["kes"] # NoFile => Holds(d, dir'["kes"].tree)
    BY <2>1, SyncKeeps
  <2>3. Shreds'
    BY <1>4, <2>1, <2>2 DEF Shreds
  <2>4. Boots'
    BY <1>1, <2>3 DEF Boots
  <2> QED
    BY <2>2, <2>4, StepSound
<1>5. CASE Shreds
  <2>1. /\ Shreds' /\ dir' \in dirs' /\ \A d \in dirs' : Kept(d)
        /\ \A d \in dirs' : dir'["kes"] # NoFile => Holds(d, dir'["kes"].tree)
    BY <1>5, ShredStep
  <2>2. Boots'
    BY <1>1, <2>1, ZenonT(60) DEF Boots
  <2> QED
    BY <2>1, <2>2, StepSound
<1> QED
  BY <1>3, <1>4, <1>5 DEF Boots

\* One file operation of a swap (promote_next).
LEMMA AdoptStep ==
    ASSUME Sound, FileStep, Loaded, Adopts
    PROVE  Sound'
<1>1. /\ todo # <<>> /\ todo' = Tail(todo) /\ dir \in dirs /\ job' = job
      /\ job.step = "adopt" /\ job.for \in {"duty", "turn"} /\ Heir /\ (Pending => duties > 0)
      /\ UNCHANGED <<key, next, duties>> /\ Newest' = Newest /\ (Pending' <=> Pending)
  BY StepFrame DEF Sound, Disk, Adopts
<1>2. /\ next # NoFile /\ next.tree = Newest.tree /\ \A d \in dirs : Holds(d, next.tree)
  BY <1>1, ZenonT(60) DEF Heir
<1>3. (\A d \in dirs' : Holds(d, next.tree)) => Heir'
  BY <1>1, <1>2 DEF Heir, Holds, Interrupted
<1>4. CASE todo = <<MovingOut, MovingIn, Syncing, Zeroing, Removing, Syncing>> /\ Plain
  <2>1. Head(todo) = MovingOut /\ todo' = <<MovingIn, Syncing, Zeroing, Removing, Syncing>>
    BY <1>1, <1>4
  <2>2. /\ dir' \in dirs' /\ \A d \in dirs' : Kept(d)
        /\ dir'["kes"] = NoFile /\ Heir' /\ MidSwap'
    BY <1>1, <1>4, <2>1, MovedOut
  <2>3. Adopts'
    BY <1>1, <2>1, <2>2, ZenonT(60) DEF Adopts
  <2> QED
    BY <2>2, <2>3, StepSound
<1>5. CASE todo = <<MovingIn, Syncing, Zeroing, Removing, Syncing>> /\ MidSwap
  <2>1. Head(todo) = MovingIn /\ todo' = <<Syncing, Zeroing, Removing, Syncing>>
    BY <1>1, <1>5
  <2>2. /\ dir["next"] = next /\ dir["retired"].tree = key.tree /\ Interrupted(dir)
    <3>1. key.tree # 0
      BY FileFacts DEF Loaded, Loadable
    <3> QED
      BY <1>2, <1>5, <3>1 DEF MidSwap, Interrupted, NoFile
  <2>3. /\ dir' \in dirs' /\ \A d \in dirs' : Kept(d)
        /\ dir'["kes"] = dir["next"] /\ dir'["next"] = NoFile /\ dir'["retired"] = dir["retired"]
        /\ dir["next"] # NoFile /\ \A d \in dirs' : Holds(d, dir["next"].tree)
    BY <1>1, <1>2, <2>1, <2>2, MovedIn, ZenonT(60)
  <2>4. Swapped'
    BY <1>1, <2>2, <2>3 DEF Swapped
  <2>5. Adopts'
    BY <1>1, <1>3, <2>1, <2>2, <2>3, <2>4, ZenonT(60) DEF Adopts
  <2> QED
    BY <2>3, <2>5, StepSound
<1>6. CASE /\ todo = <<Syncing, Zeroing, Removing, Syncing>> /\ Swapped
           /\ dir["retired"].tree = key.tree
  <2>1. Head(todo) = Syncing /\ todo' = <<Zeroing, Removing, Syncing>>
    BY <1>1, <1>6
  <2>2. /\ dir' = dir /\ dirs' = {dir} /\ dir' \in dirs'
        /\ \A d \in dirs' : d \in dirs /\ Kept(d)
        /\ \A d \in dirs' : dir'["kes"] # NoFile => Holds(d, dir'["kes"].tree)
    BY <2>1, SyncKeeps
  <2>3. dir["retired"] # NoFile /\ dir["kes"] # NoFile
    <3>1. key.tree # 0
      BY FileFacts DEF Loaded, Loadable
    <3> QED
      BY <1>2, <1>6, <3>1 DEF Swapped, NoFile
  <2>4. Shreds' /\ Swapped'
    BY <1>1, <1>6, <2>1, <2>2, <2>3, ZenonT(60) DEF Shreds, Swapped
  <2>5. Adopts'
    BY <1>1, <1>2, <1>3, <2>2, <2>4, ZenonT(60) DEF Adopts
  <2> QED
    BY <2>2, <2>5, StepSound
<1>7. CASE Shreds /\ Swapped
  <2>1. /\ Shreds' /\ dir' \in dirs' /\ \A d \in dirs' : Kept(d)
        /\ dir'["kes"] = dir["kes"] /\ dir'["next"] = dir["next"]
        /\ \A d \in dirs' : Holds(d, next.tree)
        /\ \A d \in dirs' : dir'["kes"] # NoFile => Holds(d, dir'["kes"].tree)
    BY <1>2, <1>7, ShredStep
  <2>2. Swapped'
    BY <1>1, <1>7, <2>1 DEF Swapped
  <2>3. Adopts'
    BY <1>1, <1>3, <2>1, <2>2, ZenonT(60) DEF Adopts
  <2> QED
    BY <2>1, <2>3, StepSound
<1> QED
  BY <1>4, <1>5, <1>6, <1>7 DEF Adopts

\* One file operation of an evolution (evolve_to).
LEMMA EvolveStep ==
    ASSUME Sound, FileStep, Loaded, Evolves
    PROVE  Sound'
<1>1. /\ todo # <<>> /\ todo' = Tail(todo) /\ dir \in dirs /\ job' = job
      /\ job.step = "evolve" /\ job.for \in {"duty", "rotate"} /\ Plain
      /\ key.tree = Newest.tree /\ Leaf \in Nat /\ Leaf > key.leaf
      /\ UNCHANGED <<key, next>> /\ Newest' = Newest /\ Leaf' = Leaf /\ Evolved' = Evolved
  BY StepFrame, ZenonT(60) DEF Sound, Disk, Evolves
<1>2. Evolved \in Files /\ Unreadable \in Files
  BY <1>1 DEF Loaded, Loadable, Files, KeyFile, Evolved
<1>3. CASE todo = <<Create("kesTmp"), Fill("kesTmp", Evolved), RenameTo("kesTmp", "kes"), Syncing>>
  <2>1. /\ Head(todo) = Fill("kesTmp", Unreadable)
        /\ todo' = <<Fill("kesTmp", Evolved), RenameTo("kesTmp", "kes"), Syncing>>
    BY <1>1, <1>3 DEF Create, Fill
  <2>2. /\ dir' \in dirs' /\ \A d \in dirs' : Kept(d)
        /\ \A d \in dirs' : dir'["kes"] # NoFile => Holds(d, dir'["kes"].tree)
        /\ Plain'
    BY <1>1, <1>2, <2>1, TmpStep
  <2>3. Evolves'
    BY <1>1, <2>1, <2>2, ZenonT(60) DEF Evolves
  <2> QED
    BY <2>2, <2>3, StepSound, ZenonT(60)
<1>4. CASE todo = <<Fill("kesTmp", Evolved), RenameTo("kesTmp", "kes"), Syncing>>
  <2>1. /\ Head(todo) = Fill("kesTmp", Evolved)
        /\ todo' = <<RenameTo("kesTmp", "kes"), Syncing>>
    BY <1>1, <1>4
  <2>2. /\ dir' \in dirs' /\ \A d \in dirs' : Kept(d)
        /\ \A d \in dirs' : dir'["kes"] # NoFile => Holds(d, dir'["kes"].tree)
        /\ Plain' /\ dir'["kesTmp"] = Evolved
    BY <1>1, <1>2, <2>1, TmpStep
  <2>3. Evolves'
    BY <1>1, <2>1, <2>2, ZenonT(60) DEF Evolves
  <2> QED
    BY <2>2, <2>3, StepSound
<1>5. CASE todo = <<RenameTo("kesTmp", "kes"), Syncing>> /\ dir["kesTmp"] = Evolved
  <2>1. Head(todo) = RenameTo("kesTmp", "kes") /\ todo' = <<Syncing>>
    BY <1>1, <1>5
  <2>2. /\ dir' \in dirs' /\ \A d \in dirs' : Kept(d)
        /\ \A d \in dirs' : dir'["kes"] # NoFile => Holds(d, dir'["kes"].tree)
        /\ Plain' /\ dir'["kes"] = Evolved
    BY <1>1, <1>5, <2>1, EvolvedInPlace, ZenonT(60)
  <2>3. Evolves'
    BY <1>1, <2>1, <2>2, ZenonT(60) DEF Evolves
  <2> QED
    BY <2>2, <2>3, StepSound
<1>6. CASE todo = <<Syncing>> /\ dir["kes"] = Evolved
  <2>1. Head(todo) = Syncing /\ todo' = <<>>
    BY <1>1, <1>6
  <2>2. /\ dir' = dir /\ dirs' = {dir} /\ dir' \in dirs'
        /\ \A d \in dirs' : d \in dirs /\ Kept(d)
        /\ \A d \in dirs' : dir'["kes"] # NoFile => Holds(d, dir'["kes"].tree)
    BY <2>1, SyncKeeps, ZenonT(60)
  <2>3. Plain'
    BY <1>1, <2>2 DEF Plain, Clean
  <2>4. Evolves'
    BY <1>1, <1>6, <2>1, <2>2, <2>3, ZenonT(60) DEF Evolves
  <2> QED
    BY <2>2, <2>4, StepSound
<1> QED
  BY <1>1, <1>3, <1>4, <1>5, <1>6, ZenonT(60) DEF Evolves

\* One file operation that seals a generated key (save_named).
LEMMA SealStep ==
    ASSUME Sound, FileStep, Loaded, Seals
    PROVE  Sound'
<1>1. /\ todo # <<>> /\ todo' = Tail(todo) /\ dir \in dirs /\ job' = job
      /\ job.step = "seal" /\ job.for = "turn" /\ Plain /\ next = NoFile /\ keygen > 0
      /\ UNCHANGED <<key, next, keygen>> /\ Newest' = Newest /\ Successor' = Successor
  BY StepFrame DEF Sound, Disk, Seals
<1>2. Successor \in Files /\ Unreadable \in Files
  BY <1>1, ZenonT(60) DEF Sound, Numbered, Files, KeyFile, Successor
<1>3. CASE todo = <<Create("nextTmp"), Fill("nextTmp", Successor), RenameTo("nextTmp", "next"), Syncing>>
  <2>1. /\ Head(todo) = Fill("nextTmp", Unreadable)
        /\ todo' = <<Fill("nextTmp", Successor), RenameTo("nextTmp", "next"), Syncing>>
    BY <1>1, <1>3 DEF Create, Fill
  <2>2. /\ dir' \in dirs' /\ \A d \in dirs' : Kept(d)
        /\ \A d \in dirs' : dir'["kes"] # NoFile => Holds(d, dir'["kes"].tree)
        /\ Plain'
    BY <1>1, <1>2, <2>1, TmpStep
  <2>3. Seals'
    BY <1>1, <2>1, <2>2, ZenonT(60) DEF Seals
  <2> QED
    BY <2>2, <2>3, StepSound
<1>4. CASE todo = <<Fill("nextTmp", Successor), RenameTo("nextTmp", "next"), Syncing>>
  <2>1. /\ Head(todo) = Fill("nextTmp", Successor)
        /\ todo' = <<RenameTo("nextTmp", "next"), Syncing>>
    BY <1>1, <1>4
  <2>2. /\ dir' \in dirs' /\ \A d \in dirs' : Kept(d)
        /\ \A d \in dirs' : dir'["kes"] # NoFile => Holds(d, dir'["kes"].tree)
        /\ Plain' /\ dir'["nextTmp"] = Successor
    BY <1>1, <1>2, <2>1, TmpStep
  <2>3. Seals'
    BY <1>1, <2>1, <2>2, ZenonT(60) DEF Seals
  <2> QED
    BY <2>2, <2>3, StepSound
<1>5. CASE todo = <<RenameTo("nextTmp", "next"), Syncing>> /\ dir["nextTmp"] = Successor
  <2>1. Head(todo) = RenameTo("nextTmp", "next") /\ todo' = <<Syncing>>
    BY <1>1, <1>5
  <2>2. /\ dir' \in dirs' /\ \A d \in dirs' : Kept(d)
        /\ \A d \in dirs' : dir'["kes"] # NoFile => Holds(d, dir'["kes"].tree)
        /\ Plain' /\ dir'["next"] = Successor
    BY <1>1, <1>5, <2>1, SuccessorInPlace
  <2>3. Seals'
    BY <1>1, <2>1, <2>2, ZenonT(60) DEF Seals
  <2> QED
    BY <2>2, <2>3, StepSound
<1>6. CASE todo = <<Syncing>> /\ dir["next"] = Successor
  <2>1. Head(todo) = Syncing /\ todo' = <<>>
    BY <1>1, <1>6
  <2>2. /\ dir' = dir /\ dirs' = {dir} /\ dir' \in dirs'
        /\ \A d \in dirs' : d \in dirs /\ Kept(d)
        /\ \A d \in dirs' : dir'["kes"] # NoFile => Holds(d, dir'["kes"].tree)
    BY <2>1, SyncKeeps
  <2>3. Plain'
    BY <1>1, <2>2 DEF Plain, Clean
  <2>4. Seals'
    BY <1>1, <1>6, <2>1, <2>2, <2>3 DEF Seals
  <2> QED
    BY <2>2, <2>4, StepSound
<1> QED
  BY <1>1, <1>3, <1>4, <1>5, <1>6, ZenonT(60) DEF Seals

\* One file operation of whatever job runs.
LEMMA FileStepSound ==
    ASSUME Sound, FileStep
    PROVE  Sound'
<1>1. todo # <<>> /\ Mode
  BY StepFrame DEF Sound
<1>2. CASE running /\ Unloaded /\ Boots
  BY <1>2, BootStep
<1>3. CASE Loaded
  <2>1. CASE Adopts
    BY <1>3, <2>1, AdoptStep
  <2>2. CASE Evolves
    BY <1>3, <2>2, EvolveStep
  <2>3. CASE Seals
    BY <1>3, <2>3, SealStep
  <2> QED
    BY <1>1, <1>3, <2>1, <2>2, <2>3 DEF Loaded, Rests
<1> QED
  BY <1>1, <1>2, <1>3 DEF Mode

-----------------------------------------------------------------------------
(* The invariant.                                                          *)

\* A validator that has run keygen once and is not registered.
LEMMA NodeInit == KesInit => Sound
<1> SUFFICES ASSUME KesInit PROVE Sound
  OBVIOUS
<1> DEFINE k == [tree |-> 1, leaf |-> 0]
<1>1. /\ LedgerInv /\ entry = NoEntry /\ ~Registered /\ entry.next = NoKey /\ ~Pending
      /\ entry.current.tree = 0 /\ entry.next.tree = 0
  BY InitInv, ZenonT(60) DEF KesInit, LedgerInit, NoEntry, NoKey, Registered, Pending, PendingAt
<1>2. Chain
  BY <1>1, ZenonT(60) DEF Chain, KesInit
<1>3. k \in KeyFile /\ k # NoFile /\ k.tree = 1 /\ NoFile.tree = 0 /\ NoFile.leaf = 0
  BY KesNodeConstants, KesConstants DEF KeyFile, NoFile
<1>4. \A t \in {0, 1} : Old(t)
  BY DEF Old, KesInit
<1>5. \A m \in Marks : m.tree = 0 /\ m.leaf = 0
  BY <1>3 DEF Marks, KesInit, NoTx
<1>6. Numbered /\ Tallies
  BY <1>1, <1>3, <1>4, <1>5 DEF Numbered, Tallies, KesInit, NoTx
<1>7. /\ dir \in [Names -> Files] /\ dir["kes"] = k /\ dir["next"] = NoFile
      /\ dir["retired"] = NoFile
  BY <1>3, ZenonT(60) DEF KesInit, Names, Files
<1>8. Loadable(k, NoFile)
  BY <1>1, <1>3 DEF Loadable, KesInit
<1>9. Top(k) /\ Top(NoFile)
  BY <1>3, <1>5 DEF Top
<1>10. Kept(dir) /\ Holds(dir, k.tree)
  BY <1>3, <1>4, <1>7, <1>8, <1>9 DEF Kept, Holds, Interrupted
<1>11. Disk
  BY <1>7, <1>10 DEF Disk, KesInit
<1>12. Mode
  BY DEF Mode, Unloaded, KesInit
<1> QED
  BY <1>2, <1>6, <1>11, <1>12 DEF Sound

\* A step of nobody keeps everything.
LEMMA Stutters ==
    ASSUME Sound, UNCHANGED kesVars
    PROVE  Sound'
<1>1. /\ Chain /\ Numbered /\ Tallies /\ Disk /\ Mode
      /\ UNCHANGED <<ledgerVars, running, dir, dirs, key, next, keygen, job, todo, pool, signed,
                     made, duties>>
      /\ UNCHANGED <<keyFiles, entry>>
  BY DEF Sound, kesVars, nodeVars, keyFiles, signerVars, tallies, ledgerVars
<1>2. /\ Chain' /\ (\A k, n : Loadable(k, n)' <=> Loadable(k, n))
      /\ Newest' = Newest /\ (Pending' <=> Pending)
      /\ Marks' = Marks /\ (\A f : Top(f)' <=> Top(f)) /\ (\A t : Old(t)' <=> Old(t))
      /\ (\A d : Kept(d) => Kept(d)')
  BY <1>1, SameChain, SameLeaves, SameTrees, SameKept
<1>3. Disk' /\ Numbered' /\ Tallies'
  BY <1>1, <1>2, ZenonT(60) DEF Disk, Numbered, Tallies, ledgerVars
<1>4. /\ Plain' <=> Plain
      /\ Heir' <=> Heir
      /\ MidSwap' <=> MidSwap
      /\ Swapped' <=> Swapped
  BY <1>1, SamePlace
<1>5. Wanted' = Wanted /\ Leaf' = Leaf /\ Evolved' = Evolved /\ Successor' = Successor
  BY <1>1 DEF Wanted, Leaf, Evolved, Successor, ledgerVars
<1>6. JobOK' <=> JobOK
  BY <1>1, <1>5, ZenonT(60) DEF JobOK, CanRotate, UsableNext, ledgerVars
<1>7. Shreds' <=> Shreds
  BY <1>1, ZenonT(60) DEF Shreds, Clean
<1>8. (Boots => Boots') /\ (Unloaded => Unloaded')
  BY <1>1, <1>7 DEF Boots, Interrupted, Unloaded
<1>9. Adopts => Adopts'
  BY <1>1, <1>2, <1>4, <1>7, ZenonT(60) DEF Adopts
<1>10. Evolves => Evolves'
  BY <1>1, <1>2, <1>4, <1>5, ZenonT(60) DEF Evolves
<1>11. Seals => Seals'
  BY <1>1, <1>4, <1>5 DEF Seals
<1>12. Rests => Rests'
  BY <1>1, <1>4 DEF Rests
<1>13. Loaded => Loaded'
  <2>1. ASSUME Loaded PROVE Loadable(key, next)' /\ Top(key)' /\ Top(next)'
    BY <1>1, <1>2, <2>1 DEF Loaded
  <2> QED
    BY <1>1, <1>6, <1>9, <1>10, <1>11, <1>12, <2>1 DEF Loaded
<1>14. Mode'
  BY <1>1, <1>8, <1>13 DEF Mode
<1> QED
  BY <1>2, <1>3, <1>14 DEF Sound

\* Only a start-up changes exposed, and never back.
LEMMA OnceExposed ==
    ASSUME [KesNext]_kesVars
    PROVE  exposed => exposed'
<1>1. CASE Start
  BY <1>1, ZenonT(60) DEF Start
<1>2. CASE JobStep
  BY <1>2, ZenonT(60) DEF JobStep, FileStep, PrepareAdopts, Promote, Adopted, PrepareRefused, EvolveTo,
     EvolveDone, SignDuty, Sealed, TurnAdopts, TurnKeeps, Decide, SubmitRotation, Load, tallies
<1>3. CASE UNCHANGED kesVars
  BY <1>3 DEF kesVars, nodeVars, tallies
<1>4. ASSUME KesNext, ~Start, ~JobStep PROVE exposed' = exposed
  BY <1>4 DEF KesNext, FileFails, Turn, KeygenDone, KeygenFails, Duty, ChainCloses, ChainRegisters,
     ChainRotates, OperatorKeygen, KesCrash, KesPowerLoss, KesDie, tallies, nodeVars
<1> QED
  BY <1>1, <1>2, <1>3, <1>4, ZenonT(60)

\* The invariant is inductive.
LEMMA NodeStep == NodeInv /\ [KesNext]_kesVars => NodeInv'
<1> SUFFICES ASSUME Sound, [KesNext]_kesVars, ~exposed' PROVE Sound'
  BY OnceExposed DEF NodeInv
<1>1. CASE JobStep
  <2>1. CASE FileStep
    BY <2>1, FileStepSound
  <2>2. CASE PrepareAdopts \/ TurnAdopts
    BY <2>2, TakesUpSound
  <2>3. CASE Adopted
    BY <2>3, AdoptedSound
  <2>4. CASE PrepareRefused
    BY <2>4, RefusedSound
  <2>5. CASE EvolveTo
    BY <2>5, EvolveToSound
  <2>6. CASE EvolveDone
    BY <2>6, EvolveDoneSound
  <2>7. CASE SignDuty
    BY <2>7, SignSound
  <2>8. CASE Sealed
    BY <2>8, SealedSound
  <2>9. CASE TurnKeeps
    BY <2>9, TurnKeepsSound
  <2>10. CASE Decide
    BY <2>10, DecideSound
  <2>11. CASE SubmitRotation
    BY <2>11, SubmitSound
  <2>12. CASE Load
    BY <2>12, LoadSound
  <2> QED
    BY <1>1, <2>1, <2>2, <2>3, <2>4, <2>5, <2>6, <2>7, <2>8, <2>9, <2>10, <2>11, <2>12 DEF JobStep
<1>2. CASE FileFails
  BY <1>2, FailsSound
<1>3. CASE Turn
  BY <1>3, TurnSound
<1>4. CASE Start
  BY <1>4, StartSound
<1>5. CASE KeygenDone \/ KeygenFails
  BY <1>5, KeygenSound
<1>6. CASE \E e \in 0..MaxEpoch : Duty(e)
  BY <1>6, DutySound
<1>7. CASE \E covered \in BOOLEAN : ChainCloses(covered)
  BY <1>7, ClosesSound
<1>8. CASE ChainRegisters
  BY <1>8, RegistersSound
<1>9. CASE ChainRotates
  BY <1>9, RotatesSound
<1>10. CASE OperatorKeygen
  BY <1>10, OperatorSound
<1>11. CASE KesCrash \/ KesPowerLoss
  BY <1>11, CrashSound
<1>12. CASE UNCHANGED kesVars
  BY <1>12, Stutters
<1> QED
  BY <1>1, <1>2, <1>3, <1>4, <1>5, <1>6, <1>7, <1>8, <1>9, <1>10, <1>11, <1>12 DEF KesNext

\* The files, the memory and the chain fit together at every moment, whatever crashes, power
\* losses and failed file operations occur, until a start-up uses a directory never synced.
THEOREM NodeInvariant == KesSpec => []NodeInv
<1>1. KesInit => NodeInv
  BY NodeInit DEF NodeInv
<1> QED
  BY <1>1, NodeStep, PTL DEF KesSpec

\* What start-up loads from a directory that is kept.
LEMMA KeptLoads ==
    ASSUME NEW d, Kept(d)
    PROVE  Loadable(Recovered(d)["kes"], Recovered(d)["next"])
<1>1. CASE Interrupted(d)
  <2>1. Recovered(d)["kes"] = d["next"] /\ Recovered(d)["next"] = NoFile
    BY <1>1 DEF Recovered, Renamed, Kept, Names
  <2> QED
    BY <1>1, <2>1 DEF Kept
<1>2. CASE ~Interrupted(d)
  BY <1>2 DEF Kept, Recovered
<1> QED
  BY <1>1, <1>2, ZenonT(60)

\* Whatever instant a crash or a power loss picks, the key files load, and among them are the
\* keys the chain holds the validator to (save_named, promote_next, maintain_kes).
THEOREM KeysAlwaysAtHand == KesSpec => []KeysAtHand
<1>1. NodeInv => KeysAtHand
  <2> SUFFICES ASSUME ~exposed, Sound PROVE KeysAtHand
    BY ZenonT(60) DEF NodeInv, KeysAtHand, KeyLoads, HoldsKeyInForce
  <2>1. Chain /\ \A d \in dirs : Loadable(Recovered(d)["kes"], Recovered(d)["next"])
    BY KeptLoads DEF Sound, Disk
  <2>2. KeyLoads
    BY <2>1, FileFacts, ZenonT(60) DEF KeyLoads, Loadable
  <2>3. HoldsKeyInForce
    <3> SUFFICES ASSUME Registered, NEW d \in dirs
                 PROVE  LET r == Recovered(d)
                            held == {r["kes"].tree, r["next"].tree}
                            inForce == InForce(entry, Period(epoch))
                        IN  /\ Period(epoch) < EndPeriod(Newest) => Newest.tree \in held
                            /\ Signs(inForce, Period(epoch)) =>
                                 \/ inForce.tree \in held
                                 \/ r["kes"].tree = Newest.tree /\ duties > 0
      BY ZenonT(60) DEF HoldsKeyInForce, Newest
    <3> DEFINE k == Recovered(d)["kes"]
               n == Recovered(d)["next"]
    <3>1. Loadable(k, n)
      BY <2>1
    <3>2. Period(epoch) < EndPeriod(Newest) => Newest.tree \in {k.tree, n.tree}
      BY <3>1, ZenonT(60) DEF Loadable
    <3>3. CASE Pending
      <4>1. InForce(entry, Period(epoch)) = entry.current
        BY <2>1, <3>3, InForceAhead, KeyTypes DEF Pending, PendingAt, Keys
      <4> QED
        BY <3>1, <3>2, <3>3, <4>1, ZenonT(60) DEF Loadable
    <3>4. CASE ~Pending
      <4>1. InForce(entry, Period(epoch)) = Newest
        BY <2>1, <3>4, InForceAhead, KeyTypes DEF Pending, PendingAt, Keys
      <4> QED
        BY <3>2, <4>1, ZenonT(60) DEF Signs
    <3> QED
      BY <3>3, <3>4, ZenonT(60)
  <2> QED
    BY <2>2, <2>3 DEF KeysAtHand
<1> QED
  BY <1>1, NodeInvariant, PTL

\* "Once that rename lands, no earlier seed exists" (kes_key.rs, evolve_to): no file that
\* start-up reads, even one a power loss brings back, can sign with a leaf before one that has
\* signed a message.
THEOREM SignedLeavesDurable == KesSpec => []SignedLeafDurable
<1>1. NodeInv => SignedLeafDurable
  <2> SUFFICES ASSUME Sound, NEW s \in signed, NEW d \in dirs, NEW n \in {"kes", "next", "retired"},
                      d[n].tree = s.tree
               PROVE  d[n].leaf >= s.leaf
    BY ZenonT(60) DEF NodeInv, SignedLeafDurable
  <2>1. s \in Marks /\ Kept(d)
    BY DEF Sound, Disk, Marks
  <2>2. s.leaf <= d[n].leaf
    BY <2>1, ZenonT(60) DEF Kept, Top
  <2>3. s.leaf \in Int /\ d[n].leaf \in Int
    <3>1. d[n] \in Files
      BY <2>1 DEF Kept, Names
    <3> QED
      BY <2>1, <3>1, MarkLeaves, FileFacts
  <2> QED
    BY <2>2, <2>3
<1> QED
  BY <1>1, NodeInvariant, PTL

\* While the node signs with validator.kes, the key it replaced is gone for good (promote_next,
\* finish_interrupted_rotation), for every number of crashes and failed file operations.
THEOREM ReplacedKeyShredded == KesSpec => []RetiredShredded
<1>1. NodeInv => RetiredShredded
  <2> SUFFICES ASSUME Sound, running, job = Idle, key.tree = dir["kes"].tree
               PROVE  /\ dir["retired"] = NoFile
                      /\ \A d \in dirs : d["retired"] \in {NoFile, Unreadable}
    BY DEF NodeInv, RetiredShredded
  <2>1. Loaded /\ Rests
    BY IdleRests, ZenonT(60) DEF Sound
  <2>2. key.tree # 0 /\ NoFile.tree = 0 /\ (next # NoFile => next.tree # key.tree)
    BY <2>1, FileFacts, ZenonT(60) DEF Loaded, Loadable
  <2>3. Plain
    BY <2>1, <2>2 DEF Rests, Heir, MidSwap, Swapped
  <2> QED
    BY <2>3 DEF Plain, Clean
<1> QED
  BY <1>1, NodeInvariant, PTL

-----------------------------------------------------------------------------
(* The chain the node follows is KesLedger's, exposed or not.              *)

Held == [tree : Trees, leaf : Int]
Stored == Held \cup {NoFile, Unreadable}

FileOps ==
    [op : {"write"}, name : Names, file : Stored] \cup [op : {"rename"}, name : Names, to : Names]
        \cup [op : {"sync"}] \cup [op : {"zero"}, name : Names]

\* Every file, in memory, on disk or about to be written, names a tree or nothing.
NodeTypes ==
    /\ LedgerInv
    /\ dirs \subseteq [Names -> Stored] /\ dir \in dirs
    /\ key \in Held \cup {NoFile} /\ next \in Held \cup {NoFile}
    /\ keygen \in Trees \cup {0, -1}
    /\ pool # NoTx => pool.tree \in Trees
    /\ todo \in Seq(FileOps)
    /\ job \in [for : {"idle", "boot", "duty", "turn", "rotate"},
                step : {"idle", "load", "prepare", "adopt", "evolve", "poll", "decide", "seal"},
                epoch : Nat]
    /\ job.step = "evolve" => key # NoFile
    /\ job.step = "seal" => job.for = "turn" /\ keygen \in Trees
    /\ job.for = "rotate" =>
           job.step \in {"prepare", "evolve"} /\ key.tree = Wanted.tree /\ next # NoFile
    /\ ~running => job = Idle

\* A file with a key is neither missing nor unreadable.
LEMMA HeldFiles ==
    /\ \A f \in Held : f # NoFile /\ f # Unreadable
    /\ NoFile \in Stored /\ Unreadable \in Stored /\ Held \subseteq Stored
BY KesConstants DEF Held, Stored, NoFile, Unreadable

\* The file operations write files.
LEMMA OpTypes ==
    /\ \A n \in Names, f \in Stored : Fill(n, f) \in FileOps /\ Create(n) \in FileOps
    /\ \A n \in Names : RemoveFile(n) \in FileOps /\ Zero(n) \in FileOps
    /\ \A a, b \in Names : RenameTo(a, b) \in FileOps
    /\ SyncKesDir \in FileOps
BY HeldFiles, ZenonT(60) DEF FileOps, Fill, Create, RemoveFile, Zero, RenameTo, SyncKesDir

\* The plans of a job are lists of file operations.
LEMMA PlanTypes ==
    /\ \A d : PromoteNext(d) \in Seq(FileOps)
    /\ \A d : FinishInterruptedRotation(d) \in Seq(FileOps)
    /\ \A n \in {"kes", "next"}, f \in Stored : SaveNamed(n, f) \in Seq(FileOps)
<1>1. /\ RenameTo("kes", "retired") \in FileOps /\ RenameTo("next", "kes") \in FileOps
      /\ SyncKesDir \in FileOps /\ Zero("retired") \in FileOps /\ RemoveFile("retired") \in FileOps
  BY OpTypes DEF Names
<1>2. ASSUME NEW d PROVE Shred(d) \in Seq(FileOps)
  BY <1>1 DEF Shred
<1>3. ASSUME NEW d PROVE PromoteNext(d) \in Seq(FileOps)
  <2>1. Swap(d) \in Seq(FileOps) /\ <<SyncKesDir>> \in Seq(FileOps)
    BY <1>1 DEF Swap
  <2>2. Shred(Cleared(d)) \in Seq(FileOps)
    BY <1>2
  <2> QED
    BY <2>1, <2>2 DEF PromoteNext
<1>4. ASSUME NEW d PROVE FinishInterruptedRotation(d) \in Seq(FileOps)
  BY <1>1, <1>2 DEF FinishInterruptedRotation
<1>5. ASSUME NEW n \in {"kes", "next"}, NEW f \in Stored PROVE SaveNamed(n, f) \in Seq(FileOps)
  <2>1. TmpOf(n) \in Names /\ n \in Names
    BY DEF TmpOf, Names
  <2>2. /\ Create(TmpOf(n)) \in FileOps /\ Fill(TmpOf(n), f) \in FileOps
        /\ RenameTo(TmpOf(n), n) \in FileOps
    BY <2>1, OpTypes, ZenonT(60)
  <2> QED
    BY <1>1, <2>2 DEF SaveNamed
<1> QED
  BY <1>3, <1>4, <1>5

\* What a file operation writes is what was there, or what the operation carries.
LEMMA FileTypes ==
    ASSUME NodeTypes, FileStep
    PROVE  dirs' \subseteq [Names -> Stored] /\ dir' \in dirs' /\ todo' \in Seq(FileOps)
<1>1. /\ todo \in Seq(FileOps) /\ todo # <<>> /\ todo' = Tail(todo)
      /\ dir \in [Names -> Stored] /\ dirs \subseteq [Names -> Stored] /\ dir \in dirs
  BY ZenonT(60) DEF NodeTypes, FileStep
<1>2. Head(todo) \in FileOps /\ todo' \in Seq(FileOps)
  BY <1>1
<1> DEFINE step == Head(todo)
           zeroed(d) == [n \in Names |-> IF d[n] = dir[step.name] THEN Unreadable ELSE d[n]]
<1>3. CASE step.op = "write"
  <2>1. step.name \in Names /\ step.file \in Stored
    BY <1>2, <1>3 DEF FileOps
  <2>2. dir' = [dir EXCEPT ![step.name] = step.file] /\ dirs' = dirs \cup {dir'}
    BY <1>3, ZenonT(60) DEF FileStep
  <2> QED
    BY <1>1, <1>2, <2>1, <2>2
<1>4. CASE step.op = "rename"
  <2>1. step.name \in Names /\ step.to \in Names
    BY <1>2, <1>4 DEF FileOps
  <2>2. dir' = Renamed(dir, step.name, step.to) /\ dirs' = dirs \cup {dir'}
    BY <1>4, ZenonT(60) DEF FileStep
  <2>3. Renamed(dir, step.name, step.to) \in [Names -> Stored]
    BY <1>1, <2>1, HeldFiles DEF Renamed
  <2> QED
    BY <1>1, <1>2, <2>2, <2>3
<1>5. CASE step.op = "zero"
  <2>1. dir' = zeroed(dir) /\ dirs' = {zeroed(d) : d \in dirs}
    BY <1>5 DEF FileStep
  <2>2. \A d \in dirs : zeroed(d) \in [Names -> Stored]
    BY <1>1, HeldFiles
  <2> QED
    BY <1>1, <1>2, <2>1, <2>2, ZenonT(60)
<1>6. CASE step.op = "sync"
  <2>1. dir' = dir /\ dirs' = {dir}
    BY <1>6 DEF FileStep
  <2> QED
    BY <1>1, <1>2, <2>1, ZenonT(60)
<1> QED
  BY <1>2, <1>3, <1>4, <1>5, <1>6 DEF FileOps

\* The evolved key has the tree of the key it evolves.
LEMMA EvolvedTypes ==
    ASSUME NodeTypes, key # NoFile
    PROVE  Evolved \in Held /\ Evolved.tree = key.tree
<1>1. \A p \in Nat : InForce(entry, p).start \in Nat
  <2>1. entry.current.start \in Nat /\ entry.next.start \in Nat
        /\ \A old \in entry.retired : old.key.start \in Nat
    BY ZenonT(60) DEF NodeTypes, LedgerInv, WellFormed, Entry, Keys, Olds
  <2> QED
    BY <2>1, ZenonT(60) DEF InForce
<1>2. job.epoch \in Nat /\ key \in Held
  BY DEF NodeTypes
<1>3. Leaf \in Int
  BY <1>1, <1>2, PeriodNat DEF Leaf, Wanted
<1> QED
  BY <1>2, <1>3 DEF Evolved, Held

\* The first key file names tree 1.
LEMMA NodeTypesInit == KesInit => NodeTypes
<1> SUFFICES ASSUME KesInit PROVE NodeTypes
  OBVIOUS
<1>1. [tree |-> 1, leaf |-> 0] \in Held
  BY KesNodeConstants DEF Held
<1>2. LedgerInv
  BY InitInv DEF KesInit
<1> QED
  BY <1>1, <1>2, HeldFiles DEF KesInit, NodeTypes, Idle, Names

\* A step of the chain is a step of the ledger.
LEMMA ChainIsLedger ==
    ASSUME NodeTypes,
           (\E covered \in BOOLEAN : ChainCloses(covered)) \/ ChainRegisters \/ ChainRotates
    PROVE  LedgerNext
<1>1. CASE \E covered \in BOOLEAN : ChainCloses(covered)
  BY <1>1 DEF ChainCloses, LedgerNext
<1>2. CASE ChainRegisters
  <2>1. dir["kes"] \in Held
    BY <1>2 DEF NodeTypes, ChainRegisters, Stored, Names
  <2>2. dir["kes"].tree \in Trees
    BY <2>1 DEF Held
  <2> QED
    BY <1>2, <2>2, ZenonT(60) DEF ChainRegisters, LedgerNext
<1>3. CASE ChainRotates
  <2>1. pool.tree \in Trees /\ KesRotate(pool.tree, pool.period)
    BY <1>3, ZenonT(60) DEF NodeTypes, ChainRotates
  <2>2. pool.period = Period(epoch)
    BY <2>1 DEF KesRotate, RotateRefuses
  <2> QED
    BY <2>1, <2>2, ZenonT(60) DEF LedgerNext
<1> QED
  BY <1>1, <1>2, <1>3

LEMMA SameLedger == ASSUME LedgerInv, UNCHANGED ledgerVars PROVE LedgerInv'
BY ZenonT(60) DEF LedgerInv, ledgerVars

\* A job ends.
LEMMA JobEnds ==
    ASSUME NodeTypes, job' = Idle, keygen' \in Trees \cup {0, -1},
           pool' # NoTx => pool' = pool \/ pool'.tree \in Trees,
           UNCHANGED <<ledgerVars, running, keyFiles, key, next, todo>>
    PROVE  NodeTypes' /\ [LedgerNext]_ledgerVars
<1>1. LedgerInv' /\ UNCHANGED ledgerVars
  BY SameLedger, ZenonT(60) DEF NodeTypes
<1>2. pool' # NoTx => pool'.tree \in Trees
  BY DEF NodeTypes
<1>3. /\ Idle.for = "idle" /\ Idle.step = "idle"
      /\ Idle \in [for : {"idle", "boot", "duty", "turn", "rotate"},
                   step : {"idle", "load", "prepare", "adopt", "evolve", "poll", "decide", "seal"},
                   epoch : Nat]
  BY DEF Idle
<1> QED
  BY <1>1, <1>2, <1>3 DEF NodeTypes, keyFiles

\* Files keep naming trees, and the ledger makes steps of its own only.
LEMMA NodeTypesStep ==
    ASSUME NodeTypes, [KesNext]_kesVars
    PROVE  NodeTypes' /\ [LedgerNext]_ledgerVars
<1> USE DEF NodeTypes
<1>1. CASE FileStep
  <2>1. dirs' \subseteq [Names -> Stored] /\ dir' \in dirs' /\ todo' \in Seq(FileOps)
    BY <1>1, FileTypes, ZenonT(60)
  <2> QED
    BY <1>1, <2>1, ZenonT(60) DEF FileStep, ledgerVars, signerVars, Wanted, LedgerInv
<1>2. CASE PrepareAdopts \/ TurnAdopts
  <2>1. job.for # "rotate" /\ running
    BY <1>2, ZenonT(60) DEF PrepareAdopts, TurnAdopts, Adopting, AdoptsSuccessor, Preparing, At
  <2>2. PromoteNext(dir) \in Seq(FileOps)
    BY PlanTypes, ZenonT(60)
  <2>3. /\ UNCHANGED <<ledgerVars, running, dir, dirs, key, next, keygen, pool>>
        /\ \/ job' = Idle /\ todo' = todo
           \/ job' = [job EXCEPT !.step = "adopt"] /\ todo' = PromoteNext(dir)
    BY <1>2 DEF PrepareAdopts, TurnAdopts, Promote, keyFiles, signerVars
  <2>4. CASE job' = Idle /\ todo' = todo
    BY <2>3, <2>4 DEF ledgerVars, LedgerInv, Idle
  <2>5. CASE job' = [job EXCEPT !.step = "adopt"] /\ todo' = PromoteNext(dir)
    BY <2>1, <2>2, <2>3, <2>5 DEF ledgerVars, LedgerInv
  <2> QED
    BY <2>3, <2>4, <2>5
<1>3. CASE Adopted
  BY <1>3 DEF Adopted, At, ledgerVars, keyFiles, LedgerInv
<1>4. CASE PrepareRefused \/ SignDuty
  <2> HIDE DEF NodeTypes
  <2>1. /\ job' = Idle /\ UNCHANGED <<ledgerVars, running, keyFiles, key, next, keygen, todo, pool>>
    BY <1>4, ZenonT(60) DEF PrepareRefused, SignDuty, signerVars
  <2>2. keygen \in Trees \cup {0, -1}
    BY ZenonT(60) DEF NodeTypes
  <2> QED
    BY <2>1, <2>2, JobEnds
<1>5. CASE EvolveTo
  <2>1. key # NoFile /\ running /\ job.for \in {"duty", "rotate"}
    BY <1>5 DEF EvolveTo, Ready, PrepareRefuses, NoSigner, Preparing, At
  <2>2. SaveNamed("kes", Evolved) \in Seq(FileOps)
    BY <2>1, EvolvedTypes, PlanTypes, HeldFiles, ZenonT(60)
  <2> QED
    BY <1>5, <2>1, <2>2 DEF EvolveTo, ledgerVars, keyFiles, signerVars, LedgerInv, Wanted
<1>6. CASE EvolveDone
  <2>1. key # NoFile /\ Evolved \in Held /\ Evolved.tree = key.tree /\ running
    BY <1>6, EvolvedTypes, ZenonT(60) DEF EvolveDone, At
  <2>2. Evolved # NoFile
    BY <2>1, HeldFiles, ZenonT(60)
  <2> QED
    BY <1>6, <2>1, <2>2 DEF EvolveDone, At, ledgerVars, keyFiles, LedgerInv, Wanted
<1>7. CASE Sealed
  <2>1. [tree |-> keygen, leaf |-> 0] \in Held /\ running /\ job.for = "turn"
    BY <1>7 DEF Sealed, At, Held
  <2> QED
    BY <1>7, <2>1 DEF Sealed, ledgerVars, keyFiles, LedgerInv
<1>8. CASE TurnKeeps \/ Decide \/ SubmitRotation
  <2>1. CASE TurnKeeps
    BY <2>1 DEF TurnKeeps, At, ledgerVars, keyFiles, signerVars, LedgerInv
  <2>2. CASE Decide
    <3> HIDE DEF NodeTypes
    <3>1. /\ UNCHANGED <<ledgerVars, running, keyFiles, key, next, todo, pool>>
          /\ job.for = "turn" /\ job.step = "decide"
      BY <2>2, ZenonT(60) DEF Decide, At
    <3>2. CASE job' = Idle /\ keygen' \in {keygen, -1}
      <4>1. keygen' \in Trees \cup {0, -1}
        BY <3>2, ZenonT(60) DEF NodeTypes
      <4> QED
        BY <3>1, <3>2, <4>1, JobEnds
    <3>3. CASE Submits /\ keygen' = keygen
               /\ job' = [for |-> "rotate", step |-> "prepare", epoch |-> job.epoch]
      <4>1. next # NoFile /\ key.tree = Wanted.tree /\ running
        <5>1. running
          <6>1. running \/ job = Idle
            BY ZenonT(60) DEF NodeTypes
          <6> QED
            BY <3>1, <6>1 DEF Idle
        <5> QED
          BY <3>3, <5>1, ZenonT(60) DEF Submits, CanRotate, UsableNext
      <4>2. Wanted' = Wanted /\ LedgerInv'
        <5>1. Wanted' = Wanted
          BY <3>1, <3>3 DEF Wanted, ledgerVars
        <5> QED
          BY <3>1, <5>1, SameLedger, ZenonT(60) DEF NodeTypes
      <4> QED
        BY <3>1, <3>3, <4>1, <4>2 DEF NodeTypes, keyFiles
    <3> QED
      BY <2>2, <3>2, <3>3, ZenonT(60) DEF Decide
  <2>3. CASE SubmitRotation
    <3>1. next \in Held /\ next.tree \in Trees
      BY <2>3, ZenonT(60) DEF SubmitRotation, At, Held
    <3> QED
      <4> HIDE DEF NodeTypes
      <4>1. /\ job' = Idle /\ UNCHANGED <<ledgerVars, running, keyFiles, key, next, keygen, todo>>
            /\ pool' # NoTx => pool' = pool \/ pool'.tree = next.tree
        BY <2>3 DEF SubmitRotation
      <4>2. keygen \in Trees \cup {0, -1}
        BY ZenonT(60) DEF NodeTypes
      <4> QED
        BY <3>1, <4>1, <4>2, JobEnds
  <2> QED
    BY <1>8, <2>1, <2>2, <2>3, ZenonT(60)
<1>9. CASE Load
  <2>1. dir["kes"] \in Held \cup {NoFile} /\ dir["next"] \in Held \cup {NoFile}
    BY <1>9, ZenonT(60) DEF Load, Stored, Names
  <2> QED
    BY <1>9, <2>1, ZenonT(60) DEF Load, ledgerVars, keyFiles, LedgerInv, Idle
<1>10. CASE FileFails
  <2>1. <<>> \in Seq(FileOps)
    OBVIOUS
  <2>2. /\ UNCHANGED <<ledgerVars, dir, dirs, key, next, pool>> /\ todo' = <<>>
        /\ running' = (job.for # "boot")
    BY <1>10 DEF FileFails, keyFiles
  <2>3. CASE job.step = "seal"
    <3>1. job' = [job EXCEPT !.step = "poll"] /\ keygen' = 0 /\ running' /\ job.for = "turn"
      BY <1>10, <2>2, <2>3, ZenonT(60) DEF FileFails
    <3> QED
      BY <2>1, <2>2, <3>1 DEF ledgerVars, LedgerInv
  <2>4. CASE job.step # "seal"
    <3>1. job' = Idle /\ keygen' = keygen
      BY <1>10, <2>4 DEF FileFails
    <3> QED
      BY <2>1, <2>2, <3>1, ZenonT(60) DEF ledgerVars, LedgerInv, Idle
  <2> QED
    BY <2>3, <2>4, ZenonT(60)
<1>11. CASE Turn
  <2>1. keygen > 0 => keygen \in Trees /\ [tree |-> keygen, leaf |-> 0] \in Held
    BY DEF Held
  <2>2. keygen > 0 => SaveNamed("next", [tree |-> keygen, leaf |-> 0]) \in Seq(FileOps)
    BY <2>1, PlanTypes, HeldFiles, ZenonT(60)
  <2>3. epoch \in Nat
    BY ZenonT(60) DEF LedgerInv
  <2>4. UNCHANGED <<ledgerVars, running, dir, dirs, key, next, keygen, pool>> /\ running
    BY <1>11, ZenonT(60) DEF Turn, keyFiles, signerVars
  <2>5. CASE keygen > 0
    <3>1. /\ todo' = SaveNamed("next", [tree |-> keygen, leaf |-> 0])
          /\ job' = [for |-> "turn", step |-> "seal", epoch |-> epoch]
      BY <1>11, <2>5, ZenonT(60) DEF Turn
    <3> QED
      BY <2>1, <2>2, <2>3, <2>4, <2>5, <3>1, ZenonT(60) DEF ledgerVars, LedgerInv
  <2>6. CASE ~(keygen > 0)
    <3>1. todo' = todo /\ job' = [for |-> "turn", step |-> "poll", epoch |-> epoch]
      BY <1>11, <2>6, ZenonT(60) DEF Turn
    <3> QED
      BY <2>3, <2>4, <3>1, ZenonT(60) DEF ledgerVars, LedgerInv
  <2> QED
    BY <2>5, <2>6, ZenonT(60)
<1>12. CASE Start
  <2>1. FinishInterruptedRotation(dir) \in Seq(FileOps)
    BY PlanTypes, ZenonT(60)
  <2> QED
    BY <1>12, <2>1, ZenonT(60) DEF Start, ledgerVars, keyFiles, signerVars, LedgerInv
<1>13. CASE KeygenDone \/ KeygenFails
  <2>1. job.step # "seal"
    <3>1. keygen = -1
      BY <1>13, ZenonT(60) DEF KeygenDone, KeygenFails
    <3>2. ~(-1 \in Trees)
      BY KesConstants
    <3>3. job.step = "seal" => keygen \in Trees
      BY ZenonT(60) DEF NodeTypes
    <3> QED
      BY <3>1, <3>2, <3>3, ZenonT(60)
  <2> QED
    BY <1>13, <2>1, ZenonT(60) DEF KeygenDone, KeygenFails, ledgerVars, keyFiles, LedgerInv, Wanted
<1>14. CASE \E e \in 0..MaxEpoch : Duty(e)
  <2>1. PICK e \in 0..MaxEpoch : Duty(e)
    BY <1>14, ZenonT(60)
  <2>2. e \in Nat
    BY KesConstants
  <2> QED
    BY <2>1, <2>2, ZenonT(60) DEF Duty, ledgerVars, keyFiles, signerVars, LedgerInv
<1>15. CASE (\E covered \in BOOLEAN : ChainCloses(covered)) \/ ChainRegisters \/ ChainRotates
  <2>1. LedgerNext
    BY <1>15, ChainIsLedger, ZenonT(60)
  <2>2. LedgerInv'
    BY <2>1, NextInv, ZenonT(60)
  <2>3. job = Idle
    BY <1>15, ZenonT(60) DEF ChainCloses, ChainRegisters, ChainRotates
  <2>4. UNCHANGED <<running, dir, dirs, key, next, keygen, job, todo>> /\ (pool' = pool \/ pool' = NoTx)
    BY <1>15, ZenonT(60) DEF ChainCloses, ChainRegisters, ChainRotates, nodeVars, keyFiles, signerVars
  <2> QED
    BY <2>1, <2>2, <2>3, <2>4, ZenonT(60) DEF Idle
<1>16. CASE OperatorKeygen
  <2>1. [tree |-> made + 1, leaf |-> 0] \in Stored
    BY <1>16 DEF OperatorKeygen, Held, Stored
  <2>2. dir' \in [Names -> Stored] /\ dirs' = {dir'}
    BY <1>16, <2>1, ZenonT(60) DEF OperatorKeygen, Names
  <2> QED
    <3>1. /\ job = Idle /\ ~running
          /\ UNCHANGED <<ledgerVars, running, key, next, keygen, job, todo, pool>>
      BY <1>16, ZenonT(60) DEF OperatorKeygen, signerVars
    <3>2. LedgerInv' /\ Wanted' = Wanted
      <4>1. Wanted' = Wanted
        BY <3>1, ZenonT(60) DEF Wanted, ledgerVars
      <4> QED
        BY <3>1, <4>1, SameLedger, ZenonT(60)
    <3> QED
      BY <2>2, <3>1, <3>2 DEF Idle
<1>17. CASE KesCrash \/ KesPowerLoss
  <2>1. <<>> \in Seq(FileOps)
    OBVIOUS
  <2>2. dirs' \subseteq [Names -> Stored] /\ dir' \in dirs'
    BY <1>17, ZenonT(60) DEF KesCrash, KesPowerLoss, keyFiles
  <2>3. /\ UNCHANGED <<ledgerVars, pool>> /\ todo' = <<>> /\ job' = Idle
        /\ key' = NoFile /\ next' = NoFile /\ keygen' = 0
    BY <1>17, ZenonT(60) DEF KesCrash, KesPowerLoss, KesDie
  <2> QED
    BY <2>1, <2>2, <2>3, ZenonT(60) DEF ledgerVars, LedgerInv, Idle
<1>18. CASE UNCHANGED kesVars
  <2>1. UNCHANGED <<ledgerVars, running, dir, dirs, key, next, keygen, job, todo, pool>>
    BY <1>18, ZenonT(60) DEF kesVars, nodeVars, keyFiles, signerVars
  <2>2. LedgerInv' /\ Wanted' = Wanted
    <3>1. Wanted' = Wanted
      BY <2>1, ZenonT(60) DEF Wanted, ledgerVars
    <3> QED
      BY <2>1, <3>1, SameLedger, ZenonT(60)
  <2> QED
    BY <2>1, <2>2, ZenonT(60)
<1> QED
  BY ZenonT(60), <1>1, <1>2, <1>3, <1>4, <1>5, <1>6, <1>7, <1>8, <1>9, <1>10, <1>11, <1>12, <1>13, <1>14, <1>15,
     <1>16, <1>17, <1>18 DEF KesNext, JobStep

\* What the node does to the chain's record of its key is what KesLedger allows, so what is
\* proved of the ledger holds in the node's runs.
THEOREM NodeImplementsLedger == KesSpec => LedgerSpec
<1>1. KesInit => LedgerInit /\ NodeTypes
  BY NodeTypesInit DEF KesInit
<1>2. NodeTypes /\ [KesNext]_kesVars => NodeTypes' /\ [LedgerNext]_ledgerVars
  BY NodeTypesStep
<1> QED
  BY <1>1, <1>2, PTL DEF KesSpec, LedgerSpec

\* Evidence stays provable beside a node that signs, rotates, crashes and restarts.
THEOREM NodeEvidenceProvable == KesSpec => AuthorityFixed
BY NodeImplementsLedger, EvidenceProvable, PTL
=============================================================================

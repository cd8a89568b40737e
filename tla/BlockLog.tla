------------------------------ MODULE BlockLog ------------------------------
(***************************************************************************)
(* The block log and its index (crates/bloch-pos-node/src/store.rs):       *)
(* appends, the reorg writer thread that replaces the log, readers that    *)
(* serve sync requests, crashes and power losses between any two file      *)
(* operations, and the repair on open.                                     *)
(*                                                                         *)
(* A frame is a block, a block its slot and the branch it was built on.    *)
(* `log' and `idx' are what a process reads from the two files, `logDisk'  *)
(* and `idxDisk' what the names durably refer to: a file renamed into its  *)
(* place has the name once the directory is synced.  An index entry is the *)
(* slot and the position of a frame.  A state is the chain that led to it, *)
(* so a state cache (engine/local_cache.rs) holds two chains: the one in   *)
(* the log it was written beside, and the one its state is of.             *)
(***************************************************************************)
EXTENDS Integers, Sequences, FiniteSetsExt

CONSTANTS
    MaxSlot,      \* bound on slots
    MaxEvents,    \* bound on reorganisations and crashes, together
    Limit,        \* frames to a served page
    MaxTail,      \* MAX_UNINDEXED_TAIL_SCAN_FRAMES
    CacheInterval \* local_cache::INTERVAL

ASSUME LogConstants ==
    /\ MaxSlot \in Nat /\ MaxEvents \in Nat
    /\ Limit \in Nat \ {0} /\ MaxTail \in Nat \ {0} /\ CacheInterval \in Nat \ {0}

VARIABLES
    up,         \* the store is open, or why not: "down", "refused"
    chain,      \* the canonical chain the engine has in memory
    reorgs,     \* how many reorganisations there were
    crashes,
    log, torn,  \* blocks.log: its complete frames, and whether a part of one follows
    logDisk,
    acked,      \* the chain last reported durable, or the two an unsynced rename leaves
    idx,        \* blocks.idx; NoIndex without its magic
    idxDisk,
    appending,  \* the block whose append is in progress, or <<>>
    enabled,    \* index_append_enabled
    writer,     \* the reorg writer thread: its next operation, and the log it writes
    pending,    \* pending_rewrite
    completed,  \* rewrite_completed
    stale,      \* the store's handles are of the log before the rename
    caches,     \* state.cache and state.cache.previous, <<>> for none
    reader      \* a blocks_after in progress

files == <<log, torn, logDisk, acked, idx, idxDisk>>
handles == <<enabled, writer, pending, completed, stale>>
blockLogVars == <<up, chain, reorgs, crashes, files, appending, handles, caches, reader>>

NoIndex == [magic |-> FALSE, entries |-> <<>>]
Entry(frames, i) == [slot |-> frames[i].slot, at |-> i]
Index(frames) == [magic |-> TRUE, entries |-> [i \in DOMAIN frames |-> Entry(frames, i)]]
Covered(entries) == IF entries = <<>> THEN 0 ELSE entries[Len(entries)].at
NoWriter == [next |-> "none", new |-> <<>>]
NoReader == [at |-> "idle"]

LastSlot(frames) == IF frames = <<>> THEN 0 ELSE frames[Len(frames)].slot

-----------------------------------------------------------------------------
(* Append.                                                                 *)

\* write_local_cache: the log's fingerprint beside the state of c; the cache before it is
\* kept.  Its publication syncs the directory, and so the log's name too.
WriteCache(c) ==
    IF c = <<>> THEN UNCHANGED <<caches, logDisk>>
    ELSE caches' = <<[log |-> log, state |-> c], caches[1]>> /\ logDisk' = log

\* finish_pending_rewrite: the writer's result is received, and both files are reopened.
Joined == pending => writer.next = "done"
Reopen ==
    /\ pending' = FALSE
    /\ acked' = IF pending THEN {log} ELSE acked
    /\ completed' = (completed \/ pending)
    /\ writer' = NoWriter
    /\ stale' = FALSE
    /\ enabled' = (enabled \/ pending)

\* append joins the writer, and begins to write the frame of the block just applied.
StartAppend(b) ==
    /\ up = "open" /\ appending = <<>>
    /\ Joined
    /\ Reopen
    /\ chain' = Append(chain, b)
    /\ appending' = <<b>>
    /\ torn' = TRUE
    /\ UNCHANGED <<up, reorgs, crashes, log, logDisk, idx, idxDisk, caches, reader>>

\* The whole frame is written and synced; through a stale handle, to the file that was
\* replaced.  The sync does not reach the directory: while the rename of this file is not
\* durable, neither is the frame.
SyncAppend ==
    /\ up = "open" /\ appending # <<>> /\ torn
    /\ log' = IF stale THEN log ELSE log \o appending
    /\ logDisk' = IF logDisk = log THEN log' ELSE logDisk
    /\ torn' = FALSE
    /\ UNCHANGED <<up, chain, reorgs, crashes, acked, idx, idxDisk, appending, handles, caches, reader>>

\* Mutant: entries after one that failed are written.
IndexAppendAfterFailure(fails) ==
    /\ up = "open" /\ appending # <<>> /\ ~torn
    /\ idx' = IF fails THEN idx ELSE [idx EXCEPT !.entries = Append(@, Entry(log, Len(log)))]
    /\ appending' = <<>>
    /\ IF Len(chain) % CacheInterval = 0 THEN WriteCache(chain) ELSE UNCHANGED <<caches, logDisk>>
    /\ acked' = {chain}
    /\ UNCHANGED <<up, chain, reorgs, crashes, log, torn, idxDisk, handles, reader>>

\* Then its index entry, which is not synced; one that fails is the last one tried.  Every
\* CacheInterval blocks the state is cached.
IndexAppend(fails) ==
    /\ up = "open" /\ appending # <<>> /\ ~torn
    /\ idx' = IF enabled /\ ~fails
                THEN [idx EXCEPT !.entries = Append(@, Entry(log, Len(log)))] ELSE idx
    /\ enabled' = (enabled /\ ~fails)
    /\ appending' = <<>>
    /\ acked' = {chain}
    /\ IF Len(chain) % CacheInterval = 0 THEN WriteCache(chain) ELSE UNCHANGED <<caches, logDisk>>
    /\ UNCHANGED <<up, chain, reorgs, crashes, log, torn, idxDisk, writer, pending, completed,
                   stale, reader>>

-----------------------------------------------------------------------------
(* A reorganisation replaces the tail of the log.                          *)

\* rewrite_tail_async, after the rewrite before it has been joined.
RewriteTail(keep, tail) ==
    /\ up = "open" /\ appending = <<>>
    /\ Joined
    /\ reorgs + crashes < MaxEvents
    /\ reorgs' = reorgs + 1
    /\ chain' = SubSeq(chain, 1, keep) \o tail
    /\ pending' = TRUE
    /\ completed' = (completed \/ pending)
    /\ writer' = [next |-> "stage", new |-> SubSeq(log, 1, keep) \o tail]
    /\ stale' = FALSE
    /\ enabled' = (enabled \/ pending)
    /\ acked' = IF pending THEN {log} ELSE acked
    /\ UNCHANGED <<up, crashes, log, torn, logDisk, idx, idxDisk, appending, caches, reader>>

Writing(op, then) == writer.next = op /\ writer' = [writer EXCEPT !.next = then]
WriterFrame == UNCHANGED <<up, chain, reorgs, crashes, torn, acked, appending, enabled, pending, completed,
                           caches, reader>>

\* rewrite_tail_files: the retained prefix must end with the ancestor; the new log is staged
\* and synced under another name.
Stage == Writing("stage", "lock") /\ WriterFrame /\ UNCHANGED <<log, logDisk, idx, idxDisk, stale>>

\* publish_staged_rewrite, under the generation's write lock: the old index is made durably
\* unusable, the new log is renamed into place, the rename is synced, the index rebuilt.
TakeLock ==
    /\ reader = NoReader
    /\ Writing("lock", "zero") /\ WriterFrame
    /\ UNCHANGED <<log, logDisk, idx, idxDisk, stale>>
ZeroIndex ==
    /\ Writing("zero", "rename") /\ WriterFrame
    /\ idx' = NoIndex /\ idxDisk' = NoIndex
    /\ UNCHANGED <<log, logDisk, stale>>
Rename ==
    /\ Writing("rename", "sync") /\ WriterFrame
    /\ log' = writer.new
    /\ stale' = TRUE
    /\ UNCHANGED <<logDisk, idx, idxDisk>>
SyncDir ==
    /\ Writing("sync", "rebuild") /\ WriterFrame
    /\ logDisk' = log
    /\ UNCHANGED <<log, idx, idxDisk, stale>>
RebuildIndex ==
    /\ Writing("rebuild", "done") /\ WriterFrame
    /\ idx' = Index(log) /\ idxDisk' = Index(log)
    /\ UNCHANGED <<log, logDisk, stale>>

WriterStep == Stage \/ TakeLock \/ ZeroIndex \/ Rename \/ SyncDir \/ RebuildIndex

\* Mutant: the state is cached while the rewrite is pending.
PollPending ==
    /\ up = "open" /\ appending = <<>> /\ pending
    /\ WriteCache(chain)
    /\ UNCHANGED <<up, chain, reorgs, crashes, log, torn, acked, idx, idxDisk, appending, handles,
                   reader>>

\* poll_rewrite; once the rewrite is durable, however it was joined, the state is cached.
Poll ==
    /\ up = "open" /\ appending = <<>>
    /\ Joined
    /\ completed \/ pending
    /\ pending' = FALSE /\ completed' = FALSE
    /\ acked' = IF pending THEN {log} ELSE acked
    /\ writer' = NoWriter /\ stale' = FALSE /\ enabled' = (enabled \/ pending)
    /\ WriteCache(chain)
    /\ UNCHANGED <<up, chain, reorgs, crashes, log, torn, idx, idxDisk, appending, reader>>

-----------------------------------------------------------------------------
(* Serving: blocks_after_inner on another thread, under the generation's   *)
(* read lock, while the engine appends.                                    *)

Publishing == writer.next \in {"zero", "rename", "sync", "rebuild"}

\* The page of frames after a slot.
Page(frames, after) ==
    LET wanted == SelectSeq(frames, LAMBDA b : b.slot > after) IN
    SubSeq(wanted, 1, Min({Limit, Len(wanted)}))

ReaderFrame == UNCHANGED <<up, chain, reorgs, crashes, files, appending, handles, caches>>

\* The length of the log is read first.
ReadLength(after) ==
    /\ up = "open" /\ reader = NoReader /\ ~Publishing
    /\ reader' = [at |-> "index", after |-> after, log |-> log]
    /\ ReaderFrame

\* index_start: where to scan, and the slot expected there (0: of the unindexed tail).
Nowhere == [at |-> 0, expect |-> 0]
Nothing == [at |-> -1, expect |-> 0]
IndexStart(entries, after, length) ==
    LET past == {i \in DOMAIN entries : entries[i].slot > after}
        covered == Covered(entries)
        hit == entries[Min(past)]
    IN  CASE ~idx.magic \/ covered > length \/ (entries = <<>> /\ length > 0) -> Nowhere
          [] past # {} -> [at |-> hit.at, expect |-> hit.slot]
          [] entries = <<>> \/ covered < length -> [at |-> covered + 1, expect |-> 0]
          [] OTHER -> Nothing

ReadIndex ==
    /\ up = "open" /\ reader.at = "index"
    /\ reader' = [at |-> "scan", after |-> reader.after, log |-> reader.log,
                  start |-> IndexStart(idx.entries, reader.after, Len(reader.log))]
    /\ ReaderFrame

\* scan_page: from there to the end of the log as it is now.  The frame an entry names must
\* have its slot; past the index, MaxTail frames are scanned at most.
ScanFails(start, after) ==
    LET frames == SubSeq(log, start.at, Len(log)) IN
    \/ start = Nowhere
    \/ start.expect # 0 /\ frames # <<>> /\ frames[1].slot # start.expect
    \/ /\ start # Nothing /\ start.expect = 0 /\ Len(frames) > MaxTail
       /\ Len(Page(SubSeq(frames, 1, MaxTail), after)) < Limit

Scan ==
    /\ up = "open" /\ reader.at = "scan"
    /\ reader' = IF ScanFails(reader.start, reader.after) THEN NoReader
                 ELSE [at |-> "done", after |-> reader.after, log |-> reader.log,
                       page |-> IF reader.start = Nothing THEN <<>>
                                ELSE Page(SubSeq(log, reader.start.at, Len(log)), reader.after)]
    /\ ReaderFrame

\* Mutant: the read lock is kept.
ServeLocked ==
    /\ up = "open" /\ reader.at = "done"
    /\ UNCHANGED reader
    /\ ReaderFrame

\* The page is served, and the read lock released.
Serve ==
    /\ up = "open" /\ reader.at = "done"
    /\ reader' = NoReader
    /\ ReaderFrame

-----------------------------------------------------------------------------
(* Crashes, and open.                                                      *)

Exit ==
    /\ up = "open" /\ up' = "down"
    /\ appending' = <<>> /\ writer' = NoWriter /\ pending' = FALSE /\ completed' = FALSE
    /\ stale' = FALSE /\ enabled' = TRUE /\ reader' = NoReader
    /\ UNCHANGED <<chain, reorgs>>

\* stop_at_slot: the rewrite is joined, and the state cached if there was one.
StopAtSlot ==
    /\ appending = <<>> /\ Joined
    /\ IF completed \/ pending THEN WriteCache(chain) ELSE UNCHANGED <<caches, logDisk>>
    /\ acked' = IF pending THEN {log} ELSE acked
    /\ Exit
    /\ UNCHANGED <<crashes, log, torn, idx, idxDisk>>

Die ==
    /\ reorgs + crashes < MaxEvents
    /\ crashes' = crashes + 1
    /\ Exit

\* The process dies: the files are as they were last written.  A cache being written is not
\* in place yet.
CrashLog ==
    /\ Die
    /\ caches' \in {caches, <<<<>>, caches[2]>>}
    /\ UNCHANGED files

\* The machine loses power: of what was not synced, any part may be missing.
PowerLoss ==
    /\ Die
    /\ \/ log' = log /\ torn' \in {FALSE, torn}
       \/ log' = logDisk /\ torn' = FALSE
    /\ logDisk' = log'
    /\ idx' \in {idxDisk} \cup
                {[idx EXCEPT !.entries = SubSeq(@, 1, n)] :
                    n \in Len(idxDisk.entries)..Len(idx.entries)}
    /\ idxDisk' = idx'
    /\ caches' \in {caches, <<<<>>, caches[2]>>}
    /\ UNCHANGED acked

\* read_local_cache and restore_local_cache: a cache whose log is a prefix of the log gives
\* the state that the rest of the log is replayed on; the older one is tried second.
Usable(cache) ==
    cache # <<>> /\ Len(cache.log) <= Len(log) /\ SubSeq(log, 1, Len(cache.log)) = cache.log
ReplayedOn(cache) == cache.state \o SubSeq(log, Len(cache.log) + 1, Len(log))
Restored ==
    IF Usable(caches[1]) THEN ReplayedOn(caches[1])
    ELSE IF Usable(caches[2]) THEN ReplayedOn(caches[2]) ELSE log

\* The cache that is used holds the whole log.
NothingReplayed ==
    \/ Usable(caches[1]) /\ caches[1].log = log
    \/ ~Usable(caches[1]) /\ Usable(caches[2]) /\ caches[2].log = log

\* Mutant: the state is not cached at boot.
NoBootCache == UNCHANGED <<caches, logDisk>>

\* At boot the state is cached, unless it is all from a cache.
BootCache == IF NothingReplayed THEN UNCHANGED <<caches, logDisk>> ELSE WriteCache(Restored)

\* Store::open: repair_log_tail refuses to cut a part of a frame that the index says was
\* complete; the index is rebuilt from the log, and the engine recovers its chain.
OpenLog ==
    /\ up = "down"
    /\ IF torn /\ Covered(idx.entries) > Len(log)
         THEN up' = "refused" /\ UNCHANGED <<chain, files, caches>>
         ELSE /\ up' = "open"
              /\ torn' = FALSE
              /\ idx' = Index(log) /\ idxDisk' = Index(log)
              /\ chain' = Restored
              /\ BootCache
              /\ acked' = {log, logDisk'}
              /\ UNCHANGED log
    /\ UNCHANGED <<reorgs, crashes, appending, handles, reader>>

-----------------------------------------------------------------------------
InitLog ==
    /\ up = "open"
    /\ chain = <<>> /\ reorgs = 0 /\ crashes = 0
    /\ log = <<>> /\ torn = FALSE /\ logDisk = <<>> /\ acked = {<<>>}
    /\ idx = Index(<<>>) /\ idxDisk = Index(<<>>)
    /\ appending = <<>> /\ enabled = TRUE
    /\ writer = NoWriter /\ pending = FALSE /\ completed = FALSE /\ stale = FALSE
    /\ caches = <<<<>>, <<>>>>
    /\ reader = NoReader

Block(slot, branch) == [slot |-> slot, branch |-> branch]

\* The branch a reorganisation adopts above the block at keep: a block or two, the first
\* perhaps after a slot without a block.  It has one: fork choice names a leaf.
Tails(keep) ==
    LET low == LastSlot(SubSeq(chain, 1, keep))
        Run(s, t) == [i \in 1..(t - s + 1) |-> Block(s + i - 1, reorgs + 1)]
    IN  {Run(p[1], p[2]) : p \in {p \in {low + 1, low + 2} \X ((low + 1)..MaxSlot) :
                                     p[1] <= p[2] /\ p[2] <= low + 2}}

\* What the thread that serves does, and the engine's: it finishes an append before it polls.
ReaderStep == ReadIndex \/ Scan \/ Serve
EngineStep == SyncAppend \/ (\E fails \in BOOLEAN : IndexAppend(fails)) \/ Poll \/ OpenLog

\* The slots a page is asked after are bounded short of the last one.
NextLog ==
    \/ LastSlot(chain) < MaxSlot /\ StartAppend(Block(LastSlot(chain) + 1, reorgs))
    \/ EngineStep
    \/ \E keep \in 0..(Len(chain) - 1) : \E tail \in Tails(keep) : RewriteTail(keep, tail)
    \/ WriterStep
    \/ \E after \in 0..(MaxSlot - 2) : ReadLength(after)
    \/ ReaderStep
    \/ CrashLog \/ PowerLoss \/ StopAtSlot

\* The operating system runs the writer and the readers; the engine's loop polls and the
\* node is restarted; and a waiting writer of an RwLock is let in before later readers.
Fairness ==
    /\ WF_blockLogVars(WriterStep) /\ SF_blockLogVars(TakeLock)
    /\ WF_blockLogVars(ReaderStep) /\ WF_blockLogVars(EngineStep)

LogSpec == InitLog /\ [][NextLog]_blockLogVars /\ Fairness

-----------------------------------------------------------------------------
(* Properties.                                                             *)

\* The log a restart would read is the engine's chain, short of the block being appended;
\* or, until the rename of a rewrite, the chain that is replaced.
Replaced == pending /\ writer.next \in {"stage", "lock", "zero", "rename"}
LogIsChain ==
    up = "open" => IF appending # <<>> /\ torn THEN log = SubSeq(chain, 1, Len(chain) - 1)
                   ELSE Replaced \/ log = chain

\* "a crash mid-rewrite leaves either the old log or the new one", and an appended block is
\* durable before it is broadcast: what a crash or a power loss leaves is what was last
\* reported durable, or already the chain decided since.
AckedSurvives == {log, logDisk} \subseteq acked \cup {chain}

\* The chain and the state recovered at boot, through a cache or without one, are those of
\* the log's blocks.
RecoveredIsLogged == [][up = "down" /\ up' = "open" => chain' = log /\ log' = log]_blockLogVars

\* No crash leaves a torn frame that repair_log_tail refuses to cut.
AlwaysOpens == up # "refused"

\* A served page is the page of the log as it was at one moment of the request: no block of
\* it is skipped, and none of a replaced branch is in it.
ServedExactly ==
    reader.at = "done" =>
        \E n \in Len(reader.log)..Len(log) : reader.page = Page(SubSeq(log, 1, n), reader.after)

\* A queued rewrite becomes durable, and the duties it holds back resume.
RewriteLands == pending ~> ~pending
=============================================================================

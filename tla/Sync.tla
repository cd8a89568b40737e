-------------------------------- MODULE Sync --------------------------------
(***************************************************************************)
(* Catching up over the peer network: the window of outgoing get-blocks    *)
(* requests (p2p/sync_requests.rs), who is asked on a timer turn, the      *)
(* page chase with its budget, the engine's share-limited queue and the    *)
(* engine applying what arrives, with peers that come and go, requests     *)
(* that fail late and peers whose blocks this node refuses.                *)
(*                                                                         *)
(* The history is one chain with a block in each slot 1..Tip.  A request's *)
(* identity only has to differ from those still in flight to its peer.     *)
(***************************************************************************)
EXTENDS Integers, Sequences, FiniteSets, SequencesExt

CONSTANTS
    SyncPeers,          \* peer identities, in the order of their bytes
    Faithful,           \* the peers that serve the history, in each choice of them
    Tip,
    Fanout, MaxWaiting, \* SYNC_FANOUT, MAX_WAITING_PEERS
    PageSize, MaxPages, \* MAX_SYNC_BLOCKS, MAX_PAGES_WITHOUT_PROGRESS
    Share,              \* blocks of one peer the engine's queue takes
    Lookback,           \* two epochs of slots
    MaxChurn            \* bound of the model: disconnections, and failures of serving peers

VARIABLES
    serving,            \* the peers that serve the history, fixed
    connected,
    window,             \* Requests: active, waiting; and what libp2p still has in flight
    rotation,           \* sync_rotation
    peer_head, chase,
    queue,              \* block events on their way to the engine
    applied, orphans,   \* the engine's head slot and the later blocks it holds
    churn

syncVars == <<serving, connected, window, rotation, peer_head, chase, queue, applied, orphans, churn>>

Slots == 1..Tip
Smaller(a, b) == IF a < b THEN a ELSE b
Larger(a, b) == IF a > b THEN a ELSE b

NoChase == [pages |-> 0, head |-> 0]

SyncInit ==
    /\ serving \in Faithful
    /\ connected = {}
    /\ window = [active |-> <<>>, waiting |-> <<>>, flight |-> {}]
    /\ rotation = 0
    /\ peer_head = [p \in SyncPeers |-> 0]
    /\ chase = [p \in SyncPeers |-> NoChase]
    /\ queue = <<>> /\ applied = 0 /\ orphans = {}
    /\ churn = 0

-----------------------------------------------------------------------------
(* The request window.                                                     *)

contains(w, p) == p \in DOMAIN w.active

enqueue(w, p, after) ==
    LET queued == {i \in DOMAIN w.waiting : w.waiting[i].peer = p}
    IN  IF contains(w, p) THEN w
        ELSE IF queued # {}
             THEN [w EXCEPT !.waiting = [i \in DOMAIN @ |->
                     IF i \in queued THEN [@[i] EXCEPT !.after = Smaller(@, after)] ELSE @[i]]]
        ELSE IF Len(w.waiting) >= MaxWaiting THEN w
        ELSE [w EXCEPT !.waiting = Append(@, [peer |-> p, after |-> after])]

FreshId(w, p) ==
    LET used == {r.id : r \in {r \in w.flight : r.peer = p}}
    IN  Min(1..Cardinality(used) + 1 \ used)

start(w, p, after) ==
    LET id == FreshId(w, p)
    IN  [w EXCEPT !.active = [q \in DOMAIN @ \cup {p} |-> IF q = p THEN id ELSE @[q]],
                  !.flight = @ \cup {[peer |-> p, id |-> id, after |-> after, old |-> FALSE]}]

\* Starts the front of the queue as long as the window has room.  Nobody waits who has a
\* request already (WindowExact), so start refuses none.
RECURSIVE dispatch(_)
dispatch(w) ==
    IF w.waiting = <<>> \/ Cardinality(DOMAIN w.active) >= Fanout THEN w
    ELSE LET e == Head(w.waiting)
         IN  dispatch(start([w EXCEPT !.waiting = Tail(@)], e.peer, e.after))

Without(f, p) == [q \in DOMAIN f \ {p} |-> f[q]]

\* Mutant: any outcome for the peer ends its current request.
finishesPeer(w, r) == contains(w, r.peer)

\* Whether the end of request r is the end of the peer's current request.
finishes(w, r) == contains(w, r.peer) /\ w.active[r.peer] = r.id

finish(w, r) ==
    LET gone == [w EXCEPT !.flight = @ \ {r}]
    IN  IF finishes(w, r) THEN [gone EXCEPT !.active = Without(@, r.peer)] ELSE gone

\* libp2p reports the outcome of what the closed connection had in flight later on.
forget(w, p) ==
    [active |-> Without(w.active, p),
     waiting |-> SelectSeq(w.waiting, LAMBDA e : e.peer # p),
     flight |-> {[r EXCEPT !.old = @ \/ r.peer = p] : r \in w.flight}]

request_peer_blocks(w, p, after) == dispatch(enqueue(w, p, after))

-----------------------------------------------------------------------------
(* Whom a timer turn asks.                                                 *)

ByBytes(peers) == SetToSortSeq(peers, <)

\* Mutant: the highest heads alone.
sync_targets_ranked(peers, at) ==
    LET ranked == SetToSortSeq(peers, LAMBDA p, q : \/ peer_head[p] > peer_head[q]
                                                    \/ peer_head[p] = peer_head[q] /\ p < q)
    IN  SubSeq(ranked, 1, Smaller(Fanout, Len(ranked)))

\* The exploring slot first, then the highest heads.
sync_targets(peers, at) ==
    LET explore == ByBytes(peers)[at + 1]
        ranked == SetToSortSeq(peers \ {explore},
                    LAMBDA p, q : \/ peer_head[p] > peer_head[q]
                                  \/ peer_head[p] = peer_head[q] /\ p < q)
    IN  <<explore>> \o SubSeq(ranked, 1, Smaller(Fanout - 1, Len(ranked)))

RECURSIVE request_all(_, _, _)
request_all(w, peers, after) ==
    IF peers = <<>> THEN w
    ELSE request_all(request_peer_blocks(w, Head(peers), after), Tail(peers), after)

\* Nothing is finalized here, so the look-back ends at slot 0.
sync_after_slot(needs_sync) ==
    IF ~needs_sync /\ orphans = {} THEN applied
    ELSE LET missing_before == Min({applied} \cup {s - 1 : s \in orphans})
         IN  Larger(0, missing_before - Lookback)

\* The engine's timer, while it is behind.  An orphan sets needs_sync, and so does a head
\* whose branch has a gap; the first request after it clears it.
Timer ==
    /\ applied < Tip
    /\ \E needs_sync \in BOOLEAN :
         LET available == {p \in connected : ~contains(window, p)}
             at == rotation % Cardinality(available)
         IN  IF available = {} THEN UNCHANGED <<window, rotation>>
             ELSE /\ rotation' = (at + 1) % Cardinality(available)
                  /\ window' = request_all(window, sync_targets(available, at),
                                           sync_after_slot(needs_sync))
    /\ UNCHANGED <<serving, connected, peer_head, chase, queue, applied, orphans, churn>>

-----------------------------------------------------------------------------
(* Swarm events.                                                           *)

ConnectionEstablished(p) ==
    /\ p \notin connected
    /\ connected' = connected \cup {p}
    /\ window' = request_peer_blocks(window, p, applied)
    /\ UNCHANGED <<serving, rotation, peer_head, chase, queue, applied, orphans, churn>>

ConnectionClosed(p) ==
    /\ p \in connected /\ churn < MaxChurn
    /\ churn' = churn + 1
    /\ connected' = connected \ {p}
    /\ window' = dispatch(forget(window, p))
    /\ peer_head' = [peer_head EXCEPT ![p] = 0]
    /\ chase' = [chase EXCEPT ![p] = NoChase]
    /\ UNCHANGED <<serving, rotation, queue, applied, orphans>>

\* The budget of page chases one peer has left, after this page.
Chased(p) ==
    LET e == IF applied > chase[p].head THEN [pages |-> 0, head |-> applied] ELSE chase[p]
    IN  IF e.pages >= MaxPages THEN e ELSE [e EXCEPT !.pages = @ + 1]

may_chase_page(p) == applied > chase[p].head \/ chase[p].pages < MaxPages

HistoryPage(after) == [i \in 1..Smaller(PageSize, Larger(0, Tip - after)) |-> [slot |-> after + i, good |-> TRUE]]
RefusedPage(after) == [i \in 1..PageSize |-> [slot |-> Smaller(Tip, after + i), good |-> FALSE]]

\* An empty page (a refused request, a short log) and one that does not decode end the walk
\* as a failure does.
Pages(r) ==
    IF r.peer \in serving THEN {HistoryPage(r.after)}
    ELSE {HistoryPage(r.after), RefusedPage(r.after)}

Response(r, page) ==
    LET p == r.peer
        room == Share - Len(SelectSeq(queue, LAMBDA e : e.peer = p))
        taken == Smaller(room, Len(page))
        highest == IF taken = 0 THEN 0 ELSE page[taken].slot
        full == Len(page) >= PageSize /\ taken = Len(page) /\ highest > 0
        done == finish(window, r)
    IN  IF ~finishes(window, r)
        THEN window' = done /\ UNCHANGED <<queue, chase>>
        ELSE /\ queue' = queue \o [i \in 1..taken |-> [peer |-> p] @@ page[i]]
             /\ chase' = IF full THEN [chase EXCEPT ![p] = Chased(p)] ELSE chase
             /\ window' = dispatch(IF full /\ may_chase_page(p)
                                   THEN request_peer_blocks(done, p, highest) ELSE done)

Answer(r) ==
    /\ r \in window.flight
    /\ \E page \in Pages(r) : Response(r, page)
    /\ UNCHANGED <<serving, connected, rotation, peer_head, applied, orphans, churn>>

\* A timeout, the close of the connection the request went out on, or an empty page.  What a
\* serving peer fails to answer is bounded with the disconnections.
OutboundFailure(r) ==
    /\ r \in window.flight
    /\ \/ (r.old \/ r.peer \notin serving) /\ churn' = churn
       \/ ~r.old /\ r.peer \in serving /\ churn < MaxChurn /\ churn' = churn + 1
    /\ window' = dispatch(finish(window, r))
    /\ UNCHANGED <<serving, connected, rotation, peer_head, chase, queue, applied, orphans>>

-----------------------------------------------------------------------------
(* The engine.                                                             *)

Reachable(held) == Max({s \in 0..Tip : 1..s \subseteq held})

\* A block that attaches is applied with the orphans behind it, and its verdict raises the
\* peer's height hint while the peer is connected.
Ingest ==
    /\ queue # <<>>
    /\ queue' = Tail(queue)
    /\ LET b == Head(queue)
           head == Reachable(1..applied \cup orphans \cup {b.slot})
       IN  \/ /\ b.good /\ b.slot > applied
              /\ applied' = head
              /\ orphans' = {s \in orphans \cup {b.slot} : s > head}
              /\ peer_head' = IF b.slot <= head /\ b.peer \in connected
                              THEN [peer_head EXCEPT ![b.peer] = Larger(@, b.slot)] ELSE peer_head
           \/ /\ ~b.good \/ b.slot <= applied
              /\ UNCHANGED <<applied, orphans, peer_head>>
    /\ UNCHANGED <<serving, connected, window, rotation, chase, churn>>

SyncNext ==
    \/ Timer
    \/ \E p \in SyncPeers : ConnectionEstablished(p) \/ ConnectionClosed(p)
    \/ \E r \in window.flight : Answer(r) \/ OutboundFailure(r)
    \/ Ingest

Redial(p) == p \in serving /\ ConnectionEstablished(p)
Settle(p) == \E r \in window.flight : r.peer = p /\ (Answer(r) \/ OutboundFailure(r))

\* The timer keeps firing while the node is behind, the transport ends every request with an
\* answer or, after its timeout, a failure, configured peers are redialled, and the engine
\* drains its queue.
SyncFairness ==
    /\ WF_syncVars(Timer)
    /\ WF_syncVars(Ingest)
    /\ \A p \in SyncPeers : WF_syncVars(Redial(p)) /\ WF_syncVars(Settle(p))

SyncSpec == SyncInit /\ [][SyncNext]_syncVars /\ SyncFairness

-----------------------------------------------------------------------------
(* Properties.                                                             *)

\* "One shared outgoing response window": what libp2p has in flight over the connections that
\* are up is exactly what the window counts, so a late outcome of an earlier connection never
\* frees a slot that is in use and no slot stays taken for nothing; and nobody waits beside
\* a free slot.
WindowExact ==
    /\ {<<r.peer, r.id>> : r \in {r \in window.flight : ~r.old}}
         = {<<p, window.active[p]>> : p \in DOMAIN window.active}
    /\ Cardinality(DOMAIN window.active) <= Fanout
    /\ window.waiting # <<>> => Cardinality(DOMAIN window.active) = Fanout
    /\ \A e \in Range(window.waiting) : e.peer \in connected /\ ~contains(window, e.peer)

\* With one peer that serves the history, the node gets to the tip: through full queues, pages
\* of peers whose blocks it refuses, spent chase budgets and lost requests.
CatchesUp == serving # {} ~> applied = Tip
=============================================================================

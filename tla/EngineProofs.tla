---------------------------- MODULE EngineProofs ----------------------------
(***************************************************************************)
(* The canonical chain of Engine is stored whole, and holds on to what the *)
(* node has finalized, for every tree of blocks, every transition, every   *)
(* arrival order and any number of restarts.                               *)
(***************************************************************************)
EXTENDS Engine, StakeSums

\* A leaf goes to the SMT solver unless it names another prover.
USE SMTT(60), Z3T(60)

\* The walk of path_to_canonical over N parents, as an equation.
Walks(b, N, cur) ==
    cur = [n \in 0..N |->
              IF n = 0 THEN b
              ELSE IF cur[n - 1] \in blocks THEN world.parent[cur[n - 1]] ELSE cur[n - 1]]

\* There is such a walk.
LEMMA WalkExists == ASSUME NEW b PROVE \A N \in Nat : \E cur : Walks(b, N, cur)
<1> DEFINE G == {N \in Nat : \E cur : Walks(b, N, cur)}
<1>1. 0 \in G
  <2> DEFINE cur == [n \in 0..0 |-> b]
  <2>1. Walks(b, 0, cur)
    BY DEF Walks
  <2> QED
    BY <2>1
<1>2. ASSUME NEW N \in Nat, N \in G PROVE N + 1 \in G
  <2>1. PICK cur : Walks(b, N, cur)
    BY <1>2
  <2> DEFINE new == [n \in 0..N + 1 |->
                IF n = 0 THEN b
                ELSE IF cur[n - 1] \in blocks THEN world.parent[cur[n - 1]] ELSE cur[n - 1]]
  <2>2. \A n \in 0..N : new[n] = cur[n]
    BY <2>1 DEF Walks
  <2>3. \A n \in 0..N + 1 : n # 0 => new[n - 1] = cur[n - 1]
    BY <2>2
  <2>4. new = [n \in 0..N + 1 |->
                IF n = 0 THEN b
                ELSE IF new[n - 1] \in blocks THEN world.parent[new[n - 1]] ELSE new[n - 1]]
    <3> HIDE DEF new
    <3>1. \A n \in 0..N + 1 :
            (IF n = 0 THEN b
             ELSE IF cur[n - 1] \in blocks THEN world.parent[cur[n - 1]] ELSE cur[n - 1])
            = (IF n = 0 THEN b
               ELSE IF new[n - 1] \in blocks THEN world.parent[new[n - 1]] ELSE new[n - 1])
      BY <2>3
    <3> QED
      BY <3>1, ZenonT(60) DEF new
  <2>5. Walks(b, N + 1, new)
    BY <2>4, ZenonT(60) DEF Walks
  <2> QED
    BY <2>5
<1> HIDE DEF G
<1>3. \A N \in Nat : N \in G
  BY <1>1, <1>2, SetInduction
<1> QED
  BY <1>3 DEF G

\* Ancestry is that walk.
LEMMA AncestryWalks ==
    ASSUME NEW b, IsFiniteSet(blocks)
    PROVE  Walks(b, Cardinality(blocks) + 1, Ancestry(b))
<1> DEFINE N == Cardinality(blocks) + 1
<1>1. N \in Nat
  BY FS_CardinalityType
<1>2. \E cur : Walks(b, N, cur)
  BY <1>1, WalkExists
<1>3. Ancestry(b) = CHOOSE cur : Walks(b, N, cur)
  BY DEF Ancestry, Walks
<1> QED
  BY <1>2, <1>3

\* A way from the chain: blocks that are stored and not canonical, each the parent of the
\* next, the first a child of a canonical block.
Linked(w, bs, ancestor, branch) ==
    /\ branch \in Seq(bs)
    /\ \A i \in DOMAIN branch :
         w.parent[branch[i]] = IF i = 1 THEN ancestor ELSE branch[i - 1]
IsWay(path) ==
    \/ path = NoPath
    \/ /\ path = [ancestor |-> path.ancestor, branch |-> path.branch]
       /\ path.ancestor \in Canonical
       /\ Linked(world, blocks, path.ancestor, path.branch)
       /\ Range(path.branch) \cap Canonical = {}

\* path_to_canonical returns a way from the chain, or nothing.
LEMMA PathIsWay ==
    ASSUME IsFiniteSet(blocks), NEW b
    PROVE  IsWay(PathToCanonical(b))
<1> DEFINE N == Cardinality(blocks) + 1
           cur == Ancestry(b)
<1>1. N \in Nat
  BY FS_CardinalityType
<1>2. Walks(b, N, cur)
  BY AncestryWalks
<1> HIDE DEF cur
<1>3. PathToCanonical(b) = PathAlong(cur)
  BY DEF PathToCanonical, cur
<1>4. CASE Met(cur) = {}
  BY <1>3, <1>4 DEF PathAlong, IsWay
<1>5. CASE Met(cur) # {}
  <2> DEFINE n == CHOOSE k \in Met(cur) : TRUE
             branch == [i \in 1..n |-> cur[n - i]]
  <2>1. n \in Met(cur)
    BY <1>5
  <2>2. PathToCanonical(b) = [ancestor |-> cur[n], branch |-> branch]
    BY <1>3, <1>5 DEF PathAlong
  <2> HIDE DEF n
  <2>3. DOMAIN cur = 0..N
    BY <1>2 DEF Walks
  <2>4. /\ n \in 0..N /\ cur[n] \in Canonical
        /\ \A i \in 0..n - 1 : cur[i] \in blocks \ Canonical
    BY <2>1, <2>3 DEF Met
  <2>5. \A i \in 1..n : cur[n - i] \in blocks \ Canonical
    BY <1>1, <2>4
  <2>6. \A i \in 0..n - 1 : world.parent[cur[i]] = cur[i + 1]
    <3>1. SUFFICES ASSUME NEW i \in 0..n - 1 PROVE world.parent[cur[i]] = cur[i + 1]
      OBVIOUS
    <3>2. i + 1 \in 0..N /\ i + 1 # 0 /\ (i + 1) - 1 = i
      BY <1>1, <2>4
    <3>3. cur[i + 1] = IF cur[(i + 1) - 1] \in blocks THEN world.parent[cur[(i + 1) - 1]]
                       ELSE cur[(i + 1) - 1]
      BY <1>2, <3>2, ZenonT(60) DEF Walks
    <3> QED
      BY <2>4, <3>2, <3>3
  <2>7. n \in Nat /\ branch \in Seq(blocks) /\ DOMAIN branch = 1..n
    BY <1>1, <2>4, <2>5
  <2>8. \A i \in 1..n : world.parent[branch[i]] = IF i = 1 THEN cur[n] ELSE branch[i - 1]
    <3>1. SUFFICES ASSUME NEW i \in 1..n
                   PROVE  world.parent[branch[i]] = IF i = 1 THEN cur[n] ELSE branch[i - 1]
      OBVIOUS
    <3>2. n - i \in 0..n - 1 /\ branch[i] = cur[n - i]
      BY <2>7
    <3>3. world.parent[branch[i]] = cur[(n - i) + 1]
      BY <2>6, <3>2
    <3>4. CASE i = 1
      BY <2>7, <3>3, <3>4
    <3>5. CASE i # 1
      <4>1. i - 1 \in 1..n /\ n - (i - 1) = (n - i) + 1
        BY <2>7, <3>5
      <4>2. branch[i - 1] = cur[n - (i - 1)]
        BY <4>1
      <4> QED
        BY <3>3, <3>5, <4>1, <4>2
    <3> QED
      BY <3>4, <3>5
  <2>9. Range(branch) \cap Canonical = {}
    BY <2>5 DEF Range
  <2> HIDE DEF branch
  <2>10. Linked(world, blocks, cur[n], branch)
    BY <2>7, <2>8 DEF Linked
  <2> QED
    BY <2>2, <2>4, <2>9, <2>10 DEF IsWay
<1> QED
  BY <1>4, <1>5

-----------------------------------------------------------------------------
\* Heights, checkpoints and the latch.

\* A set of numbers below a bound has a greatest one.
LEMMA MaxIn ==
    ASSUME NEW N \in Nat, NEW S \in SUBSET (0..N), S # {}
    PROVE  Max(S) \in S
<1> DEFINE T == {N - x : x \in S}
<1>1. T \subseteq Nat /\ T # {}
  <2>1. \A x \in S : N - x \in Nat
    OBVIOUS
  <2> QED
    BY <2>1, ZenonT(60)
<1> HIDE DEF T
<1>2. PICK t \in T : \A u \in T : ~(<<u, t>> \in OpToRel(<, Nat))
  BY <1>1, WFMin, NatLessThanWellFounded, ZenonT(60)
<1>3. \A u \in T : ~(u < t)
  BY <1>1, <1>2, ZenonT(60) DEF OpToRel
<1>4. PICK x \in S : t = N - x
  BY DEF T
<1>5. \A y \in S : x >= y
  <2>1. SUFFICES ASSUME NEW y \in S PROVE x >= y
    OBVIOUS
  <2>2. N - y \in T /\ ~(N - y < N - x)
    BY <1>3, <1>4 DEF T
  <2> QED
    BY <2>2
<1> QED
  BY <1>5, ZenonT(60) DEF Max

LEMMA HeightIn ==
    ASSUME NEW S, NEW c \in Seq(S), NEW x \in Range(c)
    PROVE  /\ Height(c, x) \in 0..Len(c) - 1
           /\ c[Height(c, x) + 1] = x
<1> DEFINE i == CHOOSE i \in DOMAIN c : c[i] = x
<1>1. \E k \in DOMAIN c : c[k] = x
  BY DEF Range
<1>2. i \in DOMAIN c /\ c[i] = x
  BY <1>1
<1>3. Height(c, x) = i - 1
  BY DEF Height
<1> HIDE DEF i
<1>4. i \in 1..Len(c) /\ Len(c) \in Nat
  BY <1>2
<1> QED
  BY <1>2, <1>3, <1>4

\* A finalized height is that of a block of the chain.  Above genesis, the block is the one
\* the chain finalizes.
LEMMA FinalizedIn ==
    ASSUME NEW S, NEW c \in Seq(S), c # <<>>
    PROVE  /\ FinalizedHeight(c) \in 0..Len(c) - 1
           /\ FinalizedHeight(c) # 0 => c[FinalizedHeight(c) + 1] = Finalized(c)
<1>1. Len(c) \in Nat /\ Len(c) # 0
  OBVIOUS
<1>2. CASE Finalized(c) \in Range(c)
  BY <1>2, HeightIn DEF FinalizedHeight
<1>3. CASE Finalized(c) \notin Range(c)
  BY <1>1, <1>3 DEF FinalizedHeight
<1> QED
  BY <1>2, <1>3

\* The latch names a block of the chain c.
Holds(l, c) == l.height \in Nat /\ l.height < Len(c) /\ c[l.height + 1] = l.root

LEMMA RatchetHolds ==
    ASSUME NEW S, NEW c \in Seq(S), c # <<>>, Holds(latch, c)
    PROVE  Holds(RatchetedLatch(c), c)
<1> DEFINE h == FinalizedHeight(c)
<1>1. h \in 0..Len(c) - 1 /\ (h # 0 => c[h + 1] = Finalized(c)) /\ Len(c) \in Nat
  BY FinalizedIn
<1>2. RatchetedLatch(c) = IF h > latch.height THEN [height |-> h, root |-> Finalized(c)] ELSE latch
  BY DEF RatchetedLatch
<1> HIDE DEF h
<1> QED
  BY <1>1, <1>2 DEF Holds

LEMMA ReplayHolds ==
    ASSUME NEW S, NEW c \in Seq(S), c # <<>>, c[1] = Genesis
    PROVE  Holds(ReplayedLatch(c), c)
<1> DEFINE H == {FinalizedHeight(SubSeq(c, 1, i)) : i \in DOMAIN c}
           h == Max(H)
<1>1. Len(c) \in Nat /\ Len(c) # 0 /\ DOMAIN c = 1..Len(c) /\ Len(c) - 1 \in Nat
  OBVIOUS
<1>2. ASSUME NEW i \in DOMAIN c
      PROVE  FinalizedHeight(SubSeq(c, 1, i)) \in 0..Len(c) - 1
  <2> DEFINE p == SubSeq(c, 1, i)
  <2>1. p \in Seq(S) /\ Len(p) = i /\ i \in 1..Len(c)
    BY <1>1
  <2>2. p # <<>>
    BY <1>1, <2>1
  <2> HIDE DEF p
  <2>3. FinalizedHeight(p) \in 0..Len(p) - 1
    BY <2>1, <2>2, FinalizedIn
  <2>4. FinalizedHeight(p) \in 0..Len(c) - 1
    BY <1>1, <2>1, <2>3
  <2> QED
    BY <2>4 DEF p
<1>3. H \in SUBSET (0..Len(c) - 1) /\ H # {}
  BY <1>1, <1>2
<1>4. ReplayedLatch(c) = IF h = 0 THEN NoLatch ELSE [height |-> h, root |-> c[h + 1]]
  BY DEF ReplayedLatch
<1> HIDE DEF H
<1>5. h \in 0..Len(c) - 1
  BY <1>1, <1>3, MaxIn, ZenonT(60)
<1> HIDE DEF h
<1> QED
  BY <1>1, <1>4, <1>5 DEF Holds, NoLatch

-----------------------------------------------------------------------------
\* A chain that replays in the world w, and the inductive invariant: the chain and the log
\* are such chains, the chain is stored, the way that `advance' has chosen still starts on
\* the chain and is stored, and the latch names a block of the chain.
Replays(w, c) ==
    /\ c \in Seq(w.valid \cup {Genesis}) /\ c # <<>> /\ c[1] = Genesis
    /\ \A i \in 2..Len(c) : c[i] \in w.valid /\ w.parent[c[i]] = c[i - 1]

Stored(c, bs) == \A i \in 2..Len(c) : c[i] \in bs

AdvanceFields(a) ==
    a = [pc |-> a.pc, landed |-> a.landed, left |-> a.left, memo |-> a.memo, path |-> a.path]

EngineInv ==
    /\ scene \in DOMAIN Worlds
    /\ IsFiniteSet(blocks)
    /\ Replays(world, chain) /\ Replays(world, logged)
    /\ Stored(chain, blocks)
    /\ ~world.override => Holds(latch, chain)
    /\ adv = Idle \/ AdvanceFields(adv)
    /\ adv.pc = "chosen" => IsWay(adv.path)
    /\ adv.pc = "extend" => adv.path.branch # <<>> /\ Linked(world, blocks, HeadOf(chain), adv.path.branch)

LEMMA InvCanonicalStored == EngineInv => CanonicalStored
BY DEF EngineInv, CanonicalStored, Replays, Stored

LEMMA InvLatchHeld == EngineInv => LatchHeld
BY DEF EngineInv, LatchHeld, Holds

\* What a boot from the log c leaves.
LEMMA BootHolds ==
    ASSUME NEW c, Replays(world, c), NEW bs, NEW ca, NEW la, NEW ho, NEW tx, NEW va,
           Boot(c, bs, ca, la, ho, tx, va), scene \in DOMAIN Worlds
    PROVE  ca = c /\ IsFiniteSet(bs) /\ Stored(c, bs) /\ Holds(la, c)
<1>1. /\ ca = c /\ bs = Range(c) \ {Genesis} /\ la = ReplayedLatch(c)
  BY DEF Boot
<1>2. /\ c \in Seq(world.valid \cup {Genesis}) /\ c # <<>> /\ c[1] = Genesis
      /\ Len(c) \in Nat /\ DOMAIN c = 1..Len(c)
  BY DEF Replays
<1>3. Holds(la, c)
  BY <1>1, <1>2, ReplayHolds
<1>4. Genesis \notin world.valid
  BY WorldsConsistent, ZenonT(60) DEF world
<1>5. Stored(c, bs)
  BY <1>1, <1>2, <1>4 DEF Stored, Replays, Range
<1>6. IsFiniteSet(bs)
  <2>1. IsFiniteSet(1..Len(c))
    BY <1>2, FS_Interval
  <2>2. c \in Surjection(1..Len(c), Range(c))
    BY <1>2 DEF Surjection, Range
  <2>3. IsFiniteSet(Range(c))
    BY <2>1, <2>2, FS_Surjection
  <2> QED
    BY <1>1, <2>3, FS_Subset
<1> QED
  BY <1>1, <1>3, <1>5, <1>6

LEMMA EngineInitInv == Init => EngineInv
<1> SUFFICES ASSUME Init PROVE EngineInv
  OBVIOUS
<1>1. scene \in DOMAIN Worlds /\ logged = world.log /\ adv = Idle
  BY DEF Init
<1>2. Replays(world, logged)
  BY <1>1, WorldsConsistent, ZenonT(60) DEF Replays, world
<1>3. Boot(logged, blocks, chain, latch, hollow, txs, variants)
  BY DEF Init
<1>4. chain = logged /\ IsFiniteSet(blocks) /\ Stored(logged, blocks) /\ Holds(latch, logged)
  BY <1>1, <1>2, <1>3, BootHolds
<1>5. adv.pc = "idle"
  BY <1>1 DEF Idle
<1> QED
  BY <1>1, <1>2, <1>4, <1>5 DEF EngineInv

\* A step that leaves the chain, its log and the latch alone and removes nothing of the chain
\* from the store keeps the invariant, provided that the way is no longer needed.
LEMMA ChainKept ==
    ASSUME EngineInv, scene' = scene, chain' = chain, latch' = latch,
           logged' = logged \/ logged' = chain,
           IsFiniteSet(blocks'), Stored(chain, blocks'),
           adv' = Idle \/ AdvanceFields(adv'), adv'.pc \notin {"chosen", "extend"}
    PROVE  EngineInv'
<1>1. world' = world
  BY DEF world
<1>2. Replays(world, logged')
  BY DEF EngineInv
<1>3. /\ scene' \in DOMAIN Worlds /\ Replays(world, chain)
      /\ ~world.override => Holds(latch, chain)
  BY DEF EngineInv
<1> QED
  BY <1>1, <1>2, <1>3 DEF EngineInv, Replays, Stored, Holds, AdvanceFields, Idle

\* A block passes the door: at most one is stored.
LEMMA IngestInv ==
    ASSUME EngineInv, NEW b, NEW src, NEW o, NEW d, NEW f, Ingest(b, src, o, d, f)
    PROVE  EngineInv'
<1>1. /\ scene' = scene /\ chain' = chain /\ latch' = latch /\ logged' = logged
      /\ blocks' = blocks \cup {b} \/ blocks' = blocks
      /\ adv' = StartAdvance(b) \/ adv' = Idle
  BY ZenonT(60) DEF Ingest
<1>2. IsFiniteSet(blocks') /\ Stored(chain, blocks')
  BY <1>1, FS_AddElement DEF EngineInv, Stored
<1>3. /\ adv' = Idle \/ AdvanceFields(adv')
      /\ adv'.pc \notin {"chosen", "extend"}
  BY <1>1 DEF StartAdvance, AdvanceFields, Idle
<1> QED
  BY <1>1, <1>2, <1>3, ChainKept

LEMMA ChooseInv == ASSUME EngineInv, Choose PROVE EngineInv'
<1>1. /\ scene' = scene /\ chain' = chain /\ latch' = latch /\ logged' = logged
      /\ blocks' = blocks /\ world' = world /\ Canonical' = Canonical
  BY DEF Choose, Keep, Loop, world, Canonical
<1>2. AdvanceFields(adv)
  BY DEF EngineInv, Choose, Idle
<1>3. PICK inputs, target :
        adv' = [adv EXCEPT !.pc = "chosen", !.left = @ - 1,
                           !.memo = [inputs |-> inputs, head |-> target],
                           !.path = PathToCanonical(target)]
  BY ZenonT(60) DEF Choose
<1>4. AdvanceFields(adv') /\ adv'.pc = "chosen" /\ adv'.path = PathToCanonical(target)
  BY <1>2, <1>3, ZenonT(60) DEF AdvanceFields
<1>5. IsWay(adv'.path)
  BY <1>4, PathIsWay DEF EngineInv
<1>6. IsWay(adv.path)'
  BY <1>1, <1>5 DEF IsWay, Linked, Range
<1> QED
  BY <1>1, <1>4, <1>6 DEF EngineInv, Replays, Stored, Holds, AdvanceFields

LEMMA SettleInv == ASSUME EngineInv, Settle \/ Exhaust PROVE EngineInv'
<1>1. /\ scene' = scene /\ chain' = chain /\ latch' = latch /\ logged' = logged
      /\ blocks' = blocks /\ adv' = [adv EXCEPT !.pc = "landed"] /\ adv.pc # "idle"
  BY DEF Settle, Exhaust, Keep, Loop
<1>2. AdvanceFields(adv)
  BY <1>1 DEF EngineInv, Idle
<1>3. AdvanceFields(adv') /\ adv'.pc = "landed"
  BY <1>1, <1>2 DEF AdvanceFields
<1>4. IsFiniteSet(blocks') /\ Stored(chain, blocks')
  BY <1>1 DEF EngineInv
<1> QED
  BY <1>1, <1>3, <1>4, ChainKept

LEMMA StartExtensionInv == ASSUME EngineInv, StartExtension PROVE EngineInv'
<1>1. /\ scene' = scene /\ chain' = chain /\ latch' = latch /\ logged' = logged
      /\ blocks' = blocks /\ world' = world
      /\ adv' = [adv EXCEPT !.pc = "extend"] /\ adv.pc = "chosen"
      /\ adv.path.ancestor = HeadOf(chain) /\ adv.path.branch # <<>>
  BY DEF StartExtension, Keep, Loop, world
<1>2. AdvanceFields(adv) /\ IsWay(adv.path)
  BY <1>1 DEF EngineInv, Idle
<1>3. AdvanceFields(adv') /\ adv'.pc = "extend" /\ adv'.path = adv.path
  BY <1>1, <1>2 DEF AdvanceFields
<1>4. Linked(world, blocks, HeadOf(chain), adv.path.branch)
  BY <1>1, <1>2 DEF IsWay, NoPath
<1>5. Linked(world, blocks, HeadOf(chain), adv.path.branch)'
  BY <1>1, <1>3, <1>4 DEF Linked, HeadOf
<1> QED
  BY <1>1, <1>3, <1>5 DEF EngineInv, Replays, Stored, Holds, AdvanceFields

\* The refused branch leaves the store: none of it is canonical.
LEMMA RefuseInv == ASSUME EngineInv, Refuse PROVE EngineInv'
<1>1. /\ scene' = scene /\ chain' = chain /\ latch' = latch /\ logged' = logged
      /\ blocks' = blocks \ Range(adv.path.branch)
      /\ adv' = [adv EXCEPT !.pc = "landed"] /\ adv.pc = "chosen" /\ adv.path # NoPath
  BY DEF Refuse, RefuseRewind, Loop, Diverges
<1>2. AdvanceFields(adv) /\ IsWay(adv.path)
  BY <1>1 DEF EngineInv, Idle
<1>3. AdvanceFields(adv') /\ adv'.pc = "landed"
  BY <1>1, <1>2 DEF AdvanceFields
<1>4. \A i \in 2..Len(chain) : chain[i] \in Canonical
  BY DEF EngineInv, Replays, Canonical, Range
<1>5. Stored(chain, blocks')
  BY <1>1, <1>2, <1>4 DEF IsWay, Stored, EngineInv
<1>6. IsFiniteSet(blocks')
  BY <1>1, FS_Subset DEF EngineInv
<1> QED
  BY <1>1, <1>3, <1>5, <1>6, ChainKept

\* A block that does not apply leaves the store: the chain has none.
LEMMA RemoveInvalidKeeps ==
    ASSUME EngineInv, NEW ancestor, NEW branch, RemoveInvalid(ancestor, branch)
    PROVE  /\ IsFiniteSet(blocks') /\ Stored(chain, blocks')
           /\ chain' = chain /\ latch' = latch /\ logged' = logged
<1>1. PICK bad \in DOMAIN branch : branch[bad] \notin world.valid /\ blocks' = blocks \ {branch[bad]}
  BY DEF RemoveInvalid
<1>2. chain' = chain /\ latch' = latch /\ logged' = logged
  BY DEF RemoveInvalid
<1>3. IsFiniteSet(blocks')
  BY <1>1, FS_Subset DEF EngineInv
<1>4. Stored(chain, blocks')
  BY <1>1 DEF EngineInv, Stored, Replays
<1> QED
  BY <1>2, <1>3, <1>4

LEMMA LandInv == ASSUME EngineInv, Land PROVE EngineInv'
<1>1. /\ scene' = scene /\ chain' = chain /\ latch' = latch /\ logged' = logged
      /\ blocks' = blocks \ Doomed /\ adv' = Idle
  BY DEF Land
<1>2. Doomed \cap Canonical = {}
  BY DEF Doomed, Prunable
<1>3. \A i \in 2..Len(chain) : chain[i] \in Canonical
  BY DEF EngineInv, Replays, Canonical, Range
<1>4. IsFiniteSet(blocks') /\ Stored(chain, blocks')
  BY <1>1, <1>2, <1>3, FS_Subset DEF EngineInv, Stored
<1>5. adv'.pc \notin {"chosen", "extend"}
  BY <1>1 DEF Idle
<1> QED
  BY <1>1, <1>4, <1>5, ChainKept

\* What do_reorg makes of the chain c: the first k blocks, and the branch.
Splice(c, k, branch) == SubSeq(c, 1, k) \o branch
Keeps(n, c, k) == \A i \in 1..k : n[i] = c[i]
Follows(n, k, branch) == Len(n) = k + Len(branch) /\ \A i \in 1..Len(branch) : n[k + i] = branch[i]

\* A chain cut after an ancestor and continued by a way that applies is a chain that replays.
LEMMA Spliced ==
    ASSUME NEW w, NEW c, Replays(w, c), NEW bs, Stored(c, bs), NEW k \in 1..Len(c),
           NEW branch, Linked(w, bs, c[k], branch), Range(branch) \subseteq w.valid,
           NEW n, n = Splice(c, k, branch)
    PROVE  Replays(w, n) /\ Stored(n, bs) /\ Keeps(n, c, k) /\ Follows(n, k, branch)
<1> DEFINE S == w.valid \cup {Genesis}
           p == SubSeq(c, 1, k)
<1>1. c \in Seq(S) /\ Len(c) \in Nat /\ k \in Nat /\ c[1] = Genesis
  BY DEF Replays
<1>2. p \in Seq(S) /\ Len(p) = k /\ \A i \in 1..k : p[i] = c[i]
  BY <1>1
<1>0. /\ branch \in Seq(bs) /\ \A i \in DOMAIN branch : branch[i] \in w.valid
      /\ \A i \in DOMAIN branch :
           w.parent[branch[i]] = IF i = 1 THEN c[k] ELSE branch[i - 1]
  BY DEF Linked, Range
<1>3. branch \in Seq(S) /\ Len(branch) \in Nat /\ DOMAIN branch = 1..Len(branch)
  BY <1>0
<1> HIDE DEF p, S
<1>4. n = p \o branch
  BY DEF p, Splice
<1>5. n \in Seq(S) /\ Len(n) = k + Len(branch)
  <2>1. n \in Seq(S)
    BY <1>2, <1>3, <1>4
  <2>2. Len(n) = k + Len(branch)
    <3>1. Len(p \o branch) = Len(p) + Len(branch)
      BY <1>2, <1>3
    <3> QED
      BY <1>2, <1>4, <3>1
  <2> QED
    BY <2>1, <2>2
<1>6. \A i \in 1..k : n[i] = c[i]
  BY <1>2, <1>3, <1>4
<1>7. \A i \in 1..Len(branch) : n[k + i] = branch[i]
  BY <1>1, <1>2, <1>3, <1>4
<1>8. ASSUME NEW i \in 2..Len(n)
      PROVE  n[i] \in w.valid /\ n[i] \in bs /\ w.parent[n[i]] = n[i - 1]
  <2>1. CASE i <= k
    <3>0. i \in 1..k /\ i - 1 \in 1..k /\ i \in 2..Len(c)
      BY <1>1, <2>1
    <3>1. n[i] = c[i] /\ n[i - 1] = c[i - 1] /\ i \in 2..Len(c)
      BY <1>6, <3>0
    <3> QED
      BY <3>1 DEF Replays, Stored
  <2>2. CASE i > k
    <3> DEFINE j == i - k
    <3>0. i \in Int /\ k \in Int /\ Len(branch) \in Int /\ i <= k + Len(branch)
      BY <1>1, <1>3, <1>5
    <3>1. j \in 1..Len(branch) /\ i = k + j
      BY <2>2, <3>0
    <3>2. n[i] = branch[j]
      BY <1>7, <3>1
    <3>3. n[i - 1] = IF j = 1 THEN c[k] ELSE branch[j - 1]
      <4>1. CASE j = 1
        <5>1. i - 1 = k /\ k \in 1..k
          BY <1>1, <3>0, <4>1
        <5> QED
          BY <1>6, <4>1, <5>1
      <4>2. CASE j # 1
        <5>1. j - 1 \in 1..Len(branch) /\ i - 1 = k + (j - 1)
          BY <1>1, <3>1, <4>2
        <5> QED
          BY <1>7, <4>2, <5>1
      <4> QED
        BY <4>1, <4>2
    <3> HIDE DEF j
    <3>4. branch[j] \in bs
      BY <1>0, <1>3, <3>1
    <3> QED
      BY <1>0, <1>3, <3>1, <3>2, <3>3, <3>4
  <2>3. i \in Int /\ k \in Int
    BY <1>1
  <2> QED
    BY <2>1, <2>2, <2>3
<1>9. n # <<>> /\ n[1] = Genesis
  BY <1>1, <1>3, <1>5, <1>6
<1>10. Replays(w, n)
  BY <1>5, <1>8, <1>9 DEF Replays, S
<1>11. Stored(n, bs)
  BY <1>8 DEF Stored
<1> QED
  BY <1>5, <1>6, <1>7, <1>10, <1>11 DEF Keeps, Follows

\* A reorganisation: the branch is adopted whole and does not cut below the latch, or its
\* first block that does not apply leaves the store.
LEMMA ReorgInv == ASSUME EngineInv, Reorg PROVE EngineInv'
<1> DEFINE anc == adv.path.ancestor
           branch == adv.path.branch
<1>1. /\ scene' = scene /\ adv.pc = "chosen" /\ adv.path # NoPath
      /\ adv' = [adv EXCEPT !.pc = "turn"] /\ ~CutsLatch(anc)
  BY DEF Reorg, Loop, Diverges
<1>2. AdvanceFields(adv) /\ IsWay(adv.path)
  BY <1>1 DEF EngineInv, Idle
<1>3. AdvanceFields(adv') /\ adv'.pc = "turn"
  BY <1>1, <1>2 DEF AdvanceFields
<1>4. anc \in Canonical /\ Linked(world, blocks, anc, branch)
  BY <1>1, <1>2 DEF IsWay
<1>5. CASE Range(branch) \subseteq world.valid
  <2> DEFINE k == Height(chain, anc) + 1
             n == Splice(chain, k, branch)
  <2>1. /\ chain' = n /\ latch' = RatchetedLatch(n) /\ blocks' = blocks
        /\ logged' = chain \/ logged' = logged
    BY <1>5, ZenonT(60) DEF Reorg, Adopt, UpTo, Splice
  <2>2. chain \in Seq(world.valid \cup {Genesis}) /\ Len(chain) \in Nat
    BY DEF EngineInv, Replays
  <2>3. k \in 1..Len(chain) /\ chain[k] = anc
    BY <1>4, <2>2, HeightIn DEF Canonical
  <2>4. branch \in Seq(blocks)
    BY <1>4 DEF Linked
  <2>5. ~world.override => latch.height < k
    <3>1. SUFFICES ASSUME ~world.override PROVE latch.height < k
      OBVIOUS
    <3>2. ~(Height(chain, anc) < latch.height) /\ latch.height \in Nat
      BY <1>1, <3>1 DEF CutsLatch, EngineInv, Holds
    <3>3. Height(chain, anc) \in 0..Len(chain) - 1
      BY <1>4, <2>2, HeightIn DEF Canonical
    <3> QED
      BY <2>2, <3>2, <3>3
  <2> HIDE DEF k, n
  <2>6. Replays(world, n) /\ Stored(n, blocks) /\ Keeps(n, chain, k) /\ Follows(n, k, branch)
    <3>1. n = Splice(chain, k, branch)
      BY DEF n
    <3>2. Linked(world, blocks, chain[k], branch)
      BY <1>4, <2>3
    <3>3. Replays(world, chain) /\ Stored(chain, blocks)
      BY DEF EngineInv
    <3> HIDE DEF branch, anc
    <3> QED
      BY <1>5, <2>3, <3>1, <3>2, <3>3, Spliced
  <2>7. ~world.override => Holds(RatchetedLatch(n), n)
    <3>1. SUFFICES ASSUME ~world.override PROVE Holds(RatchetedLatch(n), n)
      OBVIOUS
    <3>2. Holds(latch, n)
      <4>1. Holds(latch, chain) /\ latch.height < k
        BY <2>5, <3>1 DEF EngineInv
      <4>2. Len(branch) \in Nat
        BY <2>4
      <4> QED
        BY <2>2, <2>3, <2>6, <4>1, <4>2 DEF Holds, Keeps, Follows
    <3> QED
      BY <2>6, <3>2, RatchetHolds DEF Replays
  <2>8. world' = world /\ Replays(world, logged') /\ IsFiniteSet(blocks) /\ scene \in DOMAIN Worlds
    BY <1>1, <2>1 DEF EngineInv, world
  <2> HIDE DEF branch
  <2>9. Replays(world, chain)' /\ Replays(world, logged)' /\ Stored(chain, blocks)'
    BY <2>1, <2>6, <2>8 DEF Replays, Stored
  <2>10. (~world.override => Holds(latch, chain))'
    BY <2>1, <2>7, <2>8 DEF Holds
  <2> QED
    BY <1>1, <1>3, <2>1, <2>8, <2>9, <2>10 DEF EngineInv, AdvanceFields
<1>6. CASE ~(Range(branch) \subseteq world.valid)
  <2>1. RemoveInvalid(anc, branch)
    BY <1>6 DEF Reorg
  <2> QED
    BY <1>1, <1>3, <2>1, RemoveInvalidKeeps, ChainKept
<1> QED
  BY <1>5, <1>6

\* One block of an extension is applied, or does not apply and leaves the store.
LEMMA ApplyCanonicalInv == ASSUME EngineInv, ApplyCanonical PROVE EngineInv'
<1> DEFINE branch == adv.path.branch
           b == Head(branch)
           left == Tail(branch)
           n == Append(chain, b)
<1>1. /\ scene' = scene /\ adv.pc = "extend"
      /\ adv' = IF b \in world.valid /\ left # <<>>
                THEN [adv EXCEPT !.path = [ancestor |-> b, branch |-> left]]
                ELSE [adv EXCEPT !.pc = "turn"]
  BY DEF ApplyCanonical, Loop
<1>2. AdvanceFields(adv) /\ branch # <<>> /\ Linked(world, blocks, HeadOf(chain), branch)
  BY <1>1 DEF EngineInv, Idle
<1>3. branch \in Seq(blocks) /\ Len(branch) \in Nat /\ Len(branch) # 0 /\ DOMAIN branch = 1..Len(branch)
  BY <1>2 DEF Linked
<1>4. b = branch[1] /\ b \in blocks /\ world.parent[b] = HeadOf(chain)
  BY <1>2, <1>3 DEF Linked
<1>5. /\ left \in Seq(blocks) /\ Len(left) = Len(branch) - 1 /\ DOMAIN left = 1..Len(left)
      /\ \A i \in DOMAIN left : left[i] = branch[i + 1]
  BY <1>3
<1>6. Linked(world, blocks, b, left)
  <2>1. SUFFICES ASSUME NEW i \in DOMAIN left
                 PROVE  world.parent[left[i]] = IF i = 1 THEN b ELSE left[i - 1]
    BY <1>5 DEF Linked
  <2>2. i + 1 \in DOMAIN branch /\ i + 1 # 1 /\ (i + 1) - 1 = i
    BY <1>3, <1>5
  <2>3. world.parent[branch[i + 1]] = branch[(i + 1) - 1]
    BY <1>2, <2>2 DEF Linked
  <2>4. i # 1 => i - 1 \in DOMAIN left /\ (i - 1) + 1 = i
    BY <1>3, <1>5
  <2> QED
    BY <1>4, <1>5, <2>2, <2>3, <2>4, ZenonT(60)
<1> HIDE DEF branch, left, b
<1>7. CASE b \in world.valid
  <2>1. /\ chain' = n /\ latch' = RatchetedLatch(n) /\ blocks' = blocks /\ logged' = n
    BY <1>7 DEF ApplyCanonical, b, branch
  <2>2. /\ chain \in Seq(world.valid \cup {Genesis}) /\ Len(chain) \in Nat /\ Len(chain) # 0
        /\ chain[1] = Genesis /\ Replays(world, chain) /\ Stored(chain, blocks)
    BY DEF EngineInv, Replays
  <2>3. /\ n \in Seq(world.valid \cup {Genesis}) /\ Len(n) = Len(chain) + 1
        /\ n[Len(n)] = b /\ \A i \in 1..Len(chain) : n[i] = chain[i]
    BY <1>7, <2>2
  <2> HIDE DEF n
  <2>4. ASSUME NEW i \in 2..Len(n)
        PROVE  n[i] \in world.valid /\ n[i] \in blocks /\ world.parent[n[i]] = n[i - 1]
    <3>1. CASE i = Len(n)
      <4>1. n[i] = b /\ i - 1 = Len(chain) /\ i - 1 \in 1..Len(chain)
        BY <2>2, <2>3, <3>1
      <4> QED
        BY <1>4, <1>7, <2>3, <4>1 DEF HeadOf
    <3>2. CASE i # Len(n)
      <4>1. i \in 2..Len(chain) /\ i \in 1..Len(chain) /\ i - 1 \in 1..Len(chain)
        BY <2>2, <2>3, <3>2
      <4>2. chain[i] \in world.valid /\ world.parent[chain[i]] = chain[i - 1] /\ chain[i] \in blocks
        BY <2>2, <4>1 DEF Replays, Stored
      <4> QED
        BY <2>3, <4>1, <4>2
    <3> QED
      BY <3>1, <3>2
  <2>5. n # <<>> /\ n[1] = Genesis
    BY <2>2, <2>3
  <2>6. Replays(world, n) /\ Stored(n, blocks)
    BY <2>3, <2>4, <2>5 DEF Replays, Stored
  <2>7. ~world.override => Holds(RatchetedLatch(n), n)
    <3>1. SUFFICES ASSUME ~world.override PROVE Holds(RatchetedLatch(n), n)
      OBVIOUS
    <3>2. Holds(latch, chain)
      BY <3>1 DEF EngineInv
    <3>3. Holds(latch, n)
      BY <2>2, <2>3, <3>2 DEF Holds
    <3> QED
      BY <2>3, <2>5, <3>3, RatchetHolds
  <2>8. world' = world /\ IsFiniteSet(blocks) /\ scene \in DOMAIN Worlds
    BY <1>1 DEF EngineInv, world
  <2>9. Replays(world, chain)' /\ Replays(world, logged)' /\ Stored(chain, blocks)'
    BY <2>1, <2>6, <2>8 DEF Replays, Stored
  <2>10. (~world.override => Holds(latch, chain))'
    BY <2>1, <2>7, <2>8 DEF Holds
  <2>11. /\ AdvanceFields(adv') /\ adv'.pc \in {"turn", "extend"}
         /\ adv'.pc = "extend" => left # <<>> /\ adv'.path.branch = left
    <3>1. CASE left # <<>>
      BY <1>1, <1>2, <1>7, <3>1 DEF AdvanceFields
    <3>2. CASE left = <<>>
      BY <1>1, <1>2, <1>7, <3>2 DEF AdvanceFields
    <3> QED
      BY <3>1, <3>2
  <2>12. HeadOf(n) = b
    BY <2>3 DEF HeadOf
  <2>13. (adv.pc = "extend" =>
            adv.path.branch # <<>> /\ Linked(world, blocks, HeadOf(chain), adv.path.branch))'
    BY <1>6, <2>1, <2>8, <2>11, <2>12 DEF Linked, HeadOf
  <2> QED
    BY <1>1, <2>1, <2>8, <2>9, <2>10, <2>11, <2>13 DEF EngineInv, AdvanceFields
<1>8. CASE b \notin world.valid
  <2>1. RemoveInvalid(HeadOf(chain), <<b>>) /\ adv' = [adv EXCEPT !.pc = "turn"]
    BY <1>1, <1>8 DEF ApplyCanonical, b, branch
  <2>2. AdvanceFields(adv') /\ adv'.pc = "turn"
    BY <1>2, <2>1 DEF AdvanceFields
  <2> QED
    BY <1>1, <2>1, <2>2, RemoveInvalidKeeps, ChainKept
<1> QED
  BY <1>7, <1>8

\* The process dies and boots from its log.
LEMMA RestartInv == ASSUME EngineInv, Restart PROVE EngineInv'
<1>1. scene' = scene /\ logged' = logged /\ adv' = Idle /\ world' = world
  BY DEF Restart, world
<1>2. Replays(world, logged) /\ scene \in DOMAIN Worlds
  BY DEF EngineInv
<1>3. Boot(logged, blocks', chain', latch', hollow', txs', variants')
  BY DEF Restart
<1>4. chain' = logged /\ IsFiniteSet(blocks') /\ Stored(logged, blocks') /\ Holds(latch', logged)
  <2> DEFINE bs == blocks'
             ca == chain'
             la == latch'
             ho == hollow'
             tx == txs'
             va == variants'
  <2>1. Boot(logged, bs, ca, la, ho, tx, va)
    BY <1>3
  <2> HIDE DEF bs, ca, la, ho, tx, va
  <2>2. ca = logged /\ IsFiniteSet(bs) /\ Stored(logged, bs) /\ Holds(la, logged)
    BY <1>2, <2>1, BootHolds
  <2> QED
    BY <2>2 DEF bs, ca, la
<1>5. adv'.pc = "idle"
  BY <1>1 DEF Idle
<1> QED
  BY <1>1, <1>2, <1>4, <1>5 DEF EngineInv, Replays, Stored, Holds

LEMMA EngineNextInv == EngineInv /\ [Next]_vars => EngineInv'
<1> SUFFICES ASSUME EngineInv, [Next]_vars PROVE EngineInv'
  OBVIOUS
<1>1. ASSUME NEW b, NEW src, Receive(b, src) PROVE EngineInv'
  BY <1>1, IngestInv DEF Receive
<1>2. CASE ReleaseOrphan
  BY <1>2, IngestInv DEF ReleaseOrphan
<1>3. CASE ReleaseFuture
  BY <1>3, IngestInv DEF ReleaseFuture
<1>4. ASSUME \/ UNCHANGED vars \/ Tick \/ Publish \/ Poll \/ \E a \in Range(world.votes) : Attest(a)
      PROVE  EngineInv'
  <2>1. /\ scene' = scene /\ chain' = chain /\ latch' = latch /\ blocks' = blocks /\ adv' = adv
        /\ logged' = logged \/ logged' = chain
    BY <1>4, ZenonT(60) DEF vars, Tick, Publish, Poll, Attest
  <2>2. world' = world /\ Canonical' = Canonical
    BY <2>1 DEF world, Canonical
  <2>3. (adv.pc = "chosen" => IsWay(adv.path))'
    BY <2>1, <2>2, ZenonT(60) DEF EngineInv, IsWay, Linked, Range
  <2>4. (adv.pc = "extend" =>
           adv.path.branch # <<>> /\ Linked(world, blocks, HeadOf(chain), adv.path.branch))'
    BY <2>1, <2>2, ZenonT(60) DEF EngineInv, Linked, HeadOf
  <2>5. Replays(world, chain)' /\ Replays(world, logged)' /\ Stored(chain, blocks)'
    <3>1. Replays(world, chain) /\ Replays(world, logged') /\ Stored(chain, blocks)
      BY <2>1 DEF EngineInv
    <3> QED
      BY <2>1, <2>2, <3>1 DEF Replays, Stored
  <2> QED
    BY <2>1, <2>2, <2>3, <2>4, <2>5 DEF EngineInv, Holds, AdvanceFields
<1> QED
  BY <1>1, <1>2, <1>3, <1>4, ChooseInv, SettleInv, StartExtensionInv, ApplyCanonicalInv,
     RefuseInv, ReorgInv, LandInv, RestartInv
     DEF Next

\* The inductive invariant holds in every reachable state.
THEOREM EngineInvariance == Spec => []EngineInv
<1> QED
  BY EngineInitInv, EngineNextInv, PTL DEF Spec

\* The canonical chain is stored whole, linked and made of blocks that apply, whatever
\* branches are refused, adopted, removed or pruned, and after every restart.
THEOREM ChainIsStored == Spec => []CanonicalStored
<1> QED
  BY EngineInvariance, InvCanonicalStored, PTL

\* No extension, reorganisation, failed candidate, pruning or restart takes the block the
\* latch names off the chain, unless the operator allows a rewind.
THEOREM LatchIsHeld == Spec => []LatchHeld
<1> QED
  BY EngineInvariance, InvLatchHeld, PTL
=============================================================================

-------------------------------- MODULE Ghost --------------------------------
(***************************************************************************)
(* The pure part of LMD-GHOST                                              *)
(* (crates/bloch-pos-committee/src/forkchoice.rs): the store of latest     *)
(* messages, and the descent over a block tree.  ForkChoice checks its     *)
(* one-pass weights, CommittedVotes folds it over the blocks of a chain,   *)
(* and Engine drives a node's chain with it.                               *)
(*                                                                         *)
(* A tree is a function from a stored block to its parent.  A block that   *)
(* is removed leaves its children, so parents may dangle.  Identities are  *)
(* header hashes: numbers, compared for the tie-break.                     *)
(***************************************************************************)
EXTENDS Integers, Sequences, FiniteSets, FiniteSetsExt, Functions, TLC

Put(f, k, x) == [i \in DOMAIN f \cup {k} |-> IF i = k THEN x ELSE f[i]]
Drop(f, k) == Restrict(f, DOMAIN f \ {k})

\* A loop over a sequence: the state after its last element.
FoldOver(step(_, _), start, seq) ==
    LET state[i \in 0..Len(seq)] == IF i = 0 THEN start ELSE step(state[i - 1], seq[i])
    IN  state[Len(seq)]

NewStore == [latest |-> <<>>, equivocators |-> {}]

\* Store::observe: two votes of a slot bar the validator, an older or repeated one is
\* ignored, a newer one replaces its latest message.
Observe(store, v, msg) ==
    LET seen == v \in DOMAIN store.latest IN
    IF v \in store.equivocators THEN store
    ELSE IF seen /\ store.latest[v].slot = msg.slot /\ store.latest[v].root # msg.root
      THEN [latest |-> Drop(store.latest, v), equivocators |-> store.equivocators \cup {v}]
    ELSE IF seen /\ store.latest[v].slot >= msg.slot THEN store
    ELSE [store EXCEPT !.latest = Put(@, v, msg)]

-----------------------------------------------------------------------------
Children(parents, b) == {c \in DOMAIN parents : parents[c] = b}

\* is_descendant_or_self: the parent walk from node, of at most limit steps, meets ancestor.
IsDescendantOrSelf(parents, node, ancestor) ==
    LET limit == Cardinality(DOMAIN parents) + 1
        cur[i \in 0..limit] ==
            IF i = 0 THEN node
            ELSE LET c == cur[i - 1] IN IF c \in DOMAIN parents THEN parents[c] ELSE c
    IN  \E i \in 0..limit : cur[i] = ancestor

BackingOf(stake, vs) == MapThenSumSet(LAMBDA v : stake[v], vs)

\* Store::weight, the reference definition: one walk per vote.
Weight(parents, latest, stake, b) ==
    BackingOf(stake, {v \in DOMAIN latest : IsDescendantOrSelf(parents, latest[v].root, b)})

\* Mutant: the slot comparison is the wrong way round.
WinsTieLate(armed, slots, c, best) ==
    IF armed
      THEN slots[c] > slots[best] \/ (slots[c] = slots[best] /\ c > best)
      ELSE c > best

\* With the FC-05 gate armed the lower slot wins a tie, then the greater identity.
WinsTie(armed, slots, c, best) ==
    IF armed
      THEN slots[c] < slots[best] \/ (slots[c] = slots[best] /\ c > best)
      ELSE c > best

\* The sibling that the scan over the sorted children ends with.
BestChild(armed, slots, kids, w) ==
    CHOOSE c \in kids : \A d \in kids \ {c} :
        w[c] > w[d] \/ (w[c] = w[d] /\ WinsTie(armed, slots, c, d))

\* The descent of head_inner and head_reference from the block start, given the weights.
Descend(armed, slots, parents, w, start) ==
    LET bound == Cardinality(DOMAIN parents) + 1
        from[i \in 0..bound, cur \in DOMAIN parents \cup {start}] ==
            IF i = 0 \/ Children(parents, cur) = {}
              THEN cur
              ELSE from[i - 1, BestChild(armed, slots, Children(parents, cur), w)]
    IN  from[bound, start]

\* Store::head_reference.
HeadReference(armed, slots, parents, latest, stake, start) ==
    Descend(armed, slots, parents,
            [b \in DOMAIN parents |-> Weight(parents, latest, stake, b)] @@ <<>>, start)
=============================================================================

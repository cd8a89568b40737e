------------------------------ MODULE MCEngine ------------------------------
(***************************************************************************)
(* Small worlds for Engine.  The log holds the trunk 1-2-3 (slots 1, 2, 4; *)
(* three slots to an epoch).  4 and 5 extend it and finalize block 2.      *)
(* Where 6 and 7 hang, and what they justify and finalize, varies.         *)
(***************************************************************************)
EXTENDS Engine, TLC

Vote(v, s, b) == [validator |-> v, slot |-> s, head |-> b]
FromZero(f) == [b \in 0..(Len(f) - 1) |-> f[b + 1]]

\* 6 and 7 hang from p6 and p7, and their post-states have the checkpoints cp6 and cp7.
Tree(p6, p7, cp6, cp7) ==
    [parent    |-> <<0, 1, 2, 3, 4, p6, p7>>,
     slot      |-> FromZero(<<0, 1, 2, 4, 7, 10, 8, 11>>),
     valid     |-> Ids,
     justified |-> FromZero(<<0, 0, 0, 0, 1, 2, cp6[1], cp7[1]>>),
     finalized |-> FromZero(<<0, 0, 0, 0, 0, 1, cp6[2], cp7[2]>>),
     stake     |-> [b \in 0..7 |-> <<1, 1>>],
     body      |-> <<<<>>, <<>>, <<>>, <<>>, <<Vote(1, 9, 4)>>, <<>>, <<Vote(2, 10, 6)>>>>,
     votes     |-> <<Vote(1, 10, 5), Vote(1, 11, 7), Vote(2, 10, 6), Vote(2, 11, 5)>>,
     txs       |-> <<<<>>, <<>>, <<"a">>, <<"b">>, <<"c">>, <<"b">>, <<"c">>>>,
     proposer  |-> [b \in 1..7 |-> b],
     registrar |-> [b \in 1..7 |-> 0],
     grows     |-> {},
     log       |-> <<0, 1, 2, 3>>,
     wall      |-> 11,
     lastSlot  |-> 11,
     sources   |-> {"peer"},
     restarts  |-> 1,
     override  |-> FALSE]

\* checkpoint_root on the block's own chain: the last block strictly before the epoch.
CheckpointRoot(w, b, e) ==
    LET back[x \in Ids \cup {Genesis}] ==
            IF x = Genesis \/ w.slot[x] < FirstSlot(e) THEN x ELSE back[w.parent[x]]
    IN  back[b]

\* w with the roots of the blocks' own checkpoints.
Rooted(w) ==
    w @@ [justifiedRoot |-> [b \in Ids \cup {Genesis} |-> CheckpointRoot(w, b, w.justified[b])],
          finalizedRoot |-> [b \in Ids \cup {Genesis} |-> CheckpointRoot(w, b, w.finalized[b])]]

Monotone(s) ==
    LET w == Tree(s[1], s[2], s[3], s[4]) IN
    \A b \in Ids : /\ w.justified[w.parent[b]] <= w.justified[b]
                   /\ w.finalized[w.parent[b]] <= w.finalized[b]

Shapes == {s \in {1, 3} \X {3, 4, 6} \X {<<0, 0>>, <<1, 0>>} \X {<<0, 0>>, <<1, 0>>, <<2, 1>>} :
              Monotone(s) /\ s[3] = (IF s[1] = 3 THEN <<1, 0>> ELSE <<0, 0>>)}

\* Each validator is slashed by the tip it votes for.
Flip == [Tree(3, 6, <<1, 0>>, <<1, 0>>) EXCEPT
            !.stake = [@ EXCEPT ![5] = <<0, 1>>, ![7] = <<1, 0>>], !.restarts = 0]

\* A block of either branch does not apply.
Invalid(b) == [Tree(3, 6, <<1, 0>>, <<1, 0>>) EXCEPT !.valid = Ids \ {b}, !.restarts = 0]

\* The operator lets finality be rewound.
Rewound(p7, cp7) == [Tree(1, p7, <<0, 0>>, cp7) EXCEPT !.override = TRUE, !.restarts = 0]

\* A branch from genesis that would rewind finality, and does not apply.
Restored == [Tree(0, 6, <<0, 0>>, <<1, 0>>) EXCEPT
                !.override = TRUE, !.valid = Ids \ {7}, !.restarts = 0]

\* The door: 2 registers the proposer of 3 and of 7; 4, 5 and 6 are three proposals of one
\* duty, ahead of the clock; 6 is this node's.
Door ==
    [parent    |-> <<0, 1, 2, 1, 3, 2, 3>>,
     slot      |-> FromZero(<<0, 1, 2, 3, 5, 5, 5, 4>>),
     valid     |-> Ids,
     justified |-> [b \in 0..7 |-> 0],
     finalized |-> [b \in 0..7 |-> 0],
     stake     |-> [b \in 0..7 |-> <<1, 1>>],
     body      |-> [b \in 1..7 |-> <<>>],
     votes     |-> <<>>,
     txs       |-> <<<<>>, <<"a">>, <<"b">>, <<"a">>, <<"c">>, <<"b">>, <<"d">>>>,
     proposer  |-> <<1, 2, 3, 4, 4, 4, 7>>,
     registrar |-> <<0, 0, 2, 0, 0, 0, 2>>,
     grows     |-> {2},
     log       |-> <<0, 1>>,
     wall      |-> 3,
     lastSlot  |-> 5,
     sources   |-> {"peer", "other", "local"},
     restarts  |-> 0,
     override  |-> FALSE]

\* 2's deposit registers the proposer of 3; 4 is ahead of 2 until 5 brings a vote for it.
Registered ==
    [Door EXCEPT !.parent = <<0, 1, 2, 1, 2, 3, 3>>, !.slot = FromZero(<<0, 1, 2, 4, 3, 5, 5, 5>>),
                 !.body = [@ EXCEPT ![5] = <<Vote(1, 4, 2)>>], !.wall = 5, !.sources = {"peer"}]

\* 3 and 4, of the first epoch, are finalized by 7 on a branch from genesis.
Deep ==
    [Tree(5, 6, <<1, 0>>, <<2, 1>>) EXCEPT
        !.parent = <<0, 1, 0, 3, 4, 5, 6>>, !.slot = FromZero(<<0, 1, 4, 1, 2, 4, 7, 10>>),
        !.justified = FromZero(<<0, 0, 0, 0, 0, 0, 1, 2>>),
        !.finalized = FromZero(<<0, 0, 0, 0, 0, 0, 0, 1>>),
        !.body = <<<<>>, <<>>, <<>>, <<>>, <<>>, <<>>, <<Vote(1, 9, 6), Vote(2, 9, 6)>>>>,
        !.votes = <<Vote(1, 8, 2), Vote(2, 8, 2)>>, !.log = <<0, 1, 2>>, !.wall = 8, !.lastSlot = 10,
        !.restarts = 0]

\* No block in the second epoch: one block is both checkpoints' root.
Sparse ==
    [Tree(2, 6, <<0, 0>>, <<1, 0>>) EXCEPT !.slot = FromZero(<<0, 1, 2, 7, 8, 10, 9, 11>>)]

\* 6 carries the only copy of a vote for 4.
Carried ==
    [Tree(3, 3, <<1, 0>>, <<1, 0>>) EXCEPT
        !.stake = [b \in 0..7 |-> <<1, 2>>],
        !.body = <<<<>>, <<>>, <<>>, <<>>, <<>>, <<Vote(2, 8, 4)>>, <<>>>>,
        !.log = <<0, 1, 2, 3, 4>>, !.restarts = 0]

\* 5 carries the votes of the other branch, and its state justifies and finalizes 6.
Foreign ==
    [Tree(3, 6, <<0, 0>>, <<1, 0>>) EXCEPT
        !.slot = FromZero(<<0, 1, 2, 4, 7, 12, 5, 10>>),
        !.justified = FromZero(<<0, 0, 0, 0, 1, 3, 0, 1>>),
        !.finalized = FromZero(<<0, 0, 0, 0, 0, 2, 0, 0>>),
        !.votes = <<Vote(1, 11, 4), Vote(1, 12, 5), Vote(2, 11, 7), Vote(2, 12, 5)>>,
        !.lastSlot = 12, !.restarts = 0]
ForeignRoots(w) == [w EXCEPT !.justifiedRoot[5] = 6, !.finalizedRoot[5] = 6]

Others == <<Door, Flip, Registered, Sparse, Deep, Carried, Invalid(4), Invalid(5), Invalid(6), Invalid(7),
            Rewound(3, <<0, 0>>), Rewound(6, <<1, 0>>), Restored>>
MCWorlds == [s \in Shapes \cup {<<i>> : i \in 0..Len(Others)} |->
                IF s = <<0>> THEN ForeignRoots(Rooted(Foreign))
                ELSE Rooted(IF Len(s) = 1 THEN Others[s[1]] ELSE Tree(s[1], s[2], s[3], s[4]))]
RestartWorlds == <<Rooted(Tree(1, 3, <<0, 0>>, <<1, 0>>))>>
StuckWorlds == <<Rooted(Registered)>>
=============================================================================

------------------------------- MODULE MCNode -------------------------------
(***************************************************************************)
(* What one node keeps on disk, each store in a scenario of its own chosen *)
(* at the start: the block log with its index and caches, or the KES key   *)
(* files of a validator following the chain.                               *)
(***************************************************************************)
EXTENDS BlockLog, KesNode

VARIABLE scenario

mcVars == <<blockLogVars, kesVars, scenario>>

MCInit == InitLog /\ KesInit /\ scenario \in {"log", "kes"}

MCNext ==
    /\ \/ scenario = "log" /\ NextLog /\ UNCHANGED kesVars
       \/ scenario = "kes" /\ KesNext /\ UNCHANGED blockLogVars
    /\ UNCHANGED scenario

\* KesNode.KesFairness, in the scenario that has the key files.
MCKesFairness ==
    /\ WF_kesVars(scenario = "kes" /\ (JobStep \/ Start))
    /\ SF_kesVars(scenario = "kes" /\ Turn)
    /\ SF_kesVars(scenario = "kes" /\ \E covered \in BOOLEAN : ChainCloses(covered))

MCSpec == MCInit /\ [][MCNext]_mcVars /\ Fairness /\ MCKesFairness
=============================================================================

--------------------------- MODULE MCFinalityChain ---------------------------
(***************************************************************************)
(* FinalityChain in two scenarios chosen at the start: a chain that        *)
(* crosses the frozen-set and own-chain gates with wrong votes and a       *)
(* changing roster (the constants of this module), and a chain below those *)
(* gates that leaks from its second epoch on.                              *)
(***************************************************************************)
EXTENDS FinalityChain, TLC

CONSTANTS v1, v2, v3, Never, LeakyEpochs

VARIABLE scenario

Uneven == (v1 :> 1 @@ v2 :> 2 @@ v3 :> 2)
Shrunk == (v1 :> 1 @@ v2 :> 2 @@ v3 :> 0)
Skewed == (v1 :> 2 @@ v2 :> 3 @@ v3 :> 4)
MCValidators == {v1, v2, v3}
TwoRosters == {Uneven, Shrunk}

Leaky == INSTANCE FinalityChain WITH
    Rosters <- {Skewed}, MaxEpoch <- LeakyEpochs, LeakThreshold <- 1,
    FrozenFrom <- Never, OwnFrom <- Never, ReformEpochs <- {}, Misvotes <- {}

MCInit == Init /\ scenario \in {"gates", "leak"}

MCNext ==
    /\ \/ scenario = "gates" /\ Next
       \/ scenario = "leak" /\ Leaky!Next
    /\ UNCHANGED scenario

MCSpec == MCInit /\ [][MCNext]_<<vars, scenario>>

\* FinalityChain.ThirdBacksQuorum, where the leak is in force: below a third of the
\* unleaked stake nothing justifies (the denominator floor of process_epoch).
LeakyThirdBacksQuorum == scenario = "leak" => Leaky!ThirdBacksQuorum

\* FinalityChain.FullParticipationFinalizes, where the leak is in force: full
\* participation ends a stall of any depth (leak recovery of process_epoch).
LeakyFullParticipationFinalizes == scenario = "leak" => Leaky!FullParticipationFinalizes
=============================================================================

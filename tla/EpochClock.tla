------------------------------ MODULE EpochClock -----------------------------
(***************************************************************************)
(* Slots and epochs (epoch_of).                                            *)
(***************************************************************************)
EXTENDS Integers

CONSTANT SlotsPerEpoch

EpochOf(s) == s \div SlotsPerEpoch
=============================================================================

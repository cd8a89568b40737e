----------------------------- MODULE MCSlashProt -----------------------------
(***************************************************************************)
(* SlashProt in three deployments of one data directory, chosen at the     *)
(* start: every kind of message with restored backups, operator floors and *)
(* late rename errors (the constants of this module); votes around a       *)
(* foreign signature in a directory that is never restored, booted with or *)
(* without the host anchor; and votes over enough epochs for one to        *)
(* surround another.                                                       *)
(***************************************************************************)
EXTENDS SlashProt, TLC

CONSTANTS MaxSlot, MaxVoteSlot

VARIABLE deployment

MCSlots == 0 .. MaxSlot

Unanchored == INSTANCE SlashProt WITH
    Slots <- 0 .. MaxVoteSlot, Generations <- {}, Commitments <- {}, Kinds <- {"vote"},
    AllowUnanchored <- TRUE, AllowRestore <- FALSE, RenameErrors <- FALSE,
    FloorSlots <- {}, MaxSightings <- 1

\* Four epochs, which a vote around another takes, and one root.
Surrounding == INSTANCE SlashProt WITH
    Slots <- 0 .. MaxVoteSlot + 1, Roots <- {"root"}, Generations <- {}, Commitments <- {},
    Kinds <- {"vote"}, AllowUnanchored <- TRUE, AllowRestore <- FALSE, RenameErrors <- FALSE,
    FloorSlots <- {}, MaxSightings <- 0

MCInit == Init /\ deployment \in {"anchored", "unanchored", "surrounding"}

MCNext ==
    /\ \/ deployment = "anchored" /\ Next
       \/ deployment = "unanchored" /\ Unanchored!Next
       \/ deployment = "surrounding" /\ Surrounding!Next
    /\ UNCHANGED deployment

\* The deployment of this module's constants alone
OneDeployment == Init /\ deployment = "anchored" /\ [][Next /\ UNCHANGED deployment]_<<vars, deployment>>

MCSpec == MCInit /\ [][MCNext]_<<vars, deployment>>

\* SlashProt.CrashNeverRefused, where no directory is ever restored: a crash between
\* the two writes of write_record never makes a later boot refuse the key.
NeverRefusedWithoutRestore == deployment # "anchored" => CrashNeverRefused

\* What a message says and which commitment it carries is only compared for equality.
ContentSymmetry == Permutations(Roots) \cup Permutations(Commitments)
=============================================================================

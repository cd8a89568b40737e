--------------------------- MODULE FinalityHistory ---------------------------
(***************************************************************************)
(* FinalityNet past both finality gates, with the history the code does    *)
(* not keep: every vote an honest validator casts, every link justified,   *)
(* every epoch finalized.  These are the variables of FFG, so that what    *)
(* the network does can be compared with FFG step by step.                 *)
(***************************************************************************)
EXTENDS FFG

CONSTANTS
    Roster, Common, ForkEpoch, Lossy, ForeignVotes,
    LeakThreshold, LeakQuotient, RecoveryQuotient, FloorNum, FloorDen, RecoveryFrom,
    PruneAfter, ReformEpochs

VARIABLES st, epoch, ballot, mark

Net == INSTANCE FinalityNet WITH
    Faulty <- Validators \ Honest, FrozenFrom <- 0, OwnFrom <- 0

\* A quorum has two thirds of the stake, nobody is away for long enough to be pruned, and the
\* history begins where the branches part.
ASSUME HistoryAssumption ==
    /\ Net!NetConstants /\ ForkEpoch <= 2
    /\ PruneAfter \in Nat /\ PruneAfter > MaxEpoch
    /\ Quorums = {Q \in SUBSET Validators : 3 * Net!WeightOf(Roster, Q) >= 2 * Net!StakeOf(Roster)}
    /\ ChainRoot = [b \in Branches |-> [e \in Epochs |-> Net!Root(b, e)]]

historyVars == <<st, epoch, ballot, mark, votes, links, finalized>>

HistoryInit == Net!Init /\ Init

HistoryVote(v, b) ==
    /\ Net!Vote(v, b)
    /\ votes' = votes \cup {[voter  |-> v,
                             source |-> Net!VoteOn(b).source,
                             target |-> Net!VoteOn(b).target]}
    /\ UNCHANGED <<links, finalized>>

HistoryClose(b, got, also) ==
    /\ Net!CloseEpoch(b, got, also)
    /\ LET source == st[b].current_justified.epoch
           target == st'[b].current_justified.epoch
       IN  links' = [links EXCEPT ![b] = IF target = source THEN @
                                         ELSE @ \cup {Link(source, target)}]
    /\ finalized' = [finalized EXCEPT ![b] = @ \cup {st'[b].finalized.epoch}]
    /\ UNCHANGED votes

HistoryNext ==
    \/ \E v \in Honest, b \in Branches : HistoryVote(v, b)
    \/ \E b \in Branches, also \in SUBSET (Validators \ Honest) : \E got \in Net!Deliveries(b) :
         HistoryClose(b, got, also)

HistorySpec == HistoryInit /\ [][HistoryNext]_historyVars

\* The finality states of a split chain implement FFG: every vote the signing record lets
\* through conflicts with no earlier one, and an epoch closes as no change or as one
\* justification by a quorum from a justified source.
ImplementsFFG == Spec
=============================================================================

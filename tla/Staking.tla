------------------------------- MODULE Staking -------------------------------
(***************************************************************************)
(* The validator registry of the committed state: funded deposits, the     *)
(* activation queue, voluntary exits, slashing evidence, the boundary's    *)
(* issuance and fee credits, and withdrawals, with the amounts they move   *)
(* between the output set, the bonds and the accrued rewards.              *)
(*                                                                         *)
(* A block is the sequence of its transactions.  All lifecycle gates of    *)
(* epoch 2884 are past; the gates still at u64::MAX (unfunded deposits,    *)
(* cancellation, queue v2, growth cap, rewards v2) are shut.  Delegation,  *)
(* the stake caps and the leak change weights, never who is on the roster, *)
(* and are left out.  A key names its validator: indices are never reused. *)
(***************************************************************************)
EXTENDS Integers, FiniteSets, FiniteSetsExt

CONSTANTS
    GenesisKeys,        \* validators of the genesis cohort, whose bonds were never issued
    Applicants,         \* keys that may deposit
    Principal,          \* genesis bond
    MinDeposit,
    Coins,              \* issued at genesis, all of it spendable
    Fee, Tip,           \* what a transaction pays, and the producer's part of it
    EpochIssuance,
    BaseBps, WhistleblowerQuotient, CorrelationWindow,
    ActivationDelay, MaxActivations, ExitDelay, MaxExits, WithdrawalDelay,
    LastEpoch,          \* bound of the model
    Never               \* u64::MAX

ASSUME StakingAssumption ==
    /\ GenesisKeys \cap Applicants = {} /\ IsFiniteSet(GenesisKeys \cup Applicants)
    /\ {Principal, MinDeposit, Coins, Fee, Tip, EpochIssuance} \subseteq Nat /\ Tip <= Fee
    /\ {LastEpoch, ActivationDelay, MaxActivations, MaxExits, BaseBps} \subseteq Nat
    /\ {WhistleblowerQuotient, CorrelationWindow, WithdrawalDelay} \subseteq Nat \ {0}
    /\ ExitDelay \in Nat \ {0, 1}                        \* the const assertion of staking.rs
    /\ Never \in Nat /\ Never > LastEpoch + ExitDelay + WithdrawalDelay

VARIABLES
    epoch,
    finalized,          \* epoch of the finalized checkpoint
    rec,                \* validators but for the bond, with the deposit queue's entry
    staked, low,        \* staked_sat, stake_low_water
    ejected, window,    \* SlashingState
    pending,            \* pending_fee_rewards
    coins,              \* EutxoSet::total_sat
    issued, writtenOff,
    lastDuty            \* history: the last epoch each key was on the roster of

ledger == <<staked, low, pending, coins, issued, writtenOff>>
stakingVars == <<epoch, finalized, rec, ejected, window, ledger, lastDuty>>

Keys == GenesisKeys \cup Applicants
Epochs == 0..LastEpoch
Registered == DOMAIN rec

SaturatingAdd(a, b) == IF a + b > Never THEN Never ELSE a + b
SaturatingSub(a, b) == IF a > b THEN a - b ELSE 0
Lesser(a, b) == IF a < b THEN a ELSE b
Greater(a, b) == IF a > b THEN a ELSE b

Records == [funded : BOOLEAN, deposited : Nat, activation : Nat, exit : Nat,
            withdrawable : Nat, slashed : BOOLEAN]

NewRecord(funded, at) ==
    [funded |-> funded, deposited |-> at, activation |-> IF funded THEN Never ELSE 0,
     exit |-> Never, withdrawable |-> Never, slashed |-> FALSE]

\* No entry in stake_low_water
NoMark == -1

StakingInit ==
    /\ epoch = 0 /\ finalized = 0
    /\ rec = [v \in GenesisKeys |-> NewRecord(FALSE, 0)]
    /\ staked = [v \in Keys |-> IF v \in GenesisKeys THEN Principal ELSE 0]
    /\ low = [v \in Keys |-> NoMark]
    /\ ejected = {} /\ window = [e \in Epochs |-> 0]
    /\ pending = [v \in Keys |-> 0]
    /\ coins = Coins /\ issued = Coins /\ writtenOff = 0
    /\ lastDuty = [v \in Keys |-> 0]

-----------------------------------------------------------------------------
(* The roster.  It reads activation and exit alone: a slashed validator    *)
(* keeps its seat to the end of the epoch.                                 *)

duty_roster_at(e) == {v \in Registered : rec[v].activation <= e /\ e < rec[v].exit}

total_active == MapThenSumSet(LAMBDA v : staked[v], duty_roster_at(epoch))

\* A producer is drawn from the members with weight.
Proposers == {v \in duty_roster_at(epoch) : staked[v] > 0}

\* What of a bond was never issued: a funded bond all came from the output set.
unbacked_principal(v) ==
    IF rec[v].funded THEN 0
    ELSE Lesser(Principal, IF low[v] = NoMark THEN staked[v] ELSE low[v])

withdrawable_sat(v) == SaturatingSub(staked[v], unbacked_principal(v))

-----------------------------------------------------------------------------
(* Transactions.                                                           *)

\* Any paying transaction: the base fee is burned, the rest accrues to the producer.
Transfer(producer) ==
    /\ producer \in Proposers
    /\ coins >= Fee
    /\ coins' = coins - Fee
    /\ pending' = [pending EXCEPT ![producer] = @ + Tip]
    /\ UNCHANGED <<epoch, finalized, rec, staked, low, ejected, window, issued, writtenOff, lastDuty>>

\* The bond and the fee are spent from the output set; the key waits in the queue.
FundedDeposit(v, producer) ==
    /\ v \in Applicants \ Registered
    /\ producer \in Proposers
    /\ coins >= MinDeposit + Fee
    /\ coins' = coins - MinDeposit - Fee
    /\ pending' = [pending EXCEPT ![producer] = @ + Tip]
    /\ rec' = [k \in Registered \cup {v} |->
                 IF k = v THEN NewRecord(TRUE, epoch) ELSE rec[k]]
    /\ staked' = [staked EXCEPT ![v] = MinDeposit]
    /\ UNCHANGED <<epoch, finalized, low, ejected, window, issued, writtenOff, lastDuty>>

voluntary_exits_this_epoch ==
    {v \in Registered : rec[v].exit # Never /\ rec[v].exit = SaturatingAdd(epoch, ExitDelay)}

CanExit(v) ==
    /\ ~rec[v].slashed
    /\ rec[v].activation <= epoch
    /\ rec[v].exit = Never

\* Mutant: the lock runs from the request.
ExitingLockedEarly(r) ==
    [r EXCEPT !.exit = SaturatingAdd(epoch, ExitDelay),
              !.withdrawable = SaturatingAdd(epoch, WithdrawalDelay)]

\* The record of an exit requested now: duties go on for ExitDelay, the lock runs from there.
Exiting(r) ==
    LET exit == SaturatingAdd(epoch, ExitDelay)
    IN  [r EXCEPT !.exit = exit, !.withdrawable = SaturatingAdd(exit, WithdrawalDelay)]

ExitV2(v) ==
    /\ CanExit(v)
    /\ Cardinality(voluntary_exits_this_epoch) < MaxExits
    /\ rec' = [rec EXCEPT ![v] = Exiting(@)]
    /\ UNCHANGED <<epoch, finalized, ejected, window, ledger, lastDuty>>

\* Penalty in basis points, from the window as it was before this offence.
penalty_bps ==
    LET floor == SaturatingSub(epoch, CorrelationWindow - 1)
        recent == MapThenSumSet(LAMBDA e : window[e], floor..epoch)
    IN  Lesser(10000, IF total_active = 0 THEN BaseBps
                      ELSE BaseBps + (3 * 10000 * recent) \div total_active)

operator_loss(v) == (staked[v] * penalty_bps) \div 10000

\* Mutant: the offender leaves the roster at once.
SlashedAtOnce(r) ==
    [r EXCEPT !.slashed = TRUE, !.exit = Lesser(@, epoch),
              !.withdrawable = Greater(epoch + WithdrawalDelay, IF @ = Never THEN 0 ELSE @)]

\* The record of an offender: out of the roster from the next epoch on, and locked for at
\* least the margin.  The exit is never put off, the lock never shortened.
Slashed(r) ==
    LET lock == SaturatingAdd(epoch, WithdrawalDelay)
    IN  [r EXCEPT !.slashed = TRUE,
                  !.exit = Lesser(@, SaturatingAdd(epoch, 1)),
                  !.withdrawable = IF @ = Never THEN lock ELSE Greater(@, lock)]

\* Mutant: a part of the whole loss, issued or not.
reward_of_loss(v) == operator_loss(v) \div WhistleblowerQuotient

\* The producer's reward comes out of issued value only.
whistleblower_reward(v) ==
    LET unbacked == Lesser(unbacked_principal(v), staked[v])
    IN  Lesser(operator_loss(v) \div WhistleblowerQuotient,
               SaturatingSub(operator_loss(v), unbacked))

\* Mutant: new evidence against an ejected key counts.
PunishableAgain(v) == v \in Registered

\* Evidence in either form (two attestations, two headers) shares one set of ejected keys,
\* which also refuses every repetition of it.
Punishable(v) == v \in Registered \ ejected

SlashingEvidence(v, producer) ==
    /\ Punishable(v)
    /\ producer \in Proposers
    /\ ejected' = ejected \cup {v}
    /\ window' = [e \in Epochs |->
                    IF e < SaturatingSub(epoch, CorrelationWindow - 1) THEN 0
                    ELSE window[e] + IF e = epoch THEN operator_loss(v) ELSE 0]
    /\ rec' = [rec EXCEPT ![v] = Slashed(@)]
    /\ staked' = [staked EXCEPT ![v] = SaturatingSub(@, operator_loss(v))]
    /\ low' = [low EXCEPT ![v] = IF @ = NoMark THEN staked'[v] ELSE Lesser(@, staked'[v])]
    /\ pending' = [pending EXCEPT ![producer] = @ + whistleblower_reward(v)]
    /\ UNCHANGED <<epoch, finalized, coins, issued, writtenOff, lastDuty>>

CanWithdraw(v) ==
    /\ rec[v].exit # Never
    /\ rec[v].withdrawable # Never
    /\ epoch >= rec[v].withdrawable
    /\ staked[v] > 0

\* Pays what was issued and writes the rest off.
Withdraw(v) ==
    /\ CanWithdraw(v)
    /\ LET unbacked == Lesser(unbacked_principal(v), staked[v])
       IN  /\ coins' = coins + (staked[v] - unbacked)
           /\ writtenOff' = writtenOff + unbacked
    /\ staked' = [staked EXCEPT ![v] = 0]
    /\ UNCHANGED <<epoch, finalized, rec, low, ejected, window, pending, issued, lastDuty>>

-----------------------------------------------------------------------------
(* The epoch boundary.                                                     *)

\* Mutant: the delay alone.
EligibleUnfinalized(next, final) ==
    {v \in Registered : /\ rec[v].funded
                        /\ rec[v].activation = Never /\ rec[v].exit = Never
                        /\ ~rec[v].slashed
                        /\ rec[v].deposited + ActivationDelay <= next}

\* Queued deposits a finalized checkpoint covers, after the delay.
EligibleAt(next, final) ==
    {v \in Registered : /\ rec[v].funded
                        /\ rec[v].activation = Never /\ rec[v].exit = Never
                        /\ ~rec[v].slashed
                        /\ rec[v].deposited < final
                        /\ rec[v].deposited + ActivationDelay <= next}

\* The oldest deposits first, as many as the churn allows.  The order of one epoch's
\* deposits is that of their key hashes: any.
Admissions(next, final) ==
    LET eligible == EligibleAt(next, final)
    IN  {A \in SUBSET eligible :
            /\ Cardinality(A) = Lesser(MaxActivations, Cardinality(eligible))
            /\ \A v \in A, w \in eligible \ A : rec[v].deposited <= rec[w].deposited}

\* Issuance to the members whose votes were included, by stake.
Payout(v, attested) ==
    IF v \notin attested \/ total_active = 0 THEN 0
    ELSE (EpochIssuance * staked[v]) \div total_active

\* Issuance and accrued fees compound into the bonds, and the queue is served.
CloseRegistry(attested, final, admitted) ==
    /\ epoch < LastEpoch
    /\ epoch' = epoch + 1
    /\ finalized' = final
    /\ staked' = [v \in Keys |-> staked[v] + pending[v] +
                    IF v \in duty_roster_at(epoch) THEN Payout(v, attested) ELSE 0]
    /\ rec' = [v \in Registered |->
                 [rec[v] EXCEPT !.activation = IF v \in admitted THEN epoch + 1 ELSE @]]
    /\ issued' = issued + MapThenSumSet(LAMBDA v : Payout(v, attested), duty_roster_at(epoch))
    /\ pending' = [v \in Keys |-> 0]
    /\ lastDuty' = [v \in Keys |-> IF v \in duty_roster_at(epoch) THEN epoch ELSE lastDuty[v]]
    /\ UNCHANGED <<low, ejected, window, coins, writtenOff>>

StakingNext ==
    \/ \E p \in Proposers : Transfer(p)
    \/ \E v \in Applicants, p \in Proposers : FundedDeposit(v, p)
    \/ \E v \in Registered : ExitV2(v)
    \/ \E v \in Registered, p \in Proposers : SlashingEvidence(v, p)
    \/ \E v \in Registered : Withdraw(v)
    \* The checkpoint of the closing epoch is justified at best: what it finalizes is older.
    \/ \E attested \in SUBSET duty_roster_at(epoch), final \in finalized..Greater(finalized, epoch - 1) :
         \E admitted \in Admissions(epoch + 1, final) : CloseRegistry(attested, final, admitted)

StakingSpec == StakingInit /\ [][StakingNext]_stakingVars

-----------------------------------------------------------------------------
(* Properties.                                                             *)

\* "The index set IS frozen for the epoch" (duty_roster_at): no transaction of an epoch, a
\* slash included, changes who is on the roster its votes were admitted against.
RosterFrozen == [][epoch' = epoch => duty_roster_at(epoch)' = duty_roster_at(epoch)]_stakingVars

\* The weak-subjectivity margin (WITHDRAWAL_DELAY_EPOCHS): a bond is paid out only when the
\* margin has passed since the last epoch its validator served in, and never while it serves,
\* whatever order it exited and was slashed in.
LockedAfterDuty ==
    [][\A v \in Registered :
          Withdraw(v) => /\ v \notin duty_roster_at(epoch)
                         /\ epoch >= lastDuty[v] + WithdrawalDelay]_stakingVars

\* Every coin that can be spent, now or after a withdrawal, was issued: the principal the
\* genesis cohort never paid for leaves no bond, neither as a payout nor as a whistleblower's
\* reward (withdrawal_plan, apply_slashing_evidence).
BackedByIssuance ==
    coins + MapThenSumSet(LAMBDA v : pending[v] + withdrawable_sat(v), Registered) <= issued

\* One offence is punished once: a slashed bond is never cut again, by evidence of either
\* form, and its validator never comes back to the roster of a later epoch.
PunishedOnce ==
    [][\A v \in Registered : rec[v].slashed =>
          /\ rec'[v].slashed
          /\ staked'[v] >= staked[v] \/ Withdraw(v)
          /\ epoch' > epoch => v \notin duty_roster_at(epoch)']_stakingVars

\* "Stalls cannot backdate activation or bypass churn" (activate_finalized_deposits): at most
\* MaxActivations start in any one epoch, each with a finalized deposit that waited its
\* delay; and at most MaxExits leave a roster in any one epoch unless they are slashed, though
\* a slash takes its key out of the count of voluntary_exits_this_epoch.
ChurnBounded ==
    /\ \A e \in 1..Never - 1 :
          /\ Cardinality({v \in Registered : rec[v].activation = e}) <= MaxActivations
          /\ Cardinality({v \in Registered : rec[v].exit = e /\ ~rec[v].slashed}) <= MaxExits
    /\ \A v \in Registered : rec[v].funded /\ rec[v].activation # Never =>
          /\ rec[v].activation >= rec[v].deposited + ActivationDelay
          /\ rec[v].deposited < finalized
=============================================================================

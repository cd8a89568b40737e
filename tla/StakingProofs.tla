---------------------------- MODULE StakingProofs ----------------------------
(***************************************************************************)
(* What the registry keeps, for every registry size, delay, limit and      *)
(* amount: the roster of an epoch is frozen, bonds stay locked for the     *)
(* margin after the last duty, an offence is punished once, churn stays    *)
(* within its limits, and every coin that can be spent was issued.         *)
(*                                                                         *)
(* ClockInv carries the first two; AmountInv types the amounts; PunishInv, *)
(* ChurnInv and Backed each carry one of the others.                       *)
(***************************************************************************)
EXTENDS Staking, StakeSums

\* A leaf goes to the SMT solver unless it names another prover.
USE SMTT(60), Z3T(60)

\* The clocks of a record.  An exit and a lock are set together, and the lock outlasts by
\* the margin the last epoch served and the last epoch that may still be served.
ClockInv ==
    /\ epoch \in Epochs
    /\ Registered \subseteq Keys
    /\ rec \in [Registered -> Records]
    /\ lastDuty \in [Keys -> Nat] /\ \A v \in Keys : lastDuty[v] <= epoch
    /\ \A v \in Registered :
          /\ rec[v].exit <= Never
          /\ rec[v].exit # Never <=> rec[v].withdrawable # Never
          /\ rec[v].exit # Never =>
                /\ rec[v].withdrawable >= lastDuty[v] + WithdrawalDelay
                /\ rec[v].withdrawable + 1 >= rec[v].exit + WithdrawalDelay

LEMMA ClockInit == StakingInit => ClockInv
<1> SUFFICES ASSUME StakingInit PROVE ClockInv
  OBVIOUS
<1>1. Registered = GenesisKeys /\ \A v \in GenesisKeys : rec[v] = NewRecord(FALSE, 0)
  BY DEF StakingInit, Registered
<1>2. NewRecord(FALSE, 0) \in Records
  BY StakingAssumption DEF NewRecord, Records
<1>3. rec \in [Registered -> Records]
  BY <1>1, <1>2, ZenonT(60) DEF StakingInit
<1>4. epoch \in Epochs /\ lastDuty \in [Keys -> Nat]
  BY StakingAssumption DEF StakingInit, Epochs
<1>5. \A v \in Keys : lastDuty[v] = 0
  BY DEF StakingInit
<1>6. \A v \in GenesisKeys : rec[v].exit = Never /\ rec[v].withdrawable = Never
  BY <1>1 DEF NewRecord
<1>7. epoch = 0 /\ Never \in Nat
  BY StakingAssumption DEF StakingInit
<1>8. GenesisKeys \subseteq Keys
  BY DEF Keys
<1>9. QED
  BY <1>1, <1>3, <1>4, <1>5, <1>6, <1>7, <1>8 DEF ClockInv

\* An exit sets both clocks after the current epoch.
LEMMA ExitingClock ==
    ASSUME NEW r \in Records, epoch \in Epochs
    PROVE  /\ Exiting(r) \in Records
           /\ Exiting(r).exit = epoch + ExitDelay
           /\ Exiting(r).withdrawable = epoch + ExitDelay + WithdrawalDelay
           /\ Exiting(r).activation = r.activation
<1>1. /\ SaturatingAdd(epoch, ExitDelay) = epoch + ExitDelay
      /\ SaturatingAdd(epoch + ExitDelay, WithdrawalDelay) = epoch + ExitDelay + WithdrawalDelay
  BY StakingAssumption DEF SaturatingAdd, Epochs
<1>2. Exiting(r) = [r EXCEPT !.exit = epoch + ExitDelay,
                             !.withdrawable = epoch + ExitDelay + WithdrawalDelay]
  BY <1>1, ZenonT(60) DEF Exiting
<1>3. epoch + ExitDelay \in Nat /\ epoch + ExitDelay + WithdrawalDelay \in Nat
  BY StakingAssumption DEF Epochs
<1>4. QED
  BY <1>2, <1>3, ZenonT(60) DEF Records

\* A slash takes the exit no further than the next epoch and the lock no nearer than the margin.
LEMMA SlashedClock ==
    ASSUME NEW r \in Records, epoch \in Epochs
    PROVE  /\ Slashed(r) \in Records
           /\ Slashed(r).exit = IF r.exit < epoch + 1 THEN r.exit ELSE epoch + 1
           /\ Slashed(r).withdrawable >= epoch + WithdrawalDelay
           /\ r.withdrawable # Never => Slashed(r).withdrawable >= r.withdrawable
           /\ \/ Slashed(r).withdrawable = epoch + WithdrawalDelay
              \/ Slashed(r).withdrawable = r.withdrawable /\ r.withdrawable # Never
           /\ Slashed(r).activation = r.activation
<1>1. /\ SaturatingAdd(epoch, 1) = epoch + 1
      /\ SaturatingAdd(epoch, WithdrawalDelay) = epoch + WithdrawalDelay
      /\ epoch \in Nat /\ epoch + 1 \in Nat /\ epoch + WithdrawalDelay \in Nat
  BY StakingAssumption DEF SaturatingAdd, Epochs
<1> DEFINE x == IF r.exit < epoch + 1 THEN r.exit ELSE epoch + 1
           w == IF r.withdrawable = Never THEN epoch + WithdrawalDelay
                ELSE IF r.withdrawable > epoch + WithdrawalDelay THEN r.withdrawable
                ELSE epoch + WithdrawalDelay
<1>2. Slashed(r) = [r EXCEPT !.slashed = TRUE, !.exit = x, !.withdrawable = w]
  BY <1>1, ZenonT(60) DEF Slashed, Lesser, Greater
<1>3. r.exit \in Nat /\ r.withdrawable \in Nat
  BY DEF Records
<1>4. /\ x \in Nat /\ w \in Nat /\ w >= epoch + WithdrawalDelay
      /\ r.withdrawable # Never => w >= r.withdrawable
      /\ \/ w = epoch + WithdrawalDelay
         \/ w = r.withdrawable /\ r.withdrawable # Never
  BY <1>1, <1>3, StakingAssumption
<1> HIDE DEF x, w
<1>5. /\ Slashed(r).exit = x /\ Slashed(r).withdrawable = w
      /\ Slashed(r).activation = r.activation
  BY <1>2 DEF Records
<1>6. Slashed(r) \in Records
  <2>1. [r EXCEPT !.slashed = TRUE] \in Records
    BY ZenonT(60) DEF Records
  <2>2. Slashed(r) = [[r EXCEPT !.slashed = TRUE] EXCEPT !.exit = x, !.withdrawable = w]
    BY <1>2 DEF Records
  <2>3. QED
    BY <2>1, <2>2, <1>4, ZenonT(60) DEF Records
<1>7. QED
  BY <1>4, <1>5, <1>6 DEF x

\* One record changes, everything else the invariant reads stays: it is enough to look at
\* that record.
LEMMA OneRecord ==
    ASSUME ClockInv, NEW v \in Registered, NEW r \in Records,
           rec' = [rec EXCEPT ![v] = r], UNCHANGED <<epoch, lastDuty>>,
           r.exit # Never, r.withdrawable # Never, r.exit <= Never,
           r.withdrawable >= epoch + WithdrawalDelay,
           r.withdrawable + 1 >= r.exit + WithdrawalDelay
    PROVE  ClockInv'
<1>1. Registered' = Registered /\ rec' \in [Registered -> Records]
  BY DEF ClockInv, Registered
<1>2. rec'[v] = r /\ \A k \in Registered \ {v} : rec'[k] = rec[k]
  BY DEF ClockInv
<1>3. r.withdrawable >= lastDuty[v] + WithdrawalDelay
  <2>1. lastDuty[v] \in Nat /\ epoch \in Nat /\ lastDuty[v] <= epoch /\ r.withdrawable \in Nat
    BY DEF ClockInv, Epochs, Records
  <2>2. QED
    BY <2>1, StakingAssumption
<1>4. \A k \in Registered' :
          /\ rec'[k].exit <= Never
          /\ rec'[k].exit # Never <=> rec'[k].withdrawable # Never
          /\ rec'[k].exit # Never =>
                /\ rec'[k].withdrawable >= lastDuty'[k] + WithdrawalDelay
                /\ rec'[k].withdrawable + 1 >= rec'[k].exit + WithdrawalDelay
  <2> SUFFICES ASSUME NEW k \in Registered
               PROVE  /\ rec'[k].exit <= Never
                      /\ rec'[k].exit # Never <=> rec'[k].withdrawable # Never
                      /\ rec'[k].exit # Never =>
                            /\ rec'[k].withdrawable >= lastDuty[k] + WithdrawalDelay
                            /\ rec'[k].withdrawable + 1 >= rec'[k].exit + WithdrawalDelay
    BY <1>1
  <2>1. CASE k = v
    BY <2>1, <1>2, <1>3 DEF ClockInv
  <2>2. CASE k # v
    BY <2>2, <1>2 DEF ClockInv
  <2>3. QED
    BY <2>1, <2>2
<1>5. /\ epoch' \in Epochs /\ Registered' \subseteq Keys
      /\ lastDuty' \in [Keys -> Nat] /\ \A k \in Keys : lastDuty'[k] <= epoch'
  BY <1>1 DEF ClockInv, Epochs, Keys
<1>6. QED
  BY <1>1, <1>4, <1>5 DEF ClockInv

LEMMA ExitClock == ASSUME ClockInv, NEW v \in Registered, ExitV2(v) PROVE ClockInv'
<1>1. rec[v] \in Records /\ epoch \in Epochs
  BY DEF ClockInv
<1>2. /\ Exiting(rec[v]) \in Records
      /\ Exiting(rec[v]).exit = epoch + ExitDelay
      /\ Exiting(rec[v]).withdrawable = epoch + ExitDelay + WithdrawalDelay
  BY <1>1, ExitingClock
<1>3. rec' = [rec EXCEPT ![v] = Exiting(rec[v])] /\ UNCHANGED <<epoch, lastDuty>>
  BY DEF ExitV2
<1>4. /\ epoch + ExitDelay < Never /\ epoch + ExitDelay + WithdrawalDelay < Never
      /\ epoch + ExitDelay + WithdrawalDelay >= epoch + WithdrawalDelay
      /\ epoch + ExitDelay + WithdrawalDelay + 1 >= epoch + ExitDelay + WithdrawalDelay
  BY <1>1, StakingAssumption DEF Epochs
<1>5. /\ Exiting(rec[v]).exit # Never /\ Exiting(rec[v]).withdrawable # Never
      /\ Exiting(rec[v]).exit <= Never
      /\ Exiting(rec[v]).withdrawable >= epoch + WithdrawalDelay
      /\ Exiting(rec[v]).withdrawable + 1 >= Exiting(rec[v]).exit + WithdrawalDelay
  BY <1>1, <1>2, <1>4, StakingAssumption DEF Epochs
<1>6. QED
  BY <1>2, <1>3, <1>5, OneRecord, ZenonT(60)

LEMMA SlashClock ==
    ASSUME ClockInv, NEW v \in Registered, NEW p, SlashingEvidence(v, p)
    PROVE  ClockInv'
<1> DEFINE r == rec[v]
           s == Slashed(r)
<1>1. r \in Records /\ epoch \in Epochs
  BY DEF ClockInv
<1>2. /\ s \in Records
      /\ s.exit = IF r.exit < epoch + 1 THEN r.exit ELSE epoch + 1
      /\ s.withdrawable >= epoch + WithdrawalDelay
      /\ r.withdrawable # Never => s.withdrawable >= r.withdrawable
      /\ \/ s.withdrawable = epoch + WithdrawalDelay
         \/ s.withdrawable = r.withdrawable /\ r.withdrawable # Never
  BY <1>1, SlashedClock
<1>3. rec' = [rec EXCEPT ![v] = s] /\ UNCHANGED <<epoch, lastDuty>>
  BY DEF SlashingEvidence
<1>4. r.exit \in Nat /\ r.withdrawable \in Nat /\ s.exit \in Nat /\ s.withdrawable \in Nat
  BY <1>1, <1>2 DEF Records
<1> HIDE DEF r, s
<1>5. epoch \in Nat /\ epoch + ExitDelay + WithdrawalDelay < Never /\ ExitDelay > 1
  BY <1>1, StakingAssumption DEF Epochs
<1>6. /\ s.exit # Never /\ s.exit <= Never /\ s.withdrawable # Never
      /\ s.withdrawable + 1 >= s.exit + WithdrawalDelay
  BY <1>2, <1>4, <1>5, StakingAssumption
<1>7. QED
  BY <1>2, <1>3, <1>6, OneRecord, ZenonT(60)

\* A new registration has no clock running.
LEMMA DepositClock ==
    ASSUME ClockInv, NEW v \in Applicants, NEW p, FundedDeposit(v, p)
    PROVE  ClockInv' /\ duty_roster_at(epoch)' = duty_roster_at(epoch)
<1>1. /\ Registered' = Registered \cup {v} /\ v \notin Registered /\ v \in Keys
      /\ UNCHANGED <<epoch, lastDuty>>
  BY DEF FundedDeposit, Registered, Keys
<1>2. rec'[v] = NewRecord(TRUE, epoch) /\ \A k \in Registered : rec'[k] = rec[k]
  BY ZenonT(60) DEF FundedDeposit
<1>3. epoch \in Nat /\ epoch < Never /\ Never \in Nat
  BY StakingAssumption DEF ClockInv, Epochs
<1>4. /\ NewRecord(TRUE, epoch) \in Records
      /\ NewRecord(TRUE, epoch).exit = Never /\ NewRecord(TRUE, epoch).withdrawable = Never
      /\ NewRecord(TRUE, epoch).activation = Never
  BY <1>3 DEF NewRecord, Records
<1>5. rec' \in [Registered' -> Records]
  <2>1. rec' = [k \in Registered' |-> IF k = v THEN NewRecord(TRUE, epoch) ELSE rec[k]]
    BY <1>1 DEF FundedDeposit
  <2>2. \A k \in Registered : rec[k] \in Records
    BY DEF ClockInv
  <2>3. QED
    BY <1>1, <1>4, <2>1, <2>2, ZenonT(60)
<1>6. \A k \in Registered' :
          /\ rec'[k].exit <= Never
          /\ rec'[k].exit # Never <=> rec'[k].withdrawable # Never
          /\ rec'[k].exit # Never =>
                /\ rec'[k].withdrawable >= lastDuty'[k] + WithdrawalDelay
                /\ rec'[k].withdrawable + 1 >= rec'[k].exit + WithdrawalDelay
  <2>1. ASSUME NEW k \in Registered
        PROVE  rec'[k] = rec[k] /\ lastDuty' = lastDuty
    BY <1>1, <1>2
  <2>2. rec'[v].exit = Never /\ rec'[v].withdrawable = Never
    BY <1>2, <1>4, ZenonT(60)
  <2>3. QED
    BY <1>1, <1>3, <2>1, <2>2 DEF ClockInv
<1>7. ClockInv'
  BY <1>1, <1>5, <1>6 DEF ClockInv, Epochs, Keys
<1>8. duty_roster_at(epoch)' = duty_roster_at(epoch)
  <2>1. rec'[v].activation = Never
    BY <1>2, <1>4, ZenonT(60)
  <2>2. ~(rec'[v].activation <= epoch)
    BY <1>3, <2>1
  <2>3. duty_roster_at(epoch)' = {k \in Registered' : rec'[k].activation <= epoch /\ epoch < rec'[k].exit}
    BY <1>1 DEF duty_roster_at
  <2>4. QED
    BY <1>1, <1>2, <2>2, <2>3, ZenonT(60) DEF duty_roster_at
<1>9. QED
  BY <1>7, <1>8

\* A boundary records the epoch as served by members whose exit is still ahead: their lock
\* outlasts it.
LEMMA CloseClock ==
    ASSUME ClockInv, NEW attested, NEW final, NEW admitted, CloseRegistry(attested, final, admitted)
    PROVE  ClockInv'
<1>1. epoch \in Nat /\ epoch' = epoch + 1 /\ epoch' \in Epochs
  BY StakingAssumption DEF CloseRegistry, ClockInv, Epochs
<1>2. Registered' = Registered /\ Registered' \subseteq Keys
  BY DEF CloseRegistry, ClockInv, Registered, Keys
<1>3. ASSUME NEW v \in Registered
      PROVE  /\ rec'[v] \in Records /\ rec'[v].exit = rec[v].exit
             /\ rec'[v].withdrawable = rec[v].withdrawable
  <2>1. rec'[v] = [rec[v] EXCEPT !.activation = IF v \in admitted THEN epoch + 1 ELSE rec[v].activation]
    BY DEF CloseRegistry
  <2>2. rec[v] \in Records
    BY DEF ClockInv
  <2>3. (IF v \in admitted THEN epoch + 1 ELSE rec[v].activation) \in Nat
    BY <1>1, <2>2 DEF Records
  <2>4. QED
    BY <2>1, <2>2, <2>3 DEF Records
<1>4. rec' \in [Registered' -> Records]
  BY <1>2, <1>3 DEF CloseRegistry
<1>5. \A v \in Keys : lastDuty'[v] = IF v \in duty_roster_at(epoch) THEN epoch ELSE lastDuty[v]
  BY DEF CloseRegistry
<1>6. lastDuty' \in [Keys -> Nat] /\ \A v \in Keys : lastDuty'[v] <= epoch'
  <2>1. lastDuty' \in [Keys -> Nat]
    BY <1>1 DEF CloseRegistry, ClockInv
  <2>2. ASSUME NEW v \in Keys PROVE lastDuty'[v] <= epoch + 1
    BY <1>1, <1>5 DEF ClockInv
  <2>3. QED
    BY <1>1, <2>1, <2>2
<1>7. ASSUME NEW v \in Registered, rec[v].exit # Never
      PROVE  rec[v].withdrawable >= lastDuty'[v] + WithdrawalDelay
  <2>1. v \in Keys /\ rec[v].exit \in Nat /\ rec[v].withdrawable \in Nat /\ lastDuty[v] \in Nat
    BY DEF ClockInv, Records
  <2>2. CASE v \in duty_roster_at(epoch)
    <3>1. lastDuty'[v] = epoch /\ epoch < rec[v].exit
      BY <2>1, <2>2, <1>5 DEF duty_roster_at
    <3>2. rec[v].withdrawable + 1 >= rec[v].exit + WithdrawalDelay
      BY <1>7 DEF ClockInv
    <3>3. QED
      BY <2>1, <3>1, <3>2, <1>1, StakingAssumption
  <2>3. CASE v \notin duty_roster_at(epoch)
    BY <2>1, <2>3, <1>5, <1>7 DEF ClockInv
  <2>4. QED
    BY <2>2, <2>3
<1>8. \A v \in Registered' :
          /\ rec'[v].exit <= Never
          /\ rec'[v].exit # Never <=> rec'[v].withdrawable # Never
          /\ rec'[v].exit # Never =>
                /\ rec'[v].withdrawable >= lastDuty'[v] + WithdrawalDelay
                /\ rec'[v].withdrawable + 1 >= rec'[v].exit + WithdrawalDelay
  BY <1>2, <1>3, <1>7 DEF ClockInv
<1>9. QED
  BY <1>1, <1>2, <1>4, <1>6, <1>8 DEF ClockInv

\* A step that leaves records, epoch and duties alone.
LEMMA OtherClock ==
    ASSUME ClockInv, UNCHANGED <<rec, epoch, lastDuty>>
    PROVE  ClockInv' /\ duty_roster_at(epoch)' = duty_roster_at(epoch)
BY DEF ClockInv, duty_roster_at, Registered, Epochs, Keys

LEMMA ClockStep == ClockInv /\ [StakingNext]_stakingVars => ClockInv'
<1> SUFFICES ASSUME ClockInv, [StakingNext]_stakingVars PROVE ClockInv'
  OBVIOUS
<1>1. CASE \E p \in Proposers : Transfer(p)
  BY <1>1, OtherClock DEF Transfer
<1>2. CASE \E v \in Applicants, p \in Proposers : FundedDeposit(v, p)
  BY <1>2, DepositClock
<1>3. CASE \E v \in Registered : ExitV2(v)
  BY <1>3, ExitClock
<1>4. CASE \E v \in Registered, p \in Proposers : SlashingEvidence(v, p)
  BY <1>4, SlashClock
<1>5. CASE \E v \in Registered : Withdraw(v)
  BY <1>5, OtherClock DEF Withdraw
<1>6. CASE \E attested, final, admitted : CloseRegistry(attested, final, admitted)
  BY <1>6, CloseClock
<1>7. CASE UNCHANGED stakingVars
  BY <1>7, OtherClock DEF stakingVars
<1>8. QED
  BY <1>1, <1>2, <1>3, <1>4, <1>5, <1>6, <1>7 DEF StakingNext

LEMMA ClockInvariant == StakingSpec => []ClockInv
BY ClockInit, ClockStep, PTL DEF StakingSpec

-----------------------------------------------------------------------------
\* A record whose activation stays and whose exit stays on the same side of the epoch keeps
\* its place on, or off, the roster.
LEMMA SameRoster ==
    ASSUME UNCHANGED epoch, Registered' = Registered,
           \A k \in Registered : /\ rec'[k].activation = rec[k].activation
                                 /\ epoch < rec'[k].exit <=> epoch < rec[k].exit
    PROVE  duty_roster_at(epoch)' = duty_roster_at(epoch)
BY DEF duty_roster_at

LEMMA ExitRoster ==
    ASSUME ClockInv, NEW v \in Registered, ExitV2(v)
    PROVE  duty_roster_at(epoch)' = duty_roster_at(epoch)
<1>1. rec[v] \in Records /\ epoch \in Epochs /\ rec[v].exit = Never
  BY DEF ClockInv, ExitV2, CanExit
<1>2. /\ Exiting(rec[v]).exit = epoch + ExitDelay
      /\ Exiting(rec[v]).activation = rec[v].activation
  BY <1>1, ExitingClock
<1>3. epoch < epoch + ExitDelay /\ epoch < Never
  BY <1>1, StakingAssumption DEF Epochs
<1>4. /\ Registered' = Registered /\ UNCHANGED epoch
      /\ rec'[v] = Exiting(rec[v]) /\ \A k \in Registered \ {v} : rec'[k] = rec[k]
  BY DEF ExitV2, ClockInv, Registered
<1>5. QED
  BY <1>1, <1>2, <1>3, <1>4, SameRoster

LEMMA SlashRoster ==
    ASSUME ClockInv, NEW v \in Registered, NEW p, SlashingEvidence(v, p)
    PROVE  duty_roster_at(epoch)' = duty_roster_at(epoch)
<1>1. rec[v] \in Records /\ epoch \in Epochs
  BY DEF ClockInv
<1>2. /\ Slashed(rec[v]).exit = IF rec[v].exit < epoch + 1 THEN rec[v].exit ELSE epoch + 1
      /\ Slashed(rec[v]).activation = rec[v].activation
  BY <1>1, SlashedClock
<1>3. epoch \in Nat /\ rec[v].exit \in Nat
  BY <1>1 DEF Epochs, Records
<1>4. epoch < Slashed(rec[v]).exit <=> epoch < rec[v].exit
  BY <1>2, <1>3
<1>5. /\ Registered' = Registered /\ UNCHANGED epoch
      /\ rec'[v] = Slashed(rec[v]) /\ \A k \in Registered \ {v} : rec'[k] = rec[k]
  BY DEF SlashingEvidence, ClockInv, Registered
<1>6. QED
  BY <1>2, <1>4, <1>5, SameRoster

LEMMA RosterStep ==
    ASSUME ClockInv, [StakingNext]_stakingVars, epoch' = epoch
    PROVE  duty_roster_at(epoch)' = duty_roster_at(epoch)
<1>1. CASE \E p \in Proposers : Transfer(p)
  BY <1>1, OtherClock DEF Transfer
<1>2. CASE \E v \in Applicants, p \in Proposers : FundedDeposit(v, p)
  BY <1>2, DepositClock
<1>3. CASE \E v \in Registered : ExitV2(v)
  BY <1>3, ExitRoster
<1>4. CASE \E v \in Registered, p \in Proposers : SlashingEvidence(v, p)
  BY <1>4, SlashRoster
<1>5. CASE \E v \in Registered : Withdraw(v)
  BY <1>5, OtherClock DEF Withdraw
<1>6. CASE \E attested, final, admitted : CloseRegistry(attested, final, admitted)
  <2>1. epoch' = epoch + 1 /\ epoch \in Nat
    BY <1>6 DEF CloseRegistry, ClockInv, Epochs
  <2>2. QED
    BY <2>1
<1>7. CASE UNCHANGED stakingVars
  BY <1>7, OtherClock DEF stakingVars
<1>8. QED
  BY <1>1, <1>2, <1>3, <1>4, <1>5, <1>6, <1>7 DEF StakingNext

\* No transaction changes the roster of the epoch it is in (duty_roster_at, "frozen for the
\* epoch"): the exit of apply_exit_v2 and of apply_slashing_evidence lies ahead, and a slash
\* moves no exit back across the current epoch.
THEOREM RosterIsFrozen == StakingSpec => RosterFrozen
<1>1. ClockInv /\ [StakingNext]_stakingVars => [epoch' = epoch => duty_roster_at(epoch)' = duty_roster_at(epoch)]_stakingVars
  BY RosterStep
<1>2. QED
  BY <1>1, ClockInvariant, PTL DEF StakingSpec, RosterFrozen

\* A withdrawal (withdrawal_plan) comes a full margin after the last epoch on the roster, for
\* every order of exit, slash and boundary.
THEOREM BondLockedAfterDuty == StakingSpec => LockedAfterDuty
<1>1. ASSUME ClockInv, NEW v \in Registered, Withdraw(v)
      PROVE  v \notin duty_roster_at(epoch) /\ epoch >= lastDuty[v] + WithdrawalDelay
  <2>1. /\ {rec[v].withdrawable, rec[v].exit, epoch, lastDuty[v]} \subseteq Nat
        /\ rec[v].exit # Never /\ epoch >= rec[v].withdrawable
    BY <1>1 DEF ClockInv, Records, Epochs, Withdraw, CanWithdraw
  <2>2. /\ rec[v].withdrawable >= lastDuty[v] + WithdrawalDelay
        /\ rec[v].withdrawable + 1 >= rec[v].exit + WithdrawalDelay
    BY <1>1, <2>1 DEF ClockInv
  <2>3. ~(epoch < rec[v].exit)
    BY <2>1, <2>2, StakingAssumption
  <2>4. QED
    BY <2>1, <2>2, <2>3, StakingAssumption DEF duty_roster_at
<1>2. ClockInv /\ [StakingNext]_stakingVars =>
        [\A v \in Registered :
            Withdraw(v) => /\ v \notin duty_roster_at(epoch)
                           /\ epoch >= lastDuty[v] + WithdrawalDelay]_stakingVars
  BY <1>1
<1>3. QED
  BY <1>2, ClockInvariant, PTL DEF StakingSpec, LockedAfterDuty

-----------------------------------------------------------------------------
(* The amounts.                                                            *)

\* Amounts are natural, and a key that never registered has none.
AmountInv ==
    /\ coins \in Nat /\ issued \in Nat
    /\ staked \in [Keys -> Nat] /\ pending \in [Keys -> Nat]
    /\ low \in [Keys -> Nat \cup {NoMark}]
    /\ window \in [Epochs -> Nat]
    /\ \A v \in Keys \ Registered : staked[v] = 0 /\ pending[v] = 0

\* What the boundary and the penalty divide by.
LEMMA ActiveType ==
    ASSUME ClockInv, AmountInv
    PROVE  total_active \in Nat /\ IsFiniteSet(duty_roster_at(epoch))
<1>1. IsFiniteSet(Keys)
  BY StakingAssumption DEF Keys
<1>2. duty_roster_at(epoch) \subseteq Keys
  BY DEF duty_roster_at, ClockInv
<1>3. IsFiniteSet(duty_roster_at(epoch)) /\ \A v \in duty_roster_at(epoch) : staked[v] \in Nat
  BY <1>1, <1>2, FS_Subset DEF AmountInv
<1>4. total_active = SumOver(staked, duty_roster_at(epoch))
  BY DEF total_active, SumOver
<1> QED
  BY <1>3, <1>4, SumType

LEMMA RatioType ==
    ASSUME NEW n \in Nat, NEW t \in Nat, NEW q \in Nat \ {0}
    PROVE  (n * t) \div q \in Nat /\ n \div q \in Nat /\ n \div q <= n
<1>1. n * t \in Nat
  OBVIOUS
<1>2. \A m \in Nat : m \div q \in Nat
  OBVIOUS
<1>3. n \div q <= n
  OBVIOUS
<1> QED
  BY <1>1, <1>2, <1>3

LEMMA PayoutType ==
    ASSUME ClockInv, AmountInv, NEW attested, NEW v \in Keys
    PROVE  Payout(v, attested) \in Nat
<1>1. total_active \in Nat /\ staked[v] \in Nat /\ EpochIssuance \in Nat
  BY ActiveType, StakingAssumption DEF AmountInv
<1>2. total_active # 0 => (EpochIssuance * staked[v]) \div total_active \in Nat
  BY <1>1, RatioType
<1> QED
  BY <1>2 DEF Payout

\* A penalty is a share of the bond, whatever the window holds.
LEMMA PenaltyType ==
    ASSUME ClockInv, AmountInv
    PROVE  penalty_bps \in Nat /\ penalty_bps <= 10000
<1> DEFINE floor == SaturatingSub(epoch, CorrelationWindow - 1)
           recent == MapThenSumSet(LAMBDA e : window[e], floor..epoch)
<1>1. epoch \in Nat /\ epoch <= LastEpoch /\ floor \in Nat
  BY StakingAssumption DEF ClockInv, Epochs, SaturatingSub
<1>2. recent \in Nat
  <2>1. floor..epoch \subseteq Epochs
    BY <1>1, StakingAssumption DEF Epochs
  <2>2. IsFiniteSet(floor..epoch)
    BY <1>1, FS_Interval
  <2>3. \A e \in floor..epoch : window[e] \in Nat
    BY <2>1 DEF AmountInv
  <2>4. recent = SumOver(window, floor..epoch)
    BY DEF SumOver
  <2> HIDE DEF recent, floor
  <2> QED
    BY <2>2, <2>3, <2>4, SumType, ZenonT(60)
<1>3. total_active \in Nat /\ BaseBps \in Nat
  BY ActiveType, StakingAssumption
<1> DEFINE raw == IF total_active = 0 THEN BaseBps
                  ELSE BaseBps + (3 * 10000 * recent) \div total_active
<1>4. raw \in Nat
  <2> HIDE DEF recent
  <2>1. 3 * 10000 * recent \in Nat
    BY <1>2
  <2>2. total_active # 0 => (3 * 10000 * recent) \div total_active \in Nat
    BY <2>1, <1>3, RatioType
  <2> QED
    BY <1>3, <2>2
<1>5. penalty_bps = Lesser(10000, raw)
  BY DEF penalty_bps
<1> HIDE DEF raw
<1> QED
  BY <1>4, <1>5 DEF Lesser

LEMMA ShareBounded ==
    ASSUME NEW s \in Nat, NEW q \in Nat \ {0}, NEW b \in Nat, b <= q
    PROVE  (s * b) \div q \in Nat /\ (s * b) \div q <= s
<1> DEFINE c == q - b
           m == s * b
           n == s * c
<1>1. c \in Nat /\ q = b + c
  OBVIOUS
<1>2. \A x, y \in Nat : x * y \in Nat
  OBVIOUS
<1>3. m \in Nat /\ n \in Nat /\ s * q = m + n
  <2> HIDE DEF c
  <2> QED
    BY <1>1, <1>2
<1>4. m <= s * q
  <2> HIDE DEF m, n
  <2> QED
    BY <1>3
<1>5. \A k \in Nat : k <= s * q => k \div q \in Nat /\ k \div q <= s
  OBVIOUS
<1> HIDE DEF m
<1>6. m \div q \in Nat /\ m \div q <= s
  BY <1>3, <1>4, <1>5
<1> QED
  BY <1>6 DEF m

LEMMA LossBounded ==
    ASSUME ClockInv, AmountInv, NEW v \in Keys
    PROVE  operator_loss(v) \in Nat /\ operator_loss(v) <= staked[v]
<1> DEFINE s == staked[v]
           b == penalty_bps
           q == 10000
<1>1. b \in Nat /\ b <= q
  BY PenaltyType
<1>2. s \in Nat /\ q \in Nat \ {0}
  BY DEF AmountInv
<1>3. operator_loss(v) = (s * b) \div q
  BY DEF operator_loss
<1> HIDE DEF s, b, q
<1>4. (s * b) \div q \in Nat /\ (s * b) \div q <= s
  BY <1>1, <1>2, ShareBounded, ZenonT(60)
<1> QED
  BY <1>3, <1>4 DEF s

\* What a boundary issues is a sum of payouts.
Issuance(attested) == MapThenSumSet(LAMBDA v : Payout(v, attested), duty_roster_at(epoch))

LEMMA IssuanceIsSum ==
    ASSUME ClockInv, AmountInv, NEW attested
    PROVE  /\ Issuance(attested) =
                  SumOver([v \in duty_roster_at(epoch) |-> Payout(v, attested)], duty_roster_at(epoch))
           /\ Issuance(attested) \in Nat
<1> DEFINE R == duty_roster_at(epoch)
           pay == [v \in R |-> Payout(v, attested)]
           F == CHOOSE g : g = [s \in SUBSET R |->
                    IF s = {} THEN 0 ELSE Payout(Pick(s), attested) + g[s \ {Pick(s)}]]
<1>1. IsFiniteSet(R) /\ \A v \in R : Payout(v, attested) \in Nat
  BY ActiveType, PayoutType DEF duty_roster_at, ClockInv
<1>2. Issuance(attested) = F[R]
  BY DEF Issuance, MapThenSumSet, MapThenFoldSet, Pick
<1>3. \A s \in SUBSET R : s # {} => pay[Pick(s)] = Payout(Pick(s), attested)
  BY PickIn
<1> HIDE DEF R, pay
<1>4. ASSUME NEW g
      PROVE  Folds(pay, R, g) <=>
               g = [s \in SUBSET R |->
                    IF s = {} THEN 0 ELSE Payout(Pick(s), attested) + g[s \ {Pick(s)}]]
  <2>1. [s \in SUBSET R |-> IF s = {} THEN 0 ELSE pay[Pick(s)] + g[s \ {Pick(s)}]]
        = [s \in SUBSET R |-> IF s = {} THEN 0 ELSE Payout(Pick(s), attested) + g[s \ {Pick(s)}]]
    BY <1>3
  <2> QED
    BY <2>1 DEF Folds
<1>5. \A v \in R : pay[v] \in Nat
  BY <1>1 DEF pay
<1>6. \E g : Folds(pay, R, g)
  BY <1>1, <1>5, FoldsExist, ZenonT(60)
<1>7. Folds(pay, R, F)
  BY <1>4, <1>6, ZenonT(60)
<1> HIDE DEF F
<1>8. F[R] = SumOver(pay, R) /\ SumOver(pay, R) \in Nat
  BY <1>1, <1>5, <1>7, SumAnyFold, SumType
<1> QED
  BY <1>2, <1>8 DEF R, pay

\* The amounts of an offence: the bond, its low water mark and the producer's reward.
LEMMA SlashAmounts ==
    ASSUME ClockInv, AmountInv, NEW v \in Registered, NEW p \in Proposers, SlashingEvidence(v, p)
    PROVE  /\ v \in Keys /\ p \in Registered /\ p \in Keys
           /\ operator_loss(v) \in Nat /\ operator_loss(v) <= staked[v]
           /\ whistleblower_reward(v) \in Nat
           /\ whistleblower_reward(v) <=
                SaturatingSub(operator_loss(v), Lesser(unbacked_principal(v), staked[v]))
           /\ staked' = [staked EXCEPT ![v] = staked[v] - operator_loss(v)]
           /\ low' = [low EXCEPT ![v] = IF low[v] = NoMark THEN staked[v] - operator_loss(v)
                                        ELSE Lesser(low[v], staked[v] - operator_loss(v))]
           /\ pending' = [pending EXCEPT ![p] = pending[p] + whistleblower_reward(v)]
<1>1. v \in Keys /\ p \in Registered /\ p \in Keys
  BY DEF ClockInv, Proposers, duty_roster_at
<1>2. operator_loss(v) \in Nat /\ operator_loss(v) <= staked[v]
  BY <1>1, LossBounded
<1>3. staked[v] \in Nat /\ low[v] \in Nat \cup {NoMark} /\ Principal \in Nat
  BY <1>1, StakingAssumption DEF AmountInv
<1>4. unbacked_principal(v) \in Nat
  BY <1>3 DEF unbacked_principal, Lesser, NoMark
<1> DEFINE L == operator_loss(v)
           u == Lesser(unbacked_principal(v), staked[v])
<1>5. u \in Nat /\ SaturatingSub(L, u) \in Nat
  <2>1. u \in Nat
    BY <1>3, <1>4 DEF Lesser
  <2> HIDE DEF u
  <2> QED
    BY <1>2, <2>1 DEF SaturatingSub
<1>6. L \div WhistleblowerQuotient \in Nat
  <2> HIDE DEF L
  <2> QED
    BY <1>2, RatioType, StakingAssumption DEF L
<1>7. /\ whistleblower_reward(v) = Lesser(L \div WhistleblowerQuotient, SaturatingSub(L, u))
  BY DEF whistleblower_reward
<1>8. whistleblower_reward(v) \in Nat /\ whistleblower_reward(v) <= SaturatingSub(L, u)
  <2> HIDE DEF L, u
  <2> QED
    BY <1>5, <1>6, <1>7 DEF Lesser
<1>9. SaturatingSub(staked[v], L) = staked[v] - L
  BY <1>2, <1>3 DEF SaturatingSub
<1>10. staked' = [staked EXCEPT ![v] = staked[v] - L]
  BY <1>9 DEF SlashingEvidence
<1>11. staked'[v] = staked[v] - L
  BY <1>1, <1>10 DEF AmountInv
<1>12. low' = [low EXCEPT ![v] = IF low[v] = NoMark THEN staked[v] - L
                                 ELSE Lesser(low[v], staked[v] - L)]
  <2>1. low' = [low EXCEPT ![v] = IF low[v] = NoMark THEN staked'[v] ELSE Lesser(low[v], staked'[v])]
    BY DEF SlashingEvidence
  <2> QED
    BY <1>11, <2>1
<1>13. pending' = [pending EXCEPT ![p] = pending[p] + whistleblower_reward(v)]
  BY DEF SlashingEvidence
<1> QED
  BY <1>1, <1>2, <1>8, <1>10, <1>12, <1>13

LEMMA AmountInit == StakingInit => AmountInv
<1> SUFFICES ASSUME StakingInit PROVE AmountInv
  OBVIOUS
<1>1. Registered = GenesisKeys /\ GenesisKeys \subseteq Keys
  BY DEF StakingInit, Registered, Keys
<1>2. staked = [v \in Keys |-> IF v \in GenesisKeys THEN Principal ELSE 0]
      /\ pending = [v \in Keys |-> 0] /\ low = [v \in Keys |-> NoMark]
      /\ window = [e \in Epochs |-> 0] /\ coins = Coins /\ issued = Coins
  BY DEF StakingInit
<1>3. Principal \in Nat /\ Coins \in Nat
  BY StakingAssumption
<1> QED
  BY <1>1, <1>2, <1>3 DEF AmountInv

LEMMA AmountStep == ClockInv /\ AmountInv /\ [StakingNext]_stakingVars => AmountInv'
<1> SUFFICES ASSUME ClockInv, AmountInv, [StakingNext]_stakingVars PROVE AmountInv'
  OBVIOUS
<1>0. /\ Fee \in Nat /\ Tip \in Nat /\ MinDeposit \in Nat /\ EpochIssuance \in Nat
      /\ Proposers \subseteq Registered /\ Registered \subseteq Keys
  BY StakingAssumption DEF ClockInv, Proposers, duty_roster_at
<1>1. ASSUME NEW p \in Proposers, Transfer(p) PROVE AmountInv'
  <2>1. coins' \in Nat /\ pending' \in [Keys -> Nat] /\ \A v \in Keys \ {p} : pending'[v] = pending[v]
    BY <1>0, <1>1 DEF Transfer, AmountInv
  <2>2. UNCHANGED <<issued, staked, low, window, rec>>
    BY <1>1 DEF Transfer
  <2> QED
    BY <1>0, <2>1, <2>2 DEF AmountInv, Registered, Keys, Epochs
<1>2. ASSUME NEW v \in Applicants, NEW p \in Proposers, FundedDeposit(v, p) PROVE AmountInv'
  <2>1. /\ coins' \in Nat
        /\ pending' \in [Keys -> Nat] /\ \A k \in Keys \ {p} : pending'[k] = pending[k]
        /\ staked' \in [Keys -> Nat] /\ \A k \in Keys \ {v} : staked'[k] = staked[k]
    <3>1. /\ coins >= MinDeposit + Fee /\ coins' = coins - MinDeposit - Fee
          /\ pending' = [pending EXCEPT ![p] = pending[p] + Tip]
          /\ staked' = [staked EXCEPT ![v] = MinDeposit]
      BY <1>2 DEF FundedDeposit
    <3>2. v \in Keys /\ p \in Keys
      BY <1>0 DEF Keys
    <3> QED
      BY <1>0, <3>1, <3>2 DEF AmountInv
  <2>2. UNCHANGED <<issued, low, window>> /\ Registered' = Registered \cup {v}
    BY <1>2 DEF FundedDeposit, Registered
  <2> QED
    BY <1>0, <2>1, <2>2 DEF AmountInv, Keys, Epochs
<1>3. ASSUME NEW v \in Registered, ExitV2(v) PROVE AmountInv'
  <2>1. UNCHANGED <<coins, issued, staked, pending, low, window>> /\ Registered' = Registered
    BY <1>3 DEF ExitV2, ledger, Registered, ClockInv
  <2> QED
    BY <2>1 DEF AmountInv, Keys, Epochs
<1>4. ASSUME NEW v \in Registered, NEW p \in Proposers, SlashingEvidence(v, p) PROVE AmountInv'
  <2> DEFINE s == staked[v] - operator_loss(v)
             m == IF low[v] = NoMark THEN s ELSE Lesser(low[v], s)
             w == pending[p] + whistleblower_reward(v)
  <2>1. /\ v \in Keys /\ p \in Keys /\ p \in Registered
        /\ operator_loss(v) \in Nat /\ operator_loss(v) <= staked[v]
        /\ whistleblower_reward(v) \in Nat
        /\ staked' = [staked EXCEPT ![v] = s]
        /\ low' = [low EXCEPT ![v] = m]
        /\ pending' = [pending EXCEPT ![p] = w]
    BY <1>4, SlashAmounts
  <2>2. s \in Nat /\ w \in Nat /\ m \in Nat
    <3>1. s \in Nat /\ w \in Nat
      BY <2>1 DEF AmountInv
    <3>2. low[v] \in Nat \cup {NoMark}
      BY <2>1 DEF AmountInv
    <3> HIDE DEF s, w
    <3> QED
      BY <3>1, <3>2 DEF Lesser
  <2> HIDE DEF s, m, w
  <2>3. /\ staked' \in [Keys -> Nat] /\ \A k \in Keys \ {v} : staked'[k] = staked[k]
        /\ pending' \in [Keys -> Nat] /\ \A k \in Keys \ {p} : pending'[k] = pending[k]
        /\ low' \in [Keys -> Nat \cup {NoMark}]
    BY <2>1, <2>2 DEF AmountInv
  <2>4. window' \in [Epochs -> Nat]
    <3> DEFINE L == operator_loss(v)
               floor == SaturatingSub(epoch, CorrelationWindow - 1)
    <3>1. window' = [e \in Epochs |-> IF e < floor THEN 0
                                      ELSE window[e] + IF e = epoch THEN L ELSE 0]
      BY <1>4 DEF SlashingEvidence
    <3>2. L \in Nat /\ \A e \in Epochs : window[e] \in Nat
      BY <2>1 DEF AmountInv
    <3> HIDE DEF L, floor
    <3> QED
      BY <3>1, <3>2
  <2>5. UNCHANGED <<coins, issued>> /\ Registered' = Registered
    BY <1>4 DEF SlashingEvidence, Registered, ClockInv
  <2>6. \A k \in Keys \ Registered : staked'[k] = 0 /\ pending'[k] = 0
    BY <2>1, <2>3 DEF AmountInv
  <2> QED
    BY <2>3, <2>4, <2>5, <2>6 DEF AmountInv, Keys, Epochs
<1>5. ASSUME NEW v \in Registered, Withdraw(v) PROVE AmountInv'
  <2>1. v \in Keys /\ staked[v] \in Nat /\ coins \in Nat
    BY <1>0 DEF AmountInv
  <2>2. /\ coins' = coins + (staked[v] - Lesser(unbacked_principal(v), staked[v]))
        /\ staked' = [staked EXCEPT ![v] = 0]
        /\ UNCHANGED <<issued, pending, low, window, rec>>
    BY <1>5 DEF Withdraw
  <2>3. Lesser(unbacked_principal(v), staked[v]) \in Nat
        /\ Lesser(unbacked_principal(v), staked[v]) <= staked[v]
    <3>1. low[v] \in Nat \cup {NoMark} /\ Principal \in Nat
      BY <2>1, StakingAssumption DEF AmountInv
    <3>2. unbacked_principal(v) \in Nat
      BY <2>1, <3>1, ZenonT(60) DEF unbacked_principal, Lesser, NoMark
    <3> QED
      BY <2>1, <3>2 DEF Lesser
  <2>4. coins' \in Nat
    BY <2>1, <2>2, <2>3
  <2>5. staked' \in [Keys -> Nat] /\ \A k \in Keys \ {v} : staked'[k] = staked[k]
    BY <2>1, <2>2 DEF AmountInv
  <2> QED
    BY <2>2, <2>4, <2>5 DEF AmountInv, Registered, Keys, Epochs
<1>6. ASSUME NEW attested, NEW final, NEW admitted, CloseRegistry(attested, final, admitted)
      PROVE  AmountInv'
  <2> DEFINE pay == [v \in Keys |-> Payout(v, attested)]
             R == duty_roster_at(epoch)
  <2>1. pay \in [Keys -> Nat] /\ R \subseteq Registered
    BY PayoutType DEF duty_roster_at
  <2>2. staked' = [v \in Keys |-> staked[v] + pending[v] + IF v \in R THEN pay[v] ELSE 0]
    BY <1>6 DEF CloseRegistry
  <2>3. /\ pending' = [v \in Keys |-> 0] /\ UNCHANGED <<low, window, coins>>
        /\ issued' = issued + Issuance(attested)
        /\ Registered' = Registered
    BY <1>6 DEF CloseRegistry, Registered, Issuance
  <2>4. issued' \in Nat
    <3>1. Issuance(attested) \in Nat
      BY IssuanceIsSum, ZenonT(60)
    <3>2. issued \in Nat
      BY DEF AmountInv
    <3> QED
      BY <2>3, <3>1, <3>2
  <2>5. staked' \in [Keys -> Nat]
    BY <2>1, <2>2 DEF AmountInv
  <2>6. \A v \in Keys \ Registered : staked'[v] = 0
    BY <2>1, <2>2 DEF AmountInv
  <2> QED
    BY <2>3, <2>4, <2>5, <2>6 DEF AmountInv, Keys, Epochs
<1>7. CASE UNCHANGED stakingVars
  BY <1>7 DEF AmountInv, stakingVars, ledger, Registered, Keys, Epochs
<1> QED
  BY <1>1, <1>2, <1>3, <1>4, <1>5, <1>6, <1>7 DEF StakingNext

LEMMA AmountInvariant == StakingSpec => [](ClockInv /\ AmountInv)
<1>1. StakingInit => ClockInv /\ AmountInv
  BY ClockInit, AmountInit
<1>2. ClockInv /\ AmountInv /\ [StakingNext]_stakingVars => (ClockInv /\ AmountInv)'
  BY ClockStep, AmountStep
<1> QED
  BY <1>1, <1>2, PTL DEF StakingSpec

-----------------------------------------------------------------------------
(* An offence is punished once.                                            *)

\* The fields an exit, a slash and a boundary leave alone.
LEMMA ExitingFields ==
    ASSUME NEW r \in Records
    PROVE  /\ Exiting(r).slashed = r.slashed /\ Exiting(r).funded = r.funded
           /\ Exiting(r).deposited = r.deposited
BY DEF Exiting, Records

LEMMA SlashedFields ==
    ASSUME NEW r \in Records
    PROVE  /\ Slashed(r).slashed = TRUE /\ Slashed(r).funded = r.funded
           /\ Slashed(r).deposited = r.deposited
BY DEF Slashed, Records

LEMMA ClosedFields ==
    ASSUME ClockInv, NEW attested, NEW final, NEW admitted,
           CloseRegistry(attested, final, admitted), NEW v \in Registered
    PROVE  /\ rec'[v].slashed = rec[v].slashed /\ rec'[v].funded = rec[v].funded
           /\ rec'[v].deposited = rec[v].deposited /\ rec'[v].exit = rec[v].exit
           /\ rec'[v].activation = IF v \in admitted THEN epoch + 1 ELSE rec[v].activation
<1>1. rec'[v] = [rec[v] EXCEPT !.activation = IF v \in admitted THEN epoch + 1 ELSE rec[v].activation]
  BY DEF CloseRegistry
<1>2. rec[v] \in Records
  BY DEF ClockInv
<1> QED
  BY <1>1, <1>2 DEF Records

\* A slashed validator is ejected, and leaves with the epoch of its slash at the latest.
PunishInv == \A v \in Registered : rec[v].slashed => v \in ejected /\ rec[v].exit <= epoch + 1

LEMMA PunishInit == StakingInit => PunishInv
<1> SUFFICES ASSUME StakingInit, NEW v \in Registered PROVE rec[v].slashed = FALSE
  BY ZenonT(60) DEF PunishInv
<1>1. rec[v] = NewRecord(FALSE, 0)
  BY DEF StakingInit, Registered
<1> QED
  BY <1>1 DEF NewRecord

\* What one step does to a validator that is slashed already, and to one that is not.
LEMMA PunishStep ==
    ASSUME ClockInv, AmountInv, PunishInv, [StakingNext]_stakingVars
    PROVE  /\ PunishInv'
           /\ \A v \in Registered : rec[v].slashed =>
                 /\ rec'[v].slashed
                 /\ staked'[v] >= staked[v] \/ Withdraw(v)
                 /\ epoch' > epoch => v \notin duty_roster_at(epoch)'
<1> DEFINE Kept(v) == /\ rec'[v].slashed
                      /\ staked'[v] >= staked[v] \/ Withdraw(v)
                      /\ epoch' > epoch => v \notin duty_roster_at(epoch)'
<1> SUFFICES PunishInv' /\ \A v \in Registered : rec[v].slashed => Kept(v)
  OBVIOUS
<1>0. /\ epoch \in Nat /\ Proposers \subseteq Registered /\ Registered \subseteq Keys
      /\ \A v \in Registered : rec[v] \in Records /\ staked[v] \in Nat /\ rec[v].exit \in Nat
      /\ \A v \in Registered : staked[v] >= staked[v]
  BY DEF ClockInv, AmountInv, Epochs, Proposers, duty_roster_at, Records
<1>1. ASSUME UNCHANGED <<epoch, rec, ejected, staked>>
      PROVE  PunishInv' /\ \A v \in Registered : rec[v].slashed => Kept(v)
  <2>1. PunishInv'
    BY <1>1 DEF PunishInv, Registered
  <2>2. \A v \in Registered : staked'[v] >= staked[v] /\ ~(epoch' > epoch)
    BY <1>0, <1>1
  <2> QED
    BY <1>1, <2>1, <2>2
<1>2. ASSUME NEW v \in Applicants, NEW p \in Proposers, FundedDeposit(v, p)
      PROVE  PunishInv' /\ \A k \in Registered : rec[k].slashed => Kept(k)
  <2>1. /\ Registered' = Registered \cup {v} /\ v \notin Registered /\ UNCHANGED <<epoch, ejected>>
        /\ rec'[v] = NewRecord(TRUE, epoch) /\ \A k \in Registered : rec'[k] = rec[k]
        /\ staked' = [staked EXCEPT ![v] = MinDeposit]
    BY <1>2, ZenonT(60) DEF FundedDeposit, Registered
  <2>2. rec'[v].slashed = FALSE
    BY <2>1 DEF NewRecord
  <2>3. \A k \in Registered : staked'[k] = staked[k] /\ ~(epoch' > epoch)
    BY <1>0, <2>1 DEF AmountInv
  <2>4. PunishInv'
    BY <2>1, <2>2, ZenonT(60) DEF PunishInv
  <2> QED
    BY <1>0, <2>1, <2>3, <2>4
<1>3. ASSUME NEW v \in Registered, ExitV2(v)
      PROVE  PunishInv' /\ \A k \in Registered : rec[k].slashed => Kept(k)
  <2>1. /\ Registered' = Registered /\ UNCHANGED <<epoch, ejected, staked>> /\ ~rec[v].slashed
        /\ rec'[v] = Exiting(rec[v]) /\ \A k \in Registered \ {v} : rec'[k] = rec[k]
    BY <1>3 DEF ExitV2, CanExit, ledger, Registered, ClockInv
  <2>2. rec'[v].slashed = rec[v].slashed
    BY <1>0, <2>1, ExitingFields
  <2>3. PunishInv'
    BY <2>1, <2>2 DEF PunishInv
  <2>4. \A k \in Registered : staked'[k] >= staked[k] /\ ~(epoch' > epoch)
    BY <1>0, <2>1
  <2> QED
    BY <2>1, <2>3, <2>4
<1>4. ASSUME NEW v \in Registered, NEW p \in Proposers, SlashingEvidence(v, p)
      PROVE  PunishInv' /\ \A k \in Registered : rec[k].slashed => Kept(k)
  <2>1. /\ Registered' = Registered /\ UNCHANGED epoch /\ ejected' = ejected \cup {v}
        /\ v \notin ejected
        /\ rec'[v] = Slashed(rec[v]) /\ \A k \in Registered \ {v} : rec'[k] = rec[k]
    BY <1>4 DEF SlashingEvidence, Punishable, Registered, ClockInv
  <2>2. rec'[v].exit <= epoch + 1
    <3>1. epoch \in Epochs
      BY DEF ClockInv
    <3>2. Slashed(rec[v]).exit = IF rec[v].exit < epoch + 1 THEN rec[v].exit ELSE epoch + 1
      BY <1>0, <3>1, SlashedClock
    <3> QED
      BY <1>0, <2>1, <3>2
  <2>3. PunishInv'
    BY <2>1, <2>2 DEF PunishInv
  <2>4. \A k \in Registered \ {v} : staked'[k] = staked[k]
    <3>1. staked' = [staked EXCEPT ![v] = staked[v] - operator_loss(v)]
      BY <1>4, SlashAmounts
    <3> QED
      BY <1>0, <3>1 DEF AmountInv
  <2>5. \A k \in Registered : rec[k].slashed => k # v
    BY <2>1 DEF PunishInv
  <2>6. \A k \in Registered \ {v} : staked'[k] >= staked[k] /\ ~(epoch' > epoch)
    BY <1>0, <2>1, <2>4
  <2> QED
    BY <2>1, <2>3, <2>5, <2>6
<1>5. ASSUME NEW v \in Registered, Withdraw(v)
      PROVE  PunishInv' /\ \A k \in Registered : rec[k].slashed => Kept(k)
  <2>1. UNCHANGED <<epoch, rec, ejected>> /\ staked' = [staked EXCEPT ![v] = 0]
    BY <1>5 DEF Withdraw
  <2>2. PunishInv'
    BY <2>1 DEF PunishInv, Registered
  <2>3. \A k \in Registered \ {v} : staked'[k] = staked[k]
    BY <1>0, <2>1 DEF AmountInv
  <2>4. ~(epoch' > epoch)
    BY <1>0, <2>1
  <2> QED
    BY <1>0, <1>5, <2>1, <2>2, <2>3, <2>4
<1>6. ASSUME NEW attested, NEW final, NEW admitted, CloseRegistry(attested, final, admitted)
      PROVE  PunishInv' /\ \A k \in Registered : rec[k].slashed => Kept(k)
  <2>1. Registered' = Registered /\ UNCHANGED ejected /\ epoch' = epoch + 1
    BY <1>6, ZenonT(60) DEF CloseRegistry, Registered
  <2>2. \A k \in Registered : rec'[k].slashed = rec[k].slashed /\ rec'[k].exit = rec[k].exit
    BY <1>6, ClosedFields
  <2>3. PunishInv'
    BY <1>0, <2>1, <2>2 DEF PunishInv
  <2>4. ASSUME NEW k \in Registered PROVE staked'[k] >= staked[k]
    <3> DEFINE b == IF k \in duty_roster_at(epoch) THEN Payout(k, attested) ELSE 0
    <3>1. k \in Keys /\ staked'[k] = staked[k] + pending[k] + b
      BY <1>0, <1>6 DEF CloseRegistry
    <3>2. b \in Nat /\ pending[k] \in Nat
      BY <3>1, PayoutType DEF AmountInv
    <3> HIDE DEF b
    <3> QED
      BY <1>0, <3>1, <3>2
  <2>5. ASSUME NEW k \in Registered, rec[k].slashed PROVE k \notin duty_roster_at(epoch)'
    <3>1. rec'[k].exit <= epoch + 1 /\ rec'[k].exit \in Nat
      BY <1>0, <2>2, <2>5 DEF PunishInv
    <3>2. ~(epoch' < rec'[k].exit)
      BY <1>0, <2>1, <3>1
    <3> QED
      BY <3>2, ZenonT(60) DEF duty_roster_at
  <2> QED
    BY <2>2, <2>3, <2>4, <2>5
<1>7. CASE \E p \in Proposers : Transfer(p)
  BY <1>1, <1>7, ZenonT(60) DEF Transfer
<1>8. CASE UNCHANGED stakingVars
  BY <1>1, <1>8 DEF stakingVars, ledger
<1> HIDE DEF Kept
<1> QED
  BY <1>2, <1>3, <1>4, <1>5, <1>6, <1>7, <1>8 DEF StakingNext

\* A slash counts once (SlashingState::ejected): evidence of either form against an ejected
\* key is refused, no exit or boundary clears the mark, and the exit apply_slashing_evidence
\* sets is behind every later epoch.
THEOREM SlashedOnce == StakingSpec => PunishedOnce
<1> DEFINE Inv == ClockInv /\ AmountInv /\ PunishInv
<1>1. StakingInit => Inv
  BY ClockInit, AmountInit, PunishInit
<1>2. Inv /\ [StakingNext]_stakingVars => Inv'
  BY ClockStep, AmountStep, PunishStep
<1>3. Inv /\ [StakingNext]_stakingVars =>
        [\A v \in Registered : rec[v].slashed =>
            /\ rec'[v].slashed
            /\ staked'[v] >= staked[v] \/ Withdraw(v)
            /\ epoch' > epoch => v \notin duty_roster_at(epoch)']_stakingVars
  BY PunishStep, ZenonT(60)
<1> HIDE DEF Inv
<1> QED
  BY <1>1, <1>2, <1>3, PTL DEF StakingSpec, PunishedOnce

-----------------------------------------------------------------------------
(* The churn limits.                                                       *)

StartsAt(e) == {v \in Registered : rec[v].activation = e}
LeavesAt(e) == {v \in Registered : rec[v].exit = e /\ ~rec[v].slashed}

\* No activation lies ahead: who starts in the next epoch is decided by its boundary alone.
ChurnInv ==
    /\ finalized \in Nat
    /\ \A v \in Registered : rec[v].activation <= epoch \/ rec[v].activation = Never
    /\ \A e \in 1..Never - 1 : /\ Cardinality(StartsAt(e)) <= MaxActivations
                               /\ Cardinality(LeavesAt(e)) <= MaxExits
    /\ \A v \in Registered : rec[v].funded /\ rec[v].activation # Never =>
          /\ rec[v].activation >= rec[v].deposited + ActivationDelay
          /\ rec[v].deposited < finalized

LEMMA ChurnInit == StakingInit => ChurnInv
<1> SUFFICES ASSUME StakingInit PROVE ChurnInv
  OBVIOUS
<1>1. /\ Registered = GenesisKeys /\ epoch = 0 /\ finalized = 0
      /\ \A v \in GenesisKeys : rec[v] = NewRecord(FALSE, 0)
  BY DEF StakingInit, Registered
<1>2. \A v \in Registered : rec[v].activation = 0 /\ rec[v].exit = Never /\ rec[v].funded = FALSE
  BY <1>1 DEF NewRecord
<1>3. \A e \in 1..Never - 1 : StartsAt(e) = {} /\ LeavesAt(e) = {}
  <2>1. Never \in Nat
    BY StakingAssumption
  <2> QED
    BY <1>2, <2>1 DEF StartsAt, LeavesAt
<1>4. Cardinality({}) = 0 /\ MaxActivations \in Nat /\ MaxExits \in Nat
  BY FS_EmptySet, StakingAssumption
<1>5. \A e \in 1..Never - 1 : /\ Cardinality(StartsAt(e)) <= MaxActivations
                              /\ Cardinality(LeavesAt(e)) <= MaxExits
  <2>1. Cardinality({}) <= MaxActivations /\ Cardinality({}) <= MaxExits
    BY <1>4
  <2> QED
    BY <1>3, <2>1, ZenonT(60)
<1> QED
  BY <1>1, <1>2, <1>5 DEF ChurnInv

\* A set of keys that grows no larger than a bounded one is bounded.
LEMMA Fewer ==
    ASSUME NEW A, NEW B, A \subseteq B, B \subseteq Keys, NEW n \in Nat, Cardinality(B) <= n
    PROVE  Cardinality(A) <= n
<1>1. IsFiniteSet(Keys)
  BY StakingAssumption DEF Keys
<1>2. IsFiniteSet(A) /\ IsFiniteSet(B) /\ Cardinality(A) <= Cardinality(B)
  BY <1>1, FS_Subset
<1>3. Cardinality(A) \in Nat /\ Cardinality(B) \in Nat
  BY <1>2, FS_CardinalityType
<1> QED
  BY <1>2, <1>3

LEMMA OneMore ==
    ASSUME NEW A, NEW B, NEW v, A \subseteq B \cup {v}, B \subseteq Keys, NEW n \in Nat,
           Cardinality(B) < n
    PROVE  Cardinality(A) <= n
<1>1. IsFiniteSet(Keys)
  BY StakingAssumption DEF Keys
<1>2. IsFiniteSet(B) /\ Cardinality(B) \in Nat
  BY <1>1, FS_Subset, FS_CardinalityType
<1>3. IsFiniteSet(B \cup {v}) /\ Cardinality(B \cup {v}) <= Cardinality(B) + 1
                              /\ Cardinality(B \cup {v}) \in Nat
  <2>1. /\ IsFiniteSet(B \cup {v})
        /\ Cardinality(B \cup {v}) = IF v \in B THEN Cardinality(B) ELSE Cardinality(B) + 1
    BY <1>2, FS_AddElement
  <2> QED
    BY <1>2, <2>1
<1>4. Cardinality(A) <= Cardinality(B \cup {v}) /\ Cardinality(A) \in Nat
  BY <1>3, FS_Subset, FS_CardinalityType, ZenonT(60)
<1> QED
  BY <1>2, <1>3, <1>4

\* No step but a boundary starts anyone, and no record but that of an exit leaves earlier
\* than it would have without being slashed.
LEMMA ChurnKept ==
    ASSUME ClockInv, ChurnInv, UNCHANGED <<epoch, finalized>>, Registered' = Registered,
           \A v \in Registered : /\ rec'[v].activation = rec[v].activation
                                 /\ rec'[v].funded = rec[v].funded
                                 /\ rec'[v].deposited = rec[v].deposited,
           \A e \in 1..Never - 1 : Cardinality(LeavesAt(e)') <= MaxExits
    PROVE  ChurnInv'
<1>1. \A e : StartsAt(e)' = StartsAt(e)
  BY ZenonT(60) DEF StartsAt
<1>2. /\ finalized' \in Nat
      /\ \A v \in Registered' : rec'[v].activation <= epoch' \/ rec'[v].activation = Never
      /\ \A v \in Registered' : rec'[v].funded /\ rec'[v].activation # Never =>
            /\ rec'[v].activation >= rec'[v].deposited + ActivationDelay
            /\ rec'[v].deposited < finalized'
  BY DEF ChurnInv
<1>3. \A e \in 1..Never - 1 : Cardinality(StartsAt(e)') <= MaxActivations
  BY <1>1, ZenonT(60) DEF ChurnInv
<1> QED
  BY <1>2, <1>3 DEF ChurnInv

LEMMA ExitChurn == ASSUME ClockInv, ChurnInv, NEW v \in Registered, ExitV2(v) PROVE ChurnInv'
<1>1. rec[v] \in Records /\ epoch \in Epochs /\ Registered \subseteq Keys
  BY DEF ClockInv
<1>2. /\ Exiting(rec[v]).exit = epoch + ExitDelay
      /\ Exiting(rec[v]).activation = rec[v].activation
  BY <1>1, ExitingClock
<1>3. /\ Registered' = Registered /\ UNCHANGED <<epoch, finalized>>
      /\ rec'[v] = Exiting(rec[v]) /\ \A k \in Registered \ {v} : rec'[k] = rec[k]
  BY ZenonT(60) DEF ExitV2, ClockInv, Registered
<1>4. epoch + ExitDelay # Never /\ SaturatingAdd(epoch, ExitDelay) = epoch + ExitDelay
  BY <1>1, StakingAssumption DEF SaturatingAdd, Epochs
<1>5. ASSUME NEW e \in 1..Never - 1 PROVE Cardinality(LeavesAt(e)') <= MaxExits
  <2>1. MaxExits \in Nat /\ LeavesAt(e) \subseteq Keys /\ Cardinality(LeavesAt(e)) <= MaxExits
    BY <1>1, StakingAssumption DEF LeavesAt, ChurnInv
  <2>2. CASE e = epoch + ExitDelay
    <3>1. voluntary_exits_this_epoch = {k \in Registered : rec[k].exit = epoch + ExitDelay}
      BY <1>4 DEF voluntary_exits_this_epoch
    <3>2. /\ LeavesAt(e)' \subseteq voluntary_exits_this_epoch \cup {v}
          /\ voluntary_exits_this_epoch \subseteq Keys
          /\ Cardinality(voluntary_exits_this_epoch) < MaxExits
      BY <1>1, <1>3, <2>2, <3>1 DEF LeavesAt, ExitV2
    <3> QED
      BY <2>1, <3>2, OneMore, ZenonT(60)
  <2>3. CASE e # epoch + ExitDelay
    <3>1. LeavesAt(e)' \subseteq LeavesAt(e)
      BY <1>2, <1>3, <2>3 DEF LeavesAt
    <3> QED
      BY <2>1, <3>1, Fewer
  <2> QED
    BY <2>2, <2>3, ZenonT(60)
<1>6. \A k \in Registered : /\ rec'[k].activation = rec[k].activation
                            /\ rec'[k].funded = rec[k].funded
                            /\ rec'[k].deposited = rec[k].deposited
  BY <1>1, <1>2, <1>3, ExitingFields, ZenonT(60)
<1> QED
  BY <1>3, <1>5, <1>6, ChurnKept

LEMMA SlashChurn ==
    ASSUME ClockInv, ChurnInv, NEW v \in Registered, NEW p, SlashingEvidence(v, p)
    PROVE  ChurnInv'
<1>1. rec[v] \in Records /\ epoch \in Epochs /\ Registered \subseteq Keys
  BY DEF ClockInv
<1>2. Slashed(rec[v]).activation = rec[v].activation /\ Slashed(rec[v]).slashed = TRUE
  BY <1>1, SlashedClock, SlashedFields, ZenonT(60)
<1>3. /\ Registered' = Registered /\ UNCHANGED <<epoch, finalized>>
      /\ rec'[v] = Slashed(rec[v]) /\ \A k \in Registered \ {v} : rec'[k] = rec[k]
  BY ZenonT(60) DEF SlashingEvidence, ClockInv, Registered
<1>4. ASSUME NEW e \in 1..Never - 1 PROVE Cardinality(LeavesAt(e)') <= MaxExits
  <2>1. MaxExits \in Nat /\ LeavesAt(e) \subseteq Keys /\ Cardinality(LeavesAt(e)) <= MaxExits
    BY <1>1, StakingAssumption DEF LeavesAt, ChurnInv
  <2>2. LeavesAt(e)' \subseteq LeavesAt(e)
    BY <1>2, <1>3 DEF LeavesAt
  <2> QED
    BY <2>1, <2>2, Fewer
<1>5. \A k \in Registered : /\ rec'[k].activation = rec[k].activation
                            /\ rec'[k].funded = rec[k].funded
                            /\ rec'[k].deposited = rec[k].deposited
  BY <1>1, <1>2, <1>3, SlashedFields, ZenonT(60)
<1> QED
  BY <1>3, <1>4, <1>5, ChurnKept

\* A deposit starts nowhere and leaves nowhere.
LEMMA DepositChurn ==
    ASSUME ClockInv, ChurnInv, NEW v \in Applicants, NEW p, FundedDeposit(v, p)
    PROVE  ChurnInv'
<1>1. /\ Registered' = Registered \cup {v} /\ v \notin Registered
      /\ UNCHANGED <<epoch, finalized>>
      /\ rec'[v] = NewRecord(TRUE, epoch) /\ \A k \in Registered : rec'[k] = rec[k]
  BY ZenonT(60) DEF FundedDeposit, Registered
<1>2. rec'[v].exit = Never /\ rec'[v].activation = Never
  BY <1>1 DEF NewRecord
<1>3. \A e \in 1..Never - 1 : StartsAt(e)' = StartsAt(e) /\ LeavesAt(e)' = LeavesAt(e)
  <2>1. \A e \in 1..Never - 1 : e # Never
    BY StakingAssumption
  <2> QED
    BY <1>1, <1>2, <2>1, ZenonT(60) DEF StartsAt, LeavesAt
<1>4. \A v_1 \in Registered' : \/ v_1 = v /\ rec'[v_1].activation = Never
                               \/ v_1 \in Registered /\ rec'[v_1] = rec[v_1]
  BY <1>1, <1>2, ZenonT(60)
<1> QED
  BY <1>1, <1>3, <1>4, ZenonT(60) DEF ChurnInv

\* A boundary starts those it admits, all in the epoch it opens, where nobody started yet.
LEMMA CloseChurn ==
    ASSUME ClockInv, ChurnInv, NEW attested, NEW final \in finalized..Greater(finalized, epoch - 1),
           NEW admitted \in Admissions(epoch + 1, final), CloseRegistry(attested, final, admitted)
    PROVE  ChurnInv'
<1>1. /\ epoch \in Nat /\ epoch' = epoch + 1 /\ epoch + 1 < Never /\ finalized' = final
      /\ Registered' = Registered /\ Registered \subseteq Keys
  BY StakingAssumption DEF CloseRegistry, ClockInv, Epochs, Registered
<1>2. finalized \in Nat /\ final \in Nat /\ finalized <= final
  BY <1>1 DEF ChurnInv, Greater
<1>3. \A v \in Registered :
         /\ rec'[v].slashed = rec[v].slashed /\ rec'[v].funded = rec[v].funded
         /\ rec'[v].deposited = rec[v].deposited /\ rec'[v].exit = rec[v].exit
         /\ rec'[v].activation = IF v \in admitted THEN epoch + 1 ELSE rec[v].activation
  BY ClosedFields, ZenonT(60)
<1>4. /\ admitted \subseteq EligibleAt(epoch + 1, final)
      /\ Cardinality(admitted) = Lesser(MaxActivations, Cardinality(EligibleAt(epoch + 1, final)))
  BY DEF Admissions
<1>5. Cardinality(admitted) <= MaxActivations /\ admitted \subseteq Keys
  <2>1. EligibleAt(epoch + 1, final) \subseteq Keys
    BY <1>1 DEF EligibleAt
  <2>2. IsFiniteSet(Keys)
    BY StakingAssumption, ZenonT(60) DEF Keys
  <2>3. Cardinality(EligibleAt(epoch + 1, final)) \in Nat /\ MaxActivations \in Nat
    BY <2>1, <2>2, FS_Subset, FS_CardinalityType, StakingAssumption, ZenonT(60)
  <2> QED
    BY <1>4, <2>1, <2>3 DEF Lesser
<1>6. ASSUME NEW e \in 1..Never - 1
      PROVE  Cardinality(StartsAt(e)') <= MaxActivations /\ Cardinality(LeavesAt(e)') <= MaxExits
  <2>1. MaxActivations \in Nat /\ StartsAt(e) \subseteq Keys /\ e \in Nat
        /\ Cardinality(StartsAt(e)) <= MaxActivations /\ Cardinality(LeavesAt(e)) <= MaxExits
    BY <1>1, StakingAssumption DEF StartsAt, ChurnInv
  <2>2. LeavesAt(e)' = LeavesAt(e)
    BY <1>1, <1>3 DEF LeavesAt
  <2>3. CASE e = epoch + 1
    <3>1. \A v \in Registered : rec[v].activation # epoch + 1
      <4> SUFFICES ASSUME NEW v \in Registered PROVE rec[v].activation # epoch + 1
        OBVIOUS
      <4>1. rec[v].activation \in Nat
        BY ZenonT(60) DEF ClockInv, Records
      <4>2. rec[v].activation <= epoch \/ rec[v].activation = Never
        BY ZenonT(60) DEF ChurnInv
      <4> QED
        BY <1>1, <4>1, <4>2
    <3>2. StartsAt(e)' \subseteq admitted
      BY <1>1, <1>3, <2>3, <3>1 DEF StartsAt
    <3> QED
      BY <1>5, <2>1, <2>2, <3>2, Fewer
  <2>4. CASE e # epoch + 1
    <3>1. StartsAt(e)' \subseteq StartsAt(e)
      BY <1>1, <1>3, <2>4, ZenonT(60) DEF StartsAt
    <3> QED
      BY <2>1, <2>2, <3>1, Fewer, ZenonT(60)
  <2> QED
    BY <2>3, <2>4
<1>7. ASSUME NEW v \in Registered
      PROVE  /\ rec'[v].activation <= epoch + 1 \/ rec'[v].activation = Never
             /\ rec'[v].funded /\ rec'[v].activation # Never =>
                   /\ rec'[v].activation >= rec'[v].deposited + ActivationDelay
                   /\ rec'[v].deposited < final
  <2>1. rec[v].activation \in Nat /\ rec[v].deposited \in Nat /\ ActivationDelay \in Nat
    BY StakingAssumption, ZenonT(60) DEF ClockInv, Records
  <2>2. CASE v \in admitted
    <3>1. rec[v].deposited < final /\ rec[v].deposited + ActivationDelay <= epoch + 1
      BY <1>4, <2>2, ZenonT(60) DEF EligibleAt
    <3> QED
      BY <1>1, <1>3, <2>1, <2>2, <3>1
  <2>3. CASE v \notin admitted
    <3>1. rec'[v].activation = rec[v].activation
      BY <1>3, <2>3, ZenonT(60)
    <3>2. /\ rec[v].activation <= epoch \/ rec[v].activation = Never
          /\ rec[v].funded /\ rec[v].activation # Never =>
                rec[v].activation >= rec[v].deposited + ActivationDelay /\ rec[v].deposited < finalized
      BY DEF ChurnInv
    <3> QED
      BY <1>1, <1>2, <1>3, <2>1, <3>1, <3>2
  <2> QED
    BY <2>2, <2>3, ZenonT(60)
<1> QED
  BY <1>1, <1>2, <1>6, <1>7 DEF ChurnInv

LEMMA ChurnStep == ClockInv /\ ChurnInv /\ [StakingNext]_stakingVars => ChurnInv'
<1> SUFFICES ASSUME ClockInv, ChurnInv, [StakingNext]_stakingVars PROVE ChurnInv'
  OBVIOUS
<1>1. ASSUME UNCHANGED <<epoch, finalized, rec>> PROVE ChurnInv'
  BY <1>1 DEF ChurnInv, StartsAt, LeavesAt, Registered
<1>2. CASE \E p \in Proposers : Transfer(p)
  BY <1>1, <1>2 DEF Transfer
<1>3. CASE \E v \in Applicants, p \in Proposers : FundedDeposit(v, p)
  BY <1>3, DepositChurn
<1>4. CASE \E v \in Registered : ExitV2(v)
  BY <1>4, ExitChurn
<1>5. CASE \E v \in Registered, p \in Proposers : SlashingEvidence(v, p)
  BY <1>5, SlashChurn
<1>6. CASE \E v \in Registered : Withdraw(v)
  BY <1>1, <1>6 DEF Withdraw
<1>7. CASE \E attested \in SUBSET duty_roster_at(epoch), final \in finalized..Greater(finalized, epoch - 1) :
             \E admitted \in Admissions(epoch + 1, final) : CloseRegistry(attested, final, admitted)
  BY <1>7, CloseChurn
<1>8. CASE UNCHANGED stakingVars
  BY <1>1, <1>8 DEF stakingVars
<1> QED
  BY <1>2, <1>3, <1>4, <1>5, <1>6, <1>7, <1>8, ZenonT(60) DEF StakingNext

\* Stalls bypass no churn (activate_finalized_deposits, apply_exit_v2): any one epoch starts
\* and loses no more validators than its limits, slashed ones apart, whatever the order of
\* deposits, exits, slashes and boundaries, and nobody starts on a deposit that is not final.
THEOREM ChurnIsBounded == StakingSpec => []ChurnBounded
<1>1. StakingInit => ClockInv /\ ChurnInv
  BY ClockInit, ChurnInit
<1>2. ClockInv /\ ChurnInv /\ [StakingNext]_stakingVars => (ClockInv /\ ChurnInv)'
  BY ClockStep, ChurnStep
<1>3. ChurnInv => ChurnBounded
  BY DEF ChurnInv, ChurnBounded, StartsAt, LeavesAt
<1> QED
  BY <1>1, <1>2, <1>3, PTL DEF StakingSpec

-----------------------------------------------------------------------------
(* What can be spent was issued.                                           *)

\* unbacked_principal and withdrawable_sat of a bond s with low water mark l
Unbacked(funded, s, l) == IF funded THEN 0 ELSE Lesser(Principal, IF l = NoMark THEN s ELSE l)
Issued(funded, s, l) == SaturatingSub(s, Unbacked(funded, s, l))

\* What each bond, and each validator, may pay out some day
held == [v \in Registered |-> Issued(rec[v].funded, staked[v], low[v])]
gain == [v \in Registered |-> pending[v] + held[v]]

Backed == coins + SumOver(gain, Registered) <= issued

LEMMA IssuedType ==
    ASSUME NEW f \in BOOLEAN, NEW s \in Nat, NEW l \in Nat \cup {NoMark}
    PROVE  /\ Unbacked(f, s, l) \in Nat /\ Issued(f, s, l) \in Nat
           /\ s - Lesser(Unbacked(f, s, l), s) = Issued(f, s, l)
<1>1. Principal \in Nat
  BY StakingAssumption
<1>2. Unbacked(f, s, l) \in Nat
  BY <1>1 DEF Unbacked, Lesser, NoMark
<1> QED
  BY <1>2 DEF Issued, SaturatingSub, Lesser

LEMMA IssuedFunded == ASSUME NEW s \in Nat, NEW l PROVE Issued(TRUE, s, l) = s
BY DEF Issued, Unbacked, SaturatingSub

\* What compounds into a bond adds at most itself to what may be withdrawn.
LEMMA IssuedGrows ==
    ASSUME NEW f \in BOOLEAN, NEW s \in Nat, NEW l \in Nat \cup {NoMark}, NEW d \in Nat
    PROVE  Issued(f, s + d, l) <= Issued(f, s, l) + d
<1>1. Principal \in Nat
  BY StakingAssumption
<1> QED
  BY <1>1 DEF Issued, Unbacked, SaturatingSub, Lesser, NoMark

\* The low water mark after a slash
Marked(l, s) == IF l = NoMark THEN s ELSE Lesser(l, s)

\* What a slash takes off the withdrawable part pays the reward: the part of the loss that
\* the principal absorbs funds none of it.
LEMMA IssuedSlashed ==
    ASSUME NEW f \in BOOLEAN, NEW s \in Nat, NEW l \in Nat \cup {NoMark}, NEW L \in Nat, L <= s,
           NEW r \in Nat, r <= SaturatingSub(L, Lesser(Unbacked(f, s, l), s))
    PROVE  /\ s - L \in Nat /\ Marked(l, s - L) \in Nat \cup {NoMark}
           /\ Issued(f, s - L, Marked(l, s - L)) + r <= Issued(f, s, l)
<1>1. Principal \in Nat /\ s - L \in Nat
  BY StakingAssumption
<1>2. Marked(l, s - L) \in Nat /\ Marked(l, s - L) # NoMark
  BY <1>1 DEF Marked, Lesser, NoMark
<1>3. CASE f
  BY <1>1, <1>2, <1>3 DEF Issued, Unbacked, SaturatingSub, Lesser
<1>4. CASE ~f /\ l = NoMark
  BY <1>1, <1>2, <1>4 DEF Issued, Unbacked, SaturatingSub, Lesser, Marked
<1>5. CASE ~f /\ l # NoMark
  <2>1. l \in Nat
    BY <1>5
  <2> QED
    BY <1>1, <1>2, <1>5, <2>1 DEF Issued, Unbacked, SaturatingSub, Lesser, Marked
<1> QED
  BY <1>1, <1>2, <1>3, <1>4, <1>5

LEMMA GainType ==
    ASSUME ClockInv, AmountInv
    PROVE  /\ IsFiniteSet(Registered) /\ SumOver(gain, Registered) \in Nat
           /\ \A v \in Registered :
                 /\ rec[v].funded \in BOOLEAN /\ staked[v] \in Nat /\ pending[v] \in Nat
                 /\ low[v] \in Nat \cup {NoMark} /\ v \in Keys
                 /\ held[v] \in Nat /\ gain[v] \in Nat /\ gain[v] = pending[v] + held[v]
                 /\ held[v] = Issued(rec[v].funded, staked[v], low[v])
<1>1. IsFiniteSet(Registered)
  BY StakingAssumption, FS_Subset DEF ClockInv, Keys
<1>2. \A v \in Registered :
                 /\ rec[v].funded \in BOOLEAN /\ staked[v] \in Nat /\ pending[v] \in Nat
                 /\ low[v] \in Nat \cup {NoMark} /\ v \in Keys
  BY DEF ClockInv, AmountInv, Records
<1>3. \A v \in Registered : Issued(rec[v].funded, staked[v], low[v]) \in Nat
  BY <1>2, IssuedType, ZenonT(60)
<1>4. \A v \in Registered : held[v] = Issued(rec[v].funded, staked[v], low[v])
  BY ZenonT(60) DEF held
<1>5. \A v \in Registered : gain[v] = pending[v] + held[v]
  BY ZenonT(60) DEF gain
<1>6. \A v \in Registered : held[v] \in Nat /\ gain[v] \in Nat
  BY <1>2, <1>3, <1>4, <1>5
<1>7. SumOver(gain, Registered) \in Nat
  BY <1>1, <1>6, SumType
<1> QED
  BY <1>1, <1>2, <1>4, <1>5, <1>6, <1>7, ZenonT(60)

\* The amounts after a step that keeps the registry
LEMMA GainNext ==
    ASSUME Registered' = Registered
    PROVE  \A v \in Registered :
              /\ held'[v] = Issued(rec'[v].funded, staked'[v], low'[v])
              /\ gain'[v] = pending'[v] + held'[v]
<1>1. held' = [v \in Registered |-> Issued(rec'[v].funded, staked'[v], low'[v])]
  BY ZenonT(60) DEF held
<1>2. gain' = [v \in Registered |-> pending'[v] + held'[v]]
  BY ZenonT(60) DEF gain
<1> QED
  BY <1>1, <1>2, ZenonT(60)

LEMMA BackedInit == StakingInit => Backed
<1> SUFFICES ASSUME StakingInit PROVE Backed
  OBVIOUS
<1>1. /\ Registered = GenesisKeys /\ coins = Coins /\ issued = Coins
      /\ \A v \in GenesisKeys : v \in Keys /\ rec[v] = NewRecord(FALSE, 0)
      /\ staked = [v \in Keys |-> IF v \in GenesisKeys THEN Principal ELSE 0]
      /\ low = [v \in Keys |-> NoMark] /\ pending = [v \in Keys |-> 0]
  BY DEF StakingInit, Registered, Keys
<1>2. \A v \in Registered : /\ rec[v].funded = FALSE /\ staked[v] = Principal
                            /\ low[v] = NoMark /\ pending[v] = 0
  BY <1>1 DEF NewRecord
<1>3. Principal \in Nat /\ Coins \in Nat
  BY StakingAssumption
<1>4. Issued(FALSE, Principal, NoMark) = 0
  BY <1>3 DEF Issued, Unbacked, SaturatingSub, Lesser
<1>5. \A v \in Registered : gain[v] = 0
  <2> SUFFICES ASSUME NEW v \in Registered PROVE gain[v] = 0
    OBVIOUS
  <2>1. gain[v] = pending[v] + held[v] /\ held[v] = Issued(rec[v].funded, staked[v], low[v])
    BY ZenonT(60) DEF gain, held
  <2>2. Issued(rec[v].funded, staked[v], low[v]) = 0
    BY <1>2, <1>4, ZenonT(60)
  <2> QED
    BY <1>2, <2>1, <2>2
<1>6. IsFiniteSet(Registered)
  BY <1>1, StakingAssumption, FS_Subset DEF Keys
<1>7. SumOver(gain, Registered) = 0
  BY <1>5, <1>6, SumZero
<1> QED
  BY <1>1, <1>3, <1>7 DEF Backed

\* Backed in numbers
LEMMA BackedBy ==
    ASSUME AmountInv, Backed, NEW a, a = SumOver(gain, Registered), a \in Nat,
           NEW b \in Nat, b = SumOver(gain', Registered'), NEW i \in Int,
           issued' = issued + i, coins' + b <= coins + a + i, coins' \in Int
    PROVE  Backed'
<1>1. coins \in Nat /\ issued \in Nat /\ coins + a <= issued
  BY DEF AmountInv, Backed
<1>2. coins' + b <= issued'
  BY <1>1
<1> QED
  BY <1>2, ZenonT(60) DEF Backed

\* A producer's part of a fee.
LEMMA TipBacked ==
    ASSUME ClockInv, AmountInv, Backed, NEW p \in Registered, Transfer(p), coins' \in Nat
    PROVE  Backed'
<1>1. /\ UNCHANGED <<rec, staked, low, issued>> /\ coins' = coins - Fee
      /\ pending' = [pending EXCEPT ![p] = pending[p] + Tip] /\ Registered' = Registered
  BY DEF Transfer, Registered
<1>2. /\ IsFiniteSet(Registered) /\ SumOver(gain, Registered) \in Nat
      /\ \A v \in Registered :
            /\ v \in Keys /\ pending[v] \in Nat /\ held[v] \in Nat /\ gain[v] \in Nat
            /\ gain[v] = pending[v] + held[v]
            /\ held[v] = Issued(rec[v].funded, staked[v], low[v])
  BY GainType, ZenonT(60)
<1>3. \A v \in Registered : gain'[v] = pending'[v] + held[v]
  BY <1>1, <1>2, GainNext, ZenonT(60)
<1>4. Tip \in Nat /\ Fee \in Nat /\ Tip <= Fee
  BY StakingAssumption, ZenonT(60)
<1>5. pending'[p] = pending[p] + Tip /\ \A v \in Registered \ {p} : pending'[v] = pending[v]
  BY <1>1, <1>2, ZenonT(60) DEF AmountInv
<1>6. gain'[p] = gain[p] + Tip
  BY <1>2, <1>3, <1>4, <1>5
<1>7. \A v \in Registered \ {p} : gain'[v] = gain[v]
  BY <1>2, <1>3, <1>5, ZenonT(60)
<1> DEFINE a == SumOver(gain, Registered)
           b == SumOver(gain', Registered)
<1>8. b = a + Tip /\ a \in Nat
  BY <1>2, <1>4, <1>6, <1>7, SumRaise, ZenonT(60)
<1>9. b = SumOver(gain', Registered') /\ coins \in Nat
  BY <1>1 DEF AmountInv
<1> HIDE DEF a, b
<1>10. b \in Nat /\ coins' + b <= coins + a + 0 /\ issued' = issued + 0
  BY <1>1, <1>4, <1>8, <1>9 DEF AmountInv
<1> QED
  BY <1>8, <1>9, <1>10, BackedBy DEF a

LEMMA DepositBacked ==
    ASSUME ClockInv, AmountInv, Backed, coins' \in Nat,
           NEW v \in Applicants, NEW p \in Registered, FundedDeposit(v, p)
    PROVE  Backed'
<1>1. /\ Registered' = Registered \cup {v} /\ v \notin Registered /\ v # p /\ v \in Keys /\ p \in Keys
      /\ rec'[v] = NewRecord(TRUE, epoch) /\ \A k \in Registered : rec'[k] = rec[k]
      /\ staked' = [staked EXCEPT ![v] = MinDeposit] /\ UNCHANGED <<low, issued>>
      /\ pending' = [pending EXCEPT ![p] = pending[p] + Tip]
      /\ coins' = coins - MinDeposit - Fee
  BY ZenonT(60) DEF FundedDeposit, Registered, Keys, ClockInv
<1>2. /\ IsFiniteSet(Registered) /\ SumOver(gain, Registered) \in Nat
      /\ \A k \in Registered :
            /\ k \in Keys /\ pending[k] \in Nat /\ held[k] \in Nat /\ gain[k] \in Nat
            /\ gain[k] = pending[k] + held[k]
            /\ held[k] = Issued(rec[k].funded, staked[k], low[k])
  BY GainType, ZenonT(60)
<1>3. MinDeposit \in Nat /\ Tip \in Nat /\ Fee \in Nat /\ Tip <= Fee
  BY StakingAssumption
<1>4. /\ staked'[v] = MinDeposit /\ pending'[v] = 0
      /\ \A k \in Registered : staked'[k] = staked[k]
      /\ pending'[p] = pending[p] + Tip /\ \A k \in Registered \ {p} : pending'[k] = pending[k]
  BY <1>1, <1>2, ZenonT(60) DEF AmountInv
<1>5. \A k \in Registered' : /\ gain'[k] = pending'[k] + held'[k]
                             /\ held'[k] = Issued(rec'[k].funded, staked'[k], low'[k])
  BY ZenonT(60) DEF gain, held
<1>6. held'[v] = MinDeposit
  <2>1. rec'[v].funded = TRUE
    BY <1>1 DEF NewRecord
  <2>2. Issued(TRUE, MinDeposit, low'[v]) = MinDeposit
    BY <1>3, IssuedFunded, ZenonT(60)
  <2> QED
    BY <1>1, <1>4, <1>5, <2>1, <2>2, ZenonT(60)
<1>7. gain'[v] = MinDeposit
  BY <1>1, <1>3, <1>4, <1>5, <1>6
<1>8. \A k \in Registered : gain'[k] = pending'[k] + held[k]
  <2>1. \A k \in Registered : k \in Registered' /\ low'[k] = low[k] /\ rec'[k] = rec[k]
    BY <1>1, ZenonT(60)
  <2>2. \A k \in Registered : held'[k] = Issued(rec[k].funded, staked[k], low[k])
    BY <1>4, <1>5, <2>1, ZenonT(60)
  <2> QED
    BY <1>2, <1>5, <2>1, <2>2, ZenonT(60)
<1>9. gain'[p] = gain[p] + Tip
  BY <1>2, <1>3, <1>4, <1>8
<1>10. \A k \in Registered \ {p} : gain'[k] = gain[k]
  BY <1>2, <1>4, <1>8, ZenonT(60)
<1> DEFINE a == SumOver(gain, Registered)
           b == SumOver(gain', Registered)
           c == SumOver(gain', Registered')
<1>11. b = a + Tip /\ a \in Nat
  BY <1>2, <1>3, <1>9, <1>10, SumRaise, ZenonT(60)
<1>12. \A k \in Registered : gain'[k] \in Nat
  <2>1. gain'[p] \in Nat
    <3>1. gain[p] \in Nat
      BY <1>2, ZenonT(60)
    <3> QED
      BY <1>3, <1>9, <3>1
  <2> QED
    BY <1>2, <1>10, <2>1, ZenonT(60)
<1>13. c = gain'[v] + b
  BY <1>1, <1>2, <1>3, <1>7, <1>12, SumAdd, ZenonT(60)
<1>14. coins \in Nat /\ issued \in Int
  BY DEF AmountInv
<1> HIDE DEF a, b, c
<1>15. c \in Nat /\ coins' + c <= coins + a + 0 /\ issued' = issued + 0
  BY <1>1, <1>3, <1>7, <1>11, <1>13, <1>14
<1> QED
  BY <1>11, <1>15, BackedBy DEF a, c

\* A withdrawal moves what was issued of the bond into the output set.
LEMMA WithdrawBacked ==
    ASSUME ClockInv, AmountInv, Backed, coins' \in Nat, NEW v \in Registered, Withdraw(v)
    PROVE  Backed'
<1>1. /\ staked' = [staked EXCEPT ![v] = 0] /\ UNCHANGED <<rec, low, pending, issued>>
      /\ Registered' = Registered
      /\ coins' = coins + (staked[v] - Lesser(unbacked_principal(v), staked[v]))
  BY DEF Withdraw, Registered
<1>2. /\ IsFiniteSet(Registered) /\ SumOver(gain, Registered) \in Nat
      /\ \A k \in Registered :
            /\ rec[k].funded \in BOOLEAN /\ staked[k] \in Nat /\ low[k] \in Nat \cup {NoMark}
            /\ k \in Keys /\ pending[k] \in Nat /\ held[k] \in Nat /\ gain[k] \in Nat
            /\ gain[k] = pending[k] + held[k]
            /\ held[k] = Issued(rec[k].funded, staked[k], low[k])
  BY GainType, ZenonT(60)
<1>3. coins' = coins + held[v]
  <2>1. unbacked_principal(v) = Unbacked(rec[v].funded, staked[v], low[v])
    BY ZenonT(60) DEF unbacked_principal, Unbacked
  <2>2. staked[v] - Lesser(Unbacked(rec[v].funded, staked[v], low[v]), staked[v])
          = Issued(rec[v].funded, staked[v], low[v])
    BY <1>2, IssuedType, ZenonT(60)
  <2> QED
    BY <1>1, <1>2, <2>1, <2>2, ZenonT(60)
<1>4. staked'[v] = 0 /\ \A k \in Registered \ {v} : staked'[k] = staked[k]
  BY <1>1, <1>2 DEF AmountInv
<1>5. held'[v] = 0
  <2>1. Unbacked(rec[v].funded, 0, low[v]) \in Nat
    BY <1>2, IssuedType, ZenonT(60)
  <2>2. Issued(rec[v].funded, 0, low[v]) = 0
    BY <2>1 DEF Issued, SaturatingSub
  <2> QED
    BY <1>1, <1>4, <2>2, GainNext, ZenonT(60)
<1>6. gain[v] = gain'[v] + held[v] /\ gain'[v] \in Nat
  <2>1. gain'[v] = pending[v] + held'[v]
    BY <1>1, GainNext, ZenonT(60)
  <2>2. pending[v] \in Nat /\ held[v] \in Nat /\ gain[v] = pending[v] + held[v]
    BY <1>2, ZenonT(60)
  <2> QED
    BY <1>5, <2>1, <2>2
<1>7. \A k \in Registered \ {v} : gain[k] = gain'[k]
  <2>1. \A k \in Registered \ {v} : held'[k] = Issued(rec[k].funded, staked[k], low[k])
    BY <1>1, <1>4, GainNext, ZenonT(60)
  <2>2. \A k \in Registered \ {v} : gain'[k] = pending[k] + held'[k]
    BY <1>1, GainNext, ZenonT(60)
  <2> QED
    BY <1>2, <2>1, <2>2, ZenonT(60)
<1>8. \A k \in Registered : gain'[k] \in Nat
  BY <1>2, <1>6, <1>7, ZenonT(60)
<1> DEFINE a == SumOver(gain, Registered)
           b == SumOver(gain', Registered)
           d == held[v]
<1>9. a = b + d /\ b \in Nat
  <2>1. IsFiniteSet(Registered) /\ gain[v] = gain'[v] + d /\ d \in Nat
    BY <1>2, <1>6, ZenonT(60)
  <2> HIDE DEF d
  <2> QED
    BY <1>7, <1>8, <2>1, SumRaise, ZenonT(60)
<1>10. b = SumOver(gain', Registered') /\ coins \in Nat /\ d \in Nat /\ coins' = coins + d
  BY <1>1, <1>2, <1>3 DEF AmountInv
<1> HIDE DEF a, b, d
<1>11. a \in Nat /\ coins' + b <= coins + a + 0 /\ issued' = issued + 0
  BY <1>1, <1>9, <1>10 DEF AmountInv
<1> QED
  BY <1>9, <1>10, <1>11, BackedBy DEF a

\* A slash takes off the withdrawable part of a bond at least the reward it pays.
LEMMA SlashHeld ==
    ASSUME ClockInv, AmountInv, NEW v \in Registered, NEW p \in Proposers, SlashingEvidence(v, p)
    PROVE  /\ held'[v] \in Nat /\ held'[v] + whistleblower_reward(v) <= held[v]
           /\ \A k \in Registered \ {v} : held'[k] = held[k]
<1> DEFINE s == staked[v]
           l == low[v]
           f == rec[v].funded
           L == operator_loss(v)
           r == whistleblower_reward(v)
<1>1. /\ L \in Nat /\ L <= s /\ r \in Nat /\ r <= SaturatingSub(L, Lesser(unbacked_principal(v), s))
      /\ staked' = [staked EXCEPT ![v] = s - L]
      /\ low' = [low EXCEPT ![v] = Marked(l, s - L)]
  BY SlashAmounts, ZenonT(60) DEF Marked
<1>2. unbacked_principal(v) = Unbacked(f, s, l)
  BY ZenonT(60) DEF unbacked_principal, Unbacked
<1>3. /\ f \in BOOLEAN /\ s \in Nat /\ l \in Nat \cup {NoMark}
      /\ \A k \in Registered : k \in Keys /\ held[k] = Issued(rec[k].funded, staked[k], low[k])
  BY GainType, ZenonT(60)
<1>4. /\ Registered' = Registered
      /\ rec'[v] = Slashed(rec[v]) /\ \A k \in Registered \ {v} : rec'[k] = rec[k]
  BY DEF SlashingEvidence, ClockInv, Registered
<1>5. rec'[v].funded = f
  <2>1. rec[v] \in Records
    BY DEF ClockInv
  <2> QED
    BY <1>4, <2>1, SlashedFields, ZenonT(60)
<1>6. /\ staked'[v] = s - L /\ low'[v] = Marked(l, s - L)
      /\ \A k \in Registered \ {v} : staked'[k] = staked[k] /\ low'[k] = low[k]
  BY <1>1, <1>3 DEF AmountInv
<1>7. held'[v] = Issued(f, s - L, Marked(l, s - L))
  BY <1>4, <1>5, <1>6, GainNext, ZenonT(60)
<1>8. \A k \in Registered \ {v} : held'[k] = held[k]
  BY <1>3, <1>4, <1>6, GainNext, ZenonT(60)
<1>9. held[v] = Issued(f, s, l)
  BY <1>3, ZenonT(60)
<1> HIDE DEF s, l, f, L, r
<1>10. /\ s - L \in Nat /\ Marked(l, s - L) \in Nat \cup {NoMark}
       /\ Issued(f, s - L, Marked(l, s - L)) + r <= Issued(f, s, l)
  BY <1>1, <1>2, <1>3, IssuedSlashed, ZenonT(60)
<1>11. Issued(f, s - L, Marked(l, s - L)) \in Nat
  BY <1>3, <1>10, IssuedType, ZenonT(60)
<1> QED
  BY <1>7, <1>8, <1>9, <1>10, <1>11, ZenonT(60) DEF r

\* So the reward, whoever earns it, leaves the total no larger.
LEMMA SlashBacked ==
    ASSUME ClockInv, AmountInv, Backed, NEW v \in Registered, NEW p \in Proposers,
           SlashingEvidence(v, p)
    PROVE  Backed'
<1> DEFINE r == whistleblower_reward(v)
           cut == [k \in Registered |-> pending[k] + held'[k]]
<1>1. /\ p \in Registered /\ p \in Keys /\ r \in Nat
      /\ pending' = [pending EXCEPT ![p] = pending[p] + r]
  BY SlashAmounts, ZenonT(60)
<1>2. /\ held'[v] \in Nat /\ held'[v] + r <= held[v]
      /\ \A k \in Registered \ {v} : held'[k] = held[k]
  BY SlashHeld, ZenonT(60)
<1> HIDE DEF r
<1>3. /\ IsFiniteSet(Registered) /\ SumOver(gain, Registered) \in Nat
      /\ \A k \in Registered : /\ k \in Keys /\ pending[k] \in Nat /\ held[k] \in Nat
                               /\ gain[k] \in Nat /\ gain[k] = pending[k] + held[k]
  BY GainType, ZenonT(60)
<1>4. Registered' = Registered /\ UNCHANGED <<coins, issued>>
  BY ZenonT(60) DEF SlashingEvidence, ClockInv, Registered
<1>5. pending'[p] = pending[p] + r /\ \A k \in Registered \ {p} : pending'[k] = pending[k]
  BY <1>1, <1>3 DEF AmountInv
<1>6. \A k \in Registered : cut[k] = pending[k] + held'[k]
  BY ZenonT(60)
<1>7. \A k \in Registered : gain'[k] = pending'[k] + held'[k]
  BY <1>4, GainNext, ZenonT(60)
<1> HIDE DEF cut
<1>8. \A k \in Registered \ {v} : gain[k] = cut[k]
  BY <1>2, <1>3, <1>6, ZenonT(60)
<1>9. \A k \in Registered : cut[k] \in Nat
  BY <1>2, <1>3, <1>6, <1>8
<1>10. \A k \in Registered \ {p} : gain'[k] = cut[k]
  BY <1>5, <1>6, <1>7, ZenonT(60)
<1>11. gain'[p] = cut[p] + r
  <2>1. held'[p] \in Nat
    BY <1>1, <1>2, <1>3
  <2>2. /\ pending[p] \in Nat /\ gain'[p] = pending'[p] + held'[p]
        /\ cut[p] = pending[p] + held'[p] /\ pending'[p] = pending[p] + r
    BY <1>1, <1>3, <1>5, <1>6, <1>7, ZenonT(60)
  <2> QED
    BY <1>1, <2>1, <2>2
<1> DEFINE d == held[v] - held'[v]
           a == SumOver(gain, Registered)
           b == SumOver(cut, Registered)
           c == SumOver(gain', Registered)
<1>12. d \in Nat /\ r <= d /\ gain[v] = cut[v] + d
  <2>1. /\ pending[v] \in Nat /\ held[v] \in Nat /\ gain[v] = pending[v] + held[v]
        /\ cut[v] = pending[v] + held'[v]
    BY <1>3, <1>6, ZenonT(60)
  <2> QED
    BY <1>1, <1>2, <2>1
<1> HIDE DEF d
<1>13. a = b + d /\ b \in Nat
  <2>1. IsFiniteSet(Registered) /\ gain[v] = cut[v] + d /\ d \in Nat
    BY <1>3, <1>12, ZenonT(60)
  <2> QED
    BY <1>8, <1>9, <2>1, SumRaise
<1>14. c = b + r
  BY <1>1, <1>3, <1>9, <1>10, <1>11, SumRaise, ZenonT(60)
<1>15. c = SumOver(gain', Registered') /\ coins \in Nat /\ coins' = coins
  BY <1>4 DEF AmountInv
<1> HIDE DEF a, b, c
<1>16. a \in Nat /\ c \in Nat /\ coins' + c <= coins + a + 0 /\ issued' = issued + 0
  BY <1>1, <1>4, <1>12, <1>13, <1>14, <1>15 DEF AmountInv
<1> QED
  BY <1>15, <1>16, BackedBy DEF a

\* What a boundary adds to a bond beyond the rewards that had accrued
Bonus(attested) ==
    [v \in Registered |-> IF v \in duty_roster_at(epoch) THEN Payout(v, attested) ELSE 0]

\* The bonuses of a boundary are its issuance.
LEMMA BonusIsIssuance ==
    ASSUME ClockInv, AmountInv, NEW attested
    PROVE  /\ \A v \in Registered : Bonus(attested)[v] \in Nat
           /\ SumOver(Bonus(attested), Registered) = Issuance(attested)
           /\ Issuance(attested) \in Nat
<1> DEFINE R == duty_roster_at(epoch)
           bonus == Bonus(attested)
           pay == [k \in R |-> Payout(k, attested)]
<1>1. \A v \in Registered : bonus[v] = IF v \in R THEN Payout(v, attested) ELSE 0
  BY ZenonT(60) DEF Bonus
<1>2. R \subseteq Registered /\ IsFiniteSet(Registered) /\ Registered \subseteq Keys
  BY GainType DEF duty_roster_at
<1>3. \A v \in Registered : Payout(v, attested) \in Nat
  BY <1>2, PayoutType
<1>4. /\ \A v \in Registered : bonus[v] \in Nat
      /\ \A v \in R : bonus[v] \in Nat /\ bonus[v] = pay[v]
      /\ \A v \in Registered \ R : bonus[v] = 0
  <2> HIDE DEF R, bonus
  <2> QED
    BY <1>1, <1>2, <1>3
<1>5. Issuance(attested) = SumOver(pay, R) /\ Issuance(attested) \in Nat
  BY IssuanceIsSum, ZenonT(60)
<1> HIDE DEF R, bonus, pay
<1>6. /\ IsFiniteSet(R) /\ IsFiniteSet(Registered \ R) /\ R \cap (Registered \ R) = {}
      /\ R \cup (Registered \ R) = Registered
  BY <1>2, FS_Subset
<1>7. SumOver(bonus, R \cup (Registered \ R)) = SumOver(bonus, R) + SumOver(bonus, Registered \ R)
  BY <1>4, <1>6, SumSplit
<1>8. SumOver(bonus, Registered \ R) = 0
  BY <1>4, <1>6, SumZero
<1>9. SumOver(bonus, R) = SumOver(pay, R)
  BY <1>4, <1>6, SumEqual
<1>10. SumOver(bonus, Registered) = Issuance(attested)
  <2> DEFINE a == SumOver(bonus, R)
             b == SumOver(bonus, Registered \ R)
             c == SumOver(bonus, Registered)
  <2>1. a = Issuance(attested) /\ b = 0 /\ c = a + b
    BY <1>5, <1>6, <1>7, <1>8, <1>9, ZenonT(60)
  <2> HIDE DEF a, b, c
  <2>2. c = Issuance(attested)
    BY <1>5, <2>1
  <2> QED
    BY <2>2 DEF c
<1> QED
  BY <1>4, <1>5, <1>10 DEF bonus

LEMMA CloseHeld ==
    ASSUME ClockInv, AmountInv, NEW attested, NEW final, NEW admitted,
           CloseRegistry(attested, final, admitted), NEW v \in Registered
    PROVE  gain'[v] \in Nat /\ gain'[v] <= gain[v] + Bonus(attested)[v]
<1> DEFINE b == Bonus(attested)[v]
           f == rec[v].funded
           s == staked[v]
           l == low[v]
           d == pending[v] + b
<1>1. b \in Nat
  BY BonusIsIssuance
<1>2. /\ f \in BOOLEAN /\ s \in Nat /\ l \in Nat \cup {NoMark} /\ v \in Keys
      /\ pending[v] \in Nat /\ held[v] \in Nat /\ gain[v] = pending[v] + held[v]
      /\ held[v] = Issued(f, s, l)
  BY GainType, ZenonT(60)
<1>3. staked'[v] = s + pending[v] + b /\ pending'[v] = 0 /\ low' = low /\ Registered' = Registered
  BY <1>2, ZenonT(60) DEF CloseRegistry, Registered, Bonus
<1>4. rec'[v].funded = f
  BY ClosedFields, ZenonT(60)
<1>5. gain'[v] = pending'[v] + held'[v] /\ held'[v] = Issued(f, staked'[v], l)
  BY <1>3, <1>4, GainNext, ZenonT(60)
<1> HIDE DEF b, f, s, l
<1>6. d \in Nat /\ s + d \in Nat /\ s + pending[v] + b = s + d
  BY <1>1, <1>2
<1>7. held'[v] = Issued(f, s + d, l)
  BY <1>3, <1>5, <1>6, ZenonT(60)
<1> HIDE DEF d
<1>8. Issued(f, s + d, l) \in Nat /\ Issued(f, s + d, l) <= Issued(f, s, l) + d
  BY <1>2, <1>6, IssuedType, IssuedGrows, ZenonT(60)
<1>9. held'[v] \in Nat /\ held'[v] <= held[v] + d /\ gain'[v] = 0 + held'[v]
  BY <1>2, <1>3, <1>5, <1>7, <1>8, ZenonT(60)
<1>10. gain'[v] \in Nat /\ gain'[v] <= gain[v] + b
  BY <1>1, <1>2, <1>9 DEF d
<1> QED
  BY <1>10 DEF b

\* A boundary: what compounds beyond the accrued rewards is what is issued.
LEMMA CloseBacked ==
    ASSUME ClockInv, AmountInv, Backed, NEW attested, NEW final, NEW admitted,
           CloseRegistry(attested, final, admitted)
    PROVE  Backed'
<1> DEFINE bonus == Bonus(attested)
           sum == [v \in Registered |-> gain[v] + bonus[v]]
           i == Issuance(attested)
<1>1. Registered' = Registered /\ coins' = coins /\ issued' = issued + i
  BY DEF CloseRegistry, Registered, Issuance
<1>2. IsFiniteSet(Registered) /\ \A v \in Registered : gain[v] \in Nat
  BY GainType, ZenonT(60)
<1>3. (\A v \in Registered : bonus[v] \in Nat) /\ SumOver(bonus, Registered) = i /\ i \in Nat
  BY BonusIsIssuance, ZenonT(60)
<1>4. \A v \in Registered : gain'[v] \in Nat /\ gain'[v] <= gain[v] + bonus[v]
  BY CloseHeld, ZenonT(60)
<1>5. \A v \in Registered : sum[v] = gain[v] + bonus[v]
  BY ZenonT(60)
<1> HIDE DEF bonus, sum, i
<1>6. \A v \in Registered : /\ gain'[v] \in Nat /\ sum[v] \in Nat /\ gain'[v] <= sum[v]
  BY <1>2, <1>3, <1>4, <1>5
<1> DEFINE a == SumOver(gain, Registered)
           b == SumOver(sum, Registered)
           c == SumOver(gain', Registered)
<1>7. c <= b /\ c \in Nat /\ a \in Nat
  BY <1>2, <1>6, SumMonotone, SumType
<1>8. b = a + SumOver(bonus, Registered)
  BY <1>2, <1>3, <1>5, SumPlus
<1>9. c = SumOver(gain', Registered') /\ coins \in Nat /\ b = a + i
  BY <1>1, <1>3, <1>8 DEF AmountInv
<1> HIDE DEF a, b, c
<1>10. coins' + c <= coins + a + i /\ coins' \in Int
  BY <1>1, <1>3, <1>7, <1>9
<1> QED
  BY <1>1, <1>3, <1>7, <1>9, <1>10, BackedBy DEF a

LEMMA BackedStep ==
    ASSUME ClockInv, AmountInv, Backed, [StakingNext]_stakingVars PROVE Backed'
<1>0. coins' \in Nat /\ Proposers \subseteq Registered
  <2>1. AmountInv'
    BY AmountStep, ZenonT(60)
  <2> QED
    BY <2>1 DEF AmountInv, Proposers, duty_roster_at
<1>1. ASSUME UNCHANGED <<rec, staked, low, pending, coins, issued>> PROVE Backed'
  BY <1>1 DEF Backed, gain, held, Registered
<1>2. ASSUME NEW p \in Proposers, Transfer(p) PROVE Backed'
  BY <1>0, <1>2, TipBacked
<1>3. ASSUME NEW v \in Applicants, NEW p \in Proposers, FundedDeposit(v, p) PROVE Backed'
  BY <1>0, <1>3, DepositBacked
<1>4. ASSUME NEW v \in Registered, ExitV2(v) PROVE Backed'
  <2>1. /\ UNCHANGED <<staked, low, pending, coins, issued>> /\ Registered' = Registered
        /\ rec'[v] = Exiting(rec[v]) /\ \A k \in Registered \ {v} : rec'[k] = rec[k]
    BY <1>4 DEF ExitV2, ledger, Registered, ClockInv
  <2>2. \A k \in Registered : rec'[k].funded = rec[k].funded
    BY <2>1, ExitingFields, ZenonT(60) DEF ClockInv
  <2>3. held' = held
    BY <2>1, <2>2 DEF held
  <2>4. gain' = gain
    BY <2>1, <2>3, ZenonT(60) DEF gain
  <2> QED
    BY <2>1, <2>4, ZenonT(60) DEF Backed
<1>5. ASSUME NEW v \in Registered, NEW p \in Proposers, SlashingEvidence(v, p) PROVE Backed'
  BY <1>5, SlashBacked
<1>6. ASSUME NEW v \in Registered, Withdraw(v) PROVE Backed'
  BY <1>0, <1>6, WithdrawBacked
<1>7. ASSUME NEW attested, NEW final, NEW admitted, CloseRegistry(attested, final, admitted)
      PROVE  Backed'
  BY <1>7, CloseBacked
<1>8. CASE UNCHANGED stakingVars
  BY <1>1, <1>8 DEF stakingVars, ledger
<1> QED
  BY <1>2, <1>3, <1>4, <1>5, <1>6, <1>7, <1>8 DEF StakingNext

\* The sum of the property is the sum of the invariant.
Spendable == MapThenSumSet(LAMBDA v : pending[v] + withdrawable_sat(v), Registered)

LEMMA SpendableIsSum == ASSUME ClockInv, AmountInv PROVE Spendable = SumOver(gain, Registered)
<1> DEFINE F == CHOOSE g : g = [s \in SUBSET Registered |->
                    IF s = {} THEN 0
                    ELSE (pending[Pick(s)] + withdrawable_sat(Pick(s))) + g[s \ {Pick(s)}]]
<1>1. IsFiniteSet(Registered) /\ \A v \in Registered : gain[v] \in Nat
  BY GainType
<1>2. Spendable = F[Registered]
  BY DEF Spendable, MapThenSumSet, MapThenFoldSet, Pick
<1>3. \A s \in SUBSET Registered : s # {} =>
          gain[Pick(s)] = pending[Pick(s)] + withdrawable_sat(Pick(s))
  <2>1. \A v \in Registered : gain[v] = pending[v] + withdrawable_sat(v)
    BY ZenonT(60) DEF gain, held, Issued, Unbacked, withdrawable_sat, unbacked_principal
  <2> QED
    BY <2>1, PickIn
<1>4. ASSUME NEW g
      PROVE  Folds(gain, Registered, g) <=>
               g = [s \in SUBSET Registered |->
                    IF s = {} THEN 0
                    ELSE (pending[Pick(s)] + withdrawable_sat(Pick(s))) + g[s \ {Pick(s)}]]
  <2>1. [s \in SUBSET Registered |-> IF s = {} THEN 0 ELSE gain[Pick(s)] + g[s \ {Pick(s)}]]
        = [s \in SUBSET Registered |->
             IF s = {} THEN 0
             ELSE (pending[Pick(s)] + withdrawable_sat(Pick(s))) + g[s \ {Pick(s)}]]
    BY <1>3
  <2> QED
    BY <2>1 DEF Folds
<1>5. \E g : Folds(gain, Registered, g)
  BY <1>1, FoldsExist, ZenonT(60)
<1>6. Folds(gain, Registered, F)
  BY <1>4, <1>5, ZenonT(60)
<1> HIDE DEF F
<1> QED
  BY <1>1, <1>2, <1>6, SumAnyFold

\* No coin without issuance (withdrawal_plan, whistleblower_reward, stake_low_water): in every
\* order of deposits, slashes, rewards and withdrawals, the output set, the accrued rewards
\* and what the bonds may still pay out stay within what was issued, so the genesis principal
\* is never paid out in any form.
THEOREM EverythingBacked == StakingSpec => []BackedByIssuance
<1> DEFINE Inv == ClockInv /\ AmountInv /\ Backed
<1>1. StakingInit => Inv
  BY ClockInit, AmountInit, BackedInit
<1>2. Inv /\ [StakingNext]_stakingVars => Inv'
  BY ClockStep, AmountStep, BackedStep
<1>3. Inv => BackedByIssuance
  <2> SUFFICES ASSUME Inv PROVE BackedByIssuance
    OBVIOUS
  <2>1. Spendable = SumOver(gain, Registered)
    BY SpendableIsSum
  <2>2. BackedByIssuance <=> coins + Spendable <= issued
    BY ZenonT(60) DEF BackedByIssuance, Spendable
  <2> QED
    BY <2>1, <2>2 DEF Backed
<1> HIDE DEF Inv
<1> QED
  BY <1>1, <1>2, <1>3, PTL DEF StakingSpec
=============================================================================

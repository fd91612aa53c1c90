---------------------------- MODULE Autosync_proofs ----------------------------
(***************************************************************************)
(* The safety of Autosync for every set of processes and every setting of  *)
(* the limits.  The inductive invariant adds to the properties what they   *)
(* lean on: a process that still counts on a lease is the owner of the     *)
(* stored one, which lasts at least as long as the process believes; and a *)
(* cycle that marks its outcome has counted one failure at most.           *)
(***************************************************************************)
EXTENDS Autosync, TLAPS

LeaseOwned ==
    \A p \in Proc : leased[p] > 0 => lease.owner = p /\ leased[p] <= lease.left

CountedOnce == \A p \in Proc : loop[p] = "marking" => failures[p] <= MaxFailures

IInv == TypeOK /\ CycleAllowed /\ StatusHonest /\ LeaseOwned /\ CountedOnce

-------------------------------------------------------------------------------
\* computeBackoff never returns a negative delay, nor one above MaxBackoff,
\* whatever its jitter draws.
LEMMA BackoffRange ==
    ASSUME NEW n
    PROVE  BackoffChoices(n) \subseteq 0..MaxBackoff
BY LimitsAssumption DEF BackoffChoices

\* The initial state satisfies the inductive invariant.
LEMMA InitIInv == Init => IInv
BY LimitsAssumption, OwnersAssumption
   DEF Init, IInv, TypeOK, CycleAllowed, StatusHonest, LeaseOwned, CountedOnce, Places, Phases

\* Counting a failure at the ceiling or below keeps the counters in range.
LEMMA CountFailureTyped ==
    ASSUME TypeOK, NEW p \in Proc, failures[p] <= MaxFailures, CountFailure(p) \/ Jam(p)
    PROVE  /\ failures' \in [Proc -> 0..MaxFailures + 1]
           /\ backoff' \in [Proc -> 0..MaxBackoff]
           /\ failures'[p] = failures[p] + 1
           /\ failures'[p] > 0
           /\ \A q \in Proc \ {p} : failures'[q] = failures[q] /\ backoff'[q] = backoff[q]
<1>1. failures[p] + 1 \in 1..MaxFailures + 1
  BY LimitsAssumption DEF TypeOK
<1>2. failures' = [failures EXCEPT ![p] = failures[p] + 1]
  BY DEF CountFailure, Jam
<1>3. CASE CountFailure(p)
  <2>1. PICK d \in BackoffChoices(failures[p] + 1) : backoff' = [backoff EXCEPT ![p] = d]
    BY <1>3 DEF CountFailure
  <2>2. d \in 0..MaxBackoff
    BY <2>1, BackoffRange
  <2> QED BY <1>1, <1>2, <2>1, <2>2 DEF TypeOK
<1>4. CASE Jam(p)
  <2>1. backoff' = backoff
    BY <1>4 DEF Jam
  <2> QED BY <1>1, <1>2, <2>1 DEF TypeOK
<1> QED BY <1>3, <1>4

\* A cycle's first checks keep every part of the invariant: they only choose where
\* the loop goes, and let it on only when the cycle is allowed.
LEMMA CheckCycleStep ==
    ASSUME IInv, NEW p \in Proc, CheckCycle(p),
           UNCHANGED <<phase, failures, backoff, disabled, cancelled, lease, leased>>
    PROVE  IInv'
<1>1. TypeOK'
  BY DEF IInv, TypeOK, CheckCycle, Places
<1>2. CycleAllowed'
  BY LimitsAssumption DEF IInv, TypeOK, CheckCycle, CycleAllowed
<1>3. StatusHonest' /\ LeaseOwned' /\ CountedOnce'
  BY DEF IInv, TypeOK, CheckCycle, StatusHonest, LeaseOwned, CountedOnce
<1> QED BY <1>1, <1>2, <1>3 DEF IInv

\* The delay after a first failure is BaseBackoff, which is a Duration.
LEMMA JamLater ==
    ASSUME TypeOK, NEW p \in Proc, Jam(p)
    PROVE  failures[p] # 0
<1>1. 2^0 = 1
  OBVIOUS
<1>2. BaseBackoff * 1 = BaseBackoff
  BY LimitsAssumption
<1> SUFFICES ASSUME failures[p] = 0 PROVE FALSE
  OBVIOUS
<1>3. BaseBackoff * 2^0 > MaxDuration
  BY DEF Jam
<1> QED BY <1>1, <1>2, <1>3, LimitsAssumption

\* Where a failure is counted the cycle ends: the loop marks it, is back in select, or
\* is stuck, and the phase shown is one of failure or as it was.
LEMMA FailureStep ==
    ASSUME IInv, NEW p \in Proc, failures[p] <= MaxFailures, CountFailure(p) \/ Jam(p),
           UNCHANGED <<disabled, cancelled>>,
           lease' \in [owner: Proc \cup {None, Gone}, left: 0..LeaseInterval],
           leased' \in [Proc -> 0..LeaseInterval],
           NEW at \in {"select", "marking", "stuck"}, loop' = [loop EXCEPT ![p] = at],
           at = "marking" => failures[p] < MaxFailures,
           NEW ph \in {"push_failed", "pull_failed", "backoff", phase[p]},
           phase' = [phase EXCEPT ![p] = ph], ph # "healthy"
    PROVE  TypeOK' /\ CycleAllowed' /\ StatusHonest' /\ CountedOnce'
<1>1. /\ failures' \in [Proc -> 0..MaxFailures + 1]
      /\ backoff' \in [Proc -> 0..MaxBackoff]
      /\ failures'[p] = failures[p] + 1
      /\ failures'[p] > 0
      /\ \A q \in Proc \ {p} : failures'[q] = failures[q] /\ backoff'[q] = backoff[q]
  BY CountFailureTyped DEF IInv
<1>2. phase[p] \in Phases /\ failures[p] \in Nat
  BY DEF IInv, TypeOK
<1>3. TypeOK'
  BY <1>1, <1>2 DEF IInv, TypeOK, Places, Phases
<1>4. CycleAllowed'
  BY <1>1 DEF IInv, TypeOK, CycleAllowed
<1>5. StatusHonest'
  BY <1>1 DEF IInv, TypeOK, StatusHonest
<1>6. CountedOnce'
  BY <1>1, <1>2, LimitsAssumption DEF IInv, TypeOK, CountedOnce
<1> QED BY <1>3, <1>4, <1>5, <1>6

\* The end of a failed cycle, with or without the lease taken just before.
LEMMA RecordFailureStep ==
    ASSUME IInv, NEW p \in Proc, failures[p] < MaxFailures,
           RecordFailure(p), UNCHANGED <<disabled, cancelled>>,
           lease' \in [owner: Proc \cup {None, Gone}, left: 0..LeaseInterval],
           leased' \in [Proc -> 0..LeaseInterval]
    PROVE  TypeOK' /\ CycleAllowed' /\ StatusHonest' /\ CountedOnce'
<1>1. failures[p] <= MaxFailures
  BY LimitsAssumption DEF IInv, TypeOK
<1>2. CASE CountFailure(p) /\ loop' = [loop EXCEPT ![p] = "marking"]
           /\ phase' = [phase EXCEPT ![p] = IF @ = "pushing" THEN "push_failed" ELSE "pull_failed"]
  <2>1. PICK ph \in {"push_failed", "pull_failed", "backoff", phase[p]} :
            phase' = [phase EXCEPT ![p] = ph] /\ ph # "healthy"
    BY <1>2 DEF IInv, TypeOK
  <2> QED BY <1>1, <1>2, <2>1, FailureStep
<1>3. CASE Jam(p) /\ UNCHANGED phase
  <2>1. phase[p] # "healthy" /\ phase' = [phase EXCEPT ![p] = phase[p]]
    BY <1>3, JamLater DEF IInv, TypeOK, StatusHonest
  <2>2. loop' = [loop EXCEPT ![p] = "stuck"]
    BY <1>3 DEF Jam
  <2> QED BY <1>1, <1>3, <2>1, <2>2, FailureStep
<1> QED BY <1>2, <1>3 DEF RecordFailure

\* Taking a free lease invalidates nobody else's: whoever counted on one owned it.
LEMMA AcquireStep ==
    ASSUME IInv, NEW p \in Proc, LeaseFree(p), AcquireSyncLease(p)
    PROVE  /\ lease' \in [owner: Proc \cup {None, Gone}, left: 0..LeaseInterval]
           /\ leased' \in [Proc -> 0..LeaseInterval]
           /\ LeaseOwned'
<1>1. lease' = [owner |-> p, left |-> LeaseInterval]
      /\ leased' = [leased EXCEPT ![p] = LeaseInterval]
  BY DEF AcquireSyncLease
<1>2. \A q \in Proc \ {p} : leased[q] = 0
  BY OwnersAssumption DEF IInv, TypeOK, LeaseOwned, LeaseFree
<1>3. leased' \in [Proc -> 0..LeaseInterval]
  BY <1>1, LimitsAssumption DEF IInv, TypeOK
<1>4. lease' \in [owner: Proc \cup {None, Gone}, left: 0..LeaseInterval]
  BY <1>1, LimitsAssumption
<1>5. LeaseOwned'
  BY <1>1, <1>2, LimitsAssumption DEF IInv, TypeOK, LeaseOwned
<1> QED BY <1>3, <1>4, <1>5

\* A process that goes away takes only its own beliefs with it.
LEMMA VanishStep ==
    ASSUME IInv, NEW p \in Proc, Vanish(p),
           lease' \in [owner: Proc \cup {None, Gone}, left: 0..LeaseInterval],
           lease.owner \notin {p, None} => lease' = lease
    PROVE  IInv'
<1>1. TypeOK'
  BY LimitsAssumption DEF IInv, TypeOK, Vanish, Places, Phases
<1>2. CycleAllowed' /\ StatusHonest' /\ CountedOnce'
  BY DEF IInv, TypeOK, Vanish, CycleAllowed, StatusHonest, CountedOnce
<1>3. LeaseOwned'
  <2>1. leased' = [leased EXCEPT ![p] = 0]
    BY DEF Vanish
  <2> SUFFICES ASSUME NEW q \in Proc, leased'[q] > 0
               PROVE  lease'.owner = q /\ leased'[q] <= lease'.left
    BY DEF LeaseOwned
  <2>2. q # p /\ leased'[q] = leased[q]
    BY <2>1 DEF IInv, TypeOK
  <2>3. lease.owner = q /\ leased[q] <= lease.left
    BY <2>2 DEF IInv, LeaseOwned
  <2> QED BY <2>2, <2>3, OwnersAssumption
<1> QED BY <1>1, <1>2, <1>3 DEF IInv

-------------------------------------------------------------------------------
\* Every step of one process keeps the inductive invariant, action by action.
LEMMA StepIInv ==
    ASSUME IInv, NEW p \in Proc, Step(p)
    PROVE  IInv'
<1> USE DEF IInv
<1>1. CASE Start(p)
  BY <1>1 DEF Start, TypeOK, CycleAllowed, StatusHonest, LeaseOwned, CountedOnce, Places
<1>2. CASE TimerFires(p)
  BY <1>2, CheckCycleStep DEF TimerFires
<1>3. CASE FinishMark(p)
  BY <1>3 DEF FinishMark, TypeOK, CycleAllowed, StatusHonest, LeaseOwned, CountedOnce, Places
<1>4. CASE ReachCeiling(p)
  <2>1. TypeOK'
    BY <1>4 DEF ReachCeiling, SetPhase, TypeOK, Places, Phases
  <2>2. CycleAllowed' /\ StatusHonest' /\ LeaseOwned' /\ CountedOnce'
    BY <1>4 DEF ReachCeiling, SetPhase, TypeOK, CycleAllowed, StatusHonest, LeaseOwned, CountedOnce
  <2> QED BY <2>1, <2>2
<1>5. CASE MissLease(p)
  BY <1>5 DEF MissLease, TypeOK, CycleAllowed, StatusHonest, LeaseOwned, CountedOnce, Places
<1>6. CASE BeginPush(p)
  <2>1. /\ lease' \in [owner: Proc \cup {None, Gone}, left: 0..LeaseInterval]
        /\ leased' \in [Proc -> 0..LeaseInterval]
        /\ LeaseOwned'
    BY <1>6, AcquireStep DEF BeginPush
  <2>2. TypeOK'
    BY <1>6, <2>1 DEF BeginPush, SetPhase, TypeOK, Places, Phases
  <2>3. CycleAllowed' /\ StatusHonest' /\ CountedOnce'
    BY <1>6 DEF BeginPush, SetPhase, TypeOK, CycleAllowed, StatusHonest, CountedOnce
  <2> QED BY <2>1, <2>2, <2>3
<1>7. CASE CancelledPush(p)
  <2>1. /\ lease' \in [owner: Proc \cup {None, Gone}, left: 0..LeaseInterval]
        /\ leased' \in [Proc -> 0..LeaseInterval]
        /\ LeaseOwned'
    BY <1>7, AcquireStep DEF CancelledPush
  <2>2. failures[p] < MaxFailures
    BY <1>7 DEF CancelledPush, CycleAllowed
  <2> QED BY <1>7, <2>1, <2>2, RecordFailureStep DEF CancelledPush
<1>8. CASE BeginPull(p)
  <2>1. TypeOK'
    BY <1>8 DEF BeginPull, SetPhase, TypeOK, Places, Phases
  <2>2. CycleAllowed' /\ StatusHonest' /\ LeaseOwned' /\ CountedOnce'
    BY <1>8 DEF BeginPull, SetPhase, TypeOK, CycleAllowed, StatusHonest, LeaseOwned, CountedOnce
  <2> QED BY <2>1, <2>2
<1>9. CASE CycleFails(p)
  <2>1. failures[p] < MaxFailures
    BY <1>9 DEF CycleFails, Holds, CycleAllowed
  <2>2. TypeOK' /\ CycleAllowed' /\ StatusHonest' /\ CountedOnce'
    BY <1>9, <2>1, RecordFailureStep DEF CycleFails, TypeOK
  <2>3. LeaseOwned'
    BY <1>9 DEF CycleFails, LeaseOwned
  <2> QED BY <2>2, <2>3
<1>10. CASE CycleSucceeds(p)
  <2>1. TypeOK'
    BY <1>10, LimitsAssumption DEF CycleSucceeds, RecordSuccess, TypeOK, Places, Phases
  <2>2. CycleAllowed' /\ StatusHonest' /\ LeaseOwned' /\ CountedOnce'
    BY <1>10, LimitsAssumption
       DEF CycleSucceeds, RecordSuccess, TypeOK, CycleAllowed, StatusHonest, LeaseOwned, CountedOnce
  <2> QED BY <2>1, <2>2
<1>11. CASE CyclePanics(p)
  <2>1. failures[p] <= MaxFailures
    BY <1>11, LimitsAssumption DEF CyclePanics, CycleAllowed, CountedOnce, TypeOK
  <2>2. phase' = [phase EXCEPT ![p] = "backoff"]
    BY <1>11 DEF CyclePanics, SetPhase
  <2>3. PICK at \in {"select", "stuck"} : loop' = [loop EXCEPT ![p] = at]
    BY <1>11 DEF CyclePanics, Jam
  <2>4. (CountFailure(p) \/ Jam(p)) /\ UNCHANGED <<disabled, cancelled, lease, leased>>
    BY <1>11 DEF CyclePanics
  <2>5. /\ lease' \in [owner: Proc \cup {None, Gone}, left: 0..LeaseInterval]
        /\ leased' \in [Proc -> 0..LeaseInterval]
    BY <2>4 DEF TypeOK
  <2>6. TypeOK' /\ CycleAllowed' /\ StatusHonest' /\ CountedOnce'
    BY <2>1, <2>2, <2>3, <2>4, <2>5, FailureStep
  <2>7. LeaseOwned'
    BY <2>4 DEF LeaseOwned
  <2> QED BY <2>6, <2>7
<1>12. CASE Exit(p)
  <2>1. /\ lease' \in [owner: Proc \cup {None, Gone}, left: 0..LeaseInterval]
        /\ lease.owner \notin {p, None} => lease' = lease
    BY <1>12, LimitsAssumption DEF Exit, ReleaseSyncLease, Orphan, TypeOK
  <2> QED BY <1>12, <2>1, VanishStep DEF Exit
<1>13. CASE Cancel(p)
  BY <1>13 DEF Cancel, TypeOK, CycleAllowed, StatusHonest, LeaseOwned, CountedOnce
<1>14. CASE StopForUpgrade(p)
  <2>1. TypeOK'
    BY <1>14 DEF StopForUpgrade, SetPhase, TypeOK, Phases
  <2>2. CycleAllowed' /\ StatusHonest' /\ LeaseOwned' /\ CountedOnce'
    BY <1>14 DEF StopForUpgrade, SetPhase, TypeOK, CycleAllowed, StatusHonest, LeaseOwned, CountedOnce
  <2> QED BY <2>1, <2>2
<1>15. CASE ResumeAfterUpgrade(p)
  <2>1. TypeOK'
    BY <1>15 DEF ResumeAfterUpgrade, SetPhase, TypeOK, Phases
  <2>2. CycleAllowed' /\ StatusHonest' /\ LeaseOwned' /\ CountedOnce'
    BY <1>15 DEF ResumeAfterUpgrade, SetPhase, TypeOK, CycleAllowed, StatusHonest, LeaseOwned, CountedOnce
  <2> QED BY <2>1, <2>2
<1>16. CASE Crash(p)
  <2>1. /\ lease' \in [owner: Proc \cup {None, Gone}, left: 0..LeaseInterval]
        /\ lease.owner \notin {p, None} => lease' = lease
    BY <1>16 DEF Crash, Orphan, TypeOK
  <2> QED BY <1>16, <2>1, VanishStep DEF Crash
<1> QED
  BY <1>1, <1>2, <1>3, <1>4, <1>5, <1>6, <1>7, <1>8, <1>9, <1>10, <1>11,
     <1>12, <1>13, <1>14, <1>15, <1>16 DEF Step

\* The passing of time shortens a lease and what its holder believes of it alike.
LEMMA TickIInv == IInv /\ Tick => IInv'
<1> SUFFICES ASSUME IInv, Tick PROVE IInv'
  OBVIOUS
<1>1. TypeOK'
  BY LimitsAssumption DEF IInv, TypeOK, Tick, Remaining
<1>2. CycleAllowed' /\ StatusHonest' /\ CountedOnce'
  BY DEF IInv, TypeOK, Tick, Remaining, CycleAllowed, StatusHonest, CountedOnce
<1>3. LeaseOwned'
  BY DEF IInv, TypeOK, Tick, Remaining, LeaseOwned
<1> QED BY <1>1, <1>2, <1>3 DEF IInv

\* Every step of a manager, of an operator or of time keeps the inductive invariant.
LEMMA NextIInv == IInv /\ [Next]_vars => IInv'
<1> SUFFICES ASSUME IInv, [Next]_vars PROVE IInv'
  OBVIOUS
<1>1. CASE Tick
  BY <1>1, TickIInv
<1>2. ASSUME NEW p \in Proc, Step(p) PROVE IInv'
  BY <1>2, StepIInv
<1>3. CASE UNCHANGED vars
  BY <1>3 DEF vars, IInv, TypeOK, CycleAllowed, StatusHonest, LeaseOwned, CountedOnce
<1> QED BY <1>1, <1>2, <1>3 DEF Next

\* The inductive invariant holds in every behaviour of the store's processes.
LEMMA IInvHolds == Spec => []IInv
<1> QED BY InitIInv, NextIInv, PTL DEF Spec

-------------------------------------------------------------------------------
\* The variables of the managers and of the lease keep their types; in particular the
\* failure count passes the ceiling by one at most, when the panic of a mark is counted
\* on top of the failure it marks, and no delay passes MaxBackoff.
THEOREM TypeCorrect == Spec => []TypeOK
<1>1. IInv => TypeOK
  BY DEF IInv
<1> QED BY <1>1, IInvHolds, PTL

\* Two processes never work under unexpired leases of the same store: the acquire
\* and release statements of the store suffice, for any number of processes.
THEOREM LeaseExclusive == Spec => []MutualExclusion
<1>1. IInv => MutualExclusion
  BY DEF IInv, LeaseOwned, MutualExclusion
<1> QED BY <1>1, IInvHolds, PTL

\* Every cycle that reaches the store or the network is below the ceiling and past
\* its back-off, for all limits and all jitter.
THEOREM CyclesAllowed == Spec => []CycleAllowed
<1>1. IInv => CycleAllowed
  BY DEF IInv
<1> QED BY <1>1, IInvHolds, PTL

\* The published phase never contradicts the failure count.
THEOREM StatusIsHonest == Spec => []StatusHonest
<1>1. IInv => StatusHonest
  BY DEF IInv
<1> QED BY <1>1, IInvHolds, PTL

\* The step form of LeaseNotStolen: who may change the owner of a live lease.
LEMMA OwnerStep ==
    ASSUME TypeOK, Next, NEW p \in Proc,
           lease.owner = p, lease.left > 0, lease'.owner # p
    PROVE  loop'[p] = "off"
<1>1. CASE Tick
  BY <1>1 DEF Tick, TypeOK
<1>2. ASSUME NEW q \in Proc, BeginPush(q) \/ CancelledPush(q) PROVE FALSE
  BY <1>2, OwnersAssumption
     DEF BeginPush, CancelledPush, LeaseFree, AcquireSyncLease, TypeOK
<1>3. ASSUME NEW q \in Proc, Exit(q) PROVE loop'[p] = "off"
  BY <1>3, OwnersAssumption DEF Exit, ReleaseSyncLease, Orphan, Vanish, TypeOK
<1>4. ASSUME NEW q \in Proc, Crash(q) PROVE loop'[p] = "off"
  BY <1>4 DEF Crash, Orphan, Vanish, TypeOK
<1> QED
  BY <1>1, <1>2, <1>3, <1>4
     DEF Next, Step, Start, TimerFires, ReachCeiling, MissLease, BeginPull, CycleFails,
         CycleSucceeds, CyclePanics, FinishMark, Cancel, StopForUpgrade,
         ResumeAfterUpgrade

\* A live lease leaves its owner only when the owner's own process goes away.
THEOREM LeaseSafe == Spec => LeaseNotStolen
<1>1. TypeOK /\ [Next]_vars =>
        [\A p \in Proc :
            lease.owner = p /\ lease.left > 0 /\ lease'.owner # p => loop'[p] = "off"]_vars
  BY OwnerStep DEF vars
<1> QED BY <1>1, TypeCorrect, PTL DEF Spec, LeaseNotStolen
===============================================================================

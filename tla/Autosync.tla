------------------------------- MODULE Autosync -------------------------------
(***************************************************************************)
(* The background synchronisation manager of internal/cloud/autosync: the  *)
(* Run loop of every `serve` process that shares one SQLite store, the     *)
(* cycle it runs (lease, push, pull), its failure accounting and back-off, *)
(* StopForUpgrade / ResumeAfterUpgrade, graceful shutdown and crashes, and *)
(* the lease the processes coordinate through (AcquireSyncLease and        *)
(* ReleaseSyncLease of internal/store).                                    *)
(*                                                                         *)
(* What a cycle sends and receives is abstracted to its outcome: every     *)
(* store or network call of push and pull succeeds, fails or panics (the   *)
(* data is the subject of SyncJournal, MutationLog and Replication).       *)
(*                                                                         *)
(* Time is kept as the time that REMAINS: to the expiry of the lease and   *)
(* to the end of each back-off.  Tick lets one unit pass for everyone, so  *)
(* no clock has to be bounded.  A unit is longer than a second, the grain  *)
(* lease_until is stored with.                                             *)
(***************************************************************************)
EXTENDS Integers

CONSTANTS
    Proc,           \* processes that open the same store with autosync on
    None,           \* lease_owner is NULL
    Gone,           \* an owner identity no live manager has: each New manager
                    \*   draws a fresh one, so a crash orphans the lease
    MaxFailures,    \* Config.MaxConsecutiveFailures
    LeaseInterval,  \* Config.LeaseInterval
    BaseBackoff,    \* Config.BaseBackoff
    MaxBackoff,     \* Config.MaxBackoff
    MaxDuration     \* the largest time.Duration: 2^63 - 1 nanoseconds

ASSUME OwnersAssumption == None \notin Proc /\ Gone \notin Proc /\ None # Gone
ASSUME LimitsAssumption ==
    /\ MaxFailures \in Nat \ {0}
    /\ LeaseInterval \in Nat \ {0}
    /\ BaseBackoff \in Nat \ {0}
    /\ MaxBackoff \in Nat
    /\ MaxDuration \in Nat
    /\ BaseBackoff <= MaxBackoff
    /\ MaxBackoff <= MaxDuration

VARIABLES
    loop,       \* where each process's Run goroutine is
    phase,      \* status.Phase
    failures,   \* status.ConsecutiveFailures
    backoff,    \* time left to status.BackoffUntil, 0 when nil or past
    disabled,   \* set by StopForUpgrade
    cancelled,  \* the Run context has been cancelled
    lease,      \* lease_owner and the time left to lease_until
    leased      \* history: what is left of the lease each process last took

vars == <<loop, phase, failures, backoff, disabled, cancelled, lease, leased>>

Phases == {"idle", "pushing", "pulling", "healthy",
           "push_failed", "pull_failed", "backoff", "disabled"}

\* off: no manager runs; select: waiting for work; ceiling: the cycle found the
\* failure ceiling; acquire: the cycle may start; pushing, pulling: inside it;
\* marking: its outcome is published and goes to the store; stuck: the goroutine waits
\* for the manager's mutex, which it holds itself.
Places == {"off", "select", "ceiling", "acquire", "pushing", "pulling", "marking", "stuck"}

Holds(p) == loop[p] \in {"pushing", "pulling"}

TypeOK ==
    /\ loop \in [Proc -> Places]
    /\ phase \in [Proc -> Phases]
    /\ failures \in [Proc -> 0..MaxFailures + 1]
    /\ backoff \in [Proc -> 0..MaxBackoff]
    /\ disabled \in [Proc -> BOOLEAN]
    /\ cancelled \in [Proc -> BOOLEAN]
    /\ lease \in [owner: Proc \cup {None, Gone}, left: 0..LeaseInterval]
    /\ leased \in [Proc -> 0..LeaseInterval]

Init ==
    /\ loop = [p \in Proc |-> "off"]
    /\ phase = [p \in Proc |-> "idle"]
    /\ failures = [p \in Proc |-> 0]
    /\ backoff = [p \in Proc |-> 0]
    /\ disabled = [p \in Proc |-> FALSE]
    /\ cancelled = [p \in Proc |-> FALSE]
    /\ lease = [owner |-> None, left |-> 0]
    /\ leased = [p \in Proc |-> 0]

-------------------------------------------------------------------------------
(* The lease of the store. *)

\* Mutants: the lease counts as expired one unit early; it never expires.
LeaseFreeNeverExpires(p) == lease.owner \in {None, p}
LeaseFreeEarly(p) == lease.left <= 1 \/ lease.owner \in {None, p}

\* AcquireSyncLease refuses only a lease of somebody else that has not expired.
LeaseFree(p) ==
    \/ lease.left = 0
    \/ lease.owner \in {None, p}

AcquireSyncLease(p) ==
    /\ lease' = [owner |-> p, left |-> LeaseInterval]
    /\ leased' = [leased EXCEPT ![p] = LeaseInterval]

\* Mutant: the UPDATE without its condition on lease_owner.
ReleaseAnyLease(p) == lease' = [owner |-> None, left |-> 0]

\* ReleaseSyncLease clears the row only for its owner (or when it has none).
ReleaseSyncLease(p) ==
    lease' = IF lease.owner \in {p, None} THEN [owner |-> None, left |-> 0] ELSE lease

-------------------------------------------------------------------------------
(* Failure accounting. *)

\* base * 2^(failures-1), at most MaxBackoff.
NominalBackoff(n) ==
    LET exponential == BaseBackoff * 2^(n - 1)
    IN  IF exponential > MaxBackoff THEN MaxBackoff ELSE exponential

\* computeBackoff: the nominal delay (also where a conversion out of range yields the
\* largest Duration) with up to 25% of jitter either way, never
\* above MaxBackoff, never below half of BaseBackoff.
BackoffChoices(n) ==
    {d \in (BaseBackoff \div 2)..MaxBackoff :
        /\ d >= NominalBackoff(n) - NominalBackoff(n) \div 4
        /\ d <= NominalBackoff(n) + (NominalBackoff(n) \div 2 - NominalBackoff(n) \div 4)}

CountFailure(p) ==
    /\ failures' = [failures EXCEPT ![p] = @ + 1]
    /\ \E d \in BackoffChoices(failures[p] + 1) : backoff' = [backoff EXCEPT ![p] = d]

\* A product too large for a Duration: where the conversion yields the smallest one,
\* rand.Int63n panics on its half; the count is raised by then and the mutex held, and
\* what recovers, in safeRun or on the way out of Run, locks it once more.
Jam(p) ==
    /\ BaseBackoff * 2^failures[p] > MaxDuration
    /\ failures' = [failures EXCEPT ![p] = @ + 1]
    /\ loop' = [loop EXCEPT ![p] = "stuck"]
    /\ UNCHANGED backoff

\* recordFailureWithReason: the phase to report is derived from the phase the
\* status shows now, which StopForUpgrade may have changed under the cycle.
RecordFailure(p) ==
    \/ /\ CountFailure(p)
       /\ phase' = [phase EXCEPT ![p] = IF @ = "pushing" THEN "push_failed" ELSE "pull_failed"]
       /\ loop' = [loop EXCEPT ![p] = "marking"]
    \/ Jam(p) /\ UNCHANGED phase

\* Mutant: recordSuccess leaves the failure count of earlier cycles alone.
RecordSuccessKeepsCount(p) ==
    /\ phase' = [phase EXCEPT ![p] = "healthy"]
    /\ backoff' = [backoff EXCEPT ![p] = 0]
    /\ loop' = [loop EXCEPT ![p] = "marking"]
    /\ UNCHANGED failures

RecordSuccess(p) ==
    /\ phase' = [phase EXCEPT ![p] = "healthy"]
    /\ failures' = [failures EXCEPT ![p] = 0]
    /\ backoff' = [backoff EXCEPT ![p] = 0]
    /\ loop' = [loop EXCEPT ![p] = "marking"]

SetPhase(p, ph) == phase' = [phase EXCEPT ![p] = ph]

-------------------------------------------------------------------------------
(* The Run loop. *)

\* A process starts: New, then go Run(ctx).
Start(p) ==
    /\ loop[p] = "off"
    /\ loop' = [loop EXCEPT ![p] = "select"]
    /\ UNCHANGED <<phase, failures, backoff, disabled, cancelled, lease, leased>>

\* The process is gone and its manager with it: the next Start is a New one.
Vanish(p) ==
    /\ loop' = [loop EXCEPT ![p] = "off"]
    /\ phase' = [phase EXCEPT ![p] = "idle"]
    /\ failures' = [failures EXCEPT ![p] = 0]
    /\ backoff' = [backoff EXCEPT ![p] = 0]
    /\ disabled' = [disabled EXCEPT ![p] = FALSE]
    /\ cancelled' = [cancelled EXCEPT ![p] = FALSE]
    /\ leased' = [leased EXCEPT ![p] = 0]

\* Mutants: the cycle forgets the failure ceiling, or the back-off.
CheckCycleNoCeiling(p) ==
    loop' = [loop EXCEPT ![p] =
        IF cancelled[p] \/ disabled[p] \/ backoff[p] > 0 THEN "select" ELSE "acquire"]
CheckCycleNoBackoff(p) ==
    loop' = [loop EXCEPT ![p] =
        IF cancelled[p] \/ disabled[p] THEN "select"
        ELSE IF failures[p] >= MaxFailures THEN "ceiling" ELSE "acquire"]

\* The checks a cycle makes on one snapshot of the status before it touches the
\* store; each failing check ends it.
CheckCycle(p) ==
    loop' = [loop EXCEPT ![p] =
        IF cancelled[p] \/ disabled[p] THEN "select"
        ELSE IF failures[p] >= MaxFailures THEN "ceiling"
        ELSE IF backoff[p] > 0 THEN "select" ELSE "acquire"]

\* The debounce timer, which NotifyDirty arms after any write in the process, or the
\* poll ticker: either may fire at any time, so signals in dirtyCh are not kept.
TimerFires(p) ==
    /\ loop[p] = "select"
    /\ CheckCycle(p)
    /\ UNCHANGED <<phase, failures, backoff, disabled, cancelled, lease, leased>>

\* The failure ceiling: the cycle only publishes PhaseBackoff.
ReachCeiling(p) ==
    /\ loop[p] = "ceiling"
    /\ SetPhase(p, "backoff")
    /\ loop' = [loop EXCEPT ![p] = "select"]
    /\ UNCHANGED <<failures, backoff, disabled, cancelled, lease, leased>>

\* Another worker has the lease, or the store call failed (a busy database):
\* the cycle ends silently.
MissLease(p) ==
    /\ loop[p] = "acquire"
    /\ loop' = [loop EXCEPT ![p] = "select"]
    /\ UNCHANGED <<phase, failures, backoff, disabled, cancelled, lease, leased>>

\* The lease is taken and push starts, without looking at disabled again.
BeginPush(p) ==
    /\ loop[p] = "acquire"
    /\ LeaseFree(p)
    /\ ~cancelled[p]
    /\ AcquireSyncLease(p)
    /\ SetPhase(p, "pushing")
    /\ loop' = [loop EXCEPT ![p] = "pushing"]
    /\ UNCHANGED <<failures, backoff, disabled, cancelled>>

\* The context was cancelled after the first check: push returns ctx.Err() before
\* it sets the phase, and the cycle records that as a failure.
CancelledPush(p) ==
    /\ loop[p] = "acquire"
    /\ LeaseFree(p)
    /\ cancelled[p]
    /\ AcquireSyncLease(p)
    /\ RecordFailure(p)
    /\ UNCHANGED <<disabled, cancelled>>

\* push returned nil and pull starts (it too looks at the context first).
BeginPull(p) ==
    /\ loop[p] = "pushing"
    /\ ~cancelled[p]
    /\ SetPhase(p, "pulling")
    /\ loop' = [loop EXCEPT ![p] = "pulling"]
    /\ UNCHANGED <<failures, backoff, disabled, cancelled, lease, leased>>

\* A store or transport call of push or pull returned an error, or the context
\* was found cancelled.
CycleFails(p) ==
    /\ Holds(p)
    /\ RecordFailure(p)
    /\ UNCHANGED <<disabled, cancelled, lease, leased>>

CycleSucceeds(p) ==
    /\ loop[p] = "pulling"
    /\ RecordSuccess(p)
    /\ UNCHANGED <<disabled, cancelled, lease, leased>>

\* safeRun recovers a panic of any call the cycle makes, the mark included: that
\* failure is counted a second time.
CyclePanics(p) ==
    /\ loop[p] \in {"acquire", "pushing", "pulling", "marking"}
    /\ SetPhase(p, "backoff")
    /\ \/ CountFailure(p) /\ loop' = [loop EXCEPT ![p] = "select"]
       \/ Jam(p)
    /\ UNCHANGED <<disabled, cancelled, lease, leased>>

\* MarkSyncFailure or MarkSyncHealthy has returned; its error is ignored.
FinishMark(p) ==
    /\ loop[p] = "marking"
    /\ loop' = [loop EXCEPT ![p] = "select"]
    /\ UNCHANGED <<phase, failures, backoff, disabled, cancelled, lease, leased>>

\* Mutant: a manager that is stopped for an upgrade waits for its end.
ExitWhenEnabled(p) ==
    /\ loop[p] = "select" /\ cancelled[p] /\ ~disabled[p]
    /\ ReleaseSyncLease(p)
    /\ Vanish(p)

\* The row stays with an owner that is no more.
Orphan(p) == lease' = IF lease.owner = p THEN [lease EXCEPT !.owner = Gone] ELSE lease

\* Run returns on a cancelled context; its deferred releaseLease runs last and ignores
\* an error, Stop returns and the process exits.
Exit(p) ==
    /\ loop[p] = "select"
    /\ cancelled[p]
    /\ ReleaseSyncLease(p) \/ Orphan(p)
    /\ Vanish(p)

-------------------------------------------------------------------------------
(* What other goroutines, and the world, do to a manager. *)

\* Stop, or the signal handler of serve, cancels the context.
Cancel(p) ==
    /\ loop[p] # "off"
    /\ ~cancelled[p]
    /\ cancelled' = [cancelled EXCEPT ![p] = TRUE]
    /\ UNCHANGED <<loop, phase, failures, backoff, disabled, lease, leased>>

\* StopForUpgrade: waits for nothing and keeps the lease.
StopForUpgrade(p) ==
    /\ loop[p] \notin {"off", "stuck"}
    /\ disabled' = [disabled EXCEPT ![p] = TRUE]
    /\ SetPhase(p, "disabled")
    /\ UNCHANGED <<loop, failures, backoff, cancelled, lease, leased>>

\* ResumeAfterUpgrade: back to idle with a signal for the loop; failures and back-off
\* are kept.
ResumeAfterUpgrade(p) ==
    /\ loop[p] \notin {"off", "stuck"}
    /\ disabled[p]
    /\ disabled' = [disabled EXCEPT ![p] = FALSE]
    /\ SetPhase(p, "idle")
    /\ UNCHANGED <<loop, failures, backoff, cancelled, lease, leased>>

\* The process dies: nothing deferred runs, the lease row stays behind.
Crash(p) ==
    /\ loop[p] # "off"
    /\ Orphan(p)
    /\ Vanish(p)

Remaining(n) == IF n > 0 THEN n - 1 ELSE 0

Tick ==
    /\ lease' = [lease EXCEPT !.left = Remaining(@)]
    /\ backoff' = [p \in Proc |-> Remaining(backoff[p])]
    /\ leased' = [p \in Proc |-> Remaining(leased[p])]
    /\ UNCHANGED <<loop, phase, failures, disabled, cancelled>>

Step(p) ==
    \/ Start(p) \/ TimerFires(p)
    \/ ReachCeiling(p) \/ MissLease(p) \/ BeginPush(p) \/ CancelledPush(p)
    \/ BeginPull(p) \/ CycleFails(p) \/ CycleSucceeds(p) \/ CyclePanics(p)
    \/ FinishMark(p) \/ Exit(p) \/ Cancel(p) \/ StopForUpgrade(p) \/ ResumeAfterUpgrade(p)
    \/ Crash(p)

Next == Tick \/ \E p \in Proc : Step(p)

Spec == Init /\ [][Next]_vars

(***************************************************************************)
(* Fairness: time passes; the poll ticker keeps firing; a cycle ends,      *)
(* because the HTTP client of the transport has a timeout; a cancelled     *)
(* loop sees Done; and a worker that finds the lease free again and again  *)
(* gets through AcquireSyncLease in the end: a busy database is transient. *)
(* Nothing makes a call succeed, and no other goroutine has to act.        *)
(***************************************************************************)
EndCycle(p) ==
    BeginPull(p) \/ CycleFails(p) \/ CycleSucceeds(p) \/ CyclePanics(p) \/ FinishMark(p)
LeaveAcquire(p) == MissLease(p) \/ BeginPush(p) \/ CancelledPush(p) \/ CyclePanics(p)
Advance(p) == TimerFires(p) \/ ReachCeiling(p) \/ LeaveAcquire(p) \/ EndCycle(p)

Fairness ==
    /\ WF_vars(Tick)
    /\ \A p \in Proc :
        /\ WF_vars(Advance(p)) /\ WF_vars(Exit(p))
        /\ SF_vars(BeginPush(p))

FairSpec == Spec /\ Fairness

-------------------------------------------------------------------------------
(* Safety. *)

\* At most one of the processes that share a store pushes or pulls under a lease
\* that has not lapsed: AcquireSyncLease and ReleaseSyncLease together keep two
\* workers apart, whatever crashes, shutdowns and upgrades happen, for as long
\* as a cycle stays within LeaseInterval (the cycle never renews its lease).
MutualExclusion ==
    \A p, q \in Proc :
        Holds(p) /\ Holds(q) /\ leased[p] > 0 /\ leased[q] > 0 => p = q

\* An unexpired lease changes hands only when its owner's own process goes away:
\* neither the shutdown of another process nor its acquisition takes it.
LeaseNotStolen ==
    [][\A p \in Proc :
          lease.owner = p /\ lease.left > 0 /\ lease'.owner # p => loop'[p] = "off"]_vars

\* A cycle that touches the store or the network runs only below the failure
\* ceiling and after the back-off of the last failure is over, although the
\* status can be rewritten by StopForUpgrade and ResumeAfterUpgrade meanwhile.
CycleAllowed ==
    \A p \in Proc :
        loop[p] \in {"acquire", "pushing", "pulling"} =>
            failures[p] < MaxFailures /\ backoff[p] = 0

\* The status a user sees is honest about failures: healthy means that the last
\* cycle completed with nothing failed since, and a failure phase is never shown
\* after a completed cycle (recordSuccess clears what recordFailure counted).
StatusHonest ==
    \A p \in Proc :
        /\ phase[p] = "healthy" => failures[p] = 0 /\ backoff[p] = 0
        /\ phase[p] \in {"push_failed", "pull_failed"} => failures[p] > 0

-------------------------------------------------------------------------------
(* Liveness. *)

TakeLease(p) == BeginPush(p) \/ CancelledPush(p)

Able(p) ==
    /\ loop[p] \notin {"off", "stuck"}
    /\ ~cancelled[p]
    /\ ~disabled[p]
    /\ failures[p] < MaxFailures

\* While some process stays able to synchronise, the lease is taken again and
\* again: one left by a crash, by a manager stopped for an upgrade or by a worker
\* at its failure ceiling never keeps the others out for good.
WorkGoesOn ==
    \A p \in Proc : <>[]Able(p) => []<><<\E q \in Proc : TakeLease(q)>>_vars

\* Stop (or a signal) ends the loop, wherever the cycle was and whatever panics, unless
\* the back-off no longer fits a Duration and the loop is stuck for good.
ShutdownCompletes ==
    \A p \in Proc : cancelled[p] ~> loop[p] \in {"off", "stuck"}
===============================================================================

---------------------------- MODULE ControlLease ----------------------------
(***************************************************************************)
(* The lease a maintenance job holds while it controls accounts: one row   *)
(* of account_control_lease, acquired and renewed by the same statements as*)
(* scheduler_lease and guardian_leases.  The job's operation runs beside a *)
(* heartbeat that renews the lease; when a renewal fails the operation is  *)
(* cancelled; at the end the lease is released.                            *)
(*                                                                         *)
(* Every job is an owner of its own.  Time is counted in ticks relative to *)
(* the present, so it needs no bound; the processes share one clock.       *)
(***************************************************************************)
EXTENDS Integers, FiniteSets

CONSTANTS
  Jobs,      \* bound: names of maintenance jobs; one that left no row is used again
  Nobody,    \* "no row"
  Seconds,   \* ticks of a lease; the heartbeat's interval is a third of it
  MaxFaults  \* bound: crashes and database errors

ASSUME JobsAssumption == Nobody \notin Jobs
ASSUME SecondsAssumption == Seconds \in Nat \ {0}
ASSUME FaultsAssumption == MaxFaults \in Nat

VARIABLES
  owner,      \* of the row, or Nobody
  left,       \* ticks until the row expires; -Seconds stands for long ago
  call,       \* an acquire in progress: its clock is read, its SELECT found no row
  stamp,      \* ticks until the expires_at that this acquire computed
  job,        \* where the maintenance job is
  heartbeat,  \* of the job; "lost" when a renewal failed
  granted,    \* history: ticks until the expires_at of the job's last grant
  raced,      \* history: an unexpired row was overwritten by an acquire that saw no row
  faults      \* crashes and database errors so far

row == <<owner, left>>
calls == <<call, stamp>>
vars == <<row, calls, job, heartbeat, granted, raced, faults>>

TypeOK ==
  /\ owner \in Jobs \cup {Nobody} /\ left \in (-Seconds)..Seconds
  /\ call \in [Jobs -> {"none", "begun", "norow"}] /\ stamp \in [Jobs -> 0..Seconds]
  /\ job \in [Jobs -> {"idle", "acquiring", "running", "closing"}]
  /\ heartbeat \in [Jobs -> {"off", "waiting", "lost"}]
  /\ granted \in [Jobs -> 0..Seconds]
  /\ raced \in BOOLEAN /\ faults \in 0..MaxFaults

Init ==
  /\ owner = Nobody /\ left = -Seconds
  /\ call = [o \in Jobs |-> "none"] /\ stamp = [o \in Jobs |-> 0]
  /\ job = [o \in Jobs |-> "idle"] /\ heartbeat = [o \in Jobs |-> "off"]
  /\ granted = [o \in Jobs |-> 0]
  /\ raced = FALSE /\ faults = 0

Fault == faults < MaxFaults /\ faults' = faults + 1
NoFault == UNCHANGED faults

-----------------------------------------------------------------------------
(* acquire_account_control_lease.  A row that the SELECT finds stays locked*)
(* until the commit; where it finds none, it locks nothing.                *)

\* Mutant: the lease is computed in another unit than the reader of the row expects.
LeaseInOtherUnit == 2 * Seconds

\* expires - now
Lease == Seconds

\* The clock is read before a connection and the row's lock are waited for.
Begin(o) ==
  /\ call' = [call EXCEPT ![o] = "begun"]
  /\ stamp' = [stamp EXCEPT ![o] = Lease]

WriteRow(o) ==
  /\ owner' = o /\ left' = stamp[o]
  /\ raced' = (raced \/ (owner \notin {o, Nobody} /\ left > 0))

\* The caller is told TRUE.
Grant(o) ==
  /\ WriteRow(o)
  /\ call' = [call EXCEPT ![o] = "none"]
  /\ granted' = [granted EXCEPT ![o] = stamp[o]]
  /\ IF job[o] = "acquiring"
     THEN /\ job' = [job EXCEPT ![o] = "running"]
          /\ heartbeat' = [heartbeat EXCEPT ![o] = "waiting"]
     ELSE UNCHANGED <<job, heartbeat>>
  /\ UNCHANGED <<stamp, faults>>

\* The job stops without releasing what it may hold: it was refused, its process died,
\* or the last renewal, awaited before the release, raised.
Leave(o) ==
  /\ job' = [job EXCEPT ![o] = "idle"]
  /\ heartbeat' = [heartbeat EXCEPT ![o] = "off"]
  /\ granted' = [granted EXCEPT ![o] = 0]

\* The caller is told FALSE, or the call raised.
NotGranted(o) ==
  /\ call' = [call EXCEPT ![o] = "none"]
  /\ IF job[o] = "running"
     THEN heartbeat' = [heartbeat EXCEPT ![o] = "lost"] /\ UNCHANGED <<job, granted>>
     ELSE Leave(o)
  /\ UNCHANGED stamp

\* Mutant: the owner is compared, the expiry is not.
HeldByOtherForever(o) == owner \notin {o, Nobody}

\* row["owner"] != owner and row["expires_at"] > now, for the now of Begin.
HeldByOther(o) == owner \notin {o, Nobody} /\ left > stamp[o] - Lease

Refuse(o) ==
  /\ call[o] = "begun" /\ HeldByOther(o)
  /\ NotGranted(o)
  /\ UNCHANGED <<row, raced, faults>>

FindsFreeRow(o) == call[o] = "begun" /\ owner # Nobody /\ ~HeldByOther(o)

Take(o) == FindsFreeRow(o) /\ Grant(o)

SeeNoRow(o) ==
  /\ call[o] = "begun" /\ owner = Nobody
  /\ call' = [call EXCEPT ![o] = "norow"]
  /\ UNCHANGED <<row, stamp, job, heartbeat, granted, raced, faults>>

\* INSERT ... ON CONFLICT DO UPDATE takes the row whoever has written it meanwhile.
Insert(o) == call[o] = "norow" /\ Grant(o)

\* The caller learns nothing: its transaction is rolled back, or commits all the same.
Unanswered(o) ==
  \/ UNCHANGED <<row, raced>>
  \/ (FindsFreeRow(o) \/ call[o] = "norow") /\ WriteRow(o)

\* The database fails.
FailCall(o) == call[o] # "none" /\ Fault /\ Unanswered(o) /\ NotGranted(o)

-----------------------------------------------------------------------------
(* The maintenance job.                                                    *)

StartJob(o) ==
  /\ job[o] = "idle" /\ call[o] = "none" /\ owner # o
  /\ job' = [job EXCEPT ![o] = "acquiring"]
  /\ Begin(o)
  /\ UNCHANGED <<row, heartbeat, granted, raced, faults>>

\* _control_lease_heartbeat
Renew(o) ==
  /\ job[o] = "running" /\ heartbeat[o] = "waiting" /\ call[o] = "none"
  /\ Begin(o)
  /\ UNCHANGED <<row, job, heartbeat, granted, raced, faults>>

\* The operation returns, raises, or is cancelled because the heartbeat ended.
EndOperation(o) ==
  /\ job[o] = "running"
  /\ job' = [job EXCEPT ![o] = "closing"]
  /\ UNCHANGED <<row, calls, heartbeat, granted, raced, faults>>

\* Mutant: release_account_control_lease does not compare the owner.
ReleaseAnyRow(o) ==
  /\ job[o] = "closing" /\ call[o] = "none"
  /\ owner' = Nobody /\ left' = -Seconds
  /\ Leave(o)
  /\ UNCHANGED <<calls, raced, faults>>

\* Mutant: the heartbeat is not awaited before the release.
ReleaseAtOnce(o) ==
  /\ job[o] = "closing"
  /\ IF owner = o THEN owner' = Nobody /\ left' = -Seconds ELSE UNCHANGED row
  /\ Leave(o)
  /\ UNCHANGED <<calls, raced, faults>>

\* The heartbeat is awaited, then the row of this owner is deleted, unless that fails.
Release(o) ==
  /\ job[o] = "closing" /\ call[o] = "none"
  /\ \/ NoFault /\ IF owner = o THEN owner' = Nobody /\ left' = -Seconds ELSE UNCHANGED row
     \/ Fault /\ UNCHANGED row
  /\ Leave(o)
  /\ UNCHANGED <<calls, raced>>

\* The process dies, perhaps with an acquire in progress.
Crash(o) ==
  /\ job[o] # "idle" /\ Fault
  /\ Unanswered(o) /\ Leave(o)
  /\ call' = [call EXCEPT ![o] = "none"]
  /\ UNCHANGED stamp

Down(n, floor) == IF n > floor THEN n - 1 ELSE floor

Tick ==
  /\ left' = Down(left, -Seconds)
  /\ stamp' = [o \in Jobs |-> Down(stamp[o], 0)]
  /\ granted' = [o \in Jobs |-> Down(granted[o], 0)]
  /\ UNCHANGED <<owner, call, job, heartbeat, raced, faults>>

Progress(o) ==
  Refuse(o) \/ Take(o) \/ SeeNoRow(o) \/ Insert(o) \/ EndOperation(o) \/ Release(o)

Next ==
  \/ Tick
  \/ \E o \in Jobs : Progress(o) \/ FailCall(o) \/ StartJob(o) \/ Renew(o) \/ Crash(o)

Spec == Init /\ [][Next]_vars

\* Time passes, jobs are queued again and again, and the event loop runs them.
FairSpec ==
  Spec /\ WF_vars(Tick) /\ \A o \in Jobs : WF_vars(Progress(o)) /\ WF_vars(StartJob(o))

-----------------------------------------------------------------------------
(* Properties.                                                             *)

Holders == {o \in Jobs : job[o] \in {"running", "closing"} /\ granted[o] > 0}

\* A job within the time it was granted still has the row, and the row lasts at least as
\* long, through stale clocks, releases by former owners and lost answers; the one
\* exception is the race of two acquires over an absent row.
HolderHasRow == ~raced => \A o \in Holders : owner = o /\ left >= granted[o]

\* A job that is over has given its lease up, unless a crash or an error of the database
\* kept it from doing so.
LeaseGivenUp == faults = 0 /\ owner # Nobody => job[owner] # "idle"

\* However jobs end, account control is never blocked for good: a lease left behind
\* expires.
ControlGoesOn == []<>(\E o \in Jobs : job[o] = "running")
=============================================================================

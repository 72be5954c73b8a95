------------------------ MODULE ControlLease_proofs ------------------------
(***************************************************************************)
(* Proofs about ControlLease, for every set of jobs and every lease time:  *)
(* type correctness, that a holder has the row, and that jobs give it up.  *)
(***************************************************************************)
EXTENDS ControlLease, TLAPS

\* An acquire is the job's own, and only a job that was granted the lease counts it down.
Positions ==
  \A o \in Jobs :
    /\ call[o] # "none" => job[o] # "idle"
    /\ granted[o] > 0 => job[o] \in {"running", "closing"}

\* A renewal extends what it renews, however long it waited.
Extends == \A o \in Jobs : call[o] # "none" => stamp[o] >= granted[o]

\* Without a fault the row belongs to a job that will release it.
Releasable == faults = 0 /\ owner # Nobody => job[owner] \in {"running", "closing"}

IInv == TypeOK /\ Positions /\ Extends /\ HolderHasRow /\ Releasable

-----------------------------------------------------------------------------
(* Type correctness.                                                       *)

LEMMA InitTypes == Init => TypeOK
<1> SUFFICES ASSUME Init PROVE TypeOK
  OBVIOUS
<1>1. 0 \in 0..Seconds /\ -Seconds \in (-Seconds)..Seconds /\ 0 \in 0..MaxFaults
  BY SecondsAssumption, FaultsAssumption
<1> QED BY <1>1 DEF Init, TypeOK

LEMMA WriteTypes ==
  ASSUME TypeOK, NEW o \in Jobs, WriteRow(o)
  PROVE  owner' \in Jobs \cup {Nobody} /\ left' \in (-Seconds)..Seconds /\ raced' \in BOOLEAN
<1>1. stamp[o] \in 0..Seconds
  BY DEF TypeOK
<1>2. left' \in (-Seconds)..Seconds
  BY <1>1, SecondsAssumption DEF WriteRow
<1>3. raced' \in BOOLEAN
  BY ZenonT(20) DEF WriteRow, TypeOK
<1> QED BY <1>2, <1>3 DEF WriteRow

LEMMA UnansweredTypes ==
  ASSUME TypeOK, NEW o \in Jobs, Unanswered(o)
  PROVE  owner' \in Jobs \cup {Nobody} /\ left' \in (-Seconds)..Seconds /\ raced' \in BOOLEAN
<1>1. CASE UNCHANGED <<row, raced>>
  BY <1>1 DEF TypeOK, row
<1>2. CASE WriteRow(o)
  BY <1>2, WriteTypes
<1> QED BY <1>1, <1>2 DEF Unanswered

LEMMA GrantTypes ==
  ASSUME TypeOK, NEW o \in Jobs, Grant(o)
  PROVE  TypeOK'
<1>1. owner' \in Jobs \cup {Nobody} /\ left' \in (-Seconds)..Seconds /\ raced' \in BOOLEAN
  BY WriteTypes DEF Grant
<1> QED BY <1>1 DEF Grant, TypeOK

LEMMA NotGrantedTypes ==
  ASSUME TypeOK, NEW o \in Jobs, NotGranted(o)
  PROVE  /\ call' \in [Jobs -> {"none", "begun", "norow"}] /\ stamp' \in [Jobs -> 0..Seconds]
         /\ job' \in [Jobs -> {"idle", "acquiring", "running", "closing"}]
         /\ heartbeat' \in [Jobs -> {"off", "waiting", "lost"}]
         /\ granted' \in [Jobs -> 0..Seconds]
BY SecondsAssumption DEF NotGranted, Leave, TypeOK

LEMMA DownTypes ==
  /\ \A n \in (-Seconds)..Seconds : Down(n, -Seconds) \in (-Seconds)..Seconds
  /\ \A n \in 0..Seconds : Down(n, 0) \in 0..Seconds
BY SecondsAssumption DEF Down

LEMMA StepTypes == TypeOK /\ [Next]_vars => TypeOK'
<1> SUFFICES ASSUME TypeOK, [Next]_vars PROVE TypeOK'
  OBVIOUS
<1>1. CASE Tick
  BY <1>1, DownTypes DEF Tick, TypeOK
<1>2. ASSUME NEW o \in Jobs, Take(o) \/ Insert(o) PROVE TypeOK'
  BY <1>2, GrantTypes DEF Take, Insert
<1>3. ASSUME NEW o \in Jobs, Refuse(o) PROVE TypeOK'
  BY <1>3, NotGrantedTypes DEF Refuse, TypeOK, row
<1>4. ASSUME NEW o \in Jobs, SeeNoRow(o) PROVE TypeOK'
  BY <1>4 DEF SeeNoRow, TypeOK, row
<1>5. ASSUME NEW o \in Jobs, FailCall(o) PROVE TypeOK'
  <2>1. owner' \in Jobs \cup {Nobody} /\ left' \in (-Seconds)..Seconds /\ raced' \in BOOLEAN
    BY <1>5, UnansweredTypes DEF FailCall
  <2>2. faults' \in 0..MaxFaults
    BY <1>5, FaultsAssumption DEF FailCall, Fault, TypeOK
  <2> QED BY <1>5, <2>1, <2>2, NotGrantedTypes DEF FailCall, TypeOK
<1>6. ASSUME NEW o \in Jobs, StartJob(o) \/ Renew(o) PROVE TypeOK'
  BY <1>6, SecondsAssumption DEF StartJob, Renew, Begin, Lease, TypeOK, row
<1>7. ASSUME NEW o \in Jobs, EndOperation(o) PROVE TypeOK'
  BY <1>7 DEF EndOperation, TypeOK, row, calls
<1>8. ASSUME NEW o \in Jobs, Release(o) PROVE TypeOK'
  <2>1. owner' \in Jobs \cup {Nobody} /\ left' \in (-Seconds)..Seconds
    BY <1>8, SecondsAssumption DEF Release, TypeOK, row
  <2>2. faults' \in 0..MaxFaults
    BY <1>8, FaultsAssumption DEF Release, Fault, NoFault, TypeOK
  <2> QED BY <1>8, <2>1, <2>2, SecondsAssumption DEF Release, Leave, TypeOK, calls
<1>9. ASSUME NEW o \in Jobs, Crash(o) PROVE TypeOK'
  <2>1. owner' \in Jobs \cup {Nobody} /\ left' \in (-Seconds)..Seconds /\ raced' \in BOOLEAN
    BY <1>9, UnansweredTypes DEF Crash
  <2>2. faults' \in 0..MaxFaults
    BY <1>9, FaultsAssumption DEF Crash, Fault, TypeOK
  <2> QED BY <1>9, <2>1, <2>2, SecondsAssumption DEF Crash, Leave, TypeOK
<1>10. CASE UNCHANGED vars
  BY <1>10 DEF vars, row, calls, TypeOK
<1> QED BY <1>1, <1>2, <1>3, <1>4, <1>5, <1>6, <1>7, <1>8, <1>9, <1>10 DEF Next, Progress

-----------------------------------------------------------------------------
(* Where a job is, what it was granted, and what its renewal will write.   *)

LEMMA PositionsStep == TypeOK /\ Positions /\ [Next]_vars => Positions'
<1> SUFFICES ASSUME TypeOK, Positions, [Next]_vars PROVE Positions'
  OBVIOUS
<1>1. CASE Tick
  <2> SUFFICES ASSUME NEW o \in Jobs, granted'[o] > 0 PROVE granted[o] > 0
    BY <1>1 DEF Tick, Positions
  <2> QED BY <1>1 DEF Tick, Down, TypeOK
<1>2. ASSUME NEW o \in Jobs, Take(o) \/ Insert(o) PROVE Positions'
  BY <1>2 DEF Take, FindsFreeRow, Insert, Grant, Positions, TypeOK
<1>3. ASSUME NEW o \in Jobs, NotGranted(o) PROVE Positions'
  BY <1>3 DEF NotGranted, Leave, Positions, TypeOK
<1>4. ASSUME NEW o \in Jobs, SeeNoRow(o) \/ StartJob(o) \/ Renew(o) \/ EndOperation(o)
      PROVE  Positions'
  BY <1>4 DEF SeeNoRow, StartJob, Renew, EndOperation, Begin, Positions, TypeOK, calls
<1>5. ASSUME NEW o \in Jobs, Release(o) \/ Crash(o) PROVE Positions'
  BY <1>5 DEF Release, Crash, Leave, Positions, TypeOK, calls
<1>6. CASE UNCHANGED vars
  BY <1>6 DEF vars, calls, Positions
<1> QED BY <1>1, <1>2, <1>3, <1>4, <1>5, <1>6 DEF Next, Progress, Refuse, FailCall

LEMMA ExtendsStep == TypeOK /\ Extends /\ [Next]_vars => Extends'
<1> SUFFICES ASSUME TypeOK, Extends, [Next]_vars PROVE Extends'
  OBVIOUS
<1>1. CASE Tick
  BY <1>1 DEF Tick, Down, Extends, TypeOK
<1>2. ASSUME NEW o \in Jobs, Take(o) \/ Insert(o) \/ NotGranted(o) PROVE Extends'
  BY <1>2 DEF Take, Insert, Grant, NotGranted, Leave, Extends, TypeOK
<1>3. ASSUME NEW o \in Jobs, SeeNoRow(o) \/ EndOperation(o) PROVE Extends'
  BY <1>3 DEF SeeNoRow, EndOperation, Extends, TypeOK, calls
<1>4. ASSUME NEW o \in Jobs, StartJob(o) \/ Renew(o) PROVE Extends'
  BY <1>4 DEF StartJob, Renew, Begin, Lease, Extends, TypeOK
<1>5. ASSUME NEW o \in Jobs, Release(o) \/ Crash(o) PROVE Extends'
  BY <1>5 DEF Release, Crash, Leave, Extends, TypeOK, calls
<1>6. CASE UNCHANGED vars
  BY <1>6 DEF vars, calls, Extends
<1> QED BY <1>1, <1>2, <1>3, <1>4, <1>5, <1>6 DEF Next, Progress, Refuse, FailCall

-----------------------------------------------------------------------------
(* A holder has the row.                                                   *)

\* Writing the row takes it from nobody who holds it, unless the race is recorded.
LEMMA WriteKeepsHolders ==
  ASSUME IInv, NEW o \in Jobs, WriteRow(o), ~raced',
         NEW p \in Jobs, p # o
  PROVE  p \notin Holders
<1>1. ~raced /\ (owner \in {o, Nobody} \/ ~(left > 0))
  BY DEF WriteRow, IInv, TypeOK
<1>2. ASSUME p \in Holders PROVE FALSE
  <2>1. owner = p /\ left >= granted[p] /\ granted[p] > 0
    BY <1>1, <1>2 DEF IInv, HolderHasRow, Holders
  <2>2. owner \notin {o, Nobody} /\ left > 0
    BY <2>1, JobsAssumption DEF IInv, TypeOK
  <2> QED BY <1>1, <2>2
<1> QED BY <1>2

LEMMA HolderStep == IInv /\ [Next]_vars => HolderHasRow'
<1> SUFFICES ASSUME IInv, [Next]_vars, ~raced', NEW p \in Jobs, p \in Holders'
             PROVE  (owner = p /\ left >= granted[p])'
  BY DEF HolderHasRow, Holders
<1> USE DEF IInv
<1>1. ASSUME p \in Holders, ~raced
      PROVE  owner = p /\ left >= granted[p] /\ granted[p] > 0
  BY <1>1 DEF HolderHasRow, Holders
<1>2. CASE Tick
  <2>1. p \in Holders /\ ~raced
    BY <1>2 DEF Tick, Holders, Down, TypeOK
  <2> QED BY <1>1, <1>2, <2>1, SecondsAssumption DEF Tick, Down, TypeOK
<1>3. ASSUME NEW o \in Jobs, Grant(o) PROVE (owner = p /\ left >= granted[p])'
  <2>1. CASE o = p
    BY <1>3, <2>1 DEF Grant, WriteRow, TypeOK
  <2>2. CASE o # p
    <3>1. p \in Holders
      BY <1>3, <2>2 DEF Grant, Holders, TypeOK
    <3> QED BY <1>3, <2>2, <3>1, WriteKeepsHolders DEF Grant
  <2> QED BY <2>1, <2>2
<1>4. ASSUME NEW o \in Jobs, Refuse(o) PROVE (owner = p /\ left >= granted[p])'
  <2>1. p \in Holders /\ ~raced /\ granted'[p] = granted[p]
    BY <1>4 DEF Refuse, NotGranted, Leave, Holders, TypeOK
  <2> QED BY <1>1, <1>4, <2>1 DEF Refuse, row
<1>5. ASSUME NEW o \in Jobs, FailCall(o) PROVE (owner = p /\ left >= granted[p])'
  <2>1. p \in Holders /\ granted'[p] = granted[p]
    BY <1>5 DEF FailCall, NotGranted, Leave, Holders, TypeOK
  <2>2. CASE UNCHANGED <<row, raced>>
    BY <1>1, <2>1, <2>2 DEF row
  <2>3. CASE WriteRow(o) /\ call[o] # "none"
    <3>1. o = p
      BY <2>1, <2>3, WriteKeepsHolders
    <3> QED BY <2>1, <2>3, <3>1 DEF WriteRow, Extends, TypeOK
  <2> QED BY <1>5, <2>2, <2>3 DEF FailCall, Unanswered
<1>6. ASSUME NEW o \in Jobs, SeeNoRow(o) \/ StartJob(o) \/ Renew(o) \/ EndOperation(o)
      PROVE  (owner = p /\ left >= granted[p])'
  <2>1. p \in Holders /\ ~raced /\ UNCHANGED <<row, granted>>
    BY <1>6 DEF SeeNoRow, StartJob, Renew, EndOperation, Holders, Positions, TypeOK
  <2> QED BY <1>1, <2>1 DEF row
<1>7. ASSUME NEW o \in Jobs, Release(o) PROVE (owner = p /\ left >= granted[p])'
  <2>1. p \in Holders /\ ~raced /\ o # p /\ granted'[p] = granted[p]
    BY <1>7 DEF Release, Leave, Holders, TypeOK
  <2>2. owner = p
    BY <1>1, <2>1
  <2> QED BY <1>1, <1>7, <2>1, <2>2 DEF Release, row
<1>8. ASSUME NEW o \in Jobs, Crash(o) PROVE (owner = p /\ left >= granted[p])'
  <2>1. p \in Holders /\ o # p /\ granted'[p] = granted[p]
    BY <1>8 DEF Crash, Leave, Holders, TypeOK
  <2>2. UNCHANGED <<row, raced>>
    BY <1>8, <2>1, WriteKeepsHolders DEF Crash, Unanswered
  <2> QED BY <1>1, <2>1, <2>2 DEF row
<1>9. CASE UNCHANGED vars
  BY <1>1, <1>9 DEF vars, row, Holders
<1> QED BY <1>2, <1>3, <1>4, <1>5, <1>6, <1>7, <1>8, <1>9 DEF Next, Progress, Take, Insert

-----------------------------------------------------------------------------
(* Jobs give the lease up.                                                 *)

LEMMA ReleasableStep == IInv /\ [Next]_vars => Releasable'
<1> SUFFICES ASSUME IInv, [Next]_vars, faults' = 0, owner' # Nobody
             PROVE  job'[owner'] \in {"running", "closing"}
  BY DEF Releasable
<1> USE DEF IInv
<1>1. CASE Tick
  BY <1>1 DEF Tick, Releasable
<1>2. ASSUME NEW o \in Jobs, Take(o) \/ Insert(o) PROVE job'[owner'] \in {"running", "closing"}
  <2>1. call[o] # "none" /\ owner' = o
    BY <1>2 DEF Take, FindsFreeRow, Insert, Grant, WriteRow
  <2>2. job[o] \in {"acquiring", "running", "closing"}
    BY <2>1 DEF Positions, TypeOK
  <2> QED BY <1>2, <2>1, <2>2 DEF Take, Insert, Grant, TypeOK
<1>3. ASSUME NEW o \in Jobs, Refuse(o) PROVE job'[owner'] \in {"running", "closing"}
  <2>1. owner' = owner /\ owner # o /\ faults = 0
    BY <1>3 DEF Refuse, HeldByOther, row
  <2>2. owner \in Jobs /\ job[owner] \in {"running", "closing"}
    BY <2>1 DEF Releasable, TypeOK
  <2> QED BY <1>3, <2>1, <2>2 DEF Refuse, NotGranted, Leave, TypeOK
<1>4. ASSUME NEW o \in Jobs, FailCall(o) \/ Crash(o) PROVE FALSE
  BY <1>4 DEF FailCall, Crash, Fault, TypeOK
<1>5. ASSUME NEW o \in Jobs, SeeNoRow(o) \/ StartJob(o) \/ Renew(o) \/ EndOperation(o)
      PROVE  job'[owner'] \in {"running", "closing"}
  <2>1. owner' = owner /\ faults = 0
    BY <1>5 DEF SeeNoRow, StartJob, Renew, EndOperation, row
  <2>2. owner \in Jobs /\ job[owner] \in {"running", "closing"}
    BY <2>1 DEF Releasable, TypeOK
  <2> QED BY <1>5, <2>1, <2>2 DEF SeeNoRow, StartJob, Renew, EndOperation, TypeOK
<1>6. ASSUME NEW o \in Jobs, Release(o) PROVE job'[owner'] \in {"running", "closing"}
  <2>1. faults = 0 /\ owner' = owner /\ owner # o
    BY <1>6 DEF Release, Fault, NoFault, TypeOK, row
  <2>2. owner \in Jobs /\ job[owner] \in {"running", "closing"}
    BY <2>1 DEF Releasable, TypeOK
  <2> QED BY <1>6, <2>1, <2>2 DEF Release, Leave, TypeOK
<1>7. CASE UNCHANGED vars
  BY <1>7 DEF vars, row, Releasable
<1> QED BY <1>1, <1>2, <1>3, <1>4, <1>5, <1>6, <1>7 DEF Next, Progress

-----------------------------------------------------------------------------
(* The theorems.                                                           *)

\* The inductive invariant holds in every reachable state.
THEOREM InvariantHolds == Spec => []IInv
<1>1. Init => IInv
  BY InitTypes DEF Init, IInv, Positions, Extends, HolderHasRow, Holders, Releasable
<1>2. IInv /\ [Next]_vars => IInv'
  BY StepTypes, PositionsStep, ExtendsStep, HolderStep, ReleasableStep DEF IInv
<1> QED BY <1>1, <1>2, PTL DEF Spec

\* The variables have their types for every set of jobs and lease time.
THEOREM TypeCorrect == Spec => []TypeOK
<1>1. IInv => TypeOK
  BY DEF IInv
<1> QED BY <1>1, InvariantHolds, PTL

\* Stale clocks, lost answers and former owners never take the row from a job that is
\* within the time it was granted; only two acquires that both saw no row can.
THEOREM HolderCorrect == Spec => []HolderHasRow
<1>1. IInv => HolderHasRow
  BY DEF IInv
<1> QED BY <1>1, InvariantHolds, PTL

\* Without a crash or a database error, a job that is over has left no row.
THEOREM LeaseGivenUpCorrect == Spec => []LeaseGivenUp
<1>1. IInv => LeaseGivenUp
  BY DEF IInv, Releasable, LeaseGivenUp
<1> QED BY <1>1, InvariantHolds, PTL
=============================================================================

---------------------- MODULE AccountQuarantine_proofs ----------------------
(***************************************************************************)
(* The inductive invariant of AccountQuarantine and its proof.  It is made *)
(* of four parts: where the job's account and its lists stand with respect *)
(* to the registry (Positions), what the registry tables have in common    *)
(* (RegistryConsistent), who may own an account the registry is about to   *)
(* forget (Ownership), and the slow accounts' passing tests (Streaks).     *)
(***************************************************************************)
EXTENDS AccountQuarantine, FiniteSetTheorems, TLAPS

IntentSteps == Disabling \cup {"dok", "clear"}
RestoreSteps == Restoring \cup {"complete", "cancel"}
ProbeSteps == {"ptest", "pass", "miss", "rbegin"}

\* What one read of an eligible account may have returned.
WasEligible(state) == state[1] # "inactive" /\ state # <<"active", FALSE>>

\* The registry may forget the account.
Forgettable(a) == owner[a] # "service" \/ a \in tainted

\* Each phase has its steps, and between two accounts it works for none.
PhaseSteps ==
  /\ mode = "none" => /\ pc \in {"idle", "intents", "restores", "select", "sweep", "probes"}
                      /\ cur = NoAccount
  /\ mode = "reconcile" => pc \in IntentSteps \cup RestoreSteps \cup {"rtest"}
  /\ mode = "sweep" => pc \in Disabling \cup {"dok", "dfailed"}
  /\ mode = "probe" => pc \in RestoreSteps \cup ProbeSteps

\* The row a step works on is there.
RowPresent ==
  /\ pc \in IntentSteps \cup {"dfailed"} => cur \in intents
  /\ pc \in RestoreSteps \cup {"rtest"} /\ pc # "cancel" => cur \in markers \cap restores
  /\ mode = "probe" => cur \in markers

InIntents == pc = "intents" \/ (mode = "reconcile" /\ pc \in IntentSteps)
InRestores == pc = "restores" \/ (mode = "reconcile" /\ pc \in RestoreSteps \cup {"rtest"})
InSweep == pc = "sweep" \/ mode = "sweep"
InProbes == pc = "probes" \/ mode = "probe"

\* The accounts a phase has still to visit are where the phase expects them.
ListsPresent ==
  /\ cur \notin todo
  /\ InIntents => todo \subseteq intents
  /\ InRestores => todo \subseteq restores
  /\ InSweep => /\ todo \cap Registered = {}
                /\ chosen \subseteq markers
                /\ \A a \in todo : WasEligible(fresh[a])
  /\ InProbes => todo \subseteq markers
  /\ adjusted \subseteq markers /\ (InSweep \/ adjusted = {})

Positions == PhaseSteps /\ RowPresent /\ ListsPresent

Ownership ==
  /\ \A a \in Accounts : owner[a] = "service" => ~Dispatched(a)
  /\ \A a \in intents : Forgettable(a) \/ status[a] = "inactive" \/ HumanPause(a)
  /\ \A a \in intents : WasEligible(previous[a])
  /\ pc \in {"clear", "dfailed", "complete"} => Forgettable(cur)

Streaks ==
  /\ \A a \in Accounts : streak[a] <= passes[a]
  /\ pc = "pass" => cur \in slow /\ streak[cur] = 0 /\ passes[cur] > 0
  /\ TwoPassesBeforeRestore

IInv ==
  /\ TypeOK /\ Positions /\ RegistryConsistent
  /\ Ownership /\ NoOrphan /\ Streaks /\ RegistryErrorsUnreachable

-----------------------------------------------------------------------------
(* Types.  The moves of the job's control keep its variables typed, and so  *)
(* does every upstream write, whatever account it is for.                   *)

LEMMA NoStateType == NoState \in Statuses \X BOOLEAN
PROOF BY DEF NoState, Statuses

LEMMA UnreadType == Unread \in [Accounts -> Statuses \X BOOLEAN]
PROOF BY DEF Unread, NoState, Statuses

LEMMA GotoTypes == ASSUME JobOK, NEW step \in Steps, Goto(step) PROVE JobOK'
PROOF BY DEF JobOK, Goto

LEMMA LeaveTypes == ASSUME JobOK, NEW step \in Steps, Leave(step) PROVE JobOK'
PROOF BY DEF JobOK, Leave

LEMMA SkipTypes == ASSUME JobOK, NEW a \in Accounts, Skip(a) PROVE JobOK'
PROOF BY DEF JobOK, Skip

LEMMA WorkTypes ==
  ASSUME JobOK, NEW step \in Steps, NEW phase \in {"reconcile", "sweep", "probe"},
         NEW a \in Accounts, Work(step, phase, a)
  PROVE  JobOK'
PROOF BY DEF JobOK, Work

LEMMA EndTypes ==
  ASSUME JobOK, NEW code \in {"none", "aborted", "capacity", "inconsistent"}, End(code)
  PROVE  JobOK'
PROOF BY UnreadType DEF JobOK, End, Steps

LEMMA ApplyTypes ==
  ASSUME UpstreamOK, NEW w, NEW a, Apply(w, a)
  PROVE  /\ status' \in [Accounts -> Statuses]
         /\ sched' \in [Accounts -> BOOLEAN]
         /\ owner' \in [Accounts -> Owners]
PROOF
  <1> USE DEF UpstreamOK, SetStatus, SetSched, Statuses, Owners
  <1>1. CASE PutInactive(a)
    BY <1>1 DEF PutInactive
  <1>2. CASE PostFalse(a)
    BY <1>2 DEF PostFalse
  <1>3. CASE PutActive(a)
    BY <1>3 DEF PutActive
  <1>4. CASE PostTrue(a)
    BY <1>4 DEF PostTrue
  <1>5. CASE Recover(a)
    BY <1>5 DEF Recover
  <1>6. QED
    BY <1>1, <1>2, <1>3, <1>4, <1>5 DEF Apply

LEMMA LoseWriteTypes ==
  ASSUME UpstreamOK, NEW w \in Writes, NEW a, LoseWrite(w, a)
  PROVE  UpstreamOK'
PROOF BY DEF UpstreamOK, LoseWrite, upstream

LEMMA WriteTypes ==
  ASSUME TypeOK, NEW w \in Writes, NEW step, NEW next \in Steps,
         NEW readback \in Steps, Write(w, step, next, readback)
  PROVE  TypeOK'
PROOF
  <1>1. UpstreamOK'
    BY ApplyTypes, LoseWriteTypes DEF Write, TypeOK, UpstreamOK
  <1>2. JobOK'
    BY GotoTypes DEF Write, TypeOK
  <1>3. RegistryOK'
    BY DEF Write, TypeOK, registry, RegistryOK
  <1>4. QED
    BY <1>1, <1>2, <1>3 DEF TypeOK

LEMMA TypeStep == ASSUME TypeOK, [Next]_vars PROVE TypeOK'
PROOF
  <1> USE DEF TypeOK, Steps, Disabling, Restoring, Commits
  <1>a. UNCHANGED upstream => UpstreamOK'
    BY DEF UpstreamOK, upstream
  <1>b. UNCHANGED registry => RegistryOK'
    BY DEF RegistryOK, registry
  <1>c. UNCHANGED job => JobOK'
    BY DEF JobOK, job
  <1>1. ASSUME NEW a \in Accounts, KeepIntent(a) PROVE TypeOK'
    BY <1>1, <1>a, <1>b, <1>c, SkipTypes DEF KeepIntent
  <1>2. ASSUME NEW a \in Accounts, ReconcileIntent(a) PROVE TypeOK'
    BY <1>2, <1>a, <1>b, <1>c, SkipTypes, WorkTypes DEF ReconcileIntent
  <1>3. ASSUME NEW a \in Accounts, KeepRestore(a) PROVE TypeOK'
    BY <1>3, <1>a, <1>b, <1>c, SkipTypes DEF KeepRestore
  <1>4. ASSUME NEW a \in Accounts, ReconcileRestore(a) PROVE TypeOK'
    BY <1>4, <1>a, <1>b, <1>c, WorkTypes DEF ReconcileRestore
  <1>5. ASSUME NEW a \in Accounts, SkipCandidate(a) PROVE TypeOK'
    BY <1>5, <1>a, <1>b, <1>c, SkipTypes DEF SkipCandidate
  <1>6. ASSUME NEW a \in Accounts, ProbeInvalid(a) PROVE TypeOK'
    BY <1>6, <1>a, <1>b, <1>c, WorkTypes DEF ProbeInvalid
  <1>7. ASSUME NEW a \in Accounts, ProbeStart(a) PROVE TypeOK'
    BY <1>7, <1>a, <1>b, <1>c, WorkTypes DEF ProbeStart
  <1>8. ASSUME NEW a \in Accounts, NEW isSlow \in BOOLEAN, RecordIntent(a, isSlow) PROVE TypeOK'
    <2>1. RegistryOK'
      BY <1>8, <1>b DEF RecordIntent, RegistryOK, JobOK
    <2>2. UpstreamOK'
      BY <1>8, <1>a DEF RecordIntent
    <2>3. JobOK'
      BY <1>8, WorkTypes, EndTypes DEF RecordIntent
    <2>4. QED
      BY <2>1, <2>2, <2>3
  <1>9. CASE DisablePut
    BY <1>9, <1>a, <1>b, <1>c, WriteTypes DEF DisablePut, Writes
  <1>10. CASE DisablePost
    BY <1>10, <1>a, <1>b, <1>c, WriteTypes DEF DisablePost, Writes
  <1>11. CASE DisableVerify
    BY <1>11, <1>a, <1>b, <1>c, GotoTypes DEF DisableVerify, DisableSucceeded
  <1>12. CASE DisableReadback
    BY <1>12, <1>a, <1>b, <1>c, GotoTypes, LeaveTypes DEF DisableReadback, DisableSucceeded,
       DisableFailed, DisableUncertain, JobOK
  <1>13. CASE Promote
    <2>1. RegistryOK'
      BY <1>13, <1>b, NoStateType DEF Promote, RegistryOK
    <2>2. UpstreamOK'
      BY <1>13, <1>a DEF Promote
    <2>3. JobOK'
      BY <1>13, EndTypes, LeaveTypes DEF Promote, JobOK, RegistryOK
    <2>4. QED
      BY <2>1, <2>2, <2>3
  <1>14. CASE ClearIntent
    BY <1>14, <1>a, <1>b, <1>c, LeaveTypes, NoStateType DEF ClearIntent, RemoveIntent, RegistryOK
  <1>15. CASE RemoveFailedIntent
    BY <1>15, <1>a, <1>b, <1>c, LeaveTypes, NoStateType DEF RemoveFailedIntent, RemoveIntent,
       RegistryOK
  <1>16. CASE FinishIntents
    BY <1>16, <1>a, <1>b, <1>c DEF FinishIntents, JobOK, RegistryOK
  <1>17. CASE TestRestore
    BY <1>17, <1>a, <1>b, <1>c, GotoTypes, LeaveTypes DEF TestRestore, RegistryOK
  <1>18. CASE FinishRestores
    BY <1>18, <1>a, <1>b, <1>c, GotoTypes DEF FinishRestores
  <1>19. CASE Select
    BY <1>19, <1>a, <1>b, <1>c, UnreadType DEF Select, State, RegistryOK, UpstreamOK, JobOK
  <1>20. CASE FinishSweep
    BY <1>20, <1>a, <1>b, <1>c, EndTypes, UnreadType DEF FinishSweep, JobOK
  <1>21. CASE ProbeTest
    BY <1>21, <1>a, <1>b, <1>c, GotoTypes DEF ProbeTest, RegistryOK
  <1>22. CASE RecordPass
    BY <1>22, <1>a, <1>b, <1>c, LeaveTypes, EndTypes DEF RecordPass, RegistryOK
  <1>23. CASE RecordMiss
    BY <1>23, <1>a, <1>b, <1>c, LeaveTypes, EndTypes DEF RecordMiss, RegistryOK
  <1>24. CASE BeginRestore
    BY <1>24, <1>a, <1>b, <1>c, GotoTypes DEF BeginRestore, RegistryOK
  <1>25. CASE FinishProbes
    BY <1>25, <1>a, <1>b, <1>c, EndTypes DEF FinishProbes
  <1>26. CASE RestoreClear
    BY <1>26, <1>a, <1>b, <1>c, GotoTypes, ApplyTypes, LoseWriteTypes DEF RestoreClear, UpstreamOK,
       Writes
  <1>27. CASE RestorePut
    BY <1>27, <1>a, <1>b, <1>c, WriteTypes DEF RestorePut, Writes
  <1>28. CASE RestorePost
    BY <1>28, <1>a, <1>b, <1>c, WriteTypes DEF RestorePost, Writes
  <1>29. CASE RestoreTooLate
    BY <1>29, <1>a, <1>b, <1>c, GotoTypes, LeaveTypes DEF RestoreTooLate, RestoreFailed
  <1>30. CASE RestoreCutShort
    BY <1>30, <1>a, <1>b, <1>c, GotoTypes DEF RestoreCutShort
  <1>31. CASE RestoreClassify
    BY <1>31, <1>a, <1>b, <1>c, GotoTypes, LeaveTypes DEF RestoreClassify, RestoreSucceeded,
       RestoreFailed, RestoreUncertain
  <1>32. CASE CompleteRestore
    BY <1>32, <1>a, <1>b, <1>c, GotoTypes, LeaveTypes DEF CompleteRestore, RegistryOK
  <1>33. CASE CancelRestore
    BY <1>33, <1>a, <1>b, <1>c, GotoTypes, LeaveTypes DEF CancelRestore, RegistryOK
  <1>34. CASE ProbeException
    BY <1>34, <1>a, <1>b, <1>c, GotoTypes DEF ProbeException
  <1>35. CASE StartJob
    BY <1>35, <1>a, <1>b, <1>c DEF StartJob, RegistryOK, JobOK
  <1>36. CASE AbortJob
    BY <1>36, <1>a, <1>b, <1>c, EndTypes DEF AbortJob, Unfinished, UpstreamOK, Writes
  <1>37. ASSUME NEW a \in Accounts, LandLate(a) PROVE TypeOK'
    BY <1>37, <1>a, <1>b, <1>c, ApplyTypes DEF LandLate, UpstreamOK
  <1>38. ASSUME NEW a \in Accounts, ServerError(a) PROVE TypeOK'
    BY <1>38, <1>a, <1>b, <1>c DEF ServerError, SetStatus, UpstreamOK, Statuses
  <1>39. ASSUME NEW a \in Accounts, NEW s \in {"active", "inactive"}, NEW b \in BOOLEAN,
        HumanEdit(a, s, b) PROVE TypeOK'
    BY <1>39, <1>a, <1>b, <1>c DEF HumanEdit, SetStatus, SetSched, UpstreamOK, Statuses, Owners
  <1>40. CASE UNCHANGED vars
    BY <1>40, <1>a, <1>b, <1>c DEF vars
  <1>41. QED
    BY <1>1, <1>2, <1>3, <1>4, <1>5, <1>6, <1>7, <1>8, <1>9, <1>10, <1>11, <1>12, <1>13, <1>14,
       <1>15, <1>16, <1>17, <1>18, <1>19, <1>20, <1>21, <1>22, <1>23, <1>24, <1>25, <1>26, <1>27,
       <1>28, <1>29, <1>30, <1>31, <1>32, <1>33, <1>34, <1>35, <1>36, <1>37, <1>38, <1>39, <1>40 DEF
       Next, JobStep, Environment

(* The variables have their types: every action of the job, the operators and *)
(* the upstream server.                                                       *)
THEOREM TypeCorrect == Spec => []TypeOK
PROOF
  <1>1. Init => TypeOK
    BY UnreadType DEF Init, TypeOK, UpstreamOK, RegistryOK, JobOK, Statuses, Owners, Steps
  <1>2. QED
    BY <1>1, TypeStep, PTL DEF Spec

LEMMA PositionsStep == ASSUME IInv, [Next]_vars PROVE Positions'
PROOF
  <1> USE AccountsAssumption DEF IInv, TypeOK, JobOK, RegistryOK, Positions, PhaseSteps, RowPresent,
        ListsPresent, InIntents, InRestores, InSweep, InProbes, IntentSteps, RestoreSteps,
        ProbeSteps, Disabling, Restoring, RegistryConsistent, Registered, WasEligible, registry, job
  <1>1. ASSUME NEW a \in Accounts, KeepIntent(a) PROVE Positions'
    BY <1>1 DEF KeepIntent, Skip
  <1>2. ASSUME NEW a \in Accounts, ReconcileIntent(a) PROVE Positions'
    BY <1>2 DEF ReconcileIntent, Skip, Work
  <1>3. ASSUME NEW a \in Accounts, KeepRestore(a) PROVE Positions'
    BY <1>3 DEF KeepRestore, Skip
  <1>4. ASSUME NEW a \in Accounts, ReconcileRestore(a) PROVE Positions'
    BY <1>4 DEF ReconcileRestore, Work
  <1>5. ASSUME NEW a \in Accounts, SkipCandidate(a) PROVE Positions'
    BY <1>5 DEF SkipCandidate, Skip
  <1>6. ASSUME NEW a \in Accounts, ProbeInvalid(a) PROVE Positions'
    BY <1>6 DEF ProbeInvalid, Work
  <1>7. ASSUME NEW a \in Accounts, ProbeStart(a) PROVE Positions'
    BY <1>7 DEF ProbeStart, Work
  <1>8. ASSUME NEW a \in Accounts, NEW isSlow \in BOOLEAN, RecordIntent(a, isSlow) PROVE Positions'
    BY <1>8 DEF RecordIntent, Work, End
  <1>9. CASE DisablePut
    BY <1>9 DEF DisablePut, Write, Goto
  <1>10. CASE DisablePost
    BY <1>10 DEF DisablePost, Write, Goto
  <1>11. CASE DisableVerify
    BY <1>11 DEF DisableVerify, DisableSucceeded, Goto
  <1>12. CASE DisableReadback
    BY <1>12 DEF DisableReadback, DisableSucceeded, DisableFailed, DisableUncertain, Goto, Leave
  <1>13. CASE Promote
    <2>1. PhaseSteps'
      BY <1>13 DEF Promote, Leave, End
    <2>2. RowPresent'
      BY <1>13 DEF Promote, Leave, End
    <2>3. ListsPresent'
      <3>1. (cur \notin todo)'
        BY <1>13 DEF Promote, Leave, End
      <3>2. (InIntents => todo \subseteq intents)'
        BY <1>13 DEF Promote, Leave, End
      <3>3. (InRestores => todo \subseteq restores)'
        BY <1>13 DEF Promote, Leave, End
      <3>4. (InProbes => todo \subseteq markers)'
        BY <1>13 DEF Promote, Leave, End
      <3>5. (adjusted \subseteq markers /\ (InSweep \/ adjusted = {}))'
        BY <1>13 DEF Promote, Leave, End
      <3>6. (InSweep => todo \cap Registered = {} /\ chosen \subseteq markers /\ \A a \in todo :
            WasEligible(fresh[a]))'
        <4>1. (InSweep => todo \cap Registered = {})'
          <5>1. Registered' \subseteq Registered
            BY <1>13 DEF Promote, Leave, End
          <5>2. InSweep' => InSweep /\ todo' = todo
            BY <1>13 DEF Promote, Leave, End
          <5>3. QED
            BY <5>1, <5>2
        <4>2. (InSweep => chosen \subseteq markers)'
          BY <1>13 DEF Promote, Leave, End
        <4>3. (InSweep => \A a \in todo : WasEligible(fresh[a]))'
          BY <1>13 DEF Promote, Leave, End
        <4>4. QED
          BY <4>1, <4>2, <4>3
      <3>7. QED
        BY <3>1, <3>2, <3>3, <3>4, <3>5, <3>6
    <2>4. QED
      BY <2>1, <2>2, <2>3
  <1>14. CASE ClearIntent
    BY <1>14 DEF ClearIntent, RemoveIntent, Leave
  <1>15. CASE RemoveFailedIntent
    BY <1>15 DEF RemoveFailedIntent, RemoveIntent, Leave
  <1>16. CASE FinishIntents
    BY <1>16 DEF FinishIntents, IsBatch
  <1>17. CASE TestRestore
    BY <1>17 DEF TestRestore, Goto, Leave
  <1>18. CASE FinishRestores
    BY <1>18 DEF FinishRestores, Goto
  <1>19. CASE Select
    <2>1. PhaseSteps'
      BY <1>19 DEF Select, IsBatch, Eligible, State
    <2>2. RowPresent'
      BY <1>19 DEF Select, IsBatch, Eligible, State
    <2>3. ListsPresent'
      <3>1. (cur \notin todo)'
        BY <1>19 DEF Select, IsBatch, Eligible, State
      <3>2. (InIntents => todo \subseteq intents)'
        BY <1>19 DEF Select, IsBatch, Eligible, State
      <3>3. (InRestores => todo \subseteq restores)'
        BY <1>19 DEF Select, IsBatch, Eligible, State
      <3>4. (InProbes => todo \subseteq markers)'
        BY <1>19 DEF Select, IsBatch, Eligible, State
      <3>5. (adjusted \subseteq markers /\ (InSweep \/ adjusted = {}))'
        BY <1>19 DEF Select, IsBatch, Eligible, State
      <3>6. (InSweep => todo \cap Registered = {} /\ chosen \subseteq markers /\ \A a \in todo :
            WasEligible(fresh[a]))'
        <4>1. (InSweep => todo \cap Registered = {})'
          BY <1>19 DEF Select, IsBatch, Eligible, State
        <4>2. (InSweep => chosen \subseteq markers)'
          BY <1>19 DEF Select, IsBatch, Eligible, State
        <4>3. (InSweep => \A a \in todo : WasEligible(fresh[a]))'
          BY <1>19 DEF Select, IsBatch, Eligible, State
        <4>4. QED
          BY <4>1, <4>2, <4>3
      <3>7. QED
        BY <3>1, <3>2, <3>3, <3>4, <3>5, <3>6
    <2>4. QED
      BY <2>1, <2>2, <2>3
  <1>20. CASE FinishSweep
    BY <1>20 DEF FinishSweep, End
  <1>21. CASE ProbeTest
    BY <1>21 DEF ProbeTest, Goto
  <1>22. CASE RecordPass
    BY <1>22 DEF RecordPass, Leave, End
  <1>23. CASE RecordMiss
    BY <1>23 DEF RecordMiss, Leave, End
  <1>24. CASE BeginRestore
    <2>1. PhaseSteps'
      BY <1>24 DEF BeginRestore, Goto
    <2>2. RowPresent'
      BY <1>24 DEF BeginRestore, Goto
    <2>3. ListsPresent'
      <3>1. (cur \notin todo)'
        BY <1>24 DEF BeginRestore, Goto
      <3>2. (InIntents => todo \subseteq intents)'
        BY <1>24 DEF BeginRestore, Goto
      <3>3. (InRestores => todo \subseteq restores)'
        BY <1>24 DEF BeginRestore, Goto
      <3>4. (InProbes => todo \subseteq markers)'
        BY <1>24 DEF BeginRestore, Goto
      <3>5. (adjusted \subseteq markers /\ (InSweep \/ adjusted = {}))'
        BY <1>24 DEF BeginRestore, Goto
      <3>6. ~InSweep'
        BY <1>24 DEF BeginRestore, Goto
      <3>7. QED
        BY <3>1, <3>2, <3>3, <3>4, <3>5, <3>6
    <2>4. QED
      BY <2>1, <2>2, <2>3
  <1>25. CASE FinishProbes
    BY <1>25 DEF FinishProbes, End
  <1>26. CASE RestoreClear
    BY <1>26 DEF RestoreClear, Goto
  <1>27. CASE RestorePut
    BY <1>27 DEF RestorePut, Write, Goto
  <1>28. CASE RestorePost
    BY <1>28 DEF RestorePost, Write, Goto
  <1>29. CASE RestoreTooLate
    <2>1. PhaseSteps'
      BY <1>29 DEF RestoreTooLate, RestoreFailed, Goto, Leave
    <2>2. RowPresent'
      BY <1>29 DEF RestoreTooLate, RestoreFailed, Goto, Leave
    <2>3. ListsPresent'
      <3>1. (cur \notin todo)'
        BY <1>29 DEF RestoreTooLate, RestoreFailed, Goto, Leave
      <3>2. (InIntents => todo \subseteq intents)'
        BY <1>29 DEF RestoreTooLate, RestoreFailed, Goto, Leave
      <3>3. (InRestores => todo \subseteq restores)'
        BY <1>29 DEF RestoreTooLate, RestoreFailed, Goto, Leave
      <3>4. (InProbes => todo \subseteq markers)'
        BY <1>29 DEF RestoreTooLate, RestoreFailed, Goto, Leave
      <3>5. (adjusted \subseteq markers /\ (InSweep \/ adjusted = {}))'
        BY <1>29 DEF RestoreTooLate, RestoreFailed, Goto, Leave
      <3>6. ~InSweep'
        BY <1>29 DEF RestoreTooLate, RestoreFailed, Goto, Leave
      <3>7. QED
        BY <3>1, <3>2, <3>3, <3>4, <3>5, <3>6
    <2>4. QED
      BY <2>1, <2>2, <2>3
  <1>30. CASE RestoreCutShort
    BY <1>30 DEF RestoreCutShort, Goto
  <1>31. CASE RestoreClassify
    <2>1. PhaseSteps'
      BY <1>31 DEF RestoreClassify, RestoreSucceeded, RestoreFailed, RestoreUncertain, Goto, Leave
    <2>2. RowPresent'
      BY <1>31 DEF RestoreClassify, RestoreSucceeded, RestoreFailed, RestoreUncertain, Goto, Leave
    <2>3. ListsPresent'
      <3>1. (cur \notin todo)'
        BY <1>31 DEF RestoreClassify, RestoreSucceeded, RestoreFailed, RestoreUncertain, Goto, Leave
      <3>2. (InIntents => todo \subseteq intents)'
        BY <1>31 DEF RestoreClassify, RestoreSucceeded, RestoreFailed, RestoreUncertain, Goto, Leave
      <3>3. (InRestores => todo \subseteq restores)'
        BY <1>31 DEF RestoreClassify, RestoreSucceeded, RestoreFailed, RestoreUncertain, Goto, Leave
      <3>4. (InProbes => todo \subseteq markers)'
        BY <1>31 DEF RestoreClassify, RestoreSucceeded, RestoreFailed, RestoreUncertain, Goto, Leave
      <3>5. (adjusted \subseteq markers /\ (InSweep \/ adjusted = {}))'
        BY <1>31 DEF RestoreClassify, RestoreSucceeded, RestoreFailed, RestoreUncertain, Goto, Leave
      <3>6. ~InSweep'
        BY <1>31 DEF RestoreClassify, RestoreSucceeded, RestoreFailed, RestoreUncertain, Goto, Leave
      <3>7. QED
        BY <3>1, <3>2, <3>3, <3>4, <3>5, <3>6
    <2>4. QED
      BY <2>1, <2>2, <2>3
  <1>32. CASE CompleteRestore
    <2>1. PhaseSteps'
      BY <1>32 DEF CompleteRestore, Goto, Leave
    <2>2. RowPresent'
      BY <1>32 DEF CompleteRestore, Goto, Leave
    <2>3. ListsPresent'
      <3>1. (cur \notin todo)'
        BY <1>32 DEF CompleteRestore, Goto, Leave
      <3>2. (InIntents => todo \subseteq intents)'
        BY <1>32 DEF CompleteRestore, Goto, Leave
      <3>3. (InRestores => todo \subseteq restores)'
        BY <1>32 DEF CompleteRestore, Goto, Leave
      <3>4. (InProbes => todo \subseteq markers)'
        BY <1>32 DEF CompleteRestore, Goto, Leave
      <3>5. (adjusted \subseteq markers /\ (InSweep \/ adjusted = {}))'
        BY <1>32 DEF CompleteRestore, Goto, Leave
      <3>6. ~InSweep'
        BY <1>32 DEF CompleteRestore, Goto, Leave
      <3>7. QED
        BY <3>1, <3>2, <3>3, <3>4, <3>5, <3>6
    <2>4. QED
      BY <2>1, <2>2, <2>3
  <1>33. CASE CancelRestore
    <2>1. PhaseSteps'
      BY <1>33 DEF CancelRestore, Goto, Leave
    <2>2. RowPresent'
      BY <1>33 DEF CancelRestore, Goto, Leave
    <2>3. ListsPresent'
      <3>1. (cur \notin todo)'
        BY <1>33 DEF CancelRestore, Goto, Leave
      <3>2. (InIntents => todo \subseteq intents)'
        BY <1>33 DEF CancelRestore, Goto, Leave
      <3>3. (InRestores => todo \subseteq restores)'
        BY <1>33 DEF CancelRestore, Goto, Leave
      <3>4. (InProbes => todo \subseteq markers)'
        BY <1>33 DEF CancelRestore, Goto, Leave
      <3>5. (adjusted \subseteq markers /\ (InSweep \/ adjusted = {}))'
        BY <1>33 DEF CancelRestore, Goto, Leave
      <3>6. ~InSweep'
        BY <1>33 DEF CancelRestore, Goto, Leave
      <3>7. QED
        BY <3>1, <3>2, <3>3, <3>4, <3>5, <3>6
    <2>4. QED
      BY <2>1, <2>2, <2>3
  <1>34. CASE ProbeException
    BY <1>34 DEF ProbeException, Goto
  <1>35. CASE StartJob
    BY <1>35 DEF StartJob, IsBatch
  <1>36. CASE AbortJob
    BY <1>36 DEF AbortJob, End
  <1>37. Environment \/ UNCHANGED vars => UNCHANGED <<registry, job>>
    BY DEF Environment, LandLate, HumanEdit, ServerError, vars
  <1>38. CASE UNCHANGED <<registry, job>>
    BY <1>38
  <1> HIDE DEF IInv, TypeOK, JobOK, RegistryOK, Positions, registry, job
  <1>39. QED
    BY <1>1, <1>2, <1>3, <1>4, <1>5, <1>6, <1>7, <1>8, <1>9, <1>10, <1>11, <1>12, <1>13, <1>14,
       <1>15, <1>16, <1>17, <1>18, <1>19, <1>20, <1>21, <1>22, <1>23, <1>24, <1>25, <1>26, <1>27,
       <1>28, <1>29, <1>30, <1>31, <1>32, <1>33, <1>34, <1>35, <1>36, <1>37, <1>38 DEF Next, JobStep

-----------------------------------------------------------------------------
(* The registry's tables.                                                  *)

\* The steps that change what is registered.
LEMMA RegistrySteps ==
  ASSUME [Next]_vars
  PROVE  \/ Promote \/ ClearIntent \/ RemoveFailedIntent
         \/ BeginRestore \/ CompleteRestore \/ CancelRestore
         \/ \E a \in Accounts, isSlow \in BOOLEAN : RecordIntent(a, isSlow)
         \/ UNCHANGED <<intents, previous, markers, slow, restores>>
PROOF
  <1>1. CASE StartJob \/ AbortJob \/ Environment \/ UNCHANGED vars
    BY <1>1 DEF StartJob, AbortJob, Environment, LandLate, HumanEdit, ServerError, vars, registry
  <1>2. CASE JobStep
    BY <1>2 DEF JobStep, registry, KeepIntent, ReconcileIntent, KeepRestore, ReconcileRestore,
      SkipCandidate, ProbeInvalid, ProbeStart, DisablePut, DisablePost, DisableVerify,
      DisableReadback, FinishIntents, TestRestore, FinishRestores, Select, FinishSweep,
      ProbeTest, RecordPass, RecordMiss, FinishProbes, RestoreClear, RestorePut, RestorePost, Write,
      RestoreTooLate, RestoreCutShort, RestoreClassify, ProbeException
  <1>3. QED
    BY <1>1, <1>2 DEF Next

LEMMA RegistryStep == ASSUME IInv, [Next]_vars PROVE RegistryConsistent'
PROOF
  <1> DEFINE Tables == /\ intents \cap markers = {} /\ restores \subseteq markers
                       /\ slow \subseteq intents \cup markers
             Fits == Cardinality(intents) + Cardinality(markers) <= Capacity
  <1>a. Tables /\ Fits
    BY DEF IInv, RegistryConsistent, Registered
  <1>b. SUFFICES Tables' /\ Fits'
    BY DEF RegistryConsistent, Registered
  <1>1. /\ intents \subseteq Accounts /\ markers \subseteq Accounts
        /\ IsFiniteSet(intents) /\ IsFiniteSet(markers)
        /\ Cardinality(intents) \in Nat /\ Cardinality(markers) \in Nat
    BY AccountsAssumption, FS_Subset, FS_CardinalityType DEF IInv, TypeOK, RegistryOK
  <1>2. CASE UNCHANGED <<intents, previous, markers, slow, restores>>
    BY <1>2, <1>a
  <1>3. ASSUME NEW a \in Accounts, NEW isSlow \in BOOLEAN, RecordIntent(a, isSlow)
        PROVE  Tables' /\ Fits'
    <2>1. a \notin intents /\ a \notin markers
      BY <1>3 DEF RecordIntent, IInv, Positions, ListsPresent, InSweep, Registered
    <2>2. Tables'
      BY <1>3, <1>a, <2>1 DEF RecordIntent, registry
    <2>3. Cardinality(intents \cup {a}) = Cardinality(intents) + 1
      BY <1>1, <2>1, FS_AddElement
    <2>4. CASE UNCHANGED registry
      BY <2>4, <1>a DEF registry
    <2>5. CASE /\ Cardinality(intents) + Cardinality(markers) < Capacity
               /\ intents' = intents \cup {a} /\ markers' = markers
      BY <1>1, <2>2, <2>3, <2>5, BoundsAssumption
    <2>6. QED
      BY <1>1, <1>3, <2>1, <2>2, <2>4, <2>5, BoundsAssumption DEF RecordIntent
  <1>4. CASE Promote
    <2>1. cur \in intents /\ cur \notin markers
      BY <1>4, <1>a DEF Promote, IInv, Positions, RowPresent, IntentSteps
    <2>2. intents' = intents \ {cur} /\ markers' = markers \cup {cur} /\ UNCHANGED <<slow,
          restores>>
      BY <1>4, <2>1 DEF Promote
    <2>3. Tables'
      BY <1>a, <2>1, <2>2
    <2>4. /\ Cardinality(markers \cup {cur}) = Cardinality(markers) + 1
          /\ Cardinality(intents \ {cur}) = Cardinality(intents) - 1
      BY <1>1, <2>1, FS_AddElement, FS_RemoveElement
    <2>5. QED
      BY <1>1, <1>a, <2>2, <2>3, <2>4, BoundsAssumption
  <1>5. CASE ClearIntent \/ RemoveFailedIntent
    <2>1. intents' = intents \ {cur} /\ markers' = markers /\ Tables'
      BY <1>5, <1>a DEF ClearIntent, RemoveFailedIntent, RemoveIntent
    <2>2. Cardinality(intents \ {cur}) \in Nat /\ Cardinality(intents \ {cur}) <=
          Cardinality(intents)
      BY <1>1, FS_Subset, FS_CardinalityType
    <2>3. QED
      BY <1>1, <1>a, <2>1, <2>2, BoundsAssumption
  <1>6. CASE BeginRestore
    BY <1>6, <1>a DEF BeginRestore
  <1>7. CASE CompleteRestore
    <2>1. cur \in restores \cap markers
      BY <1>7 DEF CompleteRestore, IInv, Positions, RowPresent, RestoreSteps
    <2>2. intents' = intents /\ markers' = markers \ {cur} /\ Tables'
      BY <1>7, <1>a, <2>1 DEF CompleteRestore
    <2>3. Cardinality(markers \ {cur}) \in Nat /\ Cardinality(markers \ {cur}) <=
          Cardinality(markers)
      BY <1>1, FS_Subset, FS_CardinalityType
    <2>4. QED
      BY <1>1, <1>a, <2>2, <2>3, BoundsAssumption
  <1>8. CASE CancelRestore
    BY <1>8, <1>a DEF CancelRestore
  <1>9. QED
    BY RegistrySteps, <1>2, <1>3, <1>4, <1>5, <1>6, <1>7, <1>8

-----------------------------------------------------------------------------
(* Who keeps an account out of dispatch.                                   *)

\* The steps that change an account, its registration, or reach a step that forgets it.
LEMMA OwnershipSteps ==
  ASSUME [Next]_vars
  PROVE  \/ \E a \in Accounts : \/ ReconcileIntent(a) \/ ReconcileRestore(a)
                                \/ LandLate(a) \/ ServerError(a)
                                \/ \E s \in {"active", "inactive"}, b \in BOOLEAN : HumanEdit(a, s,
                                  b)
         \/ \E a \in Accounts, isSlow \in BOOLEAN : RecordIntent(a, isSlow)
         \/ DisablePut \/ DisablePost \/ RestoreClear \/ RestorePut \/ RestorePost
         \/ DisableReadback \/ RestoreClassify
         \/ Promote \/ ClearIntent \/ RemoveFailedIntent \/ CompleteRestore
         \/ /\ UNCHANGED <<status, sched, owner, tainted, intents, previous, markers>>
            /\ pc' \notin {"clear", "dfailed", "complete"} \/ UNCHANGED <<pc, cur>>
PROOF
  <1>1. CASE StartJob \/ AbortJob \/ Environment \/ UNCHANGED vars
    BY <1>1 DEF StartJob, AbortJob, End, Environment, vars, upstream, registry, job
  <1>2. CASE JobStep
    BY <1>2 DEF JobStep, upstream, registry, Skip, Work, Goto, Leave, End,
      KeepIntent, KeepRestore, SkipCandidate, ProbeInvalid, ProbeStart, DisableVerify,
      DisableSucceeded, FinishIntents, TestRestore, FinishRestores, Select, FinishSweep,
      ProbeTest, RecordPass, RecordMiss, BeginRestore, FinishProbes, RestoreTooLate,
      RestoreFailed, RestoreCutShort, CancelRestore, ProbeException
  <1>3. QED
    BY <1>1, <1>2 DEF Next

\* An upstream write never makes the service the owner of an account in dispatch, and
\* it touches one account only.
LEMMA ApplyOwnership ==
  ASSUME UpstreamOK, NEW w, NEW a \in Accounts, Apply(w, a),
         \A b \in Accounts : owner[b] = "service" => ~Dispatched(b)
  PROVE  /\ \A b \in Accounts : owner'[b] = "service" => ~Dispatched(b)'
         /\ \A b \in Accounts \ {a} : /\ status'[b] = status[b] /\ sched'[b] = sched[b]
                                      /\ owner'[b] = owner[b]
PROOF
  <1> USE DEF UpstreamOK, SetStatus, SetSched, Dispatched, State
  <1>1. CASE PutInactive(a)
    BY <1>1 DEF PutInactive
  <1>2. CASE PostFalse(a)
    BY <1>2 DEF PostFalse
  <1>3. CASE PutActive(a)
    BY <1>3 DEF PutActive
  <1>4. CASE PostTrue(a)
    BY <1>4 DEF PostTrue
  <1>5. CASE Recover(a)
    BY <1>5 DEF Recover
  <1>6. QED
    BY <1>1, <1>2, <1>3, <1>4, <1>5 DEF Apply

LEMMA OwnershipStep == ASSUME IInv, [Next]_vars PROVE Ownership' /\ NoOrphan'
PROOF
  <1> DEFINE NotServed == \A a \in Accounts : owner[a] = "service" => ~Dispatched(a)
             Half == \A a \in intents : Forgettable(a) \/ status[a] = "inactive" \/ HumanPause(a)
             Prev == \A a \in intents : WasEligible(previous[a])
             Last == pc \in {"clear", "dfailed", "complete"} => Forgettable(cur)
  <1>1. NotServed /\ Half /\ Prev /\ Last /\ NoOrphan /\ TypeOK /\ Positions /\ RegistryConsistent
    BY DEF IInv, Ownership
  <1>2. SUFFICES NotServed' /\ Half' /\ Prev' /\ Last' /\ NoOrphan'
    BY DEF Ownership
  <1> HIDE DEF NotServed, Half, Prev, Last
  <1>3. CASE /\ UNCHANGED <<status, sched, owner, tainted, intents, previous, markers>>
             /\ pc' \notin {"clear", "dfailed", "complete"} \/ UNCHANGED <<pc, cur>>
    BY <1>1, <1>3 DEF NotServed, Half, Prev, Last, NoOrphan, Dispatched, HumanPause, State,
       Forgettable, Registered
  <1>4. ASSUME NEW a \in Accounts, ReconcileIntent(a)
        PROVE  NotServed' /\ Half' /\ Prev' /\ Last' /\ NoOrphan'
    <2>1. a \in intents
      BY <1>1, <1>4 DEF ReconcileIntent, Positions, ListsPresent, InIntents
    <2>2. UNCHANGED upstream /\ UNCHANGED registry
      BY <1>4 DEF ReconcileIntent
    <2>3. NotServed' /\ Half' /\ Prev' /\ NoOrphan'
      BY <1>1, <2>2 DEF NotServed, Half, Prev, NoOrphan, Dispatched, HumanPause, State, Forgettable,
         Registered, upstream, registry
    <2>4. Last'
      <3>1. CASE pc' = "clear" /\ cur' = a /\ State(a) = previous[a]
        <4>1. WasEligible(State(a))
          BY <1>1, <2>1, <3>1 DEF Prev
        <4>2. status[a] # "inactive" /\ ~HumanPause(a)
          BY <4>1 DEF WasEligible, State, HumanPause
        <4>3. QED
          BY <1>1, <2>1, <2>2, <3>1, <4>2 DEF Last, Half, Forgettable, upstream
      <3>2. CASE pc' = "clear" /\ cur' = a /\ status[a] # "inactive" /\ ~HumanPause(a)
        BY <1>1, <2>1, <2>2, <3>2 DEF Last, Half, HumanPause, State, Forgettable, upstream
      <3>3. CASE pc' \notin {"clear", "dfailed", "complete"}
        BY <3>3 DEF Last
      <3>4. QED
        BY <1>4, <3>1, <3>2, <3>3 DEF ReconcileIntent, Work, Skip
    <2>5. QED
      BY <2>3, <2>4
  <1>5. ASSUME NEW a \in Accounts, ReconcileRestore(a)
        PROVE  NotServed' /\ Half' /\ Prev' /\ Last' /\ NoOrphan'
    <2>1. UNCHANGED upstream /\ UNCHANGED registry
      BY <1>5 DEF ReconcileRestore
    <2>2. NotServed' /\ Half' /\ Prev' /\ NoOrphan'
      BY <1>1, <2>1 DEF NotServed, Half, Prev, NoOrphan, Dispatched, HumanPause, State, Forgettable,
         Registered, upstream, registry
    <2>3. Last'
      BY <1>1, <1>5, <2>1 DEF ReconcileRestore, Last, NotServed, Forgettable, Work, upstream
    <2>4. QED
      BY <2>2, <2>3
  <1>6. CASE DisableReadback \/ RestoreClassify
    <2>1. UNCHANGED upstream /\ UNCHANGED registry
      BY <1>6 DEF DisableReadback, RestoreClassify
    <2>2. NotServed' /\ Half' /\ Prev' /\ NoOrphan'
      BY <1>1, <2>1 DEF NotServed, Half, Prev, NoOrphan, Dispatched, HumanPause, State, Forgettable,
         Registered, upstream, registry
    <2>3. ASSUME DisableReadback PROVE Last'
      <3>1. cur \in intents
        BY <1>1, <2>3 DEF DisableReadback, Positions, RowPresent, IntentSteps, Disabling
      <3>2. CASE pc' \notin {"clear", "dfailed", "complete"}
        BY <3>2 DEF Last
      <3>3. CASE pc' \in {"clear", "dfailed", "complete"}
        <4>1. status[cur] # "inactive" /\ sched[cur] /\ cur' = cur
          BY <2>3, <3>3 DEF DisableReadback, DisableSucceeded, DisableFailed, DisableUncertain,
             Goto, Leave
        <4>2. Forgettable(cur)
          BY <1>1, <3>1, <4>1 DEF Half, HumanPause, State
        <4>3. QED
          BY <2>1, <4>1, <4>2 DEF Last, Forgettable, upstream
      <3>4. QED
        BY <3>2, <3>3
    <2>4. ASSUME RestoreClassify PROVE Last'
      <3>1. cur \in Accounts
        BY <1>1, <2>4 DEF RestoreClassify, Positions, RowPresent, RestoreSteps, Restoring, TypeOK,
           RegistryOK
      <3>2. CASE pc' \notin {"clear", "dfailed", "complete"}
        BY <3>2 DEF Last
      <3>3. CASE pc' \in {"clear", "dfailed", "complete"}
        <4>1. Dispatched(cur) /\ cur' = cur
          BY <2>4, <3>3 DEF RestoreClassify, RestoreSucceeded, RestoreFailed, RestoreUncertain,
             Goto, Leave
        <4>2. QED
          BY <1>1, <2>1, <3>1, <4>1 DEF NotServed, Last, Forgettable, upstream
      <3>4. QED
        BY <3>2, <3>3
    <2>5. QED
      BY <1>6, <2>2, <2>3, <2>4
  <1>7. ASSUME NEW a \in Accounts, NEW isSlow \in BOOLEAN, RecordIntent(a, isSlow)
        PROVE  NotServed' /\ Half' /\ Prev' /\ Last' /\ NoOrphan'
    <2>1. UNCHANGED upstream
      BY <1>7 DEF RecordIntent
    <2>2. /\ a \notin intents /\ a \notin markers /\ Forgettable(a)
          /\ WasEligible(fresh[a])
      BY <1>1, <1>7 DEF RecordIntent, Positions, ListsPresent, InSweep, Registered, NoOrphan,
         Forgettable
    <2>3. CASE UNCHANGED registry
      BY <1>1, <1>7, <2>1, <2>3 DEF RecordIntent, NotServed, Half, Prev, Last, NoOrphan, Dispatched,
         HumanPause,
         State, Forgettable, Registered, upstream, registry, Work, End
    <2>4. CASE /\ intents' = intents \cup {a} /\ previous' = [previous EXCEPT ![a] = fresh[a]]
               /\ markers' = markers
      <3>1. NotServed' /\ Half' /\ NoOrphan'
        BY <1>1, <2>1, <2>2, <2>4 DEF NotServed, Half, NoOrphan, Dispatched, HumanPause, State,
           Forgettable,
           Registered, upstream
      <3>2. Prev'
        BY <1>1, <2>2, <2>4 DEF Prev, TypeOK, RegistryOK
      <3>3. Last'
        BY <1>7 DEF RecordIntent, Last, Work, End
      <3>4. QED
        BY <3>1, <3>2, <3>3
    <2>5. QED
      BY <1>7, <2>3, <2>4 DEF RecordIntent
  <1>8. CASE Promote
    <2>1. /\ cur \in intents /\ intents' = intents \ {cur} /\ markers' = markers \cup {cur}
          /\ \A a \in intents' : previous'[a] = previous[a]
          /\ pc' \notin {"clear", "dfailed", "complete"} /\ UNCHANGED upstream
      BY <1>1, <1>8 DEF Promote, Positions, RowPresent, IntentSteps, TypeOK, RegistryOK
    <2>2. QED
      BY <1>1, <2>1 DEF NotServed, Half, Prev, Last, NoOrphan, Dispatched, HumanPause, State,
         Forgettable,
         Registered, upstream
  <1>9. CASE ClearIntent \/ RemoveFailedIntent
    <2>1. /\ Forgettable(cur) /\ intents' = intents \ {cur} /\ markers' = markers
          /\ \A a \in intents' : previous'[a] = previous[a]
          /\ pc' \notin {"clear", "dfailed", "complete"} /\ UNCHANGED upstream
      BY <1>1, <1>9 DEF ClearIntent, RemoveFailedIntent, RemoveIntent, Leave, Last, TypeOK,
         RegistryOK
    <2>2. QED
      BY <1>1, <2>1 DEF NotServed, Half, Prev, Last, NoOrphan, Dispatched, HumanPause, State,
         Forgettable,
         Registered, upstream
  <1>10. CASE CompleteRestore
    <2>1. /\ Forgettable(cur) /\ intents' = intents /\ previous' = previous
          /\ markers \ {cur} \subseteq markers'
          /\ pc' \notin {"clear", "dfailed", "complete"} /\ UNCHANGED upstream
      BY <1>1, <1>10 DEF CompleteRestore, Leave, Goto, Last
    <2>2. QED
      BY <1>1, <2>1 DEF NotServed, Half, Prev, Last, NoOrphan, Dispatched, HumanPause, State,
         Forgettable,
         Registered, upstream
  <1>11. CASE DisablePut \/ DisablePost
    <2>1. /\ cur \in intents /\ cur \in Accounts /\ UNCHANGED <<registry, tainted, cur>>
          /\ pc' \notin {"clear", "dfailed", "complete"}
      BY <1>1, <1>11 DEF DisablePut, DisablePost, Write, LoseWrite, Goto, Positions, RowPresent,
         IntentSteps,
         Disabling, TypeOK, RegistryOK, upstream
    <2>2. CASE UNCHANGED <<status, sched, owner>>
      BY <1>1, <2>1, <2>2 DEF NotServed, Half, Prev, Last, NoOrphan, Dispatched, HumanPause, State,
         Forgettable,
         Registered, registry
    <2>3. CASE \/ DisablePut /\ Apply("putInactive", cur)
               \/ DisablePost /\ Apply("postFalse", cur)
      <3>1. /\ NotServed'
            /\ \A b \in Accounts \ {cur} : /\ status'[b] = status[b] /\ sched'[b] = sched[b]
                                           /\ owner'[b] = owner[b]
        BY <1>1, <2>1, <2>3, ApplyOwnership DEF NotServed, TypeOK
      <3>2. NoOrphan'
        BY <1>1, <2>1, <3>1 DEF NoOrphan, Registered, registry
      <3>3. Forgettable(cur)' \/ status'[cur] = "inactive" \/ HumanPause(cur)'
        <4>1. CASE Apply("putInactive", cur)
          BY <1>1, <2>1, <4>1 DEF Apply, PutInactive, SetStatus, TypeOK, UpstreamOK
        <4>2. ASSUME Apply("postFalse", cur)
              PROVE  /\ sched'[cur] = FALSE /\ UNCHANGED status
                     /\ status[cur] = "error" => owner'[cur] = owner[cur]
          BY <1>1, <2>1, <4>2 DEF Apply, PostFalse, SetSched, TypeOK, UpstreamOK
        <4>3. CASE Apply("postFalse", cur)
          <5>1. CASE status[cur] = "active"
            BY <2>1, <4>2, <4>3, <5>1 DEF HumanPause, State
          <5>2. CASE status[cur] = "inactive"
            BY <4>2, <4>3, <5>2
          <5>3. CASE status[cur] = "error"
            <6>1. Forgettable(cur)
              BY <1>1, <2>1, <5>3 DEF Half, HumanPause, State
            <6>2. QED
              BY <2>1, <4>2, <4>3, <5>3, <6>1 DEF Forgettable
          <5>4. QED
            BY <1>1, <2>1, <5>1, <5>2, <5>3 DEF TypeOK, UpstreamOK, Statuses
        <4>4. QED
          BY <2>3, <4>1, <4>2, <4>3
      <3>4. Half'
        <4>1. ASSUME NEW b \in intents, b # cur
              PROVE  (Forgettable(b) \/ status[b] = "inactive" \/ HumanPause(b))'
          BY <1>1, <2>1, <3>1, <4>1 DEF Half, HumanPause, State, Forgettable, TypeOK, RegistryOK
        <4>2. QED
          BY <2>1, <3>3, <4>1 DEF Half, Forgettable, HumanPause, State, registry
      <3>5. Prev' /\ Last'
        BY <1>1, <2>1 DEF Prev, Last, registry
      <3>6. QED
        BY <3>1, <3>2, <3>4, <3>5
    <2>4. QED
      BY <1>11, <2>2, <2>3 DEF DisablePut, DisablePost, Write, LoseWrite, upstream
  <1>12. CASE RestoreClear \/ RestorePut \/ RestorePost
    <2>1. /\ cur \notin intents /\ cur \in Accounts /\ UNCHANGED <<registry, tainted>>
          /\ pc' \notin {"clear", "dfailed", "complete"}
      BY <1>1, <1>12 DEF RestoreClear, RestorePut, RestorePost, Write, LoseWrite, Goto, Positions,
         RowPresent, RestoreSteps,
         Restoring, TypeOK, RegistryOK, RegistryConsistent, upstream
    <2>2. CASE UNCHANGED <<status, sched, owner>>
      BY <1>1, <2>1, <2>2 DEF NotServed, Half, Prev, Last, NoOrphan, Dispatched, HumanPause, State,
         Forgettable,
         Registered, registry
    <2>3. CASE Apply("recover", cur) \/ Apply("putActive", cur) \/ Apply("postTrue", cur)
      <3>1. /\ NotServed'
            /\ \A b \in Accounts \ {cur} : /\ status'[b] = status[b] /\ sched'[b] = sched[b]
                                           /\ owner'[b] = owner[b]
        BY <1>1, <2>1, <2>3, ApplyOwnership DEF NotServed, TypeOK
      <3>2. owner'[cur] = "service" => owner[cur] = "service"
        BY <1>1, <2>1, <2>3 DEF Apply, Recover, PutActive, PostTrue, TypeOK, UpstreamOK
      <3>3. NoOrphan'
        BY <1>1, <2>1, <3>1, <3>2 DEF NoOrphan, Registered, registry
      <3>4. Half'
        BY <1>1, <2>1, <3>1 DEF Half, HumanPause, State, Forgettable, registry, TypeOK, RegistryOK
      <3>5. Prev' /\ Last'
        BY <1>1, <2>1 DEF Prev, Last, registry
      <3>6. QED
        BY <3>1, <3>3, <3>4, <3>5
    <2>4. QED
      BY <1>12, <2>2, <2>3 DEF RestoreClear, RestorePut, RestorePost, Write, LoseWrite, upstream
  <1>13. ASSUME NEW a \in Accounts, LandLate(a)
         PROVE  NotServed' /\ Half' /\ Prev' /\ Last' /\ NoOrphan'
    <2>1. UNCHANGED registry /\ UNCHANGED job /\ tainted' = tainted \cup {a}
      BY <1>13 DEF LandLate
    <2>2. /\ NotServed'
          /\ \A b \in Accounts \ {a} : /\ status'[b] = status[b] /\ sched'[b] = sched[b]
                                       /\ owner'[b] = owner[b]
      BY <1>1, <1>13, ApplyOwnership DEF LandLate, NotServed, TypeOK
    <2>3. NoOrphan'
      BY <1>1, <2>1, <2>2 DEF NoOrphan, Registered, registry
    <2>4. Half'
      BY <1>1, <2>1, <2>2 DEF Half, HumanPause, State, Forgettable, registry, TypeOK, RegistryOK
    <2>5. cur \in Accounts \/ pc \notin {"clear", "dfailed", "complete"}
      BY <1>1 DEF Positions, RowPresent, IntentSteps, RestoreSteps, TypeOK, RegistryOK
    <2>6. Prev' /\ Last'
      BY <1>1, <2>1, <2>2, <2>5 DEF Prev, Last, Forgettable, registry, job
    <2>7. QED
      BY <2>2, <2>3, <2>4, <2>6
  <1>14. ASSUME NEW a \in Accounts, \/ ServerError(a)
                                    \/ \E s \in {"active", "inactive"}, b \in BOOLEAN : HumanEdit(a,
                                      s, b)
         PROVE  NotServed' /\ Half' /\ Prev' /\ Last' /\ NoOrphan'
    <2>1. /\ UNCHANGED registry /\ UNCHANGED job /\ UNCHANGED tainted
          /\ \A b \in Accounts \ {a} : /\ status'[b] = status[b] /\ sched'[b] = sched[b]
                                       /\ owner'[b] = owner[b]
          /\ owner'[a] # "service"
      BY <1>1, <1>14 DEF ServerError, HumanEdit, SetStatus, SetSched, NotServed, TypeOK, UpstreamOK
    <2>2. NotServed' /\ NoOrphan'
      BY <1>1, <2>1 DEF NotServed, NoOrphan, Dispatched, State, Registered, registry
    <2>3. Half'
      BY <1>1, <2>1 DEF Half, HumanPause, State, Forgettable, registry, TypeOK, RegistryOK
    <2>4. cur \in Accounts \/ pc \notin {"clear", "dfailed", "complete"}
      BY <1>1 DEF Positions, RowPresent, IntentSteps, RestoreSteps, TypeOK, RegistryOK
    <2>5. Prev' /\ Last'
      BY <1>1, <2>1, <2>4 DEF Prev, Last, Forgettable, registry, job
    <2>6. QED
      BY <2>2, <2>3, <2>5
  <1>15. QED
    BY OwnershipSteps, <1>3, <1>4, <1>5, <1>6, <1>7, <1>8, <1>9, <1>10, <1>11, <1>12, <1>13, <1>14

-----------------------------------------------------------------------------
(* The passing tests of slow accounts, and the errors of a broken registry. *)

LEMMA StreakSteps ==
  ASSUME [Next]_vars
  PROVE  \/ TestRestore \/ ProbeTest \/ RecordPass \/ RecordMiss \/ Promote \/ CompleteRestore
         \/ /\ UNCHANGED <<streak, passes>>
            /\ pc' \notin {"pass", "rbegin"} \/ UNCHANGED <<pc, cur, slow>>
PROOF
  <1>1. CASE StartJob \/ AbortJob \/ Environment \/ UNCHANGED vars
    BY <1>1 DEF StartJob, AbortJob, End, Environment, LandLate, HumanEdit, ServerError, vars,
       registry, job
  <1>2. CASE JobStep
    BY <1>2 DEF JobStep, registry, Skip, Work, Goto, Leave, End,
      KeepIntent, ReconcileIntent, KeepRestore, ReconcileRestore, SkipCandidate, ProbeInvalid,
      ProbeStart, RecordIntent, DisablePut, DisablePost, DisableVerify, DisableReadback,
      DisableSucceeded, DisableFailed, DisableUncertain, ClearIntent, RemoveFailedIntent,
      RemoveIntent, FinishIntents, FinishRestores, Select, FinishSweep, BeginRestore,
      FinishProbes, RestoreClear, RestorePut, RestorePost, Write, RestoreTooLate, RestoreFailed,
      RestoreCutShort, RestoreClassify, RestoreSucceeded, RestoreUncertain, CancelRestore,
      ProbeException
  <1>3. QED
    BY <1>1, <1>2 DEF Next

LEMMA StreaksStep == ASSUME IInv, [Next]_vars PROVE Streaks'
PROOF
  <1> USE DEF Streaks, TwoPassesBeforeRestore
  <1>1. /\ Streaks /\ cur \in Accounts \cup {NoAccount}
        /\ streak \in [Accounts -> 0..1] /\ passes \in [Accounts -> 0..2]
    BY DEF IInv, TypeOK, JobOK, RegistryOK
  <1>2. CASE /\ UNCHANGED <<streak, passes>>
             /\ pc' \notin {"pass", "rbegin"} \/ UNCHANGED <<pc, cur, slow>>
    BY <1>1, <1>2
  <1>3. CASE TestRestore
    BY <1>1, <1>3 DEF TestRestore, Goto, Leave
  <1>4. CASE ProbeTest
    <2>1. cur \in Accounts
      BY <1>4 DEF ProbeTest, IInv, TypeOK, RegistryOK, JobOK, Positions, PhaseSteps, RowPresent,
         IntentSteps, RestoreSteps, Disabling, Restoring
    <2>2. \A a \in Accounts : streak'[a] <= passes'[a]
      BY <1>1, <1>4, <2>1 DEF ProbeTest
    <2>3. CASE pc' = "miss"
      BY <2>2, <2>3
    <2>4. CASE pc' # "miss"
      <3>1. /\ passes'[cur] = IF passes[cur] = 2 THEN 2 ELSE passes[cur] + 1
            /\ pc' = IF cur \in slow /\ streak[cur] = 0 THEN "pass" ELSE "rbegin"
            /\ UNCHANGED <<cur, slow, streak>>
        BY <1>1, <1>4, <2>1, <2>4 DEF ProbeTest, Goto
      <3>2. QED
        BY <1>1, <2>1, <2>2, <3>1
    <2>5. QED
      BY <2>3, <2>4
  <1>5. CASE RecordPass
    BY <1>1, <1>5 DEF RecordPass, Leave, End
  <1>6. CASE RecordMiss
    BY <1>1, <1>6 DEF RecordMiss, Leave, End
  <1>7. CASE Promote
    BY <1>1, <1>7 DEF Promote, Leave, End, registry
  <1>8. CASE CompleteRestore
    BY <1>1, <1>8 DEF CompleteRestore, Goto, Leave
  <1>9. QED
    BY StreakSteps, <1>2, <1>3, <1>4, <1>5, <1>6, <1>7, <1>8

LEMMA ErrorsStep == ASSUME IInv, [Next]_vars PROVE RegistryErrorsUnreachable'
PROOF
  <1> USE DEF RegistryErrorsUnreachable
  <1>1. failure # "inconsistent"
    BY DEF IInv
  <1>2. CASE Promote
    BY <1>1, <1>2 DEF Promote, IInv, Positions, RowPresent, IntentSteps
  <1>3. ASSUME NEW a \in Accounts, NEW isSlow \in BOOLEAN, RecordIntent(a, isSlow)
        PROVE  RegistryErrorsUnreachable'
    BY <1>1, <1>3 DEF RecordIntent, Work, End, IInv, Positions, ListsPresent, InSweep, Registered
  <1>4. CASE FinishSweep
    BY <1>1, <1>4 DEF FinishSweep, End, IInv, Positions, ListsPresent
  <1>5. CASE RecordPass
    BY <1>1, <1>5 DEF RecordPass, Leave, IInv, Streaks, Positions, PhaseSteps, RowPresent,
       IntentSteps, RestoreSteps, Disabling, Restoring, TypeOK, JobOK
  <1>6. CASE RecordMiss
    BY <1>1, <1>6 DEF RecordMiss, Leave, IInv, Positions, PhaseSteps, RowPresent,
       IntentSteps, RestoreSteps, Disabling, Restoring, TypeOK, JobOK
  <1>7. CASE StartJob \/ AbortJob \/ Environment \/ UNCHANGED vars
    BY <1>1, <1>7 DEF StartJob, AbortJob, End, Environment, LandLate, HumanEdit, ServerError, vars,
       job
  <1>8. CASE JobStep
    BY <1>1, <1>2, <1>3, <1>4, <1>5, <1>6, <1>8 DEF JobStep, Skip, Work, Goto, Leave, End,
      KeepIntent, ReconcileIntent, KeepRestore, ReconcileRestore, SkipCandidate, ProbeInvalid,
      ProbeStart, DisablePut, DisablePost, DisableVerify, DisableReadback,
      DisableSucceeded, DisableFailed, DisableUncertain, ClearIntent, RemoveFailedIntent,
      RemoveIntent, FinishIntents, TestRestore, FinishRestores, Select, ProbeTest, BeginRestore,
      FinishProbes, RestoreClear, RestorePut, RestorePost, Write, RestoreTooLate, RestoreFailed,
      RestoreCutShort, RestoreClassify, RestoreSucceeded, RestoreUncertain, CompleteRestore,
      CancelRestore, ProbeException
  <1>9. QED
    BY <1>7, <1>8 DEF Next

-----------------------------------------------------------------------------
(* The theorems.                                                           *)

LEMMA InitHolds == Init => IInv
PROOF
  <1>1. Init => TypeOK
    BY UnreadType DEF Init, TypeOK, UpstreamOK, RegistryOK, JobOK, Statuses, Owners, Steps
  <1>2. Init => Cardinality(intents) + Cardinality(markers) <= Capacity
    BY FS_EmptySet, BoundsAssumption DEF Init
  <1>3. QED
    BY <1>1, <1>2 DEF Init, IInv, Positions, PhaseSteps, RowPresent, ListsPresent, InIntents,
       InRestores,
      InSweep, InProbes, IntentSteps, RestoreSteps, Disabling, Restoring, RegistryConsistent,
        Registered,
      Ownership, NoOrphan, Streaks, TwoPassesBeforeRestore, RegistryErrorsUnreachable

(* The parts of the invariant support one another: only together do they survive a *)
(* step of the job, an abort, an operator's edit or a late write.                  *)
THEOREM InvariantHolds == Spec => []IInv
PROOF
  <1>1. IInv /\ [Next]_vars => IInv'
    BY TypeStep, PositionsStep, RegistryStep, OwnershipStep, StreaksStep, ErrorsStep DEF IInv
  <1>2. QED
    BY InitHolds, <1>1, PTL DEF Spec

(* The registry's tables stay disjoint, well-founded and within their size. *)
THEOREM RegistryCorrect == Spec => []RegistryConsistent
PROOF BY InvariantHolds, PTL DEF IInv

(* No crash, operator or interleaving makes the registry lose an account that the *)
(* service took out of dispatch.                                                  *)
THEOREM NoOrphanCorrect == Spec => []NoOrphan
PROOF BY InvariantHolds, PTL DEF IInv

(* The probe phase restores a slow account after two passing tests only. *)
THEOREM TwoPassesCorrect == Spec => []TwoPassesBeforeRestore
PROOF
  <1>1. IInv => TwoPassesBeforeRestore
    BY DEF IInv, Streaks
  <1>2. QED
    BY InvariantHolds, <1>1, PTL

(* The errors of a broken registry are never raised. *)
THEOREM NoRegistryErrors == Spec => []RegistryErrorsUnreachable
PROOF BY InvariantHolds, PTL DEF IInv

-----------------------------------------------------------------------------
(* Progress.  The steps a job can still make are bounded, whatever the upstream answers, and    *)
(* nobody else adds to them: each of its own steps uses up some.  With the fairness of JobStep  *)
(* this is why JobEnds holds.                                                                   *)

\* The most steps for an account from a step on, and the most that a phase can take.
StepsFrom(step) ==
  CASE step \in {"clear", "dok", "dfailed", "miss", "pass"} -> 1
    [] step \in {"dreadback", "complete", "cancel"} -> 2
    [] step \in {"dverify", "rreadback"} -> 3
    [] step \in {"dpost", "rverify"} -> 4
    [] step \in {"dput", "rpost"} -> 5
    [] step = "rput" -> 6
    [] step = "rclear" -> 7
    [] step \in {"rbegin", "rtest"} -> 8
    [] step = "ptest" -> 9
    [] OTHER -> 0
PhaseSize == 10 * Cardinality(Accounts) + 1

\* The most steps of the phases that follow, with the step between.
StepsAfter ==
  IF InProbes THEN 1
  ELSE IF InSweep THEN PhaseSize + 1
  ELSE IF pc = "select" THEN 2 * PhaseSize + 1
  ELSE IF InRestores THEN 2 * PhaseSize + 2
  ELSE 3 * PhaseSize + 2

StepsLeft ==
  IF pc = "idle" THEN 0 ELSE StepsAfter + 10 * Cardinality(todo) + StepsFrom(pc)

LEMMA SizesKnown ==
  ASSUME TypeOK
  PROVE  /\ Cardinality(Accounts) \in Nat
         /\ \A S \in SUBSET Accounts : Cardinality(S) \in 0..Cardinality(Accounts)
         /\ \A a \in todo : Cardinality(todo \ {a}) = Cardinality(todo) - 1
PROOF
  <1>1. IsFiniteSet(Accounts)
    BY AccountsAssumption
  <1>2. Cardinality(Accounts) \in Nat
    BY <1>1, FS_CardinalityType
  <1>3. \A S \in SUBSET Accounts :
          IsFiniteSet(S) /\ Cardinality(S) \in Nat /\ Cardinality(S) <= Cardinality(Accounts)
    BY <1>1, FS_Subset, FS_CardinalityType
  <1>4. IsFiniteSet(todo)
    BY <1>3 DEF TypeOK, JobOK
  <1>5. \A a \in todo : Cardinality(todo \ {a}) = Cardinality(todo) - 1
    BY <1>4, FS_RemoveElement
  <1>6. QED
    BY <1>2, <1>3, <1>5

LEMMA StepsFromBound == \A step : StepsFrom(step) \in 0..9
PROOF BY DEF StepsFrom

\* To the next step for the account, in the same phase.
LEMMA GotoUses ==
  ASSUME TypeOK, NEW step, Goto(step), StepsAfter' = StepsAfter, StepsFrom(step) < StepsFrom(pc),
         pc # "idle", step # "idle"
  PROVE  StepsLeft' < StepsLeft
PROOF
  <1>1. Cardinality(todo) \in Nat /\ Cardinality(Accounts) \in Nat
    BY SizesKnown DEF TypeOK, JobOK
  <1>2. StepsAfter \in Nat
    BY <1>1 DEF StepsAfter, PhaseSize
  <1>3. QED
    BY <1>1, <1>2, StepsFromBound DEF StepsLeft, Goto

\* Away from the account, with the phase.
LEMMA LeaveUses ==
  ASSUME TypeOK, NEW step, Leave(step), StepsAfter' = StepsAfter, StepsFrom(step) < StepsFrom(pc),
         pc # "idle", step # "idle"
  PROVE  StepsLeft' < StepsLeft
PROOF
  <1>1. Cardinality(todo) \in Nat /\ Cardinality(Accounts) \in Nat
    BY SizesKnown DEF TypeOK, JobOK
  <1>2. StepsAfter \in Nat
    BY <1>1 DEF StepsAfter, PhaseSize
  <1>3. QED
    BY <1>1, <1>2, StepsFromBound DEF StepsLeft, Leave

\* To another account of the phase, or past it.
LEMMA WorkUses ==
  ASSUME TypeOK, NEW a \in todo, todo' = todo \ {a}, StepsAfter' = StepsAfter,
         pc # "idle", pc' # "idle"
  PROVE  StepsLeft' < StepsLeft
PROOF
  <1>1. /\ Cardinality(todo) \in Nat /\ Cardinality(Accounts) \in Nat
        /\ Cardinality(todo') = Cardinality(todo) - 1
    BY SizesKnown DEF TypeOK, JobOK
  <1>2. StepsAfter \in Nat
    BY <1>1 DEF StepsAfter, PhaseSize
  <1>3. StepsFrom(pc) \in 0..9 /\ StepsFrom(pc') \in 0..9
    BY StepsFromBound
  <1>4. QED
    BY <1>1, <1>2, <1>3 DEF StepsLeft

\* To the next phase, whatever its accounts.
LEMMA PhaseUses ==
  ASSUME TypeOK, TypeOK', StepsAfter' + PhaseSize <= StepsAfter, StepsFrom(pc') = 0,
         pc # "idle"
  PROVE  StepsLeft' < StepsLeft
PROOF
  <1>1. /\ Cardinality(todo) \in Nat /\ Cardinality(Accounts) \in Nat
        /\ Cardinality(todo') \in 0..Cardinality(Accounts)
    BY SizesKnown DEF TypeOK, JobOK
  <1>2. StepsAfter \in Nat /\ StepsAfter' \in Nat
    BY <1>1 DEF StepsAfter, PhaseSize
  <1>3. StepsFrom(pc) \in 0..9
    BY StepsFromBound
  <1>4. QED
    BY <1>1, <1>2, <1>3 DEF StepsLeft, PhaseSize

\* The end takes no more steps.
LEMMA EndUses ==
  ASSUME TypeOK, NEW code, End(code), pc # "idle"
  PROVE  StepsLeft' < StepsLeft
PROOF
  <1>1. Cardinality(todo) \in Nat /\ Cardinality(Accounts) \in Nat
    BY SizesKnown DEF TypeOK, JobOK
  <1>2. StepsAfter \in Nat /\ StepsAfter > 0
    BY <1>1 DEF StepsAfter, PhaseSize
  <1>3. StepsFrom(pc) \in 0..9
    BY StepsFromBound
  <1>4. QED
    BY <1>1, <1>2, <1>3 DEF StepsLeft, End

LEMMA StepUses == ASSUME IInv, TypeOK', JobStep PROVE StepsLeft' < StepsLeft
PROOF
  <1> USE DEF StepsAfter, InIntents, InRestores, InSweep, InProbes, IntentSteps, RestoreSteps,
              ProbeSteps, Disabling, Restoring, StepsFrom
  <1>0. TypeOK /\ PhaseSteps
    BY DEF IInv, Positions
  <1>1. ASSUME NEW a \in Accounts,
               \/ KeepIntent(a) \/ ReconcileIntent(a) \/ KeepRestore(a) \/ ReconcileRestore(a)
               \/ SkipCandidate(a) \/ ProbeInvalid(a) \/ ProbeStart(a)
        PROVE  StepsLeft' < StepsLeft
    <2>1. a \in todo /\ todo' = todo \ {a} /\ pc # "idle" /\ pc' # "idle"
      BY <1>1 DEF KeepIntent, ReconcileIntent, KeepRestore, ReconcileRestore, SkipCandidate,
                  ProbeInvalid, ProbeStart, Skip, Work
    <2>2. StepsAfter' = StepsAfter
      BY <1>0, <1>1 DEF KeepIntent, ReconcileIntent, KeepRestore, ReconcileRestore, SkipCandidate,
                  ProbeInvalid, ProbeStart, Skip, Work, PhaseSteps, PhaseSize
    <2>3. QED
      BY <1>0, <2>1, <2>2, WorkUses
  <1>2. ASSUME NEW a \in Accounts, NEW isSlow \in BOOLEAN, RecordIntent(a, isSlow)
        PROVE  StepsLeft' < StepsLeft
    <2>1. CASE Work("dput", "sweep", a)
      <3>1. StepsAfter' = StepsAfter
        BY <1>0, <1>2, <2>1 DEF RecordIntent, Work, PhaseSteps, PhaseSize
      <3>2. QED
        BY <1>0, <1>2, <2>1, <3>1, WorkUses DEF RecordIntent, Work
    <2>2. CASE End("inconsistent") \/ End("capacity")
      BY <1>0, <1>2, <2>2, EndUses DEF RecordIntent
    <2>3. QED
      BY <1>2, <2>1, <2>2 DEF RecordIntent
  <1>3. CASE \/ DisablePut \/ DisablePost \/ RestoreClear \/ RestorePut \/ RestorePost
             \/ TestRestore \/ ProbeTest \/ BeginRestore \/ RestoreCutShort \/ ProbeException
    <2>1. (\E step \in Steps : /\ Goto(step) /\ StepsFrom(step) < StepsFrom(pc)
                               /\ pc # "idle" /\ step # "idle" /\ StepsAfter' = StepsAfter)
            => StepsLeft' < StepsLeft
      BY <1>0, GotoUses
    <2>2. CASE TestRestore /\ Leave("restores")
      <3>1. StepsAfter' = StepsAfter
        BY <1>0, <2>2 DEF TestRestore, Leave, PhaseSteps, TypeOK, JobOK
      <3>2. QED
        BY <1>0, <2>2, <3>1, LeaveUses DEF TestRestore
    <2>3. CASE DisablePut \/ DisablePost
      BY <1>0, <2>1, <2>3 DEF DisablePut, DisablePost, Write, Goto, PhaseSteps, Steps, PhaseSize
    <2>4. CASE RestoreClear \/ RestorePut \/ RestorePost \/ RestoreCutShort
      BY <1>0, <2>1, <2>4 DEF RestoreClear, RestorePut, RestorePost, RestoreCutShort, Write, Goto,
                              PhaseSteps, Steps, PhaseSize
    <2>5. CASE TestRestore /\ Goto("rclear")
      BY <1>0, <2>1, <2>5 DEF TestRestore, Goto, PhaseSteps, Steps, PhaseSize, TypeOK, JobOK
    <2>6. CASE ProbeTest
      BY <1>0, <2>1, <2>6 DEF ProbeTest, Goto, PhaseSteps, Steps, TypeOK, JobOK
    <2>7. CASE BeginRestore
      BY <1>0, <2>1, <2>7 DEF BeginRestore, Goto, PhaseSteps, Steps, TypeOK, JobOK
    <2>8. CASE ProbeException
      BY <1>0, <2>1, <2>8 DEF ProbeException, Goto, PhaseSteps, Steps, TypeOK, JobOK
    <2>9. QED
      BY <1>3, <2>2, <2>3, <2>4, <2>5, <2>6, <2>7, <2>8 DEF TestRestore
  <1>4. ASSUME NEW step \in Steps, Goto(step) \/ Leave(step), StepsFrom(step) < StepsFrom(pc),
               pc # "idle", step # "idle", StepsAfter' = StepsAfter
        PROVE  StepsLeft' < StepsLeft
    BY <1>0, <1>4, GotoUses, LeaveUses
  <1>5. CASE DisableVerify
    BY <1>0, <1>4, <1>5
    DEF DisableVerify, DisableSucceeded, Goto, PhaseSteps, Steps, TypeOK, JobOK
  <1>6. CASE DisableReadback
    <2>1. CASE DisableSucceeded \/ DisableFailed
      BY <1>0, <1>4, <1>6, <2>1
      DEF DisableReadback, DisableSucceeded, DisableFailed, Goto, Leave, PhaseSteps, Steps, TypeOK, JobOK
    <2>2. CASE DisableUncertain /\ mode # "sweep"
      BY <1>0, <1>4, <1>6, <2>2
      DEF DisableReadback, DisableUncertain, Leave, PhaseSteps, Steps, TypeOK, JobOK
    <2>3. CASE DisableUncertain /\ mode = "sweep"
      <3>1. /\ pc = "dreadback" /\ pc' = "sweep" /\ todo' = {} /\ mode' = "none"
        BY <1>6, <2>3 DEF DisableReadback, DisableUncertain
      <3>2. StepsAfter' = StepsAfter /\ StepsAfter = PhaseSize + 1
        BY <2>3, <3>1
      <3>3. /\ Cardinality(todo) \in Nat /\ Cardinality(todo') = 0 /\ StepsAfter \in Nat
        BY <1>0, <3>1, <3>2, SizesKnown, FS_EmptySet DEF TypeOK, JobOK, PhaseSize
      <3>4. QED
        BY <3>1, <3>2, <3>3 DEF StepsLeft
    <2>4. QED
      BY <1>6, <2>1, <2>2, <2>3 DEF DisableReadback
  <1>7. CASE Promote
    <2>1. CASE End("inconsistent")
      BY <1>0, <1>7, <2>1, EndUses DEF Promote
    <2>2. CASE ~End("inconsistent")
      <3>1. /\ pc = "dok" /\ pc' = IF mode = "sweep" THEN "sweep" ELSE "intents"
            /\ mode' = "none" /\ todo' = todo
        BY <1>7, <2>2 DEF Promote, Leave
      <3>2. StepsAfter' = StepsAfter /\ StepsFrom(pc') = 0 /\ StepsFrom(pc) = 1
        BY <1>0, <3>1 DEF PhaseSteps, TypeOK, JobOK
      <3>3. Cardinality(todo) \in Nat /\ StepsAfter \in Nat
        BY <1>0, SizesKnown DEF TypeOK, JobOK, PhaseSize
      <3>4. QED
        BY <3>1, <3>2, <3>3 DEF StepsLeft
    <2>3. QED
      BY <2>1, <2>2
  <1>8. CASE ClearIntent \/ RemoveFailedIntent
    BY <1>0, <1>4, <1>8
    DEF ClearIntent, RemoveFailedIntent, RemoveIntent, Leave, PhaseSteps, Steps, TypeOK, JobOK
  <1>9. CASE FinishIntents \/ FinishRestores \/ Select \/ FinishSweep
    <2>1. CASE End("inconsistent")
      BY <1>0, <1>9, <2>1, EndUses DEF FinishIntents, FinishRestores, Select, FinishSweep
    <2>2. CASE ~End("inconsistent")
      <3>1. Cardinality(todo) \in Nat /\ Cardinality(Accounts) \in Nat /\ PhaseSize \in Nat
        BY <1>0, SizesKnown DEF TypeOK, JobOK, PhaseSize
      <3>2. mode = "none" /\ mode' = mode
        BY <1>0, <1>9, <2>2
        DEF FinishIntents, FinishRestores, Select, FinishSweep, Goto, PhaseSteps, TypeOK, JobOK
      <3>3. CASE FinishRestores
        <4>1. /\ pc = "restores" /\ pc' = "select" /\ todo' = todo
          BY <3>3 DEF FinishRestores, Goto
        <4>2. StepsAfter = 2 * PhaseSize + 2 /\ StepsAfter' = 2 * PhaseSize + 1
          BY <3>2, <4>1 DEF PhaseSize
        <4>3. QED
          BY <3>1, <4>1, <4>2 DEF StepsLeft
      <3>4. CASE FinishIntents
        <4>1. pc = "intents" /\ pc' = "restores"
          BY <3>4 DEF FinishIntents
        <4>2. StepsAfter = 3 * PhaseSize + 2 /\ StepsAfter' = 2 * PhaseSize + 2
          BY <3>2, <4>1 DEF PhaseSize
        <4>3. QED
          BY <1>0, <3>1, <4>1, <4>2, PhaseUses
      <3>5. CASE Select
        <4>1. pc = "select" /\ pc' = "sweep"
          BY <3>5 DEF Select
        <4>2. StepsAfter = 2 * PhaseSize + 1 /\ StepsAfter' = PhaseSize + 1
          BY <3>2, <4>1 DEF PhaseSize
        <4>3. QED
          BY <1>0, <3>1, <4>1, <4>2, PhaseUses
      <3>6. CASE FinishSweep
        <4>1. pc = "sweep" /\ pc' = "probes"
          BY <2>2, <3>6 DEF FinishSweep
        <4>2. StepsAfter = PhaseSize + 1 /\ StepsAfter' = 1
          BY <3>2, <4>1 DEF PhaseSize
        <4>3. QED
          BY <1>0, <3>1, <4>1, <4>2, PhaseUses
      <3>7. QED
        BY <1>9, <3>3, <3>4, <3>5, <3>6
    <2>3. QED
      BY <2>1, <2>2
  <1>10. CASE RecordPass \/ RecordMiss
    <2>1. CASE End("inconsistent")
      BY <1>0, <1>10, <2>1, EndUses DEF RecordPass, RecordMiss
    <2>2. CASE Leave("probes")
      BY <1>0, <1>4, <1>10, <2>2 DEF RecordPass, RecordMiss, Leave, PhaseSteps, Steps, TypeOK, JobOK
    <2>3. QED
      BY <1>10, <2>1, <2>2 DEF RecordPass, RecordMiss
  <1>11. CASE FinishProbes
    BY <1>0, <1>11, EndUses DEF FinishProbes
  <1>12. CASE RestoreTooLate
    BY <1>0, <1>4, <1>12
    DEF RestoreTooLate, RestoreFailed, Goto, Leave, PhaseSteps, Steps, TypeOK, JobOK
  <1>13. CASE RestoreClassify
    BY <1>0, <1>4, <1>13
    DEF RestoreClassify, RestoreSucceeded, RestoreFailed, RestoreUncertain, Goto, Leave,
        PhaseSteps, Steps, TypeOK, JobOK
  <1>14. CASE CompleteRestore \/ CancelRestore
    BY <1>0, <1>4, <1>14
    DEF CompleteRestore, CancelRestore, Goto, Leave, PhaseSteps, Steps, TypeOK, JobOK
  <1>15. QED
    BY <1>1, <1>2, <1>3, <1>5, <1>6, <1>7, <1>8, <1>9, <1>10, <1>11, <1>12, <1>13, <1>14
    DEF JobStep

LEMMA StepsLeftBound ==
  ASSUME TypeOK
  PROVE  StepsLeft \in 0..(4 * PhaseSize + 10) /\ (StepsLeft = 0 <=> pc = "idle")
PROOF
  <1>1. Cardinality(todo) \in 0..Cardinality(Accounts) /\ Cardinality(Accounts) \in Nat
    BY SizesKnown DEF TypeOK, JobOK
  <1>2. StepsFrom(pc) \in 0..9
    BY StepsFromBound
  <1>3. StepsAfter \in 1..(3 * PhaseSize + 2) /\ PhaseSize \in Nat
    BY <1>1 DEF StepsAfter, PhaseSize
  <1>4. QED
    BY <1>1, <1>2, <1>3 DEF StepsLeft, PhaseSize

(* A job makes at most so many steps, four phases of ten for each account and ten: it has none   *)
(* left exactly when it is over.                                                                 *)
THEOREM JobIsBounded ==
  Spec => [](StepsLeft \in 0..(4 * PhaseSize + 10) /\ (StepsLeft = 0 <=> pc = "idle"))
PROOF BY TypeCorrect, StepsLeftBound, PTL

(* Each step of the job uses up one of them at least, and nobody else changes their number: not  *)
(* the upstream's answers, an operator, the server or a write that lands late                    *)
(* (_handle_maintenance_locked, run_sweep, _probe_quarantined).                                  *)
THEOREM JobAdvances ==
  Spec => [][/\ JobStep => StepsLeft' < StepsLeft
             /\ Environment => StepsLeft' = StepsLeft]_vars
PROOF
  <1>1. ASSUME IInv, TypeOK', [Next]_vars
        PROVE  /\ JobStep => StepsLeft' < StepsLeft
               /\ Environment => StepsLeft' = StepsLeft
    <2>1. Environment => job' = job
      BY DEF Environment, LandLate, ServerError, HumanEdit
    <2>2. job' = job => StepsLeft' = StepsLeft
      BY DEF job, StepsLeft, StepsAfter, InIntents, InRestores, InSweep, InProbes
    <2>3. QED
      BY <1>1, <2>1, <2>2, StepUses
  <1>2. IInv /\ TypeOK' /\ [Next]_vars =>
          (/\ JobStep => StepsLeft' < StepsLeft
           /\ Environment => StepsLeft' = StepsLeft)
    BY <1>1
  <1>3. QED
    BY InvariantHolds, TypeCorrect, <1>2, PTL DEF Spec

-----------------------------------------------------------------------------
(* The maintenance job implements QuarantineLedger: every step of a job, a crash, an    *)
(* operator or a late write is a step of the ledger, or changes nothing it speaks of.   *)

\* The steps at which a write of a mutation is sent, and the ledger's state.
Calling == {"dput", "dpost", "rclear", "rput", "rpost"}
Phases == [a \in Accounts |-> Phase(a)]
Calls == [a \in Accounts |-> Call(a)]

\* The steps the ledger sees.
LEMMA LedgerSteps ==
  ASSUME [Next]_vars
  PROVE  \/ \E a \in Accounts, isSlow \in BOOLEAN : RecordIntent(a, isSlow)
         \/ \E a \in Accounts : ReconcileIntent(a)
         \/ TestRestore \/ BeginRestore
         \/ DisablePut \/ DisablePost \/ RestoreClear \/ RestorePut \/ RestorePost
         \/ RestoreTooLate \/ RestoreCutShort \/ AbortJob
         \/ Promote \/ ClearIntent \/ RemoveFailedIntent \/ CompleteRestore \/ CancelRestore
         \/ \E a \in Accounts : \/ LandLate(a)
                                \/ \E s \in {"active", "inactive"}, b \in BOOLEAN : HumanEdit(a, s, b)
         \/ /\ UNCHANGED <<intents, markers, restores, owner, tainted>>
            /\ UNCHANGED <<pc, cur>> \/ (pc \notin Calling /\ pc' \notin Calling)
PROOF
  <1> USE DEF Calling
  <1>1. CASE StartJob \/ AbortJob \/ Environment \/ UNCHANGED vars
    BY <1>1 DEF StartJob, Environment, ServerError, vars, upstream, registry, job
  <1>2. CASE JobStep
    BY <1>2 DEF JobStep, upstream, registry, Skip, Work, Goto, Leave, End, KeepIntent, KeepRestore,
      ReconcileRestore, SkipCandidate, ProbeInvalid, ProbeStart, DisableVerify, DisableReadback,
      DisableSucceeded, DisableFailed, DisableUncertain, FinishIntents, FinishRestores, Select,
      FinishSweep, ProbeTest, RecordPass, RecordMiss, FinishProbes, RestoreClassify,
      RestoreSucceeded, RestoreFailed, RestoreUncertain, ProbeException
  <1>3. QED
    BY <1>1, <1>2 DEF Next

\* A step that moves one account to another phase, and no other.
LEMMA PhaseMove ==
  ASSUME NEW a \in Accounts, NEW to,
         Phase(a)' = to,
         \A b \in Accounts \ {a} : Phase(b)' = Phase(b)
  PROVE  Phases' = [Phases EXCEPT ![a] = to]
PROOF BY DEF Phases

LEMMA PhaseStays ==
  ASSUME UNCHANGED <<intents, markers, restores>>
  PROVE  Phases' = Phases /\ \A a : Phase(a)' = Phase(a)
PROOF BY DEF Phases, Phase

\* The job has one account in hand, and only its call can begin, go on or end.
LEMMA CallMove ==
  ASSUME NEW a \in Accounts, cur = a \/ pc \notin Calling, cur' = a \/ pc' \notin Calling
  PROVE  Calls' = [Calls EXCEPT ![a] = Call(a)']
PROOF
  <1>1. \A b \in Accounts \ {a} : Call(b)' = Call(b)
    BY DEF Call, Calling
  <1>2. QED
    BY <1>1 DEF Calls

LEMMA CallEnds ==
  ASSUME pc' \notin Calling
  PROVE  \/ Calls' = Calls
         \/ \E a \in Accounts : Calls' = [Calls EXCEPT ![a] = "none"]
PROOF
  <1>1. \A a \in Accounts : Call(a)' = "none"
    BY DEF Call, Calling
  <1>2. CASE cur \in Accounts
    BY <1>1, <1>2, CallMove
  <1>3. CASE cur \notin Accounts
    <2>1. \A a \in Accounts : Call(a) = "none"
      BY <1>3 DEF Call
    <2>2. QED
      BY <1>1, <2>1 DEF Calls
  <1>4. QED
    BY <1>2, <1>3

LEMMA CallStays ==
  ASSUME UNCHANGED <<pc, cur>> \/ (pc \notin Calling /\ pc' \notin Calling)
  PROVE  Calls' = Calls
PROOF BY DEF Calls, Call, Calling

\* A write-ahead and the call it is for.
LEMMA Begins ==
  ASSUME NEW a \in Accounts, NEW before, NEW to, NEW mutation,
         Phase(a) \in {before, to}, Phases' = [Phases EXCEPT ![a] = to],
         pc \notin Calling, cur' = a, Call(a)' = mutation, UNCHANGED <<owner, tainted>>
  PROVE  Ledger!Begin(a, before, to, mutation)
PROOF
  <1>1. Calls' = [Calls EXCEPT ![a] = mutation]
    BY CallMove
  <1>2. Call(a) = "none"
    BY DEF Call, Calling
  <1>3. QED
    BY <1>1, <1>2 DEF Ledger!Begin, Phases, Calls

\* A row written after a call.
LEMMA Moved ==
  ASSUME NEW a \in Accounts, NEW to,
         pc \notin Calling, pc' \notin Calling, UNCHANGED <<owner, tainted>>,
         Phase(a)' = to, \A b \in Accounts \ {a} : Phase(b)' = Phase(b)
  PROVE  Ledger!Move(a, Phase(a), to)
PROOF
  <1>1. Calls' = Calls /\ Call(a) = "none"
    BY CallStays DEF Call, Calling
  <1>2. Phases' = [Phases EXCEPT ![a] = to]
    BY PhaseMove
  <1>3. QED
    BY <1>1, <1>2 DEF Ledger!Move, Phases, Calls

\* One write of a call, which may be its last.
LEMMA Mutates ==
  ASSUME NEW a \in Accounts, NEW mutation, NEW o,
         cur = a, cur' = a, Call(a) = mutation, Call(a)' \in {mutation, "none"},
         UNCHANGED <<intents, markers, restores, tainted>>,
         owner' = owner \/ owner' = [owner EXCEPT ![a] = o]
  PROVE  UNCHANGED Ledger!vars \/ Ledger!EndCall(a) \/ Ledger!Mutate(a, mutation, o)
PROOF
  <1>1. Calls' = [Calls EXCEPT ![a] = Call(a)']
    BY CallMove
  <1>2. Calls' = Calls \/ Calls' = [Calls EXCEPT ![a] = "none"]
    BY <1>1 DEF Calls
  <1>3. Phases' = Phases
    BY PhaseStays
  <1>4. QED
    BY <1>2, <1>3 DEF Ledger!vars, Ledger!EndCall, Ledger!Mutate, Phases, Calls

LEMMA LedgerImplemented == ASSUME IInv, [Next]_vars PROVE [Ledger!Next]_(Ledger!vars)
PROOF
  <1>1. /\ intents \subseteq Accounts /\ markers \subseteq Accounts
        /\ intents \cap markers = {} /\ restores \subseteq markers
        /\ owner \in [Accounts -> Owners]
    BY DEF IInv, TypeOK, RegistryOK, UpstreamOK, RegistryConsistent
  <1>2. ASSUME UNCHANGED <<intents, markers, restores, owner, tainted>>,
               UNCHANGED <<pc, cur>> \/ (pc \notin Calling /\ pc' \notin Calling)
        PROVE  UNCHANGED Ledger!vars
    BY <1>2, PhaseStays, CallStays DEF Ledger!vars, Phases, Calls
  <1>3. ASSUME NEW a \in Accounts, NEW isSlow \in BOOLEAN, RecordIntent(a, isSlow)
        PROVE  [Ledger!Next]_(Ledger!vars)
    <2>1. /\ a \notin intents /\ a \notin markers /\ pc \notin Calling
          /\ UNCHANGED <<owner, tainted>>
      BY <1>3 DEF RecordIntent, upstream, IInv, Positions, ListsPresent, InSweep, Registered, Calling
    <2>2. CASE End("inconsistent") \/ End("capacity")
      BY <1>2, <1>3, <2>1, <2>2 DEF RecordIntent, End, Calling, Work, registry
    <2>3. CASE /\ intents' = intents \cup {a} /\ UNCHANGED <<markers, restores>>
               /\ Work("dput", "sweep", a)
      <3>1. Phase(a) = "free" /\ Phase(a)' = "suspect" /\ \A b \in Accounts \ {a} : Phase(b)' = Phase(b)
        BY <1>1, <2>1, <2>3 DEF Phase
      <3>2. cur' = a /\ Call(a)' = "off"
        BY <2>3 DEF Work, Call
      <3>3. Ledger!Suspect(a)
        BY <2>1, <3>1, <3>2, PhaseMove, Begins DEF Ledger!Suspect
      <3>4. QED
        BY <3>3 DEF Ledger!Next
    <2>4. QED
      BY <1>3, <2>1, <2>2, <2>3 DEF RecordIntent
  <1>4. ASSUME NEW a \in Accounts, ReconcileIntent(a) PROVE [Ledger!Next]_(Ledger!vars)
    <2>1. /\ a \in intents /\ pc \notin Calling
          /\ UNCHANGED <<intents, markers, restores, owner, tainted>>
      BY <1>4 DEF ReconcileIntent, upstream, registry, IInv, Positions, ListsPresent, InIntents, Calling
    <2>2. CASE Work("dput", "reconcile", a)
      <3>1. /\ Phase(a) = "suspect" /\ Phase(a)' = "suspect"
            /\ \A b \in Accounts \ {a} : Phase(b)' = Phase(b)
        BY <2>1, PhaseStays DEF Phase
      <3>2. cur' = a /\ Call(a)' = "off"
        BY <2>2 DEF Work, Call
      <3>3. Ledger!Suspect(a)
        BY <2>1, <3>1, <3>2, PhaseMove, Begins DEF Ledger!Suspect
      <3>4. QED
        BY <3>3 DEF Ledger!Next
    <2>3. CASE Work("clear", "reconcile", a) \/ Skip(a)
      BY <1>2, <2>1, <2>3 DEF Work, Skip, Calling
    <2>4. QED
      BY <1>4, <2>2, <2>3 DEF ReconcileIntent
  <1>5. CASE TestRestore \/ BeginRestore
    <2>1. cur \in markers /\ pc \notin Calling /\ UNCHANGED <<intents, markers, owner, tainted>>
      <3>1. pc \in {"rtest", "rbegin"} /\ UNCHANGED <<intents, markers, owner, tainted>>
        BY <1>5 DEF TestRestore, BeginRestore, upstream
      <3>2. pc = "rbegin" => mode = "probe"
        BY DEF IInv, TypeOK, JobOK, Positions, PhaseSteps, IntentSteps, RestoreSteps, Disabling, Restoring
      <3>3. QED
        BY <3>1, <3>2 DEF IInv, Positions, RowPresent, Calling
    <2>2. PICK a \in Accounts : a = cur
      BY <1>1, <2>1
    <2>3. CASE restores' = restores /\ pc' \notin Calling
      BY <1>2, <2>1, <2>3
    <2>4. CASE a \in restores' /\ restores' = restores \cup {a} /\ Goto("rclear")
      <3>1. /\ Phase(a) \in {"held", "releasing"} /\ Phase(a)' = "releasing"
            /\ \A b \in Accounts \ {a} : Phase(b)' = Phase(b)
        BY <1>1, <2>1, <2>2, <2>4 DEF Phase
      <3>2. cur' = a /\ Call(a)' = "on"
        BY <2>2, <2>4 DEF Goto, Call
      <3>3. Ledger!BeginRelease(a)
        BY <2>1, <3>1, <3>2, PhaseMove, Begins DEF Ledger!BeginRelease
      <3>4. QED
        BY <3>3 DEF Ledger!Next
    <2>5. CASE TestRestore
      <3>1. cur \in restores
        BY <2>5 DEF TestRestore, IInv, Positions, RowPresent
      <3>2. QED
        BY <2>2, <2>3, <2>4, <2>5, <3>1 DEF TestRestore, Leave, Calling
    <2>6. CASE BeginRestore
      BY <2>1, <2>2, <2>4, <2>6 DEF BeginRestore
    <2>7. QED
      BY <1>5, <2>5, <2>6
  <1>6. CASE DisablePut \/ DisablePost
    <2>1. cur \in intents /\ UNCHANGED <<intents, markers, restores, tainted>>
      BY <1>6 DEF DisablePut, DisablePost, Write, LoseWrite, upstream, registry, IInv, Positions,
         RowPresent, IntentSteps, Disabling
    <2>2. owner' = owner \/ owner' = [owner EXCEPT ![cur] = "service"]
      BY <1>1, <1>6 DEF DisablePut, DisablePost, Write, LoseWrite, upstream, Apply, PutInactive, PostFalse
    <2>3. PICK a \in Accounts : a = cur
      BY <1>1, <2>1
    <2>4. cur' = a /\ Call(a) = "off" /\ Call(a)' \in {"off", "none"}
      BY <1>6, <2>3 DEF DisablePut, DisablePost, Write, Goto, Call
    <2>5. UNCHANGED Ledger!vars \/ Ledger!EndCall(a) \/ Ledger!TakeOff(a)
      BY <2>1, <2>2, <2>3, <2>4, Mutates DEF Ledger!TakeOff
    <2>6. QED
      BY <2>5 DEF Ledger!Next
  <1>7. CASE RestoreClear \/ RestorePut \/ RestorePost
    <2>1. cur \in markers /\ UNCHANGED <<intents, markers, restores, tainted>>
      BY <1>7 DEF RestoreClear, RestorePut, RestorePost, Write, LoseWrite, upstream, registry, IInv,
         Positions, RowPresent, RestoreSteps, Restoring
    <2>2. owner' = owner \/ owner' = [owner EXCEPT ![cur] = "restored"]
      BY <1>1, <1>7 DEF RestoreClear, RestorePut, RestorePost, Write, LoseWrite, upstream, Apply,
         Recover, PutActive, PostTrue
    <2>3. PICK a \in Accounts : a = cur
      BY <1>1, <2>1
    <2>4. cur' = a /\ Call(a) = "on" /\ Call(a)' \in {"on", "none"}
      BY <1>7, <2>3 DEF RestoreClear, RestorePut, RestorePost, Write, Goto, Call
    <2>5. UNCHANGED Ledger!vars \/ Ledger!EndCall(a) \/ Ledger!PutBack(a)
      BY <2>1, <2>2, <2>3, <2>4, Mutates DEF Ledger!PutBack
    <2>6. QED
      BY <2>5 DEF Ledger!Next
  <1>8. CASE RestoreTooLate \/ RestoreCutShort \/ AbortJob
    <2>1. pc' \notin Calling /\ UNCHANGED <<intents, markers, restores, owner, tainted>>
      BY <1>8 DEF RestoreTooLate, RestoreCutShort, RestoreFailed, AbortJob, Goto, Leave, End, Calling,
         upstream, registry
    <2>2. UNCHANGED Ledger!vars \/ \E a \in Accounts : Ledger!EndCall(a)
      BY <2>1, CallEnds, PhaseStays DEF Ledger!vars, Ledger!EndCall, Phases, Calls
    <2>3. QED
      BY <2>2 DEF Ledger!Next
  <1>9. CASE Promote \/ ClearIntent \/ RemoveFailedIntent
    <2>1. /\ cur \in intents /\ pc \notin Calling /\ pc' \notin Calling
          /\ intents' = intents \ {cur} /\ restores' = restores /\ UNCHANGED <<owner, tainted>>
          /\ \/ markers' = markers \cup {cur}
             \/ Forgettable(cur) /\ markers' = markers
      <3>1. pc \in {"dok", "clear", "dfailed"} /\ cur \in intents
        BY <1>9 DEF Promote, ClearIntent, RemoveFailedIntent, RemoveIntent, IInv, Positions, RowPresent,
           IntentSteps
      <3>2. CASE Promote
        BY <3>1, <3>2 DEF Promote, upstream, Calling
      <3>3. CASE ClearIntent \/ RemoveFailedIntent
        BY <3>1, <3>3 DEF ClearIntent, RemoveFailedIntent, RemoveIntent, Leave, upstream, IInv,
           Ownership, Calling
      <3>4. QED
        BY <1>9, <3>2, <3>3
    <2>2. PICK a \in Accounts : a = cur
      BY <1>1, <2>1
    <2>3. Phase(a) = "suspect" /\ \A b \in Accounts \ {a} : Phase(b)' = Phase(b)
      BY <1>1, <2>1, <2>2 DEF Phase
    <2>4. CASE markers' = markers \cup {cur}
      <3>1. Phase(a)' = "held"
        BY <1>1, <2>1, <2>2, <2>4 DEF Phase
      <3>2. Ledger!Confirm(a)
        BY <2>1, <2>3, <3>1, Moved DEF Ledger!Confirm
      <3>3. QED
        BY <3>2 DEF Ledger!Next
    <2>5. CASE markers' = markers /\ Forgettable(cur)
      <3>1. Phase(a)' = "free"
        BY <1>1, <2>1, <2>2, <2>5 DEF Phase
      <3>2. Ledger!Drop(a)
        BY <2>1, <2>2, <2>3, <2>5, <3>1, Moved DEF Ledger!Drop, Ledger!Forgettable, Forgettable
      <3>3. QED
        BY <3>2 DEF Ledger!Next
    <2>6. QED
      BY <2>1, <2>4, <2>5
  <1>10. CASE CompleteRestore
    <2>1. /\ cur \in markers \cap restores /\ pc \notin Calling /\ pc' \notin Calling
          /\ restores' = restores \ {cur} /\ intents' = intents /\ markers' = markers \ {cur}
          /\ UNCHANGED <<owner, tainted>> /\ Forgettable(cur)
      BY <1>10 DEF CompleteRestore, Leave, Goto, upstream, IInv, Ownership, Positions, RowPresent,
         RestoreSteps, Calling
    <2>2. PICK a \in Accounts : a = cur
      BY <1>1, <2>1
    <2>3. Phase(a) = "releasing" /\ Phase(a)' = "free" /\ \A b \in Accounts \ {a} : Phase(b)' = Phase(b)
      BY <1>1, <2>1, <2>2 DEF Phase
    <2>4. Ledger!Release(a)
      BY <2>1, <2>2, <2>3, Moved DEF Ledger!Release, Ledger!Forgettable, Forgettable
    <2>5. QED
      BY <2>4 DEF Ledger!Next
  <1>11. CASE CancelRestore
    <2>1. /\ pc \notin Calling /\ pc' \notin Calling
          /\ restores' = restores \ {cur} /\ intents' = intents /\ markers' = markers
          /\ UNCHANGED <<owner, tainted>>
      BY <1>11 DEF CancelRestore, Leave, Goto, upstream, Calling
    <2>2. CASE cur \notin restores
      BY <1>2, <2>1, <2>2
    <2>3. CASE cur \in restores
      <3>1. PICK a \in Accounts : a = cur
        BY <1>1, <2>3
      <3>2. Phase(a) = "releasing" /\ Phase(a)' = "held" /\ \A b \in Accounts \ {a} : Phase(b)' = Phase(b)
        BY <1>1, <2>1, <2>3, <3>1 DEF Phase
      <3>3. Ledger!AbandonRelease(a)
        BY <2>1, <3>2, Moved DEF Ledger!AbandonRelease
      <3>4. QED
        BY <3>3 DEF Ledger!Next
    <2>4. QED
      BY <2>2, <2>3
  <1>12. ASSUME NEW a \in Accounts, LandLate(a) PROVE [Ledger!Next]_(Ledger!vars)
    <2>1. /\ \E o \in Owners : owner' = [owner EXCEPT ![a] = o]
          /\ tainted' = tainted \cup {a} /\ UNCHANGED <<intents, markers, restores, pc, cur>>
      BY <1>1, <1>12 DEF LandLate, Apply, Recover, PutInactive, PostFalse, PutActive, PostTrue, Owners,
         registry, job
    <2>2. Ledger!Land(a)
      BY <2>1, PhaseStays, CallStays DEF Ledger!Land, Ledger!Owners, Owners, Phases, Calls
    <2>3. QED
      BY <2>2 DEF Ledger!Next
  <1>13. ASSUME NEW a \in Accounts, NEW s \in {"active", "inactive"}, NEW b \in BOOLEAN, HumanEdit(a, s, b)
         PROVE  [Ledger!Next]_(Ledger!vars)
    <2>1. /\ owner' = [owner EXCEPT ![a] = "human"]
          /\ UNCHANGED <<intents, markers, restores, tainted, pc, cur>>
      BY <1>13 DEF HumanEdit, registry, job
    <2>2. Ledger!Edit(a)
      BY <2>1, PhaseStays, CallStays DEF Ledger!Edit, Phases, Calls
    <2>3. QED
      BY <2>2 DEF Ledger!Next
  <1>14. QED
    BY LedgerSteps, <1>2, <1>3, <1>4, <1>5, <1>6, <1>7, <1>8, <1>9, <1>10, <1>11, <1>12, <1>13

(* The job implements the ledger: it sends the writes that take an account out of       *)
(* dispatch only while the account's intent is stored, those that put it back only      *)
(* while its restore intent is, changes no row under them, and forgets no account it    *)
(* keeps out of dispatch.                                                               *)
THEOREM LedgerKept == Spec => KeepsLedger
PROOF
  <1>1. Init => Ledger!Init
    BY DEF Init, Ledger!Init, Phase, Call
  <1>2. IInv /\ [Next]_vars => [Ledger!Next]_(Ledger!vars)
    BY LedgerImplemented
  <1>3. QED
    BY <1>1, <1>2, InvariantHolds, PTL DEF Spec, KeepsLedger, Ledger!Spec
=============================================================================

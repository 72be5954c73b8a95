---------------------------- MODULE GuardianCycle ----------------------------
(***************************************************************************)
(* Guardian's cycles: GuardianEngine.run_once over the input snapshots the *)
(* scheduler publishes, the engine's lease, the claim on a snapshot, the   *)
(* channels' rows, and the operators who command channels meanwhile.       *)
(*                                                                         *)
(* A run is a cycle in progress: the background loop's, or one an operator *)
(* asked for.  The lease and the claim last a fixed time and are not       *)
(* renewed.  What a snapshot says of a channel is chosen when it is read.  *)
(***************************************************************************)
EXTENDS GuardianChannel, FiniteSets

CONSTANTS
  Channels,
  Runs,        \* bound: cycles in progress; a run that is over is used again
  Snapshots,   \* bound: snapshots not yet consumed; one that is consumed is used again
  Readings,    \* bound: the readings met, of AllReadings
  Commands,    \* bound: the commands given, of Controls
  NoRun, NoSnapshot, NoChannel,
  MaxFaults    \* bound: crashes, errors, and leases or claims that expire under a run

ASSUME ReadingsAssumption == Readings \subseteq AllReadings
ASSUME CommandsAssumption == Commands \subseteq Controls
ASSUME NamesAssumption ==
  NoRun \notin Runs /\ NoSnapshot \notin Snapshots /\ NoChannel \notin Channels
ASSUME FaultsAssumption == MaxFaults \in Nat
ASSUME ChannelsAssumption == IsFiniteSet(Channels)

VARIABLES
  rows,       \* guardian_channels
  pending,    \* guardian_input_snapshots not consumed
  older,      \* of each, those of pending captured before it
  expired,    \* those of pending captured expire_seconds ago
  unreadable, \* those on which every evaluation raises
  claimer,    \* claim_owner
  claimed,    \* those whose claim_expires_at has not passed
  holder,     \* owner of the engine's lease
  leased,     \* its expires_at has not passed
  at,         \* where a run is in run_once
  cancel,     \* cancel_requested of its row in guardian_runs, while the row is RUNNING
  input,      \* the snapshot it claimed
  outcome,    \* the status it is about to finish with
  todo,       \* the channels it has yet to evaluate
  cur, read,  \* the channel it evaluates, the row it read
  fuses,      \* fuse_count
  whole,      \* history: a run that evaluated every channel consumed the newest snapshot
  handed,     \* history: how many runs took a snapshot to account recovery
  newest,     \* history: the snapshot published last
  lapsed,     \* history: a lease expired under a run, or two acquires met no row
  late,       \* history: runs whose claim expired
  commanded,  \* history: the last command of an operator
  crossed,    \* history: channels commanded while a run had read their row
  passes,     \* history: good checks in a row since the channel is fused
  faults

table == <<pending, older, expired, unreadable, newest>>
claims == <<claimer, claimed>>
lease == <<holder, leased, lapsed>>
control == <<at, cancel, input, outcome>>
work == <<todo, cur, read, fuses>>
channels == <<rows, commanded, crossed, passes>>
history == <<whole, handed, late>>
vars == <<table, claims, lease, control, work, channels, history, faults>>

Places == {"idle", "started", "norow", "leased", "compacted", "evaluating",
           "release", "refused", "finish", "leave"}
Ends == {"SUCCEEDED", "FAILED", "CANCELLED"}

TypeOK ==
  /\ rows \in [Channels -> Rows]
  /\ pending \subseteq Snapshots /\ older \in [Snapshots -> SUBSET pending]
  /\ expired \subseteq pending
  /\ unreadable \subseteq Snapshots
  /\ claimer \in [Snapshots -> Runs \cup {NoRun}] /\ claimed \subseteq Snapshots
  /\ holder \in Runs \cup {NoRun} /\ leased \in BOOLEAN
  /\ at \in [Runs -> Places]
  /\ cancel \in [Runs -> BOOLEAN]
  /\ input \in [Runs -> Snapshots \cup {NoSnapshot}] /\ outcome \in [Runs -> Ends]
  /\ todo \in [Runs -> SUBSET Channels]
  /\ cur \in [Runs -> Channels \cup {NoChannel}] /\ read \in [Runs -> Rows]
  /\ fuses \in [Runs -> 0..MaxSwitch]
  /\ whole \in BOOLEAN /\ handed \in [Snapshots -> 0..2]
  /\ newest \in Snapshots \cup {NoSnapshot}
  /\ lapsed \in BOOLEAN /\ late \subseteq Runs
  /\ commanded \in [Channels -> Controls] /\ crossed \subseteq Channels
  /\ passes \in [Channels -> 0..2]
  /\ faults \in 0..MaxFaults

Init ==
  /\ rows = [c \in Channels |-> Unknown]
  /\ pending = {} /\ older = [s \in Snapshots |-> {}] /\ newest = NoSnapshot
  /\ expired = {} /\ unreadable = {}
  /\ claimer = [s \in Snapshots |-> NoRun] /\ claimed = {}
  /\ holder = NoRun /\ leased = FALSE /\ lapsed = FALSE
  /\ at = [r \in Runs |-> "idle"] /\ cancel = [r \in Runs |-> FALSE]
  /\ input = [r \in Runs |-> NoSnapshot] /\ outcome = [r \in Runs |-> "FAILED"]
  /\ todo = [r \in Runs |-> {}] /\ cur = [r \in Runs |-> NoChannel]
  /\ read = [r \in Runs |-> Unknown] /\ fuses = [r \in Runs |-> 0]
  /\ whole = FALSE /\ handed = [s \in Snapshots |-> 0] /\ late = {}
  /\ commanded = [c \in Channels |-> "NONE"] /\ crossed = {}
  /\ passes = [c \in Channels |-> 0]
  /\ faults = 0
-----------------------------------------------------------------------------
Fault == faults < MaxFaults /\ faults' = faults + 1
NoFault == UNCHANGED faults

\* leased is true in run_once.
Working(r) == at[r] \in {"leased", "compacted", "evaluating", "release", "finish", "leave"}

Goes(r, place) == at' = [at EXCEPT ![r] = place]
Ending(r, end) == outcome' = [outcome EXCEPT ![r] = end]

\* An unconsumed row no worker holds: claim_owner IS NULL OR claim_expires_at <= now.
Claimable(s) == claimer[s] = NoRun \/ s \notin claimed

\* consumed_at = now
Leaves(S) ==
  /\ pending' = pending \ S
  /\ older' = [s \in Snapshots |-> IF s \in S THEN {} ELSE older[s] \ S]
  /\ expired' = expired \ S
  /\ UNCHANGED <<unreadable, newest>>

\* claim_owner = NULL, claim_expires_at = NULL
Unclaim(S) ==
  /\ claimer' = [s \in Snapshots |-> IF s \in S THEN NoRun ELSE claimer[s]]
  /\ claimed' = claimed \ S

(* Where a cycle begins: create_run, get_policy.  The run is a new one: of *)
(* an earlier run of its name nothing unexpired is left.                   *)
Begin(r) ==
  /\ at[r] = "idle" /\ ~(holder = r /\ leased) /\ \A s \in claimed : claimer[s] # r
  /\ Goes(r, "started")
  /\ Unclaim({s \in Snapshots : claimer[s] = r})
  /\ UNCHANGED <<table, lease, cancel, input, outcome, work, channels, history, faults>>

(* acquire_lease("engine"), the statements of ControlLease over another row. *)
\* Mutant: the row is overwritten whoever holds it.
HeldByNobody(r) == FALSE

HeldByOther(r) == holder \notin {r, NoRun} /\ leased

\* The next cycle is refused: GUARDIAN_BUSY.
Busy(r) ==
  /\ at[r] = "started" /\ HeldByOther(r)
  /\ Goes(r, "refused")
  /\ UNCHANGED <<table, claims, lease, cancel, input, outcome, work, channels, history, faults>>

TakeLease(r) ==
  /\ holder' = r /\ leased' = TRUE
  /\ Goes(r, "leased")
  /\ UNCHANGED <<table, claims, cancel, input, outcome, work, channels, history, faults>>

Take(r) ==
  /\ at[r] = "started" /\ holder # NoRun /\ ~HeldByOther(r)
  /\ TakeLease(r) /\ UNCHANGED lapsed

SeeNoRow(r) ==
  /\ at[r] = "started" /\ holder = NoRun
  /\ Goes(r, "norow")
  /\ UNCHANGED <<table, claims, lease, cancel, input, outcome, work, channels, history, faults>>

\* The row of a run at work, inserted since, is overwritten.
Overwrites == holder # NoRun /\ leased /\ Working(holder)

Insert(r) == at[r] = "norow" /\ TakeLease(r) /\ lapsed' = (lapsed \/ Overwrites)

-----------------------------------------------------------------------------
(* The input snapshot.                                                     *)

\* A row that is not the newest of pending.
Behind(s) == \E q \in pending : s \in older[q]

\* Mutant: the rows that a worker holds are superseded as well.
SupersededEvenClaimed == {s \in expired : Behind(s)}

\* Mutant: the row that is kept is the oldest.
SupersededButOldest == {s \in expired : older[s] # {} /\ Claimable(s)}

Superseded == {s \in expired : Behind(s) /\ Claimable(s)}

\* supersede_expired_input_snapshots
Supersede(r) ==
  /\ at[r] = "leased"
  /\ Leaves(Superseded) /\ Unclaim(Superseded)
  /\ Goes(r, "compacted")
  /\ UNCHANGED <<lease, cancel, input, outcome, work, channels, history, faults>>

\* no_new_evidence
NothingNew(r) ==
  /\ at[r] = "compacted" /\ \A s \in pending : ~Claimable(s)
  /\ Goes(r, "finish") /\ Ending(r, "SUCCEEDED")
  /\ UNCHANGED <<table, claims, lease, cancel, input, work, channels, history, faults>>

\* claim_input_snapshot: the oldest row that nobody holds.
TakeClaim(r, s) ==
  /\ at[r] = "compacted"
  /\ s \in pending /\ Claimable(s) /\ \A q \in older[s] : ~Claimable(q)
  /\ claimer' = [claimer EXCEPT ![s] = r] /\ claimed' = claimed \cup {s}
  /\ UNCHANGED <<table, lease, cancel, channels, history>>

Claim(r, s) ==
  /\ TakeClaim(r, s)
  /\ input' = [input EXCEPT ![r] = s]
  /\ todo' = [todo EXCEPT ![r] = Channels]
  /\ fuses' = [fuses EXCEPT ![r] = 0]
  /\ Goes(r, "evaluating")
  /\ UNCHANGED <<outcome, cur, read, faults>>

\* The claim is committed and its answer is lost.
LoseClaim(r, s) ==
  /\ TakeClaim(r, s) /\ Fault
  /\ Goes(r, "release") /\ Ending(r, "FAILED")
  /\ UNCHANGED <<input, work>>

-----------------------------------------------------------------------------
(* _evaluate: one channel after the other.                                 *)

Between(r) == at[r] = "evaluating" /\ cur[r] = NoChannel /\ input[r] \notin unreadable

\* get_channel
Read(r, c) ==
  /\ Between(r) /\ c \in todo[r] /\ ~cancel[r]
  /\ cur' = [cur EXCEPT ![r] = c]
  /\ read' = [read EXCEPT ![r] = rows[c]]
  /\ UNCHANGED <<table, claims, lease, control, todo, fuses, channels, history, faults>>

\* upsert_channel, with the manual_control that was read.
Write(r, x) ==
  LET c == cur[r]
      row == Evaluated(read[r], x, fuses[r])
  IN
  /\ at[r] = "evaluating" /\ c \in Channels
  /\ rows' = [rows EXCEPT ![c] = row]
  /\ fuses' = IF NewFuse(read[r], row) THEN [fuses EXCEPT ![r] = @ + 1] ELSE fuses
  /\ todo' = [todo EXCEPT ![r] = @ \ {c}]
  /\ cur' = [cur EXCEPT ![r] = NoChannel]
  /\ read' = [read EXCEPT ![r] = Unknown]
  /\ passes' = [passes EXCEPT ![c] = IF ~Passes(read[r], x) THEN 0
                                     ELSE IF @ < 2 THEN @ + 1 ELSE @]
  /\ UNCHANGED <<table, claims, lease, control, commanded, crossed, history, faults>>

Cancelled(r) ==
  /\ Between(r) /\ todo[r] # {} /\ cancel[r]
  /\ Goes(r, "release") /\ Ending(r, "CANCELLED")
  /\ UNCHANGED <<table, claims, lease, cancel, input, work, channels, history, faults>>

\* consume_input_snapshot finds the run's claim, expired or not.
Consume(r) ==
  LET s == input[r] IN
  /\ Between(r) /\ todo[r] = {} /\ claimer[s] = r /\ s \in pending
  /\ Leaves({s}) /\ Unclaim({s})
  /\ whole' = (whole \/ s = newest)
  /\ Goes(r, "finish") /\ Ending(r, "SUCCEEDED")
  /\ UNCHANGED <<lease, cancel, input, work, channels, handed, late, faults>>

\* Mutant: nobody looks at what consume_input_snapshot returns.
LostClaimUnnoticed(r) ==
  /\ Between(r) /\ todo[r] = {} /\ ~(claimer[input[r]] = r /\ input[r] \in pending)
  /\ Goes(r, "finish") /\ Ending(r, "SUCCEEDED")
  /\ UNCHANGED <<table, claims, lease, cancel, input, work, channels, history, faults>>

\* "Guardian input snapshot claim was lost"
LostClaim(r) ==
  /\ Between(r) /\ todo[r] = {} /\ ~(claimer[input[r]] = r /\ input[r] \in pending)
  /\ Goes(r, "release") /\ Ending(r, "FAILED")
  /\ UNCHANGED <<table, claims, lease, cancel, input, work, channels, history, faults>>
-----------------------------------------------------------------------------
(* The end of a cycle: except and finally.                                 *)

\* release_input_snapshot, unless the claim is another's by now.
Release(r) ==
  /\ at[r] = "release"
  /\ Unclaim({s \in {input[r]} \cap pending : claimer[s] = r})
  /\ Goes(r, "finish")
  /\ UNCHANGED <<table, lease, cancel, input, outcome, work, channels, history, faults>>

\* Only a run that ends so goes on to account recovery, with the snapshot it consumed.
HandsOver(r) == outcome[r] = "SUCCEEDED" /\ input[r] # NoSnapshot

\* finish_run.  The row is RUNNING: no other process ends this one's runs.
Finish(r) ==
  /\ at[r] = "finish"
  /\ handed' = IF HandsOver(r)
               THEN [handed EXCEPT ![input[r]] = IF @ < 2 THEN @ + 1 ELSE @] ELSE handed
  /\ Goes(r, "leave")
  /\ UNCHANGED <<table, claims, lease, cancel, input, outcome, work, channels, whole, late, faults>>

\* Of a run that is over, nothing of its memory or its row is read again.
Forgets(R) ==
  /\ at' = [r \in Runs |-> IF r \in R THEN "idle" ELSE at[r]]
  /\ cancel' = [r \in Runs |-> cancel[r] /\ r \notin R]
  /\ input' = [r \in Runs |-> IF r \in R THEN NoSnapshot ELSE input[r]]
  /\ outcome' = [r \in Runs |-> IF r \in R THEN "FAILED" ELSE outcome[r]]
  /\ todo' = [r \in Runs |-> todo[r] \ {c \in Channels : r \in R}]
  /\ cur' = [r \in Runs |-> IF r \in R THEN NoChannel ELSE cur[r]]
  /\ read' = [r \in Runs |-> IF r \in R THEN Unknown ELSE read[r]]
  /\ fuses' = [r \in Runs |-> IF r \in R THEN 0 ELSE fuses[r]]
  /\ late' = late \ R
  /\ UNCHANGED <<table, claims, channels, whole, handed>>

ReleasesLease(r) ==
  IF holder = r THEN holder' = NoRun /\ leased' = FALSE ELSE UNCHANGED <<holder, leased>>

\* release_lease
Leave(r) ==
  /\ at[r] = "leave"
  /\ ReleasesLease(r) /\ Forgets({r}) /\ UNCHANGED <<lapsed, faults>>

\* finish_run; leased is false: the lease is not released.
Refused(r) ==
  /\ at[r] = "refused"
  /\ Forgets({r}) /\ UNCHANGED <<lease, faults>>

\* A statement raises, or validation of the snapshot.
Fails(r) ==
  /\ Goes(r, "release") /\ Ending(r, "FAILED")
  /\ cur' = [cur EXCEPT ![r] = NoChannel] /\ read' = [read EXCEPT ![r] = Unknown]
  /\ UNCHANGED <<table, claims, lease, cancel, input, todo, fuses, channels, history>>

CannotRead(r) ==
  /\ at[r] = "evaluating" /\ input[r] \in unreadable /\ Fails(r) /\ UNCHANGED faults

Raise(r) ==
  /\ \/ at[r] \in {"leased", "compacted", "evaluating"}
     \/ at[r] \in {"release", "finish"} /\ outcome[r] # "FAILED"
  /\ Fault /\ Fails(r)

\* acquire_lease raises, its row written or not.
LoseLease(r) ==
  /\ at[r] = "norow" \/ (at[r] = "started" /\ ~HeldByOther(r))
  /\ Fault
  /\ \/ holder' = r /\ leased' = TRUE /\ lapsed' = (lapsed \/ Overwrites)
     \/ UNCHANGED lease
  /\ Goes(r, "refused")
  /\ UNCHANGED <<table, claims, cancel, input, outcome, work, channels, history>>

\* The run's task is cancelled, or the statements of except or finally raise: its row
\* stays RUNNING; the lease is released, or not.
Drop(r) ==
  /\ at[r] # "idle" /\ Fault
  /\ \/ Working(r) /\ ReleasesLease(r) /\ UNCHANGED lapsed
     \/ UNCHANGED lease
  /\ Forgets({r})

\* The process dies; the next one's initialize marks the RUNNING runs INTERRUPTED.
Crash == Fault /\ Forgets(Runs) /\ UNCHANGED lease

-----------------------------------------------------------------------------
(* Around the cycles: the scheduler's snapshots, time, the operators.      *)

Publish(s) ==
  /\ s \notin pending /\ \A r \in Runs : input[r] # s
  /\ pending' = pending \cup {s} /\ newest' = s
  /\ older' = [older EXCEPT ![s] = pending]
  /\ UNCHANGED expired
  /\ \/ unreadable' = unreadable \cup {s} /\ Fault
     \/ unreadable' = unreadable \ {s} /\ NoFault
  /\ whole' = FALSE /\ handed' = [handed EXCEPT ![s] = 0]
  /\ UNCHANGED <<claims, lease, control, work, channels, late>>

\* The oldest that had not expired yet does.
Age ==
  /\ \E s \in pending \ expired :
       older[s] \subseteq expired /\ expired' = expired \cup {s}
  /\ UNCHANGED <<pending, older, unreadable, newest, claims, lease, control, work, channels,
                 history, faults>>

\* A cycle that is still at work finds out only when it consumes its snapshot.
ExpireLease ==
  /\ leased /\ leased' = FALSE
  /\ IF Working(holder) THEN Fault /\ lapsed' = TRUE ELSE NoFault /\ UNCHANGED lapsed
  /\ UNCHANGED <<holder, table, claims, control, work, channels, history>>

ExpireClaim(s) ==
  LET r == claimer[s] IN
  /\ s \in claimed /\ claimed' = claimed \ {s}
  /\ IF input[r] = s THEN Fault /\ late' = late \cup {r} ELSE NoFault /\ UNCHANGED late
  /\ UNCHANGED <<claimer, table, lease, control, work, channels, whole, handed>>

\* channel_action of a channel that has a row
Command(c, manual) ==
  /\ rows[c].known
  /\ rows' = [rows EXCEPT ![c] = Commanded(@, manual)]
  /\ commanded' = [commanded EXCEPT ![c] = manual]
  /\ crossed' = IF \E r \in Runs : cur[r] = c THEN crossed \cup {c} ELSE crossed \ {c}
  /\ UNCHANGED <<table, claims, lease, control, work, passes, history, faults>>

CancelRun(r) ==
  /\ at[r] \notin {"idle", "leave"} /\ ~cancel[r]
  /\ cancel' = [cancel EXCEPT ![r] = TRUE]
  /\ UNCHANGED <<table, claims, lease, at, input, outcome, work, channels, history, faults>>

-----------------------------------------------------------------------------
CycleStep(r) ==
  \/ Busy(r) \/ Take(r) \/ SeeNoRow(r) \/ Insert(r)
  \/ Supersede(r) \/ NothingNew(r)
  \/ \E s \in Snapshots : Claim(r, s)
  \/ \E c \in Channels : Read(r, c)
  \/ \E x \in Readings : Write(r, x)
  \/ Cancelled(r) \/ Consume(r) \/ LostClaim(r) \/ CannotRead(r)
  \/ Release(r) \/ Finish(r) \/ Leave(r) \/ Refused(r)

Mishap ==
  \/ Crash
  \/ \E r \in Runs : LoseLease(r) \/ Raise(r) \/ Drop(r)
  \/ \E r \in Runs, s \in Snapshots : LoseClaim(r, s)

Time == ExpireLease \/ Age \/ \E s \in Snapshots : ExpireClaim(s)

Operators ==
  \/ \E c \in Channels, manual \in Commands : Command(c, manual)
  \/ \E r \in Runs : CancelRun(r)

Next ==
  \/ \E r \in Runs : Begin(r) \/ CycleStep(r)
  \/ \E s \in Snapshots : Publish(s)
  \/ Mishap \/ Time \/ Operators

Spec == Init /\ [][Next]_vars
-----------------------------------------------------------------------------
(* Safety.                                                                 *)

\* Two cycles are at work at once only when a lease expired under its cycle, or two
\* acquires met no row and the second overwrote the first.  acquire_lease, release_lease.
OneCycle == lapsed \/ \A r, q \in Runs : Working(r) /\ Working(q) => r = q

\* Nobody takes a snapshot from the run that evaluates it while its claim lasts:
\* neither another claim nor a supersede.
ClaimHolds ==
  \A r \in Runs : at[r] = "evaluating" /\ r \notin late
                    => claimer[input[r]] = r /\ input[r] \in pending

\* A snapshot is handed to account recovery at most once by runs that finish, whatever
\* crashes, expires or is evaluated twice (consume_input_snapshot, finish_run).  A finished
\* run that is asked for again under its key hands it over once more: Replay, in
\* AccountRecovery.
HandedOnce == \A s \in Snapshots : handed[s] <= 1

\* The newest snapshot is not dropped: it waits until some run has evaluated all of it.
NewestEvaluated == newest = NoSnapshot \/ newest \in pending \/ whole

\* A channel an operator paused, fused or excluded is not put into service by any
\* cycle, unless its group or channel is out of Guardian's scope; crossed commands,
\* given while a cycle was between the read and the write of that row, aside.
CommandKept ==
  \A c \in Channels :
    commanded[c] # "NONE" /\ rows[c].desired => c \in crossed \/ rows[c].health = "EXCLUDED"

\* A command is kept, crossed or not: "prohibit probes or recovery for human-controlled
\* channels" (CHANGELOG.md:107).
HumanControlKept ==
  \A c \in Channels :
    commanded[c] # "NONE" /\ rows[c].desired => rows[c].health = "EXCLUDED"

\* A channel that is fused is declared healthy again only after two good checks, with no
\* failed one between them, since it was fused; rows overwritten by a crossing command or
\* by a second cycle aside.  hold_seconds > 0.  GuardianEngine._evaluate.
RecoversAfterGoodChecks ==
  [][\A c \in Channels : rows[c].health = "FUSED" /\ rows'[c].health = "HEALTHY"
                           => passes[c] >= 1 \/ c \in crossed \/ lapsed]_vars

(* Liveness.                                                               *)

\* The scheduler is on, its probes publish, cycles begin, time passes.
Fairness ==
  /\ \A r \in Runs : WF_vars(CycleStep(r))
  /\ WF_vars(\E r \in Runs : Begin(r))
  /\ WF_vars(\E s \in Snapshots : Publish(s))
  /\ WF_vars(ExpireLease) /\ WF_vars(Age) /\ \A s \in Snapshots : WF_vars(ExpireClaim(s))

FairSpec == Spec /\ Fairness

\* Every snapshot is evaluated or superseded in the end: one that cannot be read, a claim
\* left by a crash or a cycle always cancelled does not hold up the others for ever ("preventing
\* stale head-of-line data from blocking current scheduling", CHANGELOG.md:179); unless a
\* lease was lost, for two cycles that take turns to be cancelled can.
SnapshotsDrain == \A s \in Snapshots : s \in pending ~> s \notin pending \/ lapsed
=============================================================================

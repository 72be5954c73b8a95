--------------------------- MODULE AccountRecovery ---------------------------
(***************************************************************************)
(* Guardian's account recovery: the accounts a snapshot shows to be broken *)
(* (BAD_ACCOUNT_STATE), or those of a failing channel (CHANNEL_ERROR), are *)
(* tested one after the other, and enabled or disabled upstream.  A run is *)
(* executed by the background loop after a cycle, or by the control worker *)
(* for a RECOVERY job, under the lease "account-recovery".                 *)
(*                                                                         *)
(* Beside it, on the same accounts: operators, the upstream server, and    *)
(* the quarantine of AccountQuarantine, cut down to its markers.           *)
(***************************************************************************)
EXTENDS Naturals, FiniteSets

CONSTANTS
  Accounts,              \* their ids, in the order the runs take them
  Members,               \* the accounts of the channel's group
  Monitored,             \* the accounts of a monitored group
  Shared,                \* those of them that are in an unmonitored group too
  GroupLimit,            \* max_accounts_per_episode
  Loops, Workers,        \* what executes runs: Guardian's loop, the control worker
  Snapshots, NoSnapshot, \* bound: snapshots somebody refers to; a forgotten one is used again
  InitialLooks,          \* bound: how each account looks at first
  MaxMoves,              \* bound: what others do to accounts, and what fails
  MaxJobs                \* bound: recovery jobs, and cycles over the same snapshot

Runners == Loops \union Workers

\* available: active and schedulable.  limited: so, but with a deadline of the server.
\* paused: active, not schedulable, with no reason given.  held: the same, with the server's
\* reason for it.  off: inactive or disabled.  barred: expired, or an OAuth account.
Looks == {"available", "limited", "paused", "held", "error", "off", "barred"}
NotActive == {"error", "off"}

ASSUME AccountsAssumption == Accounts \subseteq Nat /\ IsFiniteSet(Accounts)
ASSUME GroupsAssumption == Members \subseteq Monitored /\ Monitored \subseteq Accounts
ASSUME RunnersAssumption == Loops \intersect Workers = {} /\ {"free", "dead"} \intersect Runners = {}
ASSUME SnapshotsAssumption == NoSnapshot \notin Snapshots /\ Snapshots # {}
ASSUME BoundsAssumption ==
  /\ GroupLimit \in Nat /\ InitialLooks \in [Accounts -> SUBSET Looks]
  /\ MaxMoves \in Nat /\ MaxJobs \in Nat

VARIABLES
  up,       \* how an account looks upstream
  marked,   \* accounts with a quarantine marker or intent
  passes,   \* recovery_success_streak of their probes
  obs,      \* guardian_account_observations: how a snapshot saw the accounts
  current,  \* the snapshot evaluated last
  episode,  \* the snapshot that opened the channel's open error episode
  rows,     \* guardian_account_recovery_runs, by snapshot and trigger
  ledger,   \* guardian_account_recovery_ledger: the accounts recorded under a row
  recent,   \* accounts with a tested ledger row younger than the cooldown
  holder,   \* the owner of the lease "account-recovery"
  run,      \* where a runner is in execute, and its local variables
  moves, jobs,
  paused,   \* history: accounts an operator took out of scheduling, which still are
  crossed,  \* history: runners whose account an operator paused between their read and their write
  lapsed,   \* history: the lease was lost under a run, or a run died or failed midway
  untried   \* history: RUNNING rows that a failed run left behind

accounts == <<up, paused, crossed>>
quarantine == <<marked, passes>>
evidence == <<obs, current, episode>>
store == <<rows, ledger, recent, untried>>
bounds == <<moves, jobs>>
vars == <<accounts, quarantine, evidence, store, holder, run, bounds, lapsed>>

-----------------------------------------------------------------------------
(* Accounts and runs *)

Kinds == {"channel", "bad"}
RowStatuses == {"none", "RUNNING", "SUCCEEDED", "FAILED", "INTERRUPTED"}
NoRows == [k \in Kinds |-> "none"]
Records == {"none", "untested", "tested"}
NoLedger == [k \in Kinds |-> [a \in Accounts |-> "none"]]

Places == {"idle", "begin", "open", "next", "test", "decide", "write", "record", "fail", "release"}
Plans == {"keep", "enable", "disable"}
None == 0

Resting == [at |-> "idle", snap |-> NoSnapshot, kind |-> "bad", more |-> FALSE, done |-> {},
            quar |-> {}, todo |-> {}, cur |-> None, auto |-> FALSE, plan |-> "keep",
            tested |-> FALSE, stop |-> FALSE, lost |-> FALSE]
RunRecords ==
  [at : Places, snap : Snapshots \union {NoSnapshot}, kind : Kinds, more : BOOLEAN,
   done : SUBSET Accounts, quar : SUBSET Accounts, todo : SUBSET Accounts,
   cur : Accounts \union {None}, auto : BOOLEAN, plan : Plans, tested : BOOLEAN,
   stop : BOOLEAN, lost : BOOLEAN]

Goes(p, r) == run' = [run EXCEPT ![p] = r]
Beginning(s, k, more, done) ==
  [Resting EXCEPT !.at = "begin", !.snap = s, !.kind = k, !.more = more, !.done = done]

\* Between acquire_lease and release_lease.
Executing(p) == run[p].at \notin {"idle", "begin"}
Working(p) == Executing(p) /\ run[p].at \notin {"open", "release"}

\* What somebody can still name when the open episode is ep: a job its channel run, a runner
\* its own.  Retention spares the snapshots that an open episode or a RUNNING row refers to.
Named(ep) ==
  (IF jobs < MaxJobs THEN {<<ep, "channel">>} ELSE {})
    \union {<<run[p].snap, run[p].kind>> : p \in Runners}

Init ==
  /\ up \in {u \in [Accounts -> Looks] : \A a \in Accounts : u[a] \in InitialLooks[a]}
  /\ marked \in SUBSET {a \in Accounts : up[a] = "off"}
  /\ passes \in {n \in [Accounts -> {0, 1}] : \A a \in Accounts \ marked : n[a] = 0}
  /\ obs = [s \in Snapshots |-> [a \in Accounts |-> "available"]]
  /\ current = NoSnapshot /\ episode = NoSnapshot
  /\ rows = [s \in Snapshots |-> NoRows]
  /\ ledger = [s \in Snapshots |-> NoLedger]
  /\ recent = {}
  /\ holder = "free"
  /\ run = [p \in Runners |-> Resting]
  /\ moves = 0 /\ jobs = 0
  /\ paused = {a \in Accounts : up[a] = "paused"} /\ crossed = {} /\ lapsed = FALSE /\ untried = {}

-----------------------------------------------------------------------------
(* The others *)

BecomesFor(p, a) == run[p].at = "write" /\ run[p].cur = a

\* An account changes its look; whoever was about to write it has read the old one.
Changes(a, look, byOperator) ==
  /\ up' = [up EXCEPT ![a] = look]
  /\ paused' = IF look = "paused" /\ byOperator THEN paused \union {a} ELSE paused \ {a}
  /\ crossed' = IF look = "paused" /\ byOperator
                THEN crossed \union {p \in Runners : BecomesFor(p, a)}
                ELSE crossed

Moved == moves < MaxMoves /\ moves' = moves + 1 /\ UNCHANGED jobs

Operator(a) ==
  /\ \/ up[a] \notin {"paused", "barred"} /\ Changes(a, "paused", TRUE)
     \/ up[a] # "available" /\ Changes(a, "available", TRUE)
     \/ up[a] # "off" /\ Changes(a, "off", TRUE)
  /\ Moved
  /\ UNCHANGED <<quarantine, evidence, store, holder, run, lapsed>>

Server(a) ==
  /\ \/ up[a] = "available" /\ \E look \in {"error", "held", "limited", "barred"} : Changes(a, look, FALSE)
     \/ up[a] \in {"held", "limited"} /\ Changes(a, "available", FALSE)
  /\ Moved
  /\ UNCHANGED <<quarantine, evidence, store, holder, run, lapsed>>

\* The maintenance job takes a slow account off and marks it.
Quarantine(a) ==
  /\ a \notin marked /\ up[a] = "available"
  /\ marked' = marked \union {a} /\ passes' = [passes EXCEPT ![a] = 0]
  /\ Changes(a, "off", FALSE)
  /\ Moved
  /\ UNCHANGED <<evidence, store, holder, run, lapsed>>

\* Mutant: the streak counts on.
QuarantinePassesOn(a) ==
  /\ a \in marked /\ up[a] = "off"
  /\ passes' = [passes EXCEPT ![a] = @ + 1]
  /\ Moved
  /\ UNCHANGED <<accounts, marked, evidence, store, holder, run, lapsed>>

\* Its probe of a marked account that is off passes; the second time it is restored.
QuarantinePasses(a) ==
  /\ a \in marked /\ up[a] = "off"
  /\ IF passes[a] = 0
     THEN passes' = [passes EXCEPT ![a] = 1] /\ UNCHANGED <<accounts, marked>>
     ELSE /\ passes' = [passes EXCEPT ![a] = 0]
          /\ marked' = marked \ {a} /\ Changes(a, "available", FALSE)
  /\ Moved
  /\ UNCHANGED <<evidence, store, holder, run, lapsed>>

\* It fails, is slow, or is INVALID because the account is not off.
QuarantineMisses(a) ==
  /\ passes[a] # 0
  /\ passes' = [passes EXCEPT ![a] = 0]
  /\ Moved
  /\ UNCHANGED <<accounts, marked, evidence, store, holder, run, lapsed>>

\* retry_cooldown_seconds have passed since the account was tested.
Cool(a) ==
  /\ a \in recent /\ recent' = recent \ {a}
  /\ UNCHANGED <<accounts, quarantine, evidence, rows, ledger, untried, holder, run, bounds, lapsed>>

-----------------------------------------------------------------------------
(* A cycle: the evaluation of a snapshot, and the runs it asks for *)

\* _normalize_account_observation_sync: a pause is the server's when the snapshot before
\* showed an error, or a pause of the server's.
Inferred(look, before) == IF look = "paused" /\ before \in {"held", "error"} THEN "held" ELSE look

\* What a monitor's entry says of the channel: a failure, and of what age.
Entries == [failing : BOOLEAN, age : {"fresh", "stale", "expired"}]
Requires(entry) == entry.failing /\ entry.age = "fresh"
Trusted(entry) == entry.age # "expired"

\* open_channel_error_episode keeps an open one; only an entry that is trusted closes it.
Opened(s, entry) ==
  IF Requires(entry) THEN (IF episode = NoSnapshot THEN s ELSE episode)
  ELSE IF Trusted(entry) THEN NoSnapshot ELSE episode

\* upsert_account_observations.
Observed(a) == Inferred(up[a], IF current = NoSnapshot THEN "available" ELSE obs[current][a])

\* The engine's run over a new snapshot has succeeded.  What nobody can name is forgotten.
Evaluate(p, s, entry) ==
  LET opened == Opened(s, entry)
      kept == Named(IF opened = episode THEN episode ELSE NoSnapshot)
  IN /\ p \in Loops /\ run[p].at = "idle"
     /\ s # current /\ \A k \in Kinds : <<s, k>> \notin kept
     /\ current' = s /\ episode' = opened
     /\ obs' = [t \in Snapshots |-> [a \in Accounts |->
                  IF t = s THEN Observed(a)
                  ELSE IF \E k \in Kinds : <<t, k>> \in kept THEN obs[t][a] ELSE "available"]]
     /\ rows' = [t \in Snapshots |-> [k \in Kinds |->
                   IF <<t, k>> \in kept THEN rows[t][k] ELSE "none"]]
     /\ ledger' = [t \in Snapshots |-> [k \in Kinds |->
                     IF <<t, k>> \in kept THEN ledger[t][k] ELSE NoLedger[k]]]
     /\ untried' = untried \intersect kept
     /\ Goes(p, IF Requires(entry) THEN Beginning(s, "channel", TRUE, {})
                                   ELSE Beginning(s, "bad", FALSE, {}))
     /\ UNCHANGED <<accounts, quarantine, recent, holder, bounds, lapsed>>

Requested == jobs < MaxJobs /\ jobs' = jobs + 1 /\ UNCHANGED moves

\* A cycle that finds no new snapshot, or is replayed under its idempotency key, asks for
\* the same runs again.
Replay(p) ==
  /\ p \in Loops /\ run[p].at = "idle" /\ current # NoSnapshot
  /\ Requested
  /\ Goes(p, IF episode = current \/ rows[current]["channel"] # "none"
             THEN Beginning(current, "channel", TRUE, {})
             ELSE Beginning(current, "bad", FALSE, {}))
  /\ UNCHANGED <<accounts, quarantine, evidence, store, holder, lapsed>>

Abnormal(look) == look \in {"error", "off", "held"}

\* prepare_recovery_job, and the job it becomes.
Submit(p) ==
  /\ p \in Workers /\ run[p].at = "idle" /\ current # NoSnapshot
  /\ Requested
  /\ IF \E a \in Accounts : Abnormal(obs[current][a])
     THEN Goes(p, Beginning(current, "bad", FALSE, {}))
     ELSE episode # NoSnapshot /\ Goes(p, Beginning(episode, "channel", FALSE, {}))
  /\ UNCHANGED <<accounts, quarantine, evidence, store, holder, lapsed>>

-----------------------------------------------------------------------------
(* execute *)

\* ACCOUNT_RECOVERY_BUSY ends the cycle, or the job.
Busy(p) ==
  /\ run[p].at = "begin" /\ holder # "free"
  /\ Goes(p, Resting)
  /\ UNCHANGED <<accounts, quarantine, evidence, store, holder, bounds, lapsed>>

\* Mutant: a lease that has not run out is taken over.
AcquireAnyway(p) ==
  /\ run[p].at = "begin"
  /\ holder' = p
  /\ Goes(p, [run[p] EXCEPT !.at = "open", !.quar = marked])
  /\ UNCHANGED <<accounts, quarantine, evidence, store, bounds, lapsed>>

\* The quarantined accounts are read before the lease is asked for.
Acquire(p) ==
  /\ run[p].at = "begin" /\ holder = "free"
  /\ holder' = p
  /\ Goes(p, [run[p] EXCEPT !.at = "open", !.quar = marked])
  /\ UNCHANGED <<accounts, quarantine, evidence, store, bounds, lapsed>>

\* select_account_recovery_candidates, for an account of the scope.
Selected(k, look, isQuarantined) ==
  /\ look \notin {"paused", "barred"}
  /\ look = "limited" => isQuarantined
  /\ k = "bad" => Abnormal(look) \/ isQuarantined
Scope(k) == IF k = "channel" THEN Members ELSE Monitored
Writable(k, a) == k = "channel" \/ a \notin Shared

\* Mutant: the cooldown is not asked for a failing channel.
CandidatesAtOnce(r) ==
  {a \in Scope(r.kind) \ r.done : /\ Selected(r.kind, obs[r.snap][a], a \in r.quar)
                                  /\ ledger[r.snap][r.kind][a] = "none"
                                  /\ r.kind = "bad" => a \notin recent}

Candidates(r) ==
  {a \in Scope(r.kind) \ r.done : /\ Selected(r.kind, obs[r.snap][a], a \in r.quar)
                                  /\ ledger[r.snap][r.kind][a] = "none"
                                  /\ a \notin recent}

Row(r) == rows[r.snap][r.kind]
Joinable(r) == Row(r) \in {"none", "RUNNING"}
SetRow(r, status) == rows' = [rows EXCEPT ![r.snap][r.kind] = status]

\* Mutant: a run that failed is opened again.
OpenAgain(p) ==
  LET r == run[p]
  IN /\ r.at = "open"
     /\ IF Row(r) \in {"SUCCEEDED", "INTERRUPTED"}
        THEN Goes(p, [r EXCEPT !.at = "release"]) /\ UNCHANGED rows
        ELSE /\ SetRow(r, "RUNNING")
             /\ Goes(p, [r EXCEPT !.at = "next", !.quar = {}, !.todo = Candidates(r)])
     /\ UNCHANGED <<accounts, quarantine, evidence, ledger, recent, untried, holder, bounds, lapsed>>

\* create_account_recovery_run: a run that is over is returned as it is, one that is
\* RUNNING is joined.
Open(p) ==
  LET r == run[p]
      tooLarge == r.kind = "channel" /\ Cardinality(Members) > GroupLimit
  IN /\ r.at = "open"
     /\ IF ~Joinable(r)
        THEN Goes(p, [r EXCEPT !.at = "release"]) /\ UNCHANGED rows
        ELSE IF tooLarge
        THEN SetRow(r, "FAILED") /\ Goes(p, [r EXCEPT !.at = "release"])
        ELSE /\ SetRow(r, "RUNNING")
             /\ Goes(p, [r EXCEPT !.at = "next", !.quar = {}, !.todo = Candidates(r)])
     /\ UNCHANGED <<accounts, quarantine, evidence, ledger, recent, untried, holder, bounds, lapsed>>

\* The next account in order; once a write is in doubt the rest is only recorded.
Next1(r) == CHOOSE a \in r.todo : \A b \in r.todo : a <= b

NextAccount(p) ==
  LET r == run[p]
      taken == [r EXCEPT !.todo = @ \ {Next1(r)}, !.cur = Next1(r), !.auto = FALSE,
                         !.plan = "keep", !.tested = FALSE]
  IN /\ r.at = "next" /\ r.todo # {}
     /\ Goes(p, IF r.lost THEN [r EXCEPT !.at = "fail"]
                ELSE [taken EXCEPT !.at = IF r.stop THEN "record" ELSE "test"])
     /\ UNCHANGED <<accounts, quarantine, evidence, store, holder, bounds, lapsed>>

\* guardian_test_account fetches the account, and calls its test unless the account is not
\* Guardian's to judge.  What the snapshot says of a pause excuses it.
Excused(look) == look \in NotActive \union {"held"}
Untestable(initial, found) ==
  \/ initial = "limited" \/ found \in {"barred", "limited"}
  \/ found = "paused" /\ ~Excused(initial)

\* What account_test_result makes of the test's stream, if there is one; only a rejection by
\* the platform's routing and a missing answer say nothing of the account.
Streams == {"passed", "failed", "incomplete", "routing rejected"}
Verdict(stream) == IF stream \in {"routing rejected", "none"} THEN "unclear" ELSE stream

PlanFor(r, verdict) ==
  IF ~Writable(r.kind, r.cur) THEN "keep"
  ELSE IF verdict = "passed" THEN "enable"
  ELSE IF verdict = "unclear" /\ r.kind = "bad" THEN "keep"
  ELSE "disable"

Decided(r, plan) == [r EXCEPT !.at = IF plan = "keep" THEN "record" ELSE "decide", !.plan = plan]

Test(p) ==
  LET r == run[p]
      initial == obs[r.snap][r.cur]
  IN /\ r.at = "test"
     /\ \E found \in {up[r.cur], "unreadable"} :
          LET asTested == [r EXCEPT !.tested = TRUE, !.auto = "held" \in {initial, found}]
          IN \/ /\ Untestable(initial, found)
                /\ Goes(p, Decided(r, "keep")) /\ UNCHANGED accounts
             \/ \* An account whose state cannot be read is tested only if it was not active.
                /\ found = "unreadable" /\ initial \in {"available", "held"}
                /\ Goes(p, Decided(r, PlanFor(r, "unclear"))) /\ UNCHANGED accounts
             \/ /\ ~Untestable(initial, found)
                /\ found = "unreadable" => initial \in NotActive
                /\ \/ \E stream \in Streams \union {"none"} :
                        Goes(p, Decided(asTested, PlanFor(r, Verdict(stream))))
                   \/ Goes(p, Decided(asTested, "keep"))    \* the test raises
                \* The server may take an account that passes out of its error.
                /\ \/ UNCHANGED accounts
                   \/ up[r.cur] = "error" /\ run'[p].plan = "enable" /\ Changes(r.cur, "paused", FALSE)
     /\ UNCHANGED <<quarantine, evidence, store, holder, bounds, lapsed>>

\* guardian_enable_account and guardian_disable_account read the account again.
\* Mutant: a pause never stops the one.
EnableBlockedByTheServer(r, found) == found \in {"barred", "available"}

EnableBlocked(r, found) ==
  \/ found \in {"barred", "available"}
  \/ found \in {"paused", "limited"} /\ ~(r.auto \/ obs[r.snap][r.cur] \in NotActive)
DisableBlocked(found) == found \in {"held", "barred", "limited", "paused", "off"}

Decide(p) ==
  LET r == run[p]
      found == up[r.cur]
      blocked == IF r.plan = "enable" THEN EnableBlocked(r, found) ELSE DisableBlocked(found)
  IN /\ r.at = "decide"
     /\ \/ blocked /\ Goes(p, [r EXCEPT !.at = "record"])
        \/ ~blocked /\ Goes(p, [r EXCEPT !.at = "write"])
        \/ Goes(p, [r EXCEPT !.at = "record"])    \* unreadable
     /\ UNCHANGED <<accounts, quarantine, evidence, store, holder, bounds, lapsed>>

\* restore_account or disable_account: applied, or in doubt after some of its calls.
Write(p) ==
  LET r == run[p]
      target == IF r.plan = "enable" THEN "available" ELSE "off"
      partway == IF r.plan = "enable" THEN {"paused"} ELSE {}
      becomes(look) == /\ up' = [up EXCEPT ![r.cur] = look]
                       /\ paused' = IF look = up[r.cur] THEN paused ELSE paused \ {r.cur}
                       /\ crossed' = crossed \ {p}
  IN /\ r.at = "write"
     /\ \/ becomes(target) /\ Goes(p, [r EXCEPT !.at = "record"]) /\ UNCHANGED bounds
        \/ /\ Moved
           /\ \E look \in {up[r.cur], target} \union partway : becomes(look)
           /\ Goes(p, [r EXCEPT !.at = "record", !.stop = TRUE])
     /\ UNCHANGED <<quarantine, evidence, store, holder, lapsed>>

\* record_account_recovery_result, and the lease renewed after it.  A row of the ledger is
\* never overwritten: the second record of an account differs in time and is refused.
Record(p) ==
  LET r == run[p]
      new == ledger[r.snap][r.kind][r.cur] = "none"
      kept == holder \in {p, "free"}
  IN /\ r.at = "record"
     /\ IF new
        THEN /\ ledger' = [ledger EXCEPT ![r.snap][r.kind][r.cur] =
                             IF r.tested THEN "tested" ELSE "untested"]
             /\ recent' = IF r.tested THEN recent \union {r.cur} ELSE recent
             /\ holder' = IF kept THEN p ELSE holder
             /\ Goes(p, [r EXCEPT !.at = IF kept THEN "next" ELSE "fail", !.cur = None,
                                  !.auto = FALSE, !.plan = "keep", !.tested = FALSE])
        ELSE Goes(p, [r EXCEPT !.at = "fail"]) /\ UNCHANGED <<ledger, recent, holder>>
     /\ UNCHANGED <<accounts, quarantine, evidence, rows, untried, bounds, lapsed>>

\* The database is away for a moment.
RecordFails(p) ==
  /\ run[p].at = "record" /\ Moved
  /\ Goes(p, [run[p] EXCEPT !.at = "fail"])
  /\ UNCHANGED <<accounts, quarantine, evidence, store, holder, lapsed>>

\* finish_account_recovery_run(SUCCEEDED); refused when the row is over already with another
\* result.
Finish(p) ==
  LET r == run[p]
  IN /\ r.at = "next" /\ r.todo = {}
     /\ \/ /\ Row(r) = "RUNNING" /\ SetRow(r, "SUCCEEDED")
           /\ untried' = untried \ {<<r.snap, r.kind>>}
           /\ Goes(p, [r EXCEPT !.at = "release"])
        \/ /\ Row(r) = "SUCCEEDED" /\ UNCHANGED <<rows, untried>>
           /\ Goes(p, [r EXCEPT !.at = "release"])
        \/ /\ Row(r) # "RUNNING" /\ UNCHANGED <<rows, untried>>
           /\ Goes(p, [r EXCEPT !.at = "fail"])
     /\ UNCHANGED <<accounts, quarantine, evidence, ledger, recent, holder, bounds, lapsed>>

\* except Exception: the row is FAILED, or stays as it is; the cycle or the job ends.
Fail(p) ==
  LET r == run[p]
      ended == [r EXCEPT !.at = "release", !.more = FALSE]
      here == <<r.snap, r.kind>>
  IN /\ r.at = "fail"
     /\ \/ /\ Row(r) = "RUNNING" /\ SetRow(r, "FAILED")
           /\ untried' = untried \ {here} /\ UNCHANGED bounds
        \/ /\ Row(r) = "RUNNING" /\ Moved
           /\ untried' = untried \union {here} /\ UNCHANGED rows
        \/ Row(r) # "RUNNING" /\ UNCHANGED <<rows, untried, bounds>>
     /\ Goes(p, ended)
     /\ UNCHANGED <<accounts, quarantine, evidence, ledger, recent, holder, lapsed>>

\* Mutant: a channel run is the cycle's last.
ReleaseAlone(p) ==
  /\ run[p].at = "release"
  /\ holder' = IF holder = p THEN "free" ELSE holder
  /\ Goes(p, Resting)
  /\ UNCHANGED <<accounts, quarantine, evidence, store, bounds, lapsed>>

\* After a channel run the cycle goes on with the snapshot's bad accounts, but for those it
\* has tested.
AfterRun(r) ==
  IF ~r.more THEN Resting
  ELSE Beginning(r.snap, "bad", FALSE,
         r.done \union {a \in Accounts : ledger[r.snap][r.kind][a] = "tested"})

\* finally: release_lease, which only deletes the owner's own.
Release(p) ==
  LET r == run[p]
  IN /\ r.at = "release"
     /\ holder' = IF holder = p THEN "free" ELSE holder
     /\ Goes(p, AfterRun(r))
     /\ UNCHANGED <<accounts, quarantine, evidence, store, bounds, lapsed>>

\* renew_lease, every 40 seconds: it renews, takes a free lease again, or gives up.
Renew(p) ==
  /\ Executing(p) /\ holder # p /\ ~run[p].lost
  /\ IF holder = "free" THEN holder' = p /\ UNCHANGED run
     ELSE Goes(p, [run[p] EXCEPT !.lost = TRUE]) /\ UNCHANGED holder
  /\ UNCHANGED <<accounts, quarantine, evidence, store, bounds, lapsed>>

RenewFails(p) ==
  /\ Executing(p) /\ ~run[p].lost /\ Moved
  /\ Goes(p, [run[p] EXCEPT !.lost = TRUE])
  /\ UNCHANGED <<accounts, quarantine, evidence, store, holder, lapsed>>

\* 120 seconds pass under a run that does not come to its renewal.
Lapse(p) ==
  /\ Executing(p) /\ holder = p /\ Moved
  /\ holder' = "free" /\ lapsed' = TRUE
  /\ UNCHANGED <<accounts, quarantine, evidence, store, run>>

Stops ==
  /\ Moved
  /\ \E p \in Runners : run[p].at # "idle"
  /\ run' = [p \in Runners |-> Resting]
  /\ holder' = IF holder \in Runners THEN "dead" ELSE holder
  /\ crossed' = {} /\ untried' = {}
  /\ UNCHANGED <<up, paused, quarantine, evidence, ledger, recent, lapsed>>

\* Mutant: the runs it was in stay RUNNING.
RestartForgetful == Stops /\ UNCHANGED rows

\* The process stops, and is started again: its runs are INTERRUPTED.
Restart ==
  /\ Stops
  /\ rows' = [s \in Snapshots |-> [k \in Kinds |->
                IF rows[s][k] = "RUNNING" THEN "INTERRUPTED" ELSE rows[s][k]]]

DeadLeaseExpires ==
  /\ holder = "dead" /\ holder' = "free"
  /\ UNCHANGED <<accounts, quarantine, evidence, store, run, bounds, lapsed>>

Step(p) ==
  \/ Busy(p) \/ Acquire(p) \/ Open(p) \/ NextAccount(p) \/ Test(p) \/ Decide(p) \/ Write(p)
  \/ Record(p) \/ Finish(p) \/ Fail(p) \/ Release(p)

Cycle(p) == \E s \in Snapshots, entry \in Entries : Evaluate(p, s, entry)

Next ==
  \/ \E a \in Accounts : Operator(a) \/ Server(a) \/ Quarantine(a) \/ QuarantinePasses(a)
                          \/ QuarantineMisses(a) \/ Cool(a)
  \/ \E p \in Runners : \/ Cycle(p) \/ Replay(p) \/ Submit(p) \/ Step(p) \/ Renew(p)
                        \/ RecordFails(p) \/ RenewFails(p) \/ Lapse(p)
  \/ Restart \/ DeadLeaseExpires

Fairness ==
  /\ \A p \in Runners : WF_vars(Step(p))
  /\ \A p \in Loops : SF_vars(Cycle(p))     \* new snapshots keep coming
  /\ \A a \in Accounts : WF_vars(Cool(a))
  /\ WF_vars(DeadLeaseExpires)

Spec == Init /\ [][Next]_vars /\ Fairness

-----------------------------------------------------------------------------
(* Properties *)

TypeOK ==
  /\ up \in [Accounts -> Looks]
  /\ marked \subseteq Accounts /\ passes \in [Accounts -> {0, 1}]
  /\ obs \in [Snapshots -> [Accounts -> Looks]]
  /\ current \in Snapshots \union {NoSnapshot} /\ episode \in Snapshots \union {NoSnapshot}
  /\ rows \in [Snapshots -> [Kinds -> RowStatuses]]
  /\ ledger \in [Snapshots -> [Kinds -> [Accounts -> Records]]]
  /\ recent \subseteq Accounts
  /\ holder \in Runners \union {"free", "dead"}
  /\ run \in [Runners -> RunRecords]
  /\ moves \in 0..MaxMoves /\ jobs \in 0..MaxJobs
  /\ paused \subseteq Accounts /\ crossed \subseteq Runners
  /\ lapsed \in BOOLEAN /\ untried \subseteq Snapshots \X Kinds

\* Two runs are executed at once only after a lease ran out under one of them (the cycle and
\* a job share nothing but the lease).
OneExecutor ==
  \A p, q \in Runners : p # q /\ Executing(p) /\ Executing(q) => lapsed

\* An account tested within the cooldown is not tested again, by whatever run, unless the
\* lease ran out under one: the cooldown is judged once, when the run begins
\* (account_recovery.py: "must honour the cooldown too").
CooldownHonoured ==
  \A p \in Runners : run[p].at = "test" /\ run[p].cur \in recent => lapsed

\* An account that an operator took out of scheduling is not enabled or disabled, but where
\* the snapshot showed it broken, or the server's reason for the pause was seen, or the
\* operator came between the last read and the write.
PauseKept ==
  \A p \in Runners :
    run[p].at = "write" /\ run[p].cur \in paused =>
      \/ p \in crossed
      \/ run[p].plan = "enable" /\ (run[p].auto \/ obs[run[p].snap][run[p].cur] \in NotActive)

\* A row that is RUNNING is being executed, unless a failed run could not say that it ended:
\* nothing else waits for a row that will never end.
RunningIsExecuted ==
  \A s \in Snapshots, k \in Kinds :
    rows[s][k] = "RUNNING" =>
      \/ \E p \in Runners : Working(p) /\ run[p].snap = s /\ run[p].kind = k
      \/ <<s, k>> \in untried

\* A monitored account in error is tested, or leaves the error, sooner or later: whatever
\* becomes of a run, the next snapshot has runs of its own, and the cooldown of an earlier
\* test ends.
ErrorsTested ==
  \A a \in Monitored : up[a] = "error" /\ a \notin recent ~> up[a] # "error" \/ a \in recent

\* The records of a run that is over stay as they were counted into its result, unless a
\* lease ran out: record_account_recovery_result does not ask whether the run is over.
FinishedRunsFrozen ==
  [][\A s \in Snapshots, k \in Kinds :
       /\ rows[s][k] \in {"SUCCEEDED", "FAILED", "INTERRUPTED"}
       /\ rows'[s][k] # "none"
       => (ledger'[s][k] = ledger[s][k] /\ rows'[s][k] = rows[s][k]) \/ lapsed]_vars

=============================================================================

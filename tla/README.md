# Verification of sub2api-mcp

TLA+ models, TLC runs and TLAPS proofs about sub2api-mcp, the service that
watches a Sub2API installation, takes failing or slow upstream accounts out of
dispatch, remembers them in PostgreSQL and puts them back when they have
recovered. Paths are relative to `src/`, the root of the repository.

## The system

| Part | State | Operations | Talks to |
|---|---|---|---|
| Account quarantine (`src/sub2api_mcp/scheduler.py`, `adapters/sub2api.py`, `repository.py`, `core/maintenance*.py`, `core/recovery.py`) | `account_quarantines`, `account_quarantine_intents`, `account_quarantine_restore_intents`; the memory of the running maintenance job | reconcile intents, reconcile restores, sweep and disable, probe and restore | the upstream admin API (PUT status, POST schedulable, POST recover-state, GET), the database |
| Job queue and control worker (`jobs.py`, `repository.py`, `service.py`) | `jobs` | submit, claim, run, complete, fail, cancel, mark interrupted at start-up | scheduler handlers, MCP tools |
| Leases and scheduler (`scheduler.py`, `repository.py`) | `scheduler_leases`, `_latest_probe` | acquire, heartbeat, release; queue a probe each cycle; probe, then queue maintenance | the job queue, Guardian's snapshot store |
| Minimum pool, channel sweep, log guard (`core/maintenance.py`, `core/maintenance_gateway.py`) | `_disabled_ids`; the lists and pages it has read | list accounts, test those of failing channels, count slow answers in the usage log, choose, list again, disable one by one | upstream accounts, groups, usage logs; the quarantine's callbacks around each disable |
| Guardian account recovery (`guardian/account_recovery.py`, `guardian/service.py`) | `guardian_account_recovery_runs` and `_ledger`, account observations, error episodes, the lease `account-recovery` | runs for a snapshot's bad accounts and for a failing channel: test an account, enable or disable it, record | the upstream admin API: **the accounts the quarantine writes, under another lease** |
| Guardian engine and channel state machine (`guardian/engine.py`, `state_machine.py`, `recovery.py`, ...) | channel health, fuse, manual control, probe budget | observe a snapshot, evaluate channels, act | Guardian's repository |
| Guardian repository (`guardian/repository.py`) | input snapshots, policy revision, runs, leases, idempotency keys, budgets | claim, consume, supersede, compare-and-set, prune | PostgreSQL |
| Guardian HTTP API (`guardian/api.py`, `guardian/service.py`) | policy and its revision, channel overrides, idempotency results | PATCH policy, start and stop scheduling, PATCH channel, submit a recovery job | clients that retry, Guardian's repository, the job queue |
| Actor bridge and bindings (`actor_bridge.py`, `repository.py`, `core/bindings.py`) | bindings, used nonces | verify a signed request, bind, unbind, query | the upstream user API |
| Channel probe and monitor client (`core/probe.py`, `core/monitor.py`) | the last probe, kept for a while | list channels, groups and accounts, read the usage log of each model, trace each channel to the group that serves it | the upstream's monitors and usage log; the sweep and the published snapshots |
| Sessions, MCP tools | signed cookies | validate and route | the services |
| Model plaza, image, metrics, configuration | none | fetching, parsing, formatting | |

The scheduler queues a `PROBE` job every cycle; the probe's result is published
to Guardian as a snapshot and a `MAINTENANCE` job follows. One control worker
runs these jobs one at a time. A maintenance job holds the account-control lease
and renews it from a heartbeat task; when a renewal fails the job's task is
cancelled, but a blocking upstream call it had handed to `asyncio.to_thread`
goes on in its thread.

What is hard about it:

- An account mutation is two or three HTTP writes and a read-back; each answer
  may be lost, each write may be applied by half, and the process may die between
  any two steps. Only rows written *before* the upstream write can tell a
  later job what happened.
- Operators use the Sub2API console, and the upstream server marks accounts with
  errors, at any moment between the job's reads and its writes.
- Leases, capacity checks and cancellations are read-then-write sequences in
  separate statements.
- Lists and logs are read page by page while they change, and what is decided on them is
  carried out many requests later.
- Two programs, the maintenance job and Guardian's recovery, enable and disable the same
  accounts under leases that do not exclude each other.
- A client that gets no answer sends its request again; the two copies overlap.

What makes each part correct: no account is left out of dispatch by the service and
forgotten by its registry; an operator's pause is not undone; a slow account is put
back only after two consecutive good probes; the registry's tables stay
consistent and within their capacity; jobs end; one job of a kind runs at a
time; an account pool is never drained below its minimum; a Guardian snapshot
is evaluated once; an operator's command is not overwritten by a cycle that
started before it; an account in error is tested sooner or later, and left to cool down
after a test; a command sent twice takes effect once.

## Modules

| Module | What it is |
|---|---|
| `AccountQuarantine` | the maintenance job, the registry, the upstream accounts, their operators, crashes and late writes |
| `QuarantineLedger` | what the registry promises, abstractly |
| `JobQueue` | the `jobs` table: schedulers, probe handlers and tools that submit, control workers that run, processes that crash and restart |
| `ControlLease` | the lease row, its acquire, the heartbeat and the release |
| `GuardianChannel` | what Guardian makes of one channel's row: decision, counters, commands, as functions |
| `GuardianCycle` | Guardian's cycles over the published snapshots, the engine's lease, the claims, the rows and the operators; extends `GuardianChannel` |
| `AccountRecovery` | Guardian's recovery runs, by its loop and by recovery jobs, with the snapshots' observations, the ledger and the lease; on accounts that operators, the server and the quarantine change |
| `ChannelProbe` | a probe: which group each channel is traced to, from a usage log that is read page by page |
| `ChannelSweep` | one pass of the maintenance coordinator over all accounts: lists, tests, usage log, minimum pool, writes |
| `MaintenanceCycle` | probe and pass together: extends `ChannelSweep` and `ChannelProbe` |
| `GuardianCommands` | requests that change policy, overrides and jobs, their revisions and idempotency keys, and the clients' retries |
| `MCAccountQuarantine`, `MCJobQueue`, `MCControlLease`, `MCGuardianCycle`, `MCAccountRecovery`, `MCChannelSweep`, `MCMaintenanceCycle`, `MCGuardianCommands` | instances for TLC |
| `AccountQuarantine_proofs`, `JobQueue_proofs`, `ControlLease_proofs`, `GuardianCycle_proofs`, `AccountRecovery_proofs`, `ChannelSweep_proofs`, `MaintenanceCycle_proofs`, `GuardianCommands_proofs` | an inductive invariant of each, and what follows from it; of the first, the fourth and the fifth also that their processes end after a bounded number of steps. The first shows that `AccountQuarantine` implements `QuarantineLedger`, `MaintenanceCycle_proofs` (which has the probe's invariant) that a maintenance job implements `ChannelSweep` and `ChannelProbe` |

`MaintenanceCycle` composes two models: a pass begins with the failing groups that a probe
found; it is proved to implement both. The others share no variables. They compose by assumption and guarantee:
`JobQueue` says which jobs run when (and that two maintenance jobs can be active),
`ControlLease` says when one of them may take itself for the only one, and
`AccountQuarantine` is that one job, with an abort possible at every step. `ChannelSweep`
opens its sweep phase: `AccountQuarantine` lets any account be a candidate, `ChannelSweep` says
which, and keeps of the quarantine only who is marked. `JobQueue`'s
probes publish the snapshots that appear in `GuardianCycle`, whose finished runs start
the account recoveries of `AccountRecovery`; that model has the cycle's result as one step
(`Evaluate`) and of the quarantine what touches accounts: taking one off with a marker,
passing probes, giving it back. To `AccountQuarantine` and `ChannelSweep`, Guardian's writes
are edits like an operator's. `GuardianCommands` is what reaches the policy that the cycles
read, and the recovery job that `JobQueue` hands to a worker.

In the modules, definitions commented `Mutant:` are not part of the
specification: each is one plausible bug in the definition that follows it, which
replaced by it makes a run fail. They keep the properties honest.

### AccountQuarantine and the code

| In the model | In the code |
|---|---|
| `status`, `sched` | the two account fields the service writes upstream; `error` is the upstream server's own |
| `intents`, `markers`, `restores`, `slow`, `streak`, `previous` | the rows of the three quarantine tables (`schema.py`) |
| `pc`, `mode`, `cur`, `todo`, `chosen`, `fresh`, `adjusted` | where `_handle_maintenance_locked` is and its local lists |
| `StartJob` ... `FinishIntents` ... `FinishRestores` ... `FinishSweep` ... `FinishProbes` | its four phases: reconcile intents, reconcile restores, sweep, probe |
| `RecordIntent`, `DisablePut`, `DisablePost`, `DisableVerify`, `DisableReadback`, `Promote`, `RemoveFailedIntent` | `disable_account` (PUT inactive, POST schedulable=false, read-back) between the intent and its promotion |
| `BeginRestore`, `RestoreClear`, `RestorePut`, `RestorePost`, `RestoreClassify`, `CompleteRestore`, `CancelRestore` | `restore_account` (recover-state, PUT active, POST schedulable=true, classification) between the restore intent and its removal |
| `RecordPass`, `RecordMiss` | `update_account_quarantine_probe` |
| `AbortJob` | the process dies, the lease is lost, or a database call raises; upstream writes that a thread still makes go to `late` |
| `LandLate` | such a write lands |
| `HumanEdit`, `ServerError` | an operator in the console (Guardian's own writes look the same), the upstream server |

Every upstream call may lose its answer (`LoseWrite`), applied or not. Abstracted to
a choice: the latency and result of a test, which accounts the log analysis and
the minimum pool offer to the sweep, the `ORDER BY` of a batch, group membership
and readability of an account (they only lead to KEEP or INVALID), deadlines
(`RestoreTooLate`, `RestoreCutShort`). `owner` (who last changed whether the account is in
dispatch: an operator, or the service, which took it out or restored it), `passes` and `tainted` are
histories, read by no action's guard. An account in `error` is the upstream's, not
the service's, so the final CLEAR of an intent may forget one that reads `error`
and unschedulable. `promote`'s `ON CONFLICT` branch is unreachable, because the tables are
disjoint (`RegistryConsistent`), and is left out.

`QuarantineLedger` knows the job only by the mutation it is carrying out (`call`: taking an account
out of dispatch, or putting it back), which `AccountQuarantine` maps from its step and its account
(`Call`). It tells the service's moves from everyone else's: an operator's edit makes `owner`
"human", and only a call "off" makes it "service" and only a call "on" makes it "restored". A call
"off" begins with the intent stored, a call "on" with the restore intent stored, and no row of the
account changes until the call is over; so a write sent before its row is a step the ledger does not
have, on either side, as the two mutants of `KeepsLedger` show. A write that lands after its caller is gone taints the
account, and may make `owner` anything.

### JobQueue and the code

| In the model | In the code |
|---|---|
| `type`, `status`, `queue` | the rows of `jobs`; `queue` is their `created_at` order |
| `Count`, `Insert` | the two statements of `create_job_with_capacity`, called by `queue_cycle` and `submit_control_job` |
| `Claim`, `LoseClaim` | `claim_next_job` with `FOR UPDATE SKIP LOCKED`; its commit whose answer is lost |
| `Publish`, `FailProbe`, `CountMaintenance`, `InsertMaintenance`, `SkipMaintenance` | `handle_probe` |
| `Maintain` | `handle_maintenance`, whose inside is `AccountQuarantine` |
| `Complete`, `Fail` | `run_once` after the handler, and `_worker_loop` when `fail_job` raises |
| `Cancel` | `cancel_job`, whose UPDATE PostgreSQL rejects |
| `Crash`, `Restart` | the end of a process, `initialize` of the next |

`app.py` closes the database pool before it stops the scheduler and awaits the
worker, so to the table an orderly stop is a crash. The scheduler lease excludes
nobody here, because it may expire at any time. `RECOVERY` jobs, submitted and
finished as `MAINTENANCE` jobs are, and the types that no longer exist are left out;
so is the switch that disables the scheduler. Because every cancellation is
rejected, `cancel_requested` is never set and `mark_running_job_cancelled` is never
reached.

### ControlLease and the code

| In the model | In the code |
|---|---|
| `owner`, `left` | the row of `account_control_lease`, its expiry relative to now |
| `Begin`, `Refuse`, `Take`, `SeeNoRow`, `Insert`, `Unanswered` | `acquire_account_control_lease`; `acquire_scheduler_lease` and Guardian's `acquire_lease` are the same statements over other rows |
| `StartJob`, `EndOperation`, `Release` | `_run_with_control_lease` |
| `Renew` | `_control_lease_heartbeat` |
| `Tick` | time; everything that counts down is relative, so there is no largest time |

`stamp` keeps the clock an acquire has read: it waits for a connection and a row
lock afterwards. The processes' clocks are assumed equal. `granted` and `raced` are
histories. The operation is one step that may end at any time, also by cancellation; what
a thread it has started does afterwards is `late` in `AccountQuarantine`.

### GuardianChannel, GuardianCycle and the code

| In the model | In the code |
|---|---|
| `Rows`, `rows` | `guardian_channels`: health, manual control, desired and upstream schedulability, and of `details_json` the streak and whether `healthy_since` and `fused_until` are set |
| `AllReadings` | what a cycle compares for a channel: the classified event, the head of the recent events, scope, freshness, warm-up, confidence and scores against their thresholds, pool size, the two deadlines |
| `Decide`, `Decided`, `Counted`, `Evaluated` | `decide_channel_state`, `_scope_decision`, the counters before it and the limit of fuses after it |
| `Commanded`, `Command` | `set_manual_control`, `channel_action` |
| `pending`, `older`, `expired`, `claimer`, `claimed` | `guardian_input_snapshots`: not consumed, the order of `captured_at`, older than `expire_seconds`, `claim_owner`, `claim_expires_at` not passed |
| `holder`, `leased` | the row `engine` of `guardian_leases` |
| `at`, `input`, `outcome`, `todo`, `cur`, `read`, `fuses`, `cancel` | where a `run_once` is, its local variables, `cancel_requested` |
| `Begin`, `Busy`, `Take`, `SeeNoRow`, `Insert` | `create_run`, `acquire_lease("engine")` |
| `Supersede`, `NothingNew`, `Claim` | `supersede_expired_input_snapshots`, `claim_input_snapshot` |
| `Read`, `Write`, `Cancelled` | `_evaluate`: `get_channel`, then `upsert_channel`; `cancel_requested` is read before each channel |
| `Consume`, `LostClaim`, `Release`, `Finish`, `Leave` | the rest of `run_once`, `except` and `finally` included |
| `Fails`, `Raise`, `CannotRead`, `LoseClaim`, `LoseLease`, `Drop`, `Crash` | a statement raises, a snapshot does not validate, a commit's answer is lost, the task is cancelled, the process dies |
| `Publish`, `Age`, `ExpireLease`, `ExpireClaim` | `publish_guardian_snapshot`; time |

A cycle that claims a snapshot evaluates every channel of `Channels`, in any order (the
code follows the snapshot's entries), and what it reads of a channel is any member of
`Readings`. Reading `cancel_requested` and the row is one step: a request that lands between
the two commutes with the second. Abstracted or left out: how scores,
confidence and freshness are computed (only their comparisons remain), the evidence
tables, error episodes, account observations and removal tombstones, the events and the
texts; `hold_seconds` is taken to be positive. Direct probing, before any snapshot has ever been
published, is not modelled. `dry_run` only drops the hand-over. A run that is replayed
under its idempotency key hands its result to account recovery again; that is
deduplicated there, by the key of the recovery, and is `Replay` in `AccountRecovery`.
`fuse_owner` is read but never stored, so the branch `fuse_not_guardian_owned` is never
taken. `merge_channel_details` has no caller.

`whole`, `handed`, `newest`, `lapsed`, `late`, `commanded`, `crossed` and `passes` are
histories: no guard of an action of the program reads them.

### AccountRecovery and the code

| In the model | In the code |
|---|---|
| `up` | how an account looks upstream, as far as the code tells it apart (`Looks`): status, schedulable, the server's reason for a pause, expiry, type |
| `obs`, `current`, `episode` | `guardian_account_observations` by snapshot, the snapshot evaluated last, the open row of the channel's error episodes |
| `rows`, `ledger`, `recent` | `guardian_account_recovery_runs` and `_ledger` by snapshot and trigger; `list_recent_tested_account_ids` |
| `holder`, `run` | the row `account-recovery` of `guardian_leases`; where a runner is in `AccountRecoveryService.execute`, and its local variables |
| `Evaluate`, `Replay`, `Submit` | `GuardianService.run_once` after the engine: `upsert_account_observations`, the episode, the runs it asks for; the same again; `prepare_recovery_job` |
| `Busy`, `Acquire`, `Open`, `Finish`, `Fail`, `Release` | `execute` from the lease to `finally` |
| `NextAccount`, `Test`, `Decide`, `Write`, `Record` | its loop: `guardian_test_account`, `_execute_account`, `guardian_enable_account` and `guardian_disable_account` with their own read, `record_account_recovery_result` and the renewal after it |
| `Renew`, `RenewFails`, `Lapse`, `DeadLeaseExpires` | `renew_lease` every 40 s; 120 s pass |
| `RecordFails`, `Restart` | the database is away; the process dies, and `initialize` marks its runs INTERRUPTED |
| `Operator`, `Server`, `Quarantine`, `QuarantinePasses`, `QuarantineMisses`, `Cool` | everyone else who changes accounts or markers; time |

A test's stream is one of four results (`Streams`); what a test costs, deadlines, texts and
events are left out. A write is one step, applied or in doubt, as its inside is
`AccountQuarantine`'s. Snapshots nobody can name any more (`Named`) are used again for new
ones, so that the runs go on for ever: retention spares the snapshots an open episode or
a RUNNING row refers to. `HOURLY_ACTIVE_CHECK`, whose due test has no caller, and manual
runs, which skip the cooldown because an operator asks for them, are left out. `paused`,
`crossed`, `lapsed` and `untried` are histories. A test is one step with one result: that a failed test of
gpt-5.6-terra is repeated with gpt-5.6-sol (account_recovery.py:492-524) is part of it, and the
preferred model that is kept of it, which only says which model the next test starts with, is left out.

### ChannelSweep and the code

| In the model | In the code |
|---|---|
| `up`, `groups`, `log` | the upstream's accounts, their groups, its usage log, a set of rows in the order of their stamps |
| `disabledIds`, `marked` | `_disabled_ids`; accounts with a marker or intent |
| `sweep` | where `MaintenanceCoordinator.run` is, and its local variables: the first list, the fresh list, the candidates, the rows read |
| `Listable`, `StartUnread` | `parse_account_group_state_page` over all pages; its refusal |
| `Start`, `Test` | `run` up to the sweep service: who is left out, which accounts are tested, who is chosen |
| `ReadLogPage`, `Unread` | `fetch_recent_usage_logs_sync`: pages, rows seen before, rows out of order, the window |
| `ListAgain`, `Fits`, `CanDisable`, `NextCandidate` | the fresh list, the checks on it, `_MinimumUsablePool`, `before_disable` |
| `Applied`, `Refused`, `InDoubt` | the outcomes of `disable_account`, and `after_disable` |
| `Others`, `Restore`, `Arrive` | operators, the server and Guardian; the quarantine gives an account back; the server writes a row to its log |

Each list is read in one step: the code checks that its pages agree. The usage log is not,
since the code tolerates that it grows: rows are added at its new end. A row that comes late, with a stamp inside
the window that was already read, is modelled for the usage log of `ChannelProbe` only. `Start` takes any set of failing groups;
`MaintenanceCycle` restricts it to those of a probe. `touched` is a history.

### ChannelProbe, MaintenanceCycle and the code

| In the model | In the code |
|---|---|
| `probe.seen`, `Begin` | `fetch_sync`: what the server says of its monitors |
| `usage`, `PageOfUsage`, `Arrives` | the upstream's usage log and one page of a model's rows, newest first; the server writes a row, also late |
| `Checked`, `Recent`, `ReadUsagePage` | `fetch_probe_usage_records_sync`: the oldest check of each model, the cutoff, rows seen before, rows out of order, the last page |
| `Unavailable`, `UsageFails` | any error of it: no bindings, and no names |
| `Matches`, `Bound` | `resolve_channel_group_ids`: the row of a check, by model, client, time and duration, and the margin between two groups |
| `GroupsOf`, `Named` | `build_channel_probes`: a binding, or else the group that the channel's names fit |
| `FailingGroups`, `Taken`, `SweepStep` | `maintain` and the start of the sweep: the probes that are still fresh, those of failing channels, their groups |

Rows carry no identity of their own: two rows with equal fields are one, which changes
nothing of what is bound. Left out: how names are compared (`Named` is any function), the dates
of the query (they only cut the log before the cutoff), and the reading of groups and accounts, which
is `ChannelSweep`'s. A probe whose result is still cached when the maintenance job starts is used
again; here every pass follows a probe of its own, with whatever result. `Own`, which group
really serves a channel, and `probe.start` are histories: only the property reads them.

### GuardianCommands and the code

| In the model | In the code |
|---|---|
| `revision`, `policy`, `override`, `active`, `saved` | `guardian_policy`, one row of `guardian_channel_overrides`, the active RECOVERY job, `guardian_idempotency` |
| `Send`, `Dies` | a client, or its retry; a request that dies, or whose answer is lost |
| `Lookup`, `Read`, `Save`, `Answer` | `get_idempotent_result`, `get_policy` and `get_channel_override`, `save_idempotent_result`, the response |
| `UpdatePolicy`, `Conflict` | `update_policy`, compare-and-set of the revision; POLICY_REVISION_CONFLICT |
| `UpdateChannel` | `update_channel`: `upsert_channel_override` of what was read, merged with the patch |
| `SubmitJob`, `JobEnds` | `submit_pending_recovery` through `create_job_with_capacity`, whose own race is `JobQueue`'s; the worker |

Clients send a revision they have seen; one that guesses a future revision could undo an
update. A field's value is the command that set it. A PATCH of a channel that carries
both `manual_control` and fields is two commands, as it is two effects in the code
(api.py:496-500). `Forget` deletes a result as retention does after seven days, at any time. What the model
shows of a crash between an update and the saving of its result: the retry of a policy update is
answered POLICY_REVISION_CONFLICT although it was applied, a retried job may be submitted
again once the first has ended. `lastSet`, `times`, `overlapped` and `again` are histories. `again` counts
the reasons a command has had to take effect once more: a copy of it finds no result while another is under
way; a request dies after the effect, with the only result there would have been; a result is deleted.
`RepeatedForCause` bounds `times` by it. `SubmitJob` is one step here: the race of
its count and its insert is `JobQueue`'s.

## Runs

| Run | Bounds | Shows |
|---|---|---|
| `quarantine` | 2 accounts, batches of 1, capacity 2, no late write | `TypeOK`, `TwoPassesBeforeRestore`, `RegistryErrorsUnreachable`, `JobEnds`, `KeepsLedger` |
| `quarantine_late` | 2 accounts, capacity 1, one late write, symmetric accounts | `RegistryConsistent`, `NoOrphan` |
| `jobs` | 2 processes, 1 of them with tools, 3 rows, 1 crash or database error | `OneWorker`, `ActiveJobsBounded`, `ProbeNotReused`, `ProbesGoOn` |
| `lease` | 3 jobs, a lease of 2 ticks, 1 crash or database error | `TypeOK`, `HolderHasRow`, `LeaseGivenUp`, `ControlGoesOn` |
| `guardian_rows` | 2 channels (symmetric), 1 run at a time, 1 snapshot, 6 readings, all commands, no fault | `TypeOK`, `CommandKept`, `RecoversAfterGoodChecks` |
| `guardian_snapshots` | 1 channel, 2 runs, 2 snapshots, 1 fault, 1 reading, no commands | `OneCycle`, `ClaimHolds`, `HandedOnce`, `NewestEvaluated`, `SnapshotsDrain` |
| `guardian_human` | 1 channel, 1 run, 1 snapshot | a counterexample to `HumanControlKept` |
| `recovery` | the loop and a worker, 1 account in error, 2 snapshots used again for ever, 1 job or replay, 1 move or fault | `OneExecutor`, `CooldownHonoured`, `RunningIsExecuted`, `FinishedRunsFrozen` |
| `recovery_accounts` | the loop, 2 accounts (the channel's, of any look; one in error and shared with an unmonitored group), 2 snapshots, 1 move or fault | `TypeOK`, `PauseKept`, `ErrorsTested` |
| `sweep` | 4 accounts in 2 overlapping groups and an excluded one, pages of 3 accounts, log pages of 2 rows, 3 at most, a threshold of 2, 1 move or fault, 3 arriving rows; 3 channels, 2 models, 4 states of monitors and log, usage pages of 2 rows, 2 at most, 2 rows that come meanwhile | `TypeOK`, `PoolKept`, `OthersRespected`, `SlowCounted`, `OwnGroup`, `FailingChannelsSwept` |
| `sweep_pages` | 4 accounts, 2 pages of 2 | a counterexample to `ListIsRead` |
| `commands` | 2 policy, 2 channel and 1 job command, one without a key; 3 of them sent, 2 requests at a time (symmetric), 2 deaths or lost answers | `TypeOK`, `NoLostUpdate`, `PatchKept`, `RepeatedForCause` |

`TypeOK` of `JobQueue` is proved for all values (`TypeCorrect`), and no run repeats it.

Why the bounds are enough to be of interest. Accounts meet only through the
batches and the capacity, so two of them with batches of one, and a registry of
one row or of two, already make each wait for, or be refused because of, the
other; the number of jobs, crashes, aborts and operator edits is not bounded. In
`JobQueue` three rows hold an active job of each type and one more; row names of
finished jobs are used again, so the sequences are unbounded, and one fault
interrupts, orphans or drops a job beside a healthy process. In `ControlLease`
three owners allow a takeover, a former owner and a newcomer at once; two ticks
separate a fresh, an ageing and an expired lease. `GuardianCycle` is checked from two
sides, because its rows and its snapshots meet only in the order of a cycle's steps:
the rows with two channels, so that one is fused, or limited, because of the other, and
snapshots and runs that are used again for ever; the snapshots with two cycles at any
place in `run_once` and two snapshots, of which one can be old, claimed or unreadable
while the other is the newest, and one fault, which is a crash, an error at any
statement, or a lease or claim that expires under its run (those of finished or dead
runs expire freely). The six readings lead to every branch the properties depend on; the proofs
quantify over all readings. In `AccountRecovery` an account's two tests, by the loop and by a
job, need one account; what a shared account or a pause changes, two; moves of others and
faults share a budget of one, which falls anywhere in an unbounded sequence of cycles. In
`ChannelSweep` two overlapping groups make one disable decide about the next; the fourth
account can make the list too long; a log of four rows spans pages while up to three arrive;
the threshold is 3 in the code, 2 here; passes follow each other without bound. `ChannelProbe`'s
two channels of one model are checked at the same moment and named after each other's or the
same group, so that only the log tells them apart; the four states of the log are: every check has its row; two checks can
hardly be told apart; a check left none; one is long past. Five rows of a model on pages
of two make the log too long, or reach the cutoff, and a late row shifts the pages. In
`GuardianCommands` two requests at a time are a command and its copy, or a command and a
rival, and deaths and lost answers put them in every order. Except where "Proofs"
says otherwise, the safety properties are proved for all values.

The two counterexamples:

- `guardian_human`: an operator pauses a channel while a cycle is between `get_channel` and
  `upsert_channel` of it; the cycle writes back the control and health it had read
  (CHANGELOG.md:106-108). `CommandKept` says that this is the only way a command is lost.
- `sweep_pages`: the first page of a longer list must hold all accounts that are left
  (core/probe.py:577, and 832-845 for channels), so an installation with more than 100 accounts has no maintenance,
  though 100 pages are allowed for (core/monitor.py:353-354).

### Known disagreements

The models do what the code does, also where that is not what its documents say. The properties
above do not claim these:

- An interrupted restore leaves its restore intent, and the next job's
  `reconcile_quarantine_restore` (adapters/sub2api.py:923) restores a slow account after one passing
  test, though the streak is 0 (RUNBOOK.md:61-63, README.md:27). It also tests, and enables, an
  account that an operator set to active and not schedulable meanwhile (README.md:20-21, 33-35).
- Guardian's recovery enables a slow account that is quarantined after one test
  (RUNBOOK.md:61-63), knows no minimum pool, and disables an account of a failing channel when its test is
  indeterminate (account_recovery.py:553, against README.md:23-24). In a channel's run it
  writes shared accounts too (CHANGELOG.md:192-194). It enables an account
  that an operator paused before the test when the snapshot showed it in error
  (CHANGELOG.md:183-184); `PauseKept` has that as an exception.
- `_hourly_active_check_due` has no caller: active accounts are not checked hourly
  (README.md:18-19). Evaluating an older snapshot again can raise ACCOUNT_OBSERVATION_CONFLICT.
- A claim whose commit is lost, or a result that neither `complete_job` nor `fail_job` can
  record, leaves a RUNNING row without a worker; it blocks its job type until the next
  restart (jobs.py:100-102). `ProbesGoOn` has `dropped` as an exception.
- A failing channel whose check left no row in the usage log is traced to the group of another
  row of its model, if one within two seconds took about as long; so is a disabled channel
  whose check is older than the rows that are read (core/probe.py:789, core/monitor.py:888).
  `OwnGroup` speaks of enabled channels that have a row.
- `cancel_requested = 1` on a BOOLEAN column is rejected: no job can be cancelled
  (repository.py:364, tools.py:253).
- `FOR UPDATE` on an absent row locks nothing, and `ON CONFLICT DO UPDATE` overwrites the
  winner: two acquires that find no lease row both succeed (guardian/repository.py:2052-2054).
  `HolderHasRow` and `OneCycle` have it as an exception. For the control lease it takes two
  processes on one database.
- A fused channel that is decided STALE or WARMING_UP is in service again
  (state_machine.py:81-114, CHANGELOG.md:106-108); `RecoversAfterGoodChecks` speaks of HEALTHY.
- Without a key of its own every probe action of a channel uses `probe:<channel_id>`, and is answered
  with the result of the first for as long as that is kept (guardian/service.py:908). Starting
  and stopping share a subject in the API's keys and not in the service's.

## Fairness

- `AccountQuarantine`: weak fairness of `JobStep`. The control worker's event loop
  keeps running the coroutine of its job and each upstream call has a timeout. Nothing
  forces an abort, an operator or a late write.
- `JobQueue`: weak fairness of each control worker (a task of a running event loop),
  of `Restart` (`restart: unless-stopped` in `compose.yaml`), of a scheduler's insert
  once it has counted, and of *some* scheduler's count: only the holder of the lease
  counts. This assumes the scheduler is enabled. Crashes, errors, tools and
  cancellations are never forced. Without `dropped` (a worker that lost its job to a
  database error) probes go on for ever; with it they do not.
- `ControlLease`: weak fairness of time, of the acquires, of the end of an operation
  (`JobEnds`), of the release, and of new jobs (`ProbesGoOn` and the maintenance jobs the
  probes submit). The heartbeat is not assumed to be on time.

- `GuardianCycle`: weak fairness of each run's steps (a coroutine of a running event loop), of
  *some* run's beginning (the background loop starts one every scan interval), of *some*
  snapshot's publication (the probes of `JobQueue`), and of time. Crashes, errors, commands and
  cancellations are never forced or excluded. `SnapshotsDrain` does not speak of the time after
  `lapsed`: two cycles that both believe to hold the lease and take turns to be
  cancelled can keep one snapshot claimed for ever.
- `AccountRecovery`: weak fairness of each runner's steps (a coroutine of a running event
  loop, whose requests have timeouts), of `Cool` and `DeadLeaseExpires` (time), and strong
  fairness of the loop's cycles: whenever the loop is idle again and again, a new snapshot is
  evaluated again and again, since probes keep publishing them. Faults and
  moves of others are bounded, so `ErrorsTested` says what happens once they are over.
- `ChannelProbe`, `ChannelSweep` and `GuardianCommands` state safety only, and assume no fairness.

## Proofs

Checked by TLAPS for every value of the constants, from the named assumptions on
them only (finite sets where sizes are counted, "no account", "no job" and "no row" outside the
sets they stand beside, a positive lease and batch, natural bounds).

**AccountQuarantine_proofs.** `TypeCorrect`, then one inductive invariant,
`IInv`, from which `RegistryCorrect`, `NoOrphanCorrect`, `TwoPassesCorrect` and
`NoRegistryErrors` follow. None of these is inductive alone. An upsert that would
break the tables is prevented by what the job knows at that step, so `Positions` ties
each step to its phase, to the row it works on (`RowPresent`) and to the lists still
to be visited (`ListsPresent`). Forgetting an account is safe because of what was read
before: `Ownership` says that an account the service took off does not look
dispatched, that an intent is either forgettable or visibly taken off, and that a job
about to remove a row has the right to. `Streaks` bounds the stored streak by the
passes that really happened, so a job that dies between a test and its record can only
lose a pass. The proof of each part goes action by action; `RegistrySteps`,
`OwnershipSteps` and `StreakSteps` first classify the actions by what they change, so
that only a few cases need an argument. `LedgerKept`: the maintenance job implements the
ledger under the mappings `Phase` and `Call`. `LedgerSteps` names the steps the ledger sees. One that begins a
call has the account's row in `intents`, or in `markers` and `restores`, when it is over
(`Begins`, from `Positions`); one of a call changes no row (`Mutates`); one that changes a row
otherwise is taken while no call is under way (`Moved`) and, if it forgets the account, `Ownership` gives it the right to.

`JobIsBounded` and `JobAdvances` are the safety half of `JobEnds`. `StepsLeft` counts, for the
phase a job is in, ten steps for each account of its list and those left at its account, and for each
later phase the most it can take; it is 0 only between jobs. `JobStep` lowers it whatever the upstream
answers (`StepUses`), and no one else changes it.

**JobQueue_proofs.** `IInv` is `TypeOK`, `QueueOK` (the queue lists the QUEUED rows
once each), `WorkersOK` (a job a worker runs is no other's and is not queued),
`Explained` (a RUNNING row has a worker, a dead process or a lost one), `ProbesOK`,
and the bound itself. `RowSteps` shows that a step enters, claims, ends or interrupts
rows, or leaves the table alone; each part is proved against those. `OneWorkerCorrect`,
`BoundCorrect` and `ProbeNotReusedCorrect` follow; `BoundCorrect` counts with the
cardinality theorems: a submitter that has counted holds a place from then on, and it
counts only when its type has no active job.

**ControlLease_proofs.** `IInv` adds to `HolderHasRow` that a renewal's stale stamp
is not below what was granted before (`Extends`), that only a running or closing job is
granted anything (`Positions`), and that without a fault the row's owner is about to
release it (`Releasable`). The crux is `WriteKeepsHolders`: whoever writes the row takes it from
no holder, unless `raced` records it.

**GuardianCycle_proofs.** The row functions first: `CountedRow`, `DecidedRow` and
`EvaluatedRow` say, for every reading and every policy, what a written row owes to the row
that was read (its control, a good check before `since`, `since` before a recovery).
`IInv` is then a conjunction whose parts depend on each other in one direction only, and each has
a lemma of its own: `Positions` (what a run has in memory at each place), `LeaseKept`
(gives `OneCycle`), `ClaimKept` (`ClaimHolds`), `Handing` (of a pending snapshot nothing is
handed over; of a consumed one, by one run once: `HandedOnce`), `NewestLast`
(`NewestEvaluated`: no pending snapshot is younger than the newest, so supersede spares
it), `Commanding` (rows and the runs' copies of them carry the last command, unless it crossed:
`CommandKept`), `Looking` and `Checks` (a run's copy of a row is the row, unless a command
crossed or two cycles race; `since` implies a good check). `Elsewhere` and
`LapsedStays` dispose of the steps that touch none of it. `RecoversAfterGoodChecks` is
proved as an action property from `Checks`.

`RunIsBounded` and `RunAdvances` are the safety half of `SnapshotsDrain`: `StepsLeft` counts two
steps for each channel still to be evaluated and one for each place ahead. Every step of a
run lowers it, also one that raises, is cancelled or whose commit's answer is lost, and nothing else
raises it while the run is on. It needs `Aimed`, an invariant of its own (a run looks at a channel it
has yet to evaluate), and finitely many channels, which is the one assumption the model had lacked.

**AccountRecovery_proofs.** `Inv` is `TypeOK`, `Placed` (a runner that is not idle has a
snapshot, one at an account an account), `Exclusive` (while no lease has run out, who executes
holds the row), `Rested` (nothing that is left to a run has been tested lately, nor the account
it is about to test), `PausedLooksSo` (a paused account looks paused), `PauseKept`, `RowOpen` (who works works on
an open row) and `RunningIsExecuted`. `CooldownHonoured` needs `Exclusive`: the cooldown is judged when a
run opens, so only the lease keeps another run from testing in between. The steps are
classified once (`CarryStep`, `StayStep`, `OpenStep`, `NextStep`, `RecordStep`, `LeaseStep`,
`IdleStep`, `OutsideStep`), by what they change of a run, and each part is proved
against the classes. That the next account exists uses well-foundedness of the naturals.
`FinishedRunsFrozen` is an action property that follows from `RowOpen` and `Exclusive`.

`RunnerAdvances` is the safety half of `ErrorsTested`: five steps for each account left, one for
each place ahead, and a whole run more when the bad accounts' run follows a channel's. `NextAccount`
takes an account off the list for good, so each step of a runner lowers the count, also when the
database is away, and nobody adds to it.

**ChannelSweep_proofs.** `Inv` is `Types`, `Reading`, `SlowCounted`, `Serves`, `Reflects` and
`Decided`. `Reading` says that what was read of the usage log is in it, each row once,
and that a row of the window has been read or lies ahead, on no earlier page than the next one. It
lasts although the log grows, since a row that comes only adds to those before it, and what a
page holds or leaves behind was counted (`PageHoldsOrPrecedes`, from the cardinality theorems). `SlowCounted` then
compares two counts, of rows read and of rows in the log, by a bijection (`SlowInCounts`,
`CountedInLog`); no induction over the log is needed, because the log is a set and a row's place in it
the number of rows before it. `PoolKept` is a statement about the present, `CanDisable` one about a
list: `Reflects` connects them (the fresh list shows each account as it is, unless it was
touched since), and `Decided` keeps what was checked for the account that is about to be
written. `InDoubt` has to end the pass for `Reflects` to hold, which is why the code stops
there. `Serves` (who was chosen by the tests served a failing group in the first list) and `Decided`
give `OthersRespected`.

**MaintenanceCycle_proofs.** `ProbeInv`, the probe's invariant, is `ProbeTyped`, `Given` (where the log could not be read, nothing of it is
kept) and `Found`: a channel's row that was in the log at the start has been read, or lies ahead,
on no earlier page than the next one. `NewerGrows` is why it keeps lying ahead (a row that comes
only adds to those before it) and `UsagePageHoldsOrPrecedes` why it is not skipped; the cutoff lies before the
oldest check of an enabled channel, and so before the row. `OwnGroupCorrect` then compares
durations: no other group can be better by the margin than a row that fits as well as the check's own.
`CycleImplementsBoth` is the composition: a step of the job is a step of the pass and one of the
probe, of which one or the other stutters (`StepOfBoth`). So `CycleCorrect` has the five
invariants of the run `sweep` for the whole job, and `FailingChannelsSweptCorrect` joins the two
sides where they meet: the groups a pass begins with are those that `OwnGroup` speaks of.

**GuardianCommands_proofs.** `Inv` is `TypeOK` and: `Known` (who handles a command handles one that was sent), `Sent` (a revision a
client has is not above the policy's), `FreshBase` (a request whose revision is still
current has read the current policy), `Once` (a command that took effect is out of date),
`PatchBase` (an override read earlier differs from the row by patches in `since`),
`Accounted` (the times a command took effect, with the copies that found no result and have not acted yet,
and one more if the next copy would find none and nobody would save it, are at most one more than
its reasons). `NoLostUpdate` follows from `FreshBase` and `Once`, `PatchKept` from `PatchBase`,
`RepeatedForCause` from `Accounted`, by counting copies (`CopiesCounted`).

Only model-checked: liveness (`JobEnds`, `ProbesGoOn`, `ControlGoesOn`, `SnapshotsDrain`,
`ErrorsTested`) and the two counterexamples. Of the first, fourth and fifth the measures above are proved. What
they lack is that a step is possible wherever fairness asks for one: that is a
statement about ENABLED, which this prover does not reason about. `ProbesGoOn` and `ControlGoesOn`
have no measure, since other processes may be served first any number of times.

## Not modelled

- The order in which intents are reconciled (scheduler.py:268): five at a time, the oldest
  first, and `KEEP` leaves an intent the oldest. `AccountQuarantine` takes any batch, so it
  cannot show who starves; the code does nothing against it.
- Which group a channel's display name fits (`_semantic_group_key`), and everything else that only
  parses: the models take any result. Direct probing of channels before the first
  snapshot.
- How scores, confidence, baselines and freshness are computed (`scoring.py`, `sampling.py`,
  `recovery.py`): arithmetic on samples, of which the decisions only see comparisons.
- Actor bridge and bindings: one statement each, decided by a unique constraint; signatures.
  The registry and limiter of `core/bindings.py` are not used by the service.
- Sessions, MCP tools, routing, configuration, metrics, images, the model plaza, the migration
  script: no protocol state.
- Retention, but where it forgets snapshots, recovery rows and idempotency results: it deletes what is old and
  finished, in batches, and asks for no order.
- Code without a caller in the service: `test_and_recover_account`,
  `fetch_recovery_candidates`, `select_recovery_probe_candidates`, `record_recovery_probe`
  (the daily probe budget is therefore never used up), `merge_channel_details`.
- A proof that the models compose, but for `ChannelSweep` and `ChannelProbe` in `MaintenanceCycle`.
  They share no variables; the text above says which guarantee of one is the assumption of which other.

------------------------------ MODULE JobQueue ------------------------------
(***************************************************************************)
(* The jobs table and those who use it: in every process of the service a  *)
(* control worker that runs one job at a time and a scheduler that queues a*)
(* probe each cycle; MCP tools that submit maintenance and cancel jobs.    *)
(*                                                                         *)
(* A transaction runs under READ COMMITTED, so a submission is two steps:  *)
(* it counts, then it inserts.  Processes die and restart at any moment; a *)
(* stop closes the database pool before it awaits the worker, so to the    *)
(* table a stop is a crash.                                                *)
(***************************************************************************)
EXTENDS Naturals, FiniteSets, Sequences

CONSTANTS
  Processes,  \* processes of the service on one database
  Tools,      \* bound: processes whose tools submit maintenance, one call at a time
  Jobs,       \* bound: job rows; the name of a finished job is used again
  NoJob,      \* "no job"
  MaxFaults   \* bound: crashes and database errors

ASSUME JobsAssumption == NoJob \notin Jobs /\ IsFiniteSet(Jobs)
ASSUME ProcessesAssumption == IsFiniteSet(Processes) /\ Tools \subseteq Processes
ASSUME FaultsAssumption == MaxFaults \in Nat

Types == {"PROBE", "MAINTENANCE"}
Active == {"QUEUED", "RUNNING"}
Final == {"SUCCEEDED", "FAILED", "INTERRUPTED", "CANCELLED"}

\* create_job_with_capacity is called by the scheduler of a process (its lease, which
\* may expire at any time, excludes nobody), by its probe handler and by a tool.
Submitters == (Processes \X {"scheduler", "probe"}) \cup (Tools \X {"tool"})
TypeOf(s) == IF s[2] = "scheduler" THEN "PROBE" ELSE "MAINTENANCE"
Callers(t) == {s \in Submitters : TypeOf(s) = t}

VARIABLES
  type, status,  \* the rows: job_type and status, "absent" before the insert
  queue,         \* the QUEUED rows by created_at
  counting,      \* submitters that have counted no active job and not yet inserted
  step,          \* the control worker of a process
  cur,           \* the job it runs
  latest,        \* _latest_probe: "none", or from a probe that was published
  missed,        \* history: processes whose last probe failed
  asked,         \* history: QUEUED jobs whose cancellation was requested
  dropped,       \* history: since the last restart, a worker lost its job to a database error
  faults         \* crashes and database errors so far

rows == <<type, status, queue>>
workers == <<step, cur, latest, missed>>
history == <<asked, dropped>>
vars == <<rows, counting, workers, history, faults>>

TypeOK ==
  /\ type \in [Jobs -> Types] /\ status \in [Jobs -> Active \cup Final \cup {"absent"}]
  /\ queue \in Seq(Jobs) /\ counting \subseteq Submitters
  /\ step \in [Processes -> {"down", "idle", "probing", "submitting", "maintaining",
                             "finish", "fail"}]
  /\ cur \in [Processes -> Jobs \cup {NoJob}]
  /\ latest \in [Processes -> {"none", "published"}]
  /\ missed \subseteq Processes
  /\ asked \subseteq Jobs /\ dropped \in BOOLEAN /\ faults \in 0..MaxFaults

Init ==
  /\ type = [j \in Jobs |-> "PROBE"] /\ status = [j \in Jobs |-> "absent"]
  /\ queue = <<>> /\ counting = {}
  /\ step = [p \in Processes |-> "idle"] /\ cur = [p \in Processes |-> NoJob]
  /\ latest = [p \in Processes |-> "none"] /\ missed = {}
  /\ asked = {} /\ dropped = FALSE /\ faults = 0

Up(p) == step[p] # "down"
ActiveJobs(t) == {j \in Jobs : type[j] = t /\ status[j] \in Active}

\* Bound: a name for a new row; a submission starts only if it will find one.
Free(j) == status[j] \notin Active /\ \A p \in Processes : cur[p] # j

Fault == faults < MaxFaults /\ faults' = faults + 1
NoFault == UNCHANGED faults

\* What the worker of p does next, for the same job.
Become(p, next) == step' = [step EXCEPT ![p] = next] /\ UNCHANGED cur

\* The worker of p is done with its job, whatever the row says.
Rest(p) ==
  /\ step' = [step EXCEPT ![p] = "idle"]
  /\ cur' = [cur EXCEPT ![p] = NoJob]

SetRow(j, value) == status' = [status EXCEPT ![j] = value] /\ UNCHANGED <<type, queue>>

-----------------------------------------------------------------------------
(* Submitting.                                                             *)

\* Mutant: the comparison with max_active lets one job more in.
CountsOneMore(s) == Cardinality(ActiveJobs(TypeOf(s))) <= 1

MayInsert(s) == ActiveJobs(TypeOf(s)) = {}

Counts(s) ==
  /\ s \notin counting /\ MayInsert(s)
  /\ Cardinality(counting) < Cardinality({j \in Jobs : Free(j)})
  /\ counting' = counting \cup {s}
  /\ UNCHANGED <<rows, history, faults>>

\* The insert commits, or raises, or commits and raises.
Inserts(s, j) ==
  /\ s \in counting /\ counting' = counting \ {s}
  /\ \/ /\ Free(j) /\ status' = [status EXCEPT ![j] = "QUEUED"]
        /\ type' = [type EXCEPT ![j] = TypeOf(s)] /\ queue' = Append(queue, j)
        /\ NoFault \/ Fault
     \/ Fault /\ UNCHANGED rows
  /\ UNCHANGED history

\* queue_cycle and submit_control_job; a count that finds a job ends the submission.
Count(s) == s[2] # "probe" /\ Up(s[1]) /\ Counts(s) /\ UNCHANGED workers
Insert(s, j) == s[2] # "probe" /\ Inserts(s, j) /\ UNCHANGED workers

-----------------------------------------------------------------------------
(* The control worker.                                                     *)

\* claim_next_job takes the oldest QUEUED row, locked with SKIP LOCKED, and updates it
\* in the same transaction.
TakesRow(j) ==
  /\ queue # <<>> /\ j = Head(queue) /\ queue' = Tail(queue)
  /\ status' = [status EXCEPT ![j] = "RUNNING"]
  /\ asked' = asked \ {j}
  /\ UNCHANGED type

\* Mutant: handle_probe keeps the previous probe until it has a new one.
ClaimKeepsProbe(p, j) ==
  /\ step[p] = "idle" /\ TakesRow(j)
  /\ cur' = [cur EXCEPT ![p] = j]
  /\ step' = [step EXCEPT ![p] = IF type[j] = "PROBE" THEN "probing" ELSE "maintaining"]
  /\ UNCHANGED <<counting, latest, missed, dropped, faults>>

\* handle_probe forgets the previous probe before anything else.
Claim(p, j) ==
  /\ step[p] = "idle" /\ TakesRow(j)
  /\ cur' = [cur EXCEPT ![p] = j]
  /\ IF type[j] = "PROBE"
     THEN step' = [step EXCEPT ![p] = "probing"] /\ latest' = [latest EXCEPT ![p] = "none"]
     ELSE step' = [step EXCEPT ![p] = "maintaining"] /\ UNCHANGED latest
  /\ UNCHANGED <<counting, missed, dropped, faults>>

\* The claim commits, and the worker never learns of it.
LoseClaim(p, j) ==
  /\ step[p] = "idle" /\ TakesRow(j)
  /\ dropped' = TRUE /\ Fault
  /\ UNCHANGED <<counting, workers>>

\* The probe answers and its snapshot is published.
Publish(p) ==
  /\ step[p] = "probing"
  /\ latest' = [latest EXCEPT ![p] = "published"]
  /\ missed' = missed \ {p}
  /\ Become(p, "submitting")
  /\ UNCHANGED <<rows, counting, history, faults>>

\* The upstream fails, answers with nothing, or the snapshot cannot be published.
FailProbe(p) ==
  /\ step[p] = "probing"
  /\ missed' = missed \cup {p}
  /\ Become(p, "fail")
  /\ UNCHANGED <<rows, counting, latest, history, faults>>

\* maintenance_required
CountMaintenance(p) ==
  /\ step[p] = "submitting" /\ Counts(<<p, "probe">>)
  /\ UNCHANGED workers

InsertMaintenance(p, j) ==
  /\ step[p] = "submitting" /\ Inserts(<<p, "probe">>, j)
  /\ Become(p, IF faults' = faults THEN "finish" ELSE "fail")
  /\ UNCHANGED <<latest, missed>>

\* No maintenance is required, or one is active already, or the database fails before.
SkipMaintenance(p) ==
  /\ step[p] = "submitting" /\ <<p, "probe">> \notin counting
  /\ \/ Become(p, "finish") /\ NoFault
     \/ Become(p, "fail") /\ Fault
  /\ UNCHANGED <<rows, counting, latest, missed, history>>

\* The maintenance job itself is the subject of AccountQuarantine; it starts from
\* _latest_probe or, when there is none, from a probe of its own.
Maintain(p) ==
  /\ step[p] = "maintaining"
  /\ Become(p, "finish") \/ Become(p, "fail")
  /\ UNCHANGED <<rows, counting, latest, missed, history, faults>>

\* complete_job.  Whatever it raises leads to fail_job: the row is not RUNNING, or the
\* database fails before or after the update.  cancel_requested is never set.
Complete(p) ==
  /\ step[p] = "finish"
  /\ IF status[cur[p]] = "RUNNING"
     THEN \/ SetRow(cur[p], "SUCCEEDED") /\ Rest(p) /\ NoFault
          \/ SetRow(cur[p], "SUCCEEDED") /\ Become(p, "fail") /\ Fault
          \/ UNCHANGED rows /\ Become(p, "fail") /\ Fault
     ELSE UNCHANGED rows /\ Become(p, "fail") /\ NoFault
  /\ UNCHANGED <<counting, latest, missed, history>>

\* fail_job.  What it raises reaches the worker's loop, which goes on to the next job.
Fail(p) ==
  /\ step[p] = "fail"
  /\ \/ /\ IF status[cur[p]] = "RUNNING" THEN SetRow(cur[p], "FAILED") ELSE UNCHANGED rows
        /\ NoFault /\ UNCHANGED dropped
     \/ status[cur[p]] = "RUNNING" /\ UNCHANGED rows /\ Fault /\ dropped' = TRUE
  /\ Rest(p)
  /\ UNCHANGED <<counting, latest, missed, asked>>

-----------------------------------------------------------------------------
(* Tools and the process.                                                  *)

\* cancel_job of an active row fails: PostgreSQL rejects the statement, which assigns the
\* integer 1 to the BOOLEAN column cancel_requested.  Bound: one request at a time.
Cancel(j) ==
  /\ status[j] = "QUEUED" /\ asked = {}
  /\ asked' = asked \cup {j}
  /\ UNCHANGED <<rows, counting, workers, dropped, faults>>

Crash(p) ==
  /\ Up(p) /\ Fault
  /\ step' = [step EXCEPT ![p] = "down"] /\ cur' = [cur EXCEPT ![p] = NoJob]
  /\ latest' = [latest EXCEPT ![p] = "none"] /\ missed' = missed \ {p}
  /\ counting' = {s \in counting : s[1] # p}
  /\ UNCHANGED <<rows, history>>

\* Mutant: a restart resumes the jobs that were running.
RestartResumes(p) ==
  /\ step[p] = "down"
  /\ step' = [step EXCEPT ![p] = "idle"]
  /\ \E j \in Jobs : /\ status[j] = "RUNNING" /\ status' = [status EXCEPT ![j] = "QUEUED"]
                     /\ queue' = Append(queue, j)
  /\ dropped' = FALSE
  /\ UNCHANGED <<type, counting, cur, latest, missed, asked, faults>>

\* Mutant: initialize leaves RUNNING rows alone.
RestartForgets(p) ==
  /\ step[p] = "down"
  /\ step' = [step EXCEPT ![p] = "idle"]
  /\ dropped' = FALSE
  /\ UNCHANGED <<rows, counting, cur, latest, missed, asked, faults>>

\* initialize: every RUNNING row, whoever runs it, is INTERRUPTED.
Restart(p) ==
  /\ step[p] = "down"
  /\ step' = [step EXCEPT ![p] = "idle"]
  /\ status' = [j \in Jobs |-> IF status[j] = "RUNNING" THEN "INTERRUPTED" ELSE status[j]]
  /\ dropped' = FALSE
  /\ UNCHANGED <<type, queue, counting, cur, latest, missed, asked, faults>>

Worker(p) ==
  \/ \E j \in Jobs : Claim(p, j) \/ InsertMaintenance(p, j)
  \/ Publish(p) \/ FailProbe(p) \/ CountMaintenance(p) \/ SkipMaintenance(p)
  \/ Maintain(p) \/ Complete(p) \/ Fail(p)

Next ==
  \/ \E p \in Processes : Worker(p) \/ Crash(p) \/ Restart(p)
  \/ \E p \in Processes, j \in Jobs : LoseClaim(p, j)
  \/ \E s \in Submitters : Count(s) \/ \E j \in Jobs : Insert(s, j)
  \/ \E j \in Jobs : Cancel(j)

Spec == Init /\ [][Next]_vars

\* The event loop runs the worker and the scheduler of every process, a process that
\* died is started again (restart: unless-stopped in compose.yaml), and some process
\* holds the scheduler lease and counts.
FairSpec ==
  /\ Spec
  /\ \A p \in Processes : /\ WF_vars(Worker(p)) /\ WF_vars(Restart(p))
                          /\ WF_vars(\E j \in Jobs : Insert(<<p, "scheduler">>, j))
  /\ WF_vars(\E p \in Processes : Count(<<p, "scheduler">>))

-----------------------------------------------------------------------------
(* Properties.                                                             *)

\* A job has at most one worker, and a row that is RUNNING has one unless its process
\* is down or a database error parted them: claim_next_job, the restart of another
\* process and the two attempts to finish never leave a row behind otherwise.
OneWorker ==
  \A j \in Jobs :
    /\ Cardinality({p \in Processes : cur[p] = j}) <= 1
    /\ status[j] = "RUNNING" =>
         (\E p \in Processes : cur[p] = j \/ step[p] = "down") \/ dropped

\* max_active=1 holds up to those who counted at the same time: two jobs of a type are
\* active only when there are as many callers whose counts could overlap.
ActiveJobsBounded ==
  \A t \in Types :
    Cardinality(ActiveJobs(t)) + Cardinality(counting \cap Callers(t)) <= Cardinality(Callers(t))

\* A maintenance job never reuses a probe when a later cycle of its process has failed
\* (the comment in handle_probe).
ProbeNotReused ==
  \A p \in Processes :
    step[p] = "maintaining" /\ latest[p] = "published" => p \notin missed

ProbeRuns == \E p \in Processes : step[p] = "probing"

\* Probes are run again and again through crashes, restarts and errors of the database,
\* as long as no worker loses its job to such an error for good.
ProbesGoOn == <>[]~dropped => []<>ProbeRuns
=============================================================================

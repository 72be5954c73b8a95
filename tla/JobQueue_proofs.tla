--------------------------- MODULE JobQueue_proofs ---------------------------
(***************************************************************************)
(* Proofs about JobQueue: its types, what becomes of a job's row, and the  *)
(* number of active jobs, for any number of processes, rows and faults.    *)
(***************************************************************************)
EXTENDS JobQueue, FiniteSetTheorems, SequenceTheorems, TLAPS

\* queue lists QUEUED rows, each once.
QueueOK ==
  /\ \A i \in DOMAIN queue : status[queue[i]] = "QUEUED"
  /\ \A i, k \in DOMAIN queue : queue[i] = queue[k] => i = k

\* A worker is at a step of a job exactly when it has one; the row of its job is
\* RUNNING or was ended by somebody else, and it has the job to itself.
WorkersOK ==
  /\ \A p \in Processes : cur[p] = NoJob <=> step[p] \in {"down", "idle"}
  /\ \A p \in Processes : cur[p] # NoJob => status[cur[p]] \in {"RUNNING"} \cup Final
  /\ \A p, q \in Processes : cur[p] # NoJob /\ cur[p] = cur[q] => p = q

\* A RUNNING row without a worker is explained by a crash or a database error.
Explained ==
  \A j \in Jobs : status[j] = "RUNNING" =>
    (\E p \in Processes : cur[p] = j \/ step[p] = "down") \/ dropped

ProbesOK ==
  /\ \A p \in Processes : step[p] = "probing" => latest[p] = "none"
  /\ \A p \in Processes : latest[p] = "published" => p \notin missed

IInv == TypeOK /\ QueueOK /\ WorkersOK /\ Explained /\ ProbesOK /\ ActiveJobsBounded

-----------------------------------------------------------------------------
(* Types.                                                                  *)

\* The head of a queue is a row, and the rest is a queue.
LEMMA TakesRowTypes ==
  ASSUME TypeOK, NEW j \in Jobs, TakesRow(j)
  PROVE  /\ queue' \in Seq(Jobs)
         /\ status' \in [Jobs -> Active \cup Final \cup {"absent"}]
         /\ type' \in [Jobs -> Types] /\ asked' \subseteq Jobs
BY DEF TypeOK, TakesRow, Active

LEMMA TypeStep == ASSUME TypeOK, [Next]_vars PROVE TypeOK'
<1> USE JobsAssumption, FaultsAssumption
<1>1. CASE UNCHANGED vars
  BY <1>1 DEF TypeOK, vars, rows, workers, history
<1>2. ASSUME NEW p \in Processes, NEW j \in Jobs, Claim(p, j) PROVE TypeOK'
  BY <1>2, TakesRowTypes DEF Claim, TypeOK
<1>3. ASSUME NEW p \in Processes, NEW j \in Jobs, LoseClaim(p, j) PROVE TypeOK'
  BY <1>3, TakesRowTypes DEF LoseClaim, TypeOK, Fault, workers
<1>4. ASSUME NEW s \in Submitters, NEW j \in Jobs, Inserts(s, j)
      PROVE  /\ queue' \in Seq(Jobs) /\ type' \in [Jobs -> Types]
             /\ status' \in [Jobs -> Active \cup Final \cup {"absent"}]
             /\ counting' \subseteq Submitters /\ faults' \in 0..MaxFaults
             /\ asked' \subseteq Jobs /\ dropped' \in BOOLEAN
  <2>1. TypeOf(s) \in Types
    BY DEF TypeOf, Types
  <2>2. counting' \subseteq Submitters /\ asked' \subseteq Jobs /\ dropped' \in BOOLEAN
    BY <1>4 DEF Inserts, TypeOK, history
  <2>3. CASE Fault /\ UNCHANGED rows
    BY <2>2, <2>3 DEF TypeOK, Fault, rows
  <2>4. CASE /\ status' = [status EXCEPT ![j] = "QUEUED"]
             /\ type' = [type EXCEPT ![j] = TypeOf(s)] /\ queue' = Append(queue, j)
             /\ NoFault \/ Fault
    <3>1. status' \in [Jobs -> Active \cup Final \cup {"absent"}]
      BY <2>4 DEF TypeOK, Active
    <3>2. type' \in [Jobs -> Types]
      BY <2>1, <2>4 DEF TypeOK
    <3>3. queue' \in Seq(Jobs) /\ faults' \in 0..MaxFaults
      BY <2>4 DEF TypeOK, NoFault, Fault
    <3> QED BY <2>2, <3>1, <3>2, <3>3
  <2> QED BY <1>4, <2>3, <2>4 DEF Inserts
<1>5. ASSUME NEW p \in Processes, NEW j \in Jobs, InsertMaintenance(p, j) PROVE TypeOK'
  <2>1. <<p, "probe">> \in Submitters
    BY DEF Submitters
  <2> QED BY <1>4, <1>5, <2>1 DEF InsertMaintenance, TypeOK, Become
<1>6. ASSUME NEW s \in Submitters, NEW j \in Jobs, Insert(s, j) PROVE TypeOK'
  BY <1>4, <1>6 DEF Insert, TypeOK, workers
<1>7. ASSUME NEW s \in Submitters, Count(s) PROVE TypeOK'
  BY <1>7 DEF Count, Counts, TypeOK, rows, workers, history
<1>8. ASSUME NEW p \in Processes, Publish(p) \/ FailProbe(p) \/ SkipMaintenance(p) \/ Maintain(p)
      PROVE  TypeOK'
  <2>1. CASE SkipMaintenance(p)
    <3>1. faults' \in 0..MaxFaults
      BY <2>1 DEF SkipMaintenance, TypeOK, Fault, NoFault
    <3>2. step' \in [Processes -> {"down", "idle", "probing", "submitting",
                                  "maintaining", "finish", "fail"}]
      BY <2>1 DEF SkipMaintenance, TypeOK, Become
    <3> QED BY <2>1, <3>1, <3>2 DEF SkipMaintenance, TypeOK, Become, rows, history
  <2> QED BY <1>8, <2>1 DEF Publish, FailProbe, Maintain, Become, TypeOK, rows, history
<1>9. ASSUME NEW p \in Processes, CountMaintenance(p) PROVE TypeOK'
  BY <1>9 DEF CountMaintenance, Counts, TypeOK, rows, workers, history, Submitters
<1>10. ASSUME NEW p \in Processes, Complete(p) PROVE TypeOK'
  BY <1>10 DEF Complete, SetRow, Become, Rest, TypeOK, Fault, NoFault, rows, history, Final
<1>11. ASSUME NEW p \in Processes, Fail(p) PROVE TypeOK'
  <2>1. /\ queue' \in Seq(Jobs) /\ type' \in [Jobs -> Types]
        /\ status' \in [Jobs -> Active \cup Final \cup {"absent"}]
    BY <1>11 DEF Fail, SetRow, TypeOK, rows, Final
  <2>2. faults' \in 0..MaxFaults
    BY <1>11 DEF Fail, TypeOK, Fault, NoFault
  <2>3. dropped' \in BOOLEAN
    BY <1>11 DEF Fail, TypeOK
  <2> QED BY <1>11, <2>1, <2>2, <2>3 DEF Fail, Rest, TypeOK
<1>12. ASSUME NEW p \in Processes, Crash(p) \/ Restart(p) PROVE TypeOK'
  <2>1. CASE Crash(p)
    BY <2>1 DEF Crash, TypeOK, Fault, rows, history
  <2>2. CASE Restart(p)
    <3>1. status' \in [Jobs -> Active \cup Final \cup {"absent"}]
      BY <2>2 DEF Restart, TypeOK, Final
    <3> QED BY <2>2, <3>1 DEF Restart, TypeOK
  <2> QED BY <1>12, <2>1, <2>2
<1>13. ASSUME NEW j \in Jobs, Cancel(j) PROVE TypeOK'
  BY <1>13 DEF Cancel, TypeOK, rows, workers
<1> QED
  BY <1>1, <1>2, <1>3, <1>5, <1>6, <1>7, <1>8, <1>9, <1>10, <1>11, <1>12, <1>13
     DEF Next, Worker

LEMMA InitTypes == Init => TypeOK
<1> SUFFICES ASSUME Init PROVE TypeOK
  OBVIOUS
<1>1. queue \in Seq(Jobs) /\ faults \in 0..MaxFaults
  BY FaultsAssumption DEF Init
<1> QED BY <1>1 DEF Init, TypeOK, Types

\* Every variable keeps its type: the statuses of the jobs table, the steps of the
\* workers and the submissions in flight.
THEOREM TypeCorrect == Spec => []TypeOK
<1>1. Init => TypeOK
  BY InitTypes
<1>2. TypeOK /\ [Next]_vars => TypeOK'
  BY TypeStep
<1> QED BY <1>1, <1>2, PTL DEF Spec

-----------------------------------------------------------------------------
(* What a step does to the rows.                                           *)

\* A submission inserts its row.
Enters(s, j) ==
  /\ s \in counting /\ counting' = counting \ {s}
  /\ Free(j) /\ status' = [status EXCEPT ![j] = "QUEUED"]
  /\ type' = [type EXCEPT ![j] = TypeOf(s)] /\ queue' = Append(queue, j)

\* The worker of a RUNNING row stores its end.
Ends(j) ==
  /\ status[j] = "RUNNING"
  /\ SetRow(j, "SUCCEEDED") \/ SetRow(j, "FAILED")

Interrupts ==
  /\ status' = [j \in Jobs |-> IF status[j] = "RUNNING" THEN "INTERRUPTED" ELSE status[j]]
  /\ UNCHANGED <<type, queue>>

\* The steps of the service as the jobs table sees them.
LEMMA RowSteps ==
  ASSUME TypeOK, WorkersOK, [Next]_vars
  PROVE  \/ UNCHANGED rows /\ counting' \subseteq counting
         \/ UNCHANGED rows /\ \E s \in Submitters : Counts(s)
         \/ UNCHANGED counting /\ \E j \in Jobs : TakesRow(j)
         \/ \E s \in Submitters, j \in Jobs : Enters(s, j)
         \/ UNCHANGED counting /\ \E j \in Jobs : Ends(j)
         \/ UNCHANGED counting /\ Interrupts
<1>1. CASE UNCHANGED vars
  BY <1>1 DEF vars
<1>2. ASSUME NEW p \in Processes, NEW j \in Jobs, Claim(p, j) \/ LoseClaim(p, j)
      PROVE  UNCHANGED counting /\ TakesRow(j)
  BY <1>2 DEF Claim, LoseClaim
<1>3. ASSUME NEW s \in Submitters, NEW j \in Jobs, Inserts(s, j)
      PROVE  Enters(s, j) \/ (UNCHANGED rows /\ counting' \subseteq counting)
  BY <1>3 DEF Inserts, Enters
<1>4. ASSUME NEW p \in Processes, NEW j \in Jobs, InsertMaintenance(p, j)
      PROVE  \E s \in Submitters : Inserts(s, j)
  BY <1>4 DEF InsertMaintenance, Submitters
<1>5. ASSUME NEW p \in Processes, CountMaintenance(p)
      PROVE  UNCHANGED rows /\ \E s \in Submitters : Counts(s)
  BY <1>5 DEF CountMaintenance, Submitters, Counts
<1>6. ASSUME NEW s \in Submitters, Count(s) PROVE UNCHANGED rows /\ Counts(s)
  BY <1>6 DEF Count, Counts
<1>7. ASSUME NEW p \in Processes, Complete(p) \/ Fail(p)
      PROVE  UNCHANGED counting /\ (UNCHANGED rows \/ \E j \in Jobs : Ends(j))
  <2>1. cur[p] \in Jobs
    BY <1>7 DEF Complete, Fail, WorkersOK, TypeOK
  <2> QED BY <1>7, <2>1 DEF Complete, Fail, Ends
<1>8. ASSUME NEW p \in Processes,
             Publish(p) \/ FailProbe(p) \/ SkipMaintenance(p) \/ Maintain(p) \/ Crash(p)
      PROVE  UNCHANGED rows /\ counting' \subseteq counting
  BY <1>8 DEF Publish, FailProbe, SkipMaintenance, Maintain, Crash
<1>9. ASSUME NEW p \in Processes, Restart(p) PROVE UNCHANGED counting /\ Interrupts
  BY <1>9 DEF Restart, Interrupts
<1>10. ASSUME NEW j \in Jobs, Cancel(j) PROVE UNCHANGED rows /\ counting' \subseteq counting
  BY <1>10 DEF Cancel
<1>11. ASSUME NEW s \in Submitters, NEW j \in Jobs, Insert(s, j) PROVE Inserts(s, j)
  BY <1>11 DEF Insert
<1> QED
  BY <1>1, <1>2, <1>3, <1>4, <1>5, <1>6, <1>7, <1>8, <1>9, <1>10, <1>11 DEF Next, Worker

\* The queue keeps listing QUEUED rows, each once.
LEMMA QueueStep == ASSUME TypeOK, QueueOK, WorkersOK, [Next]_vars PROVE QueueOK'
<1>1. CASE UNCHANGED rows
  BY <1>1 DEF QueueOK, rows
<1>2. ASSUME NEW j \in Jobs, TakesRow(j) PROVE QueueOK'
  <2>1. \A i \in DOMAIN queue' : i + 1 \in DOMAIN queue /\ queue'[i] = queue[i + 1]
    BY <1>2 DEF TakesRow, TypeOK
  <2>2. j = queue[1] /\ 1 \in DOMAIN queue
    BY <1>2 DEF TakesRow, TypeOK
  <2>3. \A i \in DOMAIN queue' : queue'[i] # j
    <3> SUFFICES ASSUME NEW i \in DOMAIN queue', queue'[i] = j PROVE FALSE
      OBVIOUS
    <3>1. i \in Nat /\ i >= 1
      BY <1>2, TakesRowTypes
    <3>2. i + 1 = 1
      BY <2>1, <2>2 DEF QueueOK
    <3> QED BY <3>1, <3>2
  <2>4. \A i \in DOMAIN queue' : status'[queue'[i]] = "QUEUED"
    BY <1>2, <2>1, <2>3 DEF TakesRow, QueueOK, TypeOK
  <2>5. ASSUME NEW i \in DOMAIN queue', NEW k \in DOMAIN queue', queue'[i] = queue'[k]
        PROVE  i = k
    <3>1. i \in Nat /\ k \in Nat
      BY <1>2, TakesRowTypes
    <3>2. i + 1 = k + 1
      BY <2>1, <2>5 DEF QueueOK
    <3> QED BY <3>1, <3>2
  <2> QED BY <2>4, <2>5 DEF QueueOK
<1>3. ASSUME NEW s \in Submitters, NEW j \in Jobs, Enters(s, j) PROVE QueueOK'
  <2>1. status[j] # "QUEUED"
    BY <1>3 DEF Enters, Free, Active
  <2>2. \A i \in DOMAIN queue : queue[i] # j /\ queue[i] \in Jobs
    BY <2>1 DEF QueueOK, TypeOK
  <2>3. \A i \in DOMAIN queue' : \/ i \in DOMAIN queue /\ queue'[i] = queue[i]
                                 \/ i = Len(queue) + 1 /\ queue'[i] = j
    BY <1>3 DEF Enters, TypeOK
  <2>4. \A i \in DOMAIN queue' : status'[queue'[i]] = "QUEUED"
    BY <1>3, <2>2, <2>3 DEF Enters, QueueOK, TypeOK
  <2>5. \A i, k \in DOMAIN queue' : queue'[i] = queue'[k] => i = k
    BY <2>2, <2>3 DEF QueueOK
  <2> QED BY <2>4, <2>5 DEF QueueOK
<1>4. ASSUME NEW j \in Jobs, Ends(j) PROVE QueueOK'
  <2>1. \A i \in DOMAIN queue : queue[i] # j
    BY <1>4 DEF Ends, QueueOK
  <2> QED BY <1>4, <2>1 DEF Ends, SetRow, QueueOK, TypeOK
<1>5. CASE Interrupts
  BY <1>5 DEF Interrupts, QueueOK, TypeOK
<1> QED BY <1>1, <1>2, <1>3, <1>4, <1>5, RowSteps

-----------------------------------------------------------------------------
(* Workers and their jobs.                                                 *)

LEMMA WorkersStep == ASSUME TypeOK, QueueOK, WorkersOK, [Next]_vars PROVE WorkersOK'
<1> USE JobsAssumption
<1>1. CASE UNCHANGED vars
  BY <1>1 DEF WorkersOK, vars, rows, workers
<1>2. ASSUME NEW j \in Jobs, TakesRow(j)
      PROVE  /\ status[j] = "QUEUED" /\ status'[j] = "RUNNING"
             /\ \A p \in Processes : cur[p] # j
             /\ \A p \in Processes : cur[p] # NoJob => status'[cur[p]] \in {"RUNNING"} \cup Final
  <2>1. status[j] = "QUEUED"
    BY <1>2 DEF TakesRow, QueueOK, TypeOK
  <2>2. \A p \in Processes : cur[p] # j
    BY <2>1 DEF WorkersOK, Final
  <2> QED BY <1>2, <2>1, <2>2 DEF TakesRow, WorkersOK, TypeOK
<1>3. ASSUME NEW p \in Processes, NEW j \in Jobs, Claim(p, j) PROVE WorkersOK'
  <2>1. TakesRow(j) /\ cur' = [cur EXCEPT ![p] = j]
    BY <1>3 DEF Claim
  <2>2. \A q \in Processes : cur'[q] = NoJob <=> step'[q] \in {"down", "idle"}
    BY <1>3 DEF Claim, WorkersOK, TypeOK
  <2>3. \A q \in Processes : cur'[q] # NoJob => status'[cur'[q]] \in {"RUNNING"} \cup Final
    BY <1>2, <2>1 DEF TypeOK
  <2>4. \A q, r \in Processes : cur'[q] # NoJob /\ cur'[q] = cur'[r] => q = r
    BY <1>2, <2>1 DEF WorkersOK, TypeOK
  <2> QED BY <2>2, <2>3, <2>4 DEF WorkersOK
<1>4. ASSUME NEW p \in Processes, NEW j \in Jobs, LoseClaim(p, j) PROVE WorkersOK'
  BY <1>2, <1>4 DEF LoseClaim, WorkersOK, workers
<1>5. ASSUME NEW s \in Submitters, NEW j \in Jobs, Inserts(s, j)
      PROVE  \A p \in Processes : cur[p] # NoJob => status'[cur[p]] \in {"RUNNING"} \cup Final
  BY <1>5 DEF Inserts, Free, WorkersOK, TypeOK, rows
<1>6. ASSUME NEW p \in Processes, NEW j \in Jobs, InsertMaintenance(p, j) PROVE WorkersOK'
  <2>1. \A q \in Processes : cur[q] # NoJob => status'[cur[q]] \in {"RUNNING"} \cup Final
    BY <1>5, <1>6 DEF InsertMaintenance, Submitters
  <2>2. \A q \in Processes : cur[q] = NoJob <=> step'[q] \in {"down", "idle"}
    BY <1>6 DEF InsertMaintenance, Become, WorkersOK, TypeOK
  <2> QED BY <1>6, <2>1, <2>2 DEF InsertMaintenance, Become, WorkersOK
<1>7. ASSUME NEW s \in Submitters, NEW j \in Jobs, Insert(s, j) PROVE WorkersOK'
  BY <1>5, <1>7 DEF Insert, WorkersOK, workers
<1>8. ASSUME NEW p \in Processes,
             Publish(p) \/ FailProbe(p) \/ SkipMaintenance(p) \/ Maintain(p)
      PROVE  WorkersOK'
  BY <1>8 DEF Publish, FailProbe, SkipMaintenance, Maintain, Become, WorkersOK, TypeOK, rows
<1>9. ASSUME NEW p \in Processes, Complete(p) \/ Fail(p) PROVE WorkersOK'
  <2>1. cur[p] \in Jobs /\ cur[p] # NoJob
    BY <1>9 DEF Complete, Fail, WorkersOK, TypeOK
  <2>2. \A q \in Processes : cur[q] # NoJob => status'[cur[q]] \in {"RUNNING"} \cup Final
    BY <1>9, <2>1 DEF Complete, Fail, SetRow, WorkersOK, TypeOK, rows, Final
  <2>3. Rest(p) \/ Become(p, "fail")
    BY <1>9 DEF Complete, Fail
  <2>4. CASE Rest(p)
    BY <2>2, <2>4 DEF Rest, WorkersOK, TypeOK
  <2>5. CASE Become(p, "fail")
    BY <2>1, <2>2, <2>5 DEF Become, WorkersOK, TypeOK
  <2> QED BY <2>3, <2>4, <2>5
<1>10. ASSUME NEW p \in Processes, Crash(p) PROVE WorkersOK'
  BY <1>10 DEF Crash, WorkersOK, TypeOK, rows
<1>11. ASSUME NEW p \in Processes, Restart(p) PROVE WorkersOK'
  <2>1. \A q \in Processes : cur[q] # NoJob => cur[q] \in Jobs
    BY DEF TypeOK
  <2>2. \A q \in Processes : cur[q] # NoJob => status'[cur[q]] \in {"RUNNING"} \cup Final
    BY <1>11, <2>1 DEF Restart, WorkersOK, Final
  <2> QED BY <1>11, <2>2 DEF Restart, WorkersOK, TypeOK
<1>12. CASE \/ \E s \in Submitters : Count(s)
            \/ \E p \in Processes : CountMaintenance(p)
            \/ \E j \in Jobs : Cancel(j)
  BY <1>12 DEF Count, CountMaintenance, Counts, Cancel, WorkersOK, rows, workers
<1> QED
  BY <1>1, <1>3, <1>4, <1>6, <1>7, <1>8, <1>9, <1>10, <1>11, <1>12 DEF Next, Worker

\* A RUNNING row loses its worker only to a crash, after which a restart interrupts
\* it, or to a database error.
LEMMA ExplainedStep == ASSUME IInv, [Next]_vars PROVE Explained'
<1> USE DEF IInv
<1>0. dropped' \in BOOLEAN
  BY TypeStep DEF TypeOK
<1> SUFFICES ASSUME NEW j \in Jobs, status'[j] = "RUNNING", dropped' = FALSE
             PROVE  \E p \in Processes : cur'[p] = j \/ step'[p] = "down"
  BY <1>0 DEF Explained
<1>1. CASE UNCHANGED vars
  BY <1>1 DEF Explained, vars, rows, workers, history
<1>2. ASSUME NEW p \in Processes, NEW k \in Jobs, Claim(p, k)
      PROVE  \E q \in Processes : cur'[q] = j \/ step'[q] = "down"
  <2>1. cur'[p] = k /\ step[p] = "idle" /\ cur[p] = NoJob
    BY <1>2 DEF Claim, TypeOK, WorkersOK
  <2>2. CASE j # k
    <3>1. status[j] = "RUNNING" /\ dropped = FALSE
      BY <1>2, <2>2 DEF Claim, TakesRow, TypeOK
    <3>2. PICK q \in Processes : cur[q] = j \/ step[q] = "down"
      BY <3>1 DEF Explained
    <3>3. q # p
      BY <2>1, <3>2, JobsAssumption
    <3> QED BY <1>2, <3>2, <3>3 DEF Claim, TypeOK
  <2> QED BY <2>1, <2>2
<1>3. ASSUME NEW p \in Processes, NEW k \in Jobs, LoseClaim(p, k) PROVE FALSE
  BY <1>3 DEF LoseClaim
<1>4. ASSUME NEW s \in Submitters, NEW k \in Jobs, Inserts(s, k)
      PROVE  status[j] = "RUNNING" /\ dropped = FALSE
  BY <1>4 DEF Inserts, TypeOK, rows, history
<1>5. ASSUME NEW p \in Processes, NEW k \in Jobs, InsertMaintenance(p, k)
      PROVE  \E q \in Processes : cur'[q] = j \/ step'[q] = "down"
  <2>1. status[j] = "RUNNING" /\ dropped = FALSE
    BY <1>4, <1>5 DEF InsertMaintenance, Submitters
  <2> QED BY <1>5, <2>1 DEF InsertMaintenance, Become, Explained, TypeOK
<1>6. ASSUME NEW s \in Submitters, NEW k \in Jobs, Insert(s, k)
      PROVE  \E q \in Processes : cur'[q] = j \/ step'[q] = "down"
  BY <1>4, <1>6 DEF Insert, Explained, workers
<1>7. ASSUME NEW p \in Processes,
             Publish(p) \/ FailProbe(p) \/ SkipMaintenance(p) \/ Maintain(p)
      PROVE  \E q \in Processes : cur'[q] = j \/ step'[q] = "down"
  BY <1>7 DEF Publish, FailProbe, SkipMaintenance, Maintain, Become, Explained, TypeOK,
              rows, history
<1>8. ASSUME NEW p \in Processes, Complete(p) \/ Fail(p)
      PROVE  \E q \in Processes : cur'[q] = j \/ step'[q] = "down"
  <2>1. /\ status[j] = "RUNNING" /\ dropped = FALSE
        /\ cur[p] = j => Become(p, "fail")
    BY <1>8 DEF Complete, Fail, SetRow, TypeOK, rows, history
  <2>2. PICK q \in Processes : cur[q] = j \/ step[q] = "down"
    BY <2>1 DEF Explained
  <2>3. CASE q = p
    <3>1. cur[p] = j
      BY <1>8, <2>2, <2>3 DEF Complete, Fail
    <3> QED BY <2>1, <3>1 DEF Become
  <2>4. CASE q # p
    BY <1>8, <2>2, <2>4 DEF Complete, Fail, Rest, Become, TypeOK
  <2> QED BY <2>3, <2>4
<1>9. ASSUME NEW p \in Processes, Crash(p)
      PROVE  \E q \in Processes : cur'[q] = j \/ step'[q] = "down"
  BY <1>9 DEF Crash, TypeOK
<1>10. ASSUME NEW p \in Processes, Restart(p) PROVE FALSE
  BY <1>10 DEF Restart
<1>11. CASE \/ \E s \in Submitters : Count(s)
            \/ \E p \in Processes : CountMaintenance(p)
            \/ \E k \in Jobs : Cancel(k)
  BY <1>11 DEF Count, CountMaintenance, Counts, Cancel, Explained, rows, workers, history
<1> QED
  BY <1>1, <1>2, <1>3, <1>5, <1>6, <1>7, <1>8, <1>9, <1>10, <1>11 DEF Next, Worker

LEMMA ProbesStep == ASSUME TypeOK, ProbesOK, [Next]_vars PROVE ProbesOK'
<1> SUFFICES ASSUME NEW q \in Processes
             PROVE  /\ step'[q] = "probing" => latest'[q] = "none"
                    /\ latest'[q] = "published" => q \notin missed'
  BY DEF ProbesOK
<1>1. CASE UNCHANGED vars
  BY <1>1 DEF ProbesOK, vars, workers
<1>2. ASSUME NEW p \in Processes, NEW j \in Jobs,
             Claim(p, j) \/ LoseClaim(p, j) \/ InsertMaintenance(p, j)
      PROVE  /\ step'[q] = "probing" => latest'[q] = "none"
             /\ latest'[q] = "published" => q \notin missed'
  BY <1>2 DEF Claim, LoseClaim, InsertMaintenance, Become, ProbesOK, TypeOK, workers
<1>3. ASSUME NEW p \in Processes,
             \/ Publish(p) \/ FailProbe(p) \/ CountMaintenance(p) \/ SkipMaintenance(p)
             \/ Maintain(p)
      PROVE  /\ step'[q] = "probing" => latest'[q] = "none"
             /\ latest'[q] = "published" => q \notin missed'
  BY <1>3 DEF Publish, FailProbe, CountMaintenance, SkipMaintenance, Maintain, Become,
              ProbesOK, TypeOK, workers
<1>4. ASSUME NEW p \in Processes, Complete(p) \/ Fail(p) \/ Crash(p) \/ Restart(p)
      PROVE  /\ step'[q] = "probing" => latest'[q] = "none"
             /\ latest'[q] = "published" => q \notin missed'
  BY <1>4 DEF Complete, Fail, Crash, Restart, Become, Rest, ProbesOK, TypeOK
<1>5. CASE \/ \E s \in Submitters : Count(s) \/ \E j \in Jobs : Insert(s, j)
           \/ \E j \in Jobs : Cancel(j)
  BY <1>5 DEF Count, Insert, Cancel, ProbesOK, workers
<1> QED BY <1>1, <1>2, <1>3, <1>4, <1>5 DEF Next, Worker

-----------------------------------------------------------------------------
(* How many jobs of a type are active.                                     *)

LEMMA FiniteSets ==
  /\ IsFiniteSet(Submitters)
  /\ \A t : IsFiniteSet(ActiveJobs(t)) /\ IsFiniteSet(Callers(t))
<1>1. IsFiniteSet({"scheduler", "probe"}) /\ IsFiniteSet({"tool"})
  <2>1. IsFiniteSet({"scheduler"}) /\ IsFiniteSet({"probe"}) /\ IsFiniteSet({"tool"})
    <3>1. \A x : IsFiniteSet({x})
      BY FS_Singleton
    <3> QED BY <3>1
  <2>2. {"scheduler", "probe"} = {"scheduler"} \cup {"probe"}
    OBVIOUS
  <2>3. IsFiniteSet({"scheduler"} \cup {"probe"})
    BY <2>1, FS_Union
  <2> QED BY <2>1, <2>2, <2>3
<1>2. IsFiniteSet(Tools)
  BY ProcessesAssumption, FS_Subset
<1>3. IsFiniteSet(Submitters)
  BY <1>1, <1>2, ProcessesAssumption, FS_Product, FS_Union DEF Submitters
<1>4. \A t : ActiveJobs(t) \subseteq Jobs /\ Callers(t) \subseteq Submitters
  BY DEF ActiveJobs, Callers
<1> QED BY <1>3, <1>4, JobsAssumption, FS_Subset

\* A row enters only for a caller that stops counting; a caller starts to count only
\* when no job of its type is active.
LEMMA BoundStep == ASSUME IInv, [Next]_vars PROVE ActiveJobsBounded'
<1> USE DEF IInv
<1> SUFFICES ASSUME NEW t \in Types
             PROVE  Cardinality(ActiveJobs(t)') + Cardinality(counting' \cap Callers(t))
                      <= Cardinality(Callers(t))
  BY DEF ActiveJobsBounded, ActiveJobs, Callers
<1> DEFINE A == ActiveJobs(t)
           C == counting \cap Callers(t)
           AA == ActiveJobs(t)'
           CC == counting' \cap Callers(t)
<1>1. /\ IsFiniteSet(A) /\ IsFiniteSet(C) /\ IsFiniteSet(Callers(t))
      /\ Cardinality(A) + Cardinality(C) <= Cardinality(Callers(t))
  BY FiniteSets, FS_Intersection, FS_Subset DEF ActiveJobsBounded
<1>2. ASSUME AA \subseteq A, CC \subseteq C
      PROVE  Cardinality(AA) + Cardinality(CC) <= Cardinality(Callers(t))
  <2>1. /\ IsFiniteSet(AA) /\ Cardinality(AA) <= Cardinality(A)
        /\ IsFiniteSet(CC) /\ Cardinality(CC) <= Cardinality(C)
    BY <1>1, <1>2, FS_Subset
  <2> HIDE DEF AA, CC, A, C
  <2> QED BY <1>1, <2>1, FS_CardinalityType
<1>3. CASE UNCHANGED rows /\ counting' \subseteq counting
  BY <1>2, <1>3 DEF ActiveJobs, rows
<1>4. ASSUME UNCHANGED rows, NEW s \in Submitters, Counts(s)
      PROVE  Cardinality(AA) + Cardinality(CC) <= Cardinality(Callers(t))
  <2>1. AA = A /\ CC \subseteq Callers(t)
    BY <1>4 DEF ActiveJobs, rows
  <2>2. CASE t = TypeOf(s)
    <3>1. AA = {} /\ Cardinality({}) = 0
      BY <1>4, <2>1, <2>2, FS_EmptySet DEF Counts, MayInsert
    <3>2. IsFiniteSet(CC) /\ Cardinality(CC) <= Cardinality(Callers(t))
      BY <1>1, <2>1, FS_Subset
    <3> HIDE DEF AA, CC
    <3> QED BY <1>1, <3>1, <3>2, FS_CardinalityType
  <2>3. CASE t # TypeOf(s)
    BY <1>2, <1>4, <2>1, <2>3 DEF Counts, Callers
  <2> QED BY <2>2, <2>3
<1>5. ASSUME UNCHANGED counting, NEW j \in Jobs, TakesRow(j)
      PROVE  Cardinality(AA) + Cardinality(CC) <= Cardinality(Callers(t))
  <2>1. status[j] = "QUEUED"
    BY <1>5 DEF TakesRow, QueueOK, TypeOK
  <2> QED BY <1>2, <1>5, <2>1 DEF TakesRow, ActiveJobs, TypeOK, Active
<1>6. ASSUME NEW s \in Submitters, NEW j \in Jobs, Enters(s, j)
      PROVE  Cardinality(AA) + Cardinality(CC) <= Cardinality(Callers(t))
  <2>1. CASE t = TypeOf(s)
    <3>1. AA \subseteq A \cup {j} /\ CC = C \ {s} /\ s \in C
      BY <1>6, <2>1 DEF Enters, ActiveJobs, TypeOK, Callers
    <3>2. IsFiniteSet(A \cup {j}) /\ Cardinality(A \cup {j}) <= Cardinality(A) + 1
      <4>1. IsFiniteSet(A)
        BY <1>1
      <4> HIDE DEF A
      <4>2. /\ IsFiniteSet(A \cup {j})
            /\ Cardinality(A \cup {j}) = IF j \in A THEN Cardinality(A) ELSE Cardinality(A) + 1
        BY <4>1, FS_AddElement
      <4>3. Cardinality(A) \in Nat
        BY <4>1, FS_CardinalityType
      <4> QED BY <4>2, <4>3
    <3>3. IsFiniteSet(AA) /\ Cardinality(AA) <= Cardinality(A \cup {j})
      BY <3>1, <3>2, FS_Subset
    <3>4. IsFiniteSet(CC) /\ Cardinality(CC) = Cardinality(C) - 1
      <4>1. IsFiniteSet(C) /\ s \in C /\ CC = C \ {s}
        BY <1>1, <3>1
      <4> HIDE DEF C, CC
      <4>2. IsFiniteSet(C \ {s}) /\ Cardinality(C \ {s}) = Cardinality(C) - 1
        BY <4>1, FS_RemoveElement
      <4> QED BY <4>1, <4>2
    <3> HIDE DEF AA, CC, A, C
    <3> QED BY <1>1, <3>2, <3>3, <3>4, FS_CardinalityType
  <2>2. CASE t # TypeOf(s)
    BY <1>2, <1>6, <2>2 DEF Enters, ActiveJobs, TypeOK
  <2> QED BY <2>1, <2>2
<1>7. ASSUME UNCHANGED counting, NEW j \in Jobs, Ends(j)
      PROVE  Cardinality(AA) + Cardinality(CC) <= Cardinality(Callers(t))
  BY <1>2, <1>7 DEF Ends, SetRow, ActiveJobs, TypeOK, Active
<1>8. CASE UNCHANGED counting /\ Interrupts
  BY <1>2, <1>8 DEF Interrupts, ActiveJobs, Active
<1> QED BY <1>3, <1>4, <1>5, <1>6, <1>7, <1>8, RowSteps

-----------------------------------------------------------------------------
(* The theorems.                                                           *)

LEMMA InitHolds == Init => IInv
<1> SUFFICES ASSUME Init PROVE IInv
  OBVIOUS
<1>1. TypeOK
  BY InitTypes
<1>2. QueueOK /\ WorkersOK /\ Explained /\ ProbesOK
  BY JobsAssumption DEF Init, QueueOK, WorkersOK, Explained, ProbesOK
<1>3. ActiveJobsBounded
  <2> SUFFICES ASSUME NEW t \in Types
               PROVE  Cardinality(ActiveJobs(t)) + Cardinality(counting \cap Callers(t))
                        <= Cardinality(Callers(t))
    BY DEF ActiveJobsBounded
  <2>1. ActiveJobs(t) = {} /\ counting \cap Callers(t) = {}
    BY DEF Init, ActiveJobs, Active
  <2>2. Cardinality({}) = 0 /\ Cardinality(Callers(t)) \in Nat
    BY FiniteSets, FS_EmptySet, FS_CardinalityType
  <2> QED BY <2>1, <2>2
<1> QED BY <1>1, <1>2, <1>3 DEF IInv

\* The inductive invariant of the jobs table holds in every reachable state.
THEOREM InvariantHolds == Spec => []IInv
<1>1. IInv /\ [Next]_vars => IInv'
  BY TypeStep, QueueStep, WorkersStep, ExplainedStep, ProbesStep, BoundStep DEF IInv
<1> QED BY InitHolds, <1>1, PTL DEF Spec

\* A job has at most one worker, and a RUNNING row without one is due to a crash not yet
\* followed by a restart or to a database error.
THEOREM OneWorkerCorrect == Spec => []OneWorker
<1>1. IInv => OneWorker
  <2> SUFFICES ASSUME IInv, NEW j \in Jobs
               PROVE  Cardinality({p \in Processes : cur[p] = j}) <= 1
    BY DEF OneWorker, IInv, Explained
  <2>1. CASE {p \in Processes : cur[p] = j} = {}
    BY <2>1, FS_EmptySet
  <2>2. CASE {p \in Processes : cur[p] = j} # {}
    <3>1. PICK q \in Processes : cur[q] = j
      BY <2>2
    <3>2. {p \in Processes : cur[p] = j} = {q}
      BY <3>1, JobsAssumption DEF IInv, WorkersOK
    <3>3. Cardinality({q}) = 1
      BY FS_Singleton
    <3> QED BY <3>2, <3>3
  <2> QED BY <2>1, <2>2
<1> QED BY <1>1, InvariantHolds, PTL

\* max_active=1 holds up to callers whose counts overlap, whatever crashes and restarts.
THEOREM BoundCorrect == Spec => []ActiveJobsBounded
<1>1. IInv => ActiveJobsBounded
  BY DEF IInv
<1> QED BY <1>1, InvariantHolds, PTL

\* No maintenance job works from a probe older than a failed cycle of its process.
THEOREM ProbeNotReusedCorrect == Spec => []ProbeNotReused
<1>1. IInv => ProbeNotReused
  BY DEF IInv, ProbesOK, ProbeNotReused
<1> QED BY <1>1, InvariantHolds, PTL
=============================================================================

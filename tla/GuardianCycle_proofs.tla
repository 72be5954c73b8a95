------------------------ MODULE GuardianCycle_proofs ------------------------
(***************************************************************************)
(* Type correctness and the safety of Guardian's cycles, for any number of *)
(* channels, runs, snapshots, readings and faults.                         *)
(***************************************************************************)
EXTENDS GuardianCycle, FiniteSetTheorems, TLAPS

-----------------------------------------------------------------------------
(* What a cycle makes of a row.                                            *)

Decisions == [health : Healths, desired : BOOLEAN]

\* The counters touch neither what an operator asked for nor the health; since is kept or
\* set by a good check only.
LEMMA CountedRow ==
  ASSUME NEW row \in Rows, NEW x \in AllReadings
  PROVE  /\ Counted(row, x) \in Rows
         /\ Counted(row, x).manual = row.manual /\ Counted(row, x).health = row.health
         /\ Counted(row, x).since => Passes(row, x)
<1>0. /\ row.streak \in 0..SuccessCount /\ x.leading \in 0..SuccessCount
      /\ SuccessCount \in Nat \ {0}
  BY SuccessCountAssumption DEF Rows, AllReadings, Streaks
<1>1. CASE Passes(row, x)
  <2>1. Counted(row, x) = [row EXCEPT !.streak = IF @ < SuccessCount THEN @ + 1 ELSE @,
                                      !.since = TRUE]
    BY <1>1 DEF Counted
  <2>2. (IF row.streak < SuccessCount THEN row.streak + 1 ELSE row.streak) \in Streaks
    BY <1>0 DEF Streaks
  <2> QED BY <1>1, <2>1, <2>2 DEF Rows
<1>2. CASE ~Passes(row, x) /\ row.health = "FUSED"
  <2>1. Counted(row, x) = [row EXCEPT !.streak = 0, !.since = FALSE]
    BY <1>2 DEF Counted
  <2>2. 0 \in Streaks
    BY <1>0 DEF Streaks
  <2> QED BY <2>1, <2>2 DEF Rows
<1>3. CASE ~Passes(row, x) /\ row.health # "FUSED"
  <2>1. Counted(row, x) = [row EXCEPT !.streak = x.leading, !.since = FALSE, !.cooldown = FALSE]
    BY <1>3 DEF Counted
  <2> QED BY <1>0, <2>1 DEF Rows, Streaks
<1> QED BY <1>1, <1>2, <1>3

\* An automatic decision for an operator's channel: never into service, unless out of scope.
LEMMA ByHandDecision ==
  ASSUME NEW manual \in Controls, manual # "NONE"
  PROVE  /\ ByHand(manual) \in Decisions /\ ByHand(manual).desired = FALSE
         /\ ByHand(manual).health # "HEALTHY"
         /\ ByHand(manual).health = "FUSED" => manual = "FUSED"
BY DEF ByHand, Decision, Decisions, Controls, Healths

LEMMA ThresholdDecision ==
  ASSUME NEW row \in Rows, NEW x \in AllReadings
  PROVE  ByThresholds(row, x) \in Decisions
BY SwitchesAssumption
   DEF ByThresholds, FuseOrKeep, Decision, Decisions, Rows, AllReadings, Healths

\* Out of a fuse, only a channel that was healthy for hold_seconds is declared healthy.
LEMMA FusedDecision ==
  ASSUME NEW row \in Rows, NEW x \in AllReadings, NEW heldLong \in BOOLEAN
  PROVE  /\ WhileFused(row, heldLong, x) \in Decisions
         /\ WhileFused(row, heldLong, x).health = "HEALTHY" => heldLong
BY SwitchesAssumption DEF WhileFused, Decision, Decisions, Rows, AllReadings, Healths

LEMMA DecidedRow ==
  ASSUME NEW row \in Rows, NEW x \in AllReadings, NEW heldLong \in BOOLEAN
  PROVE  LET decision == Decided(row, heldLong, x) IN
         /\ decision \in Decisions
         /\ row.health = "FUSED" /\ decision.health = "HEALTHY" => heldLong
         /\ row.manual # "NONE" =>
              /\ decision.desired => decision.health = "EXCLUDED"
              /\ decision.health = "FUSED" => row.manual = "FUSED"
<1>0. /\ row.manual \in Controls /\ row.health \in Healths
      /\ x.schedulable \in BOOLEAN /\ x.scope \in {"managed", "excluded", "paused"}
  BY DEF Rows, AllReadings
<1>1. CASE x.scope = "excluded"
  BY <1>0, <1>1 DEF Decided, Decision, Decisions, Healths
<1>2. CASE x.scope = "paused"
  BY <1>0, <1>2 DEF Decided, Decision, Decisions, Healths
<1>3. CASE x.scope = "managed" /\ row.manual # "NONE"
  <2>1. Decided(row, heldLong, x) = ByHand(row.manual)
    BY <1>3 DEF Decided, Decide
  <2> QED BY <1>0, <1>3, <2>1, ByHandDecision
<1>4. CASE x.scope = "managed" /\ row.manual = "NONE"
  <2>1. Decided(row, heldLong, x) = Decide(row, heldLong, x)
    BY <1>4 DEF Decided
  <2>2. CASE row.health = "FUSED"
    BY <1>0, <1>4, <2>1, <2>2, FusedDecision DEF Decide, Decision, Decisions, Healths
  <2>3. CASE row.health # "FUSED"
    BY <1>0, <1>4, <2>1, <2>3, ThresholdDecision DEF Decide, Decision, Decisions, Healths
  <2> QED BY <2>2, <2>3
<1> QED BY <1>0, <1>1, <1>2, <1>3, <1>4

\* The row a cycle writes: what it owes to the row that was read.
LEMMA EvaluatedRow ==
  ASSUME NEW row \in Rows, NEW x \in AllReadings, NEW n \in 0..MaxSwitch
  PROVE  LET new == Evaluated(row, x, n) IN
         /\ new \in Rows
         /\ new.manual = row.manual
         /\ new.since => Passes(row, x)
         /\ row.health = "FUSED" /\ new.health = "HEALTHY" => row.since
         /\ row.manual # "NONE" /\ new.desired => new.health = "EXCLUDED"
         /\ NewFuse(row, new) => n < MaxSwitch
<1> DEFINE counted == Counted(row, x)
           heldLong == row.since /\ counted.since /\ x.held
           decision == Decided(counted, heldLong, x)
           limited == NewFuse(row, decision) /\ n >= MaxSwitch
           fused == decision.health = "FUSED" /\ ~limited
           new == Evaluated(row, x, n)
<1>1. /\ counted \in Rows /\ counted.manual = row.manual /\ counted.health = row.health
      /\ counted.since => Passes(row, x)
  BY CountedRow
<1>2. heldLong \in BOOLEAN
  BY DEF Rows
<1>3. /\ decision \in Decisions
      /\ row.health = "FUSED" /\ decision.health = "HEALTHY" => row.since
      /\ row.manual # "NONE" =>
           /\ decision.desired => decision.health = "EXCLUDED"
           /\ decision.health = "FUSED" => row.manual = "FUSED"
  <2> HIDE DEF heldLong, counted
  <2>1. /\ decision \in Decisions
        /\ counted.health = "FUSED" /\ decision.health = "HEALTHY" => heldLong
        /\ counted.manual # "NONE" =>
             /\ decision.desired => decision.health = "EXCLUDED"
             /\ decision.health = "FUSED" => counted.manual = "FUSED"
    BY <1>1, <1>2, DecidedRow
  <2>2. heldLong => row.since
    BY DEF heldLong
  <2> QED BY <1>1, <2>1, <2>2
<1>4. new = [counted EXCEPT
               !.known = TRUE, !.up = x.schedulable,
               !.health = IF limited THEN "DEGRADED" ELSE decision.health,
               !.desired = decision.desired \/ limited,
               !.since = counted.since /\ fused,
               !.cooldown = fused /\ (counted.cooldown \/ NewFuse(row, decision))]
  BY DEF Evaluated
<1> HIDE DEF new, decision, heldLong, counted
<1>5. limited => row.manual = "NONE"
  BY <1>3 DEF NewFuse, Rows, Controls
<1>6. /\ new.manual = counted.manual
      /\ new.health = IF limited THEN "DEGRADED" ELSE decision.health
      /\ new.desired = (decision.desired \/ limited)
      /\ new.since = (counted.since /\ fused)
  BY <1>1, <1>4 DEF Rows
<1>7. new \in Rows
  <2> DEFINE health == IF limited THEN "DEGRADED" ELSE decision.health
             desired == decision.desired \/ limited
             since == counted.since /\ fused
             cooldown == fused /\ (counted.cooldown \/ NewFuse(row, decision))
  <2>1. health \in Healths /\ x.schedulable \in BOOLEAN
    BY <1>3 DEF Decisions, Healths, AllReadings
  <2>2. desired \in BOOLEAN /\ since \in BOOLEAN /\ cooldown \in BOOLEAN
    OBVIOUS
  <2>3. new = [counted EXCEPT !.known = TRUE, !.up = x.schedulable, !.health = health,
                              !.desired = desired, !.since = since, !.cooldown = cooldown]
    BY <1>4
  <2> HIDE DEF health, desired, since, cooldown
  <2> QED BY <1>1, <2>1, <2>2, <2>3 DEF Rows
<1>8. NewFuse(row, new) => n < MaxSwitch
  BY <1>6, MaxSwitchAssumption DEF NewFuse
<1> QED BY <1>1, <1>3, <1>5, <1>6, <1>7, <1>8 DEF new

\* An operator's command.
LEMMA CommandedRow ==
  ASSUME NEW row \in Rows, NEW manual \in Controls
  PROVE  LET new == Commanded(row, manual) IN
         /\ new \in Rows /\ new.manual = manual /\ new.since = row.since
         /\ new.health # "HEALTHY"
         /\ manual # "NONE" => ~new.desired
BY ByHandDecision DEF Commanded, Rows, Decisions, Controls, Healths

-----------------------------------------------------------------------------
(* The inductive invariant.                                                *)

\* What a run has in memory at each place.
Positions ==
  /\ \A r \in Runs : at[r] \in {"idle", "started", "norow", "leased", "compacted", "refused"}
                       => input[r] = NoSnapshot
  /\ \A r \in Runs : at[r] = "evaluating" => input[r] \in Snapshots
  /\ \A r \in Runs : at[r] = "release" => outcome[r] # "SUCCEEDED"
  /\ \A s \in claimed : claimer[s] \in Runs

\* A run at work has the lease, unless one was lost.
LeaseKept == lapsed \/ \A r \in Runs : Working(r) => holder = r /\ leased

\* A run that evaluates has an unexpired claim on a snapshot nobody has consumed.
ClaimKept ==
  \A r \in Runs : at[r] = "evaluating" /\ r \notin late
                    => input[r] \in claimed /\ claimer[input[r]] = r /\ input[r] \in pending

\* r has consumed s and has yet to say so.
Delivers(r, s) == at[r] = "finish" /\ outcome[r] = "SUCCEEDED" /\ input[r] = s

\* Of a pending snapshot nothing is handed over yet; of a consumed one, by one run once.
Handing ==
  /\ \A s \in pending : handed[s] = 0 /\ \A r \in Runs : ~Delivers(r, s)
  /\ \A s \in Snapshots, r \in Runs : Delivers(r, s) => handed[s] = 0
  /\ \A s \in Snapshots, r, q \in Runs : Delivers(r, s) /\ Delivers(q, s) => r = q
  /\ HandedOnce

\* No snapshot was captured after the newest.
NewestLast == NewestEvaluated /\ \A s \in pending : newest \notin older[s]

\* What the rows and the runs' copies of them say of the operators' commands.
Commanding ==
  /\ \A c \in Channels : c \in crossed \/ rows[c].manual = commanded[c]
  /\ \A r \in Runs : cur[r] \in Channels
                       => cur[r] \in crossed \/ read[r].manual = commanded[cur[r]]
  /\ CommandKept

\* healthy_since of a fused channel is the time of a good check, the last failed one before it.
Checks ==
  /\ \A c \in Channels : rows[c].since => passes[c] >= 1
  /\ \A r \in Runs : cur[r] \in Channels
                       => lapsed \/ cur[r] \in crossed \/ read[r] = rows[cur[r]]

\* A run looks at a channel only while it evaluates.
Looking == \A r \in Runs : cur[r] \in Channels => at[r] = "evaluating"

IInv ==
  /\ TypeOK /\ Positions /\ LeaseKept /\ ClaimKept /\ Handing /\ NewestLast
  /\ Commanding /\ Looking /\ Checks

-----------------------------------------------------------------------------
(* Types.                                                                  *)

\* A fault is counted within its bound.
LEMMA FaultTypes ==
  ASSUME faults \in 0..MaxFaults, Fault \/ NoFault
  PROVE  faults' \in 0..MaxFaults
BY FaultsAssumption DEF Fault, NoFault

LEMMA LeavesTypes ==
  ASSUME TypeOK, NEW S \in SUBSET Snapshots, Leaves(S)
  PROVE  /\ pending' \subseteq Snapshots /\ older' \in [Snapshots -> SUBSET pending']
         /\ expired' \subseteq pending' /\ unreadable' \subseteq Snapshots
         /\ newest' \in Snapshots \cup {NoSnapshot}
BY DEF TypeOK, Leaves

LEMMA UnclaimTypes ==
  ASSUME TypeOK, NEW S \in SUBSET Snapshots, Unclaim(S)
  PROVE  claimer' \in [Snapshots -> Runs \cup {NoRun}] /\ claimed' \subseteq Snapshots
BY DEF TypeOK, Unclaim

LEMMA UnknownRow == Unknown \in Rows
BY SuccessCountAssumption DEF Unknown, Rows, Healths, Controls, Streaks

LEMMA ForgetsTypes ==
  ASSUME TypeOK, NEW R \in SUBSET Runs, Forgets(R), Fault \/ NoFault,
         holder' \in Runs \cup {NoRun}, leased' \in BOOLEAN, lapsed' \in BOOLEAN
  PROVE  TypeOK'
<1>1. /\ at' \in [Runs -> Places] /\ cancel' \in [Runs -> BOOLEAN]
      /\ input' \in [Runs -> Snapshots \cup {NoSnapshot}] /\ outcome' \in [Runs -> Ends]
  BY DEF TypeOK, Forgets, Places, Ends
<1>2. /\ todo' \in [Runs -> SUBSET Channels] /\ cur' \in [Runs -> Channels \cup {NoChannel}]
      /\ read' \in [Runs -> Rows] /\ late' \subseteq Runs
  BY UnknownRow DEF TypeOK, Forgets
<1>3. fuses' \in [Runs -> 0..MaxSwitch]
  BY MaxSwitchAssumption DEF TypeOK, Forgets
<1>4. faults' \in 0..MaxFaults
  BY FaultTypes DEF TypeOK
<1> QED BY <1>1, <1>2, <1>3, <1>4 DEF TypeOK, Forgets, table, claims, channels

LEMMA FailsTypes ==
  ASSUME TypeOK, NEW r \in Runs, Fails(r), Fault \/ NoFault
  PROVE  TypeOK'
<1>1. faults' \in 0..MaxFaults
  BY FaultTypes DEF TypeOK
<1> QED BY <1>1, UnknownRow
       DEF TypeOK, Fails, Goes, Ending, Places, Ends, table, claims, lease, channels, history

LEMMA TakeLeaseTypes ==
  ASSUME TypeOK, NEW r \in Runs, TakeLease(r), lapsed' \in BOOLEAN
  PROVE  TypeOK'
BY DEF TypeOK, TakeLease, Goes, Places, table, claims, work, channels, history

\* The actions that only move a run on.
LEMMA MovesTypes ==
  ASSUME TypeOK, NEW r \in Runs, NEW place \in Places, NEW end \in Ends, Goes(r, place),
         Ending(r, end) \/ UNCHANGED outcome,
         UNCHANGED <<table, claims, lease, cancel, input, work, channels, history, faults>>
  PROVE  TypeOK'
BY DEF TypeOK, Goes, Ending, table, claims, lease, work, channels, history

LEMMA TypeStep == ASSUME TypeOK, Positions, [Next]_vars PROVE TypeOK'
<1>1. CASE UNCHANGED vars
  BY <1>1 DEF TypeOK, vars, table, claims, lease, control, work, channels, history
<1>2. ASSUME NEW r \in Runs, Begin(r) PROVE TypeOK'
  <2>1. claimer' \in [Snapshots -> Runs \cup {NoRun}] /\ claimed' \subseteq Snapshots
    BY <1>2, UnclaimTypes DEF Begin
  <2> QED BY <1>2, <2>1 DEF TypeOK, Begin, Goes, Places, table, lease, work, channels, history
<1>3. ASSUME NEW r \in Runs, Busy(r) \/ SeeNoRow(r) \/ NothingNew(r) \/ Cancelled(r) \/ LostClaim(r)
      PROVE  TypeOK'
  BY <1>3, MovesTypes DEF Busy, SeeNoRow, NothingNew, Cancelled, LostClaim, Places, Ends
<1>4. ASSUME NEW r \in Runs, Take(r) PROVE TypeOK'
  BY <1>4, TakeLeaseTypes DEF TypeOK, Take
<1>5. ASSUME NEW r \in Runs, Insert(r) PROVE TypeOK'
  BY <1>5, TakeLeaseTypes DEF TypeOK, Insert
<1>6. ASSUME NEW r \in Runs, Supersede(r) PROVE TypeOK'
  <2>1. Superseded \subseteq Snapshots
    BY DEF Superseded, TypeOK
  <2>2. Leaves(Superseded) /\ Unclaim(Superseded)
    BY <1>6 DEF Supersede
  <2>3. /\ pending' \subseteq Snapshots /\ older' \in [Snapshots -> SUBSET pending']
        /\ expired' \subseteq pending' /\ unreadable' \subseteq Snapshots
        /\ newest' \in Snapshots \cup {NoSnapshot}
    BY <2>1, <2>2, LeavesTypes
  <2>4. claimer' \in [Snapshots -> Runs \cup {NoRun}] /\ claimed' \subseteq Snapshots
    BY <2>1, <2>2, UnclaimTypes
  <2> QED BY <1>6, <2>3, <2>4 DEF TypeOK, Supersede, Goes, Places, lease, work, channels, history
<1>7. ASSUME NEW r \in Runs, NEW s \in Snapshots, Claim(r, s) PROVE TypeOK'
  BY <1>7, MaxSwitchAssumption
     DEF TypeOK, Claim, TakeClaim, Goes, Places, table, lease, channels, history
<1>8. ASSUME NEW r \in Runs, NEW s \in Snapshots, LoseClaim(r, s) PROVE TypeOK'
  <2>1. faults' \in 0..MaxFaults
    BY <1>8, FaultTypes DEF TypeOK, LoseClaim
  <2> QED BY <1>8, <2>1 DEF TypeOK, LoseClaim, TakeClaim, Goes, Ending, Places, Ends, table, lease,
                            work, channels, history
<1>9. ASSUME NEW r \in Runs, NEW c \in Channels, Read(r, c) PROVE TypeOK'
  BY <1>9 DEF TypeOK, Read, table, claims, lease, control, channels, history
<1>10. ASSUME NEW r \in Runs, NEW x \in Readings, Write(r, x) PROVE TypeOK'
  <2> DEFINE c == cur[r]
             row == Evaluated(read[r], x, fuses[r])
  <2>1. read[r] \in Rows /\ x \in AllReadings /\ fuses[r] \in 0..MaxSwitch /\ c \in Channels
    BY <1>10, ReadingsAssumption DEF TypeOK, Write
  <2>2. row \in Rows /\ (NewFuse(read[r], row) => fuses[r] < MaxSwitch)
    BY <2>1, EvaluatedRow
  <2>3. rows' = [rows EXCEPT ![c] = row]
    BY <1>10 DEF Write
  <2>4. fuses' = IF NewFuse(read[r], row) THEN [fuses EXCEPT ![r] = @ + 1] ELSE fuses
    BY <1>10 DEF Write
  <2> HIDE DEF row
  <2>5. rows' \in [Channels -> Rows]
    BY <2>1, <2>2, <2>3 DEF TypeOK
  <2>6. fuses' \in [Runs -> 0..MaxSwitch]
    BY <2>1, <2>2, <2>4, MaxSwitchAssumption DEF TypeOK
  <2>7. passes' \in [Channels -> 0..2]
    BY <1>10 DEF TypeOK, Write
  <2>8. /\ todo' \in [Runs -> SUBSET Channels] /\ cur' \in [Runs -> Channels \cup {NoChannel}]
        /\ read' \in [Runs -> Rows]
    BY <1>10, UnknownRow DEF TypeOK, Write
  <2>9. UNCHANGED <<table, claims, lease, control, commanded, crossed, history, faults>>
    BY <1>10 DEF Write
  <2> QED BY <2>5, <2>6, <2>7, <2>8, <2>9 DEF TypeOK, table, claims, lease, control, history
<1>11. ASSUME NEW r \in Runs, Consume(r) PROVE TypeOK'
  <2>1. {input[r]} \subseteq Snapshots
    BY <1>11 DEF Consume, TypeOK
  <2>2. Leaves({input[r]}) /\ Unclaim({input[r]})
    BY <1>11 DEF Consume
  <2>3. /\ pending' \subseteq Snapshots /\ older' \in [Snapshots -> SUBSET pending']
        /\ expired' \subseteq pending' /\ unreadable' \subseteq Snapshots
        /\ newest' \in Snapshots \cup {NoSnapshot}
    BY <2>1, <2>2, LeavesTypes
  <2>4. claimer' \in [Snapshots -> Runs \cup {NoRun}] /\ claimed' \subseteq Snapshots
    BY <2>1, <2>2, UnclaimTypes
  <2>5. whole' \in BOOLEAN
    BY <1>11 DEF Consume
  <2> QED BY <1>11, <2>3, <2>4, <2>5
         DEF TypeOK, Consume, Goes, Ending, Places, Ends, lease, work, channels
<1>12. ASSUME NEW r \in Runs, CannotRead(r) \/ Raise(r) PROVE TypeOK'
  BY <1>12, FailsTypes DEF CannotRead, Raise, NoFault
<1>13. ASSUME NEW r \in Runs, Release(r) PROVE TypeOK'
  <2>1. claimer' \in [Snapshots -> Runs \cup {NoRun}] /\ claimed' \subseteq Snapshots
    <3>1. {s \in {input[r]} \cap pending : claimer[s] = r} \subseteq Snapshots
      BY DEF TypeOK
    <3> QED BY <1>13, <3>1, UnclaimTypes DEF Release
  <2> QED BY <1>13, <2>1 DEF TypeOK, Release, Goes, Places, table, lease, work, channels, history
<1>14. ASSUME NEW r \in Runs, Finish(r) PROVE TypeOK'
  <2>1. handed' \in [Snapshots -> 0..2]
    BY <1>14 DEF TypeOK, Finish, HandsOver
  <2> QED BY <1>14, <2>1 DEF TypeOK, Finish, Goes, Places, table, claims, lease, work, channels
<1>15. ASSUME NEW r \in Runs, Leave(r) \/ Refused(r) \/ Drop(r) PROVE TypeOK'
  <2>1. Forgets({r}) /\ {r} \in SUBSET Runs /\ (Fault \/ NoFault)
    BY <1>15 DEF Leave, Refused, Drop, NoFault
  <2>2. holder' \in Runs \cup {NoRun} /\ leased' \in BOOLEAN /\ lapsed' \in BOOLEAN
    BY <1>15 DEF TypeOK, Leave, Refused, Drop, ReleasesLease, lease
  <2> QED BY <2>1, <2>2, ForgetsTypes
<1>16. ASSUME Crash PROVE TypeOK'
  <2>1. holder' \in Runs \cup {NoRun} /\ leased' \in BOOLEAN /\ lapsed' \in BOOLEAN
    BY <1>16 DEF TypeOK, Crash, lease
  <2> QED BY <1>16, <2>1, ForgetsTypes DEF Crash
<1>17. ASSUME NEW r \in Runs, LoseLease(r) PROVE TypeOK'
  <2>1. faults' \in 0..MaxFaults
    BY <1>17, FaultTypes DEF TypeOK, LoseLease
  <2>2. holder' \in Runs \cup {NoRun} /\ leased' \in BOOLEAN /\ lapsed' \in BOOLEAN
    BY <1>17 DEF TypeOK, LoseLease, lease
  <2> QED BY <1>17, <2>1, <2>2
         DEF TypeOK, LoseLease, Goes, Places, table, claims, work, channels, history
<1>18. ASSUME NEW s \in Snapshots, Publish(s) PROVE TypeOK'
  <2>1. faults' \in 0..MaxFaults
    BY <1>18, FaultTypes DEF TypeOK, Publish
  <2>2. pending' \subseteq Snapshots /\ older' \in [Snapshots -> SUBSET pending']
    BY <1>18 DEF TypeOK, Publish
  <2>3. /\ expired' \subseteq pending' /\ unreadable' \subseteq Snapshots
    BY <1>18 DEF TypeOK, Publish
  <2>4. newest' \in Snapshots \cup {NoSnapshot} /\ whole' \in BOOLEAN
    BY <1>18 DEF Publish
  <2>5. handed' \in [Snapshots -> 0..2]
    BY <1>18 DEF TypeOK, Publish
  <2>6. UNCHANGED <<claims, lease, control, work, channels, late>>
    BY <1>18 DEF Publish
  <2> QED BY <2>1, <2>2, <2>3, <2>4, <2>5, <2>6 DEF TypeOK, claims, lease, control, work, channels
<1>19. CASE Age
  BY <1>19 DEF TypeOK, Age, claims, lease, control, work, channels, history
<1>20. CASE ExpireLease
  <2>1. faults' \in 0..MaxFaults /\ lapsed' \in BOOLEAN
    BY <1>20, FaultTypes DEF TypeOK, ExpireLease
  <2> QED BY <1>20, <2>1
         DEF TypeOK, ExpireLease, table, claims, control, work, channels, history
<1>21. ASSUME NEW s \in Snapshots, ExpireClaim(s) PROVE TypeOK'
  <2>1. faults' \in 0..MaxFaults
    BY <1>21, FaultTypes DEF TypeOK, ExpireClaim
  <2>2. late' \subseteq Runs
    BY <1>21 DEF TypeOK, ExpireClaim, Positions
  <2> QED BY <1>21, <2>1, <2>2
         DEF TypeOK, ExpireClaim, table, lease, control, work, channels
<1>22. ASSUME NEW c \in Channels, NEW manual \in Commands, Command(c, manual) PROVE TypeOK'
  <2>1. manual \in Controls /\ rows[c] \in Rows
    BY CommandsAssumption DEF TypeOK
  <2>2. Commanded(rows[c], manual) \in Rows
    BY <2>1, CommandedRow
  <2> QED BY <1>22, <2>1, <2>2
         DEF TypeOK, Command, table, claims, lease, control, work, history
<1>23. ASSUME NEW r \in Runs, CancelRun(r) PROVE TypeOK'
  BY <1>23 DEF TypeOK, CancelRun, table, claims, lease, work, channels, history
<1> QED BY <1>1, <1>2, <1>3, <1>4, <1>5, <1>6, <1>7, <1>8, <1>9, <1>10, <1>11, <1>12, <1>13,
           <1>14, <1>15, <1>16, <1>17, <1>18, <1>19, <1>20, <1>21, <1>22, <1>23
        DEF Next, CycleStep, Mishap, Time, Operators

-----------------------------------------------------------------------------
(* Where the runs are, the lease and the claims.                           *)

\* A run is where its memory says.
LEMMA PositionsStep == ASSUME TypeOK, Positions, [Next]_vars PROVE Positions'
<1>1. CASE UNCHANGED vars
  BY <1>1 DEF Positions, vars, table, claims, control
<1>2. ASSUME NEW r \in Runs, Begin(r) PROVE Positions'
  BY <1>2 DEF TypeOK, Positions, Begin, Goes, Unclaim
<1>3. ASSUME NEW r \in Runs, Busy(r) \/ SeeNoRow(r) PROVE Positions'
  BY <1>3 DEF TypeOK, Positions, Busy, SeeNoRow, Goes, claims
<1>4. ASSUME NEW r \in Runs, NothingNew(r) \/ Cancelled(r) \/ LostClaim(r) PROVE Positions'
  BY <1>4 DEF TypeOK, Positions, NothingNew, Cancelled, LostClaim, Between, Goes, Ending, claims
<1>5. ASSUME NEW r \in Runs, Take(r) \/ Insert(r) PROVE Positions'
  BY <1>5 DEF TypeOK, Positions, Take, Insert, TakeLease, Goes, claims
<1>6. ASSUME NEW r \in Runs, Supersede(r) PROVE Positions'
  BY <1>6 DEF TypeOK, Positions, Supersede, Goes, Unclaim
<1>7. ASSUME NEW r \in Runs, NEW s \in Snapshots, Claim(r, s) PROVE Positions'
  BY <1>7 DEF TypeOK, Positions, Claim, TakeClaim, Goes
<1>8. ASSUME NEW r \in Runs, NEW s \in Snapshots, LoseClaim(r, s) PROVE Positions'
  BY <1>8 DEF TypeOK, Positions, LoseClaim, TakeClaim, Goes, Ending
<1>9. ASSUME NEW r \in Runs, NEW c \in Channels, Read(r, c) PROVE Positions'
  BY <1>9 DEF Positions, Read, claims, control
<1>10. ASSUME NEW r \in Runs, NEW x \in Readings, Write(r, x) PROVE Positions'
  BY <1>10 DEF Positions, Write, claims, control
<1>11. ASSUME NEW r \in Runs, Consume(r) PROVE Positions'
  BY <1>11 DEF TypeOK, Positions, Consume, Between, Goes, Ending, Unclaim
<1>12. ASSUME NEW r \in Runs, CannotRead(r) \/ Raise(r) PROVE Positions'
  BY <1>12 DEF TypeOK, Positions, CannotRead, Raise, Fails, Goes, Ending, claims
<1>13. ASSUME NEW r \in Runs, Release(r) PROVE Positions'
  BY <1>13 DEF TypeOK, Positions, Release, Goes, Unclaim
<1>14. ASSUME NEW r \in Runs, Finish(r) PROVE Positions'
  BY <1>14 DEF TypeOK, Positions, Finish, Goes, claims
<1>15. ASSUME NEW R \in SUBSET Runs, Forgets(R) PROVE Positions'
  BY <1>15 DEF TypeOK, Positions, Forgets, claims
<1>16. ASSUME NEW r \in Runs, LoseLease(r) PROVE Positions'
  BY <1>16 DEF TypeOK, Positions, LoseLease, Goes, claims
<1>17. ASSUME NEW s \in Snapshots, Publish(s) PROVE Positions'
  BY <1>17 DEF Positions, Publish, claims, control
<1>18. CASE Age \/ ExpireLease
  BY <1>18 DEF Positions, Age, ExpireLease, claims, control
<1>19. ASSUME NEW s \in Snapshots, ExpireClaim(s) PROVE Positions'
  BY <1>19 DEF Positions, ExpireClaim, control
<1>20. ASSUME NEW c \in Channels, NEW manual \in Commands, Command(c, manual) PROVE Positions'
  BY <1>20 DEF Positions, Command, claims, control
<1>21. ASSUME NEW r \in Runs, CancelRun(r) PROVE Positions'
  BY <1>21 DEF Positions, CancelRun, claims
<1> QED BY <1>1, <1>2, <1>3, <1>4, <1>5, <1>6, <1>7, <1>8, <1>9, <1>10, <1>11, <1>12, <1>13,
           <1>14, <1>15, <1>16, <1>17, <1>18, <1>19, <1>20, <1>21
        DEF Next, CycleStep, Mishap, Time, Operators, Leave, Refused, Drop, Crash

\* A run is at work from its acquire on, and the row is taken only from a run that is not.
LEMMA LeaseStep == ASSUME TypeOK, LeaseKept, [Next]_vars PROVE LeaseKept'
<1>1. CASE UNCHANGED vars
  BY <1>1 DEF LeaseKept, Working, vars, lease, control
<1>2. ASSUME NEW r \in Runs, Begin(r) \/ Busy(r) \/ SeeNoRow(r) PROVE LeaseKept'
  BY <1>2 DEF TypeOK, LeaseKept, Working, Begin, Busy, SeeNoRow, Goes, lease
<1>3. ASSUME NEW r \in Runs, Take(r) PROVE LeaseKept'
  BY <1>3 DEF TypeOK, LeaseKept, Working, Take, TakeLease, HeldByOther, Goes
<1>4. ASSUME NEW r \in Runs, Insert(r) PROVE LeaseKept'
  BY <1>4, NamesAssumption DEF TypeOK, LeaseKept, Working, Insert, TakeLease, Overwrites, Goes
<1>5. ASSUME NEW r \in Runs, at[r] \in Places, Working(r), NEW place \in Places, Goes(r, place),
             UNCHANGED lease
      PROVE  LeaseKept'
  BY <1>5 DEF TypeOK, LeaseKept, Working, Goes, lease
<1>6. ASSUME UNCHANGED lease, UNCHANGED at PROVE LeaseKept'
  BY <1>6 DEF LeaseKept, Working, lease
<1>7. ASSUME NEW r \in Runs, CycleStep(r) PROVE LeaseKept'
  <2>1. CASE Busy(r) \/ SeeNoRow(r) \/ Take(r) \/ Insert(r)
    BY <1>2, <1>3, <1>4, <2>1
  <2>2. CASE \/ Supersede(r) \/ NothingNew(r) \/ \E s \in Snapshots : Claim(r, s)
             \/ Cancelled(r) \/ Consume(r) \/ LostClaim(r) \/ CannotRead(r)
             \/ Release(r) \/ Finish(r)
    BY <1>5, <2>2 DEF TypeOK, Supersede, NothingNew, Claim, TakeClaim, Cancelled, Consume,
                      LostClaim, CannotRead, Fails, Release, Finish, Between, Working, Places
  <2>3. CASE (\E c \in Channels : Read(r, c)) \/ (\E x \in Readings : Write(r, x))
    BY <1>6, <2>3 DEF Read, Write, control
  <2>4. CASE Leave(r)
    BY <2>4 DEF TypeOK, LeaseKept, Working, Leave, Forgets, ReleasesLease
  <2>5. CASE Refused(r)
    BY <2>5 DEF TypeOK, LeaseKept, Working, Refused, Forgets, lease
  <2> QED BY <1>7, <2>1, <2>2, <2>3, <2>4, <2>5 DEF CycleStep
<1>8. ASSUME NEW r \in Runs, LoseLease(r) PROVE LeaseKept'
  BY <1>8, NamesAssumption
     DEF TypeOK, LeaseKept, Working, LoseLease, HeldByOther, Overwrites, Goes, lease
<1>9. ASSUME NEW r \in Runs, Drop(r) PROVE LeaseKept'
  BY <1>9 DEF TypeOK, LeaseKept, Working, Drop, Forgets, ReleasesLease, lease
<1>10. CASE Crash
  BY <1>10 DEF TypeOK, LeaseKept, Working, Crash, Forgets, lease
<1>11. ASSUME NEW r \in Runs, Raise(r) \/ \E s \in Snapshots : LoseClaim(r, s) PROVE LeaseKept'
  BY <1>5, <1>11 DEF TypeOK, Raise, Fails, LoseClaim, TakeClaim, Working, Places
<1>12. ASSUME NEW s \in Snapshots, Publish(s) \/ ExpireClaim(s) PROVE LeaseKept'
  BY <1>6, <1>12 DEF Publish, ExpireClaim, control
<1>13. CASE ExpireLease
  BY <1>13 DEF TypeOK, LeaseKept, Working, ExpireLease, control
<1>14. CASE Age \/ Operators
  BY <1>6, <1>14 DEF Age, Operators, Command, CancelRun, control
<1>15. ASSUME NEW r \in Runs, Begin(r) PROVE LeaseKept'
  BY <1>2, <1>15
<1> QED BY <1>1, <1>7, <1>8, <1>9, <1>10, <1>11, <1>12, <1>13, <1>14, <1>15
        DEF Next, Mishap, Time

\* Nobody takes the claim of a run that evaluates, or consumes its snapshot, while it lasts.
LEMMA ClaimStep == ASSUME TypeOK, Positions, ClaimKept, [Next]_vars PROVE ClaimKept'
<1> USE NamesAssumption
<1>1. CASE UNCHANGED vars
  BY <1>1 DEF ClaimKept, vars, table, claims, control, history
<1>2. ASSUME NEW r \in Runs, Begin(r) PROVE ClaimKept'
  BY <1>2 DEF TypeOK, ClaimKept, Begin, Goes, Unclaim, table, history
<1>3. ASSUME NEW r \in Runs, NEW place \in Places \ {"evaluating"}, Goes(r, place),
             UNCHANGED <<table, claims, input, late>>
      PROVE  ClaimKept'
  BY <1>3 DEF TypeOK, ClaimKept, Goes, table, claims
<1>4. ASSUME UNCHANGED <<claims, at, input, late>>, pending \subseteq pending' PROVE ClaimKept'
  BY <1>4 DEF TypeOK, ClaimKept, claims
<1>5. ASSUME NEW r \in Runs, Supersede(r) PROVE ClaimKept'
  <2>1. \A q \in Runs : at[q] = "evaluating" /\ q \notin late => input[q] \notin Superseded
    BY DEF TypeOK, ClaimKept, Superseded, Claimable
  <2> QED BY <1>5, <2>1 DEF TypeOK, Positions, ClaimKept, Supersede, Leaves, Unclaim, Goes, history
<1>6. ASSUME NEW r \in Runs, NEW s \in Snapshots, TakeClaim(r, s)
      PROVE  \A q \in Runs : q # r /\ at[q] = "evaluating" /\ q \notin late
                => input[q] # s /\ input[q] \in claimed' /\ claimer'[input[q]] = q
                   /\ input[q] \in pending'
  BY <1>6 DEF TypeOK, Positions, ClaimKept, TakeClaim, Claimable, table
<1>7. ASSUME NEW r \in Runs, NEW s \in Snapshots, Claim(r, s) PROVE ClaimKept'
  <2>1. TakeClaim(r, s) /\ UNCHANGED late
    BY <1>7 DEF Claim, TakeClaim, history
  <2>2. \A q \in Runs : q # r /\ at[q] = "evaluating" /\ q \notin late
           => input[q] \in claimed' /\ claimer'[input[q]] = q /\ input[q] \in pending'
    BY <1>6, <2>1
  <2>3. s \in claimed' /\ claimer'[s] = r /\ s \in pending'
    BY <2>1 DEF TypeOK, TakeClaim, table
  <2> QED BY <1>7, <2>1, <2>2, <2>3 DEF TypeOK, ClaimKept, Claim, Goes
<1>8. ASSUME NEW r \in Runs, NEW s \in Snapshots, LoseClaim(r, s) PROVE ClaimKept'
  <2>1. TakeClaim(r, s) /\ UNCHANGED late
    BY <1>8 DEF LoseClaim, TakeClaim, history
  <2>2. \A q \in Runs : q # r /\ at[q] = "evaluating" /\ q \notin late
           => input[q] \in claimed' /\ claimer'[input[q]] = q /\ input[q] \in pending'
    BY <1>6, <2>1
  <2> QED BY <1>8, <2>1, <2>2 DEF TypeOK, ClaimKept, LoseClaim, Goes
<1>9. ASSUME NEW r \in Runs, Consume(r) PROVE ClaimKept'
  <2>1. \A q \in Runs : q # r /\ at[q] = "evaluating" /\ q \notin late => input[q] # input[r]
    BY <1>9 DEF ClaimKept, Consume
  <2> QED BY <1>9, <2>1 DEF TypeOK, Positions, ClaimKept, Consume, Leaves, Unclaim, Goes
<1>10. ASSUME NEW r \in Runs, Release(r) PROVE ClaimKept'
  BY <1>10 DEF TypeOK, Positions, ClaimKept, Release, Unclaim, Goes, table, history
<1>11. ASSUME NEW R \in SUBSET Runs, Forgets(R) PROVE ClaimKept'
  BY <1>11 DEF TypeOK, ClaimKept, Forgets, table, claims
<1>12. ASSUME NEW s \in Snapshots, ExpireClaim(s) PROVE ClaimKept'
  BY <1>12 DEF TypeOK, Positions, ClaimKept, ExpireClaim, table, control
<1>13. ASSUME NEW s \in Snapshots, Publish(s) PROVE ClaimKept'
  BY <1>4, <1>13 DEF Publish, control
<1>14. CASE Age \/ ExpireLease \/ Operators
  BY <1>4, <1>14 DEF Age, ExpireLease, Operators, Command, CancelRun, table, control, history
<1>15. ASSUME NEW r \in Runs, CycleStep(r) PROVE ClaimKept'
  <2>1. CASE \/ Busy(r) \/ Take(r) \/ SeeNoRow(r) \/ Insert(r) \/ NothingNew(r)
             \/ Cancelled(r) \/ LostClaim(r) \/ CannotRead(r) \/ Finish(r)
    BY <1>3, <2>1 DEF Busy, Take, Insert, TakeLease, SeeNoRow, NothingNew, Cancelled, LostClaim,
                      CannotRead, Fails, Finish, Places, history
  <2>2. CASE (\E c \in Channels : Read(r, c)) \/ (\E x \in Readings : Write(r, x))
    BY <1>4, <2>2 DEF Read, Write, control, table, history
  <2> QED BY <1>5, <1>7, <1>9, <1>10, <1>11, <1>15, <2>1, <2>2 DEF CycleStep, Leave, Refused
<1>16. ASSUME NEW r \in Runs, LoseLease(r) \/ Raise(r) PROVE ClaimKept'
  BY <1>3, <1>16 DEF LoseLease, Raise, Fails, Places, history
<1>17. CASE Mishap
  BY <1>8, <1>11, <1>16, <1>17 DEF Mishap, Drop, Crash
<1> QED BY <1>1, <1>2, <1>12, <1>13, <1>14, <1>15, <1>17 DEF Next, Time

\* A snapshot is consumed by one run, and that run hands it over once.
LEMMA HandingStep == ASSUME TypeOK, Positions, Handing, [Next]_vars PROVE Handing'
<1> USE NamesAssumption
<1>1. CASE UNCHANGED vars
  BY <1>1 DEF Handing, HandedOnce, Delivers, vars, table, control, history
<1>2. ASSUME UNCHANGED handed, pending' \subseteq pending,
             \A r \in Runs, s \in Snapshots : Delivers(r, s)' => Delivers(r, s)
      PROVE  Handing'
  BY <1>2 DEF TypeOK, Handing, HandedOnce
<1>3. ASSUME NEW r \in Runs, NEW place \in Places, Goes(r, place), UNCHANGED <<table, input, handed>>,
             place # "finish" \/ input[r] = NoSnapshot \/ outcome'[r] # "SUCCEEDED",
             \A q \in Runs : q # r => outcome'[q] = outcome[q]
      PROVE  Handing'
  <2>1. \A q \in Runs, s \in Snapshots : Delivers(q, s)' => Delivers(q, s)
    BY <1>3 DEF TypeOK, Goes, Delivers
  <2> QED BY <1>2, <1>3, <2>1 DEF table
<1>4. ASSUME UNCHANGED <<at, outcome, input, handed>>, pending' = pending PROVE Handing'
  BY <1>2, <1>4 DEF Delivers
<1>5. ASSUME NEW r \in Runs, Consume(r) PROVE Handing'
  <2> DEFINE s == input[r]
  <2>1. /\ s \in pending /\ s \in Snapshots /\ pending' = pending \ {s}
        /\ UNCHANGED <<input, handed>>
    BY <1>5 DEF TypeOK, Consume, Leaves
  <2>2. handed[s] = 0 /\ \A q \in Runs : ~Delivers(q, s)
    BY <2>1 DEF Handing
  <2>3. \A q \in Runs, t \in Snapshots : Delivers(q, t)' => Delivers(q, t) \/ (q = r /\ t = s)
    BY <1>5, <2>1 DEF TypeOK, Delivers, Consume, Goes, Ending
  <2> QED BY <2>1, <2>2, <2>3 DEF TypeOK, Handing, HandedOnce
<1>6. ASSUME NEW r \in Runs, Finish(r) PROVE Handing'
  <2>1. \A q \in Runs, t \in Snapshots : Delivers(q, t)' => q # r /\ Delivers(q, t)
    BY <1>6 DEF TypeOK, Delivers, Finish, Goes
  <2>2. CASE ~HandsOver(r)
    BY <1>2, <1>6, <2>1, <2>2 DEF Finish, table
  <2>3. CASE HandsOver(r)
    <3> DEFINE s == input[r]
    <3>1. s \in Snapshots /\ Delivers(r, s)
      BY <1>6, <2>3 DEF TypeOK, HandsOver, Delivers, Finish
    <3>2. handed[s] = 0 /\ s \notin pending
      BY <3>1 DEF Handing
    <3>3. handed' = [handed EXCEPT ![s] = 1] /\ UNCHANGED pending
      BY <1>6, <2>3, <3>1, <3>2 DEF TypeOK, Finish, table
    <3>4. \A q \in Runs, t \in Snapshots : t = s => ~Delivers(q, t)'
      BY <2>1, <3>1 DEF Handing
    <3> HIDE DEF s
    <3> QED BY <2>1, <3>1, <3>2, <3>3, <3>4 DEF TypeOK, Handing, HandedOnce
  <2> QED BY <2>2, <2>3
<1>7. ASSUME NEW s \in Snapshots, Publish(s) PROVE Handing'
  <2>1. \A q \in Runs, t \in Snapshots : Delivers(q, t)' => t # s /\ Delivers(q, t)
    BY <1>7 DEF Delivers, Publish, control
  <2> QED BY <1>7, <2>1 DEF TypeOK, Handing, HandedOnce, Publish
<1>8. ASSUME NEW R \in SUBSET Runs, Forgets(R) PROVE Handing'
  <2>1. \A q \in Runs, s \in Snapshots : Delivers(q, s)' => Delivers(q, s)
    BY <1>8 DEF TypeOK, Forgets, Delivers
  <2> QED BY <1>2, <1>8, <2>1 DEF Forgets, table
<1>9. ASSUME NEW r \in Runs, Supersede(r) PROVE Handing'
  <2>1. \A q \in Runs, s \in Snapshots : Delivers(q, s)' => Delivers(q, s)
    BY <1>9 DEF TypeOK, Supersede, Goes, Delivers
  <2> QED BY <1>2, <1>9, <2>1 DEF Supersede, Leaves, history
<1>10. ASSUME NEW r \in Runs, NEW s \in Snapshots, Claim(r, s) PROVE Handing'
  <2>1. \A q \in Runs, t \in Snapshots : Delivers(q, t)' => Delivers(q, t)
    BY <1>10 DEF TypeOK, Claim, Goes, Delivers
  <2> QED BY <1>2, <1>10, <2>1 DEF Claim, TakeClaim, table, history
<1>11. ASSUME NEW r \in Runs, NEW s \in Snapshots, LoseClaim(r, s) PROVE Handing'
  <2>1. \A q \in Runs, t \in Snapshots : Delivers(q, t)' => Delivers(q, t)
    BY <1>11 DEF TypeOK, LoseClaim, Goes, Ending, Delivers
  <2> QED BY <1>2, <1>11, <2>1 DEF LoseClaim, TakeClaim, table, history
<1>12. ASSUME NEW r \in Runs, CycleStep(r) \/ Begin(r) PROVE Handing'
  <2>1. CASE Begin(r) \/ Busy(r) \/ Take(r) \/ SeeNoRow(r) \/ Insert(r)
    BY <1>3, <2>1 DEF Begin, Busy, Take, Insert, TakeLease, SeeNoRow, Places, history
  <2>2. CASE NothingNew(r)
    BY <1>3, <2>2 DEF Positions, TypeOK, NothingNew, Ending, Places, history
  <2>3. CASE Cancelled(r) \/ LostClaim(r) \/ CannotRead(r)
    BY <1>3, <2>3 DEF TypeOK, Cancelled, LostClaim, CannotRead, Fails, Ending, Places, history
  <2>4. CASE Release(r)
    BY <1>3, <2>4 DEF Positions, Release, Places, history
  <2>5. CASE (\E c \in Channels : Read(r, c)) \/ (\E x \in Readings : Write(r, x))
    BY <1>4, <2>5 DEF Read, Write, control, table, history
  <2> QED BY <1>5, <1>6, <1>8, <1>9, <1>10, <1>12, <2>1, <2>2, <2>3, <2>4, <2>5
          DEF CycleStep, Leave, Refused
<1>13. ASSUME NEW r \in Runs, LoseLease(r) \/ Raise(r) PROVE Handing'
  BY <1>3, <1>13 DEF TypeOK, LoseLease, Raise, Fails, Ending, Places, history
<1>14. CASE Mishap
  BY <1>8, <1>11, <1>13, <1>14 DEF Mishap, Drop, Crash
<1>15. CASE Time \/ Operators
  BY <1>4, <1>15
     DEF Time, Age, ExpireLease, ExpireClaim, Operators, Command, CancelRun, table, control, history
<1> QED BY <1>1, <1>7, <1>12, <1>14, <1>15 DEF Next

\* The newest snapshot is before no other, so supersede leaves it.
LEMMA NewestStep == ASSUME TypeOK, NewestLast, [Next]_vars PROVE NewestLast'
<1> USE NamesAssumption
<1>1. ASSUME UNCHANGED <<pending, older, newest, whole>> PROVE NewestLast'
  BY <1>1 DEF NewestLast, NewestEvaluated
<1>2. ASSUME NEW S \in SUBSET Snapshots, Leaves(S), newest \in S => whole', whole => whole'
      PROVE  NewestLast'
  BY <1>2 DEF TypeOK, NewestLast, NewestEvaluated, Leaves
<1>3. ASSUME NEW r \in Runs, Supersede(r) PROVE NewestLast'
  <2>1. Superseded \subseteq Snapshots /\ newest \notin Superseded
    BY DEF TypeOK, NewestLast, Superseded, Behind
  <2> QED BY <1>2, <1>3, <2>1 DEF Supersede, history
<1>4. ASSUME NEW r \in Runs, Consume(r) PROVE NewestLast'
  <2>1. /\ {input[r]} \in SUBSET Snapshots /\ Leaves({input[r]})
        /\ (newest \in {input[r]} => whole') /\ (whole => whole')
    BY <1>4 DEF TypeOK, Consume
  <2> QED BY <1>2, <2>1
<1>5. ASSUME NEW s \in Snapshots, Publish(s) PROVE NewestLast'
  BY <1>5 DEF TypeOK, NewestLast, NewestEvaluated, Publish
<1>6. ASSUME NEW R \in SUBSET Runs, Forgets(R) PROVE NewestLast'
  BY <1>1, <1>6 DEF Forgets, table
<1>7. ASSUME NEW r \in Runs, CycleStep(r) \/ Begin(r) PROVE NewestLast'
  <2>1. CASE \/ Begin(r) \/ Busy(r) \/ Take(r) \/ SeeNoRow(r) \/ Insert(r) \/ NothingNew(r)
             \/ Cancelled(r) \/ LostClaim(r) \/ CannotRead(r) \/ Release(r) \/ Finish(r)
    BY <1>1, <2>1 DEF Begin, Busy, Take, Insert, TakeLease, SeeNoRow, NothingNew, Cancelled,
                      LostClaim, CannotRead, Fails, Release, Finish, table, history
  <2>2. CASE \/ \E s \in Snapshots : Claim(r, s)
             \/ \E c \in Channels : Read(r, c)
             \/ \E x \in Readings : Write(r, x)
    BY <1>1, <2>2 DEF Claim, TakeClaim, Read, Write, table, history
  <2> QED BY <1>3, <1>4, <1>6, <1>7, <2>1, <2>2 DEF CycleStep, Leave, Refused
<1>8. CASE Mishap
  <2>1. ASSUME NEW r \in Runs, LoseLease(r) \/ Raise(r) PROVE NewestLast'
    BY <1>1, <2>1 DEF LoseLease, Raise, Fails, table, history
  <2>2. ASSUME NEW r \in Runs, NEW s \in Snapshots, LoseClaim(r, s) PROVE NewestLast'
    BY <1>1, <2>2 DEF LoseClaim, TakeClaim, table, history
  <2> QED BY <1>6, <1>8, <2>1, <2>2 DEF Mishap, Drop, Crash
<1>9. CASE Time \/ Operators \/ UNCHANGED vars
  BY <1>1, <1>9
     DEF Time, Age, ExpireLease, ExpireClaim, Operators, Command, CancelRun, vars, table, history
<1> QED BY <1>5, <1>7, <1>8, <1>9 DEF Next

-----------------------------------------------------------------------------
(* The rows, and the runs' copies of them.                                 *)

\* A step outside the rows and what runs have read.
LEMMA Elsewhere ==
  ASSUME [Next]_vars, ~\E r \in Runs, c \in Channels : Read(r, c),
         ~\E r \in Runs, x \in Readings : Write(r, x),
         ~\E c \in Channels, manual \in Commands : Command(c, manual), TypeOK
  PROVE  /\ UNCHANGED channels
         /\ \A r \in Runs : cur'[r] \in Channels
                              => cur'[r] = cur[r] /\ read'[r] = read[r]
<1> USE NamesAssumption
<1>1. ASSUME UNCHANGED <<channels, cur, read>>
      PROVE  /\ UNCHANGED channels
             /\ \A r \in Runs : cur'[r] \in Channels => cur'[r] = cur[r] /\ read'[r] = read[r]
  BY <1>1
<1>2. ASSUME NEW r \in Runs, Begin(r) \/ Busy(r) \/ Take(r) \/ SeeNoRow(r) \/ Insert(r)
                             \/ Supersede(r) \/ NothingNew(r) \/ (\E s \in Snapshots : Claim(r, s))
      PROVE  UNCHANGED <<channels, cur, read>>
  BY <1>2 DEF Begin, Busy, Take, SeeNoRow, Insert, TakeLease, Supersede, NothingNew, Claim, TakeClaim,
              work
<1>3. ASSUME NEW r \in Runs, \/ Cancelled(r) \/ Consume(r) \/ LostClaim(r) \/ Release(r) \/ Finish(r)
                             \/ LoseLease(r) \/ \E s \in Snapshots : LoseClaim(r, s)
                             \/ CancelRun(r)
      PROVE  UNCHANGED <<channels, cur, read>>
  BY <1>3 DEF Cancelled, Consume, LostClaim, Release, Finish, LoseLease, LoseClaim, TakeClaim,
              CancelRun, work
<1>4. ASSUME NEW s \in Snapshots, Publish(s) \/ ExpireClaim(s) PROVE UNCHANGED <<channels, cur, read>>
  BY <1>4 DEF Publish, ExpireClaim, work
<1>5. CASE Age \/ ExpireLease \/ UNCHANGED vars
  BY <1>1, <1>5 DEF Age, ExpireLease, vars, work
<1>6. ASSUME NEW r \in Runs, CannotRead(r) \/ Raise(r)
      PROVE  /\ UNCHANGED channels
             /\ \A q \in Runs : cur'[q] \in Channels => cur'[q] = cur[q] /\ read'[q] = read[q]
  BY <1>6 DEF TypeOK, CannotRead, Raise, Fails
<1>7. ASSUME NEW R \in SUBSET Runs, Forgets(R)
      PROVE  /\ UNCHANGED channels
             /\ \A q \in Runs : cur'[q] \in Channels => cur'[q] = cur[q] /\ read'[q] = read[q]
  BY <1>7 DEF TypeOK, Forgets
<1>8. ASSUME NEW r \in Runs, CycleStep(r) \/ Begin(r)
      PROVE  /\ UNCHANGED channels
             /\ \A q \in Runs : cur'[q] \in Channels => cur'[q] = cur[q] /\ read'[q] = read[q]
  BY <1>1, <1>2, <1>3, <1>6, <1>7, <1>8 DEF CycleStep, Leave, Refused
<1>9. CASE Mishap
  BY <1>1, <1>3, <1>6, <1>7, <1>9 DEF Mishap, Drop, Crash
<1>10. CASE Time \/ Operators
  BY <1>1, <1>3, <1>4, <1>5, <1>10 DEF Time, Operators
<1> QED BY <1>1, <1>4, <1>5, <1>8, <1>9, <1>10 DEF Next

\* A command is copied into the row, and every copy of the row that is older is crossed.
LEMMA CommandingStep == ASSUME TypeOK, Commanding, [Next]_vars PROVE Commanding'
<1> USE NamesAssumption
<1>1. ASSUME NEW r \in Runs, NEW c \in Channels, Read(r, c) PROVE Commanding'
  BY <1>1 DEF TypeOK, Commanding, CommandKept, Read, channels
<1>2. ASSUME NEW r \in Runs, NEW x \in Readings, Write(r, x) PROVE Commanding'
  <2> DEFINE c == cur[r]
             new == Evaluated(read[r], x, fuses[r])
  <2>1. c \in Channels /\ read[r] \in Rows /\ x \in AllReadings /\ fuses[r] \in 0..MaxSwitch
    BY <1>2, ReadingsAssumption DEF TypeOK, Write
  <2>2. /\ new.manual = read[r].manual
        /\ read[r].manual # "NONE" /\ new.desired => new.health = "EXCLUDED"
    BY <2>1, EvaluatedRow
  <2>3. c \in crossed \/ read[r].manual = commanded[c]
    BY <2>1 DEF Commanding
  <2>4. rows' = [rows EXCEPT ![c] = new] /\ UNCHANGED <<commanded, crossed>>
    BY <1>2 DEF Write
  <2> HIDE DEF new
  <2>5. /\ \A d \in Channels : d \in crossed \/ rows'[d].manual = commanded[d]
        /\ \A d \in Channels : commanded[d] # "NONE" /\ rows'[d].desired
                                 => d \in crossed \/ rows'[d].health = "EXCLUDED"
    BY <2>1, <2>2, <2>3, <2>4 DEF TypeOK, Commanding, CommandKept
  <2>6. \A q \in Runs : cur'[q] \in Channels => cur'[q] = cur[q] /\ read'[q] = read[q]
    BY <1>2 DEF TypeOK, Write
  <2> QED BY <2>4, <2>5, <2>6 DEF Commanding, CommandKept
<1>3. ASSUME NEW c \in Channels, NEW manual \in Commands, Command(c, manual) PROVE Commanding'
  <2>1. rows[c] \in Rows /\ manual \in Controls
    BY CommandsAssumption DEF TypeOK
  <2>2. /\ Commanded(rows[c], manual).manual = manual
        /\ manual # "NONE" => ~Commanded(rows[c], manual).desired
    BY <2>1, CommandedRow
  <2>3. /\ rows'[c] = Commanded(rows[c], manual) /\ commanded'[c] = manual
        /\ \A d \in Channels \ {c} :
             /\ rows'[d] = rows[d] /\ commanded'[d] = commanded[d]
             /\ d \in crossed => d \in crossed'
        /\ (\E r \in Runs : cur[r] = c) => c \in crossed'
        /\ UNCHANGED <<cur, read>>
    BY <1>3 DEF TypeOK, Command, work
  <2> QED BY <2>2, <2>3 DEF Commanding, CommandKept
<1>4. CASE /\ ~\E r \in Runs, c \in Channels : Read(r, c)
           /\ ~\E r \in Runs, x \in Readings : Write(r, x)
           /\ ~\E c \in Channels, manual \in Commands : Command(c, manual)
  BY <1>4, Elsewhere DEF Commanding, CommandKept, channels
<1> QED BY <1>1, <1>2, <1>3, <1>4

\* A run leaves a channel before it leaves its place.
LEMMA LookingStep == ASSUME TypeOK, Looking, [Next]_vars PROVE Looking'
<1> USE NamesAssumption
<1>1. ASSUME UNCHANGED <<at, cur>> PROVE Looking'
  BY <1>1 DEF Looking
<1>2. ASSUME NEW r \in Runs, at[r] # "evaluating" \/ cur[r] = NoChannel, NEW place \in Places,
             Goes(r, place), UNCHANGED cur
      PROVE  Looking'
  BY <1>2 DEF TypeOK, Looking, Goes
<1>3. ASSUME NEW R \in SUBSET Runs, Forgets(R) PROVE Looking'
  BY <1>3 DEF TypeOK, Looking, Forgets
<1>4. ASSUME NEW r \in Runs, CannotRead(r) \/ Raise(r) PROVE Looking'
  BY <1>4 DEF TypeOK, Looking, CannotRead, Raise, Fails, Goes
<1>5. ASSUME NEW r \in Runs, CycleStep(r) \/ Begin(r) PROVE Looking'
  <2>1. CASE \/ Begin(r) \/ Busy(r) \/ Take(r) \/ SeeNoRow(r) \/ Insert(r) \/ Supersede(r)
             \/ NothingNew(r)
    BY <1>2, <2>1 DEF Begin, Busy, Take, SeeNoRow, Insert, TakeLease, Supersede, NothingNew,
                      Places, work
  <2>2. CASE \E s \in Snapshots : Claim(r, s)
    BY <1>2, <2>2 DEF Claim, TakeClaim, Places
  <2>3. CASE Cancelled(r) \/ Consume(r) \/ LostClaim(r) \/ Release(r) \/ Finish(r)
    BY <1>2, <2>3 DEF Cancelled, Consume, LostClaim, Release, Finish, Between, Places, work
  <2>4. CASE \E c \in Channels : Read(r, c)
    BY <2>4 DEF TypeOK, Looking, Read, Between, control
  <2>5. CASE \E x \in Readings : Write(r, x)
    BY <2>5 DEF TypeOK, Looking, Write, control
  <2> QED BY <1>3, <1>4, <1>5, <2>1, <2>2, <2>3, <2>4, <2>5 DEF CycleStep, Leave, Refused
<1>6. ASSUME NEW r \in Runs, LoseLease(r) PROVE Looking'
  BY <1>2, <1>6 DEF LoseLease, Places, work
<1>7. ASSUME NEW r \in Runs, NEW s \in Snapshots, LoseClaim(r, s) PROVE Looking'
  BY <1>2, <1>7 DEF LoseClaim, TakeClaim, Places, work
<1>8. CASE Mishap
  BY <1>3, <1>4, <1>6, <1>7, <1>8 DEF Mishap, Drop, Crash
<1>9. ASSUME NEW s \in Snapshots, Publish(s) PROVE Looking'
  BY <1>1, <1>9 DEF Publish, control, work
<1>10. CASE Time \/ Operators \/ UNCHANGED vars
  BY <1>1, <1>10 DEF Time, Age, ExpireLease, ExpireClaim, Operators, Command, CancelRun, vars,
                     control, work
<1> QED BY <1>5, <1>8, <1>9, <1>10 DEF Next

\* A lease that was lost under a run is not forgotten.
LEMMA LapsedStays == ASSUME [Next]_vars, lapsed PROVE lapsed'
<1>1. ASSUME UNCHANGED lapsed PROVE lapsed'
  BY <1>1
<1>2. ASSUME NEW r \in Runs, CycleStep(r) \/ Begin(r) PROVE lapsed'
  <2>1. CASE Begin(r) \/ Busy(r) \/ Take(r) \/ SeeNoRow(r) \/ Supersede(r) \/ NothingNew(r)
             \/ \E s \in Snapshots : Claim(r, s)
    BY <2>1 DEF Begin, Busy, Take, SeeNoRow, TakeLease, Supersede, NothingNew, Claim, TakeClaim, lease
  <2>2. CASE (\E c \in Channels : Read(r, c)) \/ \E x \in Readings : Write(r, x)
    BY <2>2 DEF Read, Write, lease
  <2>3. CASE \/ Cancelled(r) \/ Consume(r) \/ LostClaim(r) \/ CannotRead(r)
             \/ Release(r) \/ Finish(r) \/ Leave(r) \/ Refused(r)
    BY <2>3 DEF Cancelled, Consume, LostClaim, CannotRead, Fails, Release, Finish, Leave,
                Refused, lease
  <2>4. CASE Insert(r)
    BY <2>4 DEF Insert
  <2> QED BY <1>2, <2>1, <2>2, <2>3, <2>4 DEF CycleStep
<1>3. CASE Mishap
  <2>1. ASSUME NEW r \in Runs, LoseLease(r) \/ Raise(r) \/ Drop(r) PROVE lapsed'
    BY <2>1 DEF LoseLease, Raise, Fails, Drop, lease
  <2>2. ASSUME NEW r \in Runs, NEW s \in Snapshots, LoseClaim(r, s) PROVE lapsed'
    BY <2>2 DEF LoseClaim, TakeClaim, lease
  <2> QED BY <1>3, <2>1, <2>2 DEF Mishap, Crash, lease
<1>4. ASSUME NEW s \in Snapshots, Publish(s) PROVE lapsed'
  BY <1>4 DEF Publish, lease
<1>5. CASE Time
  BY <1>5 DEF Time, ExpireLease, Age, ExpireClaim, lease
<1>6. CASE Operators \/ UNCHANGED vars
  BY <1>6 DEF Operators, Command, CancelRun, vars, lease
<1> QED BY <1>2, <1>3, <1>4, <1>5, <1>6 DEF Next

\* Only a good check sets healthy_since, and a row that a run has read is not overwritten
\* by a second run, but for a lost lease.
LEMMA ChecksStep ==
  ASSUME TypeOK, LeaseKept, Looking, Checks, [Next]_vars
  PROVE  Checks'
<1> USE NamesAssumption
<1>1. ASSUME NEW r \in Runs, NEW c \in Channels, Read(r, c) PROVE Checks'
  BY <1>1, LapsedStays DEF TypeOK, Checks, Read, channels, lease
<1>2. ASSUME NEW r \in Runs, NEW x \in Readings, Write(r, x) PROVE Checks'
  <2> DEFINE c == cur[r]
             new == Evaluated(read[r], x, fuses[r])
  <2>1. c \in Channels /\ read[r] \in Rows /\ x \in AllReadings /\ fuses[r] \in 0..MaxSwitch
    BY <1>2, ReadingsAssumption DEF TypeOK, Write
  <2>2. new.since => Passes(read[r], x)
    BY <2>1, EvaluatedRow
  <2>3. rows' = [rows EXCEPT ![c] = new] /\ UNCHANGED <<crossed, lapsed>>
    BY <1>2 DEF Write, lease
  <2>4. /\ Passes(read[r], x) => passes'[c] >= 1
        /\ \A d \in Channels \ {c} : passes'[d] = passes[d]
    BY <1>2, <2>1 DEF TypeOK, Write
  <2> HIDE DEF new
  <2>5. \A d \in Channels : rows'[d].since => passes'[d] >= 1
    BY <2>1, <2>2, <2>3, <2>4 DEF TypeOK, Checks
  <2>6. cur'[r] = NoChannel /\ \A q \in Runs \ {r} : cur'[q] = cur[q] /\ read'[q] = read[q]
    BY <1>2 DEF TypeOK, Write
  <2>7. ASSUME NEW q \in Runs \ {r}, cur[q] = c PROVE lapsed
    <3>1. Working(q) /\ Working(r)
      BY <2>1, <2>7 DEF Looking, Working
    <3> QED BY <2>7, <3>1 DEF LeaseKept
  <2>8. \A q \in Runs : cur'[q] \in Channels
                          => lapsed' \/ cur'[q] \in crossed' \/ read'[q] = rows'[cur'[q]]
    <3>1. SUFFICES ASSUME NEW q \in Runs \ {r}, cur[q] \in Channels, ~lapsed, cur[q] \notin crossed
                   PROVE  read[q] = rows'[cur[q]]
      BY <2>3, <2>6
    <3>2. cur[q] # c
      BY <2>7, <3>1
    <3> QED BY <2>1, <2>3, <3>1, <3>2 DEF TypeOK, Checks
  <2> QED BY <2>5, <2>8 DEF Checks
<1>3. ASSUME NEW c \in Channels, NEW manual \in Commands, Command(c, manual) PROVE Checks'
  <2>1. rows[c] \in Rows /\ manual \in Controls
    BY CommandsAssumption DEF TypeOK
  <2>2. Commanded(rows[c], manual).since = rows[c].since
    BY <2>1, CommandedRow
  <2>3. /\ rows'[c] = Commanded(rows[c], manual)
        /\ \A d \in Channels \ {c} : rows'[d] = rows[d] /\ (d \in crossed => d \in crossed')
        /\ (\E r \in Runs : cur[r] = c) => c \in crossed'
        /\ UNCHANGED <<cur, read, passes, lapsed>>
    BY <1>3 DEF TypeOK, Command, work, lease
  <2> QED BY <2>2, <2>3 DEF Checks
<1>4. CASE /\ ~\E r \in Runs, c \in Channels : Read(r, c)
           /\ ~\E r \in Runs, x \in Readings : Write(r, x)
           /\ ~\E c \in Channels, manual \in Commands : Command(c, manual)
  BY <1>4, Elsewhere, LapsedStays DEF Checks, channels
<1> QED BY <1>1, <1>2, <1>3, <1>4

-----------------------------------------------------------------------------
(* The theorems.                                                           *)

LEMMA InitIInv == Init => IInv
<1> SUFFICES ASSUME Init PROVE IInv
  OBVIOUS
<1> USE NamesAssumption
<1>1. TypeOK
  <2>1. 0 \in 0..MaxSwitch /\ 0 \in 0..MaxFaults /\ 0 \in 0..2
    BY MaxSwitchAssumption, FaultsAssumption
  <2>2. /\ rows \in [Channels -> Rows] /\ read \in [Runs -> Rows]
        /\ commanded \in [Channels -> Controls] /\ crossed \subseteq Channels
        /\ passes \in [Channels -> 0..2] /\ fuses \in [Runs -> 0..MaxSwitch]
    BY <2>1, UnknownRow DEF Init, Controls
  <2>3. /\ pending \subseteq Snapshots /\ older \in [Snapshots -> SUBSET pending]
        /\ expired \subseteq pending /\ unreadable \subseteq Snapshots
        /\ newest \in Snapshots \cup {NoSnapshot} /\ handed \in [Snapshots -> 0..2]
    BY <2>1 DEF Init
  <2>4. /\ at \in [Runs -> Places] /\ cancel \in [Runs -> BOOLEAN]
        /\ input \in [Runs -> Snapshots \cup {NoSnapshot}] /\ outcome \in [Runs -> Ends]
        /\ todo \in [Runs -> SUBSET Channels] /\ cur \in [Runs -> Channels \cup {NoChannel}]
    BY DEF Init, Places, Ends
  <2>5. /\ claimer \in [Snapshots -> Runs \cup {NoRun}] /\ claimed \subseteq Snapshots
        /\ holder \in Runs \cup {NoRun} /\ leased \in BOOLEAN /\ lapsed \in BOOLEAN
        /\ whole \in BOOLEAN /\ late \subseteq Runs /\ faults \in 0..MaxFaults
    BY <2>1 DEF Init
  <2> QED BY <2>2, <2>3, <2>4, <2>5 DEF TypeOK
<1>2. Positions /\ LeaseKept /\ ClaimKept /\ Looking
  BY DEF Init, Positions, LeaseKept, Working, ClaimKept, Looking
<1>3. Handing /\ NewestLast
  BY DEF Init, Handing, HandedOnce, Delivers, NewestLast, NewestEvaluated
<1>4. Commanding /\ Checks
  BY DEF Init, Commanding, CommandKept, Checks, Unknown
<1> QED BY <1>1, <1>2, <1>3, <1>4 DEF IInv

LEMMA InvariantHolds == Spec => []IInv
<1>1. IInv /\ [Next]_vars => IInv'
  <2> SUFFICES ASSUME IInv, [Next]_vars PROVE IInv'
    OBVIOUS
  <2>1. TypeOK' /\ Positions'
    BY TypeStep, PositionsStep DEF IInv
  <2>2. LeaseKept' /\ ClaimKept' /\ Handing' /\ NewestLast'
    BY LeaseStep, ClaimStep, HandingStep, NewestStep DEF IInv
  <2>3. Commanding' /\ Looking' /\ Checks'
    BY CommandingStep, LookingStep, ChecksStep DEF IInv
  <2> QED BY <2>1, <2>2, <2>3 DEF IInv
<1> QED BY InitIInv, <1>1, PTL DEF Spec

\* Rows, snapshots, claims, the lease and the runs keep their types: no decision, counter or
\* command leaves the row's domain, and a cycle fuses no more than MaxSwitch channels.
THEOREM TypeCorrect == Spec => []TypeOK
BY InvariantHolds, PTL DEF IInv

\* acquire_lease keeps cycles apart, but for a lease that expires under its cycle and for
\* two acquires that meet no row.
THEOREM OneCycleCorrect == Spec => []OneCycle
<1>1. IInv => OneCycle
  BY DEF IInv, LeaseKept, OneCycle
<1> QED BY InvariantHolds, <1>1, PTL

\* The snapshot of a run that evaluates is neither claimed nor superseded nor consumed by
\* anyone else while the claim lasts.
THEOREM ClaimHoldsCorrect == Spec => []ClaimHolds
<1>1. IInv => ClaimHolds
  BY DEF IInv, ClaimKept, ClaimHolds
<1> QED BY InvariantHolds, <1>1, PTL

\* No snapshot is handed to account recovery by two runs that finish.
THEOREM HandedOnceCorrect == Spec => []HandedOnce
<1>1. IInv => HandedOnce
  BY DEF IInv, Handing
<1> QED BY InvariantHolds, <1>1, PTL

\* The newest snapshot waits until a run has evaluated every channel by it.
THEOREM NewestEvaluatedCorrect == Spec => []NewestEvaluated
<1>1. IInv => NewestEvaluated
  BY DEF IInv, NewestLast
<1> QED BY InvariantHolds, <1>1, PTL

\* No cycle puts a channel into service against an operator's last command, unless that
\* command crossed the cycle.
THEOREM CommandKeptCorrect == Spec => []CommandKept
<1>1. IInv => CommandKept
  BY DEF IInv, Commanding
<1> QED BY InvariantHolds, <1>1, PTL

\* A fused channel is healthy again only after good checks in succession.
THEOREM RecoversAfterGoodChecksCorrect == Spec => RecoversAfterGoodChecks
<1> DEFINE Recovery == \A c \in Channels : rows[c].health = "FUSED" /\ rows'[c].health = "HEALTHY"
                                             => passes[c] >= 1 \/ c \in crossed \/ lapsed
<1>1. IInv /\ [Next]_vars => [Recovery]_vars
  <2> SUFFICES ASSUME IInv, [Next]_vars PROVE Recovery
    OBVIOUS
  <2> USE DEF IInv
  <2>1. ASSUME NEW r \in Runs, NEW x \in Readings, Write(r, x) PROVE Recovery
    <3> DEFINE c == cur[r]
               new == Evaluated(read[r], x, fuses[r])
    <3>1. c \in Channels /\ read[r] \in Rows /\ x \in AllReadings /\ fuses[r] \in 0..MaxSwitch
      BY <2>1, ReadingsAssumption DEF TypeOK, Write
    <3>2. read[r].health = "FUSED" /\ new.health = "HEALTHY" => read[r].since
      BY <3>1, EvaluatedRow
    <3>3. rows' = [rows EXCEPT ![c] = new]
      BY <2>1 DEF Write
    <3>4. lapsed \/ c \in crossed \/ read[r] = rows[c]
      BY <3>1 DEF Checks
    <3>5. rows[c].since => passes[c] >= 1
      BY <3>1 DEF Checks
    <3> HIDE DEF new
    <3> QED BY <3>1, <3>2, <3>3, <3>4, <3>5 DEF TypeOK
  <2>2. ASSUME NEW c \in Channels, NEW manual \in Commands, Command(c, manual) PROVE Recovery
    <3>1. rows[c] \in Rows /\ manual \in Controls
      BY CommandsAssumption DEF TypeOK
    <3>2. Commanded(rows[c], manual).health # "HEALTHY"
      BY <3>1, CommandedRow
    <3> QED BY <2>2, <3>2 DEF TypeOK, Command
  <2>3. ASSUME NEW r \in Runs, NEW c \in Channels, Read(r, c) PROVE Recovery
    BY <2>3 DEF Read, channels
  <2>4. CASE /\ ~\E r \in Runs, c \in Channels : Read(r, c)
             /\ ~\E r \in Runs, x \in Readings : Write(r, x)
             /\ ~\E c \in Channels, manual \in Commands : Command(c, manual)
    BY <2>4, Elsewhere DEF channels
  <2> QED BY <2>1, <2>2, <2>3, <2>4
<1> QED BY InvariantHolds, <1>1, PTL DEF Spec, RecoversAfterGoodChecks

-----------------------------------------------------------------------------
(* Progress.  The steps a run can still make are bounded, and no other run,*)
(* operator, fault or snapshot adds to them: each of its own steps, errors *)
(* included, uses up some.  With the fairness of CycleStep a run ends, and *)
(* gives up its lease and its claim, which is what SnapshotsDrain rests on.*)

\* A cycle from its claim on: two steps for each channel.
PassSize == 2 * Cardinality(Channels) + 7

StepsAt(place, end, left, looks) ==
  CASE place = "idle" -> 0
    [] place \in {"refused", "leave"} -> 1
    [] place = "finish" -> IF end = "FAILED" THEN 2 ELSE 4
    [] place = "release" -> IF end = "FAILED" THEN 3 ELSE 5
    [] place = "evaluating" -> 6 + 2 * Cardinality(left) - (IF looks THEN 1 ELSE 0)
    [] place = "compacted" -> PassSize
    [] place = "leased" -> PassSize + 1
    [] place = "norow" -> PassSize + 2
    [] place = "started" -> PassSize + 3

StepsLeft(r) == StepsAt(at[r], outcome[r], todo[r], cur[r] \in Channels)

\* What is left at each place.
Weighs(n, place, end) ==
  /\ n \in 0..PassSize + 3
  /\ n = 0 <=> place = "idle"
  /\ place \in {"refused", "leave"} => n = 1
  /\ place = "finish" => n = IF end = "FAILED" THEN 2 ELSE 4
  /\ place = "release" => n = IF end = "FAILED" THEN 3 ELSE 5
  /\ place = "evaluating" => n \in 6..PassSize - 1
  /\ place = "compacted" => n = PassSize
  /\ place = "leased" => n = PassSize + 1
  /\ place = "norow" => n = PassSize + 2
  /\ place = "started" => n = PassSize + 3

\* A step that a run makes once it has begun, whether it succeeds, raises or is cut short.
RunStep(r) ==
  \/ CycleStep(r) \/ LoseLease(r) \/ Raise(r) \/ Drop(r)
  \/ \E s \in Snapshots : LoseClaim(r, s)

\* A run looks at a channel it has yet to evaluate.
Aimed == \A r \in Runs : cur[r] \in Channels => cur[r] \in todo[r]

LEMMA SizesOfChannels ==
  /\ Cardinality(Channels) \in Nat
  /\ \A S \in SUBSET Channels : Cardinality(S) \in 0..Cardinality(Channels)
  /\ \A S \in SUBSET Channels : \A c \in S : Cardinality(S \ {c}) = Cardinality(S) - 1
<1>1. Cardinality(Channels) \in Nat
  BY ChannelsAssumption, FS_CardinalityType
<1>2. \A S \in SUBSET Channels :
        IsFiniteSet(S) /\ Cardinality(S) \in Nat /\ Cardinality(S) <= Cardinality(Channels)
  BY ChannelsAssumption, FS_Subset, FS_CardinalityType
<1>3. \A S \in SUBSET Channels : \A c \in S : Cardinality(S \ {c}) = Cardinality(S) - 1
  BY <1>2, FS_RemoveElement
<1> QED BY <1>1, <1>2, <1>3

LEMMA StepsByPlace ==
  ASSUME NEW place \in Places, NEW end, NEW left \in SUBSET Channels, NEW looks \in BOOLEAN,
         looks => left # {}
  PROVE  Weighs(StepsAt(place, end, left, looks), place, end)
<1>1. PassSize \in Nat /\ PassSize >= 7
  BY SizesOfChannels DEF PassSize
<1>2. Cardinality(left) \in 0..Cardinality(Channels)
  BY SizesOfChannels
<1>3. ASSUME looks PROVE Cardinality(left) >= 1
  <2>1. PICK c \in left : TRUE
    BY <1>3
  <2>2. /\ Cardinality(left \ {c}) = Cardinality(left) - 1
        /\ Cardinality(left \ {c}) \in 0..Cardinality(Channels)
    BY SizesOfChannels
  <2> QED BY <1>2, <2>2, SizesOfChannels
<1>4. ASSUME place = "evaluating" PROVE StepsAt(place, end, left, looks) \in 6..PassSize - 1
  <2>1. StepsAt(place, end, left, looks) = 6 + 2 * Cardinality(left) - (IF looks THEN 1 ELSE 0)
    BY <1>4 DEF StepsAt
  <2>2. CASE looks
    BY <1>2, <1>3, <2>1, <2>2, SizesOfChannels DEF PassSize
  <2>3. CASE ~looks
    BY <1>2, <2>1, <2>3, SizesOfChannels DEF PassSize
  <2> QED BY <2>2, <2>3
<1>5. CASE place = "evaluating"
  BY <1>1, <1>4, <1>5 DEF Weighs
<1>6. CASE place # "evaluating"
  BY <1>1, <1>6 DEF Weighs, StepsAt, Places
<1> QED BY <1>5, <1>6

\* So it is of every run, before a step and after it.
LEMMA StepsNow ==
  ASSUME TypeOK, Aimed, NEW r \in Runs
  PROVE  Weighs(StepsLeft(r), at[r], outcome[r])
<1>1. at[r] \in Places /\ todo[r] \in SUBSET Channels
  BY DEF TypeOK
<1>2. (cur[r] \in Channels) \in BOOLEAN /\ (cur[r] \in Channels => todo[r] # {})
  BY DEF Aimed
<1> QED BY <1>1, <1>2, StepsByPlace DEF StepsLeft

LEMMA StepsNext ==
  ASSUME TypeOK', Aimed', NEW r \in Runs
  PROVE  Weighs(StepsLeft(r)', at'[r], outcome'[r])
<1>1. at'[r] \in Places /\ todo'[r] \in SUBSET Channels
  BY DEF TypeOK
<1>2. (cur'[r] \in Channels) \in BOOLEAN /\ (cur'[r] \in Channels => todo'[r] # {})
  BY DEF Aimed
<1> QED BY <1>1, <1>2, StepsByPlace DEF StepsLeft

LEMMA AimedStep == ASSUME TypeOK, Aimed, [Next]_vars PROVE Aimed'
<1> USE NamesAssumption
<1>1. ASSUME UNCHANGED <<todo, cur>> PROVE Aimed'
  BY <1>1 DEF Aimed
<1>2. ASSUME NEW R \in SUBSET Runs, Forgets(R) PROVE Aimed'
  BY <1>2 DEF TypeOK, Aimed, Forgets
<1>3. ASSUME NEW r \in Runs, Fails(r) PROVE Aimed'
  BY <1>3 DEF TypeOK, Aimed, Fails
<1>4. ASSUME NEW r \in Runs, CycleStep(r) \/ Begin(r) PROVE Aimed'
  <2>1. CASE \/ Begin(r) \/ Busy(r) \/ Take(r) \/ SeeNoRow(r) \/ Insert(r) \/ Supersede(r)
             \/ NothingNew(r)
    BY <1>1, <2>1 DEF Begin, Busy, Take, SeeNoRow, Insert, TakeLease, Supersede, NothingNew, work
  <2>2. CASE \E s \in Snapshots : Claim(r, s)
    BY <2>2 DEF TypeOK, Aimed, Claim
  <2>3. CASE Cancelled(r) \/ Consume(r) \/ LostClaim(r) \/ Release(r) \/ Finish(r)
    BY <1>1, <2>3 DEF Cancelled, Consume, LostClaim, Release, Finish, work
  <2>4. CASE \E c \in Channels : Read(r, c)
    BY <2>4 DEF TypeOK, Aimed, Read, Between
  <2>5. CASE \E x \in Readings : Write(r, x)
    BY <2>5 DEF TypeOK, Aimed, Write
  <2>6. CASE CannotRead(r) \/ Leave(r) \/ Refused(r)
    BY <1>2, <1>3, <2>6 DEF CannotRead, Leave, Refused
  <2> QED BY <1>4, <2>1, <2>2, <2>3, <2>4, <2>5, <2>6 DEF CycleStep
<1>5. CASE Mishap
  <2>1. ASSUME NEW r \in Runs, LoseLease(r) \/ Raise(r) \/ Drop(r) PROVE Aimed'
    BY <1>1, <1>2, <1>3, <2>1 DEF LoseLease, Raise, Drop, work
  <2>2. ASSUME NEW r \in Runs, NEW s \in Snapshots, LoseClaim(r, s) PROVE Aimed'
    BY <1>1, <2>2 DEF LoseClaim, work
  <2> QED BY <1>2, <1>5, <2>1, <2>2 DEF Mishap, Crash
<1>6. ASSUME NEW s \in Snapshots, Publish(s) PROVE Aimed'
  BY <1>1, <1>6 DEF Publish, work
<1>7. CASE Time \/ Operators \/ UNCHANGED vars
  BY <1>1, <1>7 DEF Time, Age, ExpireLease, ExpireClaim, Operators, Command, CancelRun, vars, work
<1> QED BY <1>4, <1>5, <1>6, <1>7 DEF Next

\* Reading a channel's row and writing it are the two steps of a channel.
LEMMA ChannelUses ==
  ASSUME TypeOK, Aimed, NEW r \in Runs,
         (\E c \in Channels : Read(r, c)) \/ \E x \in Readings : Write(r, x)
  PROVE  StepsLeft(r)' < StepsLeft(r)
<1> USE NamesAssumption
<1>1. /\ todo[r] \in SUBSET Channels /\ Cardinality(todo[r]) \in Nat
      /\ \A c \in todo[r] : Cardinality(todo[r] \ {c}) = Cardinality(todo[r]) - 1
  BY SizesOfChannels DEF TypeOK
<1>2. ASSUME NEW c \in Channels, Read(r, c) PROVE StepsLeft(r)' < StepsLeft(r)
  <2>1. at[r] = "evaluating" /\ at'[r] = "evaluating" /\ todo'[r] = todo[r]
        /\ cur[r] \notin Channels /\ cur'[r] \in Channels
    BY <1>2 DEF TypeOK, Read, Between, control
  <2>2. StepsLeft(r) = 6 + 2 * Cardinality(todo[r])
    BY <1>1, <2>1 DEF StepsLeft, StepsAt
  <2>3. StepsLeft(r)' = 6 + 2 * Cardinality(todo[r]) - 1
    BY <2>1 DEF StepsLeft, StepsAt
  <2> QED BY <1>1, <2>2, <2>3
<1>3. ASSUME NEW x \in Readings, Write(r, x) PROVE StepsLeft(r)' < StepsLeft(r)
  <2>1. at[r] = "evaluating" /\ at'[r] = "evaluating" /\ todo'[r] = todo[r] \ {cur[r]}
        /\ cur[r] \in Channels /\ cur'[r] \notin Channels
    BY <1>3 DEF TypeOK, Write, control
  <2>2. Cardinality(todo'[r]) = Cardinality(todo[r]) - 1
    BY <1>1, <2>1 DEF Aimed
  <2>3. StepsLeft(r) = 6 + 2 * Cardinality(todo[r]) - 1
    BY <2>1 DEF StepsLeft, StepsAt
  <2>4. StepsLeft(r)' = 6 + 2 * Cardinality(todo'[r])
    BY <1>1, <2>1, <2>2 DEF StepsLeft, StepsAt
  <2> QED BY <1>1, <2>2, <2>3, <2>4
<1> QED BY <1>2, <1>3

LEMMA RunStepUses ==
  ASSUME TypeOK, TypeOK', Aimed, Aimed', NEW r \in Runs, RunStep(r)
  PROVE  StepsLeft(r)' < StepsLeft(r)
<1>1. PassSize \in Nat /\ PassSize >= 7
  BY SizesOfChannels DEF PassSize
<1>2. /\ Weighs(StepsLeft(r), at[r], outcome[r])
      /\ Weighs(StepsLeft(r)', at'[r], outcome'[r])
  BY StepsNow, StepsNext
<1>3. ASSUME NEW place \in Places, Goes(r, place) PROVE at'[r] = place
  BY <1>3 DEF TypeOK, Goes
<1>4. CASE Busy(r) \/ SeeNoRow(r) \/ Take(r) \/ Insert(r) \/ LoseLease(r)
  <2>1. \/ at[r] = "started" /\ at'[r] \in {"refused", "norow", "leased"}
        \/ at[r] = "norow" /\ at'[r] \in {"refused", "leased"}
    BY <1>3, <1>4 DEF Busy, SeeNoRow, Take, Insert, TakeLease, LoseLease, Places
  <2> QED BY <1>1, <1>2, <2>1 DEF Weighs
<1>5. CASE Supersede(r) \/ NothingNew(r) \/ \E s \in Snapshots : Claim(r, s) \/ LoseClaim(r, s)
  <2>1. \/ at[r] = "leased" /\ at'[r] = "compacted"
        \/ at[r] = "compacted" /\ at'[r] \in {"finish", "evaluating", "release"}
    BY <1>3, <1>5 DEF Supersede, NothingNew, Claim, LoseClaim, TakeClaim, Places
  <2> QED BY <1>1, <1>2, <2>1 DEF Weighs
<1>6. CASE Cancelled(r) \/ Consume(r) \/ LostClaim(r)
  <2>1. at[r] = "evaluating" /\ at'[r] \in {"release", "finish"}
    BY <1>3, <1>6 DEF Cancelled, Consume, LostClaim, Between, Places
  <2> QED BY <1>1, <1>2, <2>1 DEF Weighs
<1>7. CASE CannotRead(r) \/ Raise(r)
  <2>1. /\ \/ at[r] \in {"leased", "compacted", "evaluating"}
           \/ at[r] \in {"release", "finish"} /\ outcome[r] # "FAILED"
        /\ at'[r] = "release" /\ outcome'[r] = "FAILED"
    BY <1>3, <1>7 DEF TypeOK, CannotRead, Raise, Fails, Ending, Places
  <2> QED BY <1>1, <1>2, <2>1 DEF Weighs
<1>8. CASE Release(r) \/ Finish(r)
  <2>1. \/ at[r] = "release" /\ at'[r] = "finish" /\ outcome'[r] = outcome[r]
        \/ at[r] = "finish" /\ at'[r] = "leave"
    BY <1>3, <1>8 DEF Release, Finish, Places
  <2> QED BY <1>1, <1>2, <2>1 DEF Weighs
<1>9. CASE Leave(r) \/ Refused(r) \/ Drop(r)
  <2>1. at[r] \in Places \ {"idle"} /\ at'[r] = "idle"
    BY <1>9 DEF TypeOK, Leave, Refused, Drop, Forgets
  <2> QED BY <1>1, <1>2, <2>1 DEF Weighs, Places
<1> QED BY <1>4, <1>5, <1>6, <1>7, <1>8, <1>9, ChannelUses DEF RunStep, CycleStep

\* A run that another one, an operator, time or a new snapshot does not touch.
LEMMA Untouched ==
  ASSUME NEW r \in Runs, at'[r] = at[r], outcome'[r] = outcome[r], todo'[r] = todo[r],
         cur'[r] = cur[r]
  PROVE  StepsLeft(r)' = StepsLeft(r)
BY DEF StepsLeft

LEMMA OthersAddNothing ==
  ASSUME TypeOK, TypeOK', Aimed, Aimed', [Next]_vars, NEW r \in Runs, ~RunStep(r), at[r] # "idle"
  PROVE  StepsLeft(r)' <= StepsLeft(r)
<1>1. StepsLeft(r) \in Nat /\ StepsLeft(r)' \in Nat
  BY StepsNow, StepsNext, SizesOfChannels DEF Weighs, PassSize
<1>2. ASSUME at'[r] = at[r], outcome'[r] = outcome[r], todo'[r] = todo[r], cur'[r] = cur[r]
      PROVE  StepsLeft(r)' <= StepsLeft(r)
  BY <1>1, <1>2, Untouched
<1>3. ASSUME NEW q \in Runs \ {r}, Forgets({q}) PROVE StepsLeft(r)' <= StepsLeft(r)
  BY <1>2, <1>3 DEF TypeOK, Forgets
<1>4. ASSUME NEW q \in Runs \ {r}, NEW place, Goes(q, place), UNCHANGED <<todo, cur>>,
             UNCHANGED outcome \/ \E end \in Ends : Ending(q, end)
      PROVE  StepsLeft(r)' <= StepsLeft(r)
  BY <1>2, <1>4 DEF TypeOK, Goes, Ending
<1>5. ASSUME NEW q \in Runs \ {r}, Fails(q) PROVE StepsLeft(r)' <= StepsLeft(r)
  BY <1>2, <1>5 DEF TypeOK, Fails, Goes, Ending
<1>6. ASSUME NEW q \in Runs \ {r}, CycleStep(q) \/ Begin(q) PROVE StepsLeft(r)' <= StepsLeft(r)
  <2>1. CASE \/ Begin(q) \/ Busy(q) \/ Take(q) \/ SeeNoRow(q) \/ Insert(q) \/ Supersede(q)
             \/ NothingNew(q)
    BY <1>4, <2>1 DEF Begin, Busy, Take, SeeNoRow, Insert, TakeLease, Supersede, NothingNew, work,
                      Ends
  <2>2. CASE \E s \in Snapshots : Claim(q, s)
    BY <1>2, <2>2 DEF TypeOK, Claim, Goes
  <2>3. CASE Cancelled(q) \/ Consume(q) \/ LostClaim(q) \/ Release(q) \/ Finish(q)
    BY <1>4, <2>3 DEF Cancelled, Consume, LostClaim, Release, Finish, work, Ends
  <2>4. CASE (\E c \in Channels : Read(q, c)) \/ \E x \in Readings : Write(q, x)
    BY <1>2, <2>4 DEF TypeOK, Read, Write, control
  <2>5. CASE CannotRead(q) \/ Leave(q) \/ Refused(q)
    BY <1>3, <1>5, <2>5 DEF CannotRead, Leave, Refused
  <2> QED BY <1>6, <2>1, <2>2, <2>3, <2>4, <2>5 DEF CycleStep
<1>7. ASSUME NEW q \in Runs \ {r}, LoseLease(q) \/ Raise(q) \/ Drop(q)
      PROVE  StepsLeft(r)' <= StepsLeft(r)
  BY <1>3, <1>4, <1>5, <1>7 DEF LoseLease, Raise, Drop, work
<1>8. ASSUME NEW q \in Runs \ {r}, NEW s \in Snapshots, LoseClaim(q, s)
      PROVE  StepsLeft(r)' <= StepsLeft(r)
  BY <1>4, <1>8 DEF LoseClaim, work, Ends
<1>9. CASE Crash
  <2>1. at'[r] = "idle"
    BY <1>9 DEF Crash, Forgets
  <2>2. StepsLeft(r)' = 0
    BY <2>1, StepsNext DEF Weighs
  <2> QED BY <1>1, <2>2
<1>10. ASSUME NEW s \in Snapshots, Publish(s) PROVE StepsLeft(r)' <= StepsLeft(r)
  BY <1>2, <1>10 DEF Publish, control, work
<1>11. CASE Time \/ Operators \/ UNCHANGED vars
  BY <1>2, <1>11
     DEF Time, Age, ExpireLease, ExpireClaim, Operators, Command, CancelRun, vars, control, work
<1>12. ASSUME NEW q \in Runs, \/ Begin(q) \/ CycleStep(q) \/ LoseLease(q) \/ Raise(q) \/ Drop(q)
                              \/ \E s \in Snapshots : LoseClaim(q, s)
       PROVE  StepsLeft(r)' <= StepsLeft(r)
  <2>1. q # r
    BY <1>12 DEF RunStep, Begin
  <2> QED BY <1>6, <1>7, <1>8, <1>12, <2>1
<1> QED BY <1>9, <1>10, <1>11, <1>12 DEF Next, Mishap

LEMMA AimedHolds == Spec => [](TypeOK /\ Aimed)
<1>1. Init => Aimed
  BY NamesAssumption DEF Init, Aimed
<1>2. IInv /\ Aimed /\ [Next]_vars => Aimed'
  BY AimedStep DEF IInv
<1>3. IInv => TypeOK
  BY DEF IInv
<1> QED BY <1>1, <1>2, <1>3, InvariantHolds, PTL DEF Spec

\* A run has a bounded number of steps left at every moment, and none exactly when it is over.
THEOREM RunIsBounded ==
  Spec => [](\A r \in Runs : /\ StepsLeft(r) \in 0..PassSize + 3
                             /\ StepsLeft(r) = 0 <=> at[r] = "idle")
<1> DEFINE Bounded == \A r \in Runs : /\ StepsLeft(r) \in 0..PassSize + 3
                                      /\ StepsLeft(r) = 0 <=> at[r] = "idle"
<1>1. TypeOK /\ Aimed => Bounded
  BY StepsNow DEF Weighs
<1> QED BY <1>1, AimedHolds, PTL

\* Each step of a run, one that raises or ends it included, leaves it fewer; and whatever the
\* other runs, operators, the scheduler, time or a crash do, it gets none back
\* (GuardianEngine.run_once has no loop but over the snapshot's channels, and retries nothing).
THEOREM RunAdvances ==
  Spec => [][\A r \in Runs : /\ RunStep(r) => StepsLeft(r)' < StepsLeft(r)
                             /\ at[r] # "idle" => StepsLeft(r)' <= StepsLeft(r)]_vars
<1> DEFINE Advances == \A r \in Runs : /\ RunStep(r) => StepsLeft(r)' < StepsLeft(r)
                                       /\ at[r] # "idle" => StepsLeft(r)' <= StepsLeft(r)
<1>1. ASSUME TypeOK, TypeOK', Aimed, Aimed', [Next]_vars, NEW r \in Runs
      PROVE  /\ RunStep(r) => StepsLeft(r)' < StepsLeft(r)
             /\ at[r] # "idle" => StepsLeft(r)' <= StepsLeft(r)
  <2>1. RunStep(r) => StepsLeft(r)' < StepsLeft(r)
    BY <1>1, RunStepUses
  <2>2. StepsLeft(r) \in Int /\ StepsLeft(r)' \in Int
    BY <1>1, StepsNow, StepsNext, SizesOfChannels DEF Weighs, PassSize
  <2> QED BY <1>1, <2>1, <2>2, OthersAddNothing
<1>2. TypeOK /\ Aimed /\ TypeOK' /\ Aimed' /\ [Next]_vars => [Advances]_vars
  BY <1>1
<1> QED BY <1>2, AimedHolds, PTL DEF Spec
=============================================================================

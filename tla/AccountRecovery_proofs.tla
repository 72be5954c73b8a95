------------------------ MODULE AccountRecovery_proofs ------------------------
(* Proofs about AccountRecovery: its types, and what holds of its runs, their rows and the     *)
(* accounts they write.                                                                        *)
EXTENDS AccountRecovery, FiniteSetTheorems, TLAPS, WellFoundedInduction

(* The inductive invariant.  Placed: a runner knows its snapshot and its account.  Exclusive:  *)
(* who executes has the lease.  Rested: what is left to a run was not tested lately.  Paused:  *)
(* what an operator paused looks so.  Opened: who works has a RUNNING row.  The other parts    *)
(* are the properties themselves.                                                              *)
OnAccount(p) == run[p].at \in {"test", "decide", "write", "record"}
Placed ==
  \A p \in Runners : /\ run[p].at # "idle" => run[p].snap \in Snapshots
                     /\ OnAccount(p) => run[p].cur \in Accounts
Exclusive == \A p \in Runners : Executing(p) => lapsed \/ holder = p
Rested ==
  \A p \in Runners :
    Working(p) => \/ lapsed
                  \/ /\ run[p].todo \intersect recent = {}
                     /\ OnAccount(p) => run[p].cur \notin run[p].todo
                     /\ run[p].at = "test" => run[p].cur \notin recent
PausedLooksSo == \A a \in paused : up[a] = "paused"
RowOpen ==
  \A p \in Runners :
    Working(p) /\ run[p].at # "fail" => lapsed \/ rows[run[p].snap][run[p].kind] = "RUNNING"

-----------------------------------------------------------------------------
(* Types *)

LEMMA Next1IsIn ==
  ASSUME NEW r \in RunRecords, r.todo # {} PROVE Next1(r) \in r.todo
<1> DEFINE LT == {pair \in Nat \X Nat : pair[1] < pair[2]}
<1>1. IsWellFoundedOn(LT, Nat)
  BY NatLessThanWellFounded DEF OpToRel
<1>2. r.todo \subseteq Nat
  BY AccountsAssumption DEF RunRecords
<1> HIDE DEF LT
<1>3. PICK a \in r.todo : \A b \in r.todo : <<b, a>> \notin LT
  BY <1>1, <1>2, WFMin
<1>4. ASSUME NEW b \in r.todo PROVE a <= b
  <2>1. a \in Nat /\ b \in Nat /\ <<b, a>> \notin LT
    BY <1>2, <1>3
  <2>2. ~(b < a)
    BY <2>1 DEF LT
  <2> QED BY <2>1, <2>2
<1> QED BY <1>4 DEF Next1

LEMMA RestingIsRecord == Resting \in RunRecords /\ Resting.at = "idle"
BY DEF Resting, RunRecords, Places, Kinds, Plans

LEMMA BeginningIsRecord ==
  ASSUME NEW s \in Snapshots, NEW k \in Kinds, NEW more \in BOOLEAN, NEW done \in SUBSET Accounts
  PROVE  /\ Beginning(s, k, more, done) \in RunRecords
         /\ Beginning(s, k, more, done).at = "begin" /\ Beginning(s, k, more, done).snap = s
BY RestingIsRecord DEF Beginning, RunRecords, Places, Resting

\* A runner that goes somewhere: the others stay, and it is typed and placed if its record is.
PlacedRecord(r) ==
  /\ r \in RunRecords
  /\ r.at # "idle" => r.snap \in Snapshots
  /\ r.at \in {"test", "decide", "write", "record"} => r.cur \in Accounts

LEMMA GoesPlaced ==
  ASSUME run \in [Runners -> RunRecords], Placed, NEW p \in Runners, NEW r, PlacedRecord(r), Goes(p, r)
  PROVE  run' \in [Runners -> RunRecords] /\ Placed'
BY DEF Goes, Placed, OnAccount, PlacedRecord

LEMMA BeginsPlaced ==
  \A s \in Snapshots, k \in Kinds, more \in BOOLEAN, done \in SUBSET Accounts :
    PlacedRecord(Beginning(s, k, more, done))
BY BeginningIsRecord DEF PlacedRecord

LEMMA MovedPlaced ==
  ASSUME NEW r, PlacedRecord(r), r.at # "idle", NEW place \in Places,
         place \in {"test", "decide", "write", "record"} => r.cur \in Accounts
  PROVE  /\ PlacedRecord([r EXCEPT !.at = place])
         /\ PlacedRecord([r EXCEPT !.at = place, !.stop = TRUE])
         /\ PlacedRecord([r EXCEPT !.at = place, !.more = FALSE])
         /\ place \notin {"test", "decide", "write", "record"} =>
              PlacedRecord([r EXCEPT !.at = place, !.cur = None, !.auto = FALSE, !.plan = "keep",
                                     !.tested = FALSE])
<1>1. r \in RunRecords /\ r.snap \in Snapshots
  BY DEF PlacedRecord
<1>2. PlacedRecord([r EXCEPT !.at = place])
  BY <1>1 DEF PlacedRecord, RunRecords
<1>3. PlacedRecord([r EXCEPT !.at = place, !.stop = TRUE])
  BY <1>1 DEF PlacedRecord, RunRecords
<1>4. PlacedRecord([r EXCEPT !.at = place, !.more = FALSE])
  BY <1>1 DEF PlacedRecord, RunRecords
<1>5. ASSUME place \notin {"test", "decide", "write", "record"}
      PROVE  PlacedRecord([r EXCEPT !.at = place, !.cur = None, !.auto = FALSE, !.plan = "keep",
                                    !.tested = FALSE])
  BY <1>1, <1>5 DEF PlacedRecord, RunRecords, Plans
<1> QED BY <1>2, <1>3, <1>4, <1>5

LEMMA DecidedPlaced ==
  ASSUME NEW r, PlacedRecord(r), r.at = "test", NEW plan \in Plans, NEW tested \in BOOLEAN,
         NEW auto \in BOOLEAN
  PROVE  /\ PlacedRecord(Decided(r, plan))
         /\ PlacedRecord(Decided([r EXCEPT !.tested = tested, !.auto = auto], plan))
<1>1. r \in RunRecords /\ r.snap \in Snapshots /\ r.cur \in Accounts
  BY DEF PlacedRecord
<1>2. \A place \in {"record", "decide"} :
        /\ PlacedRecord([r EXCEPT !.at = place, !.plan = plan])
        /\ PlacedRecord([[r EXCEPT !.tested = tested, !.auto = auto] EXCEPT !.at = place, !.plan = plan])
  BY <1>1 DEF PlacedRecord, RunRecords, Places
<1> QED BY <1>2 DEF Decided

\* What a test leads to.
LEMMA TestMoves ==
  ASSUME NEW p \in Runners, Test(p)
  PROVE  \E plan \in Plans, tested, auto \in BOOLEAN :
           \/ Goes(p, Decided(run[p], plan))
           \/ Goes(p, Decided([run[p] EXCEPT !.tested = tested, !.auto = auto], plan))
<1> DEFINE initial == obs[run[p].snap][run[p].cur]
           IsAuto(found) == "held" \in {initial, found}
<1>1. \A verdict : PlanFor(run[p], verdict) \in Plans
  BY DEF PlanFor, Plans
<1>2. "keep" \in Plans /\ \A found : IsAuto(found) \in BOOLEAN
  BY DEF Plans
<1>3. PICK found :
        \/ \E plan \in Plans : Goes(p, Decided(run[p], plan))
        \/ \E plan \in Plans :
             Goes(p, Decided([run[p] EXCEPT !.tested = TRUE, !.auto = IsAuto(found)], plan))
  BY <1>1, <1>2 DEF Test
<1> HIDE DEF IsAuto
<1> QED BY <1>2, <1>3

\* The runners' records.
LEMMA RunsNext ==
  TypeOK /\ Placed /\ [Next]_vars => run' \in [Runners -> RunRecords] /\ Placed'
<1> SUFFICES ASSUME TypeOK, Placed, [Next]_vars PROVE run' \in [Runners -> RunRecords] /\ Placed'
  OBVIOUS
<1>0. /\ run \in [Runners -> RunRecords]
      /\ \A p \in Runners : PlacedRecord(run[p])
      /\ PlacedRecord(Resting) /\ {"channel", "bad"} = Kinds
  BY RestingIsRecord DEF TypeOK, Placed, OnAccount, PlacedRecord, Kinds
<1>1. ASSUME NEW a \in Accounts,
             Operator(a) \/ Server(a) \/ Quarantine(a) \/ QuarantinePasses(a) \/ QuarantineMisses(a)
             \/ Cool(a)
      PROVE  UNCHANGED run
  BY <1>1 DEF Operator, Server, Quarantine, QuarantinePasses, QuarantineMisses, Cool
<1>2. ASSUME NEW p \in Runners, NEW s \in Snapshots, NEW entry \in Entries, Evaluate(p, s, entry)
      PROVE  run' \in [Runners -> RunRecords] /\ Placed'
  BY <1>0, <1>2, GoesPlaced, BeginsPlaced DEF Evaluate
<1>3. ASSUME NEW p \in Runners, Replay(p) \/ Submit(p)
      PROVE  run' \in [Runners -> RunRecords] /\ Placed'
  <2>1. current \in Snapshots
    BY <1>3 DEF Replay, Submit, TypeOK
  <2>2. episode \in Snapshots \union {NoSnapshot}
    BY DEF TypeOK
  <2> QED BY <1>0, <1>3, <2>1, <2>2, GoesPlaced, BeginsPlaced DEF Replay, Submit
<1>4. ASSUME NEW p \in Runners, Busy(p) \/ Acquire(p)
      PROVE  run' \in [Runners -> RunRecords] /\ Placed'
  <2>1. Acquire(p) => PlacedRecord([run[p] EXCEPT !.at = "open", !.quar = marked])
    BY <1>0 DEF Acquire, TypeOK, PlacedRecord, RunRecords, Places
  <2> QED BY <1>0, <1>4, <2>1, GoesPlaced DEF Busy, Acquire
<1>5. ASSUME NEW p \in Runners, Open(p)
      PROVE  run' \in [Runners -> RunRecords] /\ Placed'
  <2>1. Candidates(run[p]) \subseteq Accounts
    <3>1. Scope(run[p].kind) \subseteq Accounts
      BY GroupsAssumption DEF Scope
    <3> QED BY <3>1 DEF Candidates
  <2>2. run[p].at # "idle"
    BY <1>5 DEF Open
  <2>3. /\ PlacedRecord([run[p] EXCEPT !.at = "release"])
        /\ PlacedRecord([run[p] EXCEPT !.at = "next", !.quar = {}, !.todo = Candidates(run[p])])
    BY <1>0, <2>1, <2>2 DEF PlacedRecord, RunRecords, Places
  <2> QED BY <1>0, <1>5, <2>3, GoesPlaced DEF Open
<1>6. ASSUME NEW p \in Runners, NextAccount(p)
      PROVE  run' \in [Runners -> RunRecords] /\ Placed'
  <2>1. Next1(run[p]) \in run[p].todo /\ run[p].at = "next" /\ Next1(run[p]) \in Accounts
    BY <1>0, <1>6, Next1IsIn DEF NextAccount, RunRecords, PlacedRecord
  <2>2. \A place \in {"record", "test"} :
          PlacedRecord([run[p] EXCEPT !.todo = @ \ {Next1(run[p])}, !.cur = Next1(run[p]),
                          !.auto = FALSE, !.plan = "keep", !.tested = FALSE, !.at = place])
    BY <1>0, <2>1 DEF PlacedRecord, RunRecords, Places, Plans
  <2>3. PlacedRecord([run[p] EXCEPT !.at = "fail"])
    BY <1>0, <2>1 DEF PlacedRecord, RunRecords, Places
  <2>4. \E r : PlacedRecord(r) /\ Goes(p, r)
    BY <1>6, <2>2, <2>3 DEF NextAccount
  <2> QED BY <1>0, <2>4, GoesPlaced
<1>7. ASSUME NEW p \in Runners, Test(p)
      PROVE  run' \in [Runners -> RunRecords] /\ Placed'
  <2>1. run[p].at = "test" /\ PlacedRecord(run[p])
    BY <1>0, <1>7 DEF Test
  <2>2. \E r : PlacedRecord(r) /\ Goes(p, r)
    BY <1>7, <2>1, TestMoves, DecidedPlaced
  <2> QED BY <1>0, <2>2, GoesPlaced
<1>8. ASSUME NEW p \in Runners, Decide(p) \/ Write(p)
      PROVE  run' \in [Runners -> RunRecords] /\ Placed'
  <2>1. run[p].at \in {"decide", "write"}
    BY <1>8 DEF Decide, Write
  <2>2. /\ PlacedRecord([run[p] EXCEPT !.at = "record"])
        /\ PlacedRecord([run[p] EXCEPT !.at = "write"])
        /\ PlacedRecord([run[p] EXCEPT !.at = "record", !.stop = TRUE])
    <3>1. PlacedRecord(run[p]) /\ run[p].cur \in Accounts /\ {"record", "write"} \subseteq Places
      BY <1>0, <2>1 DEF PlacedRecord, Places
    <3> QED BY <2>1, <3>1, MovedPlaced
  <2> QED BY <1>0, <1>8, <2>2, GoesPlaced DEF Decide, Write
<1>9. ASSUME NEW p \in Runners, Record(p) \/ RecordFails(p)
      PROVE  run' \in [Runners -> RunRecords] /\ Placed'
  <2>1. run[p].at = "record"
    BY <1>9 DEF Record, RecordFails
  <2>2. /\ PlacedRecord([run[p] EXCEPT !.at = "fail"])
        /\ \A place \in {"next", "fail"} :
             PlacedRecord([run[p] EXCEPT !.at = place, !.cur = None, !.auto = FALSE,
                                         !.plan = "keep", !.tested = FALSE])
    <3>1. PlacedRecord(run[p]) /\ {"next", "fail"} \subseteq Places
      BY <1>0 DEF Places
    <3> QED BY <2>1, <3>1, MovedPlaced
  <2>3. \E r : PlacedRecord(r) /\ Goes(p, r)
    BY <1>9, <2>2 DEF Record, RecordFails
  <2> QED BY <1>0, <2>3, GoesPlaced
<1>10. ASSUME NEW p \in Runners, Finish(p) \/ Fail(p)
       PROVE  run' \in [Runners -> RunRecords] /\ Placed'
  <2>1. run[p].at \in {"next", "fail"}
    BY <1>10 DEF Finish, Fail
  <2>2. /\ PlacedRecord([run[p] EXCEPT !.at = "release"])
        /\ PlacedRecord([run[p] EXCEPT !.at = "fail"])
        /\ PlacedRecord([run[p] EXCEPT !.at = "release", !.more = FALSE])
    <3>1. PlacedRecord(run[p]) /\ {"release", "fail"} \subseteq Places
      BY <1>0 DEF Places
    <3> QED BY <2>1, <3>1, MovedPlaced
  <2> QED BY <1>0, <1>10, <2>2, GoesPlaced DEF Finish, Fail
<1>11. ASSUME NEW p \in Runners, Release(p)
       PROVE  run' \in [Runners -> RunRecords] /\ Placed'
  <2>1. PlacedRecord(AfterRun(run[p]))
    <3>1. run[p].snap \in Snapshots /\ run[p].done \subseteq Accounts /\ "bad" \in Kinds
      BY <1>0, <1>11 DEF Release, PlacedRecord, RunRecords
    <3> QED BY <1>0, <3>1, BeginsPlaced DEF AfterRun
  <2> QED BY <1>0, <1>11, <2>1, GoesPlaced DEF Release
<1>12. ASSUME NEW p \in Runners, Renew(p) \/ RenewFails(p)
       PROVE  run' \in [Runners -> RunRecords] /\ Placed'
  <2>1. PlacedRecord([run[p] EXCEPT !.lost = TRUE])
    BY <1>0 DEF PlacedRecord, RunRecords
  <2>2. (\E r : PlacedRecord(r) /\ Goes(p, r)) \/ UNCHANGED run
    BY <1>12, <2>1 DEF Renew, RenewFails
  <2> QED BY <1>0, <2>2, GoesPlaced DEF Placed, OnAccount
<1>13. ASSUME Restart PROVE run' \in [Runners -> RunRecords] /\ Placed'
  BY <1>0, <1>13 DEF Restart, Stops, PlacedRecord, Placed, OnAccount
<1>14. ASSUME DeadLeaseExpires \/ UNCHANGED vars \/ \E p \in Runners : Lapse(p) PROVE UNCHANGED run
  BY <1>14 DEF DeadLeaseExpires, Lapse, vars
<1>15. UNCHANGED run => run' \in [Runners -> RunRecords] /\ Placed'
  BY <1>0 DEF Placed, OnAccount
<1>16. CASE \E a \in Accounts : \/ Operator(a) \/ Server(a) \/ Quarantine(a)
                               \/ QuarantinePasses(a) \/ QuarantineMisses(a) \/ Cool(a)
  BY <1>1, <1>15, <1>16
<1>17. CASE \E p \in Runners : Cycle(p) \/ Replay(p) \/ Submit(p)
  BY <1>2, <1>3, <1>17 DEF Cycle
<1>18. CASE \E p \in Runners : Step(p)
  BY <1>4, <1>5, <1>6, <1>7, <1>8, <1>9, <1>10, <1>11, <1>18 DEF Step
<1>19. CASE \E p \in Runners : Renew(p) \/ RecordFails(p) \/ RenewFails(p)
  BY <1>9, <1>12, <1>19
<1>20. CASE Restart
  BY <1>13, <1>20
<1>21. CASE DeadLeaseExpires \/ UNCHANGED vars \/ \E p \in Runners : Lapse(p)
  BY <1>14, <1>15, <1>21
<1> QED BY <1>16, <1>17, <1>18, <1>19, <1>20, <1>21 DEF Next

LEMMA TypeInit == Init => TypeOK /\ Placed
<1> SUFFICES ASSUME Init PROVE TypeOK /\ Placed
  OBVIOUS
<1>1. obs \in [Snapshots -> [Accounts -> Looks]] /\ ledger \in [Snapshots -> [Kinds -> [Accounts -> Records]]]
      /\ rows \in [Snapshots -> [Kinds -> RowStatuses]]
  BY DEF Init, Looks, NoLedger, Records, NoRows, RowStatuses
<1>2. up \in [Accounts -> Looks] /\ marked \subseteq Accounts /\ passes \in [Accounts -> {0, 1}]
  BY DEF Init
<1>3. run \in [Runners -> RunRecords] /\ Placed
  BY RestingIsRecord DEF Init, Placed, OnAccount
<1>4. paused \subseteq Accounts /\ crossed \subseteq Runners /\ untried \subseteq Snapshots \X Kinds
  BY DEF Init
<1>5. moves \in 0..MaxMoves /\ jobs \in 0..MaxJobs
  BY BoundsAssumption DEF Init
<1>6. /\ current \in Snapshots \union {NoSnapshot} /\ episode \in Snapshots \union {NoSnapshot}
      /\ recent \subseteq Accounts /\ holder \in Runners \union {"free", "dead"} /\ lapsed \in BOOLEAN
  BY DEF Init
<1> QED BY <1>1, <1>2, <1>3, <1>4, <1>5, <1>6 DEF TypeOK

LEMMA ChangesTyped ==
  ASSUME TypeOK, NEW a \in Accounts, NEW look \in Looks, NEW byOperator \in BOOLEAN,
         Changes(a, look, byOperator)
  PROVE  up' \in [Accounts -> Looks] /\ paused' \subseteq Accounts /\ crossed' \subseteq Runners
BY DEF Changes, TypeOK

LEMMA BoundsTyped ==
  ASSUME TypeOK, Moved \/ Requested \/ UNCHANGED bounds
  PROVE  moves' \in 0..MaxMoves /\ jobs' \in 0..MaxJobs
BY BoundsAssumption DEF TypeOK, Moved, Requested, bounds

LEMMA SetRowTyped ==
  ASSUME TypeOK, NEW p \in Runners, NEW status \in RowStatuses, SetRow(run[p], status)
  PROVE  rows' \in [Snapshots -> [Kinds -> RowStatuses]]
<1>1. run[p].kind \in Kinds
  BY DEF TypeOK, RunRecords
<1>2. [rows[run[p].snap] EXCEPT ![run[p].kind] = status] \in [Kinds -> RowStatuses]
      \/ run[p].snap \notin Snapshots
  BY <1>1 DEF TypeOK
<1> QED BY <1>2 DEF SetRow, TypeOK

\* The other variables.
LEMMA TypeNext == TypeOK /\ Placed /\ [Next]_vars => TypeOK' /\ Placed'
<1> SUFFICES ASSUME TypeOK, Placed, [Next]_vars PROVE TypeOK'
  BY RunsNext
<1>0. run' \in [Runners -> RunRecords] /\ MaxMoves \in Nat /\ MaxJobs \in Nat
  BY RunsNext, BoundsAssumption
<1>1. ASSUME NEW a \in Accounts, Operator(a) \/ Server(a) PROVE TypeOK'
  <2>1. \E look \in Looks, byOperator \in BOOLEAN : Changes(a, look, byOperator)
    BY <1>1 DEF Operator, Server, Looks
  <2>2. up' \in [Accounts -> Looks] /\ paused' \subseteq Accounts /\ crossed' \subseteq Runners
    BY <2>1, ChangesTyped
  <2>3. moves' \in 0..MaxMoves /\ jobs' \in 0..MaxJobs
    BY <1>1, BoundsTyped DEF Operator, Server
  <2> QED BY <1>0, <1>1, <2>2, <2>3 DEF TypeOK, Operator, Server, quarantine, evidence, store
<1>2. ASSUME NEW a \in Accounts, Quarantine(a) \/ QuarantinePasses(a) \/ QuarantineMisses(a)
      PROVE  TypeOK'
  <2>1. (\E look \in Looks : Changes(a, look, FALSE)) \/ UNCHANGED accounts
    BY <1>2 DEF Quarantine, QuarantinePasses, QuarantineMisses, Looks
  <2>2. up' \in [Accounts -> Looks] /\ paused' \subseteq Accounts /\ crossed' \subseteq Runners
    BY <2>1, ChangesTyped DEF TypeOK, accounts
  <2>3. marked' \subseteq Accounts /\ passes' \in [Accounts -> {0, 1}]
    BY <1>2 DEF TypeOK, Quarantine, QuarantinePasses, QuarantineMisses
  <2>4. moves' \in 0..MaxMoves /\ jobs' \in 0..MaxJobs
    BY <1>2, BoundsTyped DEF Quarantine, QuarantinePasses, QuarantineMisses
  <2> QED BY <1>0, <1>2, <2>2, <2>3, <2>4
             DEF TypeOK, Quarantine, QuarantinePasses, QuarantineMisses, evidence, store
<1>3. ASSUME NEW a \in Accounts, Cool(a) PROVE TypeOK'
  BY <1>0, <1>3 DEF TypeOK, Cool, accounts, quarantine, evidence, bounds
<1>4. ASSUME NEW p \in Runners, NEW s \in Snapshots, NEW entry \in Entries, Evaluate(p, s, entry)
      PROVE  TypeOK'
  <2>1. \A a \in Accounts : Observed(a) \in Looks
    BY DEF Observed, Inferred, Looks, TypeOK
  <2>2. obs' \in [Snapshots -> [Accounts -> Looks]]
    BY <1>4, <2>1 DEF Evaluate, TypeOK, Looks
  <2>3. rows' \in [Snapshots -> [Kinds -> RowStatuses]]
    BY <1>4 DEF Evaluate, TypeOK, RowStatuses
  <2>4. ledger' \in [Snapshots -> [Kinds -> [Accounts -> Records]]]
    BY <1>4 DEF Evaluate, TypeOK, Records, NoLedger
  <2>5. /\ current' \in Snapshots \union {NoSnapshot} /\ episode' \in Snapshots \union {NoSnapshot}
        /\ untried' \subseteq Snapshots \X Kinds
    BY <1>4 DEF Evaluate, TypeOK, Opened
  <2> QED BY <1>0, <1>4, <2>2, <2>3, <2>4, <2>5
             DEF TypeOK, Evaluate, accounts, quarantine, bounds
<1>5. ASSUME NEW p \in Runners, Replay(p) \/ Submit(p) PROVE TypeOK'
  <2>1. moves' \in 0..MaxMoves /\ jobs' \in 0..MaxJobs
    BY <1>5, BoundsTyped DEF Replay, Submit
  <2> QED BY <1>0, <1>5, <2>1 DEF TypeOK, Replay, Submit, accounts, quarantine, evidence, store
<1>6. ASSUME NEW p \in Runners, Busy(p) \/ Acquire(p) \/ NextAccount(p) \/ Decide(p) PROVE TypeOK'
  BY <1>0, <1>6
     DEF TypeOK, Busy, Acquire, NextAccount, Decide, accounts, quarantine, evidence, store, bounds
<1>7. ASSUME NEW p \in Runners, Open(p) PROVE TypeOK'
  <2>1. rows' \in [Snapshots -> [Kinds -> RowStatuses]]
    BY <1>7, SetRowTyped DEF Open, TypeOK, RowStatuses
  <2> QED BY <1>0, <1>7, <2>1 DEF TypeOK, Open, accounts, quarantine, evidence, bounds
<1>8. ASSUME NEW p \in Runners, Test(p) PROVE TypeOK'
  <2>1. UNCHANGED accounts \/ Changes(run[p].cur, "paused", FALSE)
    BY <1>8 DEF Test
  <2>2. run[p].cur \in Accounts
    BY <1>8 DEF Test, Placed, OnAccount
  <2>3. up' \in [Accounts -> Looks] /\ paused' \subseteq Accounts /\ crossed' \subseteq Runners
    BY <2>1, <2>2, ChangesTyped DEF TypeOK, accounts, Looks
  <2> QED BY <1>0, <1>8, <2>3 DEF TypeOK, Test, quarantine, evidence, store, bounds
<1>9. ASSUME NEW p \in Runners, Write(p) PROVE TypeOK'
  <2>1. run[p].cur \in Accounts
    BY <1>9 DEF Write, Placed, OnAccount
  <2>2. up' \in [Accounts -> Looks] /\ paused' \subseteq Accounts /\ crossed' \subseteq Runners
    BY <1>9, <2>1 DEF Write, TypeOK, Looks
  <2> QED BY <1>0, <1>9, <2>2 DEF TypeOK, Write, Moved, bounds, quarantine, evidence, store
<1>10. ASSUME NEW p \in Runners, Record(p) PROVE TypeOK'
  <2>1. run[p].cur \in Accounts
    BY <1>10 DEF Record, Placed, OnAccount
  <2>2. ledger' \in [Snapshots -> [Kinds -> [Accounts -> Records]]]
    <3>1. run[p].kind \in Kinds /\ run[p].snap \in Snapshots
      BY <1>10 DEF Record, Placed, TypeOK, RunRecords
    <3>2. \A record \in Records :
            [ledger EXCEPT ![run[p].snap][run[p].kind][run[p].cur] = record]
              \in [Snapshots -> [Kinds -> [Accounts -> Records]]]
      BY <2>1, <3>1 DEF TypeOK
    <3> QED BY <1>10, <3>2 DEF Record, TypeOK, Records
  <2>3. recent' \subseteq Accounts /\ holder' \in Runners \union {"free", "dead"}
    BY <1>10, <2>1 DEF Record, TypeOK
  <2> QED BY <1>0, <1>10, <2>2, <2>3 DEF TypeOK, Record, accounts, quarantine, evidence, bounds
<1>11. ASSUME NEW p \in Runners, RecordFails(p) \/ RenewFails(p) PROVE TypeOK'
  BY <1>0, <1>11 DEF TypeOK, RecordFails, RenewFails, Moved, accounts, quarantine, evidence, store
<1>12. ASSUME NEW p \in Runners, Finish(p) \/ Fail(p) PROVE TypeOK'
  <2>1. rows' \in [Snapshots -> [Kinds -> RowStatuses]]
    BY <1>12, SetRowTyped DEF Finish, Fail, TypeOK, RowStatuses
  <2>2. <<run[p].snap, run[p].kind>> \in Snapshots \X Kinds
    BY <1>12 DEF Finish, Fail, Placed, TypeOK, RunRecords
  <2>3. untried' \subseteq Snapshots \X Kinds
    BY <1>12, <2>2 DEF Finish, Fail, TypeOK
  <2> QED BY <1>0, <1>12, <2>1, <2>3
             DEF TypeOK, Finish, Fail, Moved, accounts, quarantine, evidence, bounds
<1>13. ASSUME NEW p \in Runners, Release(p) \/ Renew(p) \/ Lapse(p) PROVE TypeOK'
  <2>1. moves' \in 0..MaxMoves /\ jobs' \in 0..MaxJobs
    BY <1>13, BoundsTyped DEF Release, Renew, Lapse
  <2> QED BY <1>0, <1>13, <2>1
             DEF TypeOK, Release, Renew, Lapse, accounts, quarantine, evidence, store
<1>14. ASSUME Restart PROVE TypeOK'
  <2>1. rows' \in [Snapshots -> [Kinds -> RowStatuses]]
    BY <1>14 DEF Restart, TypeOK, RowStatuses
  <2> QED BY <1>0, <1>14, <2>1 DEF TypeOK, Restart, Stops, Moved, quarantine, evidence
<1>15. ASSUME DeadLeaseExpires \/ UNCHANGED vars PROVE TypeOK'
  BY <1>15 DEF TypeOK, DeadLeaseExpires, accounts, quarantine, evidence, store, bounds, vars
<1>16. CASE \E a \in Accounts : \/ Operator(a) \/ Server(a) \/ Quarantine(a)
                               \/ QuarantinePasses(a) \/ QuarantineMisses(a) \/ Cool(a)
  BY <1>1, <1>2, <1>3, <1>16
<1>17. CASE \E p \in Runners : Cycle(p) \/ Replay(p) \/ Submit(p)
  BY <1>4, <1>5, <1>17 DEF Cycle
<1>18. CASE \E p \in Runners : Step(p)
  BY <1>6, <1>7, <1>8, <1>9, <1>10, <1>12, <1>13, <1>18 DEF Step
<1>19. CASE \E p \in Runners : Renew(p) \/ RecordFails(p) \/ RenewFails(p) \/ Lapse(p)
  BY <1>11, <1>13, <1>19
<1>20. CASE Restart \/ DeadLeaseExpires \/ UNCHANGED vars
  BY <1>14, <1>15, <1>20
<1> QED BY <1>16, <1>17, <1>18, <1>19, <1>20 DEF Next

-----------------------------------------------------------------------------
(* What a step of a runner is to the others, and to its own run *)

Elsewhere(p) == \A q \in Runners \ {p} : run'[q] = run[q]

LEMMA GoesElsewhere ==
  ASSUME TypeOK, NEW p \in Runners, NEW r, Goes(p, r)
  PROVE  run'[p] = r /\ Elsewhere(p)
BY DEF Goes, TypeOK, Elsewhere

\* A run whose row is open, as far as it knows.
Underway(r) == r.at \in {"next", "test", "decide", "write", "record"}

AtWork(r) == r.at \notin {"idle", "begin", "open", "release"}

\* A step within a run that leaves its account, and what is left to do, as they are.
CarriesOn(r, new) ==
  /\ new.todo = r.todo /\ new.cur = r.cur /\ new.snap = r.snap /\ new.kind = r.kind
  /\ new.at \in {"test", "decide", "write", "record"} => r.at \in {"test", "decide", "write", "record"}
  /\ new.at = "test" => r.at = "test"
  /\ r.at \notin {"idle", "begin"}
  /\ (AtWork(new) => AtWork(r)) /\ (AtWork(r) /\ new.at # "release" => AtWork(new))
  /\ Underway(new) => Underway(r)
Carries(p) == CarriesOn(run[p], run'[p])

LEMMA PlaceCarries ==
  ASSUME NEW r \in RunRecords, Underway(r) \/ r.at = "fail",
         NEW place \in {"decide", "write", "record", "fail", "release"},
         place = "record" => r.at \in {"test", "decide", "write"},
         place \in {"decide", "write"} => r.at \in {"test", "decide"},
         NEW plan, NEW more, NEW auto, NEW tested
  PROVE  /\ CarriesOn(r, [r EXCEPT !.at = place])
         /\ CarriesOn(r, [r EXCEPT !.at = place, !.stop = TRUE])
         /\ CarriesOn(r, [r EXCEPT !.at = place, !.more = more])
         /\ CarriesOn(r, [r EXCEPT !.at = place, !.plan = plan])
         /\ CarriesOn(r, [[r EXCEPT !.tested = tested, !.auto = auto] EXCEPT !.at = place, !.plan = plan])
<1> USE DEF RunRecords, CarriesOn, Underway, AtWork
<1>1. CarriesOn(r, [r EXCEPT !.at = place])
  OBVIOUS
<1>2. CarriesOn(r, [r EXCEPT !.at = place, !.stop = TRUE])
  OBVIOUS
<1>3. CarriesOn(r, [r EXCEPT !.at = place, !.more = more])
  OBVIOUS
<1>4. CarriesOn(r, [r EXCEPT !.at = place, !.plan = plan])
  OBVIOUS
<1>5. CarriesOn(r, [[r EXCEPT !.tested = tested, !.auto = auto] EXCEPT !.at = place, !.plan = plan])
  OBVIOUS
<1> QED BY <1>1, <1>2, <1>3, <1>4, <1>5

LEMMA CarryStep ==
  ASSUME TypeOK, NEW p \in Runners,
         \/ Test(p) \/ Decide(p) \/ Write(p) \/ RecordFails(p) \/ Finish(p) \/ Fail(p)
         \/ Renew(p) \/ RenewFails(p)
  PROVE  Carries(p) /\ Elsewhere(p)
<1> DEFINE r == run[p]
<1>0. r \in RunRecords
  BY DEF TypeOK
<1>1. ASSUME NEW new, CarriesOn(r, new), Goes(p, new) PROVE Carries(p) /\ Elsewhere(p)
  BY <1>1, GoesElsewhere DEF Carries
<1> HIDE DEF r
<1>2. CASE Test(p)
  <2>1. r.at = "test" /\ Underway(r)
    BY <1>2 DEF Test, Underway, r
  <2>2. PICK plan \in Plans, tested \in BOOLEAN, auto \in BOOLEAN :
          \/ Goes(p, Decided(r, plan))
          \/ Goes(p, Decided([r EXCEPT !.tested = tested, !.auto = auto], plan))
    BY <1>2, TestMoves DEF r
  <2>3. \A place \in {"record", "decide"} :
          /\ CarriesOn(r, [r EXCEPT !.at = place, !.plan = plan])
          /\ CarriesOn(r, [[r EXCEPT !.tested = tested, !.auto = auto] EXCEPT !.at = place, !.plan = plan])
    BY <1>0, <2>1, PlaceCarries
  <2>4. /\ CarriesOn(r, Decided(r, plan))
        /\ CarriesOn(r, Decided([r EXCEPT !.tested = tested, !.auto = auto], plan))
    BY <2>3 DEF Decided
  <2> QED BY <1>1, <2>2, <2>4
<1>3. CASE Decide(p)
  <2>1. r.at = "decide" /\ Underway(r)
    BY <1>3 DEF Decide, Underway, r
  <2>2. PICK place \in {"record", "write"} : Goes(p, [r EXCEPT !.at = place])
    BY <1>3 DEF Decide, r
  <2>3. CarriesOn(r, [r EXCEPT !.at = place])
    BY <1>0, <2>1, PlaceCarries
  <2> QED BY <1>1, <2>2, <2>3
<1>4. CASE Write(p)
  <2>1. r.at = "write" /\ Underway(r)
    BY <1>4 DEF Write, Underway, r
  <2>2. Goes(p, [r EXCEPT !.at = "record"]) \/ Goes(p, [r EXCEPT !.at = "record", !.stop = TRUE])
    BY <1>4 DEF Write, r
  <2>3. /\ CarriesOn(r, [r EXCEPT !.at = "record"])
        /\ CarriesOn(r, [r EXCEPT !.at = "record", !.stop = TRUE])
    BY <1>0, <2>1, PlaceCarries
  <2> QED BY <1>1, <2>2, <2>3
<1>5. CASE RecordFails(p) \/ Finish(p) \/ Fail(p)
  <2>1. Underway(r) \/ r.at = "fail"
    BY <1>5 DEF RecordFails, Finish, Fail, Underway, r
  <2>2. \/ \E place \in {"release", "fail"} : Goes(p, [r EXCEPT !.at = place])
        \/ Goes(p, [r EXCEPT !.at = "release", !.more = FALSE])
    BY <1>5 DEF RecordFails, Finish, Fail, r
  <2>3. /\ \A place \in {"release", "fail"} : CarriesOn(r, [r EXCEPT !.at = place])
        /\ CarriesOn(r, [r EXCEPT !.at = "release", !.more = FALSE])
    BY <1>0, <2>1, PlaceCarries
  <2> QED BY <1>1, <2>2, <2>3
<1>6. CASE Renew(p) \/ RenewFails(p)
  <2>1. r.at \notin {"idle", "begin"} /\ (UNCHANGED run \/ Goes(p, [r EXCEPT !.lost = TRUE]))
    BY <1>6 DEF Renew, RenewFails, Executing, r
  <2>2. CarriesOn(r, r) /\ CarriesOn(r, [r EXCEPT !.lost = TRUE])
    BY <1>0, <2>1 DEF CarriesOn, RunRecords, Underway, AtWork
  <2>3. UNCHANGED run => Carries(p) /\ Elsewhere(p)
    BY <2>2 DEF Elsewhere, Carries, r
  <2> QED BY <1>1, <2>1, <2>2, <2>3
<1> QED BY <1>2, <1>3, <1>4, <1>5, <1>6

\* The steps that begin, or end, nothing that needs the lease.
LEMMA IdleStep ==
  ASSUME TypeOK, NEW p \in Runners, Cycle(p) \/ Replay(p) \/ Submit(p) \/ Busy(p)
  PROVE  /\ Elsewhere(p) /\ ~Executing(p) /\ ~Executing(p)'
         /\ UNCHANGED <<up, paused, crossed, recent, holder, lapsed>>
<1>1. ASSUME NEW s, NEW k, NEW more, NEW done PROVE Beginning(s, k, more, done).at = "begin"
  BY RestingIsRecord DEF Beginning, RunRecords
<1>2. run[p].at \in {"idle", "begin"}
      /\ UNCHANGED <<up, paused, crossed, recent, holder, lapsed>>
  BY DEF Cycle, Evaluate, Replay, Submit, Busy, accounts, store
<1>3. \E r : Goes(p, r) /\ r.at \in {"idle", "begin"}
  <2>1. CASE Cycle(p)
    <3>1. PICK s \in Snapshots, entry \in Entries : Evaluate(p, s, entry)
      BY <2>1 DEF Cycle
    <3>2. \/ Goes(p, Beginning(s, "channel", TRUE, {}))
          \/ Goes(p, Beginning(s, "bad", FALSE, {}))
      BY <3>1 DEF Evaluate
    <3> QED BY <1>1, <3>2
  <2>2. CASE Replay(p)
    <3>1. \E s, k, more, done : Goes(p, Beginning(s, k, more, done))
      BY <2>2 DEF Replay
    <3> QED BY <1>1, <3>1
  <2>3. CASE Submit(p)
    <3>1. \E s, k, more, done : Goes(p, Beginning(s, k, more, done))
      BY <2>3 DEF Submit
    <3> QED BY <1>1, <3>1
  <2>4. CASE Busy(p)
    BY <2>4, RestingIsRecord DEF Busy
  <2> QED BY <2>1, <2>2, <2>3, <2>4
<1> QED BY <1>2, <1>3, GoesElsewhere DEF Executing

\* The step that opens a row, if its run is not over.
LEMMA OpenStep ==
  ASSUME TypeOK, NEW p \in Runners, Open(p)
  PROVE  /\ Elsewhere(p) /\ run[p].at = "open"
         /\ run'[p].snap = run[p].snap /\ run'[p].kind = run[p].kind
         /\ \/ run'[p].at = "release"
            \/ run'[p].at = "next" /\ run'[p].todo = Candidates(run[p]) /\ SetRow(run[p], "RUNNING")
<1>0. run[p] \in RunRecords
  BY DEF TypeOK
<1>1. /\ run[p].at = "open"
      /\ \/ Goes(p, [run[p] EXCEPT !.at = "release"])
         \/ /\ Goes(p, [run[p] EXCEPT !.at = "next", !.quar = {}, !.todo = Candidates(run[p])])
            /\ SetRow(run[p], "RUNNING")
  BY DEF Open
<1>2. CASE Goes(p, [run[p] EXCEPT !.at = "release"])
  <2>1. run'[p] = [run[p] EXCEPT !.at = "release"] /\ Elsewhere(p)
    BY <1>2, GoesElsewhere
  <2> QED BY <1>0, <1>1, <2>1 DEF RunRecords
<1>3. CASE /\ Goes(p, [run[p] EXCEPT !.at = "next", !.quar = {}, !.todo = Candidates(run[p])])
           /\ SetRow(run[p], "RUNNING")
  <2>1. /\ run'[p] = [run[p] EXCEPT !.at = "next", !.quar = {}, !.todo = Candidates(run[p])]
        /\ Elsewhere(p)
    BY <1>3, GoesElsewhere
  <2> QED BY <1>0, <1>1, <1>3, <2>1 DEF RunRecords
<1> QED BY <1>1, <1>2, <1>3

\* The step that takes an account.
LEMMA NextStep ==
  ASSUME TypeOK, NEW p \in Runners, NextAccount(p)
  PROVE  /\ Elsewhere(p) /\ run[p].at = "next"
         /\ run'[p].snap = run[p].snap /\ run'[p].kind = run[p].kind
         /\ \/ run'[p].at = "fail" /\ run'[p].todo = run[p].todo
            \/ /\ run'[p].at \in {"test", "record"} /\ run'[p].cur \in run[p].todo
               /\ run'[p].todo = run[p].todo \ {run'[p].cur}
<1>0. run[p] \in RunRecords
  BY DEF TypeOK
<1>1. run[p].at = "next" /\ Next1(run[p]) \in run[p].todo
  BY <1>0, Next1IsIn DEF NextAccount
<1>2. CASE Goes(p, [run[p] EXCEPT !.at = "fail"])
  <2>1. run'[p] = [run[p] EXCEPT !.at = "fail"] /\ Elsewhere(p)
    BY <1>2, GoesElsewhere
  <2> QED BY <1>0, <1>1, <2>1 DEF RunRecords
<1>3. ASSUME NEW place \in {"record", "test"},
             Goes(p, [run[p] EXCEPT !.todo = @ \ {Next1(run[p])}, !.cur = Next1(run[p]),
                        !.auto = FALSE, !.plan = "keep", !.tested = FALSE, !.at = place])
      PROVE  /\ Elsewhere(p) /\ run'[p].at \in {"test", "record"}
             /\ run'[p].snap = run[p].snap /\ run'[p].kind = run[p].kind
             /\ run'[p].cur \in run[p].todo /\ run'[p].todo = run[p].todo \ {run'[p].cur}
  <2>1. /\ run'[p] = [run[p] EXCEPT !.todo = @ \ {Next1(run[p])}, !.cur = Next1(run[p]),
                        !.auto = FALSE, !.plan = "keep", !.tested = FALSE, !.at = place]
        /\ Elsewhere(p)
    BY <1>3, GoesElsewhere
  <2> QED BY <1>0, <1>1, <2>1 DEF RunRecords
<1>4. \/ Goes(p, [run[p] EXCEPT !.at = "fail"])
      \/ \E place \in {"record", "test"} :
           Goes(p, [run[p] EXCEPT !.todo = @ \ {Next1(run[p])}, !.cur = Next1(run[p]),
                      !.auto = FALSE, !.plan = "keep", !.tested = FALSE, !.at = place])
  BY DEF NextAccount
<1> QED BY <1>1, <1>2, <1>3, <1>4

\* The step that records a result.
LEMMA RecordStep ==
  ASSUME TypeOK, NEW p \in Runners, Record(p)
  PROVE  /\ Elsewhere(p) /\ run[p].at = "record" /\ run'[p].at \in {"next", "fail"}
         /\ run'[p].snap = run[p].snap /\ run'[p].kind = run[p].kind
         /\ run'[p].todo = run[p].todo
<1>0. run[p] \in RunRecords
  BY DEF TypeOK
<1>1. CASE Goes(p, [run[p] EXCEPT !.at = "fail"])
  <2>1. run'[p] = [run[p] EXCEPT !.at = "fail"] /\ Elsewhere(p)
    BY <1>1, GoesElsewhere
  <2> QED BY <1>0, <2>1 DEF RunRecords, Record
<1>2. ASSUME NEW place \in {"next", "fail"},
             Goes(p, [run[p] EXCEPT !.at = place, !.cur = None, !.auto = FALSE, !.plan = "keep",
                                    !.tested = FALSE])
      PROVE  /\ Elsewhere(p) /\ run'[p].at \in {"next", "fail"}
             /\ run'[p].snap = run[p].snap /\ run'[p].kind = run[p].kind
             /\ run'[p].todo = run[p].todo
  <2>1. /\ run'[p] = [run[p] EXCEPT !.at = place, !.cur = None, !.auto = FALSE, !.plan = "keep",
                                    !.tested = FALSE]
        /\ Elsewhere(p)
    BY <1>2, GoesElsewhere
  <2> QED BY <1>0, <2>1 DEF RunRecords
<1>3. run[p].at = "record"
      /\ \/ Goes(p, [run[p] EXCEPT !.at = "fail"])
         \/ \E place \in {"next", "fail"} :
              Goes(p, [run[p] EXCEPT !.at = place, !.cur = None, !.auto = FALSE, !.plan = "keep",
                                     !.tested = FALSE])
  BY DEF Record
<1> QED BY <1>1, <1>2, <1>3

\* Where the steps before the end of a run lead.
LEMMA StayStep ==
  ASSUME TypeOK, NEW p \in Runners, Test(p) \/ Decide(p) \/ Write(p) \/ RecordFails(p)
  PROVE  run'[p].at # "release"
<1>0. run[p] \in RunRecords
  BY DEF TypeOK
<1>1. CASE Test(p)
  <2>1. \A plan, tested, auto :
          /\ Decided(run[p], plan).at # "release"
          /\ Decided([run[p] EXCEPT !.tested = tested, !.auto = auto], plan).at # "release"
    BY <1>0 DEF Decided, RunRecords
  <2>2. \E r : Goes(p, r) /\ r.at # "release"
    BY <1>1, <2>1, TestMoves
  <2> QED BY <2>2, GoesElsewhere
<1>2. CASE Decide(p) \/ Write(p) \/ RecordFails(p)
  <2>1. \/ \E place \in {"record", "write", "fail"} : Goes(p, [run[p] EXCEPT !.at = place])
        \/ Goes(p, [run[p] EXCEPT !.at = "record", !.stop = TRUE])
    BY <1>2 DEF Decide, Write, RecordFails
  <2>2. /\ \A place \in {"record", "write", "fail"} : [run[p] EXCEPT !.at = place].at = place
        /\ [run[p] EXCEPT !.at = "record", !.stop = TRUE].at = "record"
    BY <1>0 DEF RunRecords
  <2> QED BY <2>1, <2>2, GoesElsewhere
<1> QED BY <1>1, <1>2

\* The steps that get the lease, and give it up.
LEMMA LeaseStep ==
  ASSUME TypeOK, NEW p \in Runners, Acquire(p) \/ Release(p)
  PROVE  /\ Elsewhere(p) /\ ~Working(p) /\ ~Working(p)'
         /\ Acquire(p) => holder = "free" /\ holder' = p
         /\ Release(p) => ~Executing(p)' /\ holder' = IF holder = p THEN "free" ELSE holder
         /\ UNCHANGED <<up, paused, crossed, obs, rows, ledger, recent, untried, lapsed>>
<1>0. run[p] \in RunRecords
  BY DEF TypeOK
<1>1. CASE Acquire(p)
  <2>1. run'[p] = [run[p] EXCEPT !.at = "open", !.quar = marked] /\ Elsewhere(p)
    BY <1>1, GoesElsewhere DEF Acquire
  <2>2. run'[p].at = "open"
    BY <1>0, <2>1 DEF RunRecords
  <2> QED BY <1>1, <2>1, <2>2 DEF Acquire, Release, Working, Executing, accounts, evidence, store
<1>2. CASE Release(p)
  <2>1. run'[p] = AfterRun(run[p]) /\ Elsewhere(p)
    BY <1>2, GoesElsewhere DEF Release
  <2>2. \A s, done : Beginning(s, "bad", FALSE, done).at = "begin"
    BY RestingIsRecord DEF Beginning, RunRecords
  <2>3. run'[p].at \in {"idle", "begin"}
    BY <2>1, <2>2, RestingIsRecord DEF AfterRun
  <2> QED BY <1>2, <2>1, <2>3 DEF Acquire, Release, Working, Executing, accounts, evidence, store
<1> QED BY <1>1, <1>2

\* The steps of no runner.
LEMMA OutsideStep ==
  ASSUME NEW a \in Accounts,
         Operator(a) \/ Server(a) \/ Quarantine(a) \/ QuarantinePasses(a) \/ QuarantineMisses(a)
         \/ Cool(a)
  PROVE  /\ UNCHANGED <<run, obs, rows, ledger, untried, holder, lapsed>>
         /\ recent' \subseteq recent
BY DEF Operator, Server, Quarantine, QuarantinePasses, QuarantineMisses, Cool, store, evidence

-----------------------------------------------------------------------------
(* One executor *)

LEMMA ExclusiveNext == TypeOK /\ Exclusive /\ [Next]_vars => Exclusive'
<1> SUFFICES ASSUME TypeOK, Exclusive, [Next]_vars PROVE Exclusive'
  OBVIOUS
<1>0. "free" \notin Runners /\ "dead" \notin Runners
  BY RunnersAssumption
<1>1. CASE \E a \in Accounts : \/ Operator(a) \/ Server(a) \/ Quarantine(a)
                              \/ QuarantinePasses(a) \/ QuarantineMisses(a) \/ Cool(a)
  BY <1>1, OutsideStep DEF Executing, Exclusive
<1>2. ASSUME NEW p \in Runners, Cycle(p) \/ Replay(p) \/ Submit(p) \/ Busy(p) PROVE Exclusive'
  BY <1>2, IdleStep DEF Elsewhere, Executing, Exclusive
<1>3. ASSUME NEW p \in Runners,
             \/ Test(p) \/ Decide(p) \/ Write(p) \/ RecordFails(p) \/ Finish(p) \/ Fail(p)
             \/ Renew(p) \/ RenewFails(p)
      PROVE  Exclusive'
  <2>1. Carries(p) /\ Elsewhere(p)
    BY <1>3, CarryStep
  <2>2. UNCHANGED lapsed
    BY <1>3 DEF Test, Decide, Write, RecordFails, Finish, Fail, Renew, RenewFails
  <2>4. UNCHANGED holder \/ (holder \notin Runners /\ holder' = p)
    <3>1. CASE Renew(p)
      BY <1>0, <3>1 DEF Renew
    <3>2. CASE ~Renew(p)
      <4>1. UNCHANGED holder
        BY <1>3, <3>2 DEF Test, Decide, Write, RecordFails, Finish, Fail, RenewFails
      <4> QED BY <4>1
    <3> QED BY <3>1, <3>2
  <2>3. Executing(p) /\ \A q \in Runners \ {p} : Executing(q)' <=> Executing(q)
    BY <2>1 DEF Carries, CarriesOn, Elsewhere, Executing
  <2> QED BY <1>0, <2>2, <2>3, <2>4 DEF Exclusive
<1>4. ASSUME NEW p \in Runners, Open(p) \/ NextAccount(p) \/ Record(p) PROVE Exclusive'
  <2>1. Elsewhere(p) /\ Executing(p)
    BY <1>4, OpenStep, NextStep, RecordStep DEF Executing
  <2>2. UNCHANGED lapsed
    BY <1>4 DEF Open, NextAccount, Record
  <2>4. UNCHANGED holder \/ (holder \notin Runners /\ holder' = p)
    <3>1. CASE Record(p)
      BY <1>0, <3>1 DEF Record
    <3>2. CASE Open(p) \/ NextAccount(p)
      <4>1. UNCHANGED holder
        BY <3>2 DEF Open, NextAccount, store
      <4> QED BY <4>1
    <3> QED BY <1>4, <3>1, <3>2
  <2>3. \A q \in Runners \ {p} : Executing(q)' <=> Executing(q)
    BY <2>1 DEF Elsewhere, Executing
  <2> QED BY <1>0, <2>1, <2>2, <2>3, <2>4 DEF Exclusive
<1>5. ASSUME NEW p \in Runners, Acquire(p) \/ Release(p) PROVE Exclusive'
  <2>1. \A q \in Runners \ {p} : Executing(q)' <=> Executing(q)
    BY <1>5, LeaseStep DEF Elsewhere, Executing
  <2> QED BY <1>0, <1>5, <2>1, LeaseStep DEF Exclusive
<1>6. ASSUME NEW p \in Runners, Lapse(p) PROVE Exclusive'
  BY <1>6 DEF Lapse, Exclusive
<1>7. CASE Restart
  BY <1>7, RestingIsRecord DEF Restart, Stops, Executing, Exclusive
<1>8. CASE DeadLeaseExpires \/ UNCHANGED vars
  BY <1>0, <1>8 DEF DeadLeaseExpires, vars, Executing, Exclusive
<1> QED BY <1>1, <1>2, <1>3, <1>4, <1>5, <1>6, <1>7, <1>8 DEF Next, Step

\* Whoever executes keeps the others out.
LEMMA Alone ==
  ASSUME Exclusive, NEW p \in Runners, Executing(p), ~lapsed
  PROVE  \A q \in Runners \ {p} : ~Executing(q) /\ ~Working(q)
BY DEF Exclusive, Working

-----------------------------------------------------------------------------
(* The cooldown *)

LEMMA RestedNext == TypeOK /\ Exclusive /\ Rested /\ [Next]_vars => Rested'
<1> SUFFICES ASSUME TypeOK, Exclusive, Rested, [Next]_vars PROVE Rested'
  OBVIOUS
<1> DEFINE RestedAt(p) ==
             \/ lapsed
             \/ /\ run[p].todo \intersect recent = {}
                /\ OnAccount(p) => run[p].cur \notin run[p].todo
                /\ run[p].at = "test" => run[p].cur \notin recent
<1>0. \A p \in Runners : Working(p) => RestedAt(p)
  BY DEF Rested
<1>1. ASSUME NEW q \in Runners, run'[q] = run[q], lapsed' = lapsed, recent' \subseteq recent
      PROVE  Working(q)' => RestedAt(q)'
  BY <1>0, <1>1 DEF Working, Executing, OnAccount
<1>2. CASE \E a \in Accounts : \/ Operator(a) \/ Server(a) \/ Quarantine(a)
                              \/ QuarantinePasses(a) \/ QuarantineMisses(a) \/ Cool(a)
  BY <1>1, <1>2, OutsideStep DEF Rested
<1>3. ASSUME NEW p \in Runners, Elsewhere(p), ~Working(p)', lapsed' = lapsed, recent' = recent
      PROVE  Rested'
  BY <1>1, <1>3 DEF Rested, Elsewhere
<1>4. ASSUME NEW p \in Runners, Cycle(p) \/ Replay(p) \/ Submit(p) \/ Busy(p) PROVE Rested'
  BY <1>3, <1>4, IdleStep DEF Working
<1>5. ASSUME NEW p \in Runners, Acquire(p) \/ Release(p) PROVE Rested'
  BY <1>3, <1>5, LeaseStep
<1>6. ASSUME NEW p \in Runners,
             \/ Test(p) \/ Decide(p) \/ Write(p) \/ RecordFails(p) \/ Finish(p) \/ Fail(p)
             \/ Renew(p) \/ RenewFails(p)
      PROVE  Rested'
  <2>1. Carries(p) /\ Elsewhere(p)
    BY <1>6, CarryStep
  <2>2. lapsed' = lapsed /\ recent' = recent
    BY <1>6 DEF Test, Decide, Write, RecordFails, Finish, Fail, Renew, RenewFails, store
  <2>3. Working(p)' => RestedAt(p)'
    BY <1>0, <2>1, <2>2 DEF Carries, CarriesOn, AtWork, Working, Executing, OnAccount
  <2> QED BY <1>1, <2>1, <2>2, <2>3 DEF Rested, Elsewhere
<1>7. ASSUME NEW p \in Runners, Open(p) PROVE Rested'
  <2>1. lapsed' = lapsed /\ recent' = recent
    BY <1>7 DEF Open
  <2>2. Candidates(run[p]) \intersect recent = {}
    BY DEF Candidates
  <2>3. Working(p)' => RestedAt(p)'
    BY <1>7, <2>1, <2>2, OpenStep DEF Working, Executing, OnAccount
  <2> QED BY <1>1, <1>7, <2>1, <2>3, OpenStep DEF Rested, Elsewhere
<1>8. ASSUME NEW p \in Runners, NextAccount(p) PROVE Rested'
  <2>1. lapsed' = lapsed /\ recent' = recent
    BY <1>8 DEF NextAccount, store
  <2>2. RestedAt(p)
    BY <1>0, <1>8, NextStep DEF Working, Executing
  <2>3. Working(p)' => RestedAt(p)'
    BY <1>8, <2>1, <2>2, NextStep DEF OnAccount
  <2> QED BY <1>1, <1>8, <2>1, <2>3, NextStep DEF Rested, Elsewhere
<1>9. ASSUME NEW p \in Runners, Record(p) PROVE Rested'
  <2>1. lapsed' = lapsed /\ recent' \subseteq recent \union {run[p].cur}
    BY <1>9 DEF Record
  <2>2. run[p].at = "record" /\ Working(p) /\ Executing(p) /\ RestedAt(p) /\ OnAccount(p)
    BY <1>0, <1>9, RecordStep DEF Working, Executing, OnAccount
  <2>3. RestedAt(p)'
    BY <1>9, <2>1, <2>2, RecordStep DEF OnAccount
  <2>4. lapsed \/ \A q \in Runners \ {p} : ~Working(q)'
    BY <1>9, <2>2, Alone, RecordStep DEF Elsewhere, Working, Executing
  <2> QED BY <2>1, <2>3, <2>4 DEF Rested
<1>10. ASSUME NEW p \in Runners, Lapse(p) PROVE Rested'
  BY <1>10 DEF Lapse, Rested
<1>11. CASE Restart
  BY <1>11, RestingIsRecord DEF Restart, Stops, Rested, Working, Executing
<1>12. CASE DeadLeaseExpires \/ UNCHANGED vars
  BY <1>1, <1>12 DEF DeadLeaseExpires, vars, store, Rested
<1> QED BY <1>2, <1>4, <1>5, <1>6, <1>7, <1>8, <1>9, <1>10, <1>11, <1>12 DEF Next, Step

-----------------------------------------------------------------------------
(* The operator's pause *)

\* What a change makes of the pauses.
LEMMA ChangesPauses ==
  ASSUME TypeOK, PausedLooksSo, NEW a \in Accounts, NEW look, NEW byOperator \in BOOLEAN,
         Changes(a, look, byOperator)
  PROVE  /\ PausedLooksSo' /\ crossed \subseteq crossed'
         /\ \A b \in paused' : b \in paused \/ (b = a /\ {q \in Runners : BecomesFor(q, a)} \subseteq crossed')
BY DEF Changes, PausedLooksSo, TypeOK

\* A change that is not an operator's only ends pauses.
LEMMA ChangesEndsPauses ==
  ASSUME TypeOK, NEW a, NEW look, Changes(a, look, FALSE) PROVE paused' \subseteq paused /\ crossed' = crossed
BY DEF Changes

LEMMA WritePauses ==
  ASSUME TypeOK, Placed, PausedLooksSo, NEW p \in Runners, Write(p)
  PROVE  PausedLooksSo' /\ paused' \subseteq paused /\ crossed' = crossed \ {p}
<1>1. PICK look :
        /\ up' = [up EXCEPT ![run[p].cur] = look]
        /\ paused' = IF look = up[run[p].cur] THEN paused ELSE paused \ {run[p].cur}
        /\ crossed' = crossed \ {p}
  BY DEF Write
<1>2. run[p].cur \in Accounts
  BY DEF Write, Placed, OnAccount
<1> QED BY <1>1, <1>2 DEF PausedLooksSo, TypeOK

\* The steps that write no account.
LEMMA PausesAsTheyWere ==
  ASSUME NEW p \in Runners,
         \/ Cycle(p) \/ Replay(p) \/ Submit(p) \/ Busy(p) \/ Acquire(p) \/ Open(p) \/ NextAccount(p)
         \/ Decide(p) \/ Record(p) \/ RecordFails(p) \/ Finish(p) \/ Fail(p) \/ Release(p)
         \/ Renew(p) \/ RenewFails(p) \/ Lapse(p)
  PROVE  UNCHANGED <<up, paused, crossed>>
<1>1. CASE Cycle(p) \/ Replay(p) \/ Submit(p) \/ Busy(p) \/ Acquire(p) \/ Open(p)
  BY <1>1 DEF Cycle, Evaluate, Replay, Submit, Busy, Acquire, Open, accounts
<1>2. CASE NextAccount(p) \/ Decide(p) \/ Record(p) \/ RecordFails(p) \/ Finish(p) \/ Fail(p)
  BY <1>2 DEF NextAccount, Decide, Record, RecordFails, Finish, Fail, accounts
<1>3. CASE Release(p) \/ Renew(p) \/ RenewFails(p) \/ Lapse(p)
  BY <1>3 DEF Release, Renew, RenewFails, Lapse, accounts
<1> QED BY <1>1, <1>2, <1>3

LEMMA PausedLooksSoNext == TypeOK /\ Placed /\ PausedLooksSo /\ [Next]_vars => PausedLooksSo'
<1> SUFFICES ASSUME TypeOK, Placed, PausedLooksSo, [Next]_vars PROVE PausedLooksSo'
  OBVIOUS
<1>1. UNCHANGED <<up, paused, crossed>> => PausedLooksSo'
  BY DEF PausedLooksSo
<1>2. ASSUME NEW a \in Accounts,
             Operator(a) \/ Server(a) \/ Quarantine(a) \/ QuarantinePasses(a)
             \/ QuarantineMisses(a) \/ Cool(a)
      PROVE  PausedLooksSo'
  <2>1. (\E look \in Looks, byOperator \in BOOLEAN : Changes(a, look, byOperator))
        \/ UNCHANGED <<up, paused, crossed>>
    BY <1>2 DEF Operator, Server, Quarantine, QuarantinePasses, QuarantineMisses, Cool, accounts, Looks
  <2> QED BY <1>1, <2>1, ChangesPauses
<1>3. ASSUME NEW p \in Runners, Test(p) PROVE PausedLooksSo'
  <2>1. UNCHANGED accounts \/ Changes(run[p].cur, "paused", FALSE)
    BY <1>3 DEF Test
  <2>2. run[p].cur \in Accounts
    BY <1>3 DEF Test, Placed, OnAccount
  <2> QED BY <1>1, <2>1, <2>2, ChangesPauses DEF accounts
<1>4. CASE Restart \/ DeadLeaseExpires \/ UNCHANGED vars
  BY <1>4 DEF Restart, Stops, DeadLeaseExpires, vars, accounts, PausedLooksSo
<1> QED BY <1>1, <1>2, <1>3, <1>4, PausesAsTheyWere, WritePauses DEF Next, Step

\* What PauseKept says of a run's record.
Kept(p, r) ==
  r.at = "write" /\ r.cur \in paused =>
    \/ p \in crossed
    \/ r.plan = "enable" /\ (r.auto \/ obs[r.snap][r.cur] \in NotActive)

\* Whoever goes on to write has seen no pause that it may not end.
LEMMA DecideKeeps ==
  ASSUME TypeOK, Placed, PausedLooksSo, NEW p \in Runners, Decide(p)
  PROVE  Elsewhere(p) /\ Kept(p, run'[p])
<1> DEFINE r == run[p]
<1>0. r \in RunRecords /\ r.at = "decide"
  BY DEF TypeOK, Decide
<1>1. CASE Goes(p, [r EXCEPT !.at = "record"])
  <2>1. run'[p] = [r EXCEPT !.at = "record"] /\ Elsewhere(p)
    BY <1>1, GoesElsewhere
  <2>2. run'[p].at = "record"
    BY <1>0, <2>1 DEF RunRecords
  <2> QED BY <2>1, <2>2 DEF Kept
<1>2. CASE Goes(p, [r EXCEPT !.at = "write"])
           /\ ~(IF r.plan = "enable" THEN EnableBlocked(r, up[r.cur]) ELSE DisableBlocked(up[r.cur]))
  <2>1. run'[p] = [r EXCEPT !.at = "write"] /\ Elsewhere(p)
    BY <1>2, GoesElsewhere
  <2>2. /\ run'[p].cur = r.cur /\ run'[p].snap = r.snap /\ run'[p].plan = r.plan
        /\ run'[p].auto = r.auto
    BY <1>0, <2>1 DEF RunRecords
  <2>3. ASSUME r.cur \in paused
        PROVE  r.plan = "enable" /\ (r.auto \/ obs[r.snap][r.cur] \in NotActive)
    <3>1. up[r.cur] = "paused"
      BY <2>3 DEF PausedLooksSo
    <3> QED BY <1>2, <3>1 DEF EnableBlocked, DisableBlocked
  <2> QED BY <2>1, <2>2, <2>3 DEF Kept
<1> QED BY <1>1, <1>2 DEF Decide

LEMMA PauseKeptNext ==
  TypeOK /\ Placed /\ PausedLooksSo /\ PauseKept /\ [Next]_vars => PauseKept'
<1> SUFFICES ASSUME TypeOK, Placed, PausedLooksSo, PauseKept, [Next]_vars PROVE PauseKept'
  OBVIOUS
<1>0. \A p \in Runners : Kept(p, run[p])
  BY DEF PauseKept, Kept
<1>1. SUFFICES \A p \in Runners : Kept(p, run[p])'
  BY DEF PauseKept, Kept
<1>2. UNCHANGED <<paused, crossed, obs>> => \A q \in Runners : run'[q] = run[q] => Kept(q, run[q])'
  BY <1>0 DEF Kept
\* A runner that is not about to write, while the others stay.
<1>3. ASSUME NEW p \in Runners, UNCHANGED <<paused, crossed, obs>>, Elsewhere(p), run'[p].at # "write"
      PROVE  \A q \in Runners : Kept(q, run[q])'
  BY <1>2, <1>3 DEF Elsewhere, Kept
<1>4. ASSUME NEW a \in Accounts,
             Operator(a) \/ Server(a) \/ Quarantine(a) \/ QuarantinePasses(a)
             \/ QuarantineMisses(a) \/ Cool(a)
      PROVE  \A q \in Runners : Kept(q, run[q])'
  <2>1. UNCHANGED run /\ UNCHANGED obs
    BY <1>4, OutsideStep
  <2>2. (\E look \in Looks, byOperator \in BOOLEAN : Changes(a, look, byOperator))
        \/ UNCHANGED <<up, paused, crossed>>
    BY <1>4 DEF Operator, Server, Quarantine, QuarantinePasses, QuarantineMisses, Cool, accounts, Looks
  <2>3. ASSUME crossed \subseteq crossed',
               \A b \in paused' :
                 b \in paused \/ (b = a /\ {q \in Runners : BecomesFor(q, a)} \subseteq crossed')
        PROVE  \A q \in Runners : Kept(q, run[q])'
    BY <1>0, <2>1, <2>3 DEF Kept, BecomesFor
  <2> QED BY <1>2, <2>1, <2>2, <2>3, ChangesPauses
<1>5. ASSUME NEW p \in Runners, Replay(p) \/ Submit(p) \/ Busy(p)
      PROVE  \A q \in Runners : Kept(q, run[q])'
  <2>1. UNCHANGED obs
    BY <1>5 DEF Replay, Submit, Busy, evidence
  <2> QED BY <1>3, <1>5, <2>1, IdleStep DEF Executing
<1>6. ASSUME NEW p \in Runners, Cycle(p)
      PROVE  \A q \in Runners : Kept(q, run[q])'
  <2>1. Elsewhere(p) /\ ~Executing(p)' /\ UNCHANGED <<paused, crossed>>
    BY <1>6, IdleStep
  <2>2. PICK s \in Snapshots, entry \in Entries : Evaluate(p, s, entry)
    BY <1>6 DEF Cycle
  <2>3. ASSUME NEW q \in Runners, run[q].snap \in Snapshots
        PROVE  obs'[run[q].snap] = obs[run[q].snap]
    <3>1. <<run[q].snap, run[q].kind>> \in Named(IF Opened(s, entry) = episode THEN episode ELSE NoSnapshot)
      BY DEF Named
    <3>2. run[q].kind \in Kinds
      BY DEF TypeOK, RunRecords
    <3>3. \A a \in Accounts : obs'[run[q].snap][a] = obs[run[q].snap][a]
      BY <2>2, <2>3, <3>1, <3>2 DEF Evaluate
    <3>4. obs[run[q].snap] = [a \in Accounts |-> obs[run[q].snap][a]]
      BY <2>3 DEF TypeOK
    <3>5. obs'[run[q].snap] = [a \in Accounts |-> obs'[run[q].snap][a]]
      BY <2>3, TypeNext DEF TypeOK
    <3> QED BY <3>3, <3>4, <3>5
  <2>4. ASSUME NEW q \in Runners \ {p} PROVE Kept(q, run[q])'
    <3>1. CASE run[q].at = "write"
      <4>1. run[q].snap \in Snapshots
        BY <3>1 DEF Placed
      <4> QED BY <1>0, <2>1, <2>3, <2>4, <4>1 DEF Kept, Elsewhere
    <3>2. CASE run[q].at # "write"
      BY <2>1, <2>4, <3>2 DEF Kept, Elsewhere
    <3> QED BY <3>1, <3>2
  <2> QED BY <2>1, <2>4 DEF Kept, Executing
<1>7. ASSUME NEW p \in Runners, Acquire(p) \/ Release(p) PROVE \A q \in Runners : Kept(q, run[q])'
  BY <1>3, <1>7, LeaseStep DEF Working, Executing
<1>8. ASSUME NEW p \in Runners, Open(p) \/ NextAccount(p) \/ Record(p)
      PROVE  \A q \in Runners : Kept(q, run[q])'
  <2>1. UNCHANGED obs
    BY <1>8 DEF Open, NextAccount, Record, evidence
  <2>2. Elsewhere(p) /\ run'[p].at # "write"
    BY <1>8, OpenStep, NextStep, RecordStep
  <2> QED BY <1>3, <1>8, <2>1, <2>2, PausesAsTheyWere
<1>9. ASSUME NEW p \in Runners, Test(p) PROVE \A q \in Runners : Kept(q, run[q])'
  <2>1. UNCHANGED obs /\ paused' \subseteq paused /\ UNCHANGED crossed
    <3>1. UNCHANGED obs /\ (UNCHANGED accounts \/ Changes(run[p].cur, "paused", FALSE))
      BY <1>9 DEF Test, evidence
    <3> QED BY <3>1, ChangesEndsPauses DEF accounts
  <2>2. Elsewhere(p) /\ run'[p].at # "write"
    <3>1. run[p].at = "test" /\ run[p] \in RunRecords
      BY <1>9 DEF Test, TypeOK
    <3>2. \A plan, tested, auto :
            /\ Decided(run[p], plan).at # "write"
            /\ Decided([run[p] EXCEPT !.tested = tested, !.auto = auto], plan).at # "write"
      BY <3>1 DEF Decided, RunRecords
    <3>3. \E r : Goes(p, r) /\ r.at # "write"
      BY <1>9, <3>2, TestMoves
    <3> QED BY <3>3, GoesElsewhere
  <2> QED BY <1>0, <2>1, <2>2 DEF Kept, Elsewhere
<1>10. ASSUME NEW p \in Runners, Decide(p) PROVE \A q \in Runners : Kept(q, run[q])'
  <2>1. UNCHANGED <<paused, crossed, obs>>
    BY <1>10, PausesAsTheyWere DEF Decide, evidence
  <2>2. Elsewhere(p) /\ Kept(p, run'[p])
    BY <1>10, DecideKeeps
  <2> QED BY <1>2, <2>1, <2>2 DEF Kept, Elsewhere
<1>11. ASSUME NEW p \in Runners, Write(p) PROVE \A q \in Runners : Kept(q, run[q])'
  <2>1. UNCHANGED obs /\ paused' \subseteq paused /\ crossed' = crossed \ {p}
    BY <1>11, WritePauses DEF Write, evidence
  <2>2. Elsewhere(p)
    BY <1>11, CarryStep
  <2>3. run'[p].at = "record"
    <3>1. run[p] \in RunRecords
      BY DEF TypeOK
    <3>2. Goes(p, [run[p] EXCEPT !.at = "record"]) \/ Goes(p, [run[p] EXCEPT !.at = "record", !.stop = TRUE])
      BY <1>11 DEF Write
    <3>3. /\ [run[p] EXCEPT !.at = "record"].at = "record"
          /\ [run[p] EXCEPT !.at = "record", !.stop = TRUE].at = "record"
      BY <3>1 DEF RunRecords
    <3> QED BY <3>2, <3>3, GoesElsewhere
  <2> QED BY <1>0, <2>1, <2>2, <2>3 DEF Kept, Elsewhere
<1>12. ASSUME NEW p \in Runners, RecordFails(p) \/ Finish(p) \/ Fail(p)
       PROVE  \A q \in Runners : Kept(q, run[q])'
  <2>1. UNCHANGED obs
    BY <1>12 DEF RecordFails, Finish, Fail, evidence
  <2>2. Elsewhere(p)
    BY <1>12, CarryStep
  <2>3. run'[p].at # "write"
    <3>1. run[p] \in RunRecords
      BY DEF TypeOK
    <3>2. \/ \E place \in {"release", "fail"} : Goes(p, [run[p] EXCEPT !.at = place])
          \/ Goes(p, [run[p] EXCEPT !.at = "release", !.more = FALSE])
      BY <1>12 DEF RecordFails, Finish, Fail
    <3>3. /\ \A place \in {"release", "fail"} : [run[p] EXCEPT !.at = place].at # "write"
          /\ [run[p] EXCEPT !.at = "release", !.more = FALSE].at # "write"
      BY <3>1 DEF RunRecords
    <3> QED BY <3>2, <3>3, GoesElsewhere
  <2> QED BY <1>3, <1>12, <2>1, <2>2, <2>3, PausesAsTheyWere
<1>13. ASSUME NEW p \in Runners, Renew(p) \/ RenewFails(p) \/ Lapse(p)
       PROVE  \A q \in Runners : Kept(q, run[q])'
  <2>1. UNCHANGED <<paused, crossed, obs>>
    BY <1>13, PausesAsTheyWere DEF Renew, RenewFails, Lapse, evidence
  <2>2. UNCHANGED run \/ Goes(p, [run[p] EXCEPT !.lost = TRUE])
    BY <1>13 DEF Renew, RenewFails, Lapse
  <2>3. ASSUME Goes(p, [run[p] EXCEPT !.lost = TRUE]) PROVE Kept(p, run[p])' /\ Elsewhere(p)
    <3>1. run'[p] = [run[p] EXCEPT !.lost = TRUE] /\ Elsewhere(p)
      BY <2>3, GoesElsewhere
    <3>2. /\ run'[p].at = run[p].at /\ run'[p].cur = run[p].cur /\ run'[p].snap = run[p].snap
          /\ run'[p].plan = run[p].plan /\ run'[p].auto = run[p].auto
      BY <3>1 DEF TypeOK, RunRecords
    <3> QED BY <1>0, <2>1, <3>1, <3>2 DEF Kept
  <2> QED BY <1>2, <2>1, <2>2, <2>3 DEF Elsewhere
<1>14. CASE Restart
  BY <1>14, RestingIsRecord DEF Restart, Stops, Kept
<1>15. CASE DeadLeaseExpires \/ UNCHANGED vars
  <2>1. UNCHANGED <<paused, crossed, obs, run>>
    BY <1>15 DEF DeadLeaseExpires, vars, accounts, evidence
  <2> QED BY <1>2, <2>1
<1> QED BY <1>4, <1>5, <1>6, <1>7, <1>8, <1>9, <1>10, <1>11, <1>12, <1>13, <1>14, <1>15
        DEF Next, Step

-----------------------------------------------------------------------------
(* The rows *)

\* The steps that leave the rows, and what is known of them.
LEMMA RowsAsTheyWere ==
  ASSUME NEW p \in Runners,
         \/ Replay(p) \/ Submit(p) \/ Busy(p) \/ Acquire(p) \/ NextAccount(p) \/ Test(p)
         \/ Decide(p) \/ Write(p) \/ Record(p) \/ RecordFails(p) \/ Release(p) \/ Renew(p)
         \/ RenewFails(p) \/ Lapse(p)
  PROVE  UNCHANGED <<rows, untried>>
<1>1. CASE Replay(p) \/ Submit(p) \/ Busy(p) \/ Acquire(p) \/ NextAccount(p)
  BY <1>1 DEF Replay, Submit, Busy, Acquire, NextAccount, store
<1>2. CASE Test(p) \/ Decide(p) \/ Write(p)
  BY <1>2 DEF Test, Decide, Write, store
<1>3. CASE Record(p) \/ RecordFails(p) \/ Release(p) \/ Renew(p) \/ RenewFails(p) \/ Lapse(p)
  BY <1>3 DEF Record, RecordFails, Release, Renew, RenewFails, Lapse, store
<1> QED BY <1>1, <1>2, <1>3

\* An evaluation keeps the rows that somebody can name, and forgets the others.
LEMMA EvaluateRows ==
  ASSUME TypeOK, Placed, NEW p \in Runners, NEW s \in Snapshots, NEW entry \in Entries,
         Evaluate(p, s, entry)
  PROVE  /\ \A t \in Snapshots, k \in Kinds :
              \/ rows'[t][k] = "none"
              \/ /\ rows'[t][k] = rows[t][k] /\ ledger'[t][k] = ledger[t][k]
                 /\ <<t, k>> \in untried => <<t, k>> \in untried'
         /\ \A q \in Runners :
              run[q].snap \in Snapshots =>
                rows'[run[q].snap][run[q].kind] = rows[run[q].snap][run[q].kind]
<1> DEFINE kept == Named(IF Opened(s, entry) = episode THEN episode ELSE NoSnapshot)
<1>1. \A t \in Snapshots, k \in Kinds :
        /\ rows'[t][k] = IF <<t, k>> \in kept THEN rows[t][k] ELSE "none"
        /\ <<t, k>> \in kept => ledger'[t][k] = ledger[t][k]
  <2>1. ASSUME NEW t \in Snapshots, NEW k \in Kinds, <<t, k>> \in kept
        PROVE  ledger'[t][k] = ledger[t][k]
    <3>1. ledger'[t][k] = IF <<t, k>> \in kept THEN ledger[t][k] ELSE NoLedger[k]
      BY DEF Evaluate
    <3> QED BY <2>1, <3>1
  <2> QED BY <2>1 DEF Evaluate
<1>2. untried' = untried \intersect kept
  BY DEF Evaluate
<1>3. \A q \in Runners : <<run[q].snap, run[q].kind>> \in kept /\ run[q].kind \in Kinds
  BY DEF Named, TypeOK, RunRecords
<1> HIDE DEF kept
<1> QED BY <1>1, <1>2, <1>3

\* Setting a row's status leaves the other rows alone.
LEMMA SetRowOnly ==
  ASSUME TypeOK, NEW p \in Runners, run[p].snap \in Snapshots, NEW status, SetRow(run[p], status)
  PROVE  \A s \in Snapshots, k \in Kinds :
           rows'[s][k] = IF s = run[p].snap /\ k = run[p].kind THEN status ELSE rows[s][k]
BY DEF SetRow, TypeOK, RunRecords

LEMMA RowOpenNext ==
  TypeOK /\ Placed /\ Exclusive /\ RowOpen /\ [Next]_vars => RowOpen'
<1> SUFFICES ASSUME TypeOK, Placed, Exclusive, RowOpen, [Next]_vars PROVE RowOpen'
  OBVIOUS
<1> DEFINE IsOpen(p) == rows[run[p].snap][run[p].kind] = "RUNNING"
<1>a. \A p \in Runners : run[p] \in RunRecords /\ (run[p].at # "idle" => run[p].snap \in Snapshots)
  BY DEF TypeOK, Placed
<1>0. \A p \in Runners : Underway(run[p]) => lapsed \/ IsOpen(p)
  BY DEF RowOpen, Underway, Working, Executing
<1>1. SUFFICES \A p \in Runners : Underway(run[p])' => lapsed' \/ IsOpen(p)'
  <2>1. \A p \in Runners : Working(p)' /\ run'[p].at # "fail" => Underway(run[p])'
    BY TypeNext DEF Working, Executing, Underway, TypeOK, RunRecords, Places
  <2> QED BY <1>1, <2>1 DEF RowOpen
<1>2. ASSUME NEW q \in Runners, run'[q] = run[q], rows' = rows, UNCHANGED lapsed
      PROVE  Underway(run[q])' => lapsed' \/ IsOpen(q)'
  BY <1>0, <1>2 DEF Underway
\* A runner that works on, or has no row, while the rows stay.
<1>3. ASSUME NEW p \in Runners, Elsewhere(p), UNCHANGED <<rows, lapsed>>,
             Underway(run'[p]) => /\ Underway(run[p])
                                  /\ run'[p].snap = run[p].snap /\ run'[p].kind = run[p].kind
      PROVE  \A q \in Runners : Underway(run[q])' => lapsed' \/ IsOpen(q)'
  BY <1>0, <1>2, <1>3 DEF Elsewhere, Underway
\* A runner that changes its row, while the others execute nothing.
<1>4. ASSUME NEW p \in Runners, Executing(p), Elsewhere(p), UNCHANGED lapsed,
             Underway(run'[p]) => lapsed' \/ IsOpen(p)'
      PROVE  \A q \in Runners : Underway(run[q])' => lapsed' \/ IsOpen(q)'
  <2>1. lapsed \/ \A q \in Runners \ {p} : ~Executing(q)
    BY <1>4, Alone
  <2> QED BY <1>4, <2>1 DEF Elsewhere, Underway, Executing
<1>5. CASE \E a \in Accounts : \/ Operator(a) \/ Server(a) \/ Quarantine(a)
                              \/ QuarantinePasses(a) \/ QuarantineMisses(a) \/ Cool(a)
  BY <1>2, <1>5, OutsideStep
<1>6. ASSUME NEW p \in Runners, Replay(p) \/ Submit(p) \/ Busy(p) \/ Acquire(p) \/ Release(p)
      PROVE  \A q \in Runners : Underway(run[q])' => lapsed' \/ IsOpen(q)'
  <2>1. Elsewhere(p) /\ ~Working(p)' /\ UNCHANGED lapsed
    BY <1>6, IdleStep, LeaseStep DEF Working
  <2>2. ~Underway(run'[p])
    BY <2>1 DEF Working, Executing, Underway
  <2> QED BY <1>3, <1>6, <2>1, <2>2, RowsAsTheyWere
<1>7. ASSUME NEW p \in Runners, Cycle(p)
      PROVE  \A q \in Runners : Underway(run[q])' => lapsed' \/ IsOpen(q)'
  <2>1. Elsewhere(p) /\ ~Executing(p)' /\ UNCHANGED lapsed
    BY <1>7, IdleStep
  <2>2. \A q \in Runners :
          run[q].snap \in Snapshots =>
            rows'[run[q].snap][run[q].kind] = rows[run[q].snap][run[q].kind]
    BY <1>7, EvaluateRows DEF Cycle
  <2>3. \A q \in Runners \ {p} : Underway(run[q])' => lapsed' \/ IsOpen(q)'
    BY <1>a, <1>0, <2>1, <2>2 DEF Elsewhere, Underway
  <2> QED BY <2>1, <2>3 DEF Executing, Underway
<1>8. ASSUME NEW p \in Runners,
             Test(p) \/ Decide(p) \/ Write(p) \/ RecordFails(p) \/ Renew(p) \/ RenewFails(p)
      PROVE  \A q \in Runners : Underway(run[q])' => lapsed' \/ IsOpen(q)'
  <2>1. Elsewhere(p) /\ Carries(p)
    BY <1>8, CarryStep
  <2>2. UNCHANGED lapsed
    BY <1>8 DEF Test, Decide, Write, RecordFails, Renew, RenewFails
  <2> QED BY <1>3, <1>8, <2>1, <2>2, RowsAsTheyWere DEF Carries, CarriesOn
<1>9. ASSUME NEW p \in Runners, Finish(p) \/ Fail(p)
      PROVE  \A q \in Runners : Underway(run[q])' => lapsed' \/ IsOpen(q)'
  <2>1. Elsewhere(p) /\ Executing(p)
    BY <1>9, CarryStep DEF Carries, CarriesOn, Executing
  <2>2. UNCHANGED lapsed
    BY <1>9 DEF Finish, Fail
  <2>3. ~Underway(run'[p])
    <3>1. \/ \E place \in {"release", "fail"} : Goes(p, [run[p] EXCEPT !.at = place])
          \/ Goes(p, [run[p] EXCEPT !.at = "release", !.more = FALSE])
      BY <1>9 DEF Finish, Fail
    <3>2. /\ \A place \in {"release", "fail"} : ~Underway([run[p] EXCEPT !.at = place])
          /\ ~Underway([run[p] EXCEPT !.at = "release", !.more = FALSE])
      BY <1>a DEF RunRecords, Underway
    <3> QED BY <3>1, <3>2, GoesElsewhere
  <2> QED BY <1>4, <2>1, <2>2, <2>3
<1>10. ASSUME NEW p \in Runners, Open(p)
       PROVE  \A q \in Runners : Underway(run[q])' => lapsed' \/ IsOpen(q)'
  <2>1. Elsewhere(p) /\ Executing(p) /\ run[p].snap \in Snapshots
    BY <1>a, <1>10, OpenStep DEF Executing
  <2>2. UNCHANGED lapsed
    BY <1>10 DEF Open
  <2>3. Underway(run'[p]) => IsOpen(p)'
    <3>1. ASSUME Underway(run'[p]) PROVE SetRow(run[p], "RUNNING")
      BY <1>10, <3>1, OpenStep DEF Underway
    <3>2. run[p].kind \in Kinds
      BY <1>a DEF RunRecords
    <3> QED BY <1>10, <2>1, <3>1, <3>2, OpenStep, SetRowOnly
  <2> QED BY <1>4, <2>1, <2>2, <2>3
<1>11. ASSUME NEW p \in Runners, NextAccount(p) \/ Record(p)
       PROVE  \A q \in Runners : Underway(run[q])' => lapsed' \/ IsOpen(q)'
  <2>1. /\ Elsewhere(p) /\ Underway(run[p])
        /\ run'[p].snap = run[p].snap /\ run'[p].kind = run[p].kind
    BY <1>11, NextStep, RecordStep DEF Underway
  <2>2. UNCHANGED lapsed
    BY <1>11 DEF NextAccount, Record
  <2> QED BY <1>3, <1>11, <2>1, <2>2, RowsAsTheyWere
<1>12. ASSUME NEW p \in Runners, Lapse(p)
       PROVE  \A q \in Runners : Underway(run[q])' => lapsed' \/ IsOpen(q)'
  BY <1>12 DEF Lapse
<1>13. CASE Restart
  BY <1>13, RestingIsRecord DEF Restart, Stops, Underway
<1>14. CASE DeadLeaseExpires \/ UNCHANGED vars
  <2>1. UNCHANGED <<rows, run, lapsed>>
    BY <1>14 DEF DeadLeaseExpires, vars, store
  <2> QED BY <1>2, <2>1
<1> QED BY <1>5, <1>6, <1>7, <1>8, <1>9, <1>10, <1>11, <1>12, <1>13, <1>14 DEF Next, Step

LEMMA RunningIsExecutedNext ==
  TypeOK /\ Placed /\ RunningIsExecuted /\ [Next]_vars => RunningIsExecuted'
<1> SUFFICES ASSUME TypeOK, Placed, RunningIsExecuted, [Next]_vars PROVE RunningIsExecuted'
  OBVIOUS
<1> DEFINE Executes(p, s, k) == Working(p) /\ run[p].snap = s /\ run[p].kind = k
           Accounted(s, k) ==
             rows[s][k] = "RUNNING" =>
               (\E p \in Runners : Executes(p, s, k)) \/ <<s, k>> \in untried
<1>0. \A s \in Snapshots, k \in Kinds : Accounted(s, k)
  BY DEF RunningIsExecuted
<1>1. SUFFICES \A s \in Snapshots, k \in Kinds : Accounted(s, k)'
  BY DEF RunningIsExecuted
<1>a. \A p \in Runners :
        run[p] \in RunRecords /\ run[p].kind \in Kinds /\ (run[p].at # "idle" => run[p].snap \in Snapshots)
  BY DEF TypeOK, Placed, RunRecords
<1>2. ASSUME NEW q \in Runners, run'[q] = run[q]
      PROVE  \A s, k : Executes(q, s, k) => Executes(q, s, k)'
  BY <1>2 DEF Working, Executing
\* Nobody stops working on its row, and no row begins to run.
<1>3. ASSUME NEW p \in Runners, Elsewhere(p), UNCHANGED <<rows, untried>>,
             Working(p) => /\ Working(p)'
                           /\ run'[p].snap = run[p].snap /\ run'[p].kind = run[p].kind
      PROVE  \A s \in Snapshots, k \in Kinds : Accounted(s, k)'
  <2>1. \A q \in Runners, s \in Snapshots, k \in Kinds : Executes(q, s, k) => Executes(q, s, k)'
    BY <1>2, <1>3 DEF Elsewhere
  <2> HIDE DEF Executes
  <2> QED BY <1>0, <1>3, <2>1
<1>4. CASE \E a \in Accounts : \/ Operator(a) \/ Server(a) \/ Quarantine(a)
                              \/ QuarantinePasses(a) \/ QuarantineMisses(a) \/ Cool(a)
  <2>1. UNCHANGED <<run, rows, untried>>
    BY <1>4, OutsideStep
  <2> QED BY <1>0, <2>1 DEF Working, Executing
<1>5. ASSUME NEW p \in Runners, Replay(p) \/ Submit(p) \/ Busy(p) \/ Acquire(p) \/ Release(p)
      PROVE  \A s \in Snapshots, k \in Kinds : Accounted(s, k)'
  <2>1. Elsewhere(p) /\ ~Working(p)
    BY <1>5, IdleStep, LeaseStep DEF Working
  <2> QED BY <1>3, <1>5, <2>1, RowsAsTheyWere
<1>6. ASSUME NEW p \in Runners, Cycle(p)
      PROVE  \A s \in Snapshots, k \in Kinds : Accounted(s, k)'
  <2>1. Elsewhere(p) /\ ~Working(p)
    BY <1>6, IdleStep DEF Working
  <2>2. \A s \in Snapshots, k \in Kinds :
          rows'[s][k] = "RUNNING" =>
            rows[s][k] = "RUNNING" /\ (<<s, k>> \in untried => <<s, k>> \in untried')
    BY <1>6, EvaluateRows DEF Cycle
  <2>3. \A q \in Runners, s \in Snapshots, k \in Kinds : Executes(q, s, k) => Executes(q, s, k)'
    BY <1>2, <2>1 DEF Elsewhere
  <2> HIDE DEF Executes
  <2> QED BY <1>0, <2>2, <2>3
<1>7. ASSUME NEW p \in Runners,
             Test(p) \/ Decide(p) \/ Write(p) \/ RecordFails(p) \/ Renew(p) \/ RenewFails(p)
      PROVE  \A s \in Snapshots, k \in Kinds : Accounted(s, k)'
  <2>1. Elsewhere(p) /\ Carries(p)
    BY <1>7, CarryStep
  <2>2. Working(p) => run'[p].at # "release"
    <3>1. CASE Test(p) \/ Decide(p) \/ Write(p) \/ RecordFails(p)
      BY <3>1, StayStep
    <3>2. CASE Renew(p) \/ RenewFails(p)
      <4>1. UNCHANGED run \/ Goes(p, [run[p] EXCEPT !.lost = TRUE])
        BY <3>2 DEF Renew, RenewFails
      <4>2. [run[p] EXCEPT !.lost = TRUE].at = run[p].at
        BY <1>a DEF RunRecords
      <4> QED BY <4>1, <4>2, GoesElsewhere DEF Working
    <3> QED BY <1>7, <3>1, <3>2
  <2> QED BY <1>3, <1>7, <2>1, <2>2, RowsAsTheyWere DEF Carries, CarriesOn, AtWork, Working, Executing
<1>8. ASSUME NEW p \in Runners, NextAccount(p) \/ Record(p)
      PROVE  \A s \in Snapshots, k \in Kinds : Accounted(s, k)'
  <2>1. /\ Elsewhere(p) /\ Working(p)'
        /\ run'[p].snap = run[p].snap /\ run'[p].kind = run[p].kind
    BY <1>8, NextStep, RecordStep DEF Working, Executing
  <2> QED BY <1>3, <1>8, <2>1, RowsAsTheyWere
<1>9. ASSUME NEW p \in Runners, Open(p)
      PROVE  \A s \in Snapshots, k \in Kinds : Accounted(s, k)'
  <2>1. Elsewhere(p) /\ ~Working(p) /\ run[p].snap \in Snapshots /\ UNCHANGED untried
    BY <1>a, <1>9, OpenStep DEF Working, Open
  <2>2. \A q \in Runners, s \in Snapshots, k \in Kinds : Executes(q, s, k) => Executes(q, s, k)'
    BY <1>2, <2>1 DEF Elsewhere
  <2>3. CASE SetRow(run[p], "RUNNING") /\ run'[p].at = "next"
    <3>1. \A s \in Snapshots, k \in Kinds :
            rows'[s][k] = IF s = run[p].snap /\ k = run[p].kind THEN "RUNNING" ELSE rows[s][k]
      BY <2>1, <2>3, SetRowOnly
    <3>2. \A s, k : s = run[p].snap /\ k = run[p].kind => Executes(p, s, k)'
      BY <1>9, <2>3, OpenStep DEF Working, Executing
    <3> HIDE DEF Executes
    <3> QED BY <1>0, <2>1, <2>2, <3>1, <3>2
  <2>4. CASE rows' = rows \/ SetRow(run[p], "FAILED")
    <3>1. \A s \in Snapshots, k \in Kinds : rows'[s][k] = "RUNNING" => rows[s][k] = "RUNNING"
      BY <2>1, <2>4, SetRowOnly
    <3> HIDE DEF Executes
    <3> QED BY <1>0, <2>1, <2>2, <3>1
  <2>5. \/ rows' = rows \/ SetRow(run[p], "FAILED")
        \/ SetRow(run[p], "RUNNING") /\ run'[p].at = "next"
    <3>1. \/ UNCHANGED rows \/ SetRow(run[p], "FAILED")
          \/ /\ SetRow(run[p], "RUNNING")
             /\ Goes(p, [run[p] EXCEPT !.at = "next", !.quar = {}, !.todo = Candidates(run[p])])
      BY <1>9 DEF Open
    <3>2. [run[p] EXCEPT !.at = "next", !.quar = {}, !.todo = Candidates(run[p])].at = "next"
      BY <1>a DEF RunRecords
    <3> QED BY <3>1, <3>2, GoesElsewhere
  <2> QED BY <2>3, <2>4, <2>5
<1>10. ASSUME NEW p \in Runners, Finish(p) \/ Fail(p)
       PROVE  \A s \in Snapshots, k \in Kinds : Accounted(s, k)'
  <2>1. Elsewhere(p) /\ Carries(p) /\ run[p].snap \in Snapshots
    BY <1>a, <1>10, CarryStep DEF Carries, CarriesOn
  <2>2. \A q \in Runners \ {p}, s \in Snapshots, k \in Kinds : Executes(q, s, k) => Executes(q, s, k)'
    BY <1>2, <2>1 DEF Elsewhere
  <2>3. ASSUME NEW s \in Snapshots, NEW k \in Kinds, s # run[p].snap \/ k # run[p].kind
        PROVE  Accounted(s, k)'
    <3>1. ~Executes(p, s, k)
      BY <2>3
    <3>2. rows'[s][k] = rows[s][k]
      <4>1. UNCHANGED rows \/ \E status : SetRow(run[p], status)
        BY <1>10 DEF Finish, Fail
      <4> QED BY <2>1, <2>3, <4>1, SetRowOnly
    <3>3. <<s, k>> \in untried => <<s, k>> \in untried'
      <4>1. /\ <<s, k>> # <<run[p].snap, run[p].kind>>
            /\ untried \ {<<run[p].snap, run[p].kind>>} \subseteq untried'
        BY <1>10, <2>3 DEF Finish, Fail
      <4> QED BY <4>1
    <3> HIDE DEF Executes
    <3> QED BY <1>0, <2>2, <2>3, <3>1, <3>2, <3>3
  <2>4. ASSUME NEW s \in Snapshots, NEW k \in Kinds, s = run[p].snap, k = run[p].kind
        PROVE  Accounted(s, k)'
    <3>1. CASE Finish(p)
      <4>1. \/ SetRow(run[p], "SUCCEEDED")
            \/ rows[run[p].snap][run[p].kind] # "RUNNING" /\ UNCHANGED rows
        BY <3>1 DEF Finish, Row
      <4>2. SetRow(run[p], "SUCCEEDED") => rows'[s][k] = "SUCCEEDED"
        BY <2>1, <2>4, SetRowOnly
      <4> QED BY <2>4, <4>1, <4>2
    <3>2. CASE Fail(p)
      <4>1. \/ SetRow(run[p], "FAILED")
            \/ <<run[p].snap, run[p].kind>> \in untried'
            \/ rows[run[p].snap][run[p].kind] # "RUNNING" /\ UNCHANGED rows
        BY <3>2 DEF Fail, Row
      <4>2. SetRow(run[p], "FAILED") => rows'[s][k] = "FAILED"
        BY <2>1, <2>4, SetRowOnly
      <4> QED BY <2>4, <4>1, <4>2
    <3> QED BY <1>10, <3>1, <3>2
  <2> HIDE DEF Accounted
  <2> QED BY <2>3, <2>4
<1>11. ASSUME NEW p \in Runners, Lapse(p)
       PROVE  \A s \in Snapshots, k \in Kinds : Accounted(s, k)'
  <2>1. UNCHANGED <<run, rows, untried>>
    BY <1>11, RowsAsTheyWere DEF Lapse
  <2> QED BY <1>0, <2>1 DEF Working, Executing
<1>12. CASE Restart
  BY <1>12 DEF Restart
<1>13. CASE DeadLeaseExpires \/ UNCHANGED vars
  <2>1. UNCHANGED <<run, rows, untried>>
    BY <1>13 DEF DeadLeaseExpires, vars, store
  <2> QED BY <1>0, <2>1 DEF Working, Executing
<1> QED BY <1>4, <1>5, <1>6, <1>7, <1>8, <1>9, <1>10, <1>11, <1>12, <1>13 DEF Next, Step

\* What FinishedRunsFrozen says of a step.
Frozen ==
  \A s \in Snapshots, k \in Kinds :
    /\ rows[s][k] \in {"SUCCEEDED", "FAILED", "INTERRUPTED"}
    /\ rows'[s][k] # "none"
    => (ledger'[s][k] = ledger[s][k] /\ rows'[s][k] = rows[s][k]) \/ lapsed

LEMMA FrozenNext ==
  TypeOK /\ Placed /\ RowOpen /\ [Next]_vars => Frozen
<1> SUFFICES ASSUME TypeOK, Placed, RowOpen, [Next]_vars PROVE Frozen
  OBVIOUS
<1>a. \A p \in Runners :
        run[p] \in RunRecords /\ run[p].kind \in Kinds /\ (run[p].at # "idle" => run[p].snap \in Snapshots)
  BY DEF TypeOK, Placed, RunRecords
<1>1. UNCHANGED <<rows, ledger>> => Frozen
  BY DEF Frozen
\* A row that is over is not the one that changes.
<1>2. ASSUME NEW p \in Runners, NEW status, SetRow(run[p], status), UNCHANGED ledger,
             Joinable(run[p]), run[p].at # "idle"
      PROVE  Frozen
  <2>1. rows[run[p].snap][run[p].kind] \in {"none", "RUNNING"}
    BY <1>2 DEF Joinable, Row
  <2> QED BY <1>a, <1>2, <2>1, SetRowOnly DEF Frozen
<1>3. CASE \E a \in Accounts : \/ Operator(a) \/ Server(a) \/ Quarantine(a)
                              \/ QuarantinePasses(a) \/ QuarantineMisses(a) \/ Cool(a)
  BY <1>1, <1>3, OutsideStep
<1>4. ASSUME NEW p \in Runners,
             \/ Replay(p) \/ Submit(p) \/ Busy(p) \/ Acquire(p) \/ NextAccount(p) \/ Test(p)
             \/ Decide(p) \/ Write(p) \/ RecordFails(p) \/ Release(p) \/ Renew(p)
             \/ RenewFails(p) \/ Lapse(p)
      PROVE  Frozen
  <2>1. UNCHANGED ledger
    <3>1. CASE Replay(p) \/ Submit(p) \/ Busy(p) \/ Acquire(p) \/ NextAccount(p)
      BY <3>1 DEF Replay, Submit, Busy, Acquire, NextAccount, store
    <3>2. CASE Test(p) \/ Decide(p) \/ Write(p)
      BY <3>2 DEF Test, Decide, Write, store
    <3>3. CASE RecordFails(p) \/ Release(p) \/ Renew(p) \/ RenewFails(p) \/ Lapse(p)
      BY <3>3 DEF RecordFails, Release, Renew, RenewFails, Lapse, store
    <3> QED BY <1>4, <3>1, <3>2, <3>3
  <2>2. UNCHANGED <<rows, untried>>
    BY <1>4, RowsAsTheyWere
  <2> QED BY <1>1, <2>1, <2>2
<1>5. ASSUME NEW p \in Runners, Cycle(p) PROVE Frozen
  BY <1>5, EvaluateRows DEF Cycle, Frozen
<1>6. ASSUME NEW p \in Runners, Open(p) PROVE Frozen
  <2>1. UNCHANGED ledger /\ run[p].at # "idle"
    BY <1>6 DEF Open
  <2>2. \/ UNCHANGED rows
        \/ Joinable(run[p]) /\ (SetRow(run[p], "FAILED") \/ SetRow(run[p], "RUNNING"))
    BY <1>6 DEF Open
  <2> QED BY <1>1, <1>2, <2>1, <2>2
<1>7. ASSUME NEW p \in Runners, Finish(p) \/ Fail(p) PROVE Frozen
  <2>1. UNCHANGED ledger /\ run[p].at # "idle"
    BY <1>7 DEF Finish, Fail
  <2>2. \/ UNCHANGED rows
        \/ Joinable(run[p]) /\ (SetRow(run[p], "FAILED") \/ SetRow(run[p], "SUCCEEDED"))
    BY <1>7 DEF Finish, Fail, Joinable
  <2> QED BY <1>1, <1>2, <2>1, <2>2
\* The records grow only under a row that is RUNNING, or after a lease ran out.
<1>8. ASSUME NEW p \in Runners, Record(p) PROVE Frozen
  <2>1. UNCHANGED rows /\ run[p].at = "record"
    BY <1>8 DEF Record
  <2>2. lapsed \/ rows[run[p].snap][run[p].kind] = "RUNNING"
    BY <2>1 DEF RowOpen, Working, Executing
  <2>3. ASSUME NEW s \in Snapshots, NEW k \in Kinds, s # run[p].snap \/ k # run[p].kind
        PROVE  ledger'[s][k] = ledger[s][k]
    <3>1. \/ UNCHANGED ledger
          \/ \E record : ledger' = [ledger EXCEPT ![run[p].snap][run[p].kind][run[p].cur] = record]
      BY <1>8 DEF Record
    <3>2. run[p].snap \in Snapshots /\ run[p].kind \in Kinds
      BY <1>a, <2>1
    <3>3. \A record :
            [ledger EXCEPT ![run[p].snap][run[p].kind][run[p].cur] = record][s][k] = ledger[s][k]
      BY <2>3, <3>2 DEF TypeOK
    <3> QED BY <3>1, <3>3
  <2> QED BY <2>1, <2>2, <2>3 DEF Frozen
<1>9. CASE Restart
  BY <1>9 DEF Restart, Stops, Frozen
<1>10. CASE DeadLeaseExpires \/ UNCHANGED vars
  BY <1>1, <1>10 DEF DeadLeaseExpires, vars, store
<1> QED BY <1>3, <1>4, <1>5, <1>6, <1>7, <1>8, <1>9, <1>10 DEF Next, Step

-----------------------------------------------------------------------------
(* The theorems *)

Invariant ==
  /\ TypeOK /\ Placed /\ Exclusive /\ Rested /\ PausedLooksSo /\ PauseKept /\ RowOpen
  /\ RunningIsExecuted

\* The invariant holds of every behaviour: acquire_lease, create_account_recovery_run, the
\* candidates of a run and the two reads before a write keep its parts.
THEOREM InvariantHolds == Spec => []Invariant
<1>1. Init => Invariant
  <2> SUFFICES ASSUME Init PROVE Invariant
    OBVIOUS
  <2>1. TypeOK /\ Placed
    BY TypeInit
  <2>2. \A p \in Runners : run[p].at = "idle"
    BY RestingIsRecord DEF Init
  <2>3. Exclusive /\ Rested /\ PauseKept /\ RowOpen
    BY <2>2 DEF Exclusive, Rested, PauseKept, RowOpen, Executing, Working
  <2>4. PausedLooksSo
    BY DEF Init, PausedLooksSo
  <2>5. RunningIsExecuted
    BY DEF Init, RunningIsExecuted, NoRows
  <2> QED BY <2>1, <2>3, <2>4, <2>5 DEF Invariant
<1>2. Invariant /\ [Next]_vars => Invariant'
  BY TypeNext, ExclusiveNext, RestedNext, PausedLooksSoNext, PauseKeptNext, RowOpenNext,
     RunningIsExecutedNext DEF Invariant
<1> QED BY <1>1, <1>2, PTL DEF Spec

\* Every variable keeps its type, however runs, operators, the server and restarts come.
THEOREM TypeCorrect == Spec => []TypeOK
<1>1. Invariant => TypeOK
  BY DEF Invariant
<1> QED BY <1>1, InvariantHolds, PTL

\* The lease "account-recovery" keeps a cycle's run and a job's run apart, whatever fails,
\* until it runs out under one of them.
THEOREM OneExecutorCorrect == Spec => []OneExecutor
<1>1. Invariant => OneExecutor
  BY DEF Invariant, Exclusive, OneExecutor
<1> QED BY <1>1, InvariantHolds, PTL

\* select_account_recovery_candidates reads the cooldown once; that is enough as long as the
\* lease is kept.
THEOREM CooldownCorrect == Spec => []CooldownHonoured
<1>1. Invariant => CooldownHonoured
  BY DEF Invariant, Rested, CooldownHonoured, Working, Executing
<1> QED BY <1>1, InvariantHolds, PTL

\* guardian_enable_account and guardian_disable_account keep an operator's pause, but for
\* what comes after their read and for accounts that were seen broken.
THEOREM PauseKeptCorrect == Spec => []PauseKept
<1>1. Invariant => PauseKept
  BY DEF Invariant
<1> QED BY <1>1, InvariantHolds, PTL

\* No row is left RUNNING by a run that ended or a process that stopped, unless the failed
\* run could not write that it failed.
THEOREM RunningIsExecutedCorrect == Spec => []RunningIsExecuted
<1>1. Invariant => RunningIsExecuted
  BY DEF Invariant
<1> QED BY <1>1, InvariantHolds, PTL

\* record_account_recovery_result and finish_account_recovery_run change no run that is over,
\* until a lease runs out.
THEOREM FinishedRunsFrozenCorrect == Spec => FinishedRunsFrozen
<1>1. Invariant /\ [Next]_vars => [Frozen]_vars
  BY FrozenNext DEF Invariant
<1>2. Spec => [][Frozen]_vars
  BY <1>1, InvariantHolds, PTL DEF Spec
<1> QED BY <1>2 DEF FinishedRunsFrozen, Frozen

-----------------------------------------------------------------------------
(* Progress.  What a runner has begun takes a bounded number of steps, five for an account, and  *)
(* nobody adds to them: each of its steps uses up some.  With the fairness of Step every run     *)
(* ends and the next snapshot's can begin, which ErrorsTested rests on.                          *)

\* The most steps of one run.
RunSize == 5 * Cardinality(Accounts) + 5

StepsIn(place, left) ==
  CASE place = "idle" -> 0
    [] place = "release" -> 1
    [] place = "fail" -> 2
    [] place = "next" -> 3 + 5 * Cardinality(left)
    [] place = "record" -> 4 + 5 * Cardinality(left)
    [] place = "write" -> 5 + 5 * Cardinality(left)
    [] place = "decide" -> 6 + 5 * Cardinality(left)
    [] place = "test" -> 7 + 5 * Cardinality(left)
    [] place = "open" -> RunSize - 1
    [] place = "begin" -> RunSize

\* A channel's run is followed by one for the bad accounts.
StepsLeft(r) == StepsIn(r.at, r.todo) + (IF r.more THEN RunSize ELSE 0)

LEMMA SizesOfAccounts ==
  /\ Cardinality(Accounts) \in Nat /\ RunSize = 5 * Cardinality(Accounts) + 5 /\ RunSize \in Nat
  /\ \A S \in SUBSET Accounts : Cardinality(S) \in 0..Cardinality(Accounts)
  /\ \A S \in SUBSET Accounts : \A a \in S : Cardinality(S \ {a}) = Cardinality(S) - 1
<1>1. Cardinality(Accounts) \in Nat
  BY AccountsAssumption, FS_CardinalityType
<1>2. \A S \in SUBSET Accounts :
        IsFiniteSet(S) /\ Cardinality(S) \in Nat /\ Cardinality(S) <= Cardinality(Accounts)
  BY AccountsAssumption, FS_Subset, FS_CardinalityType
<1>3. \A S \in SUBSET Accounts : \A a \in S : Cardinality(S \ {a}) = Cardinality(S) - 1
  BY <1>2, FS_RemoveElement
<1> QED BY <1>1, <1>2, <1>3 DEF RunSize

LEMMA StepsBounded ==
  ASSUME NEW r \in RunRecords
  PROVE  /\ StepsLeft(r) \in 0..2 * RunSize + 2
         /\ r.at # "idle" => StepsLeft(r) # 0
<1> DEFINE n == Cardinality(r.todo)
           all == Cardinality(Accounts)
           in == StepsIn(r.at, r.todo)
<1>1. r.at \in Places /\ r.more \in BOOLEAN /\ n \in Nat /\ all \in Nat /\ n <= all
  BY SizesOfAccounts DEF RunRecords
<1>2. RunSize = 5 * all + 5
  BY DEF RunSize
<1>3. /\ r.at = "idle" => in = 0
      /\ r.at = "release" => in = 1
      /\ r.at = "fail" => in = 2
      /\ r.at = "next" => in = 3 + 5 * n
      /\ r.at = "record" => in = 4 + 5 * n
  BY DEF StepsIn
<1>4. /\ r.at = "write" => in = 5 + 5 * n
      /\ r.at = "decide" => in = 6 + 5 * n
      /\ r.at = "test" => in = 7 + 5 * n
      /\ r.at = "open" => in = RunSize - 1
      /\ r.at = "begin" => in = RunSize
  BY DEF StepsIn
<1>5. in \in Int /\ 0 <= in /\ in <= RunSize + 2 /\ (in = 0 => r.at = "idle")
  <2> HIDE DEF n, all, in
  <2>1. CASE r.at \in {"idle", "release", "fail"}
    BY <1>1, <1>2, <1>3, <2>1
  <2>2. CASE r.at \in {"next", "record"}
    BY <1>1, <1>2, <1>3, <2>2
  <2>3. CASE r.at \in {"write", "decide", "test"}
    BY <1>1, <1>2, <1>4, <2>3
  <2>4. CASE r.at \in {"open", "begin"}
    BY <1>1, <1>2, <1>4, <2>4
  <2> QED BY <1>1, <2>1, <2>2, <2>3, <2>4 DEF Places
<1>6. StepsLeft(r) = in + (IF r.more THEN RunSize ELSE 0)
  BY DEF StepsLeft
<1>7. RunSize \in Nat
  BY SizesOfAccounts
<1> HIDE DEF n, all, in
<1> QED BY <1>1, <1>5, <1>6, <1>7

\* A runner goes on: to a record with the same accounts before it, or with one less.
LEMMA MoveUses ==
  ASSUME NEW r \in RunRecords, NEW new \in RunRecords, new.todo = r.todo, new.more = r.more \/ ~new.more,
         \/ r.at = "begin" /\ new.at = "open"
         \/ r.at = "open" /\ new.at = "release"
         \/ r.at = "next" /\ new.at \in {"release", "fail"}
         \/ r.at = "test" /\ new.at \in {"decide", "record"}
         \/ r.at = "decide" /\ new.at \in {"write", "record"}
         \/ r.at = "write" /\ new.at = "record"
         \/ r.at = "record" /\ new.at \in {"next", "fail"}
         \/ r.at = "fail" /\ new.at = "release"
  PROVE  StepsLeft(new) < StepsLeft(r)
<1>1. Cardinality(r.todo) \in 0..Cardinality(Accounts) /\ r.more \in BOOLEAN /\ new.more \in BOOLEAN
  BY SizesOfAccounts DEF RunRecords
<1>2. /\ StepsIn(new.at, r.todo) \in Nat /\ StepsIn(r.at, r.todo) \in Nat
      /\ StepsIn(new.at, r.todo) < StepsIn(r.at, r.todo)
  BY <1>1, SizesOfAccounts DEF StepsIn
<1> QED BY <1>1, <1>2, SizesOfAccounts DEF StepsLeft

LEMMA OpenUses ==
  ASSUME NEW r \in RunRecords, NEW new \in RunRecords, r.at = "open", new.at = "next",
         new.more = r.more
  PROVE  StepsLeft(new) < StepsLeft(r)
<1>1. Cardinality(new.todo) \in 0..Cardinality(Accounts) /\ r.more \in BOOLEAN
  BY SizesOfAccounts DEF RunRecords
<1> QED BY <1>1, SizesOfAccounts DEF StepsLeft, StepsIn

LEMMA NextUses ==
  ASSUME NEW r \in RunRecords, NEW new \in RunRecords, r.at = "next", new.more = r.more,
         NEW a \in r.todo, new.todo = r.todo \ {a}, new.at \in {"test", "record"}
  PROVE  StepsLeft(new) < StepsLeft(r)
<1>1. /\ Cardinality(r.todo) \in 0..Cardinality(Accounts) /\ r.more \in BOOLEAN
      /\ Cardinality(new.todo) = Cardinality(r.todo) - 1
      /\ Cardinality(new.todo) \in 0..Cardinality(Accounts)
  BY SizesOfAccounts DEF RunRecords
<1> QED BY <1>1, SizesOfAccounts DEF StepsLeft, StepsIn

\* It rests, or begins the second of its runs.
LEMMA RestUses ==
  ASSUME NEW r \in RunRecords, r.at # "idle"
  PROVE  StepsLeft(Resting) < StepsLeft(r)
<1>1. StepsLeft(Resting) = 0
  BY DEF StepsLeft, StepsIn, Resting
<1> QED BY <1>1, StepsBounded, SizesOfAccounts

LEMMA AgainUses ==
  ASSUME NEW r \in RunRecords, r.at = "release", NEW s, NEW done, r.more
  PROVE  StepsLeft(Beginning(s, "bad", FALSE, done)) < StepsLeft(r)
<1>1. StepsLeft(Beginning(s, "bad", FALSE, done)) = RunSize
  BY SizesOfAccounts DEF StepsLeft, StepsIn, Beginning, Resting
<1>2. StepsLeft(r) = 1 + RunSize
  BY DEF StepsLeft, StepsIn
<1>3. RunSize \in Nat
  BY SizesOfAccounts
<1>4. RunSize < 1 + RunSize
  BY <1>3
<1> QED BY <1>1, <1>2, <1>4, Zenon

LEMMA RunnerStepUses ==
  ASSUME TypeOK, TypeOK', NEW p \in Runners, Step(p) \/ RecordFails(p)
  PROVE  StepsLeft(run'[p]) < StepsLeft(run[p])
<1>1. run[p] \in RunRecords /\ run'[p] \in RunRecords
  BY DEF TypeOK
<1>2. \A r : Goes(p, r) => run'[p] = r
  BY DEF TypeOK, Goes
<1>3. CASE Busy(p)
  BY <1>1, <1>2, <1>3, RestUses DEF Busy
<1>4. CASE Acquire(p) \/ Finish(p) \/ Fail(p) \/ RecordFails(p)
  <2>1. /\ run'[p].todo = run[p].todo /\ (run'[p].more = run[p].more \/ ~run'[p].more)
        /\ \/ run[p].at = "begin" /\ run'[p].at = "open"
           \/ run[p].at = "next" /\ run'[p].at \in {"release", "fail"}
           \/ run[p].at = "fail" /\ run'[p].at = "release"
           \/ run[p].at = "record" /\ run'[p].at = "fail"
    BY <1>1, <1>2, <1>4 DEF Acquire, Finish, Fail, RecordFails, RunRecords
  <2> QED BY <1>1, <2>1, MoveUses
<1>5. CASE Open(p)
  <2>1. CASE Goes(p, [run[p] EXCEPT !.at = "release"])
    <3>1. run'[p].at = "release" /\ run'[p].todo = run[p].todo /\ run'[p].more = run[p].more
      BY <1>1, <1>2, <2>1 DEF RunRecords
    <3> QED BY <1>1, <1>5, <3>1, MoveUses DEF Open
  <2>2. CASE Goes(p, [run[p] EXCEPT !.at = "next", !.quar = {}, !.todo = Candidates(run[p])])
    <3>1. run'[p].at = "next" /\ run'[p].more = run[p].more
      BY <1>1, <1>2, <2>2 DEF RunRecords
    <3> QED BY <1>1, <1>5, <3>1, OpenUses DEF Open
  <2> QED BY <1>5, <2>1, <2>2 DEF Open
<1>6. CASE NextAccount(p)
  <2> DEFINE taken == [run[p] EXCEPT !.todo = @ \ {Next1(run[p])}, !.cur = Next1(run[p]),
                                     !.auto = FALSE, !.plan = "keep", !.tested = FALSE]
  <2>1. Next1(run[p]) \in run[p].todo /\ run[p].at = "next"
    BY <1>1, <1>6, Next1IsIn DEF NextAccount
  <2>2. CASE Goes(p, [run[p] EXCEPT !.at = "fail"])
    <3>1. run'[p].at = "fail" /\ run'[p].todo = run[p].todo /\ run'[p].more = run[p].more
      BY <1>1, <1>2, <2>2 DEF RunRecords
    <3> QED BY <1>1, <2>1, <3>1, MoveUses
  <2>3. ASSUME NEW place \in {"test", "record"}, Goes(p, [taken EXCEPT !.at = place])
        PROVE  StepsLeft(run'[p]) < StepsLeft(run[p])
    <3>1. /\ run'[p].at = place /\ run'[p].more = run[p].more
          /\ run'[p].todo = run[p].todo \ {Next1(run[p])}
      BY <1>1, <1>2, <2>3 DEF RunRecords
    <3> QED BY <1>1, <2>1, <3>1, NextUses
  <2> QED BY <1>6, <2>2, <2>3 DEF NextAccount
<1>7. CASE Test(p)
  <2>1. run[p].at = "test"
    BY <1>7 DEF Test
  <2>2. PICK plan \in Plans, tested \in BOOLEAN, auto \in BOOLEAN :
          \/ Goes(p, Decided(run[p], plan))
          \/ Goes(p, Decided([run[p] EXCEPT !.tested = tested, !.auto = auto], plan))
    BY <1>7, TestMoves
  <2>3. /\ run'[p].at \in {"decide", "record"} /\ run'[p].todo = run[p].todo
        /\ run'[p].more = run[p].more
    BY <1>1, <1>2, <2>2 DEF Decided, RunRecords
  <2> QED BY <1>1, <2>1, <2>3, MoveUses
<1>8. CASE Decide(p) \/ Write(p)
  <2>1. /\ run'[p].todo = run[p].todo /\ run'[p].more = run[p].more
        /\ \/ run[p].at = "decide" /\ run'[p].at \in {"write", "record"}
           \/ run[p].at = "write" /\ run'[p].at = "record"
    BY <1>1, <1>2, <1>8 DEF Decide, Write, RunRecords
  <2> QED BY <1>1, <2>1, MoveUses
<1>9. CASE Record(p)
  <2>1. /\ run'[p].todo = run[p].todo /\ run'[p].more = run[p].more
        /\ run[p].at = "record" /\ run'[p].at \in {"next", "fail"}
    <3> DEFINE To(place) == [run[p] EXCEPT !.at = place, !.cur = None, !.auto = FALSE,
                                           !.plan = "keep", !.tested = FALSE]
    <3>1. run[p].at = "record"
      BY <1>9 DEF Record
    <3>2. \/ run'[p] = To("next") \/ run'[p] = To("fail") \/ run'[p] = [run[p] EXCEPT !.at = "fail"]
      BY <1>2, <1>9 DEF Record
    <3> QED BY <1>1, <3>1, <3>2 DEF RunRecords
  <2> QED BY <1>1, <2>1, MoveUses
<1>10. CASE Release(p)
  <2>1. run[p].at = "release" /\ run'[p] = AfterRun(run[p])
    BY <1>2, <1>10 DEF Release
  <2> QED BY <1>1, <2>1, RestUses, AgainUses DEF AfterRun
<1> QED BY <1>3, <1>4, <1>5, <1>6, <1>7, <1>8, <1>9, <1>10 DEF Step

LEMMA OthersAddNothing ==
  ASSUME TypeOK, TypeOK', [Next]_vars, NEW p \in Runners, run[p].at # "idle",
         ~(Step(p) \/ RecordFails(p))
  PROVE  StepsLeft(run'[p]) <= StepsLeft(run[p])
<1>1. run[p] \in RunRecords /\ run'[p] \in RunRecords
  BY DEF TypeOK
<1>2. StepsLeft(run[p]) \in Nat /\ StepsLeft(run'[p]) \in Nat
  BY <1>1, StepsBounded, SizesOfAccounts
<1>3. ASSUME run'[p] = run[p] PROVE StepsLeft(run'[p]) <= StepsLeft(run[p])
  BY <1>2, <1>3
<1>4. ASSUME NEW q \in Runners \ {p}, NEW r, Goes(q, r) PROVE run'[p] = run[p]
  BY <1>4 DEF TypeOK, Goes
<1>5. ASSUME NEW q \in Runners, Cycle(q) \/ Replay(q) \/ Submit(q) PROVE run'[p] = run[p]
  <2>1. q # p /\ \E r : Goes(q, r)
    BY <1>5 DEF Cycle, Evaluate, Replay, Submit
  <2> QED BY <1>4, <2>1
<1>6. ASSUME NEW q \in Runners, Step(q) \/ RecordFails(q) PROVE run'[p] = run[p]
  <2>1. q # p
    BY <1>6
  <2>2. CASE Busy(q) \/ Acquire(q) \/ Decide(q) \/ Write(q) \/ Finish(q) \/ Fail(q) \/ Release(q)
             \/ RecordFails(q)
    BY <1>4, <2>1, <2>2 DEF Busy, Acquire, Decide, Write, Finish, Fail, Release, RecordFails
  <2>3. CASE Open(q) \/ NextAccount(q) \/ Record(q)
    BY <1>4, <2>1, <2>3 DEF Open, NextAccount, Record
  <2>4. CASE Test(q)
    BY <1>4, <2>1, <2>4, TestMoves
  <2> QED BY <1>6, <2>2, <2>3, <2>4 DEF Step
<1>7. ASSUME NEW q \in Runners, Renew(q) \/ RenewFails(q) PROVE StepsLeft(run'[p]) <= StepsLeft(run[p])
  <2>1. CASE UNCHANGED run
    BY <1>3, <2>1
  <2>2. CASE Goes(q, [run[q] EXCEPT !.lost = TRUE])
    <3>1. run'[p].at = run[p].at /\ run'[p].todo = run[p].todo /\ run'[p].more = run[p].more
      BY <1>1, <2>2 DEF TypeOK, Goes, RunRecords
    <3>2. StepsLeft(run'[p]) = StepsLeft(run[p])
      BY <3>1 DEF StepsLeft
    <3> QED BY <1>2, <3>2
  <2> QED BY <1>7, <2>1, <2>2 DEF Renew, RenewFails
<1>8. CASE Restart
  <2>1. run'[p] = Resting
    BY <1>8 DEF Restart, Stops
  <2> QED BY <1>1, <1>2, <2>1, RestUses
<1>9. CASE \E a \in Accounts : \/ Operator(a) \/ Server(a) \/ Quarantine(a) \/ QuarantinePasses(a)
                              \/ QuarantineMisses(a) \/ Cool(a)
  BY <1>3, <1>9 DEF Operator, Server, Quarantine, QuarantinePasses, QuarantineMisses, Cool
<1>10. CASE DeadLeaseExpires \/ UNCHANGED vars \/ \E q \in Runners : Lapse(q)
  BY <1>3, <1>10 DEF DeadLeaseExpires, Lapse, vars
<1> QED BY <1>3, <1>5, <1>6, <1>7, <1>8, <1>9, <1>10 DEF Next

\* Each step of a runner, one that records nothing because the database is away included, leaves
\* it fewer, and whatever others, time, renewals or a restart do, it gets none back
\* (AccountRecoveryService.execute visits each account once and retries nothing).
THEOREM RunnerAdvances ==
  Spec => [][\A p \in Runners :
               /\ StepsLeft(run[p]) \in 0..2 * RunSize + 2
               /\ Step(p) \/ RecordFails(p) => StepsLeft(run'[p]) < StepsLeft(run[p])
               /\ run[p].at # "idle" => StepsLeft(run'[p]) <= StepsLeft(run[p])]_vars
<1> DEFINE Advances == \A p \in Runners :
             /\ StepsLeft(run[p]) \in 0..2 * RunSize + 2
             /\ Step(p) \/ RecordFails(p) => StepsLeft(run'[p]) < StepsLeft(run[p])
             /\ run[p].at # "idle" => StepsLeft(run'[p]) <= StepsLeft(run[p])
<1>1. ASSUME TypeOK, TypeOK', [Next]_vars, NEW p \in Runners
      PROVE  /\ StepsLeft(run[p]) \in 0..2 * RunSize + 2
             /\ Step(p) \/ RecordFails(p) => StepsLeft(run'[p]) < StepsLeft(run[p])
             /\ run[p].at # "idle" => StepsLeft(run'[p]) <= StepsLeft(run[p])
  <2>1. run[p] \in RunRecords /\ run'[p] \in RunRecords
    BY <1>1 DEF TypeOK
  <2>2. StepsLeft(run[p]) \in 0..2 * RunSize + 2 /\ StepsLeft(run'[p]) \in 0..2 * RunSize + 2
    BY <2>1, StepsBounded
  <2>3. Step(p) \/ RecordFails(p) => StepsLeft(run'[p]) < StepsLeft(run[p])
    BY <1>1, RunnerStepUses
  <2> QED BY <1>1, <2>2, <2>3, OthersAddNothing, SizesOfAccounts
<1>2. TypeOK /\ TypeOK' /\ [Next]_vars => [Advances]_vars
  BY <1>1
<1> QED BY <1>2, TypeCorrect, PTL DEF Spec
=============================================================================

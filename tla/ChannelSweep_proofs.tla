-------------------------- MODULE ChannelSweep_proofs --------------------------
(* Proofs about ChannelSweep: what the sweep decides on its fresh list holds of the accounts   *)
(* themselves when it takes one, but for what others changed since; and the usage log is       *)
(* counted as it is, though it grows while it is read.                                         *)
EXTENDS ChannelSweep, FiniteSetTheorems, WellFoundedInduction, TLAPS

(* The inductive invariant.  Types: the types.  Reading: what was read of the usage log is in  *)
(* it, no row twice, and a row of the window was read or lies ahead, however the rows moved.   *)
(* SlowCounted: the count made of it.  Serves: whom the tests may choose.  Reflects: as long as the pass may take an account, its  *)
(* list shows the accounts that nobody has touched since.  Decided: what was judged before a   *)
(* write.                                                                                      *)
Types ==
  /\ up \in [Accounts -> Looks] /\ groups \in [Accounts -> SUBSET Groups]
  /\ log \subseteq Rows /\ IsFiniteSet(log)
  /\ marked \subseteq Accounts /\ disabledIds \subseteq Accounts /\ touched \subseteq Accounts
  /\ sweep \in SweepRecords /\ moves \in 0..MaxMoves

ReadOnce == \A read, again \in sweep.rows : read.row = again.row => read = again
Ahead(row) == LogPage * (sweep.page - 1) <= Cardinality(Before(row))
Reading ==
  /\ sweep.at # "logs" => sweep.rows = {} /\ sweep.page = 1
  /\ ReadOnce /\ Read \subseteq log
  /\ \A row \in log : sweep.at = "logs" /\ Inside(row) => row \in Read \/ Ahead(row)

Serves == \A a \in sweep.channel : sweep.first.groups[a] \intersect sweep.failing # {}

Deciding == sweep.at = "write" \/ (sweep.at = "next" /\ sweep.todo # {})
Shows(a) == up[a] = sweep.fresh.look[a] /\ groups[a] = sweep.fresh.groups[a]
Reflects == Deciding => \A a \in Accounts \ touched : Shows(a)

Decided ==
  sweep.at = "write" =>
    sweep.cur \in Accounts /\ Fits(sweep.cur) /\ CanDisable(sweep.fresh, sweep.adjusted, sweep.cur)

Inv == Types /\ Reading /\ SlowCounted /\ Serves /\ Reflects /\ Decided

-----------------------------------------------------------------------------
LEMMA LeastIsIn ==
  ASSUME NEW S, S \subseteq Accounts, S # {} PROVE Least(S) \in S
<1> DEFINE LT == {pair \in Nat \X Nat : pair[1] < pair[2]}
<1>1. IsWellFoundedOn(LT, Nat)
  BY NatLessThanWellFounded DEF OpToRel
<1>2. S \subseteq Nat
  BY AccountsAssumption
<1> HIDE DEF LT
<1>3. PICK a \in S : \A b \in S : <<b, a>> \notin LT
  BY <1>1, <1>2, WFMin
<1>4. ASSUME NEW b \in S PROVE a <= b
  <2>1. a \in Nat /\ b \in Nat /\ <<b, a>> \notin LT
    BY <1>2, <1>3
  <2>2. ~(b < a)
    BY <2>1 DEF LT
  <2> QED BY <2>1, <2>2
<1> QED BY <1>4 DEF Least

LEMMA ListingIsSnapshot == Types => Listing \in Snapshots /\ NoSnapshot \in Snapshots
BY DEF Types, Listing, Snapshots, NoSnapshot, Looks

LEMMA RestingIsPass == Resting \in SweepRecords
BY DEF Resting, SweepRecords, Places, NoSnapshot, Snapshots, Looks

\* What has been read of the log with the page that is read, and whether that page is the last.
WithPage == sweep.rows \union {[page |-> sweep.page, row |-> row] : row \in Unread(sweep.page)}
PageEnds ==
  \/ Cardinality(log) <= LogPage * sweep.page
  \/ \E row \in Unread(sweep.page) : row.stamp < WindowStart

CountedWith(rows) ==
  [sweep EXCEPT !.at = "fresh", !.page = 1, !.rows = {},
                !.slow = SlowAccounts(sweep.first, sweep.adjusted, rows)]

\* A page of the usage log ends the pass, or its reading, or leaves it there.
LEMMA ReadLogPageMoves ==
  ASSUME ReadLogPage
  PROVE  \/ sweep' = Resting /\ log' = {}
         \/ PageEnds /\ sweep' = CountedWith(WithPage) /\ log' = log
         \/ /\ ~PageEnds /\ log' = log
            /\ sweep' = [sweep EXCEPT !.page = @ + 1, !.rows = WithPage]
BY DEF ReadLogPage, Goes, GivesUp, PageEnds, WithPage, CountedWith

LEMMA WithPageTyped == Types => WithPage \in SUBSET Reads
<1> SUFFICES ASSUME Types PROVE WithPage \in SUBSET Reads
  OBVIOUS
<1>1. sweep.rows \subseteq Reads /\ sweep.page \in Nat
  BY DEF Types, SweepRecords
<1>2. Unread(sweep.page) \subseteq Rows
  BY DEF Types, Unread, PageOf
<1> QED BY <1>1, <1>2 DEF WithPage, Reads

\* The parts of the pass that reading the log changes.
LEMMA ReadLogPageTyped ==
  ASSUME Types, NEW rows \in SUBSET Reads
  PROVE  /\ CountedWith(rows) \in SweepRecords
         /\ [sweep EXCEPT !.page = @ + 1, !.rows = rows] \in SweepRecords
<1>1. SlowAccounts(sweep.first, sweep.adjusted, rows) \subseteq Accounts
  BY DEF SlowAccounts
<1>2. sweep \in SweepRecords /\ sweep.page + 1 \in Nat \ {0}
  BY DEF Types, SweepRecords
<1>3. CountedWith(rows) \in SweepRecords
  <2>1. 1 \in Nat \ {0} /\ {} \in SUBSET Reads /\ "fresh" \in Places
    BY DEF Places
  <2> QED BY <1>1, <1>2, <2>1 DEF CountedWith, SweepRecords
<1>4. [sweep EXCEPT !.page = @ + 1, !.rows = rows] \in SweepRecords
  BY <1>2 DEF SweepRecords
<1> QED BY <1>3, <1>4

\* Where the pass is when it begins, or ends.
LEMMA NothingIsRead ==
  ASSUME (\E failing \in SUBSET Groups : Start(failing)) \/ StartUnread \/ Finish \/ Abort
  PROVE  /\ sweep'.at \in {"idle", "unread", "tests"}
         /\ sweep'.rows = {} /\ sweep'.page = 1
<1>1. CASE \E failing \in SUBSET Groups : Start(failing)
  BY <1>1 DEF Start, Goes, Resting
<1>2. CASE StartUnread
  BY <1>2 DEF StartUnread, Goes, Resting
<1>3. CASE Finish \/ Abort
  BY <1>3 DEF Finish, Abort, GivesUp, Goes, Resting
<1> QED BY <1>1, <1>2, <1>3

LEMMA ReadLogPageElsewhere ==
  ASSUME ReadLogPage, sweep \in SweepRecords
  PROVE  sweep'.at \notin {"next", "write"}
<1>1. sweep.at = "logs"
  BY DEF ReadLogPage
<1>2. CASE sweep' = Resting
  BY <1>2 DEF Resting
<1>3. CASE sweep' = CountedWith(WithPage)
  BY <1>3 DEF CountedWith, SweepRecords
<1>4. CASE sweep' = [sweep EXCEPT !.page = @ + 1, !.rows = WithPage]
  BY <1>1, <1>4 DEF SweepRecords
<1> QED BY <1>2, <1>3, <1>4, ReadLogPageMoves

\* A row that arrives, the first of the accounts is its own.
LEMMA ArriveAdds ==
  ASSUME Types, Arrive
  PROVE  \E row \in Rows : row.stamp >= WindowEnd /\ log' = log \union {row}
<1> DEFINE late == {row \in log : row.stamp >= WindowEnd}
<1>1. Cardinality(late) \in Nat
  BY FS_Subset, FS_CardinalityType DEF Types
<1>2. Arrived \in Nat
  BY <1>1 DEF Arrived
<1>3. Least(Accounts) \in Accounts
  BY LeastIsIn DEF Arrive
<1> DEFINE row == [stamp |-> WindowEnd + Arrived, account |-> Least(Accounts), slow |-> FALSE]
<1>4. row \in Rows /\ row.stamp >= WindowEnd
  BY <1>2, <1>3, PagesAssumption DEF Rows
<1> QED BY <1>4 DEF Arrive

LEMMA MovedTyped == ASSUME Types, Moved PROVE moves' \in 0..MaxMoves
BY PagesAssumption DEF Types, Moved

\* Whatever the pass does, its variables keep their types.
LEMMA TypesNext == Types /\ Decided /\ [Next]_vars => Types'
<1> SUFFICES ASSUME Types, Decided, [Next]_vars PROVE Types'
  OBVIOUS
<1> DEFINE Typed(r) == r \in SweepRecords
<1>0. Typed(sweep) /\ Typed(Resting)
  BY RestingIsPass DEF Types
<1>1. ASSUME NEW failing \in SUBSET Groups, Start(failing) PROVE Types'
  <2>1. disabledIds' \subseteq Accounts /\ disabledIds' \union marked \subseteq Accounts
    BY <1>1 DEF Start, Types, Closed
  <2>2. Typed([Resting EXCEPT !.at = "tests", !.first = Listing, !.failing = failing,
                              !.adjusted = disabledIds' \union marked])
    BY <1>0, <2>1, ListingIsSnapshot DEF SweepRecords, Places, Resting
  <2> QED BY <1>1, <2>1, <2>2 DEF Start, Goes, Types, upstream
<1>2. ASSUME StartUnread PROVE Types'
  BY <1>0, <1>2 DEF StartUnread, Goes, Types, upstream, SweepRecords, Places, Resting
<1>3. ASSUME Test PROVE Types'
  <2> DEFINE candidates == ChannelCandidates(sweep.first, sweep.adjusted, sweep.failing)
  <2>1. PICK result \in [candidates -> Results] :
          sweep' = [sweep EXCEPT !.at = "logs",
                      !.channel = IF Cardinality(candidates) > SweepLimit THEN {}
                                  ELSE Chosen(sweep.first, candidates, sweep.failing, result)]
    BY <1>3 DEF Test, Goes
  <2>2. candidates \subseteq Accounts
    BY DEF ChannelCandidates
  <2>3. Chosen(sweep.first, candidates, sweep.failing, result) \subseteq Accounts
    BY <2>2 DEF Chosen
  <2> HIDE DEF candidates
  <2>4. Typed(sweep')
    BY <1>0, <2>1, <2>3 DEF SweepRecords, Places
  <2> QED BY <1>3, <2>4, LogsAssumption DEF Test, Types, upstream
<1>4. ASSUME ReadLogPage PROVE Types'
  <2>1. sweep' \in SweepRecords
    BY <1>0, <1>4, ReadLogPageMoves, WithPageTyped, ReadLogPageTyped
  <2>2. log' = log \/ log' = {}
    BY <1>4 DEF ReadLogPage, GivesUp
  <2> QED BY <1>4, <2>1, <2>2, FS_EmptySet DEF ReadLogPage, Types, upstream
<1>5. ASSUME ListAgain PROVE Types'
  <2>1. Typed([sweep EXCEPT !.at = "next", !.fresh = Listing, !.todo = Candidates])
    BY <1>0, ListingIsSnapshot DEF Candidates, SweepRecords, Places
  <2> QED BY <1>5, <2>1, FS_EmptySet DEF ListAgain, Goes, Types, upstream
<1>6. ASSUME NextCandidate PROVE Types'
  <2>1. Least(sweep.todo) \in sweep.todo /\ sweep.todo \subseteq Accounts
    BY <1>0, <1>6, LeastIsIn DEF NextCandidate, SweepRecords
  <2>2. /\ Typed([sweep EXCEPT !.at = "write", !.todo = @ \ {Least(sweep.todo)},
                               !.cur = Least(sweep.todo)])
        /\ Typed([sweep EXCEPT !.todo = @ \ {Least(sweep.todo)}])
    BY <1>0, <2>1 DEF SweepRecords, Places
  <2>3. Typed(sweep')
    <3> HIDE DEF Typed
    <3> QED BY <1>6, <2>2 DEF NextCandidate, Goes
  <2>4. marked' \subseteq Accounts
    BY <1>6, <2>1 DEF NextCandidate, Types
  <2> QED BY <1>6, <2>3, <2>4 DEF NextCandidate, Types, upstream
<1>7. ASSUME Applied \/ Refused \/ InDoubt PROVE Types'
  <2>1. Typed(AfterWrite) /\ Typed([AfterWrite EXCEPT !.todo = {}])
    BY <1>0 DEF AfterWrite, SweepRecords, Places
  <2>2. ASSUME NEW look \in Looks, Becomes(look) PROVE up' \in [Accounts -> Looks] /\ groups' = groups
    BY <2>2 DEF Becomes, Types
  <2>3. CASE Applied
    <3>1. sweep.cur \in Accounts
      BY <2>3 DEF Applied, Decided
    <3>2. Typed([AfterWrite EXCEPT !.adjusted = @ \union {sweep.cur},
                                   !.fresh.look[sweep.cur] = "off"])
      BY <2>1, <3>1 DEF SweepRecords, Snapshots, Looks
    <3>3. "off" \in Looks
      BY DEF Looks
    <3> HIDE DEF Typed
    <3>4. Typed(sweep')
      BY <2>3, <3>2 DEF Applied, Goes
    <3> QED BY <2>2, <2>3, <3>3, <3>4 DEF Applied, Types, Typed
  <2>4. CASE Refused
    BY <2>1, <2>4, MovedTyped DEF Refused, Goes, Types, upstream
  <2>5. CASE InDoubt
    <3>1. up' \in [Accounts -> Looks] /\ groups' = groups
      BY <2>5 DEF InDoubt, Becomes, Types, Looks
    <3> QED BY <2>1, <2>5, <3>1, MovedTyped DEF InDoubt, Goes, Types
  <2> QED BY <1>7, <2>3, <2>4, <2>5
<1>8. ASSUME Finish \/ Abort PROVE Types'
  <2>1. Typed(sweep') /\ (log' = log \/ log' = {})
    BY <1>0, <1>8 DEF Finish, Abort, GivesUp, Goes
  <2>2. moves' \in 0..MaxMoves /\ disabledIds' \subseteq Accounts /\ touched' = {}
    BY <1>0, <1>8, MovedTyped DEF Finish, Abort, Types, SweepRecords
  <2> QED BY <1>8, <2>1, <2>2, FS_EmptySet DEF Finish, Abort, Types, upstream
<1>9. ASSUME NEW a \in Accounts, Others(a) \/ Restore(a) PROVE Types'
  <2>1. CASE Others(a)
    <3>1. up' \in [Accounts -> Looks] /\ groups' \in [Accounts -> SUBSET Groups]
      BY <2>1 DEF Others, Types
    <3>2. moves' \in 0..MaxMoves /\ touched' \subseteq Accounts
      BY <2>1, MovedTyped DEF Others, Touches, Types
    <3> QED BY <2>1, <3>1, <3>2 DEF Others, Types
  <2>2. CASE Restore(a)
    BY <2>2 DEF Restore, Types, Looks
  <2> QED BY <1>9, <2>1, <2>2
<1>10. CASE Arrive
  <2>1. log' \subseteq Rows /\ IsFiniteSet(log')
    BY <1>10, ArriveAdds, FS_AddElement DEF Types
  <2> QED BY <1>10, <2>1 DEF Arrive, Types
<1>11. CASE UNCHANGED vars
  BY <1>11 DEF Types, vars
<1> QED BY <1>1, <1>2, <1>3, <1>4, <1>5, <1>6, <1>7, <1>8, <1>9, <1>10, <1>11 DEF Next

-----------------------------------------------------------------------------
(* The usage log *)

\* How many rows are newer than one: fewer than there are, and no more than for an older one.
LEMMA BeforeCounts ==
  ASSUME Types, NEW row \in log
  PROVE  /\ Cardinality(Before(row)) \in Nat /\ Cardinality(log) \in Nat
         /\ Cardinality(Before(row)) < Cardinality(log)
         /\ \A S \in SUBSET Before(row) : Cardinality(S) <= Cardinality(Before(row))
<1>1. Before(row) \in SUBSET log /\ row \notin Before(row)
  BY DEF Before, Types, Rows
<1>2. IsFiniteSet(log) /\ IsFiniteSet(Before(row))
  BY <1>1, FS_Subset DEF Types
<1>3. Cardinality(Before(row)) \in Nat /\ Cardinality(log) \in Nat
  BY <1>2, FS_CardinalityType
<1>4. Cardinality(Before(row)) <= Cardinality(log) /\ Cardinality(Before(row)) # Cardinality(log)
  BY <1>1, <1>2, FS_Subset
<1>5. \A S \in SUBSET Before(row) : Cardinality(S) <= Cardinality(Before(row))
  BY <1>2, FS_Subset
<1> QED BY <1>3, <1>4, <1>5

\* The page that is read either holds a row of the window that lies ahead, or ends before it;
\* the last page holds it.
LEMMA PageHoldsOrPrecedes ==
  ASSUME Types, NEW row \in log, Inside(row), row \notin Read, Ahead(row)
  PROVE  /\ row \in Unread(sweep.page) \/ LogPage * sweep.page <= Cardinality(Before(row))
         /\ PageEnds => row \in Unread(sweep.page)
<1> DEFINE n == Cardinality(Before(row))
<1>1. n \in Nat /\ LogPage \in Nat /\ sweep.page \in Nat
  BY BeforeCounts, PagesAssumption DEF Types, SweepRecords
<1>2. row \in Unread(sweep.page) \/ LogPage * sweep.page <= n
  BY <1>1 DEF Unread, PageOf, Ahead
<1>3. ASSUME PageEnds PROVE n < LogPage * sweep.page
  <2>1. CASE Cardinality(log) <= LogPage * sweep.page
    BY <1>1, <2>1, BeforeCounts
  <2>2. CASE \E last \in Unread(sweep.page) : last.stamp < WindowStart
    <3>1. PICK last \in Unread(sweep.page) : last.stamp < WindowStart
      BY <2>2
    <3>2. /\ last \in log /\ last.stamp \in Nat /\ row.stamp \in Nat
          /\ Cardinality(Before(last)) < LogPage * sweep.page
      BY <3>1 DEF Unread, PageOf, Types, Rows
    <3>3. last.stamp < row.stamp
      BY <3>1, <3>2, PagesAssumption DEF Inside
    <3>4. Before(row) \in SUBSET Before(last)
      BY <3>2, <3>3 DEF Before, Types, Rows
    <3>5. n <= Cardinality(Before(last)) /\ Cardinality(Before(last)) \in Nat
      BY <3>2, <3>4, BeforeCounts
    <3> QED BY <1>1, <3>2, <3>5
  <2> QED BY <1>3, <2>1, <2>2 DEF PageEnds
<1> QED BY <1>1, <1>2, <1>3

\* What has been read with a page: of the log, no row twice.
LEMMA WithPageReads ==
  ASSUME Types, Reading
  PROVE  /\ \A read, again \in WithPage : read.row = again.row => read = again
         /\ {read.row : read \in WithPage} = Read \union Unread(sweep.page)
         /\ {read.row : read \in WithPage} \subseteq log
<1>1. \A row \in Unread(sweep.page) : row \in log /\ \A read \in sweep.rows : read.row # row
  BY DEF Unread, PageOf, Read
<1> DEFINE news == {[page |-> sweep.page, row |-> row] : row \in Unread(sweep.page)}
<1>2. \A row \in Unread(sweep.page) : [page |-> sweep.page, row |-> row] \in news
  OBVIOUS
<1>3. \A read \in news : read.row \in Unread(sweep.page) /\ read = [page |-> sweep.page, row |-> read.row]
  OBVIOUS
<1>4. WithPage = sweep.rows \union news
  BY DEF WithPage
<1> HIDE DEF news
<1>5. {read.row : read \in WithPage} = Read \union Unread(sweep.page)
  <2>1. \A read \in WithPage : read.row \in Read \union Unread(sweep.page)
    BY <1>3, <1>4 DEF Read
  <2>2. \A row \in Read : \E read \in WithPage : row = read.row
    BY <1>4 DEF Read
  <2>3. \A row \in Unread(sweep.page) : \E read \in WithPage : row = read.row
    <3> SUFFICES ASSUME NEW row \in Unread(sweep.page) PROVE \E read \in WithPage : row = read.row
      OBVIOUS
    <3>1. [page |-> sweep.page, row |-> row] \in WithPage
      BY <1>2, <1>4
    <3> QED BY <3>1
  <2> QED BY <2>1, <2>2, <2>3
<1>6. \A read, again \in WithPage : read.row = again.row => read = again
  BY <1>1, <1>3, <1>4 DEF Reading, ReadOnce
<1> QED BY <1>1, <1>5, <1>6 DEF Reading

LEMMA ReadingNext == Types /\ Reading /\ [Next]_vars => Reading'
<1> SUFFICES ASSUME Types, Reading, [Next]_vars PROVE Reading'
  OBVIOUS
<1>0. sweep \in SweepRecords
  BY DEF Types
\* Where nothing has been read of the log, and it is not read.
<1>1. ASSUME sweep'.rows = {}, sweep'.page = 1, sweep'.at # "logs" PROVE Reading'
  BY <1>1 DEF Reading, ReadOnce, Read
<1>2. CASE \/ \E failing \in SUBSET Groups : Start(failing)
           \/ StartUnread \/ Finish \/ Abort
  BY <1>1, <1>2, NothingIsRead
<1>3. CASE Test
  <2>1. sweep'.rows = {} /\ sweep'.page = 1
    BY <1>0, <1>3 DEF Test, Goes, Reading, SweepRecords
  <2>2. log' \subseteq Rows /\ IsFiniteSet(log')
    BY <1>3, LogsAssumption DEF Test
  <2>3. ASSUME NEW row \in log' PROVE 0 <= Cardinality(Before(row)')
    <3>1. Before(row)' \in SUBSET log'
      BY DEF Before
    <3> QED BY <2>2, <3>1, FS_Subset, FS_CardinalityType
  <2>4. LogPage * (1 - 1) = 0
    BY PagesAssumption
  <2>5. \A row \in log' : Ahead(row)'
    BY <2>1, <2>3, <2>4 DEF Ahead
  <2> QED BY <2>1, <2>5 DEF Reading, ReadOnce, Read
<1>4. CASE ReadLogPage
  <2>1. sweep.at = "logs"
    BY <1>4 DEF ReadLogPage
  <2>2. CASE sweep' = Resting
    BY <1>1, <2>2 DEF Resting
  <2>3. CASE sweep' = CountedWith(WithPage)
    BY <1>0, <1>1, <2>3 DEF CountedWith, SweepRecords
  <2>4. CASE log' = log /\ sweep' = [sweep EXCEPT !.page = @ + 1, !.rows = WithPage]
    <3>1. sweep'.rows = WithPage /\ sweep'.page = sweep.page + 1 /\ sweep'.at = "logs"
      BY <1>0, <2>1, <2>4 DEF SweepRecords
    <3>2. Read' = {read.row : read \in WithPage}
      BY <3>1 DEF Read
    <3>3. ASSUME NEW row \in log, Inside(row), row \notin Read' PROVE Ahead(row)'
      <4>1. row \notin Read /\ row \notin Unread(sweep.page)
        BY <3>2, <3>3, WithPageReads
      <4>2. Ahead(row)
        BY <2>1, <3>3, <4>1 DEF Reading
      <4>3. LogPage * sweep.page <= Cardinality(Before(row))
        BY <3>3, <4>1, <4>2, PageHoldsOrPrecedes
      <4>4. Before(row)' = Before(row) /\ (sweep.page + 1) - 1 = sweep.page
        BY <1>0, <2>4 DEF Before, SweepRecords
      <4> QED BY <3>1, <4>3, <4>4 DEF Ahead
    <3> QED BY <2>4, <3>1, <3>2, <3>3, WithPageReads DEF Reading, ReadOnce, Inside
  <2> QED BY <1>4, <2>2, <2>3, <2>4, ReadLogPageMoves
<1>5. CASE Arrive
  <2>1. PICK new \in Rows : new.stamp >= WindowEnd /\ log' = log \union {new}
    BY <1>5, ArriveAdds
  <2>2. UNCHANGED sweep
    BY <1>5 DEF Arrive
  <2>3. ~Inside(new)
    BY <2>1, PagesAssumption DEF Inside, Rows
  <2>4. ASSUME NEW row \in log, Ahead(row) PROVE Ahead(row)'
    <3>1. Before(row) \in SUBSET (Before(row)') /\ Before(row)' \in SUBSET (log \union {new})
      BY <2>1 DEF Before
    <3>2. IsFiniteSet(Before(row)') /\ Cardinality(Before(row)) <= Cardinality(Before(row)')
      BY <3>1, FS_AddElement, FS_Subset DEF Types
    <3>3. Cardinality(Before(row)) \in Nat /\ Cardinality(Before(row)') \in Nat
      BY <3>2, BeforeCounts, FS_CardinalityType
    <3>4. LogPage * (sweep.page - 1) \in Int
      BY <1>0, PagesAssumption DEF SweepRecords
    <3> QED BY <2>2, <2>4, <3>2, <3>3, <3>4 DEF Ahead
  <2>5. \A row \in log' : sweep.at = "logs" /\ Inside(row) => row \in log
    BY <2>1, <2>3
  <2> QED BY <2>1, <2>2, <2>4, <2>5 DEF Reading, ReadOnce, Read, Inside
<1>6. CASE \/ ListAgain \/ NextCandidate \/ Applied \/ Refused \/ InDoubt
  <2>1. sweep.at # "logs" /\ sweep'.at # "logs" /\ sweep'.rows = sweep.rows /\ sweep'.page = sweep.page
    BY <1>0, <1>6
    DEF ListAgain, NextCandidate, Applied, Refused, InDoubt, AfterWrite, Goes, SweepRecords
  <2> QED BY <1>1, <2>1 DEF Reading
<1>7. CASE (\E a \in Accounts : Others(a) \/ Restore(a)) \/ UNCHANGED vars
  <2>1. UNCHANGED <<sweep, log>>
    BY <1>7 DEF Others, Restore, vars
  <2> QED BY <2>1 DEF Reading, ReadOnce, Read, Inside, Ahead, Before
<1> QED BY <1>2, <1>3, <1>4, <1>5, <1>6, <1>7 DEF Next

\* The slow rows that were read are those of the log, if it was read once and as far as needed.
LEMMA SlowInCounts ==
  ASSUME NEW rows, NEW a, IsFiniteSet(log),
         \A read, again \in rows : read.row = again.row => read = again,
         \A read \in rows : read.row \in log,
         \A row \in log : Inside(row) => \E read \in rows : read.row = row
  PROVE  SlowIn(rows, a) = Cardinality({row \in log : row.account = a /\ row.slow /\ Inside(row)})
<1> DEFINE S == {read \in rows : read.row.account = a /\ read.row.slow /\ Inside(read.row)}
           T == {row \in log : row.account = a /\ row.slow /\ Inside(row)}
           f == [read \in S |-> read.row]
<1>1. \A read \in S : read.row \in T
  OBVIOUS
<1>2. \A row \in T : \E read \in S : read.row = row
  OBVIOUS
<1>3. \A read, again \in S : read.row = again.row => read = again
  OBVIOUS
<1>4. IsFiniteSet(T)
  BY FS_Subset
<1> HIDE DEF S, T
<1>5. f \in Injection(S, T) /\ f \in Surjection(S, T)
  BY <1>1, <1>2, <1>3 DEF Injection, Surjection, IsInjective
<1>6. Cardinality(S) = Cardinality(T)
  BY <1>4, <1>5, FS_Injection
<1> QED BY <1>6 DEF SlowIn, S, T

\* So it is when the last page was read, and in the log itself.
LEMMA CountedInLog ==
  ASSUME Types, Reading, sweep.at = "logs", PageEnds
  PROVE  SlowAccounts(sweep.first, sweep.adjusted, WithPage)
           = SlowAccounts(sweep.first, sweep.adjusted, Once(log))
<1>1. ASSUME NEW row \in log, Inside(row) PROVE \E read \in WithPage : read.row = row
  <2>1. row \in Read \union Unread(sweep.page)
    BY <1>1, PageHoldsOrPrecedes DEF Reading
  <2> QED BY <2>1, WithPageReads
<1>2. \A read \in WithPage : read.row \in log
  BY WithPageReads
<1>3. \A read, again \in WithPage : read.row = again.row => read = again
  BY WithPageReads
<1>4. /\ \A read, again \in Once(log) : read.row = again.row => read = again
      /\ \A read \in Once(log) : read.row \in log
      /\ \A row \in log : \E read \in Once(log) : read.row = row
  <2>1. \A read \in Once(log) : read.row \in log /\ read = [page |-> 1, row |-> read.row]
    BY DEF Once
  <2>2. \A row \in log : [page |-> 1, row |-> row] \in Once(log)
    BY DEF Once
  <2>3. ASSUME NEW row \in log PROVE \E read \in Once(log) : read.row = row
    BY <2>2
  <2> QED BY <2>1, <2>3
<1>5. IsFiniteSet(log)
  BY DEF Types
<1>6. ASSUME NEW a \in Accounts PROVE SlowIn(WithPage, a) = SlowIn(Once(log), a)
  <2> DEFINE n == Cardinality({row \in log : row.account = a /\ row.slow /\ Inside(row)})
  <2>1. SlowIn(WithPage, a) = n
    BY <1>1, <1>2, <1>3, <1>5, SlowInCounts
  <2>2. SlowIn(Once(log), a) = n
    BY <1>4, <1>5, SlowInCounts
  <2> QED BY <2>1, <2>2
<1> QED BY <1>6 DEF SlowAccounts

\* The count is made once, and the log stays what it was until it is used.
LEMMA SlowCountedNext == Types /\ Reading /\ SlowCounted /\ [Next]_vars => SlowCounted'
<1> SUFFICES ASSUME Types, Reading, SlowCounted, [Next]_vars, sweep'.at = "fresh"
             PROVE  sweep'.slow = SlowAccounts(sweep'.first, sweep'.adjusted, Once(log'))
  BY DEF SlowCounted, SlowAccounts, Guarded, SlowIn, Inside, Once, Usable, Managed
<1>0. sweep \in SweepRecords
  BY DEF Types
<1>1. CASE ReadLogPage
  <2>1. sweep.at = "logs" /\ sweep' # Resting
    BY <1>1 DEF ReadLogPage, Resting
  <2>2. PageEnds /\ sweep' = CountedWith(WithPage) /\ log' = log
    BY <1>0, <1>1, <2>1, ReadLogPageMoves DEF SweepRecords
  <2>3. /\ sweep'.slow = SlowAccounts(sweep.first, sweep.adjusted, WithPage)
        /\ sweep'.first = sweep.first /\ sweep'.adjusted = sweep.adjusted
    BY <1>0, <2>2 DEF CountedWith, SweepRecords
  <2> QED BY <2>1, <2>2, <2>3, CountedInLog
<1>2. CASE UNCHANGED <<sweep, log>>
  BY <1>2 DEF SlowCounted
<1>3. CASE \/ \E failing \in SUBSET Groups : Start(failing)
           \/ StartUnread \/ Finish \/ Abort
  BY <1>3, NothingIsRead
<1>4. CASE Test \/ ListAgain \/ NextCandidate \/ Applied \/ Refused \/ InDoubt
  BY <1>0, <1>4
  DEF Test, ListAgain, NextCandidate, Applied, Refused, InDoubt, AfterWrite, Goes, SweepRecords
<1>5. CASE Arrive
  BY <1>5 DEF Arrive
<1>6. CASE (\E a \in Accounts : Others(a) \/ Restore(a)) \/ UNCHANGED vars
  BY <1>2, <1>6 DEF Others, Restore, vars
<1> QED BY <1>1, <1>3, <1>4, <1>5, <1>6 DEF Next

-----------------------------------------------------------------------------
(* The accounts *)

\* Only the tests choose, among the accounts of the failing groups.
LEMMA ServesNext == Types /\ Serves /\ [Next]_vars => Serves'
<1> SUFFICES ASSUME Types, Serves, [Next]_vars PROVE Serves'
  OBVIOUS
<1>0. sweep \in SweepRecords
  BY DEF Types
<1>1. ASSUME sweep'.channel = {} PROVE Serves'
  BY <1>1 DEF Serves
<1>2. ASSUME UNCHANGED <<sweep.channel, sweep.first, sweep.failing>> PROVE Serves'
  BY <1>2 DEF Serves
<1>3. CASE \E failing \in SUBSET Groups : Start(failing)
  BY <1>1, <1>3 DEF Start, Goes, Resting
<1>4. CASE StartUnread \/ Finish \/ Abort
  BY <1>1, <1>4 DEF StartUnread, Finish, Abort, GivesUp, Goes, Resting
<1>5. CASE Test
  <2> DEFINE candidates == ChannelCandidates(sweep.first, sweep.adjusted, sweep.failing)
  <2>1. PICK result \in [candidates -> Results] :
          sweep' = [sweep EXCEPT !.at = "logs",
                      !.channel = IF Cardinality(candidates) > SweepLimit THEN {}
                                  ELSE Chosen(sweep.first, candidates, sweep.failing, result)]
    BY <1>5 DEF Test, Goes
  <2>2. \A a \in Chosen(sweep.first, candidates, sweep.failing, result) :
          sweep.first.groups[a] \intersect sweep.failing # {}
    BY DEF Chosen, ChannelCandidates
  <2> HIDE DEF candidates
  <2>3. /\ sweep'.first = sweep.first /\ sweep'.failing = sweep.failing
        /\ sweep'.channel \subseteq Chosen(sweep.first, candidates, sweep.failing, result)
    BY <1>0, <2>1 DEF SweepRecords
  <2> QED BY <2>2, <2>3 DEF Serves
<1>6. CASE ReadLogPage
  <2>1. CASE sweep' = Resting
    BY <1>1, <2>1 DEF Resting
  <2>2. CASE sweep' = CountedWith(WithPage)
    BY <1>0, <1>2, <2>2 DEF CountedWith, SweepRecords
  <2>3. CASE sweep' = [sweep EXCEPT !.page = @ + 1, !.rows = WithPage]
    BY <1>0, <1>2, <2>3 DEF SweepRecords
  <2> QED BY <1>6, <2>1, <2>2, <2>3, ReadLogPageMoves
<1>7. CASE ListAgain \/ NextCandidate \/ Applied \/ Refused \/ InDoubt
  BY <1>0, <1>2, <1>7
  DEF ListAgain, NextCandidate, Applied, Refused, InDoubt, AfterWrite, Goes, SweepRecords
<1>8. CASE (\E a \in Accounts : Others(a) \/ Restore(a)) \/ Arrive \/ UNCHANGED vars
  BY <1>2, <1>8 DEF Others, Restore, Arrive, vars
<1> QED BY <1>3, <1>4, <1>5, <1>6, <1>7, <1>8 DEF Next

\* What a step of the pass or of others leaves of the fresh list.
LEMMA ReflectsNext == Types /\ Reflects /\ Decided /\ [Next]_vars => Reflects'
<1> SUFFICES ASSUME Types, Reflects, Decided, [Next]_vars PROVE Reflects'
  OBVIOUS
<1>0. sweep \in SweepRecords
  BY DEF Types
<1>1. CASE \/ \E failing \in SUBSET Groups : Start(failing)
           \/ StartUnread \/ Test \/ ReadLogPage \/ Finish \/ Abort
  <2>1. sweep'.at \notin {"next", "write"}
    <3>1. CASE Test
      BY <1>0, <3>1 DEF Test, Goes, SweepRecords
    <3> QED BY <1>0, <1>1, <3>1, NothingIsRead, ReadLogPageElsewhere
  <2> QED BY <2>1 DEF Reflects, Deciding
<1>2. CASE ListAgain
  <2>1. sweep'.fresh = Listing /\ UNCHANGED <<up, groups>>
    BY <1>0, <1>2 DEF ListAgain, Goes, SweepRecords, upstream
  <2> QED BY <2>1 DEF Reflects, Shows, Listing
<1>3. CASE NextCandidate
  <2>1. sweep'.fresh = sweep.fresh /\ UNCHANGED <<up, groups, touched>> /\ Deciding
    BY <1>0, <1>3 DEF NextCandidate, Goes, SweepRecords, upstream, Deciding
  <2> QED BY <2>1 DEF Reflects, Shows
<1>4. CASE Applied
  <2>1. /\ sweep.cur \in Accounts /\ sweep.at = "write"
        /\ up' = [up EXCEPT ![sweep.cur] = "off"] /\ UNCHANGED <<groups, touched>>
    BY <1>4 DEF Applied, Decided, Becomes
  <2>2. /\ sweep'.fresh.look = [sweep.fresh.look EXCEPT ![sweep.cur] = "off"]
        /\ sweep'.fresh.groups = sweep.fresh.groups
    BY <1>0, <1>4 DEF Applied, Goes, AfterWrite, SweepRecords, Snapshots
  <2>3. up \in [Accounts -> Looks] /\ sweep.fresh.look \in [Accounts -> Looks]
    BY <1>0 DEF Types, SweepRecords, Snapshots
  <2> QED BY <2>1, <2>2, <2>3 DEF Reflects, Shows, Deciding
<1>5. CASE Refused
  <2>1. sweep'.fresh = sweep.fresh /\ UNCHANGED <<up, groups, touched>> /\ Deciding
    BY <1>0, <1>5 DEF Refused, AfterWrite, Goes, SweepRecords, upstream, Deciding
  <2> QED BY <2>1 DEF Reflects, Shows
<1>6. CASE InDoubt
  <2>1. ~Deciding'
    BY <1>0, <1>6 DEF InDoubt, AfterWrite, Goes, SweepRecords, Deciding
  <2> QED BY <2>1 DEF Reflects
<1>7. ASSUME NEW a \in Accounts, Others(a) PROVE Reflects'
  <2>1. /\ UNCHANGED sweep
        /\ Deciding => touched' = touched \union {a}
    BY <1>7 DEF Others, Touches, Looking, Deciding
  <2>2. \A b \in Accounts \ {a} : up'[b] = up[b] /\ groups'[b] = groups[b]
    BY <1>7 DEF Others, Types
  <2> QED BY <2>1, <2>2 DEF Reflects, Shows, Deciding
<1>8. ASSUME NEW a \in Accounts, Restore(a) PROVE Reflects'
  BY <1>8 DEF Restore, Reflects, Deciding
<1>9. CASE Arrive \/ UNCHANGED vars
  BY <1>9 DEF Arrive, Reflects, Shows, Deciding, vars
<1> QED BY <1>1, <1>2, <1>3, <1>4, <1>5, <1>6, <1>7, <1>8, <1>9 DEF Next

\* Only NextCandidate goes to a write, and nothing the decision rests on changes before it.
LEMMA DecidedNext == Types /\ Decided /\ [Next]_vars => Decided'
<1> SUFFICES ASSUME Types, Decided, [Next]_vars, sweep'.at = "write" PROVE Decided'
  BY DEF Decided
<1>0. sweep \in SweepRecords
  BY DEF Types
<1>1. CASE NextCandidate
  <2> DEFINE a == Least(sweep.todo)
  <2>1. a \in Accounts
    BY <1>0, <1>1, LeastIsIn DEF NextCandidate, SweepRecords
  <2>2. /\ Fits(a) /\ CanDisable(sweep.fresh, sweep.adjusted, a)
        /\ sweep' = [sweep EXCEPT !.at = "write", !.todo = @ \ {a}, !.cur = a]
    BY <1>0, <1>1 DEF NextCandidate, Goes, SweepRecords
  <2> HIDE DEF a
  <2>3. /\ sweep'.cur = a /\ sweep'.fresh = sweep.fresh /\ sweep'.first = sweep.first
        /\ sweep'.adjusted = sweep.adjusted /\ sweep'.channel = sweep.channel
    BY <1>0, <2>2 DEF SweepRecords
  <2> QED BY <2>1, <2>2, <2>3 DEF Decided, Fits
<1>2. CASE UNCHANGED sweep
  BY <1>2 DEF Decided, Fits
<1>3. CASE \/ \E failing \in SUBSET Groups : Start(failing)
           \/ StartUnread \/ Test \/ ReadLogPage \/ ListAgain
           \/ Applied \/ Refused \/ InDoubt \/ Finish \/ Abort
  <2>1. sweep'.at # "write"
    <3>1. CASE Test \/ ListAgain
      BY <1>0, <3>1 DEF Test, ListAgain, Goes, SweepRecords
    <3>2. CASE Applied \/ Refused \/ InDoubt
      BY <1>0, <3>2 DEF Applied, Refused, InDoubt, AfterWrite, Goes, SweepRecords
    <3> QED BY <1>0, <1>3, <3>1, <3>2, NothingIsRead, ReadLogPageElsewhere
  <2> QED BY <2>1
<1>4. CASE (\E a \in Accounts : Others(a) \/ Restore(a)) \/ Arrive \/ UNCHANGED vars
  BY <1>2, <1>4 DEF Others, Restore, Arrive, vars
<1> QED BY <1>1, <1>3, <1>4 DEF Next

\* The invariant holds for every set of accounts and groups, every log, page size, threshold and
\* limit.
THEOREM InvariantHolds == Spec => []Inv
<1>1. Init => Inv
  <2>1. Init => Types
    BY GroupsAssumption, PagesAssumption, RestingIsPass, FS_EmptySet DEF Init, Types
  <2>2. Init => Reading /\ SlowCounted /\ Serves /\ Reflects /\ Decided
    BY DEF Init, Resting, Reading, ReadOnce, Read, SlowCounted, Serves, Reflects, Deciding, Decided
  <2> QED BY <2>1, <2>2 DEF Inv
<1>2. Inv /\ [Next]_vars => Inv'
  BY TypesNext, ReadingNext, SlowCountedNext, ServesNext, ReflectsNext, DecidedNext DEF Inv
<1> QED BY <1>1, <1>2, PTL DEF Spec

\* The variables keep their types, and no row of the usage log is read twice.
THEOREM TypeCorrect == Spec => []TypeOK
<1>1. Inv => TypeOK
  BY DEF Inv, Types, Reading, ReadOnce, TypeOK
<1> QED BY <1>1, InvariantHolds, PTL

\* Each slow row of the window is counted, and once, however the rows of the log moved from page
\* to page while it was read (fetch_recent_usage_logs, _log_guard_candidates).
THEOREM SlowCountedCorrect == Spec => []SlowCounted
<1>1. Inv => SlowCounted
  BY DEF Inv
<1> QED BY <1>1, InvariantHolds, PTL

\* The sweep takes an account only if each of its groups keeps a usable one, but for what others
\* did since the fresh list: what it took itself in between is counted (_MinimumUsablePool).
THEOREM PoolKeptCorrect == Spec => []PoolKept
<1>1. Inv => PoolKept
  <2> SUFFICES ASSUME Inv, sweep.at = "write", NEW g \in sweep.fresh.groups[sweep.cur]
               PROVE  \/ \E b \in Accounts \ {sweep.cur} : g \in groups[b] /\ up[b] = "available"
                      \/ \E t \in touched : g \in groups[t] \union sweep.fresh.groups[t]
    BY DEF PoolKept
  <2>1. PICK b \in Accounts \ (sweep.adjusted \union {sweep.cur}) :
          g \in sweep.fresh.groups[b] /\ Usable(sweep.fresh, b)
    BY DEF Inv, Decided, CanDisable
  <2>2. CASE b \in touched
    BY <2>1, <2>2
  <2>3. CASE b \notin touched
    BY <2>1, <2>3 DEF Inv, Reflects, Deciding, Shows, Usable
  <2> QED BY <2>2, <2>3
<1> QED BY <1>1, InvariantHolds, PTL

\* What others made of an account before the fresh list is respected, and an account is taken for
\* a failing channel only if it still serves one (MaintenanceCoordinator.run).
THEOREM OthersRespectedCorrect == Spec => []OthersRespected
<1>1. Inv => OthersRespected
  <2> SUFFICES ASSUME Inv, sweep.at = "write", sweep.cur \notin touched
               PROVE  /\ up[sweep.cur] \in {"available", "limited", "error"}
                      /\ groups[sweep.cur] \intersect Excluded = {}
                      /\ sweep.cur \in sweep.channel => groups[sweep.cur] \intersect sweep.failing # {}
    BY DEF OthersRespected
  <2>1. sweep.cur \in Accounts /\ Fits(sweep.cur)
    BY DEF Inv, Decided
  <2>2. Shows(sweep.cur)
    BY <2>1 DEF Inv, Reflects, Deciding
  <2>3. up[sweep.cur] \in Looks
    BY <2>1 DEF Inv, Types
  <2>4. up[sweep.cur] \notin {"gone", "expired", "off", "paused"}
    BY <2>1, <2>2 DEF Fits, Eligible, Listed, Usable, Shows
  <2>5. groups[sweep.cur] \intersect Excluded = {}
    BY <2>1, <2>2 DEF Fits, Managed, Shows
  <2>6. groups[sweep.cur] = sweep.first.groups[sweep.cur]
    BY <2>1, <2>2 DEF Fits, Shows
  <2>7. sweep.cur \in sweep.channel => groups[sweep.cur] \intersect sweep.failing # {}
    BY <2>6 DEF Inv, Serves
  <2> QED BY <2>3, <2>4, <2>5, <2>7 DEF Looks
<1> QED BY <1>1, InvariantHolds, PTL
=============================================================================

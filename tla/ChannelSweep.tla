----------------------------- MODULE ChannelSweep -----------------------------
(***************************************************************************)
(* MaintenanceCoordinator.run: one pass over all accounts.  It lists them, *)
(* tests those of failing channels, counts slow answers in the usage log,  *)
(* which it reads page by page while rows are written to it, lists the     *)
(* accounts again, and takes the ones it chose out of service, one after   *)
(* the other, as long as each of their groups keeps a usable account.      *)
(*                                                                         *)
(* Beside it on the same accounts: operators, the upstream server and      *)
(* Guardian's account recovery.  What becomes of a quarantined account is  *)
(* AccountQuarantine's; here it only is marked.                            *)
(***************************************************************************)
EXTENDS Naturals, FiniteSets

CONSTANTS
  Accounts,                \* their ids, in the order the sweep takes them
  Groups, Excluded,        \* the groups upstream, and those the policy excludes
  OAuth,                   \* accounts of a type the sweep leaves alone
  PageSize, MaxPages,      \* of a list of accounts
  LogPage, MaxLogPages,    \* of the usage log
  WindowStart, WindowEnd,  \* the stamps the log guard looks at: from, and before
  Threshold,               \* slow_first_token_event_threshold
  SweepLimit,              \* channel_account_sweep_max_accounts
  InitialGroups,           \* bound: the groups of each account at first, one function
  InitialLooks,            \* bound: how each account may look at first
  Logs,                    \* bound: what the usage log holds when a pass begins to read it
  MaxMoves,                \* bound: what others do to accounts, and what fails
  MaxRows                  \* bound: rows written to the log while it is read

\* available: active and schedulable.  limited: so, with a deadline of the server.
\* paused: active, not schedulable.  off: inactive.  gone: deleted.
Looks == {"available", "limited", "paused", "error", "off", "expired", "gone"}

\* Rows of the log, in the order of their stamps, newest first; a row and the page it was read from.
Rows == [stamp : Nat, account : Accounts, slow : BOOLEAN]
Reads == [page : Nat, row : Rows]

ASSUME AccountsAssumption == Accounts \subseteq Nat \ {0} /\ IsFiniteSet(Accounts)
ASSUME GroupsAssumption ==
  /\ IsFiniteSet(Groups) /\ Excluded \subseteq Groups /\ OAuth \subseteq Accounts
  /\ InitialGroups \in [Accounts -> SUBSET Groups] /\ InitialLooks \in [Accounts -> SUBSET Looks]
ASSUME LogsAssumption == \A rows \in Logs : rows \subseteq Rows /\ IsFiniteSet(rows)
ASSUME PagesAssumption ==
  /\ {PageSize, MaxPages, LogPage, MaxLogPages, Threshold, SweepLimit} \subseteq Nat \ {0}
  /\ WindowStart \in Nat /\ WindowEnd \in Nat /\ {MaxMoves, MaxRows} \subseteq Nat

VARIABLES
  up,           \* how an account looks upstream
  groups,       \* the groups it is in
  log,          \* the usage log; outside of its reading, nothing
  marked,       \* accounts with a quarantine marker or intent
  disabledIds,  \* _disabled_ids
  sweep,        \* where the pass is, and its local variables
  moves,
  touched       \* history: accounts that others changed since the pass listed them last

vars == <<up, groups, log, marked, disabledIds, sweep, moves, touched>>

-----------------------------------------------------------------------------
(* What is read *)

\* The log guard's window.
Inside(row) == WindowStart <= row.stamp /\ row.stamp < WindowEnd

\* A list of accounts, as the pass keeps it.
Snapshots == [look : [Accounts -> Looks], groups : [Accounts -> SUBSET Groups]]
Listing == [look |-> up, groups |-> groups]
Listed(s, a) == s.look[a] # "gone"
Closed(s) == {a \in Accounts : s.look[a] \in {"paused", "off", "expired"}}

\* parse_account_group_state_page checks the length of every page against all that is left.
PageCount(n) == IF n = 0 THEN 1 ELSE (n + PageSize - 1) \div PageSize
PageLength(n, page) == IF page < PageCount(n) THEN PageSize ELSE n - PageSize * (page - 1)
Listable ==
  LET n == Cardinality({a \in Accounts : up[a] # "gone"})
  IN /\ PageCount(n) <= MaxPages
     /\ \A page \in 1..PageCount(n) : PageLength(n, page) = n - PageSize * (page - 1)

-----------------------------------------------------------------------------
(* What is decided *)

\* _MinimumUsablePool, and who may be taken.
Usable(s, a) == s.look[a] = "available"
\* Mutant: an account is its group's own spare.
CanDisableTheLast(s, adjusted, a) ==
  /\ s.groups[a] # {}
  /\ \A g \in s.groups[a] : \E b \in Accounts \ adjusted : g \in s.groups[b] /\ Usable(s, b)

CanDisable(s, adjusted, a) ==
  /\ s.groups[a] # {}
  /\ \A g \in s.groups[a] :
       \E b \in Accounts \ (adjusted \union {a}) : g \in s.groups[b] /\ Usable(s, b)

Eligible(s, adjusted, a) ==
  /\ Listed(s, a) /\ s.groups[a] # {}
  /\ a \notin OAuth \union adjusted
  /\ s.look[a] \notin {"expired", "off", "paused"}
Managed(s, a) == s.groups[a] \subseteq Groups \ Excluded

\* Accounts of a failing channel's group; a pass with too many tests none.
ChannelCandidates(s, adjusted, failing) ==
  {a \in Accounts : /\ Eligible(s, adjusted, a) /\ Managed(s, a)
                   /\ s.groups[a] \intersect failing # {}}

Results == {"passed", "failed", "unclear"}

\* An account that failed is taken if another account of each failing group of its passed.
Chosen(s, candidates, failing, result) ==
  LET healthy == {g \in failing : \E a \in candidates : g \in s.groups[a] /\ result[a] = "passed"}
  IN {a \in candidates : result[a] = "failed" /\ s.groups[a] \intersect failing \subseteq healthy}

\* The log guard's: accounts with enough slow rows among those it has read.
SlowIn(rows, a) ==
  Cardinality({read \in rows : read.row.account = a /\ read.row.slow /\ Inside(read.row)})
Guarded(s, adjusted, a) ==
  /\ Usable(s, a) /\ Managed(s, a) /\ s.groups[a] # {} /\ a \notin OAuth \union adjusted
SlowAccounts(s, adjusted, rows) ==
  {a \in Accounts : Guarded(s, adjusted, a) /\ SlowIn(rows, a) >= Threshold}

-----------------------------------------------------------------------------
(* The pass *)

Places == {"idle", "unread", "tests", "logs", "fresh", "next", "write"}
None == 0
NoSnapshot == [look |-> [a \in Accounts |-> "gone"], groups |-> [a \in Accounts |-> {}]]

Resting == [at |-> "idle", first |-> NoSnapshot, fresh |-> NoSnapshot, failing |-> {},
            adjusted |-> {}, channel |-> {}, page |-> 1, rows |-> {}, slow |-> {},
            todo |-> {}, cur |-> None]
SweepRecords ==
  [at : Places, first : Snapshots, fresh : Snapshots, failing : SUBSET Groups,
   adjusted : SUBSET Accounts, channel : SUBSET Accounts, page : Nat \ {0}, rows : SUBSET Reads,
   slow : SUBSET Accounts, todo : SUBSET Accounts, cur : Accounts \union {None}]

Goes(r) == sweep' = r
Moved == moves < MaxMoves /\ moves' = moves + 1
upstream == <<up, groups>>

Init ==
  /\ up \in {u \in [Accounts -> Looks] : \A a \in Accounts : u[a] \in InitialLooks[a]}
  /\ groups = InitialGroups
  /\ log = {}
  /\ marked \in SUBSET {a \in Accounts : up[a] = "off"}
  /\ disabledIds = {}
  /\ sweep = Resting /\ moves = 0 /\ touched = {}

\* The pass begins: with the failing channels of a fresh probe, and without the accounts
\* that are quarantined or that it disabled before and still are closed.
Start(failing) ==
  /\ sweep.at = "idle" /\ Listable
  /\ disabledIds' = disabledIds \intersect Closed(Listing)
  /\ Goes([Resting EXCEPT !.at = "tests", !.first = Listing, !.failing = failing,
                          !.adjusted = disabledIds' \union marked])
  /\ UNCHANGED <<upstream, log, marked, moves, touched>>

\* "invalid account snapshot pagination": the job fails.
StartUnread ==
  /\ sweep.at = "idle" /\ ~Listable
  /\ Goes([Resting EXCEPT !.at = "unread"])
  /\ UNCHANGED <<upstream, log, marked, disabledIds, moves, touched>>

\* _ChannelAccountSweepService.run: all the tests, whatever each says.
Test ==
  LET s == sweep.first
      candidates == ChannelCandidates(s, sweep.adjusted, sweep.failing)
  IN /\ sweep.at = "tests"
     /\ \E result \in [candidates -> Results] :
          Goes([sweep EXCEPT !.at = "logs",
                  !.channel = IF Cardinality(candidates) > SweepLimit THEN {}
                              ELSE Chosen(s, candidates, sweep.failing, result)])
     /\ log' \in Logs
     /\ UNCHANGED <<upstream, marked, disabledIds, moves, touched>>

\* One page of the usage log, newest first: rows read before are skipped, a row newer than the
\* last one is an error; the window's end, or the log's, is the end.
Before(row) == {other \in log : other.stamp > row.stamp}
PageOf(page) ==
  {row \in log : /\ LogPage * (page - 1) <= Cardinality(Before(row))
                 /\ Cardinality(Before(row)) < LogPage * page}
Read == {read.row : read \in sweep.rows}

\* Mutant: a row that moved to the next page is read again.
UnreadOrNot(page) == PageOf(page)

Unread(page) == PageOf(page) \ Read

GivesUp == Goes(Resting) /\ log' = {}

ReadLogPage ==
  LET new == Unread(sweep.page)
      rows == sweep.rows \union {[page |-> sweep.page, row |-> row] : row \in new}
      disorder == \E row \in new, old \in Read : row.stamp > old.stamp
      ended == \/ Cardinality(log) <= LogPage * sweep.page
               \/ \E row \in new : row.stamp < WindowStart
  IN /\ sweep.at = "logs"
     /\ \/ disorder /\ GivesUp
        \/ /\ ~disorder /\ ended
           /\ Goes([sweep EXCEPT !.at = "fresh", !.page = 1, !.rows = {},
                                 !.slow = SlowAccounts(sweep.first, sweep.adjusted, rows)])
           /\ UNCHANGED log
        \/ /\ ~disorder /\ ~ended /\ sweep.page < MaxLogPages
           /\ Goes([sweep EXCEPT !.page = @ + 1, !.rows = rows]) /\ UNCHANGED log
        \/ ~disorder /\ ~ended /\ sweep.page = MaxLogPages /\ GivesUp
     /\ UNCHANGED <<upstream, marked, disabledIds, moves, touched>>

Candidates == sweep.channel \union sweep.slow

\* Mutant: the first list will do.
KeepFirst ==
  /\ sweep.at = "fresh"
  /\ Goes([sweep EXCEPT !.at = "next", !.fresh = sweep.first, !.todo = Candidates])
  /\ touched' = {}
  /\ log' = {}
  /\ UNCHANGED <<upstream, marked, disabledIds, moves>>

ListAgain ==
  /\ sweep.at = "fresh" /\ Listable
  /\ Goes([sweep EXCEPT !.at = "next", !.fresh = Listing, !.todo = Candidates])
  /\ touched' = {}
  /\ log' = {}
  /\ UNCHANGED <<upstream, marked, disabledIds, moves>>

\* Mutant: whatever groups it is in now.
FitsAnywhere(a) ==
  /\ IF a \in sweep.channel THEN Eligible(sweep.fresh, sweep.adjusted, a)
                           ELSE Usable(sweep.fresh, a)
  /\ sweep.fresh.groups[a] # {} /\ Managed(sweep.fresh, a)

\* What the fresh list says of a candidate.
Fits(a) ==
  /\ IF a \in sweep.channel THEN Eligible(sweep.fresh, sweep.adjusted, a)
                           ELSE Usable(sweep.fresh, a)
  /\ sweep.fresh.groups[a] = sweep.first.groups[a]
  /\ sweep.fresh.groups[a] # {} /\ Managed(sweep.fresh, a)

Least(S) == CHOOSE a \in S : \A b \in S : a <= b

\* The next candidate: skipped, or its intent is recorded (before_disable).
NextCandidate ==
  LET a == Least(sweep.todo)
  IN /\ sweep.at = "next" /\ sweep.todo # {}
     /\ IF Fits(a) /\ CanDisable(sweep.fresh, sweep.adjusted, a)
        THEN /\ Goes([sweep EXCEPT !.at = "write", !.todo = @ \ {a}, !.cur = a])
             /\ marked' = marked \union {a}
        ELSE Goes([sweep EXCEPT !.todo = @ \ {a}]) /\ UNCHANGED marked
     /\ UNCHANGED <<upstream, log, disabledIds, moves, touched>>

\* disable_account and after_disable: applied, refused, or in doubt, which ends the pass.
Becomes(look) == up' = [up EXCEPT ![sweep.cur] = look] /\ UNCHANGED groups
AfterWrite == [sweep EXCEPT !.at = "next", !.cur = None]

Applied ==
  /\ sweep.at = "write" /\ Becomes("off")
  /\ Goes([AfterWrite EXCEPT !.adjusted = @ \union {sweep.cur}, !.fresh.look[sweep.cur] = "off"])
  /\ UNCHANGED <<log, marked, disabledIds, moves, touched>>

Refused ==
  /\ sweep.at = "write"
  /\ marked' = marked \ {sweep.cur}
  /\ Goes(AfterWrite)
  /\ Moved
  /\ UNCHANGED <<upstream, log, disabledIds, touched>>

\* Mutant: the pass goes on.
InDoubtGoesOn ==
  /\ sweep.at = "write"
  /\ \E look \in {up[sweep.cur], "off"} : Becomes(look)
  /\ Goes(AfterWrite)
  /\ Moved
  /\ UNCHANGED <<log, marked, disabledIds, touched>>

InDoubt ==
  /\ sweep.at = "write"
  /\ \E look \in {up[sweep.cur], "off"} : Becomes(look)
  /\ Goes([AfterWrite EXCEPT !.todo = {}])
  /\ Moved
  /\ UNCHANGED <<log, marked, disabledIds, touched>>

Finish ==
  /\ \/ sweep.at = "next" /\ sweep.todo = {} /\ disabledIds' = disabledIds \union sweep.adjusted
     \/ sweep.at = "unread" /\ UNCHANGED disabledIds
  /\ Goes(Resting)
  /\ touched' = {}
  /\ UNCHANGED <<upstream, log, marked, moves>>

\* A request or the database fails: the job does, and what it recorded stays.
Abort ==
  /\ sweep.at \notin {"idle", "unread"}
  /\ GivesUp
  /\ Moved
  /\ touched' = {}
  /\ UNCHANGED <<upstream, marked, disabledIds>>

-----------------------------------------------------------------------------
(* The others *)

Looking == sweep.at \in {"next", "write"}
Touches(a) == touched' = IF Looking THEN touched \union {a} ELSE touched

\* An operator, the server, or Guardian's recovery changes an account.
Others(a) ==
  /\ \/ \E look \in Looks \ {up[a]} : up' = [up EXCEPT ![a] = look] /\ UNCHANGED groups
     \/ /\ \E g \in Groups :
             groups' = [groups EXCEPT ![a] = IF g \in @ THEN @ \ {g} ELSE @ \union {g}]
        /\ UNCHANGED up
  /\ up[a] # "gone"
  /\ Touches(a) /\ Moved
  /\ UNCHANGED <<log, marked, disabledIds, sweep>>

\* A quarantined account is given back.
Restore(a) ==
  /\ a \in marked /\ sweep.at = "idle"
  /\ marked' = marked \ {a} /\ up' = [up EXCEPT ![a] = "available"]
  /\ UNCHANGED <<groups, log, disabledIds, sweep, moves, touched>>

\* The server answers an account's request, and writes its row; the window is over by then.
Arrived == Cardinality({row \in log : row.stamp >= WindowEnd})
Arrive ==
  /\ sweep.at = "logs" /\ Arrived < MaxRows /\ Accounts # {}
  /\ log' = log \union
       {[stamp |-> WindowEnd + Arrived, account |-> Least(Accounts), slow |-> FALSE]}
  /\ UNCHANGED <<up, groups, marked, disabledIds, sweep, moves, touched>>

Next ==
  \/ \E failing \in SUBSET Groups : Start(failing)
  \/ StartUnread \/ Test \/ ReadLogPage \/ ListAgain \/ NextCandidate
  \/ Applied \/ Refused \/ InDoubt \/ Finish \/ Abort
  \/ \E a \in Accounts : Others(a) \/ Restore(a)
  \/ Arrive

Spec == Init /\ [][Next]_vars

-----------------------------------------------------------------------------
(* Properties *)

\* With it: no row is read twice.
TypeOK ==
  /\ up \in [Accounts -> Looks] /\ groups \in [Accounts -> SUBSET Groups]
  /\ log \subseteq Rows
  /\ marked \subseteq Accounts /\ disabledIds \subseteq Accounts
  /\ sweep \in SweepRecords
  /\ \A read, again \in sweep.rows : read.row = again.row => read = again
  /\ moves \in 0..MaxMoves /\ touched \subseteq Accounts

\* When the sweep takes an account, each of its groups has another account that is usable at
\* that moment, unless somebody else changed an account of the group after the fresh list
\* (maintenance.py judges the pool on that list, and what it disabled itself since).
PoolKept ==
  sweep.at = "write" =>
    \A g \in sweep.fresh.groups[sweep.cur] :
      \/ \E b \in Accounts \ {sweep.cur} : g \in groups[b] /\ up[b] = "available"
      \/ \E t \in touched : g \in groups[t] \union sweep.fresh.groups[t]

\* An account that was taken out of scheduling, deleted or put into an excluded group, by
\* whomever, is left alone, and so is one that was taken from the groups whose channel fails and
\* for which it was chosen, unless that was after the fresh list: the tests and the log took
\* their time (maintenance.py compares the two lists).
OthersRespected ==
  sweep.at = "write" =>
    \/ sweep.cur \in touched
    \/ /\ up[sweep.cur] \in {"available", "limited", "error"}
       /\ groups[sweep.cur] \intersect Excluded = {}
       /\ sweep.cur \in sweep.channel => groups[sweep.cur] \intersect sweep.failing # {}

\* Every row of a log, as if it were read once.
Once(rows) == {[page |-> 1, row |-> row] : row \in rows}

\* README.md "three responses above 30 seconds within the latest three minutes": as many rows
\* of the window as the threshold, each counted once and none overlooked, however the rows
\* moved from page to page while they were read.
SlowCounted ==
  sweep.at = "fresh" =>
    sweep.slow = SlowAccounts(sweep.first, sweep.adjusted, Once(log))

\* A list of accounts that fits into the pages the code allows for is read.
ListIsRead ==
  sweep.at = "unread" => Cardinality(Accounts) > PageSize * MaxPages

=============================================================================

----------------------------- MODULE ChannelProbe -----------------------------
(***************************************************************************)
(* fetch_probe_with_accounts: which group's accounts does a channel use?   *)
(* The upstream server checks the channels; a check leaves a row in the    *)
(* usage log, and the row names the group that served it.  A probe reads   *)
(* what the server says of the channels, then the log of each model, page  *)
(* by page, newest row first, while rows are written to it, and binds a    *)
(* channel to the group of the row that resembles its check most.  The     *)
(* channel's display name counts only where the log was read.              *)
(*                                                                         *)
(* What is done to the accounts of failing channels is ChannelSweep's.     *)
(***************************************************************************)
EXTENDS Naturals, FiniteSets

CONSTANTS
  Channels, Models, Model,   \* the monitored channels, and each one's model
  Pools, NoGroup,            \* the groups of accounts
  Own,                       \* the group that serves a channel
  Named,                     \* the one group its display name fits, or none
  UsagePage, MaxUsagePages,  \* of the usage log
  Second,                    \* in the unit of stamps, latencies and durations
  Worlds,                    \* bound: the channels' states, and what the log holds then
  Later                      \* bound: rows that may be written while the log is read

\* checked is 0 for a channel that never was; timed: the latency is given.
States == [enabled : BOOLEAN, failing : BOOLEAN, checked : Nat, timed : BOOLEAN, latency : Nat]
\* probe: written for a client that calls itself go-http-client.
UsageRows ==
  [stamp : Nat, model : Models, group : Pools \union {NoGroup}, probe : BOOLEAN, duration : Nat]

ASSUME ProbeAssumption ==
  /\ NoGroup \notin Pools /\ Model \in [Channels -> Models] /\ Own \in [Channels -> Pools]
  /\ Named \in [Channels -> Pools \union {NoGroup}]
  /\ {UsagePage, MaxUsagePages} \subseteq Nat \ {0} /\ Second \in Nat \ {0}
ASSUME WorldsAssumption ==
  /\ \A w \in Worlds : /\ w.channels \in [Channels -> States]
                       /\ w.log \subseteq UsageRows /\ IsFiniteSet(w.log)
  /\ Later \subseteq UsageRows

VARIABLES
  probe,   \* where the probe is, and its local variables
  usage    \* the usage log; outside of its reading, nothing

probeVars == <<probe, usage>>

-----------------------------------------------------------------------------
(* Evidence *)

Span == 2 * Second          \* from a check to its row
Slack == Second             \* what a row's duration may differ from the latency
Margin == Second \div 10    \* what it takes to tell two groups apart

Difference(m, n) == IF m < n THEN n - m ELSE m - n
Distance(c, row) == Difference(row.duration, probe.seen[c].latency)

Matches(c, row) ==
  LET checked == probe.seen[c].checked
  IN /\ checked # 0 /\ probe.seen[c].timed
     /\ row.model = Model[c] /\ row.probe /\ row.group # NoGroup
     /\ checked <= row.stamp /\ row.stamp <= checked + Span
     /\ Distance(c, row) <= Slack \/ 4 * Distance(c, row) <= probe.seen[c].latency

\* The group whose best row is better than any other group's by more than the margin.
Bound(c) ==
  {g \in Pools :
     \E row \in probe.rows :
       /\ Matches(c, row) /\ row.group = g
       /\ \A rival \in probe.rows :
            Matches(c, rival) /\ rival.group # g => Distance(c, row) + Margin < Distance(c, rival)}

GroupsOf(c) ==
  IF Bound(c) # {} THEN Bound(c)
  ELSE IF probe.named THEN {Named[c]} \ {NoGroup} ELSE {}

\* Mutant: whatever the channels' state.
GroupsOfAll(channels) == UNION {GroupsOf(c) : c \in channels}

\* The groups that the sweep is given, of the channels among those.
FailingGroups(channels) ==
  UNION {GroupsOf(c) : c \in {d \in channels : probe.seen[d].failing}}

-----------------------------------------------------------------------------
(* The probe *)

NoStates == [c \in Channels |-> [enabled |-> FALSE, failing |-> FALSE, checked |-> 0,
                                 timed |-> FALSE, latency |-> 0]]
NoProbe == [at |-> "idle", seen |-> NoStates, todo |-> {}, page |-> 1, rows |-> {},
            named |-> TRUE, start |-> {}]
Probes == [at : {"idle", "reading"}, seen : [Channels -> States], todo : SUBSET Models,
           page : Nat \ {0}, rows : SUBSET UsageRows, named : BOOLEAN, start : SUBSET UsageRows]

Probed == probe.at = "reading" /\ probe.todo = {}

\* The channels that are enabled and checked say how far back the log is read.
Checked(m) == {c \in Channels : /\ Model[c] = m /\ probe.seen[c].enabled
                               /\ probe.seen[c].checked # 0}

\* Rows from a second before the oldest check on.
Recent(m, stamp) == \E c \in Checked(m) : probe.seen[c].checked <= stamp + Second

ProbeInit == probe = NoProbe /\ usage = {}

\* What the server says of the channels; start: history, the log at that moment.
Begin(w) ==
  /\ probe.at = "idle"
  /\ usage' = w.log
  /\ probe' = [NoProbe EXCEPT
       !.at = "reading", !.seen = w.channels, !.start = w.log,
       !.todo = {Model[c] : c \in {d \in Channels : /\ w.channels[d].enabled
                                                    /\ w.channels[d].checked # 0}}]

OfModel(m) == {row \in usage : row.model = m}
Newer(row) == {other \in OfModel(row.model) : other.stamp > row.stamp}
PageOfUsage(m, n) ==
  {row \in OfModel(m) : /\ UsagePage * (n - 1) <= Cardinality(Newer(row))
                        /\ Cardinality(Newer(row)) < UsagePage * n}

\* Mutant: the names will do.
UnavailableNamed ==
  /\ probe' = [probe EXCEPT !.todo = {}, !.page = 1, !.rows = {}]
  /\ usage' = {}

\* The evidence is not to be had: nothing is bound, nor do the names count.
Unavailable ==
  /\ probe' = [probe EXCEPT !.todo = {}, !.page = 1, !.rows = {}, !.named = FALSE]
  /\ usage' = {}

Current == CHOOSE m \in probe.todo : TRUE

\* One page of a model's log: rows read before are skipped, a row newer than one that was is an
\* error; a row before the cutoff, or the log's end, is the end.
ReadUsagePage ==
  LET m == Current
      new == PageOfUsage(m, probe.page) \ probe.rows
      recent == {row \in new : Recent(m, row.stamp)}
      disorder == \E row \in new, read \in probe.rows : read.model = m /\ row.stamp > read.stamp
      ended == recent # new \/ Cardinality(OfModel(m)) <= UsagePage * probe.page
  IN /\ probe.at = "reading" /\ probe.todo # {}
     /\ \/ /\ ~disorder /\ ended
           /\ probe' = [probe EXCEPT !.todo = @ \ {m}, !.page = 1, !.rows = @ \union recent]
           /\ usage' = IF probe.todo = {m} THEN {} ELSE usage
        \/ /\ ~disorder /\ ~ended /\ probe.page < MaxUsagePages
           /\ probe' = [probe EXCEPT !.page = @ + 1, !.rows = @ \union recent]
           /\ UNCHANGED usage
        \/ disorder /\ Unavailable
        \/ ~ended /\ probe.page = MaxUsagePages /\ Unavailable

\* A request for a page fails, or the server answers it with something else.
UsageFails == probe.at = "reading" /\ probe.todo # {} /\ Unavailable

\* The server writes a row: of a new request, or late, of an old one.
Arrives(row) ==
  /\ probe.at = "reading" /\ probe.todo # {}
  /\ row \notin usage
  /\ usage' = usage \union {row}
  /\ UNCHANGED probe

\* The result is used.
Taken == Probed /\ probe' = NoProbe /\ usage' = {}

Probing ==
  \/ \E w \in Worlds : Begin(w)
  \/ ReadUsagePage \/ UsageFails
  \/ \E row \in Later : Arrives(row)

ProbeNext == Probing \/ Taken

ProbeSpec == ProbeInit /\ [][ProbeNext]_probeVars

-----------------------------------------------------------------------------
(* Properties *)

\* The row of a channel's own check: as long as the check took, but for the margin.
OwnRow(c, row) == Matches(c, row) /\ row.group = Own[c] /\ Distance(c, row) <= Margin

\* The log cannot tell: it had no row of the channel's check when the probe began.
NoEvidence(c) ==
  ~(probe.seen[c].enabled /\ \E row \in probe.start : OwnRow(c, row))

\* Another group's row looks as much like the check, and the display name decides.
ByName(c, g) ==
  /\ g = Named[c] /\ probe.named
  /\ \E rival \in probe.rows : /\ Matches(c, rival) /\ rival.group # Own[c]
                               /\ Distance(c, rival) <= 2 * Margin

\* An enabled channel whose row was in the log when the probe began is attributed to its own
\* group or to none, whatever is written to the log while it is read, and whether or not it can
\* be read to the end (monitor.py: "can attach a channel to the wrong account pool").  Only
\* where another group's row resembles the check as much does its display name decide.
OwnGroup ==
  Probed => \A c \in Channels : \A g \in GroupsOf(c) : g = Own[c] \/ NoEvidence(c) \/ ByName(c, g)

=============================================================================

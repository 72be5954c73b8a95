--------------------------- MODULE MaintenanceCycle ---------------------------
(***************************************************************************)
(* A maintenance job as the control worker runs it: the sweep of           *)
(* ChannelSweep is given the groups that a probe of ChannelProbe found to  *)
(* be those of failing channels, without the channels whose check has      *)
(* become too old by then.  A pass that finds the last probe's result      *)
(* still fresh is one that follows a probe with the same result.           *)
(***************************************************************************)
EXTENDS ChannelSweep, ChannelProbe

CycleInit == Init /\ ProbeInit

\* A probe runs before the pass, never beside it: there is one control worker.
ProbeStep == Probing /\ sweep.at = "idle" /\ UNCHANGED vars

\* The pass, and whatever happens beside it.  It begins with a probe's result.
Begins == sweep.at = "idle" /\ sweep'.at = "tests"
SweepStep ==
  /\ Next
  /\ IF Begins
     THEN /\ Taken
          /\ \E fresh \in SUBSET Channels : sweep'.failing = FailingGroups(fresh) \intersect Groups
     ELSE UNCHANGED probeVars

CycleSpec == CycleInit /\ [][ProbeStep \/ SweepStep]_<<vars, probeVars>>

-----------------------------------------------------------------------------
(* Properties *)

\* A pass begins with groups of channels that the probe saw failing, and each is the channel's
\* own, but for what the evidence cannot tell (maintenance.py: failing_groups of the probe's
\* channels).  A group that serves no failing channel is not swept; accounts it shares with
\* one that does may be.
FailingChannelsSwept ==
  [][Begins => \A g \in sweep'.failing :
       \E c \in Channels : /\ probe.seen[c].failing /\ g \in GroupsOf(c)
                           /\ g = Own[c] \/ NoEvidence(c) \/ ByName(c, g)]_<<vars, probeVars>>

=============================================================================

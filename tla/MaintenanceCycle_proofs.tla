------------------------- MODULE MaintenanceCycle_proofs -------------------------
(* Proofs about the probe, which attributes a channel whose row is in the log to its own group, *)
(* and about a maintenance job as a whole: it is a pass of ChannelSweep and a probe of          *)
(* ChannelProbe, so that what was proved of each holds of it, and a pass is given the groups of *)
(* failing channels.                                                                            *)
EXTENDS MaintenanceCycle, ChannelSweep_proofs

-----------------------------------------------------------------------------
(* The probe *)

(* The inductive invariant.  ProbeTyped: the variables' types.  Given: where the log could not be    *)
(* read, nothing of it is kept.  Found: a channel's row that was in the log at the start has    *)
(* been read, or lies ahead: on no earlier page than the one that is read next, however many    *)
(* rows are written meanwhile.                                                                  *)
ProbeTyped == probe \in Probes /\ usage \subseteq UsageRows /\ IsFiniteSet(usage)
Given == ~probe.named => probe.rows = {} /\ probe.todo = {}

\* A channel and its row that was in the log when the probe began.
HasRow(c, row) ==
  /\ probe.at = "reading" /\ probe.seen[c].enabled
  /\ row \in probe.start /\ OwnRow(c, row)
LiesAhead(c, row) ==
  /\ Model[c] \in probe.todo /\ row \in usage
  /\ Model[c] = Current => UsagePage * (probe.page - 1) <= Cardinality(Newer(row))
Found ==
  \A c \in Channels, row \in UsageRows :
    HasRow(c, row) => ~probe.named \/ row \in probe.rows \/ LiesAhead(c, row)

ProbeInv == ProbeTyped /\ Given /\ Found

LEMMA NoProbeTyped == NoProbe \in Probes
BY ProbeAssumption DEF NoProbe, NoStates, Probes, States

\* A probe with other local variables.
LEMMA Retyped ==
  ASSUME probe \in Probes, NEW todo \in SUBSET Models, NEW page \in Nat \ {0},
         NEW rows \in SUBSET UsageRows
  PROVE  /\ [probe EXCEPT !.todo = todo, !.page = page, !.rows = rows, !.named = FALSE] \in Probes
         /\ [probe EXCEPT !.todo = todo, !.page = page, !.rows = rows] \in Probes
         /\ [probe EXCEPT !.page = page, !.rows = rows] \in Probes
BY DEF Probes

LEMMA ProbeTypedNext == ProbeTyped /\ [ProbeNext]_probeVars => ProbeTyped'
<1> SUFFICES ASSUME ProbeTyped, [ProbeNext]_probeVars PROVE ProbeTyped'
  OBVIOUS
<1>1. ASSUME NEW w \in Worlds, Begin(w) PROVE ProbeTyped'
  <2>1. /\ w.channels \in [Channels -> States] /\ w.log \subseteq UsageRows /\ IsFiniteSet(w.log)
    BY WorldsAssumption
  <2>2. {Model[c] : c \in {d \in Channels : /\ w.channels[d].enabled
                                            /\ w.channels[d].checked # 0}} \in SUBSET Models
    BY ProbeAssumption
  <2>3. probe' \in Probes
    BY <1>1, <2>1, <2>2, NoProbeTyped DEF Begin, NoProbe, Probes
  <2> QED BY <1>1, <2>1, <2>3 DEF ProbeTyped, Begin
<1>2. ASSUME Unavailable PROVE ProbeTyped'
  <2>1. {} \in SUBSET Models /\ 1 \in Nat \ {0} /\ {} \in SUBSET UsageRows /\ probe \in Probes
    BY DEF ProbeTyped
  <2>2. [probe EXCEPT !.todo = {}, !.page = 1, !.rows = {}, !.named = FALSE] \in Probes
    BY <2>1, Retyped
  <2>3. probe' \in Probes
    BY <1>2, <2>2 DEF Unavailable
  <2> QED BY <1>2, <2>3, FS_EmptySet DEF ProbeTyped, Unavailable
<1>3. CASE ReadUsagePage
  <2> DEFINE recent == {row \in PageOfUsage(Current, probe.page) \ probe.rows :
                          Recent(Current, row.stamp)}
  <2>1. recent \subseteq UsageRows
    BY DEF ProbeTyped, PageOfUsage, OfModel
  <2>2. CASE Unavailable
    BY <1>2, <2>2
  <2>3. CASE /\ probe' = [probe EXCEPT !.todo = @ \ {Current}, !.page = 1, !.rows = @ \union recent]
             /\ usage' = IF probe.todo = {Current} THEN {} ELSE usage
    <3> HIDE DEF recent
    <3>1. probe.todo \ {Current} \in SUBSET Models /\ probe.rows \union recent \in SUBSET UsageRows
      BY <2>1 DEF ProbeTyped, Probes
    <3>2. [probe EXCEPT !.todo = probe.todo \ {Current}, !.page = 1,
                        !.rows = probe.rows \union recent] \in Probes
      <4>1. 1 \in Nat \ {0} /\ probe \in Probes
        BY DEF ProbeTyped
      <4> QED BY <3>1, <4>1, Retyped
    <3>3. probe' \in Probes
      BY <2>3, <3>2
    <3> QED BY <2>3, <3>3, FS_EmptySet DEF ProbeTyped
  <2>4. CASE probe' = [probe EXCEPT !.page = @ + 1, !.rows = @ \union recent] /\ UNCHANGED usage
    <3> HIDE DEF recent
    <3>1. probe.page + 1 \in Nat \ {0} /\ probe.rows \union recent \in SUBSET UsageRows
      BY <2>1 DEF ProbeTyped, Probes
    <3>2. probe' \in Probes
      BY <2>4, <3>1, Retyped DEF ProbeTyped
    <3> QED BY <2>4, <3>2 DEF ProbeTyped
  <2> QED BY <1>3, <2>2, <2>3, <2>4 DEF ReadUsagePage
<1>4. CASE UsageFails
  BY <1>2, <1>4 DEF UsageFails
<1>5. ASSUME NEW row \in Later, Arrives(row) PROVE ProbeTyped'
  <2>1. IsFiniteSet(usage')
    BY <1>5, FS_AddElement DEF Arrives, ProbeTyped
  <2> QED BY <1>5, <2>1, WorldsAssumption DEF ProbeTyped, Arrives
<1>6. CASE Taken
  BY <1>6, NoProbeTyped, FS_EmptySet DEF Taken, ProbeTyped
<1>7. CASE UNCHANGED probeVars
  BY <1>7 DEF ProbeTyped, probeVars
<1> QED BY <1>1, <1>3, <1>4, <1>5, <1>6, <1>7 DEF ProbeNext, Probing

LEMMA GivenNext == ProbeTyped /\ Given /\ [ProbeNext]_probeVars => Given'
<1> SUFFICES ASSUME ProbeTyped, Given, [ProbeNext]_probeVars PROVE Given'
  OBVIOUS
<1>1. CASE \E w \in Worlds : Begin(w)
  BY <1>1 DEF Begin, Given, NoProbe
<1>2. ASSUME Unavailable PROVE Given'
  BY <1>2 DEF ProbeTyped, Unavailable, Given, Probes
<1>3. CASE ReadUsagePage
  <2>1. Unavailable \/ (probe.todo # {} /\ probe'.named = probe.named)
    BY <1>3 DEF ReadUsagePage, ProbeTyped, Probes
  <2> QED BY <1>2, <2>1 DEF Given
<1>4. CASE UsageFails
  BY <1>2, <1>4 DEF UsageFails
<1>5. CASE (\E row \in Later : Arrives(row)) \/ UNCHANGED probeVars
  BY <1>5 DEF Arrives, Given, probeVars
<1>6. CASE Taken
  BY <1>6 DEF Taken, Given, NoProbe
<1> QED BY <1>1, <1>3, <1>4, <1>5, <1>6 DEF ProbeNext, Probing

\* A step in the middle of a probe leaves the channels and their rows what they are.
LEMMA SameRow ==
  ASSUME NEW c \in Channels, NEW row \in UsageRows,
         probe'.at = probe.at, probe'.seen = probe.seen, probe'.start = probe.start
  PROVE  HasRow(c, row)' <=> HasRow(c, row)
BY DEF HasRow, OwnRow, Matches, Distance, Difference

\* How many rows are newer than one is known, and no fewer when rows are added.
LEMMA NewerGrows ==
  ASSUME ProbeTyped, NEW row \in UsageRows
  PROVE  /\ IsFiniteSet(Newer(row)) /\ Cardinality(Newer(row)) \in Nat
         /\ \A S \in SUBSET Newer(row) : Cardinality(S) <= Cardinality(Newer(row))
<1>1. Newer(row) \subseteq usage
  BY DEF Newer, OfModel
<1> QED BY <1>1, FS_Subset, FS_CardinalityType DEF ProbeTyped

\* The page that is read either holds a channel's row, or ends before it.
LEMMA UsagePageHoldsOrPrecedes ==
  ASSUME ProbeTyped, NEW c \in Channels, NEW row \in UsageRows, HasRow(c, row), row \notin probe.rows,
         LiesAhead(c, row), Model[c] = Current
  PROVE  LET new == PageOfUsage(Current, probe.page) \ probe.rows
             recent == {r \in new : Recent(Current, r.stamp)}
         IN /\ row \in recent \/ UsagePage * probe.page <= Cardinality(Newer(row))
            /\ recent # new \/ Cardinality(OfModel(Current)) <= UsagePage * probe.page
                 => row \in recent
<1> DEFINE new == PageOfUsage(Current, probe.page) \ probe.rows
           recent == {r \in new : Recent(Current, r.stamp)}
<1>1. /\ row.model = Current /\ row \in OfModel(Current) /\ row.stamp \in Nat
      /\ probe.seen[c].checked \in Nat /\ probe.seen[c].checked # 0 /\ probe.seen[c].enabled
      /\ probe.seen[c].checked <= row.stamp
  BY DEF HasRow, LiesAhead, OwnRow, Matches, OfModel, ProbeTyped, Probes, States, UsageRows
<1>2. Recent(Current, row.stamp)
  BY <1>1, ProbeAssumption DEF Recent, Checked
<1>3. UsagePage \in Nat /\ probe.page \in Nat /\ Cardinality(Newer(row)) \in Nat
  BY NewerGrows, ProbeAssumption DEF ProbeTyped, Probes
<1>4. Cardinality(Newer(row)) < UsagePage * probe.page => row \in recent
  BY <1>1, <1>2 DEF LiesAhead, PageOfUsage
<1>5. ASSUME recent # new PROVE Cardinality(Newer(row)) < UsagePage * probe.page
  <2>1. PICK r \in new : ~Recent(Current, r.stamp)
    BY <1>5
  <2>2. r \in UsageRows /\ r \in OfModel(Current) /\ Cardinality(Newer(r)) < UsagePage * probe.page
    BY DEF PageOfUsage, OfModel, ProbeTyped
  <2>3. r.stamp \in Nat /\ r.model = Current
    BY <2>2 DEF UsageRows, OfModel
  <2>4. r.stamp < row.stamp
    BY <1>1, <2>1, <2>3, ProbeAssumption DEF Recent, Checked
  <2>5. Newer(row) \subseteq Newer(r)
    BY <1>1, <2>3, <2>4 DEF Newer, OfModel, ProbeTyped, UsageRows
  <2>6. Cardinality(Newer(row)) <= Cardinality(Newer(r)) /\ Cardinality(Newer(r)) \in Nat
    BY <2>2, <2>5, NewerGrows
  <2> QED BY <1>3, <2>2, <2>6
<1>6. ASSUME Cardinality(OfModel(Current)) <= UsagePage * probe.page
      PROVE  Cardinality(Newer(row)) < UsagePage * probe.page
  <2>1. IsFiniteSet(OfModel(Current))
    <3>1. OfModel(Current) \subseteq usage
      BY DEF OfModel
    <3> QED BY <3>1, FS_Subset DEF ProbeTyped
  <2>2. Newer(row) \subseteq OfModel(Current) /\ Newer(row) # OfModel(Current)
    BY <1>1 DEF Newer
  <2>3. Cardinality(Newer(row)) < Cardinality(OfModel(Current))
    BY <2>1, <2>2, FS_Subset, FS_CardinalityType
  <2>4. Cardinality(OfModel(Current)) \in Nat
    BY <2>1, FS_CardinalityType
  <2> QED BY <1>3, <1>6, <2>3, <2>4
<1> QED BY <1>3, <1>4, <1>5, <1>6

\* THEOREM OwnGroupCorrect's step: no page that is read loses a channel's row.
LEMMA FoundNext == ProbeInv /\ [ProbeNext]_probeVars => Found'
<1> SUFFICES ASSUME ProbeInv, [ProbeNext]_probeVars,
                    NEW c \in Channels, NEW row \in UsageRows, HasRow(c, row)'
             PROVE  (~probe.named \/ row \in probe.rows \/ LiesAhead(c, row))'
  BY DEF Found
<1> USE DEF ProbeInv
<1>1. ASSUME NEW w \in Worlds, Begin(w) PROVE LiesAhead(c, row)'
  <2>1. /\ probe'.seen = w.channels /\ probe'.start = w.log /\ probe'.page = 1 /\ usage' = w.log
        /\ probe'.todo = {Model[d] : d \in {e \in Channels : /\ w.channels[e].enabled
                                                             /\ w.channels[e].checked # 0}}
    BY <1>1 DEF Begin, NoProbe
  <2>2. row \in usage' /\ Model[c] \in probe'.todo
    BY <2>1 DEF HasRow, OwnRow, Matches
  <2>3. ProbeTyped'
    BY ProbeTypedNext
  <2>4. Cardinality(Newer(row))' \in Nat
    <3>1. Newer(row)' \subseteq usage'
      BY DEF Newer, OfModel
    <3> QED BY <2>3, <3>1, FS_Subset, FS_CardinalityType DEF ProbeTyped
  <2> QED BY <2>1, <2>2, <2>4, ProbeAssumption DEF LiesAhead
<1>2. ASSUME Unavailable PROVE ~probe'.named
  BY <1>2 DEF Unavailable, ProbeTyped, Probes
<1>3. CASE ReadUsagePage
  <2> DEFINE new == PageOfUsage(Current, probe.page) \ probe.rows
             recent == {r \in new : Recent(Current, r.stamp)}
  <2>1. CASE Unavailable
    BY <1>2, <2>1
  <2>2. CASE /\ recent # new \/ Cardinality(OfModel(Current)) <= UsagePage * probe.page
             /\ probe' = [probe EXCEPT !.todo = @ \ {Current}, !.page = 1, !.rows = @ \union recent]
             /\ usage' = IF probe.todo = {Current} THEN {} ELSE usage
    <3> HIDE DEF recent, new
    <3>1. /\ probe'.at = probe.at /\ probe'.seen = probe.seen /\ probe'.start = probe.start
          /\ probe'.named = probe.named /\ probe'.rows = probe.rows \union recent
          /\ probe'.todo = probe.todo \ {Current} /\ probe'.page = 1
      BY <2>2 DEF ProbeTyped, Probes
    <3>2. ~probe.named \/ row \in probe.rows \/ LiesAhead(c, row)
      BY <3>1, SameRow DEF Found
    <3>3. CASE LiesAhead(c, row) /\ row \notin probe.rows /\ Model[c] = Current
      <4>1. row \in recent
        BY <2>2, <3>1, <3>3, SameRow, UsagePageHoldsOrPrecedes DEF recent, new
      <4> QED BY <3>1, <4>1
    <3>4. CASE LiesAhead(c, row) /\ Model[c] # Current
      <4>1. usage' = usage /\ Newer(row)' = Newer(row)
        BY <2>2, <3>4 DEF LiesAhead, Newer, OfModel
      <4>2. Cardinality(Newer(row)) \in Nat
        BY NewerGrows
      <4> QED BY <3>1, <3>4, <4>1, <4>2, ProbeAssumption DEF LiesAhead
    <3> QED BY <3>1, <3>2, <3>3, <3>4
  <2>3. CASE probe' = [probe EXCEPT !.page = @ + 1, !.rows = @ \union recent] /\ UNCHANGED usage
    <3> HIDE DEF recent, new
    <3>1. /\ probe'.at = probe.at /\ probe'.seen = probe.seen /\ probe'.start = probe.start
          /\ probe'.named = probe.named /\ probe'.rows = probe.rows \union recent
          /\ probe'.todo = probe.todo /\ probe'.page = probe.page + 1 /\ probe.page \in Nat
      BY <2>3 DEF ProbeTyped, Probes
    <3>2. ~probe.named \/ row \in probe.rows \/ LiesAhead(c, row)
      BY <3>1, SameRow DEF Found
    <3>3. Current' = Current /\ Newer(row)' = Newer(row)
      BY <2>3, <3>1 DEF Current, Newer, OfModel
    <3>4. CASE LiesAhead(c, row) /\ row \notin probe.rows /\ Model[c] = Current
      <4>1. row \in recent \/ UsagePage * probe.page <= Cardinality(Newer(row))
        BY <3>1, <3>4, SameRow, UsagePageHoldsOrPrecedes DEF recent, new
      <4>2. probe'.page - 1 = probe.page
        BY <3>1
      <4> QED BY <2>3, <3>1, <3>3, <3>4, <4>1, <4>2 DEF LiesAhead
    <3>5. CASE LiesAhead(c, row) /\ Model[c] # Current
      BY <2>3, <3>1, <3>3, <3>5 DEF LiesAhead
    <3> QED BY <3>1, <3>2, <3>4, <3>5
  <2> QED BY <1>3, <2>1, <2>2, <2>3 DEF ReadUsagePage
<1>4. CASE UsageFails
  BY <1>2, <1>4 DEF UsageFails
<1>5. ASSUME NEW other \in Later, Arrives(other)
      PROVE  ~probe'.named \/ row \in probe'.rows \/ LiesAhead(c, row)'
  <2>1. probe' = probe /\ usage' = usage \union {other}
    BY <1>5 DEF Arrives
  <2>2. ~probe.named \/ row \in probe.rows \/ LiesAhead(c, row)
    BY <2>1, SameRow DEF Found
  <2>3. Newer(row) \subseteq Newer(row)' /\ Newer(row)' \subseteq usage'
    BY <2>1 DEF Newer, OfModel
  <2>4. ProbeTyped'
    BY ProbeTypedNext
  <2>5. /\ Cardinality(Newer(row)) <= Cardinality(Newer(row)')
        /\ Cardinality(Newer(row)) \in Nat /\ Cardinality(Newer(row)') \in Nat
    BY <2>3, <2>4, NewerGrows, FS_Subset, FS_CardinalityType DEF ProbeTyped
  <2>6. UsagePage * (probe.page - 1) \in Int
    BY ProbeAssumption DEF ProbeTyped, Probes
  <2> QED BY <2>1, <2>2, <2>5, <2>6 DEF LiesAhead, Current
<1>6. CASE Taken
  BY <1>6 DEF Taken, HasRow, NoProbe
<1>7. CASE UNCHANGED probeVars
  <2>1. probe' = probe /\ usage' = usage
    BY <1>7 DEF probeVars
  <2>2. ~probe.named \/ row \in probe.rows \/ LiesAhead(c, row)
    BY <2>1, SameRow DEF Found
  <2> QED BY <2>1, <2>2 DEF LiesAhead, Current, Newer, OfModel
<1> QED BY <1>1, <1>3, <1>4, <1>5, <1>6, <1>7 DEF ProbeNext, Probing

\* The invariant holds for every log, and whatever is written to it.
THEOREM ProbeInvariantHolds == ProbeSpec => []ProbeInv
<1>1. ProbeInit => ProbeInv
  BY NoProbeTyped, FS_EmptySet
     DEF ProbeInit, ProbeInv, ProbeTyped, Given, Found, HasRow, NoProbe
<1>2. ProbeInv /\ [ProbeNext]_probeVars => ProbeInv'
  BY ProbeTypedNext, GivenNext, FoundNext DEF ProbeInv
<1> QED BY <1>1, <1>2, PTL DEF ProbeSpec

\* A channel whose row is in the log is attributed to its own group, to none, or, where another
\* group's row is as near, by its name (resolve_channel_group_ids, build_channel_probes).
THEOREM OwnGroupCorrect == ProbeSpec => []OwnGroup
<1>1. ProbeInv => OwnGroup
  <2> SUFFICES ASSUME ProbeInv, Probed, NEW c \in Channels, probe.seen[c].enabled,
                      NEW row \in probe.start, OwnRow(c, row), NEW g \in GroupsOf(c), g # Own[c]
               PROVE  ByName(c, g)
    BY DEF OwnGroup, NoEvidence
  <2>0. row \in UsageRows /\ HasRow(c, row)
    BY DEF ProbeInv, ProbeTyped, Probes, Probed, HasRow
  <2>1. ~probe.named \/ row \in probe.rows
    BY <2>0 DEF ProbeInv, Found, LiesAhead, Probed
  <2>2. probe.named /\ row \in probe.rows
    <3>1. CASE ~probe.named
      <4>1. probe.rows = {}
        BY <3>1 DEF ProbeInv, Given
      <4> QED BY <3>1, <4>1 DEF GroupsOf, Bound
    <3> QED BY <2>1, <3>1
  <2>3. /\ Matches(c, row) /\ row.group = Own[c] /\ Own[c] \in Pools /\ Distance(c, row) <= Margin
    BY ProbeAssumption DEF OwnRow
  <2>4. Margin \in Nat /\ \A r \in probe.rows : Distance(c, r) \in Nat
    BY ProbeAssumption
       DEF Margin, Distance, Difference, ProbeInv, ProbeTyped, Probes, States, UsageRows
  <2>5. g \notin Bound(c)
    <3>1. ASSUME NEW best \in probe.rows,
                 \A rival \in probe.rows :
                   Matches(c, rival) /\ rival.group # g
                     => Distance(c, best) + Margin < Distance(c, rival)
          PROVE  FALSE
      <4>1. Distance(c, best) + Margin < Distance(c, row)
        BY <2>2, <2>3, <3>1
      <4> QED BY <2>2, <2>3, <2>4, <4>1
    <3> QED BY <3>1 DEF Bound
  <2>6. Bound(c) = {} /\ g = Named[c]
    BY <2>2, <2>5 DEF GroupsOf
  <2>7. PICK rival \in probe.rows :
          /\ Matches(c, rival) /\ rival.group # Own[c]
          /\ ~(Distance(c, row) + Margin < Distance(c, rival))
    BY <2>2, <2>3, <2>6 DEF Bound
  <2>8. Distance(c, rival) <= 2 * Margin
    BY <2>2, <2>3, <2>4, <2>7
  <2> QED BY <2>2, <2>6, <2>7, <2>8 DEF ByName
<1> QED BY <1>1, ProbeInvariantHolds, PTL

-----------------------------------------------------------------------------
(* The maintenance job *)

CycleNext == ProbeStep \/ SweepStep
cycleVars == <<vars, probeVars>>

\* A step of the job is one of the pass and one of the probe, of which one or the other stutters.
LEMMA StepOfBoth == [CycleNext]_cycleVars => [Next]_vars /\ [ProbeNext]_probeVars
<1> SUFFICES ASSUME [CycleNext]_cycleVars PROVE [Next]_vars /\ [ProbeNext]_probeVars
  OBVIOUS
<1>1. CASE ProbeStep
  BY <1>1 DEF ProbeStep, ProbeNext
<1>2. CASE SweepStep
  BY <1>2 DEF SweepStep, ProbeNext
<1>3. CASE UNCHANGED cycleVars
  BY <1>3 DEF cycleVars
<1> QED BY <1>1, <1>2, <1>3 DEF CycleNext

\* A maintenance job implements the pass and the probe it consists of (run_maintenance).
THEOREM CycleImplementsBoth == CycleSpec => Spec /\ ProbeSpec
<1>1. CycleInit => Init /\ ProbeInit
  BY DEF CycleInit
<1>2. CycleSpec => CycleInit /\ [][CycleNext]_cycleVars
  BY DEF CycleSpec, CycleNext, cycleVars
<1> QED BY <1>1, <1>2, StepOfBoth, PTL DEF Spec, ProbeSpec

\* What was proved of the sweep and of the probe holds while both run in one job.
THEOREM CycleCorrect ==
  CycleSpec => [](TypeOK /\ PoolKept /\ OthersRespected /\ SlowCounted /\ OwnGroup)
BY CycleImplementsBoth, TypeCorrect, PoolKeptCorrect, OthersRespectedCorrect, SlowCountedCorrect,
   OwnGroupCorrect, PTL

\* A pass begins with groups of failing channels, and each is the channel's own wherever the log
\* can tell (MaintenanceCoordinator.run, fetch_probe_with_accounts).
THEOREM FailingChannelsSweptCorrect == CycleSpec => FailingChannelsSwept
<1>1. ASSUME OwnGroup, [CycleNext]_cycleVars, Begins, NEW g \in sweep'.failing
      PROVE  \E c \in Channels : /\ probe.seen[c].failing /\ g \in GroupsOf(c)
                                 /\ g = Own[c] \/ NoEvidence(c) \/ ByName(c, g)
  <2>1. SweepStep
    BY <1>1 DEF CycleNext, ProbeStep, Begins, cycleVars, vars
  <2>2. PICK fresh \in SUBSET Channels : sweep'.failing = FailingGroups(fresh) \intersect Groups
    BY <1>1, <2>1 DEF SweepStep
  <2>3. Probed
    BY <1>1, <2>1 DEF SweepStep, Taken
  <2>4. PICK c \in fresh : probe.seen[c].failing /\ g \in GroupsOf(c)
    BY <1>1, <2>2 DEF FailingGroups
  <2> QED BY <1>1, <2>3, <2>4 DEF OwnGroup
<1>2. OwnGroup /\ [CycleNext]_cycleVars =>
        (Begins => \A g \in sweep'.failing :
           \E c \in Channels : /\ probe.seen[c].failing /\ g \in GroupsOf(c)
                               /\ g = Own[c] \/ NoEvidence(c) \/ ByName(c, g))
  BY <1>1
<1>3. CycleSpec => []OwnGroup
  BY CycleCorrect, PTL
<1>4. CycleSpec => [][CycleNext]_cycleVars
  BY DEF CycleSpec, CycleNext, cycleVars
<1> QED BY <1>2, <1>3, <1>4, PTL DEF FailingChannelsSwept, cycleVars
=============================================================================

--------------------------- MODULE GuardianChannel ---------------------------
(***************************************************************************)
(* What Guardian makes of one channel in one cycle: the decision of        *)
(* decide_channel_state, the scope above it, the counters of a fuse beneath*)
(* it and an operator's command.  A channel's row and a reading are        *)
(* records; a reading is what the snapshot, the evidence and the policy say*)
(* of the channel, cut down to the comparisons the code makes with them.   *)
(***************************************************************************)
EXTENDS Naturals

CONSTANTS
  SuccessCount,        \* recovery.success_count
  MaxSwitch,           \* breaker.max_switch_per_round
  BreakerEnabled, RecoveryEnabled, LatencyDegradeOnly

ASSUME SuccessCountAssumption == SuccessCount \in Nat \ {0}
ASSUME MaxSwitchAssumption == MaxSwitch \in Nat \ {0}
ASSUME SwitchesAssumption ==
  BreakerEnabled \in BOOLEAN /\ RecoveryEnabled \in BOOLEAN /\ LatencyDegradeOnly \in BOOLEAN

Healths == {"PENDING", "WARMING_UP", "STALE", "HEALTHY", "DEGRADED", "FUSED",
            "FORCED_KEEP", "MANUALLY_PAUSED", "EXCLUDED", "UPSTREAM_DISABLED"}
Controls == {"NONE", "PAUSED", "EXCLUDED", "FUSED"}
\* UPSTREAM_UNKNOWN is treated as PROBE_FAIL is.  FATAL, QUOTA_EXHAUSTED and GATEWAY_ERROR
\* are of sources that write no evidence yet.
Events == {"PERFECT", "SLOW_TTFB", "PROBE_FAIL"}

\* Bound: a streak is only compared with success_count, so it is counted up to it.
Streaks == 0..SuccessCount

\* A row of guardian_channels (up is upstream_schedulable) and, of its details_json,
\* success_streak, healthy_since and fused_until (of these two, whether they are set).
Rows == [known : BOOLEAN, up : BOOLEAN, health : Healths, manual : Controls,
         desired : BOOLEAN, streak : Streaks, since : BOOLEAN, cooldown : BOOLEAN]

\* No row yet.  The engine takes one for PENDING and NONE.
Unknown == [known |-> FALSE, up |-> FALSE, health |-> "PENDING", manual |-> "NONE", desired |-> FALSE,
            streak |-> 0, since |-> FALSE, cooldown |-> FALSE]

AllReadings ==
  [event : Events,           \* of the snapshot's entry
   latest : Events,          \* recent_events[:1]
   leading : Streaks,        \* PERFECT events at the head of recent_events
   scope : {"managed", "excluded", "paused"},
   schedulable : BOOLEAN,    \* upstream_schedulable
   spare : BOOLEAN,          \* the group has more accounts than min_pool_size
   warming : BOOLEAN, fresh : BOOLEAN,
   failing : BOOLEAN,        \* http_window, http_score_below and fuse_min
   lagging : BOOLEAN,        \* latency_window and degrade_min
   poor : BOOLEAN,           \* score_threshold and degrade_min
   sure : BOOLEAN,           \* confidence >= degrade_min
   good : BOOLEAN,           \* target_score and recover_min
   cooling : BOOLEAN,        \* a fused_until that is set has not passed
   held : BOOLEAN]           \* a healthy_since that was set is hold_seconds ago

-----------------------------------------------------------------------------
Decision(health, desired) == [health |-> health, desired |-> desired]

FuseOrKeep(x) ==
  IF x.spare THEN Decision("FUSED", FALSE) ELSE Decision("FORCED_KEEP", TRUE)

ByHand(manual) ==
  Decision(CASE manual = "EXCLUDED" -> "EXCLUDED"
             [] manual = "PAUSED" -> "MANUALLY_PAUSED"
             [] manual = "FUSED" -> "FUSED", FALSE)

\* row is the row with the counters of this cycle; heldLong, whether healthy_since is
\* hold_seconds ago.  fuse_owner is in no row's details, so every fuse is Guardian's.
WhileFused(row, heldLong, x) ==
  IF row.cooldown /\ x.cooling THEN Decision("FUSED", FALSE)
  ELSE IF x.latest = "SLOW_TTFB" /\ x.spare THEN Decision("DEGRADED", TRUE)
  ELSE IF RecoveryEnabled /\ x.good /\ row.streak >= SuccessCount /\ heldLong
  THEN Decision("HEALTHY", TRUE)
  ELSE Decision("FUSED", FALSE)

ByThresholds(row, x) ==
  IF BreakerEnabled /\ x.failing THEN FuseOrKeep(x)
  ELSE IF BreakerEnabled /\ x.lagging
  THEN IF LatencyDegradeOnly THEN Decision("DEGRADED", TRUE) ELSE FuseOrKeep(x)
  ELSE IF x.poor THEN Decision("DEGRADED", TRUE)
  ELSE IF ~x.sure THEN Decision(row.health, x.schedulable)
  ELSE Decision("HEALTHY", TRUE)

\* Mutant: a channel without history is kept in service before anybody is asked.
DecideWarmupFirst(row, heldLong, x) ==
  IF x.schedulable /\ x.warming /\ x.latest # "PROBE_FAIL" THEN Decision("WARMING_UP", TRUE)
  ELSE IF row.manual # "NONE" THEN ByHand(row.manual)
  ELSE IF ~x.schedulable THEN Decision("UPSTREAM_DISABLED", FALSE)
  ELSE IF ~x.fresh THEN Decision("STALE", TRUE)
  ELSE IF row.health = "FUSED" THEN WhileFused(row, heldLong, x)
  ELSE ByThresholds(row, x)

\* decide_channel_state
Decide(row, heldLong, x) ==
  IF row.manual # "NONE" THEN ByHand(row.manual)
  ELSE IF ~x.schedulable THEN Decision("UPSTREAM_DISABLED", FALSE)
  ELSE IF x.warming /\ x.latest # "PROBE_FAIL" THEN Decision("WARMING_UP", TRUE)
  ELSE IF ~x.fresh THEN Decision("STALE", TRUE)
  ELSE IF row.health = "FUSED" THEN WhileFused(row, heldLong, x)
  ELSE ByThresholds(row, x)

\* _scope_decision comes first, before manual_control.
Decided(row, heldLong, x) ==
  CASE x.scope = "excluded" -> Decision("EXCLUDED", x.schedulable)
    [] x.scope = "paused" -> Decision("MANUALLY_PAUSED", FALSE)
    [] x.scope = "managed" -> Decide(row, heldLong, x)

-----------------------------------------------------------------------------
ShouldMonitor(row, x) == row.manual # "EXCLUDED" /\ x.scope # "excluded"

\* A good check of a fused channel.
Passes(row, x) == row.health = "FUSED" /\ x.event = "PERFECT" /\ ShouldMonitor(row, x)

\* Mutant: a failed check of a fused channel leaves its counters alone.
CountedWithoutReset(row, x) ==
  IF Passes(row, x)
  THEN [row EXCEPT !.streak = IF @ < SuccessCount THEN @ + 1 ELSE @, !.since = TRUE]
  ELSE IF row.health = "FUSED" THEN row
  ELSE [row EXCEPT !.streak = x.leading, !.since = FALSE, !.cooldown = FALSE]

\* The counters before the decision.
Counted(row, x) ==
  IF Passes(row, x)
  THEN [row EXCEPT !.streak = IF @ < SuccessCount THEN @ + 1 ELSE @, !.since = TRUE]
  ELSE IF row.health = "FUSED" THEN [row EXCEPT !.streak = 0, !.since = FALSE]
  ELSE [row EXCEPT !.streak = x.leading, !.since = FALSE, !.cooldown = FALSE]

\* An automatic fuse of a channel that was not fused, one of MaxSwitch in a round.
NewFuse(row, decision) ==
  decision.health = "FUSED" /\ row.health # "FUSED" /\ row.manual # "FUSED"

\* Mutant: one fuse more than max_switch_per_round.
EvaluatedOneMore(row, x, fuses) ==
  LET counted == Counted(row, x)
      decision == Decided(counted, row.since /\ counted.since /\ x.held, x)
      limited == NewFuse(row, decision) /\ fuses > MaxSwitch
      fused == decision.health = "FUSED" /\ ~limited
  IN [counted EXCEPT
        !.known = TRUE, !.up = x.schedulable,
        !.health = IF limited THEN "DEGRADED" ELSE decision.health,
        !.desired = decision.desired \/ limited,
        !.since = counted.since /\ fused,
        !.cooldown = fused /\ (counted.cooldown \/ NewFuse(row, decision))]

\* The row the cycle writes over the row it read, when it has fused that many others.
Evaluated(row, x, fuses) ==
  LET counted == Counted(row, x)
      decision == Decided(counted, row.since /\ counted.since /\ x.held, x)
      limited == NewFuse(row, decision) /\ fuses >= MaxSwitch
      fused == decision.health = "FUSED" /\ ~limited
  IN [counted EXCEPT
        !.known = TRUE, !.up = x.schedulable,
        !.health = IF limited THEN "DEGRADED" ELSE decision.health,
        !.desired = decision.desired \/ limited,
        !.since = counted.since /\ fused,
        !.cooldown = fused /\ (counted.cooldown \/ NewFuse(row, decision))]

\* set_manual_control.  The counters stay in the row's details.
Commanded(row, control) ==
  [row EXCEPT !.manual = control,
              !.health = IF control = "NONE" THEN "PENDING" ELSE ByHand(control).health,
              !.desired = control = "NONE" /\ row.up]
=============================================================================

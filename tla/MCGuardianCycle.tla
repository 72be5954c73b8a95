-------------------------- MODULE MCGuardianCycle --------------------------
(* Model-checking instance of GuardianCycle: a few readings that lead to   *)
(* every decision.                                                         *)
EXTENDS GuardianCycle, TLC

\* A fresh, good check.
Healthy == [event |-> "PERFECT", latest |-> "PERFECT", leading |-> 1, scope |-> "managed",
            schedulable |-> TRUE, spare |-> TRUE, warming |-> FALSE, fresh |-> TRUE,
            failing |-> FALSE, lagging |-> FALSE, poor |-> FALSE, sure |-> TRUE,
            good |-> TRUE, cooling |-> FALSE, held |-> TRUE]

Failed == [Healthy EXCEPT !.event = "PROBE_FAIL", !.latest = "PROBE_FAIL", !.leading = 0,
                          !.failing = TRUE, !.good = FALSE]

Symmetry == Permutations(Channels)

OneReading == {Healthy}

MCReadings ==
  {Healthy, Failed,
   [Healthy EXCEPT !.held = FALSE, !.cooling = TRUE],
   [Failed EXCEPT !.spare = FALSE],
   [Healthy EXCEPT !.warming = TRUE],
   [Healthy EXCEPT !.scope = "excluded"]}
=============================================================================

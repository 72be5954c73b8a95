-------------------------- MODULE MCMaintenanceCycle --------------------------
(* Instances of MaintenanceCycle for TLC. *)
EXTENDS MaintenanceCycle, MCChannelSweep

CONSTANTS c1, c2, c3, mA, mB

\* The first two channels share a model and are checked at the same time; their names are
\* those of each other's groups.
ModelOf == [c \in Channels |-> IF c = c3 THEN mB ELSE mA]
OwnOf == [c \in Channels |-> CASE c = c1 -> 11 [] c = c2 -> 12 [] c = c3 -> 13]
NamedOf == [c \in Channels |-> CASE c = c1 -> 12 [] c = c2 -> 11 [] c = c3 -> 13]

State(enabled, failing, checked, latency) ==
  [enabled |-> enabled, failing |-> failing, checked |-> checked, timed |-> TRUE,
   latency |-> latency]
Usage(stamp, model, group, isProbe, duration) ==
  [stamp |-> stamp, model |-> model, group |-> group, probe |-> isProbe, duration |-> duration]

OwnRows == {Usage(31, mA, 11, TRUE, 20), Usage(32, mA, 12, TRUE, 24), Usage(18, mB, 13, TRUE, 9)}
Traffic == {Usage(36, mA, 12, FALSE, 20), Usage(33, mA, NoGroup, TRUE, 20)}
Report(c1Latency, c2Checked, c3State) ==
  [c \in Channels |-> CASE c = c1 -> State(TRUE, TRUE, 30, c1Latency)
                        [] c = c2 -> State(TRUE, FALSE, c2Checked, 24)
                        [] c = c3 -> c3State]
\* The rows of all checks; two that can hardly be told apart; a failing channel that left no
\* row; a check long ago.
SomeWorlds ==
  {[channels |-> Report(20, 30, State(TRUE, TRUE, 17, 9)), log |-> OwnRows \union Traffic],
   [channels |-> Report(22, 30, State(FALSE, TRUE, 17, 9)), log |-> OwnRows],
   [channels |-> Report(20, 30, State(TRUE, FALSE, 0, 9)), log |-> OwnRows \ {Usage(31, mA, 11, TRUE, 20)}],
   [channels |-> Report(20, 10, State(FALSE, FALSE, 0, 9)),
    log |-> {Usage(11, mA, 12, TRUE, 24), Usage(31, mA, 11, TRUE, 20)} \union Traffic]}
SomeLater == {Usage(40, mA, 12, TRUE, 20), Usage(34, mA, 12, FALSE, 3)}
=============================================================================

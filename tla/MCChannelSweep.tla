---------------------------- MODULE MCChannelSweep ----------------------------
(* Instances of ChannelSweep for TLC. *)
EXTENDS ChannelSweep

\* Accounts 1 and 2 share group 11, account 2 and 3 group 12; account 4 may be one too many
\* for a page.
Overlapping == [a \in Accounts |-> CASE a = 1 -> {11} [] a = 2 -> {11, 12} [] OTHER -> {12}]
FewLooks == [a \in Accounts |-> CASE a = 1 -> {"available"} [] a = 2 -> {"available", "error"}
                                   [] a = 3 -> {"available", "off"} [] a = 4 -> {"gone", "off"}]
Quiet == [a \in Accounts |-> {"available"}]

Row(stamp, account) == [stamp |-> stamp, account |-> account, slow |-> TRUE]
\* Two accounts slow twice; one three times; one once, after an old row; nothing.
SomeLogs == {{Row(5, 1), Row(4, 2), Row(3, 2), Row(2, 1)},
             {Row(5, 1), Row(4, 1), Row(3, 1), Row(1, 2)},
             {Row(5, 2), Row(3, 1), Row(1, 1)},
             {}}
=============================================================================

-------------------------- MODULE MCAccountRecovery --------------------------
(* Instances of AccountRecovery for TLC. *)
EXTENDS AccountRecovery

CONSTANTS loop, worker, s1, s2, none

Loop == {loop}
Worker == {worker}
Two == {s1, s2}
OneAccount == {1}
TwoAccounts == {1, 2}
AllBroken == [a \in Accounts |-> {"error"}]
OneBroken == [a \in Accounts |-> IF a = 2 THEN {"error"} ELSE Looks]
Nobody == {}
TwoOnly == {2}
=============================================================================

-------------------------- MODULE MCGuardianCommands --------------------------
(* Instances of GuardianCommands for TLC. *)
EXTENDS GuardianCommands, TLC

CONSTANTS start, scan, weight, pin, submit, f1, f2

Policy == {start, scan}
Channel == {weight, pin}
Job == {submit}
TheFields == {f1, f2}
RequestsAlike == Permutations(Copies)
SetsField == [c \in Patches |-> IF c \in {start, weight} THEN f1 ELSE f2]
=============================================================================

------------------------ MODULE MCAccountQuarantine ------------------------
(* Model-checking instance of AccountQuarantine: model values for accounts. *)
EXTENDS AccountQuarantine, TLC

Symmetry == Permutations(Accounts)
=============================================================================

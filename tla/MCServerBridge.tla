------------------------- MODULE MCServerBridge -------------------------
(* Instances of ServerBridge for TLC.  Entries, and questions, are          *)
(* interchangeable: the safety runs use their permutations as symmetry.     *)
EXTENDS ServerBridge, TLC

Symmetric == Permutations(Entries) \cup Permutations(Questions)
=============================================================================

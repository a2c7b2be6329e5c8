----------------------------- MODULE MCAnalytics -----------------------------
(* Small instances of Analytics for TLC.                                   *)
EXTENDS Analytics, TLC

(* Ids, names and destinations are only ever compared.                     *)
OpaqueSymmetry ==
    Permutations(RowId) \cup Permutations(Pid) \cup Permutations(Name) \cup Permutations(Dest)
=============================================================================

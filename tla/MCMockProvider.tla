---------------------------- MODULE MCMockProvider ----------------------------
(* A small instance of MockProvider for TLC: a stamp in the baseline period *)
(* of the last reading of the clock, and one in its last hour.             *)
EXTENDS MockProvider, TLC

MCStamp == -1..0

MCTexts == RowId \cup Name \cup Dest \cup MCStamp

MCKeys == ToolKeys

OpaqueSymmetry == Permutations(RowId) \cup Permutations(Pid) \cup Permutations(Dest)
===============================================================================

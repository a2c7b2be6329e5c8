---------------------------- MODULE MCConversation ----------------------------
(***************************************************************************)
(* An instance of module Conversation for TLC: both providers, two tools,  *)
(* responses of up to two parts, two rounds.                             *)
(***************************************************************************)
EXTENDS Conversation, TLC

CONSTANTS t1, t2, c1, c2, c3, c4

MCSymmetry == Permutations({c1, c2, c3, c4}) \cup Permutations({t1, t2})
=============================================================================

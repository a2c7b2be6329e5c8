---------------------------- MODULE MCInvestigation ----------------------------
(* An instance of Investigation for TLC.                                   *)
EXTENDS Investigation

CONSTANTS e1, e2,           \* stored in the course of a behaviour
          invented,         \* a citation with the shape of an id
          misshapen,        \* a citation without it
          illegible         \* a NUL in the report

MCEventId == {e1, e2}
MCUnstorable == {illegible}
MCShapeless == {misshapen, illegible}
MCCitation == MCEventId \cup {invented} \cup MCShapeless
=============================================================================

---------------------------- MODULE MCConnectionPool ----------------------------
(* A small instance of ConnectionPool for TLC.                             *)
EXTENDS ConnectionPool

CONSTANTS i1, i2, e, b

MCInvestigation == {i1, i2}
MCEvent == {e}
MCBatch == {b}

(* Not every request can have a connection.                                *)
ASSUME FewConnections == Capacity < Cardinality(Request)
=================================================================================

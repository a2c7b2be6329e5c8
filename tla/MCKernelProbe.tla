---------------------------- MODULE MCKernelProbe ----------------------------
(* A small instance of KernelProbe for TLC: two threads of one process.    *)
EXTENDS KernelProbe, TLC

CONSTANTS t1, t2, p1

MCOwner == (t1 :> p1) @@ (t2 :> p1)
=============================================================================

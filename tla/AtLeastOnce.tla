------------------------------ MODULE AtLeastOnce ------------------------------
(***************************************************************************)
(* What the path from the callbacks of the collector to PostgreSQL         *)
(* promises, whatever lies between: an event that was accepted is recorded *)
(* any number of times, nothing else is recorded, no record is taken back, *)
(* and the sender lets go of an event only when a record of it exists.     *)
(***************************************************************************)
EXTENDS Integers

CONSTANT Event

VARIABLES
    accepted,   \* the events the sender has accepted
    records,    \* how many records there are of an event
    released    \* the events the sender has let go of

Init ==
    /\ accepted = {}
    /\ records = [e \in Event |-> 0]
    /\ released = {}

Accept(e) ==
    /\ e \in Event \ accepted
    /\ accepted' = accepted \cup {e}
    /\ UNCHANGED <<records, released>>

Record(batch) ==
    /\ batch \subseteq accepted
    /\ records' = [e \in Event |-> IF e \in batch THEN records[e] + 1 ELSE records[e]]
    /\ UNCHANGED <<accepted, released>>

Release(batch) ==
    /\ batch \subseteq accepted
    /\ \A e \in batch : records[e] >= 1
    /\ released' = released \cup batch
    /\ UNCHANGED <<accepted, records>>

Next ==
    \/ \E e \in Event : Accept(e)
    \/ \E batch \in SUBSET Event : Record(batch) \/ Release(batch)

Spec == Init /\ [][Next]_<<accepted, records, released>>
=============================================================================

------------------------------ MODULE EventTable ------------------------------
(***************************************************************************)
(* The table connection_events as the queries see it: the columns they     *)
(* compare, and the clock that datetime.now() reads.  Time is counted in   *)
(* ticks, Minute of them to a minute.                                      *)
(*                                                                         *)
(* A row's timestamp is chosen by its client.  The collector's lies in the *)
(* past (a batch may be delivered late, and after an outage very late),    *)
(* the simulator's also in the future (burst_start + i * 100 ms), so rows  *)
(* arrive in no order of time.                                             *)
(***************************************************************************)
EXTENDS Integers, FiniteSets

CONSTANTS
    RowId,          \* connection_events.id
    Pid, Name,      \* pid and process_name, the comm of the thread
    Dest,           \* destination_ip and destination_port
    Stamp,          \* timestamps
    Minute,         \* ticks in a minute
    MaxNow          \* bound: the last reading of the clock

ASSUME EventTableAssumption ==
    /\ Stamp \subseteq Int
    /\ Minute \in Nat \ {0}
    /\ MaxNow \in Nat

VARIABLES
    rows,           \* the table: a function from the ids that are in use
    now             \* datetime.now(timezone.utc)

tableVars == <<rows, now>>

Row == [at : Stamp, pid : Pid, name : Name, dest : Dest]
Ids == DOMAIN rows

TableTypeOK ==
    /\ Ids \subseteq RowId /\ IsFiniteSet(Ids)
    /\ rows \in [Ids -> Row]
    /\ now \in 0..MaxNow

TableInit ==
    /\ rows = [n \in {} |-> {}]
    /\ now = 0

(* POST /events commits a row under an id of its own.  (A batch commits    *)
(* several at once and leads to no table that single rows do not.)         *)
Insert(n, row) ==
    /\ n \in RowId \ Ids
    /\ rows' = [m \in Ids \cup {n} |-> IF m = n THEN row ELSE rows[m]]
    /\ UNCHANGED now

Tick ==
    /\ now < MaxNow
    /\ now' = now + 1
    /\ UNCHANGED rows

(* WHERE pid = p, and timestamp between the two bounds.                    *)
OfPid(p) == {n \in Ids : rows[n].pid = p}
Since(start) == {n \in Ids : rows[n].at >= start}

(* GROUP BY key: the sets of ids whose rows agree on it.                   *)
GroupBy(ids, key(_)) == {{m \in ids : key(m) = key(n)} : n \in ids}
=============================================================================

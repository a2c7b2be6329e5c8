------------------------------ MODULE Ingestion ------------------------------
(***************************************************************************)
(* The ingestion side of the FastAPI backend: the handler of               *)
(* POST /events/batch (backend/app/main.py), the schema in front of it     *)
(* (backend/app/schemas.py) and the table connection_events behind it      *)
(* (backend/app/models.py).                                                *)
(*                                                                         *)
(* A request lives in a slot.  A handler goes on working after its client  *)
(* has hung up, so a slot records both how far the handler has come (st)   *)
(* and whether a client still waits for the reply (open); it becomes idle  *)
(* again when neither needs it.                                            *)
(***************************************************************************)
EXTENDS Telemetry, Integers, Sequences, Functions

CONSTANTS
    Slot,           \* room for the requests that exist at one time
    MaxLength       \* ConnectionEventBatch.events: max_length (500 in the code)

ASSUME IngestionAssumption == MaxLength \in Nat \ {0}

VARIABLES
    request,        \* the requests in progress, one per slot
    rows,           \* how many rows of connection_events an event has
    apiUp           \* is the API process running?

ingestionVars == <<request, rows, apiUp>>

-----------------------------------------------------------------------------
Idle == [st |-> "idle", events |-> <<>>, open |-> FALSE]

Requests ==
    [st : {"idle", "received", "created", "rejected", "failed", "reset"},
     events : Seq(Traffic),
     open : BOOLEAN]

IngestionTypeOK ==
    /\ request \in [Slot -> Requests]
    /\ rows \in [Traffic -> Nat]
    /\ apiUp \in BOOLEAN

IngestionInit ==
    /\ request = [s \in Slot |-> Idle]
    /\ rows = [e \in Traffic |-> 0]
    /\ apiUp = TRUE

-----------------------------------------------------------------------------
(* What the schema accepts: 1 to MaxLength events, each of them valid; one *)
(* invalid event refuses the whole batch.                                  *)
ValidBatch(events) ==
    /\ Len(events) \in 1..MaxLength
    /\ Range(events) \cap Invalid = {}

(* The handler of slot s is done: its reply waits for the client, or goes  *)
(* nowhere when the client has left.                                       *)
Settle(s, outcome) ==
    request' = [request EXCEPT ![s] =
                    IF @.open THEN [@ EXCEPT !.st = outcome] ELSE Idle]

(* A client's POST reaches the running API.                                *)
Post(s, events) ==
    /\ apiUp
    /\ request[s] = Idle
    /\ request' = [request EXCEPT ![s] =
                      [st |-> "received", events |-> events, open |-> TRUE]]
    /\ UNCHANGED <<rows, apiUp>>

(* 422: the body does not validate and the handler is never entered.       *)
RefuseBatch(s) ==
    /\ request[s].st = "received"
    /\ ~ValidBatch(request[s].events)
    /\ Settle(s, "rejected")
    /\ UNCHANGED <<rows, apiUp>>

(* Mutant of CommitBatch: each event is committed on its own, and the      *)
(* reply does not wait for the last of them.                               *)
CommitFirst(s) ==
    /\ request[s].st = "received"
    /\ ValidBatch(request[s].events)
    /\ Range(request[s].events) \cap Unstorable = {}
    /\ rows' = [rows EXCEPT ![Head(request[s].events)] = @ + 1]
    /\ Settle(s, "created")
    /\ UNCHANGED apiUp

(* The table after one new row, under a fresh id, for each of the events.  *)
Inserted(events) ==
    [e \in Traffic |-> IF e \in Range(events) THEN rows[e] + 1 ELSE rows[e]]

(* 201: one transaction inserts a row for every event of the batch.        *)
(* Nothing recognises a batch that was sent before.                        *)
CommitBatch(s) ==
    /\ request[s].st = "received"
    /\ ValidBatch(request[s].events)
    /\ Range(request[s].events) \cap Unstorable = {}
    /\ rows' = Inserted(request[s].events)
    /\ Settle(s, "created")
    /\ UNCHANGED apiUp

(* 500: the table refuses an event, the commit raises, and no row stays.   *)
FailBatch(s) ==
    /\ request[s].st = "received"
    /\ ValidBatch(request[s].events)
    /\ Range(request[s].events) \cap Unstorable # {}
    /\ Settle(s, "rejected")
    /\ UNCHANGED <<rows, apiUp>>

(* 500 as well: the database fails and the commit raises; it was applied   *)
(* all the same if only the connection was lost after it.                  *)
LoseCommit(s) ==
    /\ request[s].st = "received"
    /\ ValidBatch(request[s].events)
    /\ Range(request[s].events) \cap Unstorable = {}
    /\ rows' \in {rows, Inserted(request[s].events)}
    /\ Settle(s, "failed")
    /\ UNCHANGED apiUp

(* The client has its answer, or stops waiting for one; a handler still at *)
(* work goes on.                                                           *)
HangUp(s) ==
    request' = [request EXCEPT ![s] =
                   IF @.st = "received" THEN [@ EXCEPT !.open = FALSE] ELSE Idle]

(* The API process dies: its handlers are gone and the connections of the  *)
(* clients that wait are reset.  The rows are PostgreSQL's and stay.       *)
ApiCrash ==
    /\ apiUp
    /\ apiUp' = FALSE
    /\ request' = [s \in Slot |->
                      IF request[s].open THEN [request[s] EXCEPT !.st = "reset"]
                                         ELSE Idle]
    /\ UNCHANGED rows

(* lifespan(): create_all leaves the tables that exist as they are.        *)
ApiStart ==
    /\ ~apiUp
    /\ apiUp' = TRUE
    /\ UNCHANGED <<request, rows>>
=============================================================================

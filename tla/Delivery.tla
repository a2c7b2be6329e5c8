------------------------------- MODULE Delivery -------------------------------
(***************************************************************************)
(* The path of an event from the perf buffer to PostgreSQL: the collector  *)
(* (module Collector) and POST /events/batch (module Ingestion) joined by  *)
(* an HTTP connection that may be refused, reset or time out.              *)
(*                                                                         *)
(* A step of one side that the other side does not see leaves the other    *)
(* side's variables alone; a step of the connection is a conjunction of    *)
(* one action of each side.                                                *)
(***************************************************************************)
EXTENDS Collector, Ingestion

CONSTANT MaxFaults      \* bound: faults of the network, the API, the database

ASSUME DeliveryAssumption == MaxFaults \in Nat

VARIABLES
    faults,     \* how many faults there have been
    unconfirmed \* history: how often the collector went on without knowing
                \* whether a POST had stored the event

vars == <<collectorVars, ingestionVars, faults, unconfirmed>>

TypeOK ==
    /\ CollectorTypeOK
    /\ IngestionTypeOK
    /\ faults \in 0..MaxFaults
    /\ unconfirmed \in [Traffic -> Nat]

Init ==
    /\ CollectorInit
    /\ IngestionInit
    /\ faults = 0
    /\ unconfirmed = [e \in Traffic |-> 0]

Fault == faults < MaxFaults /\ faults' = faults + 1
NoFault == UNCHANGED faults

-----------------------------------------------------------------------------
(* Steps of the collector that the API does not see.                       *)
CollectorAlone(Step) == Step /\ UNCHANGED <<ingestionVars, faults, unconfirmed>>

CollectorStep ==
    \/ \E e \in Traffic : CollectorAlone(CaptureTraffic(e))
    \/ \E e \in Events : CollectorAlone(HandleEvent(e))
    \/ CollectorAlone(Tick)
    \/ CollectorAlone(BeginFlush)
    \/ CollectorAlone(EndFlush)

(* Steps of the API that the collector does not see.                       *)
Handle(s) ==
    /\ \/ RefuseBatch(s) /\ NoFault
       \/ CommitBatch(s) /\ NoFault
       \/ FailBatch(s) /\ NoFault
       \/ LoseCommit(s) /\ Fault
    /\ UNCHANGED <<collectorVars, unconfirmed>>

Restart ==
    /\ ApiStart
    /\ UNCHANGED <<collectorVars, faults, unconfirmed>>

Crash ==
    /\ Fault
    /\ ApiCrash
    /\ UNCHANGED <<collectorVars, unconfirmed>>

(* A handler's session connects to PostgreSQL, and the probes report it.   *)
PoolConnects ==
    /\ \E s \in Slot : request[s].st = "received"
    /\ CaptureOwn(DatabaseEvent)
    /\ UNCHANGED <<ingestionVars, faults, unconfirmed>>

-----------------------------------------------------------------------------
(* send_one_batch: the request reaches the API, or nobody answers.         *)
Send(s) ==
    /\ SendBatch
    /\ Post(s, NextBatch)
    /\ UNCHANGED <<faults, unconfirmed>>

Refused ==
    /\ CannotConnect
    /\ IF apiUp THEN Fault ELSE NoFault
    /\ UNCHANGED <<ingestionVars, unconfirmed>>

(* The collector goes on without knowing whether the batch is stored, or   *)
(* will be.                                                                *)
LeaveUnconfirmed(s) ==
    /\ request[s].open
    /\ HangUp(s)
    /\ unconfirmed' = [e \in Traffic |->
                        IF e \in Range(request[s].events) THEN unconfirmed[e] + 1
                                                          ELSE unconfirmed[e]]

(* Mutant of Reply: the status of the answer is not looked at.             *)
ReplyIgnoringStatus(s) ==
    /\ request[s].open
    /\ \/ request[s].st \in {"created", "rejected", "failed"} /\ BatchSent
       \/ request[s].st = "reset" /\ Die
    /\ HangUp(s)
    /\ UNCHANGED <<rows, apiUp, faults, unconfirmed>>

(* The reply to the request in slot s arrives.  One of 500 after a commit  *)
(* that the database lost says nothing of the rows.                        *)
Reply(s) ==
    /\ request[s].open
    /\ \/ request[s].st = "created" /\ BatchSent
       \/ request[s].st \in {"rejected", "failed"} /\ BatchNotSent
       \/ request[s].st = "reset" /\ Die
    /\ IF request[s].st = "failed" THEN LeaveUnconfirmed(s)
                                   ELSE HangUp(s) /\ UNCHANGED unconfirmed
    /\ UNCHANGED <<rows, apiUp, faults>>

(* Ten seconds without a reply: TimeoutError.                              *)
TimeOut(s) ==
    /\ BatchNotSent
    /\ LeaveUnconfirmed(s)
    /\ Fault
    /\ UNCHANGED <<rows, apiUp>>

(* The status of an error is read but its body is not: error.read() raises *)
(* inside the except clause, and no sibling clause catches that.           *)
BodyLost(s) ==
    /\ request[s].open /\ request[s].st \in {"rejected", "failed"}
    /\ Die
    /\ HangUp(s)
    /\ Fault
    /\ UNCHANGED <<rows, apiUp, unconfirmed>>

CtrlC ==
    /\ Interrupt
    /\ IF pc = "await" THEN \E s \in Slot : LeaveUnconfirmed(s)
                       ELSE UNCHANGED <<request, unconfirmed>>
    /\ UNCHANGED <<rows, apiUp, faults>>

Next ==
    \/ CollectorStep
    \/ \E s \in Slot : Handle(s) \/ Send(s) \/ Reply(s) \/ TimeOut(s) \/ BodyLost(s)
    \/ Refused \/ CtrlC
    \/ Restart \/ Crash \/ PoolConnects

Spec == Init /\ [][Next]_vars

(* The collector's single thread, the API's event loop and the clock go    *)
(* on; nothing obliges traffic, faults or Ctrl+C to happen, and a crashed  *)
(* API is started again by its operator.                                   *)
Fairness ==
    /\ WF_vars(CollectorAlone(\E e \in Events : HandleEvent(e)))
    /\ WF_vars(CollectorAlone(Tick))
    /\ WF_vars(CollectorAlone(BeginFlush \/ EndFlush))
    /\ WF_vars(\E s \in Slot : Send(s))
    /\ WF_vars(Refused /\ NoFault)
    /\ WF_vars(\E s \in Slot : Reply(s))
    /\ \A s \in Slot : WF_vars(Handle(s))
    /\ WF_vars(Restart)

FairSpec == Spec /\ Fairness

-----------------------------------------------------------------------------
(* Every connection the probes reported is accounted for: it waits in the  *)
(* perf buffer, was dropped by a full buffer, was ignored for one of the   *)
(* callbacks' reasons, waits once in pending_events, or belonged to a      *)
(* batch that was answered with 201; it is never in two of these places.   *)
(* Deleting a wrong number of events after a reply would break it.         *)
Buffered == Range(pending)

Accounting ==
    /\ captured = (ring \cap Traffic) \cup lost \cup discarded \cup Buffered \cup acked
    /\ (ring \cap Traffic) \cap (lost \cup discarded \cup Buffered \cup acked) = {}
    /\ lost \cap (discarded \cup Buffered \cup acked) = {}
    /\ discarded \cap (Buffered \cup acked) = {}
    /\ Buffered \cap acked = {}
    /\ IsInjective(pending)
    /\ \A e \in discarded : Ignored(e)

(* The requests against the collector's state.  While it awaits a reply at *)
(* most one request is the one it waits for, and that holds exactly the    *)
(* events the del after a 201 would remove; the requests it gave up, which *)
(* the API may still commit, hold only events that were kept; and a        *)
(* request answered with 201 has all its rows.                             *)
Awaited ==
    /\ \A s \in Slot : request[s].open => pc = "await" /\ request[s].events = batch
    /\ \A s, t \in Slot : request[s].open /\ request[t].open => s = t
    /\ pc = "await" => batch = NextBatch

Kept == \A s \in Slot : Range(request[s].events) \subseteq Buffered \cup acked

CreatedIsStored ==
    \A s \in Slot :
        request[s].st = "created" => \A e \in Range(request[s].events) : rows[e] >= 1

InFlight == Awaited /\ Kept /\ CreatedIsStored

(* The promise of module AtLeastOnce, the buffer and its past as the       *)
(* sender: no event is stored that a callback did not keep, no row is      *)
(* taken back, and an event leaves pending_events by a del only after its  *)
(* row is committed, across lost replies, retries and late commits.        *)
Promise == INSTANCE AtLeastOnce
    WITH Event <- Traffic, accepted <- Buffered \cup acked,
         records <- rows, released <- acked

DeliversAtLeastOnce == Promise!Spec

(* What send_one_batch deletes from the only copy there is, PostgreSQL has.*)
AckedIsStored == \A e \in acked : rows[e] >= 1

(* A connection is counted twice only because the collector sent it again  *)
(* after a POST that may have stored it: one without an answer, or one     *)
(* answered with 500 because its commit failed.  Each such POST accounts   *)
(* for one row more.                                                       *)
DuplicatesExplained == \A e \in Traffic : rows[e] <= 1 + unconfirmed[e]

(* An event that schema and table accept, once it is in pending_events, is *)
(* eventually a row of connection_events, or the collector process has     *)
(* ended, or an event that is refused waits in pending_events as well: a   *)
(* batch that contains it is refused as a whole, again and again.          *)
Refusable == Buffered \cap (Invalid \cup Unstorable)
Acceptable == Traffic \ (Invalid \cup Unstorable)

EventuallyStored ==
    \A e \in Acceptable :
        (e \in Buffered) ~> (rows[e] >= 1 \/ pc = "stopped" \/ Refusable # {})

(* No acceptable event is held back, whatever else is observed (README.md:5*)
(* says that TracePilot observes connection attempts and records them).    *)
NoneHeldBack ==
    \A e \in Acceptable : (e \in Buffered) ~> (rows[e] >= 1 \/ pc = "stopped")

(* After Ctrl+C the last flush comes to an end and so does the process.    *)
InterruptEnds == stopping ~> (pc = "stopped")

(* No feedback loop: when traffic and faults have ceased the collector     *)
(* falls silent, although its own POSTs and the API's connections to       *)
(* PostgreSQL are reported to it as well (README.md:197).                  *)
FallsSilent ==
    <>[](pc = "stopped" \/ (pc = "poll" /\ ring = {}) \/ Refusable # {})
=============================================================================

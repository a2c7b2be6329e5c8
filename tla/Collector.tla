------------------------------ MODULE Collector ------------------------------
(***************************************************************************)
(* The user-space half of collector/collector.py: the perf buffer it       *)
(* polls, the list pending_events, the loop of main() that decides when to *)
(* flush, flush_pending_events and send_one_batch, and what Ctrl+C does.   *)
(*                                                                         *)
(* The process is single threaded, so pc says all there is to say of where *)
(* it is: polling the perf buffer, in the loop of flush_pending_events,    *)
(* awaiting the reply to a POST inside urlopen, or gone.                   *)
(*                                                                         *)
(* The collector's own connection to the API, and the API's to PostgreSQL, *)
(* are connections the kernel probes report like any other: they are the   *)
(* two events PostEvent and DatabaseEvent, which may be reported again and *)
(* again, whereas each event of Traffic happens once.                      *)
(***************************************************************************)
EXTENDS Telemetry, Integers, Sequences, FiniteSets, Functions

CONSTANTS
    PostEvent,      \* a connection of the collector itself (collector_pid)
    DatabaseEvent,  \* a connection of the API to PostgreSQL (port 5432)
    RingSize,       \* capacity of the perf buffer
    BatchSize,      \* BATCH_SIZE (50 in the code)
    SliceSize       \* the slice of send_one_batch (500 in the code)

ASSUME CollectorAssumption ==
    /\ PostEvent \notin Traffic /\ DatabaseEvent \notin Traffic
    /\ PostEvent # DatabaseEvent
    /\ RingSize \in Nat /\ BatchSize \in Nat
    /\ SliceSize \in Nat \ {0}

VARIABLES
    ring,       \* samples in the perf buffer, per CPU, so in no order
    pending,    \* pending_events
    batch,      \* the local variable batch of send_one_batch
    pc,         \* where the process is
    due,        \* has FLUSH_INTERVAL_SECONDS passed since last_flush_time?
    stopping,   \* is the process in main()'s KeyboardInterrupt handler?
    captured,   \* history: traffic the kernel probes have reported
    lost,       \* history: traffic a full perf buffer dropped
    discarded,  \* history: traffic the callbacks did not keep
    acked       \* history: traffic of the batches answered with 201

collectorVars ==
    <<ring, pending, batch, pc, due, stopping, captured, lost, discarded, acked>>

-----------------------------------------------------------------------------
Events == Traffic \cup {PostEvent, DatabaseEvent}

CollectorTypeOK ==
    /\ ring \subseteq Events
    /\ pending \in Seq(Traffic)
    /\ batch \in Seq(Traffic)
    /\ pc \in {"poll", "flush", "await", "stopped"}
    /\ due \in BOOLEAN
    /\ stopping \in BOOLEAN
    /\ captured \subseteq Traffic
    /\ lost \subseteq Traffic
    /\ discarded \subseteq Traffic
    /\ acked \subseteq Traffic

CollectorInit ==
    /\ ring = {}
    /\ pending = <<>>
    /\ batch = <<>>
    /\ pc = "poll"
    /\ due = FALSE
    /\ stopping = FALSE
    /\ captured = {} /\ lost = {} /\ discarded = {} /\ acked = {}

-----------------------------------------------------------------------------
(* The perf buffer after the kernel submits e: a full one drops the sample. *)
Room == Cardinality(ring) < RingSize
Submitted(e) == IF Room THEN ring \cup {e} ELSE ring

(* A connection of an observed process is reported.                        *)
CaptureTraffic(e) ==
    /\ pc # "stopped"
    /\ e \in Traffic \ captured
    /\ captured' = captured \cup {e}
    /\ ring' = Submitted(e)
    /\ lost' = IF Room THEN lost ELSE lost \cup {e}
    /\ UNCHANGED <<pending, batch, pc, due, stopping, discarded, acked>>

(* A connection of TracePilot itself is reported.                          *)
CaptureOwn(e) ==
    /\ pc # "stopped"
    /\ ring' = Submitted(e)
    /\ UNCHANGED <<pending, batch, pc, due, stopping, captured, lost, discarded, acked>>

(* parse_ipv4_event and parse_ipv6_event raise on a sample that has not    *)
(* the size of the structure or the version of the callback.               *)
Unparsable(e) == e \in Malformed

(* Mutants of Ignored: a callback without the test on the port, and one    *)
(* without the test on the pid.                                            *)
IgnoredButPorts(e) == Unparsable(e) \/ e = PostEvent
IgnoredButPid(e) == Unparsable(e) \/ e \in ApiPorts \cup {DatabaseEvent}

(* The early returns of the two callbacks and the exceptions of the parser *)
(* they call; an exception ends the callback and no more.                  *)
Ignored(e) ==
    \/ Unparsable(e)
    \/ e = PostEvent
    \/ e \in ApiPorts \cup {DatabaseEvent}

(* perf_buffer_poll calls handle_event or handle_ipv6_event on a sample.   *)
HandleEvent(e) ==
    /\ pc = "poll"
    /\ e \in ring
    /\ ring' = ring \ {e}
    /\ pending' = IF Ignored(e) THEN pending ELSE Append(pending, e)
    /\ discarded' = IF Ignored(e) THEN discarded \cup ({e} \cap Traffic) ELSE discarded
    /\ UNCHANGED <<batch, pc, due, stopping, captured, lost, acked>>

(* A second passes.                                                        *)
Tick ==
    /\ ~due /\ pc # "stopped"
    /\ due' = TRUE
    /\ UNCHANGED <<ring, pending, batch, pc, stopping, captured, lost, discarded, acked>>

(* Mutant of FlushNeeded: the flush timer is forgotten.                    *)
FlushWhenFull == Len(pending) >= BatchSize

(* batch_is_full or flush_time_reached.                                    *)
FlushNeeded ==
    \/ Len(pending) >= BatchSize
    \/ pending # <<>> /\ due

(* One turn of main()'s loop that flushes (one that does not changes       *)
(* nothing).  perf_buffer_poll returns once it has drained the buffer, and *)
(* last_flush_time is set to a time read before the flush.                 *)
BeginFlush ==
    /\ pc = "poll"
    /\ ring = {}
    /\ FlushNeeded
    /\ pc' = "flush"
    /\ due' = FALSE
    /\ UNCHANGED <<ring, pending, batch, stopping, captured, lost, discarded, acked>>

-----------------------------------------------------------------------------
(* Mutant of AfterFlush: KeyboardInterrupt is caught inside the loop.      *)
AfterFlushLoops == "poll"

(* Where the process goes when flush_pending_events returns: back to the   *)
(* loop of main(), or out of its KeyboardInterrupt handler.                *)
AfterFlush == IF stopping THEN "stopped" ELSE "poll"

(* pending_events[:500]                                                    *)
NextBatch ==
    SubSeq(pending, 1, IF Len(pending) < SliceSize THEN Len(pending) ELSE SliceSize)

(* send_one_batch builds the request and connects: the kernel reports the  *)
(* collector's own connection, whether or not it is then accepted.         *)
Connect ==
    /\ pc = "flush"
    /\ pending # <<>>
    /\ ring' = Submitted(PostEvent)

(* The request is on its way and urlopen awaits the reply.                 *)
SendBatch ==
    /\ Connect
    /\ batch' = NextBatch
    /\ pc' = "await"
    /\ UNCHANGED <<pending, due, stopping, captured, lost, discarded, acked>>

(* URLError: nobody answers at the address; flush_pending_events breaks.   *)
CannotConnect ==
    /\ Connect
    /\ pc' = AfterFlush
    /\ UNCHANGED <<pending, batch, due, stopping, captured, lost, discarded, acked>>

(* Mutants of BatchSent: pending_events.clear(), and no del at all.        *)
BatchSentClears ==
    /\ pc = "await"
    /\ pending' = <<>>
    /\ acked' = acked \cup Range(batch)
    /\ batch' = <<>>
    /\ pc' = "flush"
    /\ UNCHANGED <<ring, due, stopping, captured, lost, discarded>>

BatchSentKeeps ==
    /\ pc = "await"
    /\ acked' = acked \cup Range(batch)
    /\ batch' = <<>>
    /\ pc' = "flush"
    /\ UNCHANGED <<ring, pending, due, stopping, captured, lost, discarded>>

(* 201: del pending_events[:len(batch)], and the loop goes on.             *)
BatchSent ==
    /\ pc = "await"
    /\ pending' = SubSeq(pending, Len(batch) + 1, Len(pending))
    /\ acked' = acked \cup Range(batch)
    /\ batch' = <<>>
    /\ pc' = "flush"
    /\ UNCHANGED <<ring, due, stopping, captured, lost, discarded>>

(* Mutant of BatchNotSent: its return is forgotten and the del is reached. *)
BatchNotSentDeletes ==
    /\ pc = "await"
    /\ pending' = SubSeq(pending, Len(batch) + 1, Len(pending))
    /\ acked' = acked \cup Range(batch)
    /\ batch' = <<>>
    /\ pc' = AfterFlush
    /\ UNCHANGED <<ring, due, stopping, captured, lost, discarded>>

(* HTTPError or TimeoutError: send_one_batch returns False with            *)
(* pending_events as it was, and flush_pending_events breaks.              *)
BatchNotSent ==
    /\ pc = "await"
    /\ batch' = <<>>
    /\ pc' = AfterFlush
    /\ UNCHANGED <<ring, pending, due, stopping, captured, lost, discarded, acked>>

(* flush_pending_events has emptied pending_events.                        *)
EndFlush ==
    /\ pc = "flush"
    /\ pending = <<>>
    /\ pc' = AfterFlush
    /\ UNCHANGED <<ring, pending, batch, due, stopping, captured, lost, discarded, acked>>

(* Ctrl+C.  The first one leaves the loop for a last flush if anything is  *)
(* pending; one that comes during that flush ends the process.             *)
Interrupt ==
    /\ pc # "stopped"
    /\ stopping' = TRUE
    /\ pc' = IF stopping \/ pending = <<>> THEN "stopped" ELSE "flush"
    /\ batch' = <<>>
    /\ UNCHANGED <<ring, pending, due, captured, lost, discarded, acked>>

(* The connection is reset while urlopen awaits the reply: an exception    *)
(* send_one_batch does not catch and main() does not either.               *)
Die ==
    /\ pc = "await"
    /\ pc' = "stopped"
    /\ batch' = <<>>
    /\ UNCHANGED <<ring, pending, due, stopping, captured, lost, discarded, acked>>
=============================================================================

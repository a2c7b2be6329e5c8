# Verification of TracePilot

TLA+ models of TracePilot, TLC configurations that check them on small
instances, and TLAPS proofs for all instances. Paths are relative to the
repository's root; line numbers in `PROJECT.json` are those of this commit.

## 1. The system

| component | code | state | operations | who it talks to |
|---|---|---|---|---|
| eBPF probes | `collector/collector.py:22-265` | `pending_connections`, `pending_connections_v6` (hash maps by thread id) | entry and return programs of `tcp_v4_connect`, `tcp_v6_connect` | kernel calls them; perf buffers to the collector |
| collector process | `collector/collector.py:270-492` | `pending_events`, `last_flush_time`, the batch in flight | `handle_event`, `handle_ipv6_event`, `send_one_batch`, `flush_pending_events`, `main` | polls perf buffers, POSTs to the API |
| event parser | `collector/event_parser.py` | none | `parse_ipv4_event`, `parse_ipv6_event` | called by the callbacks |
| ingestion API | `backend/app/main.py:74-128`, `schemas.py` | requests in progress | `create_event`, `create_event_batch` | collector, simulator; PostgreSQL |
| telemetry store | `backend/app/models.py`, `database.py` | `connection_events`, `investigations`, `agent_tool_calls`, the connection pool | commits, queries | every handler |
| investigation API | `backend/app/main.py:366-514` | the row of the investigation, the session | `create_investigation`, the debug endpoint, reads | client; agent |
| agent loop | `backend/app/agent.py:200-266` | round, `allowed_event_ids`, the provider's state | `run_investigation_agent` | provider, tools |
| evidence validation | `backend/app/agent.py:143-198` | none | `extract_tool_event_ids`, `validate_report_evidence` | called by the loop |
| tools and audit | `backend/app/agent_tools.py` | none | five queries, `execute_agent_tool` | `connection_events`, `agent_tool_calls` |
| LLM providers | `backend/app/llm/` | conversation state | `start`, `continue_with_tool_results` | Gemini, OpenAI, a mock |
| analytics endpoints | `backend/app/main.py:130-363` | none | five queries, one of them of two statements | `connection_events` |
| sessions and pool | `backend/app/database.py` | the connections checked out | a session's transactions | every handler |
| simulator | `simulator/simulator.py` | none | waits for the API, sends one batch | ingestion API |

What is hard, and what makes each part correct:

* **Probes.** Threads interleave, `tcp_v6_connect` calls `tcp_v4_connect`, the
  probes are attached one after the other while the host is connecting, a map
  can be full and a kretprobe can miss a return. A sample must describe the call
  it was taken for, and the maps must not leak.
* **Collector and ingestion.** One thread polls, buffers and sends. Its POST may
  be refused, rejected, time out, or be reset; a handler whose client has gone
  still commits; Ctrl+C may come at any moment. No event may be deleted before
  it is stored, lost track of, or stored twice without a reason, and whatever is
  valid must be stored in the end. The collector's own connections are captured
  too and must not start a loop.
* **Investigations.** Every `await` can raise, the language model can ask for
  and claim anything, other clients add audit records to the same
  investigation. A completed report must rest on recorded evidence, the reply
  must agree with the row, a final row must stay final, and an investigation
  must come to an end.
* **Detection.** The rules are queries with calendar minutes, limits and, for
  one of them, two snapshots, over a table that is filled late and out of order.
  What they report must be genuine, must be established by the ids they return,
  and must not vanish or be missed because of when rows arrive.
* **Providers.** Two APIs pair results with calls in two different ways, and
  the demo's script must produce a report that its own agent accepts.
* **Sessions.** An investigation keeps a connection while it waits for the
  provider. Nobody may wait for a connection while holding one.
* **Clocks and bytes.** Kernel time becomes wall-clock time with an offset read
  once, and addresses are read on hosts of either byte order.
* **Simulator.** Its incident must be seen by the rules whenever it is run, and
  be stored whole or not at all although it is posted once, without a retry.

`PROJECT.json` lists the hazards met in the code, at their lines, with the
properties that cover them. Three more have no property, for the code states
nothing that could be violated: `pending_events` is unbounded while the API is
away (`collector.py:273`), an IPv4-mapped connection is reported by both
functions (`collector.py:161`), and an investigation whose API dies stays running
because nothing at start looks for such rows (`main.py:385`).

## 2. Modules

| module | models | EXTENDS |
|---|---|---|
| `Telemetry` | the classes of events that the path tells apart | |
| `Collector` | the user-space half of `collector.py` | `Telemetry` |
| `Ingestion` | `POST /events/batch`, its schema and its table | `Telemetry` |
| `AtLeastOnce` | abstract: what the path promises | |
| `Delivery` | `Collector` and `Ingestion` joined by a connection that fails | `Collector`, `Ingestion`; instantiates `AtLeastOnce` |
| `DeliveryProofs` | theorems about `Delivery` | `Delivery` |
| `Investigation` | `create_investigation`, the agent, tool execution, audit | |
| `InvestigationProofs` | theorems about `Investigation` | `Investigation` |
| `KernelProbe` | the BPF programs and their attachment | |
| `KernelProbeProofs` | theorems about `KernelProbe` | `KernelProbe` |
| `EventTable` | `connection_events` as the queries see it, and the clock | |
| `Analytics` | the detection rules and the other read queries | `EventTable` |
| `EventIds` | JSON values, both id extractions, `validate_report_evidence` | |
| `AgentTools` | what the five tools select and return | `Analytics`, `EventIds` |
| `MockProvider` | the demo: agent, mock provider and tools over a filling table | `AgentTools` |
| `MockProviderProofs` | theorems about `EventIds`, `AgentTools` and `MockProvider` | `MockProvider` |
| `Simulation` | `simulator.py`, its API, the rules applied to its incident | `Analytics` |
| `AnalyticsProofs` | theorems about `Analytics` and `Simulation` | `Simulation` |
| `Conversation` | `OpenAIProvider` and `GeminiProvider` under the agent's loop | |
| `ConversationProofs` | theorems about `Conversation` | `Conversation` |
| `ConnectionPool` | sessions of the three writing endpoints over one pool | |
| `ConnectionPoolProofs` | theorems about `ConnectionPool` | `ConnectionPool` |
| `EventParser` | `event_parser.py` and the clock offset | |
| `EventParserProofs` | theorems about `EventParser` | `EventParser` |
| `MC...` | one per checked module: the instance's sets, symmetry | the module |

### Collector, Ingestion, Delivery

The collector is single threaded, so `pc` is its control state: `poll` (inside
`perf_buffer_poll` or between turns of the loop), `flush` (at the head of the
loop of `flush_pending_events`), `await` (inside `urlopen`), `stopped`.
`stopping` says that it is in the `KeyboardInterrupt` handler. `due` stands for
`current_time - last_flush_time >= 1.0`; `BeginFlush` clears it because
`last_flush_time` is set to a time read *before* the flush, and `Tick` may set
it again while the flush lasts. The perf buffers are one set, because they are
per CPU and give no order. An exception that a callback raises (the parser's
`ValueError`) ends the callback and no more, which is what `Ignored` says of an
`Unparsable` sample; one that `send_one_batch` does not catch ends the process
(`Die`): a connection reset while the reply is awaited is not a `URLError`, and
an error body that cannot be read raises inside the except clause (`BodyLost`).

A request of the API lives in a slot. `st` is how far its handler has come,
`open` whether a client still waits: `HangUp` clears `open` and the handler
goes on, so a commit can come after the timeout, after the retry and after the
collector has stopped. A batch commits all of its rows or none. A commit that
raises stores nothing when the table refuses an event (`FailBatch`); when the
database fails (`LoseCommit`) it may have been applied before its connection was
lost, and the reply is 500 all the same, after which the collector sends the batch
again. Three kinds of
events are told apart because the code treats them differently: `Invalid` ones
(422 for the whole batch), `Unstorable` ones (the commit raises, 500) and those
to `ApiPorts` (dropped by the callbacks, whatever the host).

`Delivery` joins the two. A step of the connection is a conjunction of one
action of each side (`Send == SendBatch /\ Post`, `Reply == BatchSent /\ HangUp`
and so on). The collector's own connection to the API and the pool's to
PostgreSQL come back through the perf buffer as `PostEvent` and
`DatabaseEvent`. `captured`, `lost`, `discarded`, `acked` and `unconfirmed` are
history variables that no guard reads, except that an event is captured once;
`unconfirmed` counts, per event, how often the collector went on without knowing
whether a POST had stored it.

### AtLeastOnce

The abstract specification: an accepted event is recorded any number of times,
nothing else is recorded, no record is taken back, and the sender lets go of an
event only when it is recorded. `Delivery` implements it with
`accepted <- Buffered \cup acked`, `records <- rows`, `released <- acked`
(`DeliversAtLeastOnce`); the run checks it and `DeliveryProofs!Implementation`
proves it.

### Investigation

`handler[i].pc` names the `await` at which the handler of investigation `i`
is: `asking` (the provider), `executing` and `auditing` (`execute_agent_tool`
before the query and before the commit of its record), `completing` and
`refreshing` (the last commit and refresh), `failing` (the except clause).
Requests are told apart by what `execute_agent_tool` makes of them (`Kinds`);
reports and results are sets of citations and event ids, which is all that
`validate_report_evidence` compares.

`usable` is the point of the error paths. A commit or query that fails leaves an
`AsyncSession` with a transaction that must be rolled back, and a refresh that
fails leaves an object whose attributes are expired. The except clause calls no
`rollback()`, reads `investigation.id` and commits: with such a session it
raises itself, the client gets 500 and the row keeps the status it had. Other
exceptions (the provider, validation, refused tools) leave the session usable.

A tool returns some subset of the stored events. The provider returns tool
requests, or a text, or nothing; with tool requests any text is ignored. A commit
that fails may have been applied. Two texts come from outside and can be refused by
PostgreSQL without any fault, for a NUL: the question, before there is a row
(`CreateFails`), and the report (`Unstorable`, in `CompleteFails`; half a surrogate
pair there as well), whose commit then leaves a session that the except clause
cannot use.

### KernelProbe

A thread is in a stack of at most two calls, since `tcp_v6_connect` calls
`tcp_v4_connect` for IPv4-mapped addresses. `stage` counts the six calls with
which `main()` attaches the probes and opens the buffers. Whether a return will
be seen is decided when the call is entered: a kretprobe hooks the return at
entry, and only if it is attached and has an instance left. A full map refuses
a new key silently. Time stamps, uid and name are left out: they travel with
the destination.

### EventTable, Analytics

Time is counted in ticks, `Minute` of them to a minute. A row has the columns
the queries compare; its timestamp is the client's, so rows arrive in no order
of time. A query's result is the set of its groups and a group is the set of its
`event_ids`, of which the other columns are functions. Four queries are single
statements, hence operators on the state. `find_unusual_destinations` executes
two, each with a snapshot of its own (READ COMMITTED), and is a handler with two
steps between which rows are stored; `began` remembers which rows there were when
the request arrived. Order and ties matter only where a `LIMIT` follows
(`TopProcesses` is the set of results that the ties allow).

### EventIds, AgentTools, MockProvider

A tool's result is a JSON value with its keys and nesting, and no more of its
text than that. `extract_tool_event_ids` (agent) and `extract_event_ids` (mock)
are the two recursions over it. Each is a recursive function of the depth of the
nesting: `IdSets[depth]` and `IdLists[depth]` are the functions on the values of
that depth, `Json[depth]`, and call those of the depth below for a value's children.
`Keys` and `Texts` are the keys and strings that values are made of. `MockProvider` runs the agent's loop with the mock's three
requests, each tool reading the table as it is then, and ends with the report and
its evidence check. Nothing is stored after the report, a bound.

### Simulation

`generate_events` with the numbers of events as constants, `wait_for_api`, one
POST, and its handler, which may commit, fail (though its commit may have been
applied), crash with its API or never answer. Nobody need start the API, before the
first run or after a crash. A run may be started at any reading of the clock, and again. The rules
are those of `Analytics`.

### Conversation

`contents` is the conversation that each request sends anew. A turn of the model
is a list of texts and calls; calls have distinct ids, which Gemini may leave
out and the provider then makes up. The loop executes the tools one by one and
may be left in between. `executed` records in which order tools were executed.
The answer's pairing, by id for OpenAI and by name and position for Gemini, is
what the module is about.

### ConnectionPool

Which requests hold a connection at which `await`: a session takes one at a
transaction's first statement and returns it with `commit()`, or when it is
closed. A handler that needs one waits until fewer than `Capacity` are in use or
its 30 seconds are over (`PoolTimeout`), which raises there, and the except
clause then needs a connection itself. Statements succeed here; `Investigation`
is about those that fail.

### EventParser

The structures hold bytes in network order, which `ctypes` reads as integers of
the host; `ntohs` and `to_bytes` are modelled by what they do to the bytes, for
hosts of either order. Both clocks run; the wall clock can be set, a suspension
stops the monotonic clock only. The offset is computed by two readings, between
which time passes (`lag`). `datetime.fromtimestamp` rounds to a microsecond.

## 3. Runs

| run | question | instance | result |
|---|---|---|---|
| `delivery` | is anything lost, deleted early or duplicated without cause, is everything stored, does Ctrl+C end it, is there a feedback loop? | 5 events (2 valid, 1 the schema refuses, 1 the table refuses, 1 to a filtered port), ring 1, batch and slice 2, 2 slots, 1 fault, fairness; valid events and idle slots are taken in a fixed order | 363,884 states, holds |
| `delivery_poison` | does a refused event leave the others alone? | 2 events, no fault, fairness | violated |
| `investigation` | do reports rest on evidence, do replies and rows agree, does every investigation end, settled and recorded? | 1 investigation, 2 events, an invented, a misshapen and an illegible citation, all kinds of requests, 2 rounds of up to 2 requests, 2 faults, 1 debug call, fairness | 1,049,761 states, holds |
| `investigation_unstorable` | is a failing investigation marked failed? | an audit record that is refused | violated |
| `investigation_mock` | does the demo complete? | `LLM_PROVIDER = "mock"` | violated |
| `kernel_probe` | are samples true, do the maps leak? | 2 threads of one process, 2 destinations, maps of one entry, 2 unseen returns | 273,413 states, holds |
| `analytics` | are detections sound, complete as far as promised, lasting and self-sufficient? | every table of up to 3 rows: 2 PIDs, 2 names, 2 destinations, 5 time stamps, minutes of 2 ticks, threshold 1 | 812,781 states, holds |
| `mock_provider` | are all ids found, cuts told, the demo's report accepted? | 3 rows, 2 PIDs, `LIMIT` 2, threshold 1, 2 ids cited | 27,205 states, holds |
| `event_parser` | are destinations true, are time stamps ordered and right? | both byte orders, both IP versions, 2 connections, 1 clock step, microseconds of 2 | 267,258 states, holds |
| `connection_pool` | is the pool accounted for, are replies true, do all end? | 2 investigations, 1 event, 1 batch, 2 connections, 2 rounds, 2 requests, 2 timeouts, fairness | 109,504 states, holds |
| `simulation` | is the incident stored whole and seen by both rules? | 2 runs, minutes of 3 ticks, 1 + 3 events, 2 of them to one destination, 1 crash, fairness | 743,434 states, holds |
| `conversation` | is each call answered with its own result? | both providers, 2 tools, 4 ids or none, 2 parts to a response, 2 rounds | 101,884 states, holds |

The properties:

* `Accounting`: every captured event is in exactly one place (perf buffer, lost,
  discarded for one of the callbacks' reasons, buffered once, acknowledged).
* `InFlight`: the request the collector waits for holds exactly the events that
  the `del` after a 201 removes, requests it has left hold only events that were
  kept, and a request answered with 201 has its rows.
* `AckedIsStored`, `DeliversAtLeastOnce`: what was deleted is in PostgreSQL.
* `DuplicatesExplained`: each row beyond the first is accounted for by a POST
  that may have stored it and did not say so: one without an answer, or one
  answered with 500 because its commit failed.
* `EventuallyStored`, `InterruptEnds`, `FallsSilent`: valid events are stored, or
  the process has ended, or an event that is refused stands in their way; Ctrl+C
  ends the process; when traffic and faults cease the collector falls silent
  although it observes itself.
* `EvidenceBacked`, `EvidenceCited`: the well-shaped citations of a completed
  report are all of events from audited tool calls of the agent itself, and there
  are some if there were such events.
* `ReplyAgrees`, `Finality`: 201 means completed and 502 failed, and neither
  ever changes, even if the refresh after the commit raises.
* `SettledUnlessBroken`: a row that stays running after its handler's end has a
  fault of database or API behind it, or an audit record or a report that the
  table refused.
* `ExecutionsRecorded`: every execution has its record, all of them if the
  investigation completed, all but the last one otherwise. `RunningEnds`.
* `PendingMatches`, `SamplesTrue`, `LeaksExplained`: the entry of a recorded call
  in progress is its own; a sample describes the call that just returned and
  succeeded; entries without a call are left only by returns no probe saw.
* `BurstsTrue` (`BurstsSound` and `BigBurstsFound`): a reported burst is one, and
  a burst of more than twice the threshold is reported wherever the minute
  boundary falls.
  `BurstsPersist`: it stays reported while rows arrive late and time passes.
  `EvidenceSuffices`: the rule applied to the `event_ids` alone gives it again,
  although evidence is looked up by PID and detections are grouped by PID and name.
* `NothingMissed`, `AlarmsExplained`: two statements report what one would, and
  more only for a baseline row committed meanwhile.
* `AllIdsExtracted`: for each of the five tools both recursions find exactly the
  events that were selected. `TruncationTold`, `ReportAccepted`,
  `CitesTimeline`: a cut timeline says so and keeps the newest events; the demo's
  report is accepted and cites the PID's timeline, whatever is stored meanwhile.
* `DestinationTrue`, `TimestampsOrdered`, `ErrorExplained`: clocks may be set at
  any time, yet time stamps keep the order of the connections and err by exactly
  what the wall clock was moved, and the delay between the two readings.
* `PoolSpared` (`PoolAccounted` and `HeldOverStartOnly`), `StoredAsTold`,
  `RunningExplained`, `AllEnd`: the pool is not overdrawn; a connection is kept over an await of the
  provider in `start()` only; replies tell what was stored save after a refresh
  that found no connection; everyone ends without any timeout.
* `BurstReported`, `IncidentUnusual`, `SimulatorEnds`: once a run succeeded, or
  any of its events is stored, the whole burst is reported for an hour; its
  destination is reported as unusual unless an earlier run's events are stored;
  a run ends, unless the API it waits for stays down.
* `CallsAnswered`: in every request that is sent, each call of the
  model is answered, in order and once, with the result of its own execution.

The type invariants of `Analytics`, `ConnectionPool` and `KernelProbe` are theorems
and not repeated in the runs.

Each property of a passing run has a mutant of the code that violates it
(`PROJECT.json`); the mutants stand beside the definitions they mutate.

**Bounds.** The buffers are small so that they overflow: a ring of one sample
drops the second, slices of two make `pending_events` exceed a slice, and two
slots let a request that the collector has left commit beside its retry. Refused
batches and Ctrl+C are not counted as faults, so a timeout, a lost error body, a
crash, or a commit that was applied and raised meets either of them, in any order.
`FirstFirst` of `MCDelivery` takes the two valid events, and two idle slots, in a
fixed order: they are interchangeable, and this symmetry is broken by hand because
TLC's own does not go with liveness.
Two rounds and two requests reach the
end of the loop and the union of several results; two faults at different awaits
reach every pair of failing commits. Maps of one entry are full while the second
thread connects. Three rows are a burst across a minute boundary, more than
twice the threshold, a cut timeline, and a destination in both spans. Two
connections for four requests make some wait while others hold; two timeouts
reach a timeout and another in its except clause. Two runs of the simulator
reach an incident that is in its own baseline. Two parts to a response and two
rounds reach parallel calls of one tool in consecutive turns. The theorems below
do not depend on these bounds.
`MaxFaults`, `MaxDebug`, `MaxGaps`, `MaxRequests`, `MaxTools`, `MaxTimeouts`,
`MaxNow`, `MaxTime`, `MaxConnections`, `MaxSteps`, `MaxCrashes` and `MaxParts`
bound what the code does not; all other constants are parameters of the code or
its environment.

**Fairness.** `Delivery!Fairness` is weak fairness of the collector's loop, of
the clock, of each handler of the API's event loop, of replies that are ready,
and of the restart of a crashed API (an operator's or container runtime's task).
Nothing obliges traffic, faults or Ctrl+C to happen. `Investigation!FairSpec` is
weak fairness of each handler, refused records and reports included: the event
loop goes on, and the provider answers or fails in the end. The code sets no timeout around the provider, so the
second half is an assumption about the client libraries, whose own timeouts end
a request. `ConnectionPool!FairSpec` is weak fairness of each handler's steps,
with the pool handing on what is returned; the 30 seconds need never pass, so
`AllEnd` does not rest on timeouts. `Simulation!FairSimSpec` is weak fairness of
the simulator's own steps, its time limit included. Nothing obliges the API to be
started or its handler to answer, for `docker-compose.yml:22` has no restart policy:
`SimulatorEnds` says that a run ends or waits for ever for an API that stays down.
The restart that `Delivery!Fairness` assumes is the operator's, and
`EventuallyStored` depends on it.

**Deadlock** is checked in `KernelProbe`, which never stops. In all other
modules the system may stop: the collector after Ctrl+C, handlers when all
requests are done, and the bounded clocks and tables when they are used up.

## 4. Findings

1. A refused batch is retried for ever in front of everything else
   (`collector.py:371`, run `delivery_poison`; README.md:5).
2. The except clause of `create_investigation` uses a session that needs a
   rollback: an audit record that PostgreSQL refuses, and likewise a report with a
   NUL (`main.py:397`), leaves the investigation
   running (`main.py:402`, run `investigation_unstorable`;
   `backend/tests/test_investigation_api.py:97`).
3. `create_llm_provider` reads an unbound name for every provider but Gemini
   (`llm/factory.py:17`, run `investigation_mock`; README.md:18, :91).

**Departures that the properties' conditions name.** Here the code does less
than a document says; the properties state what it does do, and the condition
that makes the difference is the departure:

* A tool function that raises leaves no audit record (`agent_tools.py:429`;
  README.md:9 "Every tool execution is recorded"): `ExecutionsRecorded` allows
  one execution without a record in an investigation that did not complete.
* Citations of another shape than 36 hexadecimal digits and dashes escape the
  validation (`agent.py:178`; README.md:20): the `\ Shapeless` of
  `EvidenceBacked` and `EvidenceCited`.
* Bursts are counted per calendar minute and per process name, which is the name
  of the connecting thread (`main.py:196`, `collector.py:78`; README.md:45, :209
  "within one minute"): hence *more than twice* the threshold in `BurstsTrue`.
  For the same reason processes are ranked by the shares of their threads'
  names (`main.py:166`; README.md:208).
* The baseline and the recent events are two snapshots (`main.py:289`;
  README.md:46): `AlarmsExplained` excuses rows committed in between.
* `get_process_connections` drops the newest events beyond 500 and does not say
  so (`agent_tools.py:50`; `agent.py:23` asks for truncation to be mentioned):
  `TruncationTold` is about the timeline only.
* The demo's report on a PID without events cites bursts of other processes as
  that PID's activity (`mock_provider.py:107`): the condition of `CitesTimeline`.
* The offset between the clocks is computed once (`collector.py:278`; the
  comment before it says the conversion gives wall-clock time): `ErrorExplained`.
* A second run of the simulator more than an hour after the first finds its own
  destination in the baseline (`simulator.py:72`; README.md:140): the condition
  of `IncidentUnusual`.

Observed while reading and not a finding of a run: `tcp_v4_connect` returns 0
once the SYN is on its way, so a connection the peer refuses is reported too;
README.md:5 says attempts, README.md:13 connections. Perf samples are padded, and
`event_parser.py:61` may refuse one for its size; which samples it refuses is left
open, as the set `Malformed`.

## 5. Proofs

All proofs are for arbitrary values of the constants under the named
assumptions of the modules (`TelemetryAssumption`, `CollectorAssumption`,
`IngestionAssumption`, `DeliveryAssumption`, `InvestigationAssumption`,
`KernelProbeAssumption`, `EventTableAssumption`, `AnalyticsAssumption`,
`EventParserAssumption`, `ConnectionPoolAssumption`, `SimulationAssumption`,
`GeneratedAssumption`, `ConversationAssumption`, `EventIdsAssumption`,
`AgentToolsAssumption`, `MockProviderAssumption`), which TLC evaluates in the
runs. Every invariant of the passing runs, the refinement of `AtLeastOnce` and the
action properties are theorems. Each strengthened invariant was checked by TLC on its run before it was proved.

**DeliveryProofs.** `IInv == TypeOK /\ InFlight /\ AckedIsStored` is inductive.
`AckedIsStored` alone is not: that a 201 means the events just deleted are
stored needs `CreatedIsStored` (a created request has its rows) and `Awaited`
(its events are the batch, and the batch is the first slice of
`pending_events`). `Kept` is needed for the refinement: a late commit may only
record what was accepted. The lemmas `AppendRange`, `TakeAndDrop` and
`NextBatchTaken` say what appending and slicing do to the set of buffered
events. `NothingUnaccounted` (`Accounting`) is inductive over `IInv`, with
`AppendNew` and `DropInjective` for the order of the buffer.
`DuplicatesBounded` is not inductive, since a POST that the collector no longer
waits for may be committed at any later time: `RowsExplained(e)` counts the handlers
that are still at work for nobody (`Late`) as rows to come, and says when the one
row that no POST of unknown outcome accounts for may be there (`Answered`).
`InsertedTyped`, `CommitRecords` and `CommitExplained` are about a commit that is
applied, whether it returns or raises. `ExactlyOnce` draws the conclusion a user
cares about: an acknowledged event each of whose other POSTs told its outcome
(`unconfirmed[e] = 0`) is stored once. Theorems: `TypeCorrect`, `Invariance`, `AckedStored`,
`InFlightCorrect`, `NothingUnaccounted`, `DuplicatesBounded`, `ExactlyOnce`,
and `Implementation` (`Spec => DeliversAtLeastOnce`), which maps each action to
`Accept`, `Record`, `Release` or a stutter.

**InvestigationProofs.** `IInv` joins, per investigation, `Lifecycle` (where the
handler is determines its row and reply), `Looping` (a request is left, and a
round, while tools are executed) and `Evident` (`allowed_event_ids` is exactly
what the audit table holds from the agent, as long as a report can still be
completed). `Evident` is what makes `EvidenceBacked` inductive, and `Lifecycle`
what makes `Finality` hold: in the except clause a usable session implies that
nothing has been committed yet. `RecordedEvidence` says what one audit record
adds; `OnlyOne` reduces a step of one handler to its own investigation.
`SettledHolds` is shown beside `IInv`: `Settled` says that a session is usable
until a handler is in its except clause, and that an unusable one there is
`Excused`: by a fault, a refused record or a refused report. `ExecutionsAreRecorded` balances the executions of an agent against its
result records (`Balance`): `Booked` says that one is missing while
`execute_agent_tool` is between the query and the commit of its record, none
otherwise, and at most one once the handler has failed. Theorems: `TypeCorrect`, `Invariance`,
`EvidenceHolds`, `CitedHolds`, `RepliesAgree`, `FinalityHolds`, `SettledHolds`,
`ExecutionsAreRecorded`.

**KernelProbeProofs.** `IInv` joins the types, `StacksOK` (which nestings of
calls there are) and `CallsOK` (a call that was recorded and is in progress has
its entry in the map of its family) with `SamplesTrue`. `LeaksExplained` is not
inductive: an entry becomes stale when its call returns unseen, which `gaps`
counted when it was entered. `OrphansCounted` counts from then on the entries that
no return probe is going to delete.
Theorems: `TypeCorrect`, `PendingEntriesMatch`, `SamplesAreTrue`,
`LeaksAreExplained`, for any threads, owners and map size.

**AnalyticsProofs.** Both halves of `BurstsTrue` need no invariant beyond
types: the second half counts a burst in the two calendar minutes it can touch and
shows that one half exceeds the threshold. `NothingMissed` and `AlarmsExplained`
need `BaselineKnown`: what the first statement read is the baseline of rows
that are still there, since rows are never removed or changed (`TableGrows`).
Theorems: `TypeCorrect`, `BurstsAreTrue`, `EvidenceIsSufficient`,
`ReportedBurstsPersist`, `NothingIsMissed`, `AlarmsAreExplained`.

About `Simulation`, in the same module, `SimInv` says, per run, that its events are stored as they
were generated, all when the commit returned, all or none when it raised, and none
before it was `Tried` (`Stored`), what the client may know of its handler
(`Progress`), and that runs follow one another (`Successive`); that a request is
about the simulated PID and was made after the events it knows of; and
`BaselineKnown`. `BurstSeen` is arithmetic: the burst begins
with a calendar minute and is shorter than one (`WithinTheMinute`), so it is in one
group of the rule. For `IncidentIsUnusual`, `NewInNoBaseline` shows that no row with
the new destination precedes the recent span unless an earlier run stored it.
Theorems: `SimInvariance`, `BurstIsReported`, `IncidentIsUnusual`, for any length of
a minute, any numbers of events and any number of runs.

**EventParserProofs.** `ClocksRelated`, `SamplesRelated` and `EventsRelated` carry
the difference of the two clocks from the offset's computation to the sample and
to the event; `NearestBounds` bounds the rounding. `DestinationIsTrue` rests on
`RoundTrip`: `ToBytes` undoes `FromBytes` for any number of bytes, in either
order. Both are recursive functions; `ValueExists` shows that a function with the
defining equation exists, and by induction the quotients of the value are the
values of its first bytes. Theorems: `TimestampsAreOrdered`, `ErrorIsExplained`,
`DestinationIsTrue`.

**ConversationProofs.** `IInv` says that the turns alternate, that past rounds are
`Settled` (answered, and their executions are history), that between rounds
every call has been executed (`Asking`), and within a round what has been executed
and answered so far are the first calls, in order (`Executing`). The number of
calls before a turn (`CallCount`) is a recursive function over the turns:
`CountAppend` and `EarlierTurns` say what a new turn changes. `RequestsDistinct` and
`PendingName` are the heart: ids made up by the provider differ from each other
and from the model's, so Gemini's names are found under them. Theorem:
`CallsAreAnswered`, for any number of rounds, parallel calls and tools.

**MockProviderProofs.** The first part is about `EventIds`. `JsonIs`, `SetsAre` and
`ListsAre` show that the recursive functions exist and satisfy their equations up to
`Depth`; `Shape` says what a value is made of. `ProviderFindsWhatAgentAllows`
(`SearchesAgree`) follows by induction on the depth (`AtomsAgree`, `ChildrenAgree`):
the set that the agent allows and the sequence that the mock provider
collects have the same members for *every* value, however nested. The second part
is about `AgentTools`: `Found(depth, value)` are the ids in a value of that depth;
one lemma per constructor (`AtomHas`,
`ListHas`, `DictHas`) and per shape of an entry (`EventEntryHas`, `BurstGroupHas`,
...) builds up the five results (`ConnectionsShown`, `TimelineShown`, `TopShown`,
`BurstsShown`, `UnusualShown`). For the timeline, every selected event must be in
the entry of some minute (`UnrepeatedIs`, `AmongIs`); for the ranked lists, every
group must be in the list (`RankedRows`). `TruncationTold` needs that `OrderedRows` are
permutations of the rows: the cut is then at a place in the order of time.
`AllIdsExtracted` is no consequence of types alone: the destinations that a finished
request reports must be groups of rows (`ReplyGrouped`). The third part is the demo.
`DemoInv` adds that the agent allows what it found in the results so far
(`AllowedFound`), that the first result is about the PID asked for
(`TimelineFirst`), and that a report cites the first citable ids (`Written`). With the
agreement of the two searches, what is cited is allowed. Theorems:
`ProviderFindsWhatAgentAllows`, `DemoInvariance`, `IdsAreExtracted`,
`TruncationIsTold`, `ReportIsAccepted`, `TimelineIsCited`, for any table, limits,
thresholds, orders of ties and numbers of cited ids. TLC has checked `DemoInv` but
for `DemoTypeOK`, because `Json[Depth]` is an infinite set.

**Induction.** The induction theorems of the library take an operator as a
parameter, which the provers cannot instantiate. `Induction` in
`EventParserProofs`, `ConversationProofs` and `MockProviderProofs` states induction for *sets* of
naturals instead, and is proved by the pigeonhole principle for finite sets: if
a set that contains 0 and all successors missed `n`, the successor would map its
part below `n` one to one into that part without 0. `Iterate` derives from it
that functions defined by recursion exist, which is all that a recursive
definition needs.

**ConnectionPoolProofs.** The invariant says where a session holds a connection,
that at most `Capacity` do, and what has been stored at each place of the three
handlers. Theorems: `TypeCorrect`, `PoolIsSpared`, `EventsStoredAsTold`, `RunningIsExplained`, for any capacity and any requests.

**Only model-checked**: the liveness properties (`EventuallyStored`,
`InterruptEnds`, `FallsSilent`, `RunningEnds`, `AllEnd`, `SimulatorEnds`), which
depend on fairness and `ENABLED` and are out of the prover's reach.

## 6. Not modelled, and the plan

Not modelled: the read and health endpoints (`GET /investigations/{id}`, its
tool calls, `/health`, `/health/database`), each one statement that changes
nothing; SQL text and indices; wording; tests, containers and CI. Of
`Investigation` and `ConnectionPool`, the first has failing statements and
unlimited connections, the second the reverse; a timeout of the pool is one of
the faults of the first. Schema bounds on query parameters are the sets
`Thresholds`, `Spans` and `Limits`.

What is left: `Investigation` with `Conversation`'s providers in place of the
arbitrary one. The arbitrary one can do whatever they do, so what is
proved of `Investigation` holds with either; a joint module would show in addition
that the loop's results are the ones the conversation sends back, which
`Conversation` models with a loop of its own.

## 7. Running

    tlc -workers 2 -config MCDelivery.cfg MCDelivery
    tlapm DeliveryProofs.tla

and likewise for the other configurations, each with the module whose name its
own name begins with, and the other modules of proofs. `delivery`
takes three minutes, `investigation` and `simulation` one to two each, the others
less.

----------------------------- MODULE ConnectionPool -----------------------------
(***************************************************************************)
(* The sessions of backend/app/database.py and the pool of connections     *)
(* behind them.  create_async_engine takes the defaults of SQLAlchemy's    *)
(* queue pool: five connections and ten more when these are in use, and an *)
(* exception for whoever has waited 30 seconds for one.                    *)
(*                                                                         *)
(* A session takes a connection for the first statement of a transaction   *)
(* and returns it when the transaction or the session ends.  So a handler  *)
(* of backend/app/main.py keeps a connection from a refresh() to the next  *)
(* commit(), and over the awaits in between.                               *)
(*                                                                         *)
(* Statements succeed here; module Investigation is about those that fail. *)
(***************************************************************************)
EXTENDS Integers, FiniteSets

CONSTANTS
    Investigation,  \* POST /investigations
    Event,          \* POST /events
    Batch,          \* POST /events/batch
    Capacity,       \* 5 + 10
    MaxRounds,      \* maximum_rounds
    MaxTools,       \* bound: tool requests of an investigation
    MaxTimeouts     \* bound: requests for which the 30 seconds pass

ASSUME ConnectionPoolAssumption ==
    /\ Capacity \in Nat \ {0}
    /\ MaxRounds \in Nat /\ MaxTools \in Nat /\ MaxTimeouts \in Nat
    /\ Investigation \cap (Event \cup Batch) = {} /\ Event \cap Batch = {}

VARIABLES
    pc,             \* where a request's handler is
    held,           \* connections its session holds
    row,            \* its row: absent, running, failed, completed, or stored
    reply,          \* status code
    round, tools,   \* of an investigation
    timedOut        \* history: the places where a handler waited in vain

vars == <<pc, held, row, reply, round, tools, timedOut>>

-----------------------------------------------------------------------------
Request == Investigation \cup Event \cup Batch

(* Where the handler awaits the database.                                  *)
Awaiting == {"inserting", "refreshing", "querying", "refusing", "auditing",
             "completing", "rereading", "failing"}

At(r, place) == pc[r] = place
InUse == {r \in Request : held[r] > 0}

(* Mutant of NeedsConnection: the audit has a session of its own.          *)
AuditNeedsItsOwn(r) ==
    pc[r] \in Awaiting /\ held[r] < IF At(r, "auditing") THEN 2 ELSE 1

NeedsConnection(r) == pc[r] \in Awaiting /\ held[r] = 0

(* Mutant of CheckOut: the overflow has no limit.                          *)
CheckOutAlways(r) ==
    /\ NeedsConnection(r)
    /\ held' = [held EXCEPT ![r] = @ + 1]
    /\ UNCHANGED <<pc, row, reply, round, tools, timedOut>>

CheckOut(r) ==
    /\ NeedsConnection(r)
    /\ Cardinality(InUse) < Capacity
    /\ held' = [held EXCEPT ![r] = @ + 1]
    /\ UNCHANGED <<pc, row, reply, round, tools, timedOut>>

(* A statement at some place, with the session's connection.               *)
Execute(r, place, next) ==
    /\ At(r, place) /\ ~NeedsConnection(r)
    /\ pc' = [pc EXCEPT ![r] = next]

Keep == UNCHANGED held
Return(r) == held' = [held EXCEPT ![r] = 0]

(* The dependency get_session closes the session after the reply.          *)
Reply(r, code) == reply' = [reply EXCEPT ![r] = code]

-----------------------------------------------------------------------------
(* Mutant of Insert: a batch is flushed, and rolled back by the session's  *)
(* end.                                                                    *)
InsertFlushed(r) ==
    /\ Execute(r, "inserting", IF r \in Batch THEN "done" ELSE "refreshing")
    /\ Return(r)
    /\ row' = [row EXCEPT ![r] = IF r \in Investigation THEN "running"
                                ELSE IF r \in Event THEN "stored" ELSE @]
    /\ IF r \in Batch THEN Reply(r, 201) ELSE UNCHANGED reply
    /\ UNCHANGED <<round, tools, timedOut>>

(* The first commit of all three handlers.                                 *)
Insert(r) ==
    /\ Execute(r, "inserting", IF r \in Batch THEN "done" ELSE "refreshing")
    /\ Return(r)
    /\ row' = [row EXCEPT ![r] = IF r \in Investigation THEN "running" ELSE "stored"]
    /\ IF r \in Batch THEN Reply(r, 201) ELSE UNCHANGED reply
    /\ UNCHANGED <<round, tools, timedOut>>

(* refresh(): create_event replies, create_investigation runs the agent.   *)
Refresh(r) ==
    /\ Execute(r, "refreshing", IF r \in Event THEN "done" ELSE "asking")
    /\ IF r \in Event THEN Reply(r, 201) /\ Return(r) ELSE UNCHANGED reply /\ Keep
    /\ UNCHANGED <<row, round, tools, timedOut>>

(* The provider answers: with tool requests, with a report, or not at all. *)
Answer(r, next) ==
    /\ At(r, "asking")
    /\ next \in {"querying", "refusing"} => tools[r] < MaxTools
    /\ next # "failing" => round[r] < MaxRounds
    /\ pc' = [pc EXCEPT ![r] = next]
    /\ UNCHANGED <<held, row, reply, round, tools, timedOut>>

ProviderAnswers(r) ==
    \E next \in {"querying", "refusing", "completing", "failing"} : Answer(r, next)

(* execute_agent_tool: the query, then the commit of the audit record.     *)
Query(r) ==
    /\ Execute(r, "querying", "auditing") /\ Keep
    /\ UNCHANGED <<row, reply, round, tools, timedOut>>

(* After the commit the next tool is executed, or the provider continues.  *)
Audit(r) ==
    /\ \E next \in {"querying", "refusing", "asking"} :
          /\ Execute(r, "auditing", next) /\ Return(r)
          /\ next # "asking" => tools[r] + 1 < MaxTools
          /\ round' = [round EXCEPT ![r] = IF next = "asking" THEN @ + 1 ELSE @]
    /\ tools' = [tools EXCEPT ![r] = @ + 1]
    /\ UNCHANGED <<row, reply, timedOut>>

(* A tool request that is refused: its record is committed, and it raises. *)
Refuse(r) ==
    /\ Execute(r, "refusing", "failing") /\ Return(r)
    /\ UNCHANGED <<row, reply, round, tools, timedOut>>

(* commit() and refresh() of the completed investigation.                  *)
Complete(r) ==
    /\ Execute(r, "completing", "rereading") /\ Return(r)
    /\ row' = [row EXCEPT ![r] = "completed"]
    /\ UNCHANGED <<reply, round, tools, timedOut>>

Reread(r) ==
    /\ Execute(r, "rereading", "done") /\ Return(r)
    /\ Reply(r, 201)
    /\ UNCHANGED <<row, round, tools, timedOut>>

(* The except clause.                                                      *)
Fail(r) ==
    /\ Execute(r, "failing", "done") /\ Return(r)
    /\ row' = [row EXCEPT ![r] = "failed"]
    /\ Reply(r, 502)
    /\ UNCHANGED <<round, tools, timedOut>>

-----------------------------------------------------------------------------
(* TimeoutError.  Raised by a query it leaves the session usable, and the  *)
(* except clause goes on, waiting for a connection again.  A commit() or   *)
(* refresh() that raises it expires the objects: the except clause raises  *)
(* at investigation.id, as it does when its own commit raises.  The first  *)
(* commit and refresh are outside the try block.                           *)
TimedOut(r, next) ==
    /\ pc' = [pc EXCEPT ![r] = next]
    /\ timedOut' = [timedOut EXCEPT ![r] = @ \cup {pc[r]}]
    /\ IF next = "done" THEN Reply(r, 500) ELSE UNCHANGED reply

(* Mutant of PoolTimeout: the tools' queries are outside the try block.    *)
PoolTimeoutEnds(r) ==
    /\ NeedsConnection(r) /\ Cardinality(InUse) >= Capacity
    /\ Cardinality({q \in Request : timedOut[q] # {}}) < MaxTimeouts
    /\ TimedOut(r, "done")
    /\ UNCHANGED <<held, row, round, tools>>

PoolTimeout(r) ==
    /\ NeedsConnection(r) /\ Cardinality(InUse) >= Capacity
    /\ Cardinality({q \in Request : timedOut[q] # {}}) < MaxTimeouts
    /\ TimedOut(r, IF At(r, "querying") THEN "failing" ELSE "done")
    /\ UNCHANGED <<held, row, round, tools>>

-----------------------------------------------------------------------------
TypeOK ==
    /\ pc \in [Request -> Awaiting \cup {"asking", "done"}]
    /\ held \in [Request -> 0..1]
    /\ row \in [Request -> {"absent", "running", "failed", "completed", "stored"}]
    /\ reply \in [Request -> {0, 201, 500, 502}]
    /\ round \in [Request -> 0..MaxRounds]
    /\ tools \in [Request -> 0..MaxTools]
    /\ timedOut \in [Request -> SUBSET Awaiting]

Init ==
    /\ pc = [r \in Request |-> "inserting"]
    /\ held = [r \in Request |-> 0]
    /\ row = [r \in Request |-> "absent"]
    /\ reply = [r \in Request |-> 0]
    /\ round = [r \in Request |-> 0] /\ tools = [r \in Request |-> 0]
    /\ timedOut = [r \in Request |-> {}]

Step(r) ==
    \/ CheckOut(r) \/ Insert(r) \/ Refresh(r)
    \/ ProviderAnswers(r) \/ Query(r) \/ Audit(r) \/ Refuse(r)
    \/ Complete(r) \/ Reread(r) \/ Fail(r)

Next == \E r \in Request : Step(r) \/ PoolTimeout(r)

Spec == Init /\ [][Next]_vars

(* The pool gives a connection that is returned to one that waits, the     *)
(* database answers, and so do the clients of the providers.  The 30       *)
(* seconds need never pass.                                                *)
FairSpec == Spec /\ \A r \in Request : WF_vars(Step(r))

-----------------------------------------------------------------------------
(* The pool is never overdrawn, and what is checked out is returned when   *)
(* the handler is done.                                                    *)
PoolAccounted ==
    /\ Cardinality(InUse) <= Capacity
    /\ \A r \in InUse : ~At(r, "done")

(* A connection is kept over an await of the provider only in start(), and *)
(* not once a tool has been executed.                                      *)
HeldOverStartOnly ==
    \A r \in InUse : At(r, "asking") => round[r] = 0

(* Both together: what the pool can rely on.                               *)
PoolSpared == PoolAccounted /\ HeldOverStartOnly

(* An event is stored if the client is told so; told otherwise, it is      *)
(* stored only when a single event's refresh found no connection.          *)
StoredAsTold ==
    \A r \in Event \cup Batch : At(r, "done") =>
        (row[r] = "stored" <=> reply[r] = 201 \/ "refreshing" \in timedOut[r])

(* The row of an investigation that is answered stays running only if a    *)
(* commit or refresh of its own waited in vain: a query's timeout alone    *)
(* makes it failed.                                                        *)
RunningExplained ==
    \A r \in Investigation : At(r, "done") /\ row[r] = "running" =>
        timedOut[r] \ {"querying"} # {}

(* Nobody waits for a connection while holding one, so all requests end    *)
(* even when there are more of them than connections and no wait is cut    *)
(* short.                                                                  *)
AllEnd == \A r \in Request : <>At(r, "done")
=================================================================================

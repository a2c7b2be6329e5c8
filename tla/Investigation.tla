----------------------------- MODULE Investigation -----------------------------
(***************************************************************************)
(* POST /investigations: the handler create_investigation of               *)
(* backend/app/main.py, the agent's loop run_investigation_agent           *)
(* (backend/app/agent.py) it awaits, and execute_agent_tool                *)
(* (backend/app/agent_tools.py) with its audit table, beside the debug     *)
(* endpoint that executes a tool on somebody else's investigation.         *)
(*                                                                         *)
(* Every await is a step of its own.  The language model is free to ask    *)
(* for anything and to report anything; the database may fail any          *)
(* operation, and a commit that fails may have been applied all the same.  *)
(***************************************************************************)
EXTENDS Integers, Sequences, FiniteSets

CONSTANTS
    Id,             \* investigations
    EventId,        \* ids of connection_events
    Citation,       \* what a report can cite, in [event:...]
    Shapeless,      \* citations the pattern of 36 characters does not match
    Unstorable,     \* those with a NUL or half a surrogate pair, which the
                    \* table refuses, there or anywhere in a report
    Asked,          \* kinds of tool requests the model makes
    LLM_PROVIDER,   \* the environment variable
    MaximumRounds,  \* maximum_rounds (8 in the code)
    MaxRequests,    \* bound: tool requests in one response
    MaxFaults,      \* bound: failures of database, provider and API
    MaxDebug        \* bound: uses of the debug endpoint

(* A tool request, by what execute_agent_tool makes of it: "approved" is a *)
(* registered name with valid arguments; "raising" is one whose function   *)
(* raises before the database sees the query (a datetime without a time    *)
(* zone, a pid above 2^31 - 1); "unknown" and "invalid" are refused;       *)
(* "unstorable" is refused, and the table refuses the audit record (a name *)
(* of more than 100 characters, a NUL in the arguments).                   *)
Kinds == {"approved", "raising", "unknown", "invalid", "unstorable"}

ASSUME InvestigationAssumption ==
    /\ EventId \subseteq Citation
    /\ Shapeless \subseteq Citation \ EventId
    /\ Unstorable \subseteq Shapeless
    /\ Asked \subseteq Kinds
    /\ MaximumRounds \in Nat /\ MaxRequests \in Nat
    /\ MaxFaults \in Nat /\ MaxDebug \in Nat

VARIABLES
    status,     \* investigations.status, "absent" without a row
    answer,     \* the citations of investigations.answer
    audit,      \* agent_tool_calls, per investigation
    stored,     \* the rows of connection_events
    handler,    \* the handler of the POST and the agent it runs
    reply,      \* the status code the client got, or "none"
    executed,   \* history: tool functions the agent called
    faults, debugged

vars == <<status, answer, audit, stored, handler, reply, executed, faults, debugged>>
tables == <<status, answer, audit>>

-----------------------------------------------------------------------------
Terminal == {"completed", "failed"}

AuditRow == [by : {"agent", "debug"},
             outcome : {"result", "tool_not_allowed", "invalid_arguments"},
             ids : SUBSET EventId]

Fresh == [pc |-> "new", round |-> 0, requests |-> <<>>, allowed |-> {},
          result |-> {}, report |-> {}, usable |-> TRUE]

Handlers ==
    [pc : {"new", "asking", "executing", "auditing", "completing", "refreshing",
           "failing", "done"},
     round : 0..MaximumRounds,
     requests : Seq(Asked),
     allowed : SUBSET EventId,      \* allowed_event_ids
     result : SUBSET EventId,       \* the event ids in tool_result
     report : SUBSET Citation,
     usable : BOOLEAN]              \* can the session be used without rollback()?

TypeOK ==
    /\ status \in [Id -> {"absent", "running"} \cup Terminal]
    /\ answer \in [Id -> SUBSET Citation]
    /\ audit \in [Id -> Seq(AuditRow)]
    /\ stored \subseteq EventId
    /\ handler \in [Id -> Handlers]
    /\ reply \in [Id -> {"none", "201", "500", "502", "lost"}]
    /\ executed \in [Id -> Nat]
    /\ faults \in 0..MaxFaults
    /\ debugged \in 0..MaxDebug

Init ==
    /\ status = [i \in Id |-> "absent"]
    /\ answer = [i \in Id |-> {}]
    /\ audit = [i \in Id |-> <<>>]
    /\ stored = {}
    /\ handler = [i \in Id |-> Fresh]
    /\ reply = [i \in Id |-> "none"]
    /\ executed = [i \in Id |-> 0]
    /\ faults = 0 /\ debugged = 0

-----------------------------------------------------------------------------
At(i, pc) == handler[i].pc = pc
GoTo(i, pc) == handler' = [handler EXCEPT ![i].pc = pc]
Raise(i) == GoTo(i, "failing")

(* An exception that leaves the session in need of a rollback() that the   *)
(* code never calls, its objects expired or its transaction aborted.       *)
RaiseBroken(i) ==
    handler' = [handler EXCEPT ![i] = [@ EXCEPT !.pc = "failing", !.usable = FALSE]]

Answered(i, code) ==
    /\ GoTo(i, "done")
    /\ reply' = [reply EXCEPT ![i] = code]

Fault == faults < MaxFaults /\ faults' = faults + 1
NoFault == UNCHANGED faults

Recorded(i, by, outcome, ids) ==
    audit' = [audit EXCEPT ![i] =
                 Append(@, [by |-> by, outcome |-> outcome, ids |-> ids])]

-----------------------------------------------------------------------------
(* The row is inserted as running, committed and refreshed.                *)
Create(i) ==
    /\ At(i, "new")
    /\ status' = [status EXCEPT ![i] = "running"]
    /\ GoTo(i, "asking")
    /\ UNCHANGED <<answer, audit, stored, reply, executed, faults, debugged>>

(* The commit or the refresh fails, before the try block: 500.  The commit *)
(* also does, and inserts nothing, when the question has a NUL.            *)
CreateFails(i) ==
    /\ At(i, "new")
    /\ \/ NoFault /\ UNCHANGED status
       \/ /\ Fault
          /\ \E applied \in {"absent", "running"} :
                status' = [status EXCEPT ![i] = applied]
    /\ Answered(i, "500")
    /\ UNCHANGED <<answer, audit, stored, executed, debugged>>

-----------------------------------------------------------------------------
(* create_llm_provider reads LLM_PROVIDER into provider, and tests         *)
(* provider_name, which is bound nowhere, for every value but gemini.  (A  *)
(* missing GEMINI_API_KEY is a fault of the provider.)                     *)
ProviderCreated == LLM_PROVIDER = "gemini"

(* The provider's response arrives: to start() in round 0, to              *)
(* continue_with_tool_results() after it.                                  *)
Responds(i) ==
    /\ At(i, "asking")
    /\ ProviderCreated
    /\ UNCHANGED <<tables, stored, reply, executed, faults, debugged>>

RoundsLeft(i) == handler[i].round < MaximumRounds

(* Mutant of AsksForTools: nothing limits the rounds.                      *)
AsksWithoutLimit(i) ==
    /\ Responds(i)
    /\ \E n \in 1..MaxRequests : \E requests \in [1..n -> Asked] :
          handler' = [handler EXCEPT
              ![i] = [@ EXCEPT !.pc = "executing", !.requests = requests]]

(* It has tool requests, and any text is ignored.                          *)
AsksForTools(i) ==
    /\ Responds(i)
    /\ IF RoundsLeft(i)
         THEN \E n \in 1..MaxRequests : \E requests \in [1..n -> Asked] :
                 handler' = [handler EXCEPT
                     ![i] = [@ EXCEPT !.pc = "executing", !.requests = requests]]
         ELSE Raise(i)

(* Mutants of ValidReport: each without one of the two checks.             *)
ValidIfCiting(cited, allowed) == allowed # {} => cited \ Shapeless # {}
ValidIfNotInvented(cited, allowed) == cited \ Shapeless \subseteq allowed

(* validate_report_evidence.                                               *)
ValidReport(cited, allowed) ==
    /\ cited \ Shapeless \subseteq allowed
    /\ allowed # {} => cited \ Shapeless # {}

(* It is a report.                                                         *)
Reports(i) ==
    /\ Responds(i)
    /\ \E cited \in SUBSET Citation :
          IF RoundsLeft(i) /\ ValidReport(cited, handler[i].allowed)
            THEN handler' = [handler EXCEPT
                     ![i] = [@ EXCEPT !.pc = "completing", !.report = cited]]
            ELSE Raise(i)

(* It has neither, or the candidate was empty.                             *)
SaysNothing(i) == Responds(i) /\ Raise(i)

(* The provider cannot be created, or its API fails.                       *)
ProviderFails(i) ==
    /\ At(i, "asking")
    /\ IF ProviderCreated THEN Fault ELSE NoFault
    /\ Raise(i)
    /\ UNCHANGED <<tables, stored, reply, executed, debugged>>

-----------------------------------------------------------------------------
(* execute_agent_tool for the first request that is left.                  *)
Executing(i, kinds) ==
    /\ At(i, "executing")
    /\ Head(handler[i].requests) \in kinds

(* What the five read-only tools can return: the event ids of the rows     *)
(* their queries select, as extract_tool_event_ids finds them.             *)
ToolResults == SUBSET stored

(* The tool's function queries connection_events.                          *)
CallTool(i) ==
    /\ Executing(i, {"approved"})
    /\ executed' = [executed EXCEPT ![i] = @ + 1]
    /\ \E ids \in ToolResults :
          handler' = [handler EXCEPT
              ![i] = [@ EXCEPT !.pc = "auditing", !.result = ids]]
    /\ UNCHANGED <<tables, stored, reply, faults, debugged>>

(* It raises.  No except clause is around the call, so nothing is audited. *)
ToolRaises(i) ==
    /\ executed' = [executed EXCEPT ![i] = @ + 1]
    /\ \/ Executing(i, {"raising"}) /\ NoFault /\ Raise(i)
       \/ Executing(i, {"approved"}) /\ Fault /\ RaiseBroken(i)
    /\ UNCHANGED <<tables, stored, reply, debugged>>

(* The ids of the result may be cited from now on (allowed_event_ids), and *)
(* the next request is executed or, in the next round, the provider asked. *)
Proceeding(h) ==
    LET last == Len(h.requests) = 1
    IN  [h EXCEPT !.pc = IF last THEN "asking" ELSE "executing",
                  !.round = IF last THEN @ + 1 ELSE @,
                  !.requests = Tail(@),
                  !.allowed = @ \cup h.result,
                  !.result = {}]

(* Mutant of AuditResult: a result that is returned before it is recorded. *)
ResultUnrecorded(i) ==
    /\ At(i, "auditing")
    /\ handler' = [handler EXCEPT ![i] = Proceeding(handler[i])]
    /\ UNCHANGED <<tables, stored, reply, executed, faults, debugged>>

(* The result is recorded and returned to the agent.                       *)
AuditResult(i) ==
    /\ At(i, "auditing")
    /\ Recorded(i, "agent", "result", handler[i].result)
    /\ handler' = [handler EXCEPT ![i] = Proceeding(handler[i])]
    /\ UNCHANGED <<status, answer, stored, reply, executed, faults, debugged>>

(* Mutant of RefuseTool: a refused request makes the agent ask again.      *)
RefusalAsksAgain(i) ==
    /\ Executing(i, {"unknown", "invalid"})
    /\ handler' = [handler EXCEPT ![i] = [@ EXCEPT !.pc = "asking", !.requests = <<>>]]
    /\ UNCHANGED <<tables, stored, reply, executed, faults, debugged>>

(* The request is refused with a record of the refusal.                    *)
RefuseTool(i) ==
    /\ \/ /\ Executing(i, {"unknown"})
          /\ Recorded(i, "agent", "tool_not_allowed", {})
       \/ /\ Executing(i, {"invalid"})
          /\ Recorded(i, "agent", "invalid_arguments", {})
    /\ Raise(i)
    /\ UNCHANGED <<status, answer, stored, reply, executed, faults, debugged>>

(* The commit of the audit record fails.                                   *)
AuditFails(i) ==
    /\ \/ /\ Executing(i, {"unstorable"})
          /\ NoFault
          /\ UNCHANGED audit
       \/ /\ Executing(i, {"unknown", "invalid"}) \/ At(i, "auditing")
          /\ Fault
          /\ \/ UNCHANGED audit
             \/ At(i, "auditing") /\ Recorded(i, "agent", "result", handler[i].result)
             \/ Executing(i, {"unknown"}) /\ Recorded(i, "agent", "tool_not_allowed", {})
             \/ Executing(i, {"invalid"}) /\ Recorded(i, "agent", "invalid_arguments", {})
    /\ RaiseBroken(i)
    /\ UNCHANGED <<status, answer, stored, reply, executed, debugged>>

-----------------------------------------------------------------------------
(* Does the Text column take the text of the report?                       *)
Storable(report) == report \cap Unstorable = {}

(* The agent returned: the report and its status are committed.            *)
Complete(i) ==
    /\ At(i, "completing")
    /\ Storable(handler[i].report)
    /\ status' = [status EXCEPT ![i] = "completed"]
    /\ answer' = [answer EXCEPT ![i] = handler[i].report]
    /\ GoTo(i, "refreshing")
    /\ UNCHANGED <<audit, stored, reply, executed, faults, debugged>>

(* The commit raises: for the text, or although it may have been applied.  *)
CompleteFails(i) ==
    /\ At(i, "completing")
    /\ \/ /\ ~Storable(handler[i].report)
          /\ NoFault
          /\ UNCHANGED <<status, answer>>
       \/ /\ Storable(handler[i].report)
          /\ Fault
          /\ \/ UNCHANGED <<status, answer>>
             \/ /\ status' = [status EXCEPT ![i] = "completed"]
                /\ answer' = [answer EXCEPT ![i] = handler[i].report]
    /\ RaiseBroken(i)
    /\ UNCHANGED <<audit, stored, reply, executed, debugged>>

Return(i) ==
    /\ At(i, "refreshing")
    /\ Answered(i, "201")
    /\ UNCHANGED <<tables, stored, executed, faults, debugged>>

(* Mutant of RefreshFails: the except clause can go on with the object.    *)
RefreshFailsUsable(i) ==
    /\ At(i, "refreshing")
    /\ Fault
    /\ Raise(i)
    /\ UNCHANGED <<tables, stored, reply, executed, debugged>>

(* refresh() raises after it has expired the object's attributes.          *)
RefreshFails(i) ==
    /\ At(i, "refreshing")
    /\ Fault
    /\ RaiseBroken(i)
    /\ UNCHANGED <<tables, stored, reply, executed, debugged>>

(* Mutant of MarkFailed: the commit of the except clause is missing.       *)
MarkUncommitted(i) ==
    /\ At(i, "failing")
    /\ handler[i].usable
    /\ Answered(i, "502")
    /\ UNCHANGED <<tables, stored, executed, faults, debugged>>

(* The except clause: the row becomes failed, and the client gets 502.     *)
MarkFailed(i) ==
    /\ At(i, "failing")
    /\ handler[i].usable
    /\ status' = [status EXCEPT ![i] = "failed"]
    /\ answer' = [answer EXCEPT ![i] = {}]
    /\ Answered(i, "502")
    /\ UNCHANGED <<audit, stored, executed, faults, debugged>>

(* It raises itself: on the attribute investigation.id or at the commit of *)
(* a session that needs a rollback(), or because this commit fails too.    *)
MarkingFails(i) ==
    /\ At(i, "failing")
    /\ \/ ~handler[i].usable /\ NoFault /\ UNCHANGED <<status, answer>>
       \/ /\ handler[i].usable
          /\ Fault
          /\ \/ UNCHANGED <<status, answer>>
             \/ /\ status' = [status EXCEPT ![i] = "failed"]
                /\ answer' = [answer EXCEPT ![i] = {}]
    /\ Answered(i, "500")
    /\ UNCHANGED <<audit, stored, executed, debugged>>

-----------------------------------------------------------------------------
(* The API process dies with its handlers; a restarted one resumes none.   *)
Crash ==
    /\ Fault
    /\ LET dead == {i \in Id : handler[i].pc \notin {"new", "done"}}
       IN  /\ handler' = [i \in Id |-> IF i \in dead THEN [handler[i] EXCEPT !.pc = "done"]
                                                     ELSE handler[i]]
           /\ reply' = [i \in Id |-> IF i \in dead THEN "lost" ELSE reply[i]]
    /\ UNCHANGED <<tables, stored, executed, debugged>>

(* POST /debug/investigations/{id}/execute-tool, whatever the investigation*)
(* is doing.                                                               *)
Debug(i) ==
    /\ status[i] # "absent"
    /\ debugged < MaxDebug
    /\ debugged' = debugged + 1
    /\ \E row \in AuditRow :
          /\ row.ids \subseteq IF row.outcome = "result" THEN stored ELSE {}
          /\ Recorded(i, "debug", row.outcome, row.ids)
    /\ UNCHANGED <<status, answer, stored, handler, reply, executed, faults>>

(* Collector or simulator store an event meanwhile.                        *)
Ingest(e) ==
    /\ e \in EventId \ stored
    /\ stored' = stored \cup {e}
    /\ UNCHANGED <<tables, handler, reply, executed, faults, debugged>>

Handling(i) ==
    \/ Create(i) \/ AsksForTools(i) \/ Reports(i) \/ SaysNothing(i)
    \/ ProviderFails(i)
    \/ CallTool(i) \/ ToolRaises(i) \/ AuditResult(i) \/ RefuseTool(i) \/ AuditFails(i)
    \/ Complete(i) \/ CompleteFails(i) \/ Return(i) \/ MarkFailed(i) \/ MarkingFails(i)

Next ==
    \/ \E i \in Id :
          \/ Handling(i)
          \/ CreateFails(i) \/ RefreshFails(i)
          \/ Debug(i)
    \/ Crash
    \/ \E e \in EventId : Ingest(e)

Spec == Init /\ [][Next]_vars

(* The event loop goes on with a handler, and the provider, which the code *)
(* awaits without a timeout of its own, answers or fails in the end.       *)
FairSpec == Spec /\ \A i \in Id : WF_vars(Handling(i))

-----------------------------------------------------------------------------
(* The event ids that the tools the agent executed returned to it, as the  *)
(* audit table has them.                                                   *)
AgentRows(i) == {n \in DOMAIN audit[i] : audit[i][n].by = "agent"}
Evidence(i) == UNION {audit[i][n].ids : n \in AgentRows(i)}

(* The citations of a completed report that have the shape of an id name   *)
(* only events that an audited tool call of the same investigation         *)
(* returned (README.md:9, README.md:20).                                   *)
EvidenceBacked ==
    \A i \in Id : status[i] = "completed" => answer[i] \ Shapeless \subseteq Evidence(i)

(* If its tools returned events at all, a completed report cites some.     *)
EvidenceCited ==
    \A i \in Id :
        status[i] = "completed" /\ Evidence(i) # {} => answer[i] \ Shapeless # {}

(* The reply agrees with the row: 201 for a completed investigation, 502   *)
(* for one that is marked failed.                                          *)
ReplyAgrees ==
    \A i \in Id : /\ reply[i] = "201" => status[i] = "completed"
                  /\ reply[i] = "502" => status[i] = "failed"

(* A row goes from running to one of the terminal states and stays there   *)
(* with its answer, whatever raises afterwards.                            *)
Finality ==
    [][\A i \in Id : status[i] \in Terminal => UNCHANGED <<status[i], answer[i]>>]_vars

(* When the handler has ended, its row stays running only because the      *)
(* database or the API failed, because the request being executed is one   *)
(* whose audit record the table refuses (agent_tools.py:399, :425), or     *)
(* because the text of the report is one that it refuses (main.py:397).    *)
SettledUnlessBroken ==
    \A i \in Id : reply[i] # "none" /\ status[i] = "running" =>
        \/ faults > 0
        \/ handler[i].requests # <<>> /\ Head(handler[i].requests) = "unstorable"
        \/ ~Storable(handler[i].report)

(* Every tool function an agent called has a record with its result, save  *)
(* the last one of an investigation that was not completed (README.md:9,   *)
(* README.md:222): a function may raise, and so may the commit.            *)
ExecutionsRecorded ==
    \A i \in Id : reply[i] # "none" =>
        LET recorded == {n \in AgentRows(i) : audit[i][n].outcome = "result"}
        IN  executed[i] - Cardinality(recorded) \in
                IF status[i] = "completed" THEN {0} ELSE 0..1

(* When the handler has replied, its row is no longer running: a failing   *)
(* agent marks the investigation failed                                    *)
(* (backend/tests/test_investigation_api.py:58, :97).                      *)
SettledWhenReplied ==
    \A i \in Id : reply[i] \in {"201", "500", "502"} => status[i] # "running"

(* The demo that LLM_PROVIDER=mock promises (README.md:91) does not fail.  *)
DemoCompletes ==
    LLM_PROVIDER = "mock" /\ faults = 0 => \A i \in Id : status[i] # "failed"

(* A running investigation is completed or failed in the end, or its       *)
(* client has an answer or a broken connection.                            *)
RunningEnds ==
    \A i \in Id : (status[i] = "running") ~> (status[i] \in Terminal \/ reply[i] # "none")
=============================================================================

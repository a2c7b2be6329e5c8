----------------------------- MODULE MockProvider -----------------------------
(***************************************************************************)
(* A demonstration: run_investigation_agent of backend/app/agent.py with   *)
(* the MockProvider of backend/app/llm/mock_provider.py, which asks for    *)
(* three tools and reports on their results.  Events go on being stored    *)
(* between the statements of the tools.                                    *)
(*                                                                         *)
(* Nothing is stored any more once the report is written (a bound).        *)
(* Failures of the database and of the audit are module Investigation's    *)
(* subject and left out here.                                              *)
(***************************************************************************)
EXTENDS AgentTools

CONSTANTS
    BurstThreshold, \* 100
    MaxCited        \* 3

ASSUME MockProviderAssumption == BurstThreshold \in Nat \ {0} /\ MaxCited \in Nat \ {0}

VARIABLE demo       \* pc: the next step; the PID asked about, tool_results,
                    \* allowed_event_ids; the report's text and what it cites

demoVars == <<vars, demo>>

-----------------------------------------------------------------------------
(* start() finds no PID in the question: a text and no tool requests.      *)
StartWithoutPid ==
    /\ demo.pc = "start"
    /\ demo' = [demo EXCEPT !.pc = "done", !.text = "Demo mode requires a PID"]
    /\ UNCHANGED vars

Start(pid) ==
    /\ demo.pc = "start"
    /\ demo' = [demo EXCEPT !.pc = "timeline", !.pid = {pid}]
    /\ UNCHANGED vars

(* The loop over tool_requests: what the result adds, and the next request.*)
Returned(result, next) ==
    demo' = [demo EXCEPT !.pc = next,
                         !.tool_results = Append(@, result),
                         !.allowed_event_ids = @ \cup extract_tool_event_ids(result)]

ReadTimeline ==
    /\ demo.pc = "timeline"
    /\ \E pid \in demo.pid : \E events \in SelectTimeline(pid) :
           Returned(get_event_timeline(events), "bursts")
    /\ UNCHANGED vars

ReadBursts ==
    /\ demo.pc = "bursts"
    /\ \E result \in find_connection_bursts(RecentBursts(BurstThreshold, Day)) :
           Returned(result, "unusual")
    /\ UNCHANGED vars

ReadUsual ==
    /\ demo.pc = "unusual"
    /\ \E pid \in demo.pid : ReadBaseline(pid, Hour, Day)
    /\ UNCHANGED demo

ReadUnusual ==
    /\ demo.pc = "unusual"
    /\ ReadRecent
    /\ \E result \in find_unusual_destinations(request'.unusual_destinations) :
           Returned(result, "report")

CitableIds(tool_results) ==
    Unrepeated(FlattenSeq([i \in DOMAIN tool_results |-> extract_event_ids(tool_results[i])]))

(* Mutant of Report: the report on the first result only.                  *)
ReportOnTimeline ==
    /\ demo.pc = "report"
    /\ LET event_ids == CitableIds(SubSeq(demo.tool_results, 1, 1))
       IN  demo' = [demo EXCEPT
               !.pc = "done",
               !.text = IF event_ids = <<>> THEN "No supporting events" ELSE "PID produced activity",
               !.cited = {event_ids[i] : i \in 1..MaxCited \cap DOMAIN event_ids}]
    /\ UNCHANGED vars

(* continue_with_tool_results() writes the report.                         *)
Report ==
    /\ demo.pc = "report"
    /\ LET event_ids == CitableIds(demo.tool_results)
       IN  demo' = [demo EXCEPT
               !.pc = "done",
               !.text = IF event_ids = <<>> THEN "No supporting events" ELSE "PID produced activity",
               !.cited = {event_ids[i] : i \in 1..MaxCited \cap DOMAIN event_ids}]
    /\ UNCHANGED vars

-----------------------------------------------------------------------------
DemoInit ==
    /\ Init
    /\ demo = [pc |-> "start", pid |-> {}, tool_results |-> <<>>,
               allowed_event_ids |-> {}, text |-> "", cited |-> {}]

DemoStore == Store /\ demo.pc # "done" /\ UNCHANGED demo
DemoPass == Pass /\ demo.pc # "done" /\ UNCHANGED demo

DemoNext ==
    \/ DemoStore \/ DemoPass
    \/ StartWithoutPid
    \/ \E pid \in Pid : Start(pid)
    \/ ReadTimeline \/ ReadBursts \/ ReadUsual \/ ReadUnusual
    \/ Report

DemoSpec == DemoInit /\ [][DemoNext]_demoVars

-----------------------------------------------------------------------------
(* Whatever the tools return, the report is one that the agent's evidence  *)
(* check accepts: provider and agent extract ids by recursions of their    *)
(* own, and the provider cites a few of them only.                         *)
ReportAccepted ==
    demo.pc = "done" => validate_report_evidence(demo.cited, demo.allowed_event_ids)

(* When the timeline showed an event of the PID, the report cites one,     *)
(* however many bursts of other processes were found after it.             *)
CitesTimeline ==
    demo.text = "PID produced activity" /\ extract_event_ids(demo.tool_results[1]) # <<>> =>
        \E n \in demo.cited : rows[n].pid \in demo.pid
=============================================================================

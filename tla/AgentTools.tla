------------------------------ MODULE AgentTools ------------------------------
(***************************************************************************)
(* The five read-only tools of backend/app/agent_tools.py: the rows each   *)
(* selects and the JSON value it returns.  Three of them are copies of     *)
(* endpoints of backend/app/main.py and share the definitions of module    *)
(* Analytics.                                                              *)
(*                                                                         *)
(* A tool is the set of the results it may return: PostgreSQL orders rows  *)
(* of equal timestamps, and the ids in an array_agg, as it likes.          *)
(***************************************************************************)
EXTENDS Analytics, EventIds

CONSTANTS
    Hour, Day,      \* the tools' spans of 60 and 24 * 60 minutes
    MaxEvents       \* LIMIT 500

ToolKeys ==
    {"pid", "process_name", "connection_count", "event_id", "event_ids", "event_count", "events",
     "timestamp", "destination_ip", "minutes", "processes", "window_start", "threshold", "bursts",
     "first_seen", "unusual_destinations", "lookback_hours", "returned_event_count", "truncated",
     "timeline", "destinations"}

ASSUME AgentToolsAssumption ==
    /\ ToolKeys \subseteq Keys
    /\ Hour \in Nat \ {0} /\ Day \in Nat \ {0}
    /\ MaxEvents \in Nat \ {0}
    /\ RowId \cup Name \cup Dest \cup Stamp \cup {at \div Minute : at \in Stamp} \subseteq Texts
    /\ Depth >= 4          \* no result is nested deeper

-----------------------------------------------------------------------------
(* ORDER BY timestamp: one of the orders that time allows.                 *)
InOrder(ids) ==
    {s \in SetToSeqs(ids) :
        \A i, j \in DOMAIN s : i < j => rows[s[i]].at <= rows[s[j]].at}

Shorter(s) == IF Len(s) < MaxEvents THEN Len(s) ELSE MaxEvents

IdList(ids) == List([i \in DOMAIN ids |-> Text(ids[i])])

(* array_agg(ConnectionEvent.id).                                          *)
Aggregates(ids) == SetToSeqs(ids)

SeqOfAggregates(groups) ==
    {ids \in [DOMAIN groups -> UNION {Aggregates(groups[i]) : i \in DOMAIN groups}] :
        \A i \in DOMAIN groups : ids[i] \in Aggregates(groups[i])}

(* ORDER BY rank: every group, smallest rank first, its ids in some order. *)
InRank(groups, rank) ==
    UNION {SeqOfAggregates(order) : order \in
        {s \in SetToSeqs(groups) :
            \A i, j \in DOMAIN s : i < j => rank[s[i]] <= rank[s[j]]}}

(* ORDER BY connection_count DESC.                                         *)
CountDescending(groups) == [g \in groups |-> -Cardinality(g)]

(* get_process_connections: the oldest events between two times.           *)
SelectConnections(pid, start, end) ==
    {SubSeq(s, 1, Shorter(s)) : s \in InOrder({n \in OfPid(pid) : rows[n].at \in start..end})}

EventEntry(n) ==
    Dict(<< Item("event_id", Text(n)), Item("timestamp", Text(rows[n].at)),
            Item("process_name", Text(rows[n].name)), Item("destination_ip", Text(rows[n].dest)) >>)

get_process_connections(events) ==
    Dict(<< Item("pid", Number), Item("event_count", Number),
            Item("events", List([i \in DOMAIN events |-> EventEntry(events[i])])) >>)

(* get_top_network_processes and find_connection_bursts: a list of groups. *)
ProcessGroup(ids) ==
    Dict(<< Item("pid", Number), Item("process_name", Text(rows[ids[1]].name)),
            Item("connection_count", Number), Item("event_ids", IdList(ids)) >>)

get_top_network_processes(top) ==
    {Dict(<< Item("minutes", Number),
             Item("processes", List([i \in DOMAIN ids |-> ProcessGroup(ids[i])])) >>) :
        ids \in InRank(top, CountDescending(top))}

BurstGroup(ids) ==
    Dict(<< Item("pid", Number), Item("process_name", Text(rows[ids[1]].name)),
            Item("window_start", Text(Window(ids[1]))),
            Item("connection_count", Number), Item("event_ids", IdList(ids)) >>)

find_connection_bursts(bursts) ==
    {Dict(<< Item("threshold", Number), Item("minutes", Number),
             Item("bursts", List([i \in DOMAIN ids |-> BurstGroup(ids[i])])) >>) :
        ids \in InRank(bursts, CountDescending(bursts))}

(* find_unusual_destinations, after its two statements.                    *)
FirstSeen(ids) == Min({rows[n].at : n \in ids})

UnusualGroup(ids) ==
    Dict(<< Item("destination_ip", Text(rows[ids[1]].dest)),
            Item("first_seen", Text(FirstSeen(ToSet(ids)))), Item("event_ids", IdList(ids)) >>)

find_unusual_destinations(unusual) ==
    {Dict(<< Item("pid", Number),
             Item("unusual_destinations", List([i \in DOMAIN ids |-> UnusualGroup(ids[i])])) >>) :
        ids \in InRank(unusual, [g \in unusual |-> FirstSeen(g)])}

(* get_event_timeline: the newest events of the last day, reversed into    *)
(* the order of time and put into the minutes they belong to.              *)
SelectTimeline(pid) ==
    {SubSeq(s, Len(s) - Shorter(s) + 1, Len(s)) : s \in InOrder(OfPid(pid) \cap Since(Cutoff(Day)))}

TimelineEntry(events, minute) ==
    LET ids == Among(events, {n \in ToSet(events) : Window(n) = minute})
    IN  Dict(<< Item("window_start", Text(minute)), Item("connection_count", Number),
                Item("destinations", List(SetToSeq({Text(rows[n].dest) : n \in ToSet(ids)}))),
                Item("event_ids", IdList(ids)) >>)

(* Mutant of Truncated: only if the query returned more than its LIMIT.    *)
TruncatedBeyond(events) == Len(events) > MaxEvents

Truncated(events) == Len(events) = MaxEvents

get_event_timeline(events) ==
    LET minutes == Unrepeated([i \in DOMAIN events |-> Window(events[i])])
    IN  Dict(<< Item("pid", Number), Item("lookback_hours", Number),
                Item("returned_event_count", Number),
                Item("truncated", Flag(Truncated(events))),
                Item("timeline", List([i \in DOMAIN minutes |->
                                       TimelineEntry(events, minutes[i])])) >>)

-----------------------------------------------------------------------------
(* Both recursions find in a tool's result exactly the events it selected, *)
(* for each of the five tools and whatever keys they are under.            *)
ExtractsExactly(result, ids) ==
    extract_tool_event_ids(result) = ids /\ ToSet(extract_event_ids(result)) = ids

AllIdsExtracted ==
    /\ \A pid \in Pid, start, end \in Stamp :
           \A events \in SelectConnections(pid, start, end) :
               ExtractsExactly(get_process_connections(events), ToSet(events))
    /\ \A pid \in Pid : \A events \in SelectTimeline(pid) :
           ExtractsExactly(get_event_timeline(events), ToSet(events))
    /\ \A minutes \in Spans, limit \in Limits : \A top \in TopProcesses(minutes, limit) :
           \A result \in get_top_network_processes(top) : ExtractsExactly(result, UNION top)
    /\ \A minutes \in Spans, threshold \in Thresholds :
           LET bursts == RecentBursts(threshold, minutes)
           IN  \A result \in find_connection_bursts(bursts) : ExtractsExactly(result, UNION bursts)
    /\ request.pc = "replied" =>
           \A result \in find_unusual_destinations(request.unusual_destinations) :
               ExtractsExactly(result, UNION request.unusual_destinations)

(* A timeline that leaves events out is marked truncated, even when LIMIT  *)
(* is exactly reached, and leaves out the oldest: no event it shows is     *)
(* older than one it does not show.                                        *)
TruncationTold ==
    \A pid \in Pid : \A events \in SelectTimeline(pid) :
        LET hidden == (OfPid(pid) \cap Since(Cutoff(Day))) \ ToSet(events)
        IN  /\ hidden # {} =>
                  Item("truncated", Flag(TRUE)) \in ToSet(get_event_timeline(events).items)
            /\ \A n \in ToSet(events), m \in hidden : rows[m].at <= rows[n].at
=============================================================================

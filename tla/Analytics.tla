------------------------------- MODULE Analytics -------------------------------
(***************************************************************************)
(* The analytics endpoints of backend/app/main.py, which are TracePilot's  *)
(* anomaly rules (README.md:41), over a table that collector and simulator *)
(* go on filling.                                                          *)
(*                                                                         *)
(* A result is the set of its groups, and a group is the set of its        *)
(* event_ids: pid, process_name, window_start and the counts are functions *)
(* of it.  ORDER BY matters only where a LIMIT follows.  Three queries are *)
(* a single statement, which PostgreSQL answers from one snapshot, so they *)
(* are operators on the state; find_unusual_destinations executes two, and *)
(* READ COMMITTED gives each its own snapshot, so it is a handler that     *)
(* takes two steps.                                                        *)
(***************************************************************************)
EXTENDS EventTable

CONSTANTS
    Thresholds,     \* values asked for threshold
    Spans,          \* values asked for minutes, recent_ and baseline_minutes
    Limits          \* values asked for limit

ASSUME AnalyticsAssumption ==
    /\ Thresholds \subseteq Nat \ {0}
    /\ Spans \subseteq Nat \ {0}
    /\ Limits \subseteq Nat \ {0}

VARIABLE request    \* a request for unusual destinations

vars == <<tableVars, request>>

-----------------------------------------------------------------------------
Cutoff(minutes) == now - minutes * Minute

Process(n) == <<rows[n].pid, rows[n].name>>

(* date_trunc('minute', timestamp).                                        *)
Window(n) == rows[n].at \div Minute

WindowOfProcess(n) == <<Process(n), Window(n)>>

ProcessConnections(pid) == OfPid(pid)

(* The limit groups with the most connections; PostgreSQL may break ties   *)
(* either way, so there can be several answers.                            *)
TopProcesses(minutes, limit) ==
    LET groups == GroupBy(Since(Cutoff(minutes)), Process)
    IN  {top \in SUBSET groups :
            /\ Cardinality(top) <= limit
            /\ top # groups => Cardinality(top) = limit
            /\ \A g \in top, h \in groups \ top : Cardinality(g) >= Cardinality(h)}

(* Mutant of Bursts: minutes counted back from now.                        *)
BurstsBackFromNow(ids, threshold) ==
    LET key(n) == <<Process(n), (now - rows[n].at) \div Minute>>
    IN  {g \in GroupBy(ids, key) : Cardinality(g) > threshold}

(* find_connection_bursts among some rows, and among those of the last     *)
(* minutes; nothing bounds the timestamps from above.                      *)
Bursts(ids, threshold) ==
    {g \in GroupBy(ids, WindowOfProcess) : Cardinality(g) > threshold}

(* Mutant of RecentBursts: without the minute that the cutoff divides.     *)
BurstsOfFullMinutes(threshold, minutes) ==
    Bursts({n \in Ids : Window(n) * Minute >= Cutoff(minutes)}, threshold)

RecentBursts(threshold, minutes) == Bursts(Since(Cutoff(minutes)), threshold)

Destinations(ids) == {rows[n].dest : n \in ids}

(* Mutant of HighUnique: the destinations of the pid under all its names.  *)
HighUniqueOfPid(ids, threshold) ==
    {g \in GroupBy(ids, Process) :
        \E n \in g : Cardinality(Destinations(ids \cap OfPid(rows[n].pid))) > threshold}

(* find_high_unique_destinations.                                          *)
HighUnique(ids, threshold) ==
    {g \in GroupBy(ids, Process) : Cardinality(Destinations(g)) > threshold}

RecentHighUnique(threshold, minutes) ==
    HighUnique(Since(Cutoff(minutes)), threshold)

-----------------------------------------------------------------------------
(* find_unusual_destinations.  began is history: the ids that were in use  *)
(* when the baseline was read.                                             *)
NoRequest == [pc |-> "idle"]

Requests ==
    [pc : {"baseline read", "replied"},
     pid : Pid, now : 0..MaxNow, recent_start : Int, baseline_start : Int,
     baseline_destinations : SUBSET Dest,
     unusual_destinations : SUBSET SUBSET RowId,
     began : SUBSET RowId]

(* Mutant of Baseline: the last minutes are part of it.                    *)
BaselineUpToNow(r) == {n \in OfPid(r.pid) : rows[n].at >= r.baseline_start}

Baseline(r) ==
    {n \in OfPid(r.pid) : rows[n].at >= r.baseline_start /\ rows[n].at < r.recent_start}

Recent(r) ==
    {n \in OfPid(r.pid) : rows[n].at >= r.recent_start /\ rows[n].at <= r.now}

Asked(pid, recent_minutes, baseline_minutes) ==
    [pc |-> "baseline read", pid |-> pid, now |-> now,
     recent_start |-> Cutoff(recent_minutes),
     baseline_start |-> Cutoff(recent_minutes + baseline_minutes),
     baseline_destinations |-> {}, unusual_destinations |-> {}, began |-> Ids]

(* The clock is read once, then the baseline.                              *)
ReadBaseline(pid, recent_minutes, baseline_minutes) ==
    /\ request.pc # "baseline read"
    /\ LET r == Asked(pid, recent_minutes, baseline_minutes)
       IN  request' = [r EXCEPT !.baseline_destinations = Destinations(Baseline(r))]
    /\ UNCHANGED tableVars

(* Mutants of ReadRecent: without GROUP BY, an entry for every event; and  *)
(* without the test against the baseline.                                  *)
ReadRecentUngrouped ==
    /\ request.pc = "baseline read"
    /\ request' = [request EXCEPT
           !.pc = "replied",
           !.unusual_destinations = {{n} : n \in {m \in Recent(request) :
               rows[m].dest \notin request.baseline_destinations}}]
    /\ UNCHANGED tableVars

ReadRecentUnfiltered ==
    /\ request.pc = "baseline read"
    /\ LET key(n) == rows[n].dest
       IN  request' = [request EXCEPT
               !.pc = "replied",
               !.unusual_destinations = GroupBy(Recent(request), key)]
    /\ UNCHANGED tableVars

(* The second statement groups the recent events by destination; the loop  *)
(* keeps the groups whose destination is not in the set of the first.      *)
ReadRecent ==
    /\ request.pc = "baseline read"
    /\ LET key(n) == rows[n].dest
       IN  request' = [request EXCEPT
               !.pc = "replied",
               !.unusual_destinations = {g \in GroupBy(Recent(request), key) :
                   Destinations(g) \cap request.baseline_destinations = {}}]
    /\ UNCHANGED tableVars

-----------------------------------------------------------------------------
TypeOK ==
    /\ TableTypeOK
    /\ request \in Requests \cup {NoRequest}

Init ==
    /\ TableInit
    /\ request = NoRequest

Store == (\E n \in RowId, row \in Row : Insert(n, row)) /\ UNCHANGED request
Pass == Tick /\ UNCHANGED request

Next ==
    \/ Store \/ Pass
    \/ \E pid \in Pid, recent, baseline \in Spans : ReadBaseline(pid, recent, baseline)
    \/ ReadRecent

Spec == Init /\ [][Next]_vars

-----------------------------------------------------------------------------
(* Rule 1 of README.md:45: more than threshold connections of a process    *)
(* within one minute, any minute.                                          *)
WithinAMinute(ids) == \A m, n \in ids : rows[m].at - rows[n].at < Minute

SameProcess(ids) == \A m, n \in ids : Process(m) = Process(n)

(* A reported burst is one: more than threshold connections of one process *)
(* within less than a minute.                                              *)
BurstsSound ==
    \A threshold \in Thresholds, minutes \in Spans :
        \A g \in RecentBursts(threshold, minutes) :
            Cardinality(g) > threshold /\ WithinAMinute(g) /\ SameProcess(g)

(* Calendar minutes can hide a burst, but not one of more than twice the   *)
(* threshold: no matter where the minute boundary falls, half of it is     *)
(* reported.                                                               *)
BigBurstsFound ==
    \A threshold \in Thresholds, minutes \in Spans :
        \A ids \in SUBSET Since(Cutoff(minutes)) :
            /\ Cardinality(ids) > 2 * threshold
            /\ WithinAMinute(ids) /\ SameProcess(ids)
            => \E g \in RecentBursts(threshold, minutes) : g \cap ids # {}

(* Rule 1 reports nothing but bursts, and every big one.                   *)
BurstsTrue == BurstsSound /\ BigBurstsFound

(* A burst that was reported stays reported, as a whole, until the cutoff  *)
(* passes its first event: neither late events nor the clock retract it.   *)
BurstsPersist ==
    [][\A threshold \in Thresholds, minutes \in Spans :
          \A g \in RecentBursts(threshold, minutes) :
              (\A n \in g : rows[n].at >= Cutoff(minutes)') =>
                  \E h \in RecentBursts(threshold, minutes)' : g \subseteq h]_vars

(* The event_ids of a detection suffice to establish it: the rule applied  *)
(* to these rows alone yields the same detection, and GET                  *)
(* /processes/{pid}/connections lists every one of them.                   *)
EvidenceSuffices ==
    \A threshold \in Thresholds, minutes \in Spans :
        /\ \A g \in RecentBursts(threshold, minutes) : Bursts(g, threshold) = {g}
        /\ \A g \in RecentHighUnique(threshold, minutes) :
              /\ HighUnique(g, threshold) = {g}
              /\ \E pid \in Pid : g \subseteq ProcessConnections(pid)

(* The two statements of find_unusual_destinations against one: what rule 2*)
(* of README.md:46 finds in the table as it is when the reply is made.     *)
Replies == request.pc = "baseline read" /\ request'.pc = "replied"

(* No destination is missed, and none of its recent events: whatever is    *)
(* committed between the two statements, a destination that is recent and  *)
(* in no baseline row is reported with all of its events.                  *)
NothingMissed ==
    [][Replies =>
          \A n \in Recent(request) :
              rows[n].dest \notin Destinations(Baseline(request)) =>
                  \E g \in request'.unusual_destinations :
                      g = {m \in Recent(request) : rows[m].dest = rows[n].dest}]_vars

(* A destination that is reported although a baseline row has it is        *)
(* reported because that row was committed while the request was handled.  *)
AlarmsExplained ==
    [][Replies =>
          \A g \in request'.unusual_destinations : \A n \in Baseline(request) :
              rows[n].dest \in Destinations(g) => n \notin request.began]_vars
=============================================================================

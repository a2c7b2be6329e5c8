------------------------------- MODULE Simulation -------------------------------
(***************************************************************************)
(* simulator/simulator.py: waits for the API, makes a baseline and a burst *)
(* of connections up and posts them as one batch, once.  It may be run     *)
(* again (README.md:140).  The rules of module Analytics are asked whether *)
(* they see the incident that it simulates.                                *)
(*                                                                         *)
(* A run of the simulator is a number; run k stores its events under the   *)
(* ids <<k, i>>, i counting the events of generate_events().  The API may  *)
(* be down, its handler may never answer, and it may crash.                *)
(***************************************************************************)
EXTENDS Analytics

CONSTANTS
    Run,            \* 1..n: runs of the simulator, one after the other
    Hour,           \* an hour, in minutes
    Second,         \* ticks between two events of the baseline
    Gap,            \* ticks in the 100 ms between two events of the burst
    BaselineEvents, \* 10
    BurstEvents,    \* 120
    MostEvents,     \* 90, for one destination
    BurstThreshold, \* default threshold of find_connection_bursts, 100
    Spread,         \* destinations of the events of the burst after those
    BaselineDestination, NewDestination,
    SIMULATED_PID, ProcessName,
    MaxCrashes      \* bound: crashes of the API

ASSUME SimulationAssumption ==
    /\ IsFiniteSet(Run) /\ Run = 1..Cardinality(Run)
    /\ {Hour, Second, Gap, BaselineEvents, BurstEvents, BurstThreshold, MaxCrashes} \subseteq Nat
    /\ RowId = Run \X (1..BaselineEvents + BurstEvents)
    /\ BurstThreshold < BurstEvents /\ MostEvents \in 1..BurstEvents
    /\ (BurstEvents - 1) * Gap < Minute /\ BaselineEvents * Second <= Minute
    /\ NewDestination # BaselineDestination
    /\ Spread \in [MostEvents..BurstEvents - 1 -> Dest]

VARIABLES
    simulator,      \* per run: its progress, its batch's time and its handler
    apiUp, crashes

simVars == <<vars, simulator, apiUp, crashes>>

-----------------------------------------------------------------------------
(* Mutant of burst_start: the seconds are not replaced by 0.               *)
SinceNow(at) == at

(* now.replace(second=0, microsecond=0).                                   *)
burst_start(at) == (at \div Minute) * Minute

(* make_event.                                                             *)
make_event(timestamp, destination) ==
    [at |-> timestamp, pid |-> SIMULATED_PID, name |-> ProcessName, dest |-> destination]

(* generate_events, called at some time.                                   *)
generate_events(at) ==
    [i \in 1..BaselineEvents + BurstEvents |->
        IF i <= BaselineEvents
          THEN make_event(at - 2 * Hour * Minute + (i - 1) * Second, BaselineDestination)
          ELSE LET j == i - BaselineEvents - 1
               IN  make_event(burst_start(at) + j * Gap,
                              IF j < MostEvents THEN NewDestination ELSE Spread[j])]

(* Stamp and the other domains have what the simulator sends.              *)
ASSUME GeneratedAssumption ==
    /\ SIMULATED_PID \in Pid
    /\ \A at \in 0..MaxNow :
          generate_events(at) \in [1..BaselineEvents + BurstEvents -> Row]

EventsOf(k) == {n \in RowId : n[1] = k}
BurstOf(k) == {n \in EventsOf(k) : n[2] > BaselineEvents}

-----------------------------------------------------------------------------
At(k, pc) == simulator[k].pc = pc

(* docker compose run: the one before has ended.                           *)
Launch(k) ==
    /\ At(k, "none") /\ \A j \in Run : j < k => simulator[j].pc \in {"succeeded", "raised"}
    /\ simulator' = [simulator EXCEPT ![k].pc = "waiting"]
    /\ UNCHANGED <<vars, apiUp, crashes>>

(* wait_for_api: GET /health answers, without a look at the database.  An  *)
(* attempt that fails is repeated after two seconds, and changes nothing.  *)
ApiAnswers(k) ==
    /\ At(k, "waiting") /\ apiUp
    /\ simulator' = [simulator EXCEPT ![k].pc = "ready"]
    /\ UNCHANGED <<vars, apiUp, crashes>>

(* generate_events, then the connection of httpx.post.                     *)
Post(k) ==
    /\ At(k, "ready")
    /\ simulator' = [simulator EXCEPT
           ![k] = [pc |-> IF apiUp THEN "posted" ELSE "raised",
                   at |-> now,
                   handler |-> IF apiUp THEN "received" ELSE "none"]]
    /\ UNCHANGED <<vars, apiUp, crashes>>

(* The table with the events of a run.                                     *)
Inserted(k) ==
    [n \in Ids \cup EventsOf(k) |->
        IF n \in EventsOf(k) THEN generate_events(simulator[k].at)[n[2]] ELSE rows[n]]

(* create_event_batch of backend/app/main.py, which goes on even when its  *)
(* client has given up.                                                    *)
Commit(k) ==
    /\ simulator[k].handler = "received"
    /\ rows' = Inserted(k)
    /\ simulator' = [simulator EXCEPT ![k].handler = "created"]
    /\ UNCHANGED <<now, request, apiUp, crashes>>

(* The commit raises, although it may have been applied before its         *)
(* connection was lost.                                                    *)
CommitFails(k) ==
    /\ simulator[k].handler = "received"
    /\ rows' \in {rows, Inserted(k)}
    /\ simulator' = [simulator EXCEPT ![k].handler = "rejected"]
    /\ UNCHANGED <<now, request, apiUp, crashes>>

Reply(k) ==
    /\ At(k, "posted") /\ simulator[k].handler \in {"created", "rejected"}
    /\ simulator' = [simulator EXCEPT
           ![k].pc = IF simulator[k].handler = "created" THEN "succeeded" ELSE "raised"]
    /\ UNCHANGED <<vars, apiUp, crashes>>

(* Mutant of GiveUp: timeout=None.                                         *)
GiveUpNever(k) == FALSE /\ UNCHANGED simVars

(* The 30 seconds pass: httpx.ReadTimeout ends the run.                    *)
GiveUp(k) ==
    /\ At(k, "posted")
    /\ simulator' = [simulator EXCEPT ![k].pc = "raised"]
    /\ UNCHANGED <<vars, apiUp, crashes>>

(* The API's process dies, with its handlers; the client is reset.         *)
Crash ==
    /\ apiUp /\ crashes < MaxCrashes
    /\ apiUp' = FALSE /\ crashes' = crashes + 1
    /\ simulator' = [k \in Run |->
           [simulator[k] EXCEPT
               !.pc = IF @ = "posted" THEN "raised" ELSE @,
               !.handler = IF @ = "received" THEN "none" ELSE @]]
    /\ UNCHANGED vars

StartApi ==
    /\ ~apiUp /\ apiUp' = TRUE
    /\ UNCHANGED <<vars, simulator, crashes>>

-----------------------------------------------------------------------------
(* Someone asks for unusual destinations of the simulated PID.             *)
AskUnusual == ReadBaseline(SIMULATED_PID, Hour, 24 * Hour) /\ UNCHANGED <<simulator, apiUp, crashes>>
FindUnusual == ReadRecent /\ UNCHANGED <<simulator, apiUp, crashes>>
TimePasses == Pass /\ UNCHANGED <<simulator, apiUp, crashes>>

SimInit ==
    /\ Init
    /\ simulator = [k \in Run |-> [pc |-> "none", at |-> 0, handler |-> "none"]]
    /\ apiUp = FALSE /\ crashes = 0

Simulate(k) == Launch(k) \/ ApiAnswers(k) \/ Post(k) \/ Reply(k) \/ GiveUp(k)

SimNext ==
    \/ \E k \in Run : Simulate(k) \/ Commit(k) \/ CommitFails(k)
    \/ Crash \/ StartApi
    \/ AskUnusual \/ FindUnusual \/ TimePasses

SimSpec == SimInit /\ [][SimNext]_simVars

(* The simulator runs.  Nobody has to start its API, and the API's handler *)
(* and its database need not answer.                                       *)
FairSimSpec ==
    /\ SimSpec
    /\ \A k \in Run : WF_simVars(ApiAnswers(k)) /\ WF_simVars(Post(k))
                      /\ WF_simVars(Reply(k)) /\ WF_simVars(GiveUp(k))

-----------------------------------------------------------------------------
(* Whenever the simulator was run, its burst lies in one calendar minute   *)
(* and is reported, as a whole, until the hour is over: after a run that   *)
(* succeeded, and after one that raised if anything of it was stored.      *)
BurstReported ==
    \A k \in Run :
        (At(k, "succeeded") \/ EventsOf(k) \cap Ids # {}) /\ burst_start(simulator[k].at) >= Cutoff(Hour) =>
            \E g \in RecentBursts(BurstThreshold, Hour) : BurstOf(k) \subseteq g

(* The reply to a request that was made after run k's events were stored   *)
(* and in the hour after the minute of the run.                            *)
AskedAbout(k) ==
    /\ request.pc = "replied"
    /\ EventsOf(k) \subseteq request.began
    /\ burst_start(simulator[k].at) >= request.recent_start

Reported(destination) ==
    \E g \in request.unusual_destinations : destination \in Destinations(g)

(* It reports the destination of most connections as unusual, if no earlier*)
(* run's events are in the table.                                          *)
IncidentUnusual ==
    \A k \in Run :
        AskedAbout(k) /\ (\A j \in Run : j < k => EventsOf(j) \cap Ids = {}) =>
            Reported(NewDestination)

(* A run ends, or the API that it waits for is never started again:        *)
(* nothing else can hold it up, an API that dies under the POST or a       *)
(* handler that never answers included.                                    *)
SimulatorEnds ==
    \A k \in Run :
        At(k, "waiting") ~> \/ simulator[k].pc \in {"succeeded", "raised"}
                           \/ [](At(k, "waiting") /\ ~apiUp)
=================================================================================

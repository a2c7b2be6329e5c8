------------------------------ MODULE KernelProbe ------------------------------
(***************************************************************************)
(* The kernel half of collector/collector.py: the eBPF programs at entry   *)
(* and return of tcp_v4_connect and tcp_v6_connect, the two hash maps that *)
(* carry a connection from one to the other, and the order in which main() *)
(* attaches the probes and opens the perf buffers while threads connect.   *)
(*                                                                         *)
(* A thread is inside at most one call of each function: tcp_v6_connect    *)
(* calls tcp_v4_connect for an IPv4-mapped address.                        *)
(***************************************************************************)
EXTENDS Integers, Sequences, FiniteSets

CONSTANTS
    Thread,
    Owner,          \* Owner[t]: the process of thread t, the upper half of its id
    Dest,           \* destinations: address and port
    NoEntry,        \* what lookup() returns for an absent key
    MaxEntries,     \* capacity of a BPF_HASH (10240 by default)
    MaxGaps         \* bound: recorded calls whose return no probe sees

ASSUME KernelProbeAssumption ==
    /\ DOMAIN Owner = Thread
    /\ NoEntry \notin Dest
    /\ MaxEntries \in Nat /\ MaxGaps \in Nat

Family == {4, 6}

VARIABLES
    stage,      \* how many of main()'s six calls have been made
    calls,      \* the calls a thread is in, the innermost last
    pending,    \* pending_connections and pending_connections_v6
    last,       \* history: the last sample submitted, beside the call it was for
    gaps        \* history: recorded calls whose return no probe sees

vars == <<stage, calls, pending, last, gaps>>

-----------------------------------------------------------------------------
(* kept: did the entry probe record it?  hooked: will the return probe see *)
(* it return?  inner: how the call of tcp_v4_connect that it made went.    *)
Call == [family : Family, dest : Dest, valid : BOOLEAN, kept : BOOLEAN,
         hooked : BOOLEAN, inner : {"none", "ok", "failed"}]

Sample == [pid : {Owner[t] : t \in Thread}, ip_version : Family, dest : Dest,
           call : Call, returned : {"ok", "failed"}]
NoSample == [pid |-> NoEntry]

TypeOK ==
    /\ stage \in 0..6
    /\ calls \in [Thread -> Seq(Call)]
    /\ pending \in [Family -> [Thread -> Dest \cup {NoEntry}]]
    /\ last \in Sample \cup {NoSample}
    /\ gaps \in 0..MaxGaps

Init ==
    /\ stage = 0
    /\ calls = [t \in Thread |-> <<>>]
    /\ pending = [f \in Family |-> [t \in Thread |-> NoEntry]]
    /\ last = NoSample
    /\ gaps = 0

-----------------------------------------------------------------------------
(* main() attaches entry and return of tcp_v4_connect, then those of       *)
(* tcp_v6_connect, then opens the two perf buffers.                        *)
Attach ==
    /\ stage < 6
    /\ stage' = stage + 1
    /\ UNCHANGED <<calls, pending, last, gaps>>

EntryAttached(f) == stage >= (IF f = 4 THEN 1 ELSE 3)
ReturnAttached(f) == stage >= (IF f = 4 THEN 2 ELSE 4)
BufferOpen(f) == stage >= (IF f = 4 THEN 5 ELSE 6)

(* Mutant of Key: the upper half of the id, one key for a whole process.   *)
KeyOfProcess(t) == CHOOSE u \in Thread : Owner[u] = Owner[t]

(* The maps' key is the id of the thread, bpf_get_current_pid_tgid().      *)
Key(t) == t

Entries(f) == {t \in Thread : pending[f][t] # NoEntry}

(* update() of a full map fails, unless the key is there already; its      *)
(* result is not looked at.                                                *)
Updatable(f, t) == Key(t) \in Entries(f) \/ Cardinality(Entries(f)) < MaxEntries

(* trace_tcp_v4_connect_entry, trace_tcp_v6_connect_entry: an address of   *)
(* another family is left alone.                                           *)
Recording(t, f, valid) == EntryAttached(f) /\ valid /\ Updatable(f, t)

OnEntry(t, f, dest, valid) ==
    pending' = IF Recording(t, f, valid)
                 THEN [pending EXCEPT ![f][Key(t)] = dest]
                 ELSE pending

(* A kretprobe hooks the return of a call when the call is entered: if it  *)
(* is attached by then and the kernel has an instance of it left.          *)
Entered(t, f, dest, valid) ==
    /\ \E hooked \in IF ReturnAttached(f) THEN BOOLEAN ELSE {FALSE} :
          LET kept == Recording(t, f, valid)
          IN  /\ calls' = [calls EXCEPT ![t] =
                    Append(@, [family |-> f, dest |-> dest, valid |-> valid,
                               kept |-> kept, hooked |-> hooked, inner |-> "none"])]
              /\ IF kept /\ ~hooked THEN gaps < MaxGaps /\ gaps' = gaps + 1
                                    ELSE UNCHANGED gaps
    /\ OnEntry(t, f, dest, valid)
    /\ UNCHANGED <<stage, last>>

(* A thread connects.                                                      *)
Connect(t) ==
    /\ calls[t] = <<>>
    /\ \E f \in Family, dest \in Dest, valid \in BOOLEAN : Entered(t, f, dest, valid)

(* tcp_v6_connect calls tcp_v4_connect.                                    *)
ConnectMapped(t) ==
    /\ Len(calls[t]) = 1
    /\ LET outer == calls[t][1]
       IN  /\ outer.family = 6 /\ outer.valid /\ outer.inner = "none"
           /\ Entered(t, 4, outer.dest, TRUE)

-----------------------------------------------------------------------------
Innermost(t) == calls[t][Len(calls[t])]

(* What a call can return: an error for an address of the wrong family,    *)
(* and what tcp_v4_connect returned if it was called.                      *)
Outcomes(call) ==
    IF ~call.valid THEN {"failed"}
    ELSE IF call.inner # "none" THEN {call.inner}
    ELSE {"ok", "failed"}

(* The innermost call of the thread is over; its caller learns how it went. *)
Returned(t, outcome) ==
    calls' = [calls EXCEPT ![t] =
                 IF Len(@) = 1 THEN <<>>
                 ELSE <<[@[1] EXCEPT !.inner = outcome]>>]

Submit(t, f, outcome) ==
    last' = [pid |-> Owner[t], ip_version |-> f, dest |-> pending[f][Key(t)],
             call |-> Innermost(t), returned |-> outcome]

(* Mutants of OnReturn: without the delete when the call failed, and       *)
(* without the test of the return value.                                   *)
OnReturnKeeping(t, f, outcome) ==
    IF outcome = "failed" \/ pending[f][Key(t)] = NoEntry
      THEN UNCHANGED <<pending, last>>
      ELSE /\ pending' = [pending EXCEPT ![f][Key(t)] = NoEntry]
           /\ IF BufferOpen(f) THEN Submit(t, f, outcome) ELSE UNCHANGED last

OnReturnOfAnything(t, f, outcome) ==
    /\ pending' = [pending EXCEPT ![f][Key(t)] = NoEntry]
    /\ IF pending[f][Key(t)] # NoEntry /\ BufferOpen(f)
         THEN Submit(t, f, outcome) ELSE UNCHANGED last

(* trace_tcp_v4_connect_return, trace_tcp_v6_connect_return: without an    *)
(* entry nothing happens; with one, a call that succeeded is submitted to  *)
(* the perf buffer, if it is open, and the entry is deleted either way.    *)
OnReturn(t, f, outcome) ==
    /\ pending' = [pending EXCEPT ![f][Key(t)] = NoEntry]
    /\ IF pending[f][Key(t)] # NoEntry /\ outcome = "ok" /\ BufferOpen(f)
         THEN Submit(t, f, outcome) ELSE UNCHANGED last

Return(t) ==
    /\ calls[t] # <<>>
    /\ \E outcome \in Outcomes(Innermost(t)) :
          /\ Returned(t, outcome)
          /\ IF Innermost(t).hooked THEN OnReturn(t, Innermost(t).family, outcome)
                                    ELSE UNCHANGED <<pending, last>>
    /\ UNCHANGED <<stage, gaps>>

Next ==
    \/ Attach
    \/ \E t \in Thread : Connect(t) \/ ConnectMapped(t) \/ Return(t)

Spec == Init /\ [][Next]_vars

-----------------------------------------------------------------------------
CallsIn(t, f) == {n \in DOMAIN calls[t] : calls[t][n].family = f}

(* While a recorded call is in progress its entry is in the map of its     *)
(* family and is its own: neither another thread of the process, nor the   *)
(* call of tcp_v4_connect inside tcp_v6_connect, nor an entry left behind  *)
(* by an unseen return replaces or removes it.                             *)
PendingMatches ==
    \A t \in Thread : \A n \in DOMAIN calls[t] :
        calls[t][n].kept => pending[calls[t][n].family][t] = calls[t][n].dest

(* A submitted event describes the call that has just returned, which was  *)
(* recorded and succeeded: never an older call of the thread, whose return *)
(* was not seen, and never a failed one (collector.py:104).                *)
SamplesTrue ==
    last # NoSample =>
        /\ last.dest = last.call.dest /\ last.ip_version = last.call.family
        /\ last.call.kept /\ last.returned = "ok"

(* The maps do not fill up by themselves: an entry without a call in       *)
(* progress is left only by a return that no probe saw.                    *)
Stale(f) == {t \in Entries(f) : \A n \in CallsIn(t, f) : ~calls[t][n].kept}

LeaksExplained == Cardinality(Stale(4)) + Cardinality(Stale(6)) <= gaps
=============================================================================

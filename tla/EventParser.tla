------------------------------ MODULE EventParser ------------------------------
(***************************************************************************)
(* What collector/event_parser.py makes of a sample: the destination out   *)
(* of bytes whose order is the network's, and the time out of a kernel     *)
(* clock that does not know the date.  collector/collector.py adds the     *)
(* offset between the two clocks, which it computes when it is loaded.     *)
(*                                                                         *)
(* Connections to one endpoint at one instant count as one.  A byte is a   *)
(* digit below Base.  Which samples are reported at all is module          *)
(* Collector's subject.                                                    *)
(***************************************************************************)
EXTENDS Integers, SequencesExt

CONSTANTS
    Base,           \* 256
    Micro,          \* nanoseconds in a microsecond
    Endpoint,       \* [ip_version, ip, port]: a sockaddr, bytes in network order
    MaxTime,        \* bound: the last reading of either clock
    MaxConnections, \* bound: connections observed
    StepSize,       \* how far the clock is set, or a suspension lasts
    MaxSteps        \* bound: clock steps and suspensions

ASSUME EventParserAssumption ==
    /\ Base \in Nat \ {0, 1}
    /\ \A e \in Endpoint : /\ e.ip_version \in {4, 6}
                           /\ e.ip \in Seq(0..Base - 1) /\ e.port \in Seq(0..Base - 1)
                           /\ e.ip_version = 4 => Len(e.ip) = 4
                           /\ Len(e.port) = 2
    /\ Micro \in Nat \ {0} /\ StepSize \in Nat \ {0}
    /\ MaxTime \in Nat /\ MaxConnections \in Nat /\ MaxSteps \in Nat

VARIABLES
    byteorder,      \* sys.byteorder of the host
    wall,           \* time.time_ns(), which can be set
    monotonic,      \* time.monotonic_ns() and bpf_ktime_get_ns(), which stop
                    \* while the host is suspended
    steps,          \* how often the clock was set or the host suspended
    collector,      \* collector.py: its progress and wall_clock_offset_ns
    samples,        \* submitted to the perf buffers, not yet polled
    events          \* what was parsed

vars == <<byteorder, wall, monotonic, steps, collector, samples, events>>

-----------------------------------------------------------------------------
(* Bytes in memory read as an unsigned integer, and back (int.to_bytes).   *)
BigEndian(bytes) ==
    LET value[i \in 0..Len(bytes)] ==
            IF i = 0 THEN 0 ELSE value[i - 1] * Base + bytes[i]
    IN  value[Len(bytes)]

FromBytes(bytes, order) ==
    IF order = "big" THEN BigEndian(bytes) ELSE BigEndian(Reverse(bytes))

(* n without its last i digits.                                            *)
Quotients(n, length) ==
    LET quotient[i \in 0..length] == IF i = 0 THEN n ELSE quotient[i - 1] \div Base
    IN  quotient

ToBytes(n, length, order) ==
    LET bytes == [i \in 1..length |-> Quotients(n, length)[length - i] % Base]
    IN  IF order = "big" THEN bytes ELSE Reverse(bytes)

(* Mutant of ntohs: the value as it is.                                    *)
NotSwapped(n, order) == n

(* socket.ntohs: the value whose bytes in network order are in memory.     *)
ntohs(n, order) == FromBytes(ToBytes(n, 2, order), "big")

(* bpf_probe_read_kernel, perf_submit and string_at copy the bytes.        *)
(* ctypes then reads integers in the order of the host.                    *)
Structure(sample) ==
    [ip_version |-> sample.to.ip_version,
     destination_ip |-> IF sample.to.ip_version = 4
                          THEN FromBytes(sample.to.ip, byteorder)
                          ELSE sample.to.ip,
     destination_port |-> FromBytes(sample.to.port, byteorder),
     timestamp_ns |-> sample.start_ns]

(* What inet_ntoa and inet_ntop are given: the bytes of the address.       *)
destination_ip(event) ==
    IF event.ip_version = 4
      THEN ToBytes(event.destination_ip, 4, byteorder)
      ELSE event.destination_ip

(* datetime.fromtimestamp keeps the nearest microsecond.                   *)
Nearest(ns) == (ns + Micro \div 2) \div Micro

(* Mutant of kernel_time_to_datetime: with the offset of the clocks as     *)
(* they are when the sample is handled.                                    *)
WithPresentOffset(timestamp_ns, offset) == Nearest(wall - monotonic + timestamp_ns)

kernel_time_to_datetime(timestamp_ns, offset) == Nearest(offset + timestamp_ns)

(* parse_ipv4_event and parse_ipv6_event.                                  *)
Parsed(sample) ==
    LET event == Structure(sample)
    IN  [timestamp |-> kernel_time_to_datetime(event.timestamp_ns, collector.offset),
         ip_version |-> event.ip_version,
         destination_ip |-> destination_ip(event),
         destination_port |-> ntohs(event.destination_port, byteorder)]

-----------------------------------------------------------------------------
(* time.time_ns() - time.monotonic_ns(), in this order.  lag and drift are *)
(* history: how far the monotonic clock ran between the two readings, and  *)
(* by how much the wall clock has run away from it since the first.        *)
ReadWallClock ==
    /\ collector.pc = "import"
    /\ collector' = [collector EXCEPT !.pc = "time_ns", !.offset = wall, !.lag = monotonic]
    /\ UNCHANGED <<byteorder, wall, monotonic, steps, samples, events>>

(* Mutant of ReadMonotonic: the two clocks are added.                      *)
ReadMonotonicAdding ==
    /\ collector.pc = "time_ns"
    /\ collector' = [collector EXCEPT !.pc = "observing",
                                      !.offset = @ + monotonic, !.lag = monotonic - @]
    /\ UNCHANGED <<byteorder, wall, monotonic, steps, samples, events>>

ReadMonotonic ==
    /\ collector.pc = "time_ns"
    /\ collector' = [collector EXCEPT !.pc = "observing",
                                      !.offset = @ - monotonic, !.lag = monotonic - @]
    /\ UNCHANGED <<byteorder, wall, monotonic, steps, samples, events>>

(* A process connects; at is history: the time by the wall clock.          *)
Connect(to) ==
    /\ collector.pc = "observing"
    /\ Cardinality(samples) + Cardinality(events) < MaxConnections
    /\ samples' = samples \cup {[to |-> to, start_ns |-> monotonic, at |-> wall,
                                 drift |-> collector.drift]}
    /\ UNCHANGED <<byteorder, wall, monotonic, steps, collector, events>>

(* handle_event or handle_ipv6_event.  The ring buffers of several CPUs    *)
(* are polled in any order.                                                *)
Handle(sample) ==
    /\ samples' = samples \ {sample}
    /\ events' = events \cup {[sample |-> sample, parsed |-> Parsed(sample)]}
    /\ UNCHANGED <<byteorder, wall, monotonic, steps, collector>>

Tick ==
    /\ wall < MaxTime /\ monotonic < MaxTime
    /\ wall' = wall + 1
    /\ monotonic' = monotonic + 1
    /\ UNCHANGED <<byteorder, steps, collector, samples, events>>

(* The clock is set, or the host was suspended: only the wall clock moves. *)
Step(by) ==
    /\ steps < MaxSteps /\ wall + by \in 0..MaxTime
    /\ wall' = wall + by
    /\ steps' = steps + 1
    /\ collector' = [collector EXCEPT !.drift = IF collector.pc = "import" THEN 0 ELSE @ + by]
    /\ UNCHANGED <<byteorder, monotonic, samples, events>>

-----------------------------------------------------------------------------
Init ==
    /\ byteorder \in {"big", "little"}
    /\ wall \in 0..MaxTime /\ monotonic = 0
    /\ steps = 0
    /\ collector = [pc |-> "import", offset |-> 0, lag |-> 0, drift |-> 0]
    /\ samples = {} /\ events = {}

Next ==
    \/ ReadWallClock \/ ReadMonotonic
    \/ \E to \in Endpoint : Connect(to)
    \/ \E sample \in samples : Handle(sample)
    \/ Tick
    \/ \E by \in {-StepSize, StepSize} : Step(by)

Spec == Init /\ [][Next]_vars

-----------------------------------------------------------------------------
(* Whatever the byte order of the host, an event names the destination     *)
(* that the process connected to.                                          *)
DestinationTrue ==
    \A e \in events :
        /\ e.parsed.destination_ip = e.sample.to.ip
        /\ e.parsed.destination_port = BigEndian(e.sample.to.port)
        /\ e.parsed.ip_version = e.sample.to.ip_version

(* However the samples are polled and the clock is set in between, the     *)
(* timestamps of the events are in the order of their connections (equal   *)
(* for connections within a microsecond).                                  *)
TimestampsOrdered ==
    \A e, f \in events :
        e.sample.start_ns <= f.sample.start_ns => e.parsed.timestamp <= f.parsed.timestamp

(* By how much a timestamp is behind the time of the connection.           *)
Late(e) == e.sample.at - e.parsed.timestamp * Micro

(* Up to a microsecond, that is the delay between the two readings of the  *)
(* clocks, and what the wall clock was moved after the first of them and   *)
(* before the connection, nothing else.                                    *)
ErrorExplained ==
    \A e \in events : Late(e) - (collector.lag + e.sample.drift) \in -Micro..Micro
================================================================================

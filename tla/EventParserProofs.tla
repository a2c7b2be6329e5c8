--------------------------- MODULE EventParserProofs ---------------------------
(***************************************************************************)
(* Proofs about module EventParser, for any endpoints, any bounds and any  *)
(* number of nanoseconds in a microsecond: what is wrong with a timestamp, *)
(* and what is not.  And the destination of an event is the one the        *)
(* process connected to, whatever the order of the host's bytes.           *)
(***************************************************************************)
EXTENDS EventParser, SequenceTheorems, FiniteSetTheorems, TLAPS

-----------------------------------------------------------------------------
(* The part of the state that the argument is about.                       *)
Pcs == {"import", "time_ns", "observing"}

ClocksOK ==
    /\ wall \in Int /\ monotonic \in Int
    /\ collector \in [pc : Pcs, offset : Int, lag : Int, drift : Int]

Connection(sample) ==
    /\ sample.start_ns \in Int /\ sample.at \in Int /\ sample.drift \in Int
    /\ sample.at = collector.offset + sample.start_ns + collector.lag + sample.drift

(* The wall clock against the monotonic one.  offset and lag are those of  *)
(* the first reading until the second one is made.                         *)
ClocksRelated ==
    /\ collector.pc = "import" => collector.drift = 0
    /\ collector.pc = "time_ns" =>
           wall = collector.offset + (monotonic - collector.lag) + collector.drift
    /\ collector.pc = "observing" =>
           wall = collector.offset + monotonic + collector.lag + collector.drift
    /\ collector.pc # "observing" => samples = {} /\ events = {}

SamplesRelated == \A sample \in samples : Connection(sample)

EventsRelated ==
    \A e \in events :
        /\ Connection(e.sample)
        /\ e.parsed.timestamp = Nearest(collector.offset + e.sample.start_ns)

IInv == ClocksOK /\ ClocksRelated /\ SamplesRelated /\ EventsRelated

-----------------------------------------------------------------------------
(* fromtimestamp: an integer, at most a microsecond away.                  *)
LEMMA NearestBounds ==
    ASSUME NEW ns \in Int
    PROVE  /\ Nearest(ns) \in Int
           /\ ns - Nearest(ns) * Micro \in -Micro..Micro
<1> DEFINE half == Micro \div 2
           n == ns + half
<1>1. Micro \in Nat /\ Micro > 0
  BY EventParserAssumption
<1>2. half \in Int /\ 2 * half <= Micro /\ half >= 0
  BY <1>1
<1>3. n \in Int
  BY <1>2
<1> HIDE DEF half
<1>4. n \div Micro \in Int /\ (n \div Micro) * Micro <= n /\ n < (n \div Micro) * Micro + Micro
  <2> HIDE DEF n
  <2> QED BY <1>1, <1>3
<1> QED
  BY <1>1, <1>2, <1>4 DEF Nearest, half

(* It keeps the order.                                                     *)
LEMMA NearestMonotone ==
    ASSUME NEW m \in Int, NEW n \in Int, m <= n
    PROVE  Nearest(m) <= Nearest(n)
<1> DEFINE half == Micro \div 2
<1>1. Micro \in Nat /\ Micro > 0
  BY EventParserAssumption
<1>2. half \in Int
  BY <1>1
<1> HIDE DEF half
<1>3. \A a, b \in Int : a <= b => a \div Micro <= b \div Micro
  BY <1>1
<1> QED
  BY <1>2, <1>3 DEF Nearest, half

-----------------------------------------------------------------------------
(* Before the collector has read a clock.                                  *)
LEMMA Initially == Init => IInv
<1> SUFFICES ASSUME Init PROVE IInv
  OBVIOUS
<1>1. ClocksOK
  BY EventParserAssumption DEF Init, ClocksOK, Pcs
<1>2. ClocksRelated /\ SamplesRelated /\ EventsRelated
  BY DEF Init, ClocksRelated, SamplesRelated, EventsRelated
<1> QED
  BY <1>1, <1>2 DEF IInv

(* Every step keeps the relation between the clocks.                       *)
LEMMA Inductive == IInv /\ [Next]_vars => IInv'
<1> SUFFICES ASSUME IInv, [Next]_vars PROVE IInv'
  OBVIOUS
<1> USE DEF IInv, ClocksOK, Pcs
<1>1. CASE ReadWallClock
  <2>1. ClocksOK'
    BY <1>1 DEF ReadWallClock
  <2>2. /\ collector'.pc = "time_ns" /\ collector'.offset = wall
        /\ collector'.lag = monotonic /\ collector'.drift = 0
        /\ wall' = wall /\ monotonic' = monotonic
    BY <1>1 DEF ReadWallClock, ClocksRelated
  <2>3. ClocksRelated'
    BY <2>2, <1>1 DEF ReadWallClock, ClocksRelated
  <2> QED
    BY <2>1, <2>3, <1>1 DEF ReadWallClock, ClocksRelated, SamplesRelated, EventsRelated
<1>2. CASE ReadMonotonic
  <2>a. collector' = [collector EXCEPT !.pc = "observing",
                                       !.offset = collector.offset - monotonic,
                                       !.lag = monotonic - collector.lag]
    BY <1>2 DEF ReadMonotonic
  <2>b. collector.offset - monotonic \in Int /\ monotonic - collector.lag \in Int
    OBVIOUS
  <2>1. ClocksOK'
    BY <1>2, <2>a, <2>b DEF ReadMonotonic
  <2>2. /\ collector'.pc = "observing" /\ collector'.offset = collector.offset - monotonic
        /\ collector'.lag = monotonic - collector.lag /\ collector'.drift = collector.drift
        /\ wall' = wall /\ monotonic' = monotonic
    BY <1>2 DEF ReadMonotonic
  <2>3. ClocksRelated'
    BY <2>2, <1>2 DEF ReadMonotonic, ClocksRelated
  <2> QED
    BY <2>1, <2>3, <1>2 DEF ReadMonotonic, ClocksRelated, SamplesRelated, EventsRelated
<1>3. ASSUME NEW to \in Endpoint, Connect(to) PROVE IInv'
  <2>1. ClocksOK' /\ ClocksRelated' /\ EventsRelated'
    BY <1>3 DEF Connect, ClocksRelated, EventsRelated, Connection
  <2>2. SamplesRelated'
    BY <1>3 DEF Connect, ClocksRelated, SamplesRelated, Connection
  <2> QED
    BY <2>1, <2>2
<1>4. ASSUME NEW sample \in samples, Handle(sample) PROVE IInv'
  <2>1. ClocksOK' /\ ClocksRelated' /\ SamplesRelated'
    BY <1>4 DEF Handle, ClocksRelated, SamplesRelated, Connection
  <2>2. Parsed(sample).timestamp = Nearest(collector.offset + sample.start_ns)
    BY DEF Parsed, Structure, kernel_time_to_datetime
  <2>3. Connection(sample)
    BY DEF SamplesRelated
  <2>4. EventsRelated'
    BY <1>4, <2>2, <2>3 DEF Handle, EventsRelated, Connection
  <2> QED
    BY <2>1, <2>4
<1>5. CASE Tick
  <2>1. ClocksOK' /\ ClocksRelated'
    BY <1>5 DEF Tick, ClocksRelated
  <2> QED
    BY <2>1, <1>5 DEF Tick, SamplesRelated, EventsRelated, Connection
<1>6. ASSUME NEW by \in {-StepSize, StepSize}, Step(by) PROVE IInv'
  <2>1. by \in Int
    BY EventParserAssumption
  <2>2. ClocksOK' /\ ClocksRelated'
    BY <1>6, <2>1 DEF Step, ClocksRelated
  <2>3. collector'.offset = collector.offset /\ collector'.lag = collector.lag
    BY <1>6 DEF Step
  <2> QED
    BY <2>2, <2>3, <1>6 DEF Step, SamplesRelated, EventsRelated, Connection
<1>7. CASE UNCHANGED vars
  BY <1>7 DEF vars, ClocksRelated, SamplesRelated, EventsRelated, Connection
<1> QED
  BY <1>1, <1>2, <1>3, <1>4, <1>5, <1>6, <1>7 DEF Next

(* In every reachable state the two clocks are related by the collector's  *)
(* offset, and every event carries the time that the offset gives it.      *)
THEOREM Invariance == Spec => []IInv
  BY Initially, Inductive, PTL DEF Spec

(* A timestamp is wrong by the delay between the collector's two readings  *)
(* of the clocks, by what the wall clock was moved since, and by at most a *)
(* microsecond, whatever else happens.                                     *)
THEOREM ErrorIsExplained == Spec => []ErrorExplained
<1>1. IInv => ErrorExplained
  <2> SUFFICES ASSUME IInv, NEW e \in events
               PROVE  Late(e) - (collector.lag + e.sample.drift) \in -Micro..Micro
    BY DEF ErrorExplained
  <2>1. /\ Connection(e.sample)
        /\ e.parsed.timestamp = Nearest(collector.offset + e.sample.start_ns)
        /\ collector.offset \in Int /\ collector.lag \in Int
    BY DEF IInv, EventsRelated, ClocksOK
  <2> DEFINE ns == collector.offset + e.sample.start_ns
  <2>2. ns \in Int
    BY <2>1 DEF Connection
  <2>3. Nearest(ns) \in Int /\ ns - Nearest(ns) * Micro \in -Micro..Micro
    BY <2>2, NearestBounds
  <2>4. Late(e) - (collector.lag + e.sample.drift) = ns - Nearest(ns) * Micro
    <3>1. Nearest(ns) * Micro \in Int
      BY <2>3, EventParserAssumption
    <3> QED
      BY <2>1, <3>1 DEF Late, Connection
  <2> QED
    BY <2>3, <2>4
<1> QED
  BY <1>1, Invariance, PTL

(* Timestamps are in the order of the connections, in whatever order the   *)
(* samples are polled and however the clock is set.                        *)
THEOREM TimestampsAreOrdered == Spec => []TimestampsOrdered
<1>1. IInv => TimestampsOrdered
  <2> SUFFICES ASSUME IInv, NEW e \in events, NEW f \in events,
                      e.sample.start_ns <= f.sample.start_ns
               PROVE  e.parsed.timestamp <= f.parsed.timestamp
    BY DEF TimestampsOrdered
  <2>1. /\ e.parsed.timestamp = Nearest(collector.offset + e.sample.start_ns)
        /\ f.parsed.timestamp = Nearest(collector.offset + f.sample.start_ns)
        /\ collector.offset \in Int
        /\ e.sample.start_ns \in Int /\ f.sample.start_ns \in Int
    BY DEF IInv, EventsRelated, ClocksOK, Connection
  <2> QED
    BY <2>1, NearestMonotone
<1> QED
  BY <1>1, Invariance, PTL

-----------------------------------------------------------------------------
(* Induction over the natural numbers, as a fact about sets.  Otherwise    *)
(* the successor would map a finite set one to one into a part of itself.  *)
LEMMA Induction ==
    ASSUME NEW S, 0 \in S, \A n \in Nat : n \in S => n + 1 \in S
    PROVE  Nat \subseteq S
<1> SUFFICES ASSUME NEW n \in Nat, n \notin S PROVE FALSE
  OBVIOUS
<1> DEFINE T == {m \in 0..n : m \in S}
           successor == [m \in T |-> m + 1]
<1>1. IsFiniteSet(T)
  <2>1. IsFiniteSet(0..n)
    BY FS_Interval
  <2> QED
    BY <2>1, FS_Subset
<1>2. 0 \in T
  OBVIOUS
<1>3. /\ IsFiniteSet(T \ {0})
      /\ Cardinality(T \ {0}) = Cardinality(T) - 1
  BY <1>1, <1>2, FS_RemoveElement
<1>4. Cardinality(T) \in Nat /\ Cardinality(T \ {0}) \in Nat
  BY <1>1, <1>3, FS_CardinalityType
<1>5. successor \in [T -> T \ {0}]
  <2>1. ASSUME NEW m \in T PROVE m + 1 \in T \ {0}
    <3>1. m \in 0..n /\ m \in S /\ m # n
      OBVIOUS
    <3> QED
      BY <3>1
  <2> QED
    BY <2>1
<1>6. \A l, m \in T : successor[l] = successor[m] => l = m
  OBVIOUS
<1> HIDE DEF T, successor
<1>7. Cardinality(T) > Cardinality(T \ {0})
  BY <1>3, <1>4
<1> QED
  BY <1>1, <1>3, <1>5, <1>6, <1>7, FS_PigeonHole

(* Up to a bound.                                                          *)
LEMMA InductionUpTo ==
    ASSUME NEW length \in Nat, NEW S, 0 \in S,
           \A n \in 0..length : n \in S /\ n < length => n + 1 \in S
    PROVE  0..length \subseteq S
<1> DEFINE T == {n \in Nat : n <= length => n \in S}
<1>1. 0 \in T
  OBVIOUS
<1>2. ASSUME NEW n \in Nat, n \in T PROVE n + 1 \in T
  BY <1>2
<1> HIDE DEF T
<1>3. Nat \subseteq T
  BY <1>1, <1>2, Induction
<1> QED
  BY <1>3 DEF T

(* A function defined by recursion from its first value exists.            *)
LEMMA Iterate ==
    ASSUME NEW length \in Nat, NEW start \in Int, NEW step \in [1..length -> [Int -> Int]]
    PROVE  \E f \in [0..length -> Int] :
               \A i \in 0..length : f[i] = IF i = 0 THEN start ELSE step[i][f[i - 1]]
<1> DEFINE Upto(n, f) == \A i \in 0..n : f[i] = IF i = 0 THEN start ELSE step[i][f[i - 1]]
           S == {n \in 0..length : \E f \in [0..length -> Int] : Upto(n, f)}
<1>1. 0 \in S
  <2> DEFINE f == [i \in 0..length |-> start]
  <2>1. f \in [0..length -> Int] /\ Upto(0, f)
    OBVIOUS
  <2> HIDE DEF f, Upto
  <2> QED
    BY <2>1
<1>2. ASSUME NEW n \in 0..length, n \in S /\ n < length PROVE n + 1 \in S
  <2>1. PICK f \in [0..length -> Int] : Upto(n, f)
    BY <1>2
  <2> DEFINE g == [f EXCEPT ![n + 1] = step[n + 1][f[n]]]
  <2>2. n + 1 \in 1..length /\ f[n] \in Int
    BY <1>2
  <2>3. step[n + 1][f[n]] \in Int
    BY <2>2
  <2>4. g \in [0..length -> Int]
    BY <2>3
  <2>5. ASSUME NEW i \in 0..n + 1 PROVE g[i] = IF i = 0 THEN start ELSE step[i][g[i - 1]]
    <3>1. CASE i = n + 1
      BY <3>1, <1>2
    <3>2. CASE i # n + 1
      <4>1. i \in 0..n /\ g[i] = f[i] /\ (i # 0 => g[i - 1] = f[i - 1])
        BY <3>2, <1>2
      <4> QED
        BY <4>1, <2>1
    <3> QED
      BY <3>1, <3>2
  <2>6. Upto(n + 1, g)
    BY <2>5
  <2> HIDE DEF g, Upto
  <2> QED
    BY <2>2, <2>4, <2>6
<1> HIDE DEF S
<1>3. 0..length \subseteq S
  BY <1>1, <1>2, InductionUpTo
<1>4. length \in S
  BY <1>3
<1> QED
  BY <1>4 DEF S


-----------------------------------------------------------------------------
(* A byte.                                                                 *)
Byte == 0..Base - 1

(* What the recursion in BigEndian yields.                                 *)
LEMMA ValueExists ==
    ASSUME NEW bytes \in Seq(Byte)
    PROVE  \E value \in [0..Len(bytes) -> Int] :
              /\ BigEndian(bytes) = value[Len(bytes)]
              /\ value[0] = 0
              /\ \A i \in 1..Len(bytes) : value[i] = value[i - 1] * Base + bytes[i]
<1> DEFINE length == Len(bytes)
           Is(f) == f = [i \in 0..length |-> IF i = 0 THEN 0 ELSE f[i - 1] * Base + bytes[i]]
           step == [i \in 1..length |-> [n \in Int |-> n * Base + bytes[i]]]
<1>1. length \in Nat /\ Base \in Int /\ \A i \in 1..length : bytes[i] \in Int
  BY EventParserAssumption DEF Byte
<1>2. step \in [1..length -> [Int -> Int]]
  BY <1>1
<1>3. PICK f \in [0..length -> Int] :
         \A i \in 0..length : f[i] = IF i = 0 THEN 0 ELSE step[i][f[i - 1]]
  <2> HIDE DEF step, length
  <2> QED
    BY <1>1, <1>2, Iterate, 0 \in Int
<1>4. Is(f)
  <2>1. ASSUME NEW i \in 0..length, i # 0 PROVE f[i] = f[i - 1] * Base + bytes[i]
    <3>1. i \in 1..length /\ f[i - 1] \in Int
      BY <1>1, <2>1
    <3>2. f[i] = step[i][f[i - 1]]
      <4> HIDE DEF step, length
      <4> QED
        BY <1>3, <2>1
    <3>3. step[i] = [n \in Int |-> n * Base + bytes[i]]
      BY <3>1
    <3> QED
      BY <3>1, <3>2, <3>3
  <2>2. f[0] = 0
    <3> HIDE DEF step, length
    <3> QED
      BY <1>1, <1>3
  <2> QED
    BY <2>1, <2>2
<1>5. PICK value : value = (CHOOSE g : Is(g))
  OBVIOUS
<1>6. Is(value)
  BY <1>4, <1>5
<1>7. BigEndian(bytes) = value[length]
  BY <1>5 DEF BigEndian
<1>8. value[0] = 0 /\ \A i \in 1..length : value[i] = value[i - 1] * Base + bytes[i]
  BY <1>1, <1>6
<1>9. value \in [0..length -> Int]
  <2> DEFINE S == {n \in 0..length : value[n] \in Int}
  <2>1. 0 \in S
    BY <1>1, <1>8
  <2>2. ASSUME NEW n \in 0..length, n \in S /\ n < length PROVE n + 1 \in S
    <3>1. n + 1 \in 1..length /\ value[n] \in Int /\ bytes[n + 1] \in Int
      BY <1>1, <2>2
    <3>2. value[n + 1] = value[n] * Base + bytes[n + 1]
      BY <1>8, <3>1
    <3>3. value[n + 1] \in Int
      BY <3>1, <3>2, <1>1
    <3> QED
      BY <3>1, <3>3
  <2> HIDE DEF S
  <2>3. 0..length \subseteq S
    BY <1>1, <2>1, <2>2, InductionUpTo
  <2> QED
    BY <1>6, <2>3 DEF S
<1> QED
  BY <1>7, <1>8, <1>9

(* The last digit of a number, and the rest.                               *)
LEMMA LastDigit ==
    ASSUME NEW q \in Int, NEW digit \in Byte
    PROVE  (q * Base + digit) \div Base = q /\ (q * Base + digit) % Base = digit
<1> DEFINE n == q * Base + digit
           d == n \div Base
<1>1. Base \in Nat /\ Base > 1 /\ digit \in Int /\ 0 <= digit /\ digit < Base
  BY EventParserAssumption DEF Byte
<1>2. n \in Int
  BY <1>1
<1>3. d \in Int /\ d * Base <= n /\ n < d * Base + Base /\ n % Base = n - d * Base
  <2> HIDE DEF n
  <2> QED
    BY <1>1, <1>2
<1> HIDE DEF d
<1>4. d = q
  <2>1. (d - q) * Base = d * Base - q * Base
    BY <1>1, <1>3
  <2>2. (d - q) * Base <= digit /\ digit - Base < (d - q) * Base
    BY <1>1, <1>3, <2>1
  <2> DEFINE x == d - q
  <2>3. x \in Int
    BY <1>3
  <2> HIDE DEF x
  <2>4. x * Base < Base /\ -Base < x * Base
    BY <2>2, <1>1, <2>3 DEF x
  <2>5. x < 1
    BY <2>3, <2>4, <1>1
  <2>6. x > -1
    BY <2>3, <2>4, <1>1
  <2> QED
    BY <2>3, <2>5, <2>6, <1>3 DEF x
<1> QED
  BY <1>1, <1>3, <1>4 DEF d

(* int.to_bytes undoes int.from_bytes.                                     *)
LEMMA RoundTripBig ==
    ASSUME NEW bytes \in Seq(Byte)
    PROVE  ToBytes(BigEndian(bytes), Len(bytes), "big") = bytes
<1> DEFINE length == Len(bytes)
           n == BigEndian(bytes)
           Is(f) == f = [i \in 0..length |-> IF i = 0 THEN n ELSE f[i - 1] \div Base]
<1>1. length \in Nat /\ Base \in Int /\ \A i \in 1..length : bytes[i] \in Byte
  BY EventParserAssumption
<1>2. PICK value \in [0..length -> Int] :
         /\ n = value[length] /\ value[0] = 0
         /\ \A i \in 1..length : value[i] = value[i - 1] * Base + bytes[i]
  BY ValueExists
<1>3. ASSUME NEW i \in 1..length
      PROVE  value[i] \div Base = value[i - 1] /\ value[i] % Base = bytes[i]
  <2>1. value[i - 1] \in Int /\ bytes[i] \in Byte
    <3>1. i - 1 \in 0..length
      BY <1>1
    <3> QED
      BY <1>1, <1>2, <3>1
  <2> QED
    BY <1>2, <2>1, LastDigit
<1> HIDE DEF n
<1>4. \E f : Is(f)
  <2> DEFINE f == [i \in 0..length |-> value[length - i]]
  <2>1. ASSUME NEW i \in 0..length PROVE f[i] = IF i = 0 THEN n ELSE f[i - 1] \div Base
    <3>1. CASE i = 0
      BY <1>1, <1>2, <3>1
    <3>2. CASE i # 0
      <4>1. length - i + 1 \in 1..length /\ i - 1 \in 0..length
        BY <1>1, <3>2
      <4>2. value[length - i + 1] \div Base = value[(length - i + 1) - 1]
        BY <1>3, <4>1
      <4>3. (length - i + 1) - 1 = length - i /\ length - (i - 1) = length - i + 1
        BY <1>1
      <4> QED
        BY <4>1, <4>2, <4>3, <3>2
    <3> QED
      BY <3>1, <3>2
  <2>2. Is(f)
    <3>1. f = [i \in 0..length |-> f[i]]
      OBVIOUS
    <3> HIDE DEF f, length
    <3> QED
      BY <2>1, <3>1
  <2> QED
    BY <2>2
<1> DEFINE rest == Quotients(n, length)
<1>5. rest = (CHOOSE f : Is(f))
  BY DEF Quotients
<1> HIDE DEF rest
<1>6. Is(rest)
  BY <1>4, <1>5
<1>7. ToBytes(n, length, "big") = [i \in 1..length |-> rest[length - i] % Base]
  BY DEF ToBytes, rest
<1>8. ASSUME NEW j \in 0..length PROVE rest[j] = value[length - j]
  <2> DEFINE S == {i \in 0..length : rest[i] = value[length - i]}
  <2>1. 0 \in S
    BY <1>1, <1>2, <1>6
  <2>2. ASSUME NEW i \in 0..length, i \in S /\ i < length PROVE i + 1 \in S
    <3>1. i + 1 \in 0..length /\ i + 1 # 0 /\ (i + 1) - 1 = i /\ length - i \in 1..length
      BY <1>1, <2>2
    <3>2. rest[i + 1] = rest[i] \div Base
      BY <1>6, <3>1
    <3>3. value[length - i] \div Base = value[length - i - 1]
      BY <1>3, <3>1
    <3>4. length - i - 1 = length - (i + 1)
      BY <1>1
    <3> QED
      BY <2>2, <3>1, <3>2, <3>3, <3>4
  <2> HIDE DEF S
  <2>3. 0..length \subseteq S
    BY <1>1, <2>1, <2>2, InductionUpTo
  <2> QED
    BY <2>3 DEF S
<1>9. ASSUME NEW i \in 1..length PROVE rest[length - i] % Base = bytes[i]
  <2>1. length - i \in 0..length /\ length - (length - i) = i
    BY <1>1
  <2> QED
    BY <1>3, <1>8, <2>1
<1>10. bytes = [i \in 1..length |-> bytes[i]]
  OBVIOUS
<1> QED
  <2>1. [i \in 1..length |-> rest[length - i] % Base] = [i \in 1..length |-> bytes[i]]
    <3> HIDE DEF length
    <3> QED
      BY <1>9
  <2> QED
    BY <2>1, <1>7, <1>10 DEF n

(* Twice reversed.                                                         *)
LEMMA ReverseTwice ==
    ASSUME NEW bytes \in Seq(Byte)
    PROVE  /\ Reverse(bytes) \in Seq(Byte) /\ Len(Reverse(bytes)) = Len(bytes)
           /\ Reverse(Reverse(bytes)) = bytes
<1> DEFINE length == Len(bytes)
<1>1. length \in Nat /\ bytes \in [1..length -> Byte]
  OBVIOUS
<1>2. Reverse(bytes) = [i \in 1..length |-> bytes[(length - i) + 1]]
  BY DEF Reverse
<1>3. \A i \in 1..length : (length - i) + 1 \in 1..length
  BY <1>1
<1>4. Reverse(bytes) \in [1..length -> Byte]
  BY <1>1, <1>2, <1>3
<1>5. Reverse(bytes) \in Seq(Byte) /\ Len(Reverse(bytes)) = length
  <2> HIDE DEF length
  <2> QED
    BY <1>1, <1>4
<1>6. Reverse(Reverse(bytes)) = [i \in 1..length |-> Reverse(bytes)[(length - i) + 1]]
  BY <1>5 DEF Reverse
<1>7. ASSUME NEW i \in 1..length PROVE Reverse(bytes)[(length - i) + 1] = bytes[i]
  <2>1. (length - i) + 1 \in 1..length /\ (length - ((length - i) + 1)) + 1 = i
    BY <1>1
  <2> QED
    BY <1>2, <2>1
<1> QED
  BY <1>1, <1>5, <1>6, <1>7

(* In either order.                                                        *)
LEMMA RoundTrip ==
    ASSUME NEW bytes \in Seq(Byte), NEW order \in {"big", "little"}
    PROVE  ToBytes(FromBytes(bytes, order), Len(bytes), order) = bytes
<1>1. ASSUME NEW n, NEW length PROVE ToBytes(n, length, "little") = Reverse(ToBytes(n, length, "big"))
  BY DEF ToBytes
<1>2. CASE order = "big"
  BY <1>2, RoundTripBig DEF FromBytes
<1>3. CASE order = "little"
  <2>1. FromBytes(bytes, order) = BigEndian(Reverse(bytes))
    BY <1>3 DEF FromBytes
  <2>2. ToBytes(BigEndian(Reverse(bytes)), Len(bytes), "big") = Reverse(bytes)
    BY ReverseTwice, RoundTripBig
  <2> QED
    BY <1>1, <1>3, <2>1, <2>2, ReverseTwice
<1> QED
  BY <1>2, <1>3

(* What is parsed of a sample, on a host of either byte order.             *)
LEMMA DestinationParsed ==
    ASSUME byteorder \in {"big", "little"}, NEW sample, sample.to \in Endpoint
    PROVE  /\ Parsed(sample).destination_ip = sample.to.ip
           /\ Parsed(sample).destination_port = BigEndian(sample.to.port)
           /\ Parsed(sample).ip_version = sample.to.ip_version
<1>1. /\ sample.to.ip_version \in {4, 6}
      /\ sample.to.ip \in Seq(Byte) /\ sample.to.port \in Seq(Byte)
      /\ sample.to.ip_version = 4 => Len(sample.to.ip) = 4
      /\ Len(sample.to.port) = 2
  BY EventParserAssumption DEF Byte
<1>2. Parsed(sample).ip_version = sample.to.ip_version
  BY DEF Parsed, Structure
<1>3. Parsed(sample).destination_ip = sample.to.ip
  <2>1. CASE sample.to.ip_version = 4
    <3>1. Parsed(sample).destination_ip
            = ToBytes(FromBytes(sample.to.ip, byteorder), 4, byteorder)
      BY <2>1 DEF Parsed, Structure, destination_ip
    <3> QED
      BY <1>1, <2>1, <3>1, RoundTrip
  <2>2. CASE sample.to.ip_version # 4
    BY <2>2 DEF Parsed, Structure, destination_ip
  <2> QED
    BY <2>1, <2>2
<1>4. Parsed(sample).destination_port = BigEndian(sample.to.port)
  <2>1. Parsed(sample).destination_port = ntohs(FromBytes(sample.to.port, byteorder), byteorder)
    BY DEF Parsed, Structure
  <2>2. ToBytes(FromBytes(sample.to.port, byteorder), 2, byteorder) = sample.to.port
    BY <1>1, RoundTrip
  <2> QED
    BY <2>1, <2>2 DEF ntohs, FromBytes
<1> QED
  BY <1>2, <1>3, <1>4

(* Samples, and what is made of them, are about endpoints.                 *)
ToEndpoints ==
    /\ byteorder \in {"big", "little"}
    /\ \A sample \in samples : sample.to \in Endpoint

(* In every reachable state, on a host of either byte order, an event      *)
(* names the destination that the process connected to: what inet_ntoa or  *)
(* inet_ntop is given is the address in memory, and ntohs yields the port. *)
THEOREM DestinationIsTrue == Spec => []DestinationTrue
<1>1. Init => ToEndpoints /\ DestinationTrue
  BY DEF Init, ToEndpoints, DestinationTrue
<1>2. ToEndpoints /\ DestinationTrue /\ [Next]_vars => (ToEndpoints /\ DestinationTrue)'
  <2> SUFFICES ASSUME ToEndpoints, DestinationTrue, [Next]_vars
               PROVE  (ToEndpoints /\ DestinationTrue)'
    OBVIOUS
  <2> USE DEF ToEndpoints
  <2>1. ASSUME NEW to \in Endpoint, Connect(to)
        PROVE  (ToEndpoints /\ DestinationTrue)'
    BY <2>1 DEF Connect, DestinationTrue
  <2>2. ASSUME NEW sample \in samples, Handle(sample)
        PROVE  (ToEndpoints /\ DestinationTrue)'
    <3>1. ToEndpoints'
      BY <2>2 DEF Handle
    <3>2. /\ Parsed(sample).destination_ip = sample.to.ip
          /\ Parsed(sample).destination_port = BigEndian(sample.to.port)
          /\ Parsed(sample).ip_version = sample.to.ip_version
      BY DestinationParsed
    <3>3. DestinationTrue'
      BY <2>2, <3>2 DEF Handle, DestinationTrue
    <3> QED
      BY <3>1, <3>3
  <2>3. CASE UNCHANGED <<byteorder, samples, events>>
    BY <2>3 DEF DestinationTrue
  <2> QED
    BY <2>1, <2>2, <2>3 DEF Next, vars, ReadWallClock, ReadMonotonic, Tick, Step
<1> QED
  BY <1>1, <1>2, PTL DEF Spec
================================================================================

---------------------------- MODULE AnalyticsProofs ----------------------------
(***************************************************************************)
(* Theorems about module Analytics, and about what its rules see of the    *)
(* incident of module Simulation, whose table and request for unusual      *)
(* destinations they share.                                                *)
(***************************************************************************)
EXTENDS Simulation, FiniteSetTheorems, TLAPS

(***************************************************************************)
(* Arithmetic of date_trunc: two times in one calendar minute are less     *)
(* than a minute apart, and two times less than a minute apart are in the  *)
(* same calendar minute or in adjacent ones.                               *)
(***************************************************************************)
LEMMA DivBounds ==
    ASSUME NEW a \in Int, NEW m \in Nat \ {0}
    PROVE  /\ a \div m \in Int
           /\ m * (a \div m) <= a
           /\ a < m * (a \div m) + m
  OBVIOUS

(* Two instants of one calendar minute are less than a minute apart.       *)
LEMMA SameMinute ==
    ASSUME NEW a \in Int, NEW b \in Int, NEW m \in Nat \ {0}, a \div m = b \div m
    PROVE  a - b < m
  BY DivBounds, SMT

(* Instants less than a minute apart lie in the same calendar minute or    *)
(* in two adjacent ones.                                                   *)
LEMMA AdjacentMinutes ==
    ASSUME NEW a \in Int, NEW b \in Int, NEW m \in Nat \ {0}, a - b < m, b - a < m
    PROVE  \/ b \div m = a \div m
           \/ b \div m = a \div m + 1
           \/ b \div m = a \div m - 1
  BY DivBounds, SMT

(* Of a set that two sets cover, one contains more than half.              *)
LEMMA Half ==
    ASSUME NEW S, IsFiniteSet(S), NEW A \in SUBSET S, NEW B \in SUBSET S, S = A \cup B,
           NEW k \in Nat, Cardinality(S) > 2 * k
    PROVE  Cardinality(A) > k \/ Cardinality(B) > k
<1>1. IsFiniteSet(A) /\ IsFiniteSet(B) /\ IsFiniteSet(A \cap B)
  BY FS_Subset
<1>2. Cardinality(S) = Cardinality(A) + Cardinality(B) - Cardinality(A \cap B)
  BY <1>1, FS_Union
<1>3. /\ Cardinality(A) \in Nat /\ Cardinality(B) \in Nat
      /\ Cardinality(A \cap B) \in Nat
  BY <1>1, FS_CardinalityType
<1> QED
  BY <1>2, <1>3

-----------------------------------------------------------------------------
(* A step of the table leaves its types intact.                            *)
LEMMA TableInitial == TableInit => TableTypeOK
<1> SUFFICES ASSUME TableInit PROVE TableTypeOK
  OBVIOUS
<1>1. Ids = {}
  BY DEF TableInit, Ids
<1> QED
  BY <1>1, FS_EmptySet, EventTableAssumption DEF TableInit, TableTypeOK, Ids

(* A new row joins the table and leaves the others as they were.           *)
LEMMA InsertTyped ==
    ASSUME TableTypeOK, NEW n \in RowId, NEW row \in Row, Insert(n, row)
    PROVE  TableTypeOK' /\ Ids' = Ids \cup {n} /\ \A m \in Ids : rows'[m] = rows[m]
<1>1. Ids' = Ids \cup {n}
  BY DEF Insert, Ids
<1>2. IsFiniteSet(Ids')
  BY <1>1, FS_AddElement DEF TableTypeOK
<1>3. rows' \in [Ids' -> Row]
  BY <1>1 DEF Insert, TableTypeOK, Ids, Row
<1>4. \A m \in Ids : rows'[m] = rows[m]
  BY <1>1 DEF Insert
<1> QED
  BY <1>1, <1>2, <1>3, <1>4 DEF Insert, TableTypeOK

(* Time passes over a well-formed table.                                   *)
LEMMA TickTyped ==
    ASSUME TableTypeOK, Tick
    PROVE  TableTypeOK'
  BY EventTableAssumption DEF Tick, TableTypeOK, Ids

-----------------------------------------------------------------------------
(* What an open request knows of the baseline: every destination it holds  *)
(* is still in the baseline period, and those of the rows that were in the *)
(* table when it was read are all there.                                   *)
BaselineKnown ==
    request.pc = "baseline read" =>
        /\ request.began \subseteq Ids
        /\ request.baseline_destinations \subseteq Destinations(Baseline(request))
        /\ \A n \in Baseline(request) :
              n \in request.began => rows[n].dest \in request.baseline_destinations

IInv == TypeOK /\ BaselineKnown

(* Rows are never changed or removed.                                      *)
LEMMA TableGrows ==
    ASSUME TableTypeOK, Store \/ Pass
    PROVE  /\ TableTypeOK'
           /\ Ids \subseteq Ids'
           /\ \A n \in Ids : rows'[n] = rows[n]
<1>1. CASE Store
  BY <1>1, InsertTyped DEF Store
<1>2. CASE Pass
  BY <1>2, TickTyped DEF Pass, Tick, Ids
<1> QED
  BY <1>1, <1>2

(* The bounds of a request are instants and its baseline is of the table.  *)
LEMMA AskedTyped ==
    ASSUME TableTypeOK, NEW pid \in Pid, NEW recent \in Nat, NEW baseline \in Nat
    PROVE  /\ Cutoff(recent) \in Int
           /\ Cutoff(recent + baseline) \in Int
           /\ Destinations(Baseline(Asked(pid, recent, baseline))) \subseteq Dest
<1>1. Minute \in Nat /\ now \in Nat
  BY EventTableAssumption DEF TableTypeOK
<1>2. \A n \in Ids : rows[n].dest \in Dest
  BY DEF TableTypeOK, Row
<1> QED
  BY <1>1, <1>2 DEF Cutoff, Destinations, Baseline, OfPid

(* An empty table, and no request open.                                    *)
LEMMA Initially == Init => IInv
<1> SUFFICES ASSUME Init PROVE IInv
  OBVIOUS
<1>1. TypeOK
  BY TableInitial DEF Init, TypeOK
<1>2. BaselineKnown
  BY DEF Init, NoRequest, BaselineKnown
<1> QED
  BY <1>1, <1>2 DEF IInv

(* The end of a request is a request that has not begun.                   *)
LEMMA IdleRequest == NoRequest.pc = "idle"
  BY DEF NoRequest

(* A request that has read the baseline is well formed, and knows the      *)
(* baseline of the table.                                                  *)
LEMMA BaselineRead ==
    ASSUME TypeOK, NEW pid \in Pid, NEW recent \in Nat, NEW baseline \in Nat,
           ReadBaseline(pid, recent, baseline)
    PROVE  TypeOK' /\ BaselineKnown'
<1> DEFINE r == Asked(pid, recent, baseline)
<1>1. request' = [r EXCEPT !.baseline_destinations = Destinations(Baseline(r))]
  BY DEF ReadBaseline
<1>2. request' \in Requests
  BY <1>1, AskedTyped DEF Asked, Requests, TypeOK, TableTypeOK
<1>3. UNCHANGED tableVars
  BY DEF ReadBaseline
<1>4. TableTypeOK'
  BY <1>3 DEF tableVars, TypeOK, TableTypeOK, Ids
<1>5. BaselineKnown'
  <2>1. /\ request'.pid = r.pid
        /\ request'.baseline_start = r.baseline_start
        /\ request'.recent_start = r.recent_start
        /\ request'.baseline_destinations = Destinations(Baseline(r))
        /\ request'.began = Ids
    BY <1>1 DEF Asked
  <2>2. Baseline(request)' = Baseline(r)
    BY <1>3, <2>1 DEF Baseline, OfPid, Ids, tableVars
  <2>3. Destinations(Baseline(request))' = Destinations(Baseline(r))
    BY <1>3, <2>2 DEF Destinations, tableVars
  <2> QED
    BY <1>3, <2>1, <2>2, <2>3 DEF BaselineKnown, Destinations, Ids, tableVars
<1> QED
  BY <1>2, <1>4, <1>5 DEF TypeOK

(* So is one that has been answered: it is open no more, and reports the   *)
(* recent destinations that it knows of no baseline row to have.           *)
LEMMA RecentRead ==
    ASSUME TypeOK, ReadRecent
    PROVE  /\ TypeOK' /\ BaselineKnown'
           /\ request.pc = "baseline read" /\ request'.pc = "replied"
           /\ request'.pid = request.pid /\ request'.now = request.now
           /\ request'.began = request.began
           /\ request'.recent_start = request.recent_start
           /\ request'.unusual_destinations =
                 {g \in {{m \in Recent(request) : rows[m].dest = rows[n].dest} :
                            n \in Recent(request)} :
                     Destinations(g) \cap request.baseline_destinations = {}}
<1> DEFINE key(n) == rows[n].dest
           found == {g \in GroupBy(Recent(request), key) :
                         Destinations(g) \cap request.baseline_destinations = {}}
<1>1. request \in Requests
  BY IdleRequest DEF ReadRecent, TypeOK
<1>2. request' = [request EXCEPT !.pc = "replied", !.unusual_destinations = found]
  BY DEF ReadRecent
<1>3. found \subseteq SUBSET RowId
  BY DEF GroupBy, Recent, OfPid, TypeOK, TableTypeOK
<1>4. /\ request' \in Requests /\ request'.pc = "replied"
      /\ request'.pid = request.pid /\ request'.now = request.now
      /\ request'.began = request.began
      /\ request'.recent_start = request.recent_start
      /\ request'.unusual_destinations = found
  BY <1>1, <1>2, <1>3 DEF Requests
<1>5. TableTypeOK'
  BY DEF ReadRecent, tableVars, TypeOK, TableTypeOK, Ids
<1> QED
  BY <1>4, <1>5 DEF TypeOK, BaselineKnown, ReadRecent, GroupBy

(* What an open request knows of the baseline stays true while rows are    *)
(* added.                                                                  *)
LEMMA KnownWhileGrowing ==
    ASSUME IInv, UNCHANGED request,
           Ids \subseteq Ids', \A n \in Ids : rows'[n] = rows[n]
    PROVE  BaselineKnown'
<1> SUFFICES ASSUME request.pc = "baseline read"
             PROVE  BaselineKnown'
  BY DEF BaselineKnown
<1>1. Baseline(request) \subseteq Baseline(request)'
  BY DEF Baseline, OfPid
<1>2. Destinations(Baseline(request)) \subseteq Destinations(Baseline(request))'
  BY <1>1 DEF Destinations, Baseline, OfPid
<1>3. \A n \in Baseline(request)' :
         n \in request.began => n \in Baseline(request) /\ rows'[n] = rows[n]
  BY DEF Baseline, OfPid, IInv, BaselineKnown
<1> QED
  BY <1>2, <1>3 DEF IInv, BaselineKnown

(* Every step leaves table and request well formed, and what is known of   *)
(* the baseline true.                                                      *)
LEMMA AnalyticsStep ==
    ASSUME IInv, [Next]_vars
    PROVE  IInv'
<1> USE DEF IInv
<1>1. CASE Store \/ Pass
  <2>1. TableTypeOK' /\ UNCHANGED request
    BY <1>1, TableGrows DEF Store, Pass, TypeOK
  <2>2. TypeOK'
    BY <2>1 DEF TypeOK, Requests, NoRequest
  <2> QED
    BY <1>1, <2>1, <2>2, TableGrows, KnownWhileGrowing DEF TypeOK
<1>2. ASSUME NEW pid \in Pid, NEW recent \in Spans, NEW baseline \in Spans,
             ReadBaseline(pid, recent, baseline)
      PROVE  IInv'
  BY <1>2, BaselineRead, AnalyticsAssumption
<1>3. CASE ReadRecent
  BY <1>3, RecentRead
<1>4. CASE UNCHANGED vars
  <2>1. UNCHANGED <<rows, now, request>>
    BY <1>4 DEF vars, tableVars
  <2>2. TypeOK'
    BY <2>1 DEF TypeOK, TableTypeOK, Ids
  <2> QED
    BY <2>1, <2>2, KnownWhileGrowing DEF Ids
<1> QED
  BY <1>1, <1>2, <1>3, <1>4 DEF Next

(* In every reachable state of the table and of the open request.          *)
THEOREM Invariance == Spec => []IInv
<1>1. IInv /\ [Next]_vars => IInv'
  BY AnalyticsStep
<1> QED
  BY Initially, <1>1, PTL DEF Spec

(* Every reachable table and request is well formed.                       *)
THEOREM TypeCorrect == Spec => []TypeOK
<1>1. IInv => TypeOK
  BY DEF IInv
<1> QED
  BY Invariance, <1>1, PTL

-----------------------------------------------------------------------------
(* What a reported burst is.                                               *)
LEMMA BurstGroups ==
    ASSUME NEW ids \in SUBSET Ids, NEW threshold \in Nat, NEW g \in Bursts(ids, threshold)
    PROVE  /\ g \subseteq ids
           /\ Cardinality(g) > threshold
           /\ \A m, n \in g : Process(m) = Process(n) /\ Window(m) = Window(n)
<1>1. PICK k \in ids : g = {m \in ids : WindowOfProcess(m) = WindowOfProcess(k)}
  BY DEF Bursts, GroupBy
<1> QED
  BY <1>1 DEF Bursts, WindowOfProcess

(* Time stamps are whole numbers.                                          *)
LEMMA StampsTyped ==
    ASSUME TableTypeOK
    PROVE  \A n \in Ids : rows[n].at \in Int
  BY EventTableAssumption DEF TableTypeOK, Row

(* What find_connection_bursts reports of any table lies within a minute.  *)
LEMMA SoundTables == TableTypeOK => BurstsSound
<1> SUFFICES ASSUME TableTypeOK, NEW threshold \in Thresholds, NEW minutes \in Spans,
                    NEW g \in RecentBursts(threshold, minutes)
             PROVE  Cardinality(g) > threshold /\ WithinAMinute(g) /\ SameProcess(g)
  BY DEF BurstsSound
<1>1. g \in Bursts(Since(Cutoff(minutes)), threshold) /\ threshold \in Nat
  BY AnalyticsAssumption DEF RecentBursts
<1>2. Since(Cutoff(minutes)) \subseteq Ids
  BY DEF Since
<1>3. /\ g \subseteq Ids
      /\ Cardinality(g) > threshold
      /\ \A m, n \in g : Process(m) = Process(n) /\ Window(m) = Window(n)
  BY <1>1, <1>2, BurstGroups
<1>4. ASSUME NEW m \in g, NEW n \in g
      PROVE  rows[m].at - rows[n].at < Minute
  <2>1. rows[m].at \in Int /\ rows[n].at \in Int
    BY <1>3, StampsTyped
  <2>2. rows[m].at \div Minute = rows[n].at \div Minute
    BY <1>3 DEF Window
  <2> QED
    BY <2>1, <2>2, SameMinute, EventTableAssumption
<1> QED
  BY <1>3, <1>4 DEF WithinAMinute, SameProcess

(* Times less than a minute apart fall into two adjacent calendar minutes. *)
LEMMA TwoWindows ==
    ASSUME TableTypeOK, NEW ids \in SUBSET Ids, ids # {}, WithinAMinute(ids)
    PROVE  \E w \in Int : \A n \in ids : Window(n) \in {w, w + 1}
<1>1. \A n \in ids : rows[n].at \in Int /\ Window(n) \in Int
  BY StampsTyped, DivBounds, EventTableAssumption DEF Window
<1>2. ASSUME NEW m \in ids, NEW n \in ids
      PROVE  \/ Window(n) = Window(m)
             \/ Window(n) = Window(m) + 1
             \/ Window(n) = Window(m) - 1
  <2>1. rows[m].at - rows[n].at < Minute /\ rows[n].at - rows[m].at < Minute
    BY DEF WithinAMinute
  <2> QED
    BY <1>1, <2>1, AdjacentMinutes, EventTableAssumption DEF Window
<1>3. PICK k \in ids : TRUE
  OBVIOUS
<1>4. CASE \E n \in ids : Window(n) = Window(k) - 1
  <2>1. PICK n \in ids : Window(n) = Window(k) - 1
    BY <1>4
  <2>2. \A m \in ids : Window(m) \in {Window(n), Window(n) + 1}
    BY <1>1, <1>2, <2>1
  <2> QED
    BY <1>1, <2>2
<1>5. CASE ~\E n \in ids : Window(n) = Window(k) - 1
  BY <1>1, <1>2, <1>5
<1> QED
  BY <1>4, <1>5

(* Rows of one process and one calendar minute are in one group.           *)
LEMMA GroupFound ==
    ASSUME TableTypeOK, NEW all \in SUBSET Ids, NEW ids \in SUBSET all,
           NEW threshold \in Nat, Cardinality(ids) > threshold,
           \A m, n \in ids : Process(m) = Process(n) /\ Window(m) = Window(n)
    PROVE  \E g \in Bursts(all, threshold) : ids \subseteq g /\ ids # {}
<1>1. IsFiniteSet(all) /\ IsFiniteSet(ids)
  BY FS_Subset DEF TableTypeOK
<1>2. ids # {}
  BY FS_EmptySet
<1>3. PICK k \in ids : TRUE
  BY <1>2
<1> DEFINE g == {m \in all : WindowOfProcess(m) = WindowOfProcess(k)}
<1>4. g \in GroupBy(all, WindowOfProcess)
  BY DEF GroupBy
<1>5. ids \subseteq g
  BY DEF WindowOfProcess
<1>6. IsFiniteSet(g) /\ Cardinality(ids) <= Cardinality(g)
  BY <1>1, <1>5, FS_Subset
<1>7. Cardinality(ids) \in Nat /\ Cardinality(g) \in Nat
  BY <1>1, <1>6, FS_CardinalityType
<1>8. Cardinality(g) > threshold
  BY <1>6, <1>7
<1> QED
  BY <1>2, <1>4, <1>5, <1>8 DEF Bursts

(* In any table, twice the threshold within a minute is reported.          *)
LEMMA BigTables == TableTypeOK => BigBurstsFound
<1> SUFFICES ASSUME TableTypeOK, NEW threshold \in Thresholds, NEW minutes \in Spans,
                    NEW ids \in SUBSET Since(Cutoff(minutes)),
                    Cardinality(ids) > 2 * threshold,
                    WithinAMinute(ids), SameProcess(ids)
             PROVE  \E g \in RecentBursts(threshold, minutes) : g \cap ids # {}
  BY DEF BigBurstsFound
<1>1. threshold \in Nat /\ Since(Cutoff(minutes)) \subseteq Ids
  BY AnalyticsAssumption DEF Since
<1>2. IsFiniteSet(ids)
  BY <1>1, FS_Subset DEF TableTypeOK
<1>3. ids # {}
  BY <1>1, FS_EmptySet
<1>4. PICK w \in Int : \A n \in ids : Window(n) \in {w, w + 1}
  BY <1>1, <1>3, TwoWindows
<1> DEFINE A == {n \in ids : Window(n) = w}
           B == {n \in ids : Window(n) = w + 1}
<1>5. Cardinality(A) > threshold \/ Cardinality(B) > threshold
  <2>1. ids = A \cup B
    BY <1>4
  <2> QED
    BY <1>1, <1>2, <2>1, Half
<1>6. ASSUME NEW C \in SUBSET ids, Cardinality(C) > threshold,
             \A m, n \in C : Window(m) = Window(n)
      PROVE  \E g \in RecentBursts(threshold, minutes) : g \cap ids # {}
  <2>1. \A m, n \in C : Process(m) = Process(n)
    BY DEF SameProcess
  <2>2. PICK g \in Bursts(Since(Cutoff(minutes)), threshold) : C \subseteq g /\ C # {}
    BY <1>1, <1>6, <2>1, GroupFound
  <2> QED
    BY <2>2 DEF RecentBursts
<1>7. CASE Cardinality(A) > threshold
  BY <1>6, <1>7
<1>8. CASE Cardinality(B) > threshold
  BY <1>6, <1>8
<1> QED
  BY <1>5, <1>7, <1>8

(* The event_ids of a detection establish it by themselves.                *)
LEMMA EvidenceTables == TableTypeOK => EvidenceSuffices
<1> SUFFICES ASSUME TableTypeOK, NEW threshold \in Thresholds, NEW minutes \in Spans
             PROVE  /\ \A g \in RecentBursts(threshold, minutes) : Bursts(g, threshold) = {g}
                    /\ \A g \in RecentHighUnique(threshold, minutes) :
                          /\ HighUnique(g, threshold) = {g}
                          /\ \E pid \in Pid : g \subseteq ProcessConnections(pid)
  BY DEF EvidenceSuffices
<1>1. Since(Cutoff(minutes)) \subseteq Ids
  BY DEF Since
<1>2. ASSUME NEW g \in RecentBursts(threshold, minutes)
      PROVE  Bursts(g, threshold) = {g}
  <2>1. PICK k \in Since(Cutoff(minutes)) :
           g = {m \in Since(Cutoff(minutes)) : WindowOfProcess(m) = WindowOfProcess(k)}
    BY DEF RecentBursts, Bursts, GroupBy
  <2>2. Cardinality(g) > threshold
    BY DEF RecentBursts, Bursts
  <2>3. k \in g /\ \A m, n \in g : WindowOfProcess(m) = WindowOfProcess(n)
    BY <2>1
  <2>4. GroupBy(g, WindowOfProcess) = {g}
    BY <2>3 DEF GroupBy
  <2> QED
    BY <2>2, <2>4 DEF Bursts
<1>3. ASSUME NEW g \in RecentHighUnique(threshold, minutes)
      PROVE  /\ HighUnique(g, threshold) = {g}
             /\ \E pid \in Pid : g \subseteq ProcessConnections(pid)
  <2>1. PICK k \in Since(Cutoff(minutes)) :
           g = {m \in Since(Cutoff(minutes)) : Process(m) = Process(k)}
    BY DEF RecentHighUnique, HighUnique, GroupBy
  <2>2. Cardinality(Destinations(g)) > threshold
    BY DEF RecentHighUnique, HighUnique
  <2>3. k \in g /\ \A m, n \in g : Process(m) = Process(n)
    BY <2>1
  <2>4. GroupBy(g, Process) = {g}
    BY <2>3 DEF GroupBy
  <2>5. rows[k].pid \in Pid
    BY <1>1 DEF TableTypeOK, Row
  <2>6. g \subseteq ProcessConnections(rows[k].pid)
    BY <1>1, <2>1 DEF Process, ProcessConnections, OfPid
  <2> QED
    BY <2>2, <2>4, <2>5, <2>6 DEF HighUnique
<1> QED
  BY <1>2, <1>3

-----------------------------------------------------------------------------
(* Rule 1 reports only bursts, and misses none of more than twice the      *)
(* threshold, whatever the threshold, the length of a minute and the table.*)
THEOREM BurstsAreTrue == Spec => []BurstsTrue
<1>1. TypeOK => BurstsTrue
  BY SoundTables, BigTables DEF TypeOK, BurstsTrue
<1> QED
  BY TypeCorrect, <1>1, PTL

(* Bursts and fan-outs rest on the events they list, and on no others.     *)
THEOREM EvidenceIsSufficient == Spec => []EvidenceSuffices
<1>1. TypeOK => EvidenceSuffices
  BY EvidenceTables DEF TypeOK
<1> QED
  BY TypeCorrect, <1>1, PTL

-----------------------------------------------------------------------------
(* GroupFound as a formula, to be used of the next state as well.          *)
GroupsCover ==
    \A threshold \in Nat : \A all \in SUBSET Ids : \A ids \in SUBSET all :
        /\ Cardinality(ids) > threshold
        /\ \A m, n \in ids : Process(m) = Process(n) /\ Window(m) = Window(n)
        => \E g \in Bursts(all, threshold) : ids \subseteq g

(* Any table has the groups that GroupsCover speaks of.                    *)
LEMMA Covered == TableTypeOK => GroupsCover
  BY GroupFound DEF GroupsCover

(* A step of the table keeps a burst of which the cutoff leaves everything.*)
LEMMA PersistStep ==
    ASSUME IInv, [Next]_vars, (TableTypeOK => GroupsCover)',
           NEW threshold \in Thresholds, NEW minutes \in Spans,
           NEW g \in RecentBursts(threshold, minutes),
           \A n \in g : rows[n].at >= Cutoff(minutes)'
    PROVE  \E h \in RecentBursts(threshold, minutes)' : g \subseteq h
<1>1. g \in Bursts(Since(Cutoff(minutes)), threshold) /\ threshold \in Nat
  BY AnalyticsAssumption DEF RecentBursts
<1>2. /\ g \subseteq Since(Cutoff(minutes)) /\ Since(Cutoff(minutes)) \subseteq Ids
      /\ Cardinality(g) > threshold
      /\ \A m, n \in g : Process(m) = Process(n) /\ Window(m) = Window(n)
  BY <1>1, BurstGroups DEF Since
<1>3. /\ Ids \subseteq Ids'
      /\ \A n \in Ids : rows'[n] = rows[n]
  <2>1. CASE Store \/ Pass
    BY <2>1, TableGrows DEF IInv, TypeOK
  <2>2. CASE UNCHANGED tableVars
    BY <2>2 DEF tableVars, Ids
  <2> QED
    BY <2>1, <2>2 DEF Next, ReadBaseline, ReadRecent, vars
<1>4. TableTypeOK'
  BY AnalyticsStep DEF IInv, TypeOK
<1>5. g \subseteq Since(Cutoff(minutes))' /\ Since(Cutoff(minutes))' \subseteq Ids'
  BY <1>2, <1>3 DEF Since
<1>6. \A m, n \in g : Process(m)' = Process(n)' /\ Window(m)' = Window(n)'
  BY <1>2, <1>3 DEF Process, Window
<1>7. \E h \in Bursts(Since(Cutoff(minutes)), threshold)' : g \subseteq h
  BY <1>1, <1>2, <1>4, <1>5, <1>6 DEF GroupsCover
<1> QED
  BY <1>7 DEF RecentBursts

(* A burst that was reported stays reported until the cutoff reaches it.   *)
THEOREM ReportedBurstsPersist == Spec => BurstsPersist
<1>1. (TableTypeOK => GroupsCover)'
  BY Covered, PTL
<1>2. IInv /\ [Next]_vars =>
          [\A threshold \in Thresholds, minutes \in Spans :
              \A g \in RecentBursts(threshold, minutes) :
                  (\A n \in g : rows[n].at >= Cutoff(minutes)') =>
                      \E h \in RecentBursts(threshold, minutes)' : g \subseteq h]_vars
  BY <1>1, PersistStep
<1> QED
  BY Invariance, <1>2, PTL DEF Spec, BurstsPersist

-----------------------------------------------------------------------------
(* The reply of find_unusual_destinations is made by ReadRecent.           *)
LEMMA Replying ==
    ASSUME TypeOK, [Next]_vars, Replies
    PROVE  /\ ReadRecent
           /\ request'.unusual_destinations =
                 {g \in {{m \in Recent(request) : rows[m].dest = rows[n].dest} :
                            n \in Recent(request)} :
                     Destinations(g) \cap request.baseline_destinations = {}}
<1>1. ReadRecent
  <2>1. request'.pc # request.pc
    BY DEF Replies
  <2>2. ~Store /\ ~Pass /\ ~UNCHANGED vars
    BY <2>1 DEF Store, Pass, vars
  <2>3. \A pid \in Pid, recent, baseline \in Spans : ~ReadBaseline(pid, recent, baseline)
    BY DEF Replies, ReadBaseline
  <2> QED
    BY <2>2, <2>3 DEF Next
<1> QED
  BY <1>1, RecentRead

(* No destination that rule 2 names is missed, whatever is committed       *)
(* between the two statements.                                             *)
THEOREM NothingIsMissed == Spec => NothingMissed
<1>1. ASSUME IInv, [Next]_vars, Replies, NEW n \in Recent(request),
             rows[n].dest \notin Destinations(Baseline(request))
      PROVE  \E g \in request'.unusual_destinations :
                 g = {m \in Recent(request) : rows[m].dest = rows[n].dest}
  <2> DEFINE g == {m \in Recent(request) : rows[m].dest = rows[n].dest}
  <2>1. Destinations(g) = {rows[n].dest}
    BY DEF Destinations
  <2>2. request.baseline_destinations \subseteq Destinations(Baseline(request))
    BY <1>1 DEF IInv, BaselineKnown, Replies
  <2>3. Destinations(g) \cap request.baseline_destinations = {}
    BY <1>1, <2>1, <2>2
  <2>4. g \in {{m \in Recent(request) : rows[m].dest = rows[k].dest} : k \in Recent(request)}
    OBVIOUS
  <2>5. g \in request'.unusual_destinations
    BY <1>1, <2>3, <2>4, Replying DEF IInv
  <2> QED
    BY <2>5
<1>2. IInv /\ [Next]_vars =>
          [Replies =>
              \A n \in Recent(request) :
                  rows[n].dest \notin Destinations(Baseline(request)) =>
                      \E g \in request'.unusual_destinations :
                          g = {m \in Recent(request) : rows[m].dest = rows[n].dest}]_vars
  BY <1>1
<1> QED
  BY Invariance, <1>2, PTL DEF Spec, NothingMissed

(* A false alarm is due to a row that was committed during the request.    *)
THEOREM AlarmsAreExplained == Spec => AlarmsExplained
<1>1. ASSUME IInv, [Next]_vars, Replies, NEW g \in request'.unusual_destinations,
             NEW n \in Baseline(request), rows[n].dest \in Destinations(g)
      PROVE  n \notin request.began
  <2>1. Destinations(g) \cap request.baseline_destinations = {}
    BY <1>1, Replying DEF IInv
  <2>2. n \in request.began => rows[n].dest \in request.baseline_destinations
    BY <1>1 DEF IInv, BaselineKnown, Replies
  <2> QED
    BY <1>1, <2>1, <2>2
<1>2. IInv /\ [Next]_vars =>
          [Replies =>
              \A g \in request'.unusual_destinations : \A n \in Baseline(request) :
                  rows[n].dest \in Destinations(g) => n \notin request.began]_vars
  BY <1>1
<1> QED
  BY Invariance, <1>2, PTL DEF Spec, AlarmsExplained

-----------------------------------------------------------------------------
(* The inductive invariant of the simulation.                              *)
Simulators ==
    [pc : {"none", "waiting", "ready", "posted", "succeeded", "raised"},
     at : 0..MaxNow,
     handler : {"none", "received", "created", "rejected"}]

SimTypeOK ==
    /\ TypeOK
    /\ simulator \in [Run -> Simulators]
    /\ apiUp \in BOOLEAN /\ crashes \in 0..MaxCrashes

(* A run's events are stored as they were generated, all of them or none:  *)
(* all when their commit succeeded, all or none when it raised.            *)
Tried(k) == simulator[k].handler \in {"created", "rejected"}

Stored(k) ==
    \/ /\ simulator[k].handler # "created"
       /\ EventsOf(k) \cap Ids = {}
    \/ /\ Tried(k)
       /\ EventsOf(k) \subseteq Ids
       /\ \A n \in EventsOf(k) : rows[n] = generate_events(simulator[k].at)[n[2]]

(* The client succeeds only with a handler that did; before the post there *)
(* is no handler, and no event is generated in the future.                 *)
Progress(k) ==
    /\ At(k, "succeeded") => simulator[k].handler = "created"
    /\ simulator[k].pc \in {"none", "waiting", "ready"} => simulator[k].handler = "none"
    /\ simulator[k].at <= now

(* One run after the other.                                                *)
Successive(j, k) ==
    /\ ~At(k, "none") => simulator[j].pc \in {"succeeded", "raised"}
    /\ simulator[k].pc \in {"posted", "succeeded", "raised"} =>
          simulator[j].at <= simulator[k].at

(* A request is about the simulated PID, and was made after the events it  *)
(* knows of.                                                               *)
RequestOfSimulated ==
    request.pc # "idle" =>
        /\ request.pid = SIMULATED_PID
        /\ request.began \subseteq Ids
        /\ \A g \in request.unusual_destinations : g \subseteq Ids
        /\ \A k \in Run : EventsOf(k) \subseteq request.began => simulator[k].at <= request.now

SimInv ==
    /\ SimTypeOK /\ BaselineKnown /\ RequestOfSimulated
    /\ \A k \in Run : Stored(k) /\ Progress(k)
    /\ \A j, k \in Run : j < k => Successive(j, k)
    /\ IncidentUnusual

-----------------------------------------------------------------------------
(* Arithmetic of the burst: it begins with a minute and ends within it.    *)
LEMMA WithinTheMinute ==
    ASSUME NEW q \in Int, NEW m \in Nat \ {0}, NEW x \in Nat, x < m
    PROVE  (q * m + x) \div m = q
<1> DEFINE a == q * m + x
           d == a \div m
<1>1. a \in Int /\ q * m \in Int
    OBVIOUS
<1>2. d \in Int /\ m * d <= a /\ a < m * d + m
    BY <1>1, DivBounds
<1>3. m * d = d * m /\ d * m \in Int
    BY <1>2
<1>4. ~(d < q)
    <2> SUFFICES ASSUME d + 1 <= q PROVE FALSE
        BY <1>2
    <2>1. (d + 1) * m <= q * m
        BY <1>2
    <2>2. (d + 1) * m = d * m + m
        BY <1>2
    <2> HIDE DEF d
    <2> QED
        BY <1>1, <1>2, <1>3, <2>1, <2>2
<1>5. ~(d > q)
    <2> SUFFICES ASSUME q + 1 <= d PROVE FALSE
        BY <1>2
    <2>1. (q + 1) * m <= d * m
        BY <1>2
    <2>2. (q + 1) * m = q * m + m
        OBVIOUS
    <2> HIDE DEF d
    <2> QED
        BY <1>1, <1>2, <1>3, <2>1, <2>2
<1> QED
    BY <1>2, <1>4, <1>5

(* The numbers of the simulator.                                           *)
LEMMA Numbers ==
    /\ Hour \in Nat /\ Second \in Nat /\ Gap \in Nat /\ BaselineEvents \in Nat
    /\ BurstEvents \in Nat /\ BurstThreshold \in Nat /\ MaxCrashes \in Nat
    /\ MostEvents \in 1..BurstEvents
    /\ Minute \in Nat \ {0} /\ MaxNow \in Nat
    /\ Run \subseteq Nat
<1>1. Cardinality(Run) \in Nat
    BY SimulationAssumption, FS_CardinalityType
<1> QED
    BY <1>1, SimulationAssumption, EventTableAssumption

(* Minutes begin in the order of the times in them, and not after them.    *)
LEMMA BurstsInOrder ==
    ASSUME NEW a \in Nat, NEW b \in Nat, a <= b
    PROVE  /\ burst_start(a) \in Int /\ burst_start(a) <= a
           /\ burst_start(a) <= burst_start(b)
<1> DEFINE p == a \div Minute
           q == b \div Minute
<1>1. /\ p \in Int /\ Minute * p <= a /\ a < Minute * p + Minute
      /\ q \in Int /\ Minute * q <= b /\ b < Minute * q + Minute
    BY Numbers, DivBounds
<1>2. burst_start(a) = Minute * p /\ burst_start(b) = Minute * q
    BY <1>1, Numbers DEF burst_start
<1> HIDE DEF p, q
<1>3. Minute * p \in Int /\ Minute * q \in Int
    BY <1>1, Numbers
<1>4. p <= q
    <2> SUFFICES ASSUME q + 1 <= p PROVE FALSE
        BY <1>1
    <2>1. Minute * (q + 1) <= Minute * p
        BY <1>1, Numbers
    <2>2. Minute * (q + 1) = Minute * q + Minute
        BY <1>1, Numbers
    <2> QED
        BY <1>1, <1>3, <2>1, <2>2, Numbers
<1>5. Minute * p <= Minute * q
    BY <1>1, <1>4, Numbers
<1> QED
    BY <1>1, <1>2, <1>3, <1>5

(* The rows of one run: an id for each of its events.                      *)
LEMMA OwnIds ==
    ASSUME NEW k \in Run
    PROVE  /\ \A i \in 1..BaselineEvents + BurstEvents : <<k, i>> \in EventsOf(k)
           /\ \A n \in EventsOf(k) : n = <<k, n[2]>>
           /\ EventsOf(k) \subseteq RowId
           /\ \A n \in EventsOf(k) : n[1] = k /\ n[2] \in 1..BaselineEvents + BurstEvents
           /\ <<k, BaselineEvents + 1>> \in BurstOf(k)
           /\ BurstOf(k) \subseteq EventsOf(k)
<1>1. \A n \in RowId : /\ n[1] \in Run /\ n[2] \in 1..BaselineEvents + BurstEvents
                       /\ n = <<n[1], n[2]>>
    BY SimulationAssumption
<1>2. \A i \in 1..BaselineEvents + BurstEvents : <<k, i>> \in EventsOf(k)
    BY <1>1, SimulationAssumption DEF EventsOf
<1>3. BaselineEvents + 1 \in 1..BaselineEvents + BurstEvents
    BY Numbers
<1>4. <<k, BaselineEvents + 1>> \in BurstOf(k)
    BY <1>2, <1>3, Numbers DEF BurstOf
<1> QED
    BY <1>1, <1>2, <1>4 DEF EventsOf, BurstOf

(* They are finitely many.                                                 *)
LEMMA OwnIdsFinite ==
    ASSUME NEW k \in Run
    PROVE  IsFiniteSet(EventsOf(k))
<1>1. IsFiniteSet(1..BaselineEvents + BurstEvents)
    BY Numbers, FS_Interval
<1>2. IsFiniteSet(RowId)
    BY <1>1, FS_Product, SimulationAssumption
<1> QED
    BY <1>2, OwnIds, FS_Subset

(* The burst has as many rows as events.                                   *)
LEMMA BurstCounted ==
    ASSUME NEW k \in Run
    PROVE  Cardinality(BurstOf(k)) = BurstEvents
<1> DEFINE f == [i \in 1..BurstEvents |-> <<k, BaselineEvents + i>>]
<1>1. ASSUME NEW i \in 1..BurstEvents
      PROVE  <<k, BaselineEvents + i>> \in BurstOf(k)
    <2>1. BaselineEvents + i \in 1..BaselineEvents + BurstEvents /\ BaselineEvents + i > BaselineEvents
        BY Numbers
    <2>2. <<k, BaselineEvents + i>> \in EventsOf(k)
        BY <2>1, OwnIds
    <2> QED
        BY <2>1, <2>2 DEF BurstOf
<1>2. \A i, j \in 1..BurstEvents : i # j => f[i] # f[j]
    BY Numbers
<1>3. ASSUME NEW n \in BurstOf(k)
      PROVE  \E i \in 1..BurstEvents : f[i] = n
    <2>1. n \in EventsOf(k) /\ n[2] > BaselineEvents
        BY DEF BurstOf
    <2>2. PICK i \in 1..BaselineEvents + BurstEvents : n = <<k, i>>
        <3>1. n = <<k, n[2]>> /\ n[2] \in 1..BaselineEvents + BurstEvents
            BY <2>1, OwnIds
        <3> QED
            BY <3>1
    <2>3. i > BaselineEvents
        BY <2>1, <2>2
    <2>4. i - BaselineEvents \in 1..BurstEvents /\ BaselineEvents + (i - BaselineEvents) = i
        BY <2>3, Numbers
    <2>5. f[i - BaselineEvents] = n
        BY <2>2, <2>4
    <2> QED
        BY <2>4, <2>5
<1>4. ExistsBijection(1..BurstEvents, BurstOf(k))
    BY <1>1, <1>2, <1>3 DEF ExistsBijection, Bijection, Injection, Surjection, IsInjective
<1> QED
    BY <1>4, Numbers, FS_CountingElements

(* What generate_events gives the burst: one process, one calendar minute. *)
LEMMA BurstGenerated ==
    ASSUME NEW at \in 0..MaxNow, NEW k \in Run, NEW n \in BurstOf(k)
    PROVE  LET event == generate_events(at)[n[2]]
           IN  /\ event.at \in Int /\ event.at >= burst_start(at)
               /\ event.at \div Minute = at \div Minute
               /\ event.pid = SIMULATED_PID /\ event.name = ProcessName
<1> DEFINE j == n[2] - BaselineEvents - 1
           event == generate_events(at)[n[2]]
<1>1. n[2] \in 1..BaselineEvents + BurstEvents /\ ~(n[2] <= BaselineEvents)
    <2>1. n \in EventsOf(k) /\ n[2] > BaselineEvents
        BY DEF BurstOf
    <2>2. n[2] \in 1..BaselineEvents + BurstEvents
        BY <2>1, OwnIds
    <2> QED
        BY <2>1, <2>2, Numbers
<1>2. event.at = burst_start(at) + j * Gap
      /\ event.pid = SIMULATED_PID /\ event.name = ProcessName
    BY <1>1 DEF generate_events, make_event
<1>3. j \in Nat /\ j <= BurstEvents - 1
    BY <1>1, Numbers
<1>4. j * Gap \in Nat /\ j * Gap <= (BurstEvents - 1) * Gap
    BY <1>3, Numbers
<1>5. j * Gap < Minute
    BY <1>4, Numbers, SimulationAssumption
<1>6. at \div Minute \in Int
    BY Numbers, DivBounds
<1>7. burst_start(at) \in Int /\ burst_start(at) = (at \div Minute) * Minute
    BY <1>6, Numbers DEF burst_start
<1>8. (burst_start(at) + j * Gap) \div Minute = at \div Minute
    BY <1>4, <1>5, <1>6, <1>7, WithinTheMinute, Numbers
<1> HIDE DEF j
<1> QED
    BY <1>2, <1>4, <1>7, <1>8

(* It begins with the new destination, which no event of the baseline has. *)
LEMMA DestinationsGenerated ==
    ASSUME NEW at \in 0..MaxNow, NEW k \in Run
    PROVE  /\ LET first == generate_events(at)[BaselineEvents + 1]
              IN  first.dest = NewDestination /\ first.at = burst_start(at)
                  /\ first.pid = SIMULATED_PID
           /\ \A n \in EventsOf(k) \ BurstOf(k) :
                  generate_events(at)[n[2]].dest # NewDestination
<1>1. BaselineEvents + 1 \in 1..BaselineEvents + BurstEvents
      /\ ~(BaselineEvents + 1 <= BaselineEvents)
    BY Numbers
<1>2. BaselineEvents + 1 - BaselineEvents - 1 = 0 /\ 0 < MostEvents /\ 0 * Gap = 0
    BY Numbers
<1>3. burst_start(at) \in Int
    BY Numbers, DivBounds DEF burst_start
<1>4. LET first == generate_events(at)[BaselineEvents + 1]
      IN  first.dest = NewDestination /\ first.at = burst_start(at) + 0
          /\ first.pid = SIMULATED_PID
    <2>1. PICK i \in 1..BaselineEvents + BurstEvents : i = BaselineEvents + 1
        BY <1>1
    <2>2. ~(i <= BaselineEvents) /\ i - BaselineEvents - 1 = 0
        BY <2>1, <1>1, Numbers
    <2>3. generate_events(at)[i] = make_event(burst_start(at) + 0 * Gap, NewDestination)
        BY <1>2, <2>2 DEF generate_events
    <2> QED
        BY <1>2, <2>1, <2>3 DEF make_event
<1>5. ASSUME NEW n \in EventsOf(k) \ BurstOf(k)
      PROVE  generate_events(at)[n[2]].dest # NewDestination
    <2>1. n \in EventsOf(k) /\ ~(n[2] > BaselineEvents)
        BY DEF BurstOf
    <2>2. n[2] \in 1..BaselineEvents + BurstEvents
        BY <2>1, OwnIds
    <2>3. n[2] <= BaselineEvents
        BY <2>1, <2>2, Numbers
    <2> QED
        BY <2>2, <2>3, SimulationAssumption DEF generate_events, make_event
<1> QED
    BY <1>3, <1>4, <1>5

-----------------------------------------------------------------------------
(* In a state of the invariant, a burst that is stored is reported: its    *)
(* rows agree in process and calendar minute, and are more than the        *)
(* threshold.                                                              *)
LEMMA BurstSeen == SimInv => BurstReported
<1> SUFFICES ASSUME SimInv, NEW k \in Run,
                    At(k, "succeeded") \/ EventsOf(k) \cap Ids # {},
                    burst_start(simulator[k].at) >= Cutoff(Hour)
             PROVE  \E g \in RecentBursts(BurstThreshold, Hour) : BurstOf(k) \subseteq g
    BY DEF BurstReported
<1> DEFINE at == simulator[k].at
<1>1. /\ EventsOf(k) \subseteq Ids /\ at \in 0..MaxNow /\ TableTypeOK
      /\ \A n \in EventsOf(k) : rows[n] = generate_events(at)[n[2]]
    BY DEF SimInv, Stored, Progress, SimTypeOK, Simulators, TypeOK
<1>2. BurstOf(k) \subseteq EventsOf(k)
    BY OwnIds
<1>3. ASSUME NEW n \in BurstOf(k)
      PROVE  /\ n \in Since(Cutoff(Hour))
             /\ Process(n) = <<SIMULATED_PID, ProcessName>>
             /\ Window(n) = at \div Minute
    <2>1. n \in Ids /\ rows[n] = generate_events(at)[n[2]]
        BY <1>1, <1>2
    <2>2. /\ rows[n].at \in Int /\ rows[n].at >= burst_start(at)
          /\ rows[n].at \div Minute = at \div Minute
          /\ rows[n].pid = SIMULATED_PID /\ rows[n].name = ProcessName
        BY <1>1, <2>1, BurstGenerated
    <2>3. burst_start(at) \in Int /\ Cutoff(Hour) \in Int
        BY <1>1, Numbers, DivBounds DEF burst_start, Cutoff, TableTypeOK
    <2>4. rows[n].at >= Cutoff(Hour)
        BY <2>2, <2>3
    <2> QED
        BY <2>1, <2>2, <2>4 DEF Since, Process, Window
<1>4. Cardinality(BurstOf(k)) > BurstThreshold
    BY BurstCounted, SimulationAssumption
<1>5. Since(Cutoff(Hour)) \in SUBSET Ids /\ BurstOf(k) \in SUBSET Since(Cutoff(Hour))
    BY <1>3 DEF Since
<1> QED
    BY <1>1, <1>3, <1>4, <1>5, GroupFound, Numbers DEF RecentBursts

-----------------------------------------------------------------------------
(* What a step keeps of the request, which it does not touch, when the     *)
(* table at most grows and the runs whose events are stored keep their     *)
(* times.                                                                  *)
LEMMA AboutRequest ==
    ASSUME SimInv, UNCHANGED request,
           Ids \subseteq Ids', \A n \in Ids : rows'[n] = rows[n],
           \A k \in Run : EventsOf(k) \subseteq Ids => simulator'[k].at = simulator[k].at
    PROVE  BaselineKnown' /\ RequestOfSimulated' /\ IncidentUnusual'
<1>1. BaselineKnown'
    BY KnownWhileGrowing DEF SimInv, SimTypeOK, IInv
<1>2. RequestOfSimulated'
    BY DEF SimInv, RequestOfSimulated
<1>3. ASSUME NEW k \in Run, AskedAbout(k)',
             \A j \in Run : j < k => EventsOf(j) \cap Ids' = {}
      PROVE  Reported(NewDestination)'
    <2>1. /\ request.pc = "replied" /\ EventsOf(k) \subseteq request.began
          /\ request.began \subseteq Ids
          /\ \A g \in request.unusual_destinations : g \subseteq Ids
        BY <1>3 DEF AskedAbout, SimInv, RequestOfSimulated
    <2>2. simulator'[k].at = simulator[k].at
        BY <2>1
    <2>3. AskedAbout(k)
        BY <1>3, <2>2 DEF AskedAbout
    <2>4. \A j \in Run : j < k => EventsOf(j) \cap Ids = {}
        BY <1>3
    <2>5. PICK g \in request.unusual_destinations : NewDestination \in Destinations(g)
        BY <2>3, <2>4 DEF SimInv, IncidentUnusual, Reported
    <2>6. NewDestination \in Destinations(g)'
        BY <2>1, <2>5 DEF Destinations
    <2> QED
        BY <2>5, <2>6 DEF Reported
<1>4. IncidentUnusual'
    BY <1>3 DEF IncidentUnusual
<1> QED
    BY <1>1, <1>2, <1>4

(* A step of simulators, API and handlers that leaves the table as it is.  *)
LEMMA Moves ==
    ASSUME SimInv, UNCHANGED vars, apiUp' \in BOOLEAN, crashes' \in 0..MaxCrashes,
           \A k \in Run :
              /\ simulator'[k] \in Simulators
              /\ simulator'[k].handler = "created" => simulator[k].handler = "created"
              /\ Tried(k) => Tried(k)' /\ simulator'[k].at = simulator[k].at
              /\ Progress(k)',
           \A j, k \in Run : j < k => Successive(j, k)',
           simulator' = [k \in Run |-> simulator'[k]]
    PROVE  SimInv'
<1>1. UNCHANGED <<rows, now, request>>
    BY DEF vars, tableVars
<1>2. SimTypeOK'
    BY <1>1 DEF SimInv, SimTypeOK, TypeOK, TableTypeOK, Ids
<1>3. \A k \in Run : Stored(k)'
    BY <1>1 DEF SimInv, Stored, Ids
<1>4. \A k \in Run : EventsOf(k) \subseteq Ids => Tried(k)
    <2>1. \A k \in Run : EventsOf(k) # {}
        BY OwnIds
    <2> QED
        BY <2>1 DEF SimInv, Stored
<1>5. BaselineKnown' /\ RequestOfSimulated' /\ IncidentUnusual'
    BY <1>1, <1>4, AboutRequest DEF Ids
<1> QED
    BY <1>2, <1>3, <1>5 DEF SimInv

(* The steps of one simulator, and a commit that is not applied.           *)
LEMMA SimulateStep ==
    ASSUME SimInv, NEW k \in Run, Simulate(k) \/ (CommitFails(k) /\ UNCHANGED rows)
    PROVE  SimInv'
<1> DEFINE moved == simulator'[k]
           Ended == {"succeeded", "raised"}
<1>1. UNCHANGED <<vars, apiUp, crashes>> /\ simulator[k] \in Simulators /\ now \in 0..MaxNow
    BY DEF Simulate, Launch, ApiAnswers, Post, Reply, GiveUp, CommitFails, SimInv,
           SimTypeOK, TypeOK, TableTypeOK, vars, tableVars
<1>2. UNCHANGED now
    BY <1>1 DEF vars, tableVars
<1>3. /\ simulator' = [j \in Run |-> simulator'[j]]
      /\ \A j \in Run : j # k => simulator'[j] = simulator[j]
    BY DEF Simulate, Launch, ApiAnswers, Post, Reply, GiveUp, CommitFails, SimInv, SimTypeOK
<1>4. /\ moved \in Simulators
      /\ moved.handler = "created" => simulator[k].handler = "created"
      /\ Tried(k) => Tried(k)' /\ moved.at = simulator[k].at
      /\ Progress(k)'
      /\ moved.pc # "none"
      /\ moved.pc = "waiting" => \A j \in Run : j < k => simulator[j].pc \in {"succeeded", "raised"}
      /\ moved.pc # "waiting" => ~At(k, "none")
      /\ moved.pc \in Ended \cup {"posted"} =>
            \/ moved.at = now
            \/ moved.at = simulator[k].at /\ simulator[k].pc \in Ended \cup {"posted"}
      /\ simulator[k].pc \in Ended =>
            moved.pc = simulator[k].pc /\ moved.at = simulator[k].at
    <2>1. Progress(k) /\ simulator[k].at \in 0..MaxNow
        BY <1>1 DEF SimInv, Simulators
    <2>2. CASE Launch(k)
        <3>1. moved = [simulator[k] EXCEPT !.pc = "waiting"]
            BY <2>2 DEF Launch, SimInv, SimTypeOK
        <3> QED
            BY <1>1, <1>2, <2>1, <2>2, <3>1 DEF Launch, Progress, Tried, At, Simulators
    <2>3. CASE ApiAnswers(k)
        <3>1. moved = [simulator[k] EXCEPT !.pc = "ready"]
            BY <2>3 DEF ApiAnswers, SimInv, SimTypeOK
        <3> QED
            BY <1>1, <1>2, <2>1, <2>3, <3>1 DEF ApiAnswers, Progress, Tried, At, Simulators
    <2>4. CASE Post(k)
        <3>1. moved = [pc |-> IF apiUp THEN "posted" ELSE "raised", at |-> now,
                       handler |-> IF apiUp THEN "received" ELSE "none"]
            BY <2>4 DEF Post, SimInv, SimTypeOK
        <3> QED
            BY <1>1, <1>2, <2>1, <2>4, <3>1 DEF Post, Progress, Tried, At, Simulators
    <2>5. CASE Reply(k)
        <3>1. moved = [simulator[k] EXCEPT
                  !.pc = IF simulator[k].handler = "created" THEN "succeeded" ELSE "raised"]
            BY <2>5 DEF Reply, SimInv, SimTypeOK
        <3> QED
            BY <1>1, <1>2, <2>1, <2>5, <3>1 DEF Reply, Progress, Tried, At, Simulators
    <2>6. CASE GiveUp(k)
        <3>1. moved = [simulator[k] EXCEPT !.pc = "raised"]
            BY <2>6 DEF GiveUp, SimInv, SimTypeOK
        <3> QED
            BY <1>1, <1>2, <2>1, <2>6, <3>1 DEF GiveUp, Progress, Tried, At, Simulators
    <2>7. CASE CommitFails(k)
        <3>1. moved = [simulator[k] EXCEPT !.handler = "rejected"]
            BY <2>7 DEF CommitFails, SimInv, SimTypeOK
        <3> QED
            BY <1>1, <1>2, <2>1, <2>7, <3>1 DEF CommitFails, Progress, Tried, At, Simulators
    <2> QED
        BY <2>2, <2>3, <2>4, <2>5, <2>6, <2>7 DEF Simulate
<1>5. ASSUME NEW j \in Run, NEW l \in Run, j < l
      PROVE  Successive(j, l)'
    <2>1. Successive(j, l) /\ j # l
        BY <1>5, Numbers DEF SimInv
    <2>2. simulator[j].at <= now /\ simulator[j].at \in Nat /\ now \in Nat
        BY <1>1 DEF SimInv, Progress, SimTypeOK, Simulators
    <2>3. CASE l = k
        BY <1>3, <1>4, <1>5, <2>1, <2>2, <2>3 DEF Successive, At
    <2>4. CASE j = k
        BY <1>3, <1>4, <2>1, <2>4 DEF Successive, At
    <2>5. CASE j # k /\ l # k
        BY <1>3, <2>1, <2>5 DEF Successive, At
    <2> QED
        BY <2>3, <2>4, <2>5
<1>6. \A j \in Run : j # k =>
          /\ simulator'[j] \in Simulators /\ Progress(j)'
          /\ Tried(j) => Tried(j)'
    BY <1>2, <1>3 DEF SimInv, SimTypeOK, Progress, Tried, At
<1> QED
    BY <1>1, <1>3, <1>4, <1>5, <1>6, Moves DEF SimInv, SimTypeOK

(* The API dies, with its handlers, or is started.                         *)
LEMMA ApiStep ==
    ASSUME SimInv, Crash \/ StartApi
    PROVE  SimInv'
<1>1. UNCHANGED vars /\ apiUp' \in BOOLEAN /\ crashes' \in 0..MaxCrashes
    <2>1. MaxCrashes \in Nat /\ crashes \in 0..MaxCrashes /\ apiUp \in BOOLEAN
        <3>1. MaxCrashes \in Nat
            BY Numbers
        <3>2. crashes \in 0..MaxCrashes /\ apiUp \in BOOLEAN
            BY DEF SimInv, SimTypeOK
        <3> QED
            BY <3>1, <3>2
    <2>2. CASE Crash
        <3>1. UNCHANGED vars /\ apiUp' = FALSE /\ crashes < MaxCrashes /\ crashes' = crashes + 1
            BY <2>2 DEF Crash
        <3>2. crashes' \in 0..MaxCrashes
            BY <2>1, <3>1
        <3>3. apiUp' \in BOOLEAN
            BY <3>1
        <3> QED
            BY <3>1, <3>2, <3>3
    <2>3. CASE StartApi
        BY <2>1, <2>3 DEF StartApi
    <2> QED
        BY <2>2, <2>3
<1>2. UNCHANGED now
    BY <1>1 DEF vars, tableVars
<1>3. CASE Crash
    <2>1. /\ simulator' = [k \in Run |-> simulator'[k]]
          /\ \A k \in Run : simulator'[k] = [simulator[k] EXCEPT
                !.pc = IF simulator[k].pc = "posted" THEN "raised" ELSE simulator[k].pc,
                !.handler = IF simulator[k].handler = "received" THEN "none"
                                                                 ELSE simulator[k].handler]
        BY <1>3 DEF Crash
    <2>2. \A k \in Run :
             /\ simulator'[k] \in Simulators
             /\ simulator'[k].at = simulator[k].at
             /\ simulator'[k].handler =
                   IF simulator[k].handler = "received" THEN "none" ELSE simulator[k].handler
             /\ simulator'[k].pc =
                   IF simulator[k].pc = "posted" THEN "raised" ELSE simulator[k].pc
        BY <2>1 DEF SimInv, SimTypeOK, Simulators
    <2>3. \A k \in Run : Progress(k)'
        BY <1>2, <2>2 DEF SimInv, Progress, At
    <2>4. \A j, k \in Run : j < k => Successive(j, k)'
        BY <2>2 DEF SimInv, Successive, At
    <2>5. \A k \in Run : Tried(k) => Tried(k)'
        BY <2>2 DEF Tried
    <2> QED
        BY <1>1, <2>1, <2>2, <2>3, <2>4, <2>5, Moves
<1>4. CASE StartApi
    <2>1. UNCHANGED simulator
        BY <1>4 DEF StartApi
    <2>2. \A k \in Run : simulator'[k] = simulator[k]
        BY <2>1
    <2>3. simulator' = [k \in Run |-> simulator'[k]] /\ \A k \in Run : simulator'[k] \in Simulators
        BY <2>1 DEF SimInv, SimTypeOK
    <2>4. \A k \in Run : Progress(k)'
        BY <1>2, <2>2 DEF SimInv, Progress, At
    <2>5. \A j, k \in Run : j < k => Successive(j, k)'
        BY <2>2 DEF SimInv, Successive, At
    <2>6. \A k \in Run : Tried(k) => Tried(k)'
        BY <2>2 DEF Tried
    <2> QED
        BY <1>1, <2>2, <2>3, <2>4, <2>5, <2>6, Moves
<1> QED
    BY <1>3, <1>4

(* The handler's commit is applied, whether it returns or raises: all      *)
(* events of the run, as they were generated, and no others.               *)
LEMMA CommitStep ==
    ASSUME SimInv, NEW k \in Run, Commit(k) \/ (CommitFails(k) /\ rows' = Inserted(k))
    PROVE  SimInv'
<1> DEFINE at == simulator[k].at
<1>1. /\ rows' = [n \in Ids \cup EventsOf(k) |->
              IF n \in EventsOf(k) THEN generate_events(at)[n[2]] ELSE rows[n]]
      /\ \E answer \in {"created", "rejected"} :
            simulator' = [simulator EXCEPT ![k].handler = answer]
      /\ simulator[k].handler = "received"
      /\ UNCHANGED <<now, request, apiUp, crashes>>
    BY DEF Commit, CommitFails, Inserted
<1>2. /\ EventsOf(k) \cap Ids = {} /\ at \in 0..MaxNow /\ TableTypeOK
      /\ simulator \in [Run -> Simulators]
    BY <1>1 DEF SimInv, Stored, Tried, SimTypeOK, Simulators, TypeOK
<1>3. /\ Ids' = Ids \cup EventsOf(k)
      /\ \A n \in EventsOf(k) : rows'[n] = generate_events(at)[n[2]]
      /\ \A n \in Ids : rows'[n] = rows[n]
    BY <1>1, <1>2 DEF Ids
<1>4. TableTypeOK'
    <2>1. IsFiniteSet(Ids') /\ Ids' \subseteq RowId
        BY <1>2, <1>3, OwnIds, OwnIdsFinite, FS_Union DEF TableTypeOK
    <2>2. \A n \in EventsOf(k) : generate_events(at)[n[2]] \in Row
        <3>1. generate_events(at) \in [1..BaselineEvents + BurstEvents -> Row]
            BY <1>2, GeneratedAssumption
        <3> QED
            BY <3>1, OwnIds
    <2>3. rows' \in [Ids' -> Row]
        BY <1>1, <1>2, <1>3, <2>2 DEF TableTypeOK
    <2> QED
        BY <1>1, <1>2, <2>1, <2>3 DEF TableTypeOK, Ids
<1>5. /\ simulator' \in [Run -> Simulators]
      /\ \A j \in Run : /\ simulator'[j].at = simulator[j].at
                        /\ simulator'[j].pc = simulator[j].pc
                        /\ j # k => simulator'[j] = simulator[j]
      /\ Tried(k)'
    BY <1>1, <1>2 DEF Simulators, Tried
<1>6. SimTypeOK'
    BY <1>1, <1>4, <1>5 DEF SimInv, SimTypeOK, TypeOK
<1>7. \A j \in Run : Stored(j)'
    <2>1. Stored(k)'
        BY <1>3, <1>5 DEF Stored
    <2>2. ASSUME NEW j \in Run, j # k
          PROVE  Stored(j)'
        <3>1. EventsOf(j) \cap EventsOf(k) = {}
            BY <2>2 DEF EventsOf
        <3> QED
            BY <1>3, <1>5, <2>2, <3>1 DEF SimInv, Stored, Tried
    <2> QED
        BY <2>1, <2>2
<1>8. \A j \in Run : Progress(j)'
    BY <1>1, <1>5 DEF SimInv, Progress, At
<1>9. \A i, j \in Run : i < j => Successive(i, j)'
    BY <1>5 DEF SimInv, Successive, At
<1>10. BaselineKnown' /\ RequestOfSimulated' /\ IncidentUnusual'
    BY <1>1, <1>3, <1>5, AboutRequest
<1> QED
    BY <1>6, <1>7, <1>8, <1>9, <1>10 DEF SimInv

(* Time passes.                                                            *)
LEMMA TimeStep ==
    ASSUME SimInv, TimePasses
    PROVE  SimInv'
<1>1. /\ now \in Nat /\ now' = now + 1 /\ Tick
      /\ UNCHANGED <<rows, request, simulator, apiUp, crashes>>
    BY DEF TimePasses, Pass, Tick, SimInv, SimTypeOK, TypeOK, TableTypeOK
<1>2. SimTypeOK'
    BY <1>1, TickTyped DEF SimInv, SimTypeOK, TypeOK
<1>3. BaselineKnown' /\ RequestOfSimulated' /\ IncidentUnusual'
    BY <1>1, AboutRequest DEF Ids
<1>4. \A k \in Run : Stored(k)'
    BY <1>1 DEF SimInv, Stored, Tried, Ids
<1>5. \A k \in Run : Progress(k)'
    <2>1. \A k \in Run : simulator[k].at \in Nat
        BY DEF SimInv, SimTypeOK, Simulators
    <2> QED
        BY <1>1, <2>1 DEF SimInv, Progress, At
<1>6. \A j, k \in Run : j < k => Successive(j, k)'
    BY <1>1 DEF SimInv, Successive, At
<1> QED
    BY <1>2, <1>3, <1>4, <1>5, <1>6 DEF SimInv

(* The first statement of find_unusual_destinations.                       *)
LEMMA AskStep ==
    ASSUME SimInv, AskUnusual
    PROVE  SimInv'
<1>1. Hour \in Nat /\ 24 * Hour \in Nat /\ SIMULATED_PID \in Pid
    BY Numbers, GeneratedAssumption
<1>2. /\ ReadBaseline(SIMULATED_PID, Hour, 24 * Hour)
      /\ UNCHANGED <<rows, now, simulator, apiUp, crashes>>
    BY DEF AskUnusual, ReadBaseline, tableVars
<1>3. TypeOK' /\ BaselineKnown'
    BY <1>1, <1>2, BaselineRead DEF SimInv, SimTypeOK
<1>4. /\ request'.pid = SIMULATED_PID /\ request'.began = Ids
      /\ request'.unusual_destinations = {} /\ request'.now = now
      /\ request'.pc = "baseline read"
    BY <1>2 DEF ReadBaseline, Asked
<1>5. RequestOfSimulated'
    BY <1>2, <1>4 DEF SimInv, Progress, RequestOfSimulated, Ids
<1>6. IncidentUnusual'
    BY <1>4 DEF IncidentUnusual, AskedAbout
<1>7. \A k \in Run : Stored(k)' /\ Progress(k)'
    BY <1>2 DEF SimInv, Stored, Tried, Progress, Ids, At
<1>8. \A j, k \in Run : j < k => Successive(j, k)'
    BY <1>2 DEF SimInv, Successive, At
<1> QED
    BY <1>2, <1>3, <1>5, <1>6, <1>7, <1>8 DEF SimInv, SimTypeOK

(* Runs that are not earlier than another have not an earlier burst.       *)
LEMMA LaterBursts ==
    ASSUME SimInv, NEW i \in Run, NEW k \in Run, ~(i < k), Tried(i)
    PROVE  /\ simulator[i].at \in 0..MaxNow
           /\ burst_start(simulator[k].at) \in Int
           /\ burst_start(simulator[i].at) \in Int
           /\ burst_start(simulator[k].at) <= burst_start(simulator[i].at)
<1>1. simulator[i] \in Simulators /\ simulator[k] \in Simulators
    BY DEF SimInv, SimTypeOK
<1>2. simulator[i].at \in 0..MaxNow /\ simulator[k].at \in 0..MaxNow
    BY <1>1 DEF Simulators
<1>3. simulator[i].at \in Nat /\ simulator[k].at \in Nat
    BY <1>2
<1>4. simulator[i].pc \in {"posted", "succeeded", "raised"}
    BY <1>1 DEF Simulators, SimInv, Progress, Tried
<1>5. k = i \/ k < i
    BY Numbers
<1>6. k < i => Successive(k, i)
    BY DEF SimInv
<1>7. simulator[k].at <= simulator[i].at
    BY <1>3, <1>4, <1>5, <1>6 DEF Successive
<1> QED
    BY <1>2, <1>3, <1>7, BurstsInOrder

(* An event of such a run that has the new destination is of its burst.    *)
LEMMA NewNotBefore ==
    ASSUME SimInv, NEW i \in Run, NEW k \in Run, ~(i < k),
           NEW n \in EventsOf(i), n \in Ids, rows[n].dest = NewDestination
    PROVE  /\ rows[n].at \in Int /\ burst_start(simulator[k].at) \in Int
           /\ rows[n].at >= burst_start(simulator[k].at)
<1>1. /\ Tried(i)
      /\ rows[n] = generate_events(simulator[i].at)[n[2]]
    BY DEF SimInv, Stored
<1>2. /\ simulator[i].at \in 0..MaxNow
      /\ burst_start(simulator[k].at) \in Int
      /\ burst_start(simulator[i].at) \in Int
      /\ burst_start(simulator[k].at) <= burst_start(simulator[i].at)
    BY <1>1, LaterBursts
<1>3. n \in BurstOf(i)
    BY <1>1, <1>2, DestinationsGenerated
<1>4. rows[n].at \in Int /\ rows[n].at >= burst_start(simulator[i].at)
    BY <1>1, <1>2, <1>3, BurstGenerated
<1> QED
    BY <1>2, <1>4

(* No baseline row of a request about run k has the new destination, when  *)
(* no earlier run stored anything: run k's burst and those of later runs   *)
(* are recent.                                                             *)
LEMMA NewInNoBaseline ==
    ASSUME SimInv, NEW k \in Run,
           request.recent_start \in Int, burst_start(simulator[k].at) >= request.recent_start,
           NEW n \in Baseline(request), rows[n].dest = NewDestination
    PROVE  \E i \in Run : i < k /\ EventsOf(i) \cap Ids # {}
<1>1. n \in Ids /\ n \in RowId /\ rows[n].at < request.recent_start
    BY DEF Baseline, OfPid, SimInv, SimTypeOK, TypeOK, TableTypeOK
<1>2. PICK i \in Run : n \in EventsOf(i)
    BY <1>1, SimulationAssumption DEF EventsOf
<1>3. ASSUME ~(i < k)
      PROVE  FALSE
    <2>1. /\ rows[n].at \in Int /\ burst_start(simulator[k].at) \in Int
          /\ rows[n].at >= burst_start(simulator[k].at)
        BY <1>1, <1>2, <1>3, NewNotBefore
    <2> QED
        BY <1>1, <2>1
<1> QED
    BY <1>1, <1>2, <1>3

(* The second statement, and the reply.                                    *)
LEMMA FindStep ==
    ASSUME SimInv, FindUnusual
    PROVE  SimInv'
<1>1. ReadRecent /\ UNCHANGED <<rows, now, simulator, apiUp, crashes>>
    BY DEF FindUnusual, ReadRecent, tableVars
<1>2. /\ TypeOK' /\ BaselineKnown' /\ request.pc = "baseline read"
      /\ request'.pid = request.pid /\ request'.now = request.now
      /\ request'.began = request.began
      /\ request'.recent_start = request.recent_start
      /\ request'.unusual_destinations =
            {g \in {{m \in Recent(request) : rows[m].dest = rows[n].dest} :
                       n \in Recent(request)} :
                Destinations(g) \cap request.baseline_destinations = {}}
    BY <1>1, RecentRead DEF SimInv, SimTypeOK
<1>3. RequestOfSimulated'
    BY <1>1, <1>2 DEF SimInv, RequestOfSimulated, Recent, OfPid, Ids
<1>4. ASSUME NEW k \in Run, AskedAbout(k)',
             \A j \in Run : j < k => EventsOf(j) \cap Ids = {}
      PROVE  Reported(NewDestination)'
    <2> DEFINE n == <<k, BaselineEvents + 1>>
               g == {m \in Recent(request) : rows[m].dest = rows[n].dest}
    <2>1. /\ EventsOf(k) \subseteq request.began /\ request.began \subseteq Ids
          /\ burst_start(simulator[k].at) >= request.recent_start
          /\ request.pid = SIMULATED_PID /\ simulator[k].at <= request.now
        BY <1>1, <1>2, <1>4 DEF AskedAbout, SimInv, RequestOfSimulated
    <2>2. /\ simulator[k].at \in 0..MaxNow /\ request.now \in Nat
          /\ request.recent_start \in Int
        <3>1. request \in Requests
            BY <1>2, IdleRequest DEF SimInv, SimTypeOK, TypeOK
        <3>2. request.now \in 0..MaxNow /\ request.recent_start \in Int
            BY <3>1 DEF Requests
        <3>3. simulator[k].at \in 0..MaxNow
            BY DEF SimInv, SimTypeOK, Simulators
        <3> QED
            BY <3>2, <3>3
    <2>3. n \in EventsOf(k) /\ n \in Ids
        BY <2>1, OwnIds
    <2>4. /\ rows[n].dest = NewDestination /\ rows[n].pid = SIMULATED_PID
          /\ rows[n].at = burst_start(simulator[k].at)
        <3>1. rows[n] = generate_events(simulator[k].at)[n[2]] /\ n[2] = BaselineEvents + 1
            BY <2>3 DEF SimInv, Stored
        <3> QED
            BY <2>2, <3>1, DestinationsGenerated
    <2>5. burst_start(simulator[k].at) <= simulator[k].at /\ burst_start(simulator[k].at) \in Int
        BY <2>2, BurstsInOrder
    <2>6. n \in Recent(request)
        BY <2>1, <2>2, <2>3, <2>4, <2>5 DEF Recent, OfPid
    <2>7. NewDestination \notin Destinations(Baseline(request))
        <3> SUFFICES ASSUME NEW m \in Baseline(request), rows[m].dest = NewDestination
                     PROVE  FALSE
            BY DEF Destinations
        <3> QED
            BY <1>4, <2>1, <2>2, NewInNoBaseline
    <2>8. NewDestination \notin request.baseline_destinations
        BY <1>2, <2>7 DEF SimInv, BaselineKnown
    <2>9. Destinations(g) = {NewDestination}
        BY <2>4, <2>6 DEF Destinations
    <2>10. g \in {{m \in Recent(request) : rows[m].dest = rows[l].dest} : l \in Recent(request)}
        BY <2>6
    <2>11. Destinations(g) \cap request.baseline_destinations = {}
        BY <2>8, <2>9
    <2>12. PICK h \in request'.unusual_destinations : Destinations(h) = {NewDestination}
        BY <1>2, <2>9, <2>10, <2>11
    <2>13. Destinations(h)' = {NewDestination}
        BY <1>1, <2>12 DEF Destinations
    <2> QED
        BY <2>12, <2>13 DEF Reported
<1>5. IncidentUnusual'
    BY <1>1, <1>4 DEF IncidentUnusual, Ids
<1>6. \A k \in Run : Stored(k)' /\ Progress(k)'
    BY <1>1 DEF SimInv, Stored, Tried, Progress, Ids, At
<1>7. \A j, k \in Run : j < k => Successive(j, k)'
    BY <1>1 DEF SimInv, Successive, At
<1> QED
    BY <1>1, <1>2, <1>3, <1>5, <1>6, <1>7 DEF SimInv, SimTypeOK

-----------------------------------------------------------------------------
(* No simulator has run yet.                                               *)
LEMMA SimInitially == SimInit => SimInv
<1> SUFFICES ASSUME SimInit PROVE SimInv
    OBVIOUS
<1>1. /\ IInv /\ Ids = {} /\ now = 0 /\ request = NoRequest
    BY Initially DEF SimInit, Init, TableInit, Ids
<1>2. \A k \in Run : simulator[k] = [pc |-> "none", at |-> 0, handler |-> "none"]
    BY DEF SimInit
<1>3. SimTypeOK
    <2>1. 0 \in 0..MaxNow /\ 0 \in 0..MaxCrashes
        BY Numbers
    <2>2. simulator \in [Run -> Simulators]
        BY <2>1 DEF SimInit, Simulators
    <2> QED
        BY <1>1, <2>1, <2>2 DEF SimInit, SimTypeOK, IInv
<1>4. \A k \in Run : Stored(k) /\ Progress(k)
    BY <1>1, <1>2 DEF Stored, Progress, At
<1>5. \A j, k \in Run : j < k => Successive(j, k)
    BY <1>2 DEF Successive, At
<1>6. RequestOfSimulated /\ IncidentUnusual
    BY <1>1, IdleRequest DEF RequestOfSimulated, IncidentUnusual, AskedAbout
<1> QED
    BY <1>1, <1>3, <1>4, <1>5, <1>6 DEF SimInv, IInv

(* The inductive invariant of the simulator and its API.                   *)
THEOREM SimInvariance == SimSpec => []SimInv
<1>1. ASSUME SimInv, UNCHANGED simVars
      PROVE  SimInv'
    <2>1. UNCHANGED <<rows, now, request, simulator, apiUp, crashes>>
        BY <1>1 DEF simVars, vars, tableVars
    <2>2. SimTypeOK' /\ BaselineKnown'
        BY <1>1, <2>1
        DEF SimInv, SimTypeOK, TypeOK, TableTypeOK, BaselineKnown, Baseline, OfPid,
            Destinations, Ids
    <2>3. RequestOfSimulated' /\ IncidentUnusual'
        BY <1>1, <2>1, AboutRequest DEF Ids
    <2>4. \A k \in Run : Stored(k)' /\ Progress(k)'
        BY <1>1, <2>1 DEF SimInv, Stored, Tried, Progress, Ids, At
    <2>5. \A j, k \in Run : j < k => Successive(j, k)'
        BY <1>1, <2>1 DEF SimInv, Successive, At
    <2> QED
        BY <2>2, <2>3, <2>4, <2>5 DEF SimInv
<1>2. ASSUME NEW k \in Run, CommitFails(k)
      PROVE  UNCHANGED rows \/ rows' = Inserted(k)
    BY <1>2 DEF CommitFails
<1>3. SimInv /\ [SimNext]_simVars => SimInv'
    BY <1>1, <1>2, SimulateStep, ApiStep, CommitStep, TimeStep, AskStep, FindStep DEF SimNext
<1> QED
    BY SimInitially, <1>3, PTL DEF SimSpec

(* Whenever the simulator was run, the burst that it simulates is reported *)
(* as a whole until its hour is over, whatever became of the reply.        *)
THEOREM BurstIsReported == SimSpec => []BurstReported
    BY SimInvariance, BurstSeen, PTL

(* And its destination of most connections is reported as unusual, if no   *)
(* earlier run stored its events.                                          *)
THEOREM IncidentIsUnusual == SimSpec => []IncidentUnusual
<1>1. SimInv => IncidentUnusual
    BY DEF SimInv
<1> QED
    BY SimInvariance, <1>1, PTL
=============================================================================

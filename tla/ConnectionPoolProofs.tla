-------------------------- MODULE ConnectionPoolProofs --------------------------
(***************************************************************************)
(* Proofs about module ConnectionPool, for any requests and any capacity:  *)
(* the pool is not overdrawn, connections are not kept where they need not *)
(* be, and what a wait in vain does to a row.                              *)
(***************************************************************************)
EXTENDS ConnectionPool, TLAPS, FiniteSetTheorems

-----------------------------------------------------------------------------
(* Cardinality(InUse) is a number.                                         *)
PoolOK == IsFiniteSet(InUse) /\ PoolAccounted

(* The first round begins after the refresh.                               *)
HeldOK ==
    /\ HeldOverStartOnly
    /\ \A r \in Request : pc[r] \in {"inserting", "refreshing"} => round[r] = 0

(* A request for a tool is within the limits.                              *)
AskedOK ==
    \A r \in Request : pc[r] \in {"querying", "refusing", "auditing"} =>
        tools[r] < MaxTools /\ round[r] < MaxRounds

(* What an event's handler knows at each of its two statements.            *)
EventsOK ==
    \A r \in Event \cup Batch :
        /\ pc[r] \in {"inserting", "refreshing", "done"}
        /\ r \in Batch => pc[r] # "refreshing"
        /\ pc[r] = "inserting" => row[r] = "absent" /\ reply[r] = 0 /\ timedOut[r] = {}
        /\ pc[r] = "refreshing" => row[r] = "stored" /\ reply[r] = 0 /\ timedOut[r] = {}

(* A row is read again when it is completed.                               *)
RowsOK ==
    /\ \A r \in Investigation : pc[r] = "rereading" => row[r] = "completed"
    /\ RunningExplained

IInv == TypeOK /\ AskedOK /\ PoolOK /\ HeldOK /\ EventsOK /\ StoredAsTold /\ RowsOK

-----------------------------------------------------------------------------
(* What the three things that happen to a session's connection mean for    *)
(* the pool.                                                               *)
LEMMA KeepInUse ==
    ASSUME held' = held
    PROVE  InUse' = InUse
  BY DEF InUse

(* A connection is returned.                                               *)
LEMMA ReturnInUse ==
    ASSUME TypeOK, NEW r \in Request, held' = [held EXCEPT ![r] = 0], IsFiniteSet(InUse)
    PROVE  /\ InUse' = InUse \ {r}
           /\ IsFiniteSet(InUse') /\ Cardinality(InUse') <= Cardinality(InUse)
<1>1. InUse' = InUse \ {r}
  BY DEF TypeOK, InUse
<1>2. InUse' \subseteq InUse
  BY <1>1
<1> QED
  BY <1>1, <1>2, FS_Subset

(* A connection is checked out.                                            *)
LEMMA AddInUse ==
    ASSUME TypeOK, NEW r \in Request, held[r] = 0,
           held' = [held EXCEPT ![r] = @ + 1], IsFiniteSet(InUse)
    PROVE  /\ InUse' = InUse \cup {r}
           /\ IsFiniteSet(InUse') /\ Cardinality(InUse') = Cardinality(InUse) + 1
<1>1. InUse' = InUse \cup {r}
  BY DEF TypeOK, InUse
<1>2. r \notin InUse
  BY DEF InUse
<1> QED
  BY <1>1, <1>2, FS_AddElement

-----------------------------------------------------------------------------
(* Before any request is handled.                                          *)
LEMMA Initially == Init => IInv
<1> SUFFICES ASSUME Init PROVE IInv
  OBVIOUS
<1>1. TypeOK
  BY ConnectionPoolAssumption DEF Init, TypeOK, Awaiting
<1>2. PoolOK
  <2>1. InUse = {}
    BY DEF Init, InUse
  <2>2. Cardinality(InUse) = 0 /\ IsFiniteSet(InUse)
    BY <2>1, FS_EmptySet
  <2> QED
    BY <2>1, <2>2, ConnectionPoolAssumption DEF PoolOK, PoolAccounted
<1>3. AskedOK /\ HeldOK /\ EventsOK /\ StoredAsTold /\ RowsOK
  BY ConnectionPoolAssumption
  DEF Init, AskedOK, HeldOK, HeldOverStartOnly, EventsOK, StoredAsTold, RowsOK,
      RunningExplained,
      At, InUse, Request
<1> QED
  BY <1>1, <1>2, <1>3 DEF IInv

(* CheckOut keeps the invariant.                                        *)
LEMMA CheckOutKeeps ==
    ASSUME IInv, NEW r \in Request, CheckOut(r)
    PROVE  IInv'
<1> USE DEF IInv
<1>1. TypeOK'
  BY ConnectionPoolAssumption
  DEF TypeOK, AskedOK, CheckOut, NeedsConnection, At, Awaiting
<1>2. PoolOK'
  <2>1. held[r] = 0 /\ held' = [held EXCEPT ![r] = @ + 1]
    BY DEF CheckOut, NeedsConnection
  <2>2. InUse' = InUse \cup {r} /\ IsFiniteSet(InUse') /\ Cardinality(InUse') = Cardinality(InUse) + 1
    BY <2>1, AddInUse DEF PoolOK
  <2>3. Cardinality(InUse) \in Nat
    BY FS_CardinalityType DEF PoolOK
  <2>4. Cardinality(InUse') <= Capacity
    BY <2>2, <2>3, ConnectionPoolAssumption DEF CheckOut
  <2>5. \A q \in InUse' : ~At(q, "done")'
    BY <2>2 DEF PoolOK, PoolAccounted, CheckOut, NeedsConnection, At, Awaiting
  <2> QED
    BY <2>2, <2>4, <2>5 DEF PoolOK, PoolAccounted
<1>3. HeldOK'
  BY ConnectionPoolAssumption
  DEF TypeOK, HeldOK, HeldOverStartOnly, EventsOK, InUse, Request, CheckOut,
      NeedsConnection, At, Awaiting
<1>4. EventsOK'
  BY ConnectionPoolAssumption
  DEF TypeOK, EventsOK, Request, CheckOut, NeedsConnection, At, Awaiting
<1>5. StoredAsTold'
  BY ConnectionPoolAssumption
  DEF TypeOK, EventsOK, StoredAsTold, Request, CheckOut, NeedsConnection, At,
      Awaiting
<1>6. RowsOK'
  BY ConnectionPoolAssumption
  DEF TypeOK, RowsOK, RunningExplained, Request, CheckOut, NeedsConnection, At,
      Awaiting
<1>7. AskedOK'
  BY ConnectionPoolAssumption
  DEF TypeOK, AskedOK, Request, CheckOut, NeedsConnection, At, Awaiting
<1> QED
  BY <1>1, <1>2, <1>3, <1>4, <1>5, <1>6, <1>7

(* Insert keeps the invariant.                                          *)
LEMMA InsertKeeps ==
    ASSUME IInv, NEW r \in Request, Insert(r)
    PROVE  IInv'
<1> USE DEF IInv
<1>1. TypeOK'
  BY ConnectionPoolAssumption
  DEF TypeOK, AskedOK, Insert, Execute, Return, Reply, At, Awaiting
<1>2. PoolOK'
  <2>1. InUse' = InUse \ {r} /\ IsFiniteSet(InUse') /\ Cardinality(InUse') <= Cardinality(InUse)
    BY ReturnInUse DEF PoolOK, Insert, Return
  <2>2. Cardinality(InUse) \in Nat /\ Cardinality(InUse') \in Nat
    BY <2>1, FS_CardinalityType DEF PoolOK
  <2>3. \A q \in InUse' : ~At(q, "done")'
    BY <2>1
    DEF PoolOK, PoolAccounted, InUse, TypeOK, Insert, Execute, Return, Reply,
        At, Awaiting
  <2> QED
    BY <2>1, <2>2, <2>3, ConnectionPoolAssumption DEF PoolOK, PoolAccounted
<1>3. HeldOK'
  BY ConnectionPoolAssumption
  DEF TypeOK, HeldOK, HeldOverStartOnly, EventsOK, InUse, Request, Insert,
      Execute, Return, Reply, At, Awaiting
<1>4. EventsOK'
  BY ConnectionPoolAssumption
  DEF TypeOK, EventsOK, Request, Insert, Execute, Return, Reply, At, Awaiting
<1>5. StoredAsTold'
  BY ConnectionPoolAssumption
  DEF TypeOK, EventsOK, StoredAsTold, Request, Insert, Execute, Return, Reply,
      At, Awaiting
<1>6. RowsOK'
  BY ConnectionPoolAssumption
  DEF TypeOK, RowsOK, RunningExplained, Request, Insert, Execute, Return,
      Reply, At, Awaiting
<1>7. AskedOK'
  BY ConnectionPoolAssumption
  DEF TypeOK, AskedOK, Request, Insert, Execute, Return, Reply, At, Awaiting
<1> QED
  BY <1>1, <1>2, <1>3, <1>4, <1>5, <1>6, <1>7

(* Refresh keeps the invariant.                                         *)
LEMMA RefreshKeeps ==
    ASSUME IInv, NEW r \in Request, Refresh(r)
    PROVE  IInv'
<1> USE DEF IInv
<1>1. TypeOK'
  BY ConnectionPoolAssumption
  DEF TypeOK, AskedOK, Refresh, Execute, Return, Keep, Reply, At, Awaiting
<1>2. PoolOK'
  <2>1. CASE r \in Event
    <3>1. InUse' = InUse \ {r} /\ IsFiniteSet(InUse') /\ Cardinality(InUse') <= Cardinality(InUse)
      BY <2>1, ReturnInUse DEF PoolOK, Refresh, Return
    <3>2. Cardinality(InUse) \in Nat /\ Cardinality(InUse') \in Nat
      BY <3>1, FS_CardinalityType DEF PoolOK
    <3>3. \A q \in InUse' : ~At(q, "done")'
      BY <3>1
      DEF PoolOK, PoolAccounted, InUse, TypeOK, Refresh, Execute, Return, Keep,
          Reply, At, Awaiting
    <3> QED
      BY <3>1, <3>2, <3>3, ConnectionPoolAssumption DEF PoolOK, PoolAccounted
  <2>2. CASE r \notin Event
    <3>1. InUse' = InUse
      BY <2>2, KeepInUse DEF Refresh, Keep
    <3>2. \A q \in InUse' : ~At(q, "done")'
      BY <2>2, <3>1
      DEF PoolOK, PoolAccounted, InUse, TypeOK, Refresh, Execute, Return, Keep,
          Reply, At, Awaiting
    <3> QED
      BY <3>1, <3>2 DEF PoolOK, PoolAccounted
  <2> QED
    BY <2>1, <2>2
<1>3. HeldOK'
  BY ConnectionPoolAssumption
  DEF TypeOK, HeldOK, HeldOverStartOnly, EventsOK, InUse, Request, Refresh,
      Execute, Return, Keep, Reply, At, Awaiting
<1>4. EventsOK'
  BY ConnectionPoolAssumption
  DEF TypeOK, EventsOK, Request, Refresh, Execute, Return, Keep, Reply, At,
      Awaiting
<1>5. StoredAsTold'
  BY ConnectionPoolAssumption
  DEF TypeOK, EventsOK, StoredAsTold, Request, Refresh, Execute, Return, Keep,
      Reply, At, Awaiting
<1>6. RowsOK'
  BY ConnectionPoolAssumption
  DEF TypeOK, RowsOK, RunningExplained, Request, Refresh, Execute, Return,
      Keep, Reply, At, Awaiting
<1>7. AskedOK'
  BY ConnectionPoolAssumption
  DEF TypeOK, AskedOK, Request, Refresh, Execute, Return, Keep, Reply, At,
      Awaiting
<1> QED
  BY <1>1, <1>2, <1>3, <1>4, <1>5, <1>6, <1>7

(* ProviderAnswers keeps the invariant.                                 *)
LEMMA ProviderAnswersKeeps ==
    ASSUME IInv, NEW r \in Request, ProviderAnswers(r)
    PROVE  IInv'
<1> USE DEF IInv
<1>1. TypeOK'
  BY ConnectionPoolAssumption
  DEF TypeOK, AskedOK, ProviderAnswers, Answer, At, Awaiting
<1>2. PoolOK'
  <2>1. InUse' = InUse
    BY KeepInUse DEF ProviderAnswers, Answer
  <2>2. \A q \in InUse' : ~At(q, "done")'
    BY <2>1
    DEF PoolOK, PoolAccounted, InUse, TypeOK, ProviderAnswers, Answer, At,
        Awaiting
  <2> QED
    BY <2>1, <2>2 DEF PoolOK, PoolAccounted
<1>3. HeldOK'
  BY ConnectionPoolAssumption
  DEF TypeOK, HeldOK, HeldOverStartOnly, EventsOK, InUse, Request,
      ProviderAnswers, Answer, At, Awaiting
<1>4. EventsOK'
  BY ConnectionPoolAssumption
  DEF TypeOK, EventsOK, Request, ProviderAnswers, Answer, At, Awaiting
<1>5. StoredAsTold'
  BY ConnectionPoolAssumption
  DEF TypeOK, EventsOK, StoredAsTold, Request, ProviderAnswers, Answer, At,
      Awaiting
<1>6. RowsOK'
  BY ConnectionPoolAssumption
  DEF TypeOK, RowsOK, RunningExplained, Request, ProviderAnswers, Answer, At,
      Awaiting
<1>7. AskedOK'
  BY ConnectionPoolAssumption
  DEF TypeOK, AskedOK, Request, ProviderAnswers, Answer, At, Awaiting
<1> QED
  BY <1>1, <1>2, <1>3, <1>4, <1>5, <1>6, <1>7

(* Query keeps the invariant.                                           *)
LEMMA QueryKeeps ==
    ASSUME IInv, NEW r \in Request, Query(r)
    PROVE  IInv'
<1> USE DEF IInv
<1>1. TypeOK'
  BY ConnectionPoolAssumption
  DEF TypeOK, AskedOK, Query, Execute, Keep, At, Awaiting
<1>2. PoolOK'
  <2>1. InUse' = InUse
    BY KeepInUse DEF Query, Execute, Keep
  <2>2. \A q \in InUse' : ~At(q, "done")'
    BY <2>1
    DEF PoolOK, PoolAccounted, InUse, TypeOK, Query, Execute, Keep, At,
        Awaiting
  <2> QED
    BY <2>1, <2>2 DEF PoolOK, PoolAccounted
<1>3. HeldOK'
  BY ConnectionPoolAssumption
  DEF TypeOK, HeldOK, HeldOverStartOnly, EventsOK, InUse, Request, Query,
      Execute, Keep, At, Awaiting
<1>4. EventsOK'
  BY ConnectionPoolAssumption
  DEF TypeOK, EventsOK, Request, Query, Execute, Keep, At, Awaiting
<1>5. StoredAsTold'
  BY ConnectionPoolAssumption
  DEF TypeOK, EventsOK, StoredAsTold, Request, Query, Execute, Keep, At,
      Awaiting
<1>6. RowsOK'
  BY ConnectionPoolAssumption
  DEF TypeOK, RowsOK, RunningExplained, Request, Query, Execute, Keep, At,
      Awaiting
<1>7. AskedOK'
  BY ConnectionPoolAssumption
  DEF TypeOK, AskedOK, Request, Query, Execute, Keep, At, Awaiting
<1> QED
  BY <1>1, <1>2, <1>3, <1>4, <1>5, <1>6, <1>7

(* Audit keeps the invariant.                                           *)
LEMMA AuditKeeps ==
    ASSUME IInv, NEW r \in Request, Audit(r)
    PROVE  IInv'
<1> USE DEF IInv
<1>1. TypeOK'
  BY ConnectionPoolAssumption
  DEF TypeOK, AskedOK, Audit, Execute, Return, At, Awaiting
<1>2. PoolOK'
  <2>1. InUse' = InUse \ {r} /\ IsFiniteSet(InUse') /\ Cardinality(InUse') <= Cardinality(InUse)
    BY ReturnInUse DEF PoolOK, Audit, Return
  <2>2. Cardinality(InUse) \in Nat /\ Cardinality(InUse') \in Nat
    BY <2>1, FS_CardinalityType DEF PoolOK
  <2>3. \A q \in InUse' : ~At(q, "done")'
    BY <2>1
    DEF PoolOK, PoolAccounted, InUse, TypeOK, Audit, Execute, Return, At,
        Awaiting
  <2> QED
    BY <2>1, <2>2, <2>3, ConnectionPoolAssumption DEF PoolOK, PoolAccounted
<1>3. HeldOK'
  BY ConnectionPoolAssumption
  DEF TypeOK, HeldOK, HeldOverStartOnly, EventsOK, InUse, Request, Audit,
      Execute, Return, At, Awaiting
<1>4. EventsOK'
  BY ConnectionPoolAssumption
  DEF TypeOK, EventsOK, Request, Audit, Execute, Return, At, Awaiting
<1>5. StoredAsTold'
  BY ConnectionPoolAssumption
  DEF TypeOK, EventsOK, StoredAsTold, Request, Audit, Execute, Return, At,
      Awaiting
<1>6. RowsOK'
  BY ConnectionPoolAssumption
  DEF TypeOK, RowsOK, RunningExplained, Request, Audit, Execute, Return, At,
      Awaiting
<1>7. AskedOK'
  BY ConnectionPoolAssumption
  DEF TypeOK, AskedOK, Request, Audit, Execute, Return, At, Awaiting
<1> QED
  BY <1>1, <1>2, <1>3, <1>4, <1>5, <1>6, <1>7

(* Refuse keeps the invariant.                                          *)
LEMMA RefuseKeeps ==
    ASSUME IInv, NEW r \in Request, Refuse(r)
    PROVE  IInv'
<1> USE DEF IInv
<1>1. TypeOK'
  BY ConnectionPoolAssumption
  DEF TypeOK, AskedOK, Refuse, Execute, Return, At, Awaiting
<1>2. PoolOK'
  <2>1. InUse' = InUse \ {r} /\ IsFiniteSet(InUse') /\ Cardinality(InUse') <= Cardinality(InUse)
    BY ReturnInUse DEF PoolOK, Refuse, Return
  <2>2. Cardinality(InUse) \in Nat /\ Cardinality(InUse') \in Nat
    BY <2>1, FS_CardinalityType DEF PoolOK
  <2>3. \A q \in InUse' : ~At(q, "done")'
    BY <2>1
    DEF PoolOK, PoolAccounted, InUse, TypeOK, Refuse, Execute, Return, At,
        Awaiting
  <2> QED
    BY <2>1, <2>2, <2>3, ConnectionPoolAssumption DEF PoolOK, PoolAccounted
<1>3. HeldOK'
  BY ConnectionPoolAssumption
  DEF TypeOK, HeldOK, HeldOverStartOnly, EventsOK, InUse, Request, Refuse,
      Execute, Return, At, Awaiting
<1>4. EventsOK'
  BY ConnectionPoolAssumption
  DEF TypeOK, EventsOK, Request, Refuse, Execute, Return, At, Awaiting
<1>5. StoredAsTold'
  BY ConnectionPoolAssumption
  DEF TypeOK, EventsOK, StoredAsTold, Request, Refuse, Execute, Return, At,
      Awaiting
<1>6. RowsOK'
  BY ConnectionPoolAssumption
  DEF TypeOK, RowsOK, RunningExplained, Request, Refuse, Execute, Return, At,
      Awaiting
<1>7. AskedOK'
  BY ConnectionPoolAssumption
  DEF TypeOK, AskedOK, Request, Refuse, Execute, Return, At, Awaiting
<1> QED
  BY <1>1, <1>2, <1>3, <1>4, <1>5, <1>6, <1>7

(* Complete keeps the invariant.                                        *)
LEMMA CompleteKeeps ==
    ASSUME IInv, NEW r \in Request, Complete(r)
    PROVE  IInv'
<1> USE DEF IInv
<1>1. TypeOK'
  BY ConnectionPoolAssumption
  DEF TypeOK, AskedOK, Complete, Execute, Return, At, Awaiting
<1>2. PoolOK'
  <2>1. InUse' = InUse \ {r} /\ IsFiniteSet(InUse') /\ Cardinality(InUse') <= Cardinality(InUse)
    BY ReturnInUse DEF PoolOK, Complete, Return
  <2>2. Cardinality(InUse) \in Nat /\ Cardinality(InUse') \in Nat
    BY <2>1, FS_CardinalityType DEF PoolOK
  <2>3. \A q \in InUse' : ~At(q, "done")'
    BY <2>1
    DEF PoolOK, PoolAccounted, InUse, TypeOK, Complete, Execute, Return, At,
        Awaiting
  <2> QED
    BY <2>1, <2>2, <2>3, ConnectionPoolAssumption DEF PoolOK, PoolAccounted
<1>3. HeldOK'
  BY ConnectionPoolAssumption
  DEF TypeOK, HeldOK, HeldOverStartOnly, EventsOK, InUse, Request, Complete,
      Execute, Return, At, Awaiting
<1>4. EventsOK'
  BY ConnectionPoolAssumption
  DEF TypeOK, EventsOK, Request, Complete, Execute, Return, At, Awaiting
<1>5. StoredAsTold'
  BY ConnectionPoolAssumption
  DEF TypeOK, EventsOK, StoredAsTold, Request, Complete, Execute, Return, At,
      Awaiting
<1>6. RowsOK'
  BY ConnectionPoolAssumption
  DEF TypeOK, RowsOK, RunningExplained, Request, Complete, Execute, Return, At,
      Awaiting
<1>7. AskedOK'
  BY ConnectionPoolAssumption
  DEF TypeOK, AskedOK, Request, Complete, Execute, Return, At, Awaiting
<1> QED
  BY <1>1, <1>2, <1>3, <1>4, <1>5, <1>6, <1>7

(* Reread keeps the invariant.                                          *)
LEMMA RereadKeeps ==
    ASSUME IInv, NEW r \in Request, Reread(r)
    PROVE  IInv'
<1> USE DEF IInv
<1>1. TypeOK'
  BY ConnectionPoolAssumption
  DEF TypeOK, AskedOK, Reread, Execute, Return, Reply, At, Awaiting
<1>2. PoolOK'
  <2>1. InUse' = InUse \ {r} /\ IsFiniteSet(InUse') /\ Cardinality(InUse') <= Cardinality(InUse)
    BY ReturnInUse DEF PoolOK, Reread, Return
  <2>2. Cardinality(InUse) \in Nat /\ Cardinality(InUse') \in Nat
    BY <2>1, FS_CardinalityType DEF PoolOK
  <2>3. \A q \in InUse' : ~At(q, "done")'
    BY <2>1
    DEF PoolOK, PoolAccounted, InUse, TypeOK, Reread, Execute, Return, Reply,
        At, Awaiting
  <2> QED
    BY <2>1, <2>2, <2>3, ConnectionPoolAssumption DEF PoolOK, PoolAccounted
<1>3. HeldOK'
  BY ConnectionPoolAssumption
  DEF TypeOK, HeldOK, HeldOverStartOnly, EventsOK, InUse, Request, Reread,
      Execute, Return, Reply, At, Awaiting
<1>4. EventsOK'
  BY ConnectionPoolAssumption
  DEF TypeOK, EventsOK, Request, Reread, Execute, Return, Reply, At, Awaiting
<1>5. StoredAsTold'
  BY ConnectionPoolAssumption
  DEF TypeOK, EventsOK, StoredAsTold, Request, Reread, Execute, Return, Reply,
      At, Awaiting
<1>6. RowsOK'
  BY ConnectionPoolAssumption
  DEF TypeOK, RowsOK, RunningExplained, Request, Reread, Execute, Return,
      Reply, At, Awaiting
<1>7. AskedOK'
  BY ConnectionPoolAssumption
  DEF TypeOK, AskedOK, Request, Reread, Execute, Return, Reply, At, Awaiting
<1> QED
  BY <1>1, <1>2, <1>3, <1>4, <1>5, <1>6, <1>7

(* Fail keeps the invariant.                                            *)
LEMMA FailKeeps ==
    ASSUME IInv, NEW r \in Request, Fail(r)
    PROVE  IInv'
<1> USE DEF IInv
<1>1. TypeOK'
  BY ConnectionPoolAssumption
  DEF TypeOK, AskedOK, Fail, Execute, Return, Reply, At, Awaiting
<1>2. PoolOK'
  <2>1. InUse' = InUse \ {r} /\ IsFiniteSet(InUse') /\ Cardinality(InUse') <= Cardinality(InUse)
    BY ReturnInUse DEF PoolOK, Fail, Return
  <2>2. Cardinality(InUse) \in Nat /\ Cardinality(InUse') \in Nat
    BY <2>1, FS_CardinalityType DEF PoolOK
  <2>3. \A q \in InUse' : ~At(q, "done")'
    BY <2>1
    DEF PoolOK, PoolAccounted, InUse, TypeOK, Fail, Execute, Return, Reply, At,
        Awaiting
  <2> QED
    BY <2>1, <2>2, <2>3, ConnectionPoolAssumption DEF PoolOK, PoolAccounted
<1>3. HeldOK'
  BY ConnectionPoolAssumption
  DEF TypeOK, HeldOK, HeldOverStartOnly, EventsOK, InUse, Request, Fail,
      Execute, Return, Reply, At, Awaiting
<1>4. EventsOK'
  BY ConnectionPoolAssumption
  DEF TypeOK, EventsOK, Request, Fail, Execute, Return, Reply, At, Awaiting
<1>5. StoredAsTold'
  BY ConnectionPoolAssumption
  DEF TypeOK, EventsOK, StoredAsTold, Request, Fail, Execute, Return, Reply,
      At, Awaiting
<1>6. RowsOK'
  BY ConnectionPoolAssumption
  DEF TypeOK, RowsOK, RunningExplained, Request, Fail, Execute, Return, Reply,
      At, Awaiting
<1>7. AskedOK'
  BY ConnectionPoolAssumption
  DEF TypeOK, AskedOK, Request, Fail, Execute, Return, Reply, At, Awaiting
<1> QED
  BY <1>1, <1>2, <1>3, <1>4, <1>5, <1>6, <1>7

(* PoolTimeout keeps the invariant.                                     *)
LEMMA PoolTimeoutKeeps ==
    ASSUME IInv, NEW r \in Request, PoolTimeout(r)
    PROVE  IInv'
<1> USE DEF IInv
<1>1. TypeOK'
  BY ConnectionPoolAssumption
  DEF TypeOK, AskedOK, PoolTimeout, NeedsConnection, TimedOut, Reply, At,
      Awaiting
<1>2. PoolOK'
  <2>1. InUse' = InUse
    BY KeepInUse DEF PoolTimeout, NeedsConnection, TimedOut, Reply
  <2>2. \A q \in InUse' : ~At(q, "done")'
    BY <2>1
    DEF PoolOK, PoolAccounted, InUse, TypeOK, PoolTimeout, NeedsConnection,
        TimedOut, Reply, At, Awaiting
  <2> QED
    BY <2>1, <2>2 DEF PoolOK, PoolAccounted
<1>3. HeldOK'
  BY ConnectionPoolAssumption
  DEF TypeOK, HeldOK, HeldOverStartOnly, EventsOK, InUse, Request, PoolTimeout,
      NeedsConnection, TimedOut, Reply, At, Awaiting
<1>4. EventsOK'
  BY ConnectionPoolAssumption
  DEF TypeOK, EventsOK, Request, PoolTimeout, NeedsConnection, TimedOut, Reply,
      At, Awaiting
<1>5. StoredAsTold'
  BY ConnectionPoolAssumption
  DEF TypeOK, EventsOK, StoredAsTold, Request, PoolTimeout, NeedsConnection,
      TimedOut, Reply, At, Awaiting
<1>6. RowsOK'
  BY ConnectionPoolAssumption
  DEF TypeOK, RowsOK, RunningExplained, Request, PoolTimeout, NeedsConnection,
      TimedOut, Reply, At, Awaiting
<1>7. AskedOK'
  BY ConnectionPoolAssumption
  DEF TypeOK, AskedOK, Request, PoolTimeout, NeedsConnection, TimedOut, Reply,
      At, Awaiting
<1> QED
  BY <1>1, <1>2, <1>3, <1>4, <1>5, <1>6, <1>7

-----------------------------------------------------------------------------
(* Every step keeps the invariant.                                         *)
LEMMA Inductive == IInv /\ [Next]_vars => IInv'
<1> SUFFICES ASSUME IInv, [Next]_vars PROVE IInv'
  OBVIOUS
<1>1. ASSUME NEW r \in Request, Step(r) PROVE IInv'
  BY <1>1, CheckOutKeeps, InsertKeeps, RefreshKeeps, ProviderAnswersKeeps, QueryKeeps, AuditKeeps,
     RefuseKeeps, CompleteKeeps, RereadKeeps, FailKeeps
  DEF Step
<1>2. ASSUME NEW r \in Request, PoolTimeout(r) PROVE IInv'
  BY <1>2, PoolTimeoutKeeps
<1>3. CASE UNCHANGED vars
  BY <1>3
  DEF vars, IInv, TypeOK, AskedOK, PoolOK, PoolAccounted, HeldOK, HeldOverStartOnly,
      EventsOK, StoredAsTold, RowsOK, RunningExplained, InUse, At
<1> QED
  BY <1>1, <1>2, <1>3 DEF Next

(* In every reachable state of the pool and its users.                     *)
THEOREM Invariance == Spec => []IInv
  BY Initially, Inductive, PTL DEF Spec

(* Handlers, rows and replies have their types; a session never holds two  *)
(* connections.                                                            *)
THEOREM TypeCorrect == Spec => []TypeOK
<1>1. IInv => TypeOK
  BY DEF IInv
<1> QED
  BY <1>1, Invariance, PTL

(* The pool is never overdrawn, and a handler that is done has returned    *)
(* its connection.                                                         *)
THEOREM PoolIsAccounted == Spec => []PoolAccounted
<1>1. IInv => PoolAccounted
  BY DEF IInv, PoolOK
<1> QED
  BY <1>1, Invariance, PTL

(* Nor is a connection kept over an await of the provider, except that in  *)
(* start().                                                                *)
THEOREM PoolIsSpared == Spec => []PoolSpared
<1>1. IInv => PoolSpared
  BY DEF IInv, PoolOK, HeldOK, PoolSpared
<1> QED
  BY <1>1, Invariance, PTL

(* A client's status code tells whether its event is stored, but for the   *)
(* refresh of a single event that found no connection.                     *)
THEOREM EventsStoredAsTold == Spec => []StoredAsTold
<1>1. IInv => StoredAsTold
  BY DEF IInv
<1> QED
  BY <1>1, Invariance, PTL

(* An investigation whose only wait in vain was that of a tool's query     *)
(* does not stay running.                                                  *)
THEOREM RunningIsExplained == Spec => []RunningExplained
<1>1. IInv => RunningExplained
  BY DEF IInv, RowsOK
<1> QED
  BY <1>1, Invariance, PTL
=================================================================================

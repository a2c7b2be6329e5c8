---------------------------- MODULE DeliveryProofs ----------------------------
(***************************************************************************)
(* Theorems about module Delivery, for all values of its constants.        *)
(***************************************************************************)
EXTENDS Delivery, SequenceTheorems, FiniteSetTheorems, TLAPS

-----------------------------------------------------------------------------
(* Lemmas on the operations the collector performs on pending_events.      *)

(* Appending adds one element to what a sequence holds.                    *)
LEMMA AppendRange ==
    ASSUME NEW S, NEW seq \in Seq(S), NEW e \in S
    PROVE  /\ Append(seq, e) \in Seq(S)
           /\ Range(Append(seq, e)) = Range(seq) \cup {e}
<1>1. /\ Append(seq, e) \in Seq(S)
      /\ Len(Append(seq, e)) = Len(seq) + 1
      /\ \A i \in 1..Len(seq) : Append(seq, e)[i] = seq[i]
      /\ Append(seq, e)[Len(seq) + 1] = e
    BY AppendProperties
<1>2. /\ Range(seq) = {seq[i] : i \in 1..Len(seq)}
      /\ Range(Append(seq, e)) = {Append(seq, e)[i] : i \in 1..(Len(seq) + 1)}
    BY <1>1, RangeEquality
<1>3. Len(seq) \in Nat
    BY LenProperties
<1> QED
    BY <1>1, <1>2, <1>3

(* Cutting a sequence after its n-th element yields two sequences that     *)
(* together hold what it held.                                             *)
LEMMA TakeAndDrop ==
    ASSUME NEW S, NEW seq \in Seq(S), NEW n \in 0..Len(seq)
    PROVE  /\ SubSeq(seq, 1, n) \in Seq(S)
           /\ Len(SubSeq(seq, 1, n)) = n
           /\ SubSeq(seq, n + 1, Len(seq)) \in Seq(S)
           /\ Len(SubSeq(seq, n + 1, Len(seq))) = Len(seq) - n
           /\ \A i \in 1..(Len(seq) - n) : SubSeq(seq, n + 1, Len(seq))[i] = seq[n + i]
           /\ Range(SubSeq(seq, 1, n)) = {seq[i] : i \in 1..n}
           /\ Range(SubSeq(seq, n + 1, Len(seq))) = {seq[i] : i \in (n + 1)..Len(seq)}
           /\ Range(seq) = Range(SubSeq(seq, 1, n))
                             \cup Range(SubSeq(seq, n + 1, Len(seq)))
<1> DEFINE front == SubSeq(seq, 1, n)
           back == SubSeq(seq, n + 1, Len(seq))
<1>1. Len(seq) \in Nat /\ n \in Nat /\ n <= Len(seq)
    BY LenProperties
<1>2. \A i \in 1..Len(seq) : seq[i] \in S
    BY ElementOfSeq
<1>3. /\ front \in Seq(S) /\ Len(front) = n
      /\ \A i \in 1..n : front[i] = seq[i]
    <2>1. \A i \in 1..n : seq[i] \in S
        BY <1>1, <1>2
    <2>2. /\ front \in Seq(S)
          /\ Len(front) = IF 1 <= n THEN n - 1 + 1 ELSE 0
          /\ \A i \in 1..(n - 1 + 1) : front[i] = seq[1 + i - 1]
        BY <1>1, <2>1, SubSeqProperties
    <2> QED
        BY <1>1, <2>2
<1>4. /\ back \in Seq(S) /\ Len(back) = Len(seq) - n
      /\ \A i \in 1..(Len(seq) - n) : back[i] = seq[n + i]
    <2>1. \A i \in (n + 1)..Len(seq) : seq[i] \in S
        BY <1>1, <1>2
    <2>2. /\ back \in Seq(S)
          /\ Len(back) = IF n + 1 <= Len(seq) THEN Len(seq) - (n + 1) + 1 ELSE 0
          /\ \A i \in 1..(Len(seq) - (n + 1) + 1) : back[i] = seq[(n + 1) + i - 1]
        BY <1>1, <2>1, SubSeqProperties
    <2> QED
        BY <1>1, <2>2
<1>5. /\ Range(front) = {front[i] : i \in 1..n}
      /\ Range(back) = {back[i] : i \in 1..(Len(seq) - n)}
      /\ Range(seq) = {seq[i] : i \in 1..Len(seq)}
    BY <1>3, <1>4, RangeEquality
<1>6. Range(front) = {seq[i] : i \in 1..n}
    BY <1>3, <1>5
<1>7. Range(back) = {seq[i] : i \in (n + 1)..Len(seq)}
    <2>1. ASSUME NEW i \in 1..(Len(seq) - n)
          PROVE  back[i] = seq[n + i] /\ n + i \in (n + 1)..Len(seq)
        BY <1>1, <1>4
    <2>2. ASSUME NEW j \in (n + 1)..Len(seq)
          PROVE  j - n \in 1..(Len(seq) - n) /\ back[j - n] = seq[j]
        <3>1. j - n \in 1..(Len(seq) - n) /\ n + (j - n) = j
            BY <1>1
        <3> QED
            BY <3>1, <1>4
    <2>3. Range(back) \subseteq {seq[i] : i \in (n + 1)..Len(seq)}
        BY <2>1, <1>5
    <2>4. {seq[i] : i \in (n + 1)..Len(seq)} \subseteq Range(back)
        BY <2>2, <1>5
    <2> QED
        BY <2>3, <2>4
<1>8. Range(seq) = Range(front) \cup Range(back)
    BY <1>1, <1>5, <1>6, <1>7
<1> QED
    BY <1>3, <1>4, <1>6, <1>7, <1>8

(* What send_one_batch takes is a front part of pending_events, and what a *)
(* del of as many events leaves is the rest of it.                         *)
LEMMA NextBatchTaken ==
    ASSUME pending \in Seq(Traffic)
    PROVE  /\ NextBatch \in Seq(Traffic)
           /\ Len(NextBatch) \in 0..Len(pending)
           /\ NextBatch = SubSeq(pending, 1, Len(NextBatch))
<1> DEFINE n == IF Len(pending) < SliceSize THEN Len(pending) ELSE SliceSize
<1>1. n \in 0..Len(pending)
    BY CollectorAssumption, LenProperties
<1>2. NextBatch = SubSeq(pending, 1, n)
    BY DEF NextBatch
<1> HIDE DEF n
<1>3. NextBatch \in Seq(Traffic) /\ Len(NextBatch) = n
    BY <1>1, <1>2, TakeAndDrop
<1> QED
    BY <1>1, <1>2, <1>3

(* The empty sequence holds nothing.                                       *)
LEMMA NothingInNothing == Range(<<>>) = {}
    BY DEF Range

-----------------------------------------------------------------------------
(* Type correctness.                                                       *)

(* The changes the actions make to a request leave it a request.           *)
LEMMA RequestsTyped ==
    /\ Idle \in Requests
    /\ \A r \in Requests, st \in {"idle", "received", "created", "rejected", "failed", "reset"} :
          [r EXCEPT !.st = st] \in Requests
    /\ \A r \in Requests : [r EXCEPT !.open = FALSE] \in Requests
<1>1. <<>> \in Seq(Traffic)
    BY EmptySeq
<1> QED
    BY <1>1 DEF Idle, Requests

(* A reply leaves the requests well formed.                                *)
LEMMA SettleTyped ==
    ASSUME request \in [Slot -> Requests], NEW s \in Slot,
           NEW st \in {"created", "rejected", "failed"}, Settle(s, st)
    PROVE  request' \in [Slot -> Requests]
    BY RequestsTyped DEF Settle

(* Inserted rows are counted like those before them.                       *)
LEMMA InsertedTyped ==
    ASSUME rows \in [Traffic -> Nat], NEW events, rows' \in {rows, Inserted(events)}
    PROVE  /\ rows' \in [Traffic -> Nat]
           /\ \A e \in Traffic : rows'[e] >= rows[e]
    BY DEF Inserted

(* So does a connection that is closed.                                    *)
LEMMA HangUpTyped ==
    ASSUME request \in [Slot -> Requests], NEW s \in Slot, HangUp(s)
    PROVE  request' \in [Slot -> Requests]
    BY RequestsTyped DEF HangUp

(* So does a POST that leaves the collector in doubt, which is counted.    *)
LEMMA UnconfirmedTyped ==
    ASSUME IngestionTypeOK, unconfirmed \in [Traffic -> Nat], NEW s \in Slot, LeaveUnconfirmed(s)
    PROVE  request' \in [Slot -> Requests] /\ unconfirmed' \in [Traffic -> Nat]
<1>1. request' \in [Slot -> Requests]
    BY HangUpTyped DEF IngestionTypeOK, LeaveUnconfirmed
<1> QED
    BY <1>1 DEF LeaveUnconfirmed

(* Both sides start well formed.                                           *)
LEMMA InitTyped ==
    ASSUME Init
    PROVE  TypeOK
<1>1. CollectorTypeOK
    BY EmptySeq DEF Init, CollectorInit, CollectorTypeOK
<1>2. IngestionTypeOK
    BY RequestsTyped DEF Init, IngestionInit, IngestionTypeOK
<1> QED
    BY <1>1, <1>2, DeliveryAssumption DEF Init, TypeOK

(* The number of faults stays within its bound.                            *)
LEMMA FaultsTyped ==
    ASSUME faults \in 0..MaxFaults, Fault \/ NoFault
    PROVE  faults' \in 0..MaxFaults
    BY DeliveryAssumption DEF Fault, NoFault

(* Every step of collector, connection and API leaves the state well       *)
(* formed.                                                                 *)
LEMMA TypeStep ==
    ASSUME TypeOK, [Next]_vars
    PROVE  TypeOK'
<1> USE DEF TypeOK, CollectorTypeOK
<1>1. CASE UNCHANGED vars
    BY <1>1 DEF vars, collectorVars, ingestionVars, IngestionTypeOK
<1>2. CASE CollectorStep
    <2> USE DEF CollectorAlone, ingestionVars, IngestionTypeOK
    <2>1. ASSUME NEW e \in Traffic, CollectorAlone(CaptureTraffic(e))
          PROVE  TypeOK'
        BY <2>1 DEF CaptureTraffic, Submitted, Events
    <2>2. ASSUME NEW e \in Events, CollectorAlone(HandleEvent(e))
          PROVE  TypeOK'
        <3>1. CASE Ignored(e)
            BY <2>2, <3>1 DEF HandleEvent
        <3>2. CASE ~Ignored(e)
            <4>1. e \in Traffic
                BY <3>2 DEF Ignored, Events
            <4>2. Append(pending, e) \in Seq(Traffic)
                BY <4>1, AppendRange
            <4> QED
                BY <2>2, <3>2, <4>2 DEF HandleEvent
        <3> QED
            BY <3>1, <3>2
    <2>3. CASE CollectorAlone(Tick)
        BY <2>3 DEF Tick
    <2>4. CASE CollectorAlone(BeginFlush)
        BY <2>4 DEF BeginFlush
    <2>5. CASE CollectorAlone(EndFlush)
        BY <2>5 DEF EndFlush, AfterFlush
    <2> QED
        BY <1>2, <2>1, <2>2, <2>3, <2>4, <2>5 DEF CollectorStep
<1>3. ASSUME NEW s \in Slot, Handle(s)
      PROVE  TypeOK'
    <2>1. CollectorTypeOK' /\ unconfirmed' \in [Traffic -> Nat]
        BY <1>3 DEF Handle, collectorVars
    <2>2. faults' \in 0..MaxFaults
        BY <1>3, FaultsTyped DEF Handle
    <2>3. request' \in [Slot -> Requests]
        BY <1>3, SettleTyped
        DEF Handle, RefuseBatch, CommitBatch, FailBatch, LoseCommit, IngestionTypeOK
    <2>4. rows' \in [Traffic -> Nat] /\ apiUp' \in BOOLEAN
        <3>1. rows' \in {rows, Inserted(request[s].events)} /\ apiUp' = apiUp
            BY <1>3 DEF Handle, RefuseBatch, CommitBatch, FailBatch, LoseCommit
        <3> QED
            BY <3>1, InsertedTyped DEF IngestionTypeOK
    <2> QED
        BY <2>1, <2>2, <2>3, <2>4 DEF IngestionTypeOK
<1>4. ASSUME NEW s \in Slot, Send(s)
      PROVE  TypeOK'
    <2>1. NextBatch \in Seq(Traffic)
        BY NextBatchTaken
    <2>2. CollectorTypeOK'
        BY <1>4, <2>1 DEF Send, SendBatch, Connect, Submitted, Events
    <2>3. IngestionTypeOK'
        BY <1>4, <2>1 DEF Send, Post, IngestionTypeOK, Requests
    <2> QED
        BY <1>4, <2>2, <2>3 DEF Send
<1>5. ASSUME NEW s \in Slot, Reply(s)
      PROVE  TypeOK'
    <2>1. CollectorTypeOK'
        <3>1. CASE BatchSent
            <4>1. Len(batch) + 1 \in Int /\ Len(pending) \in Int
                BY LenProperties
            <4>2. \A i \in (Len(batch) + 1)..Len(pending) : pending[i] \in Traffic
                BY LenProperties, ElementOfSeq
            <4>3. SubSeq(pending, Len(batch) + 1, Len(pending)) \in Seq(Traffic)
                BY <4>1, <4>2, SubSeqProperties
            <4>4. Range(batch) \subseteq Traffic
                BY RangeOfSeq
            <4>5. <<>> \in Seq(Traffic)
                BY EmptySeq
            <4> QED
                BY <3>1, <4>3, <4>4, <4>5 DEF BatchSent
        <3>2. CASE BatchNotSent
            BY <3>2, EmptySeq DEF BatchNotSent, AfterFlush
        <3>3. CASE Die
            BY <3>3, EmptySeq DEF Die
        <3> QED
            BY <1>5, <3>1, <3>2, <3>3 DEF Reply
    <2>2. request' \in [Slot -> Requests] /\ unconfirmed' \in [Traffic -> Nat]
        BY <1>5, HangUpTyped, UnconfirmedTyped DEF Reply, IngestionTypeOK
    <2> QED
        BY <1>5, <2>1, <2>2 DEF Reply, IngestionTypeOK
<1>6. ASSUME NEW s \in Slot, TimeOut(s)
      PROVE  TypeOK'
    <2>1. CollectorTypeOK'
        BY <1>6, EmptySeq DEF TimeOut, BatchNotSent, AfterFlush
    <2>2. IngestionTypeOK' /\ unconfirmed' \in [Traffic -> Nat]
        BY <1>6, UnconfirmedTyped DEF TimeOut, IngestionTypeOK
    <2> QED
        BY <1>6, <2>1, <2>2, FaultsTyped DEF TimeOut
<1>7. ASSUME NEW s \in Slot, BodyLost(s)
      PROVE  TypeOK'
    <2>1. CollectorTypeOK'
        BY <1>7, EmptySeq DEF BodyLost, Die
    <2>2. IngestionTypeOK'
        BY <1>7, HangUpTyped DEF BodyLost, IngestionTypeOK
    <2> QED
        BY <1>7, <2>1, <2>2, FaultsTyped DEF BodyLost
<1>8. CASE Refused
    BY <1>8, FaultsTyped
    DEF Refused, CannotConnect, Connect, Submitted, AfterFlush, Events,
        ingestionVars, IngestionTypeOK
<1>9. CASE CtrlC
    <2>1. CollectorTypeOK'
        BY <1>9, EmptySeq DEF CtrlC, Interrupt
    <2>2. IngestionTypeOK' /\ unconfirmed' \in [Traffic -> Nat]
        BY <1>9, UnconfirmedTyped DEF CtrlC, IngestionTypeOK
    <2> QED
        BY <1>9, <2>1, <2>2 DEF CtrlC
<1>10. CASE Restart
    BY <1>10 DEF Restart, ApiStart, collectorVars, IngestionTypeOK
<1>11. CASE Crash
    <2>1. request' \in [Slot -> Requests]
        BY <1>11, RequestsTyped DEF Crash, ApiCrash, IngestionTypeOK
    <2> QED
        BY <1>11, <2>1, FaultsTyped DEF Crash, ApiCrash, collectorVars, IngestionTypeOK
<1>12. CASE PoolConnects
    BY <1>12
    DEF PoolConnects, CaptureOwn, Submitted, Events, ingestionVars, IngestionTypeOK
<1> QED
    BY <1>1, <1>2, <1>3, <1>4, <1>5, <1>6, <1>7, <1>8, <1>9, <1>10, <1>11, <1>12
    DEF Next

(* Every reachable state of the delivery path is well typed, for any       *)
(* traffic, buffer sizes, number of request slots and bound on the faults; *)
(* in particular pending_events never holds one of TracePilot's own        *)
(* connections, which is what the filters of handle_event are for.         *)
THEOREM TypeCorrect == Spec => []TypeOK
<1>1. Init => TypeOK
    BY InitTyped
<1>2. TypeOK /\ [Next]_vars => TypeOK'
    BY TypeStep
<1> QED
    BY <1>1, <1>2, PTL DEF Spec

-----------------------------------------------------------------------------
(* What a del leaves in PostgreSQL.                                        *)
(*                                                                         *)
(* AckedIsStored is not inductive: that the events of a batch answered     *)
(* with 201 have rows depends on which request the answer belongs to, on   *)
(* what that request holds and on whether pending_events still begins with *)
(* it.  InFlight says so, and the conjunction is inductive.                *)
IInv == TypeOK /\ InFlight /\ AckedIsStored

(* No step takes a row back: there is no DELETE on connection_events.      *)
LEMMA RowsGrow ==
    ASSUME TypeOK, [Next]_vars
    PROVE  \A e \in Traffic : rows'[e] >= rows[e]
<1>1. CASE UNCHANGED rows
    BY <1>1 DEF TypeOK, IngestionTypeOK
<1>2. ASSUME NEW s \in Slot, rows' = Inserted(request[s].events)
      PROVE  \A e \in Traffic : rows'[e] >= rows[e]
    BY <1>2, InsertedTyped DEF TypeOK, IngestionTypeOK
<1>3. UNCHANGED rows \/ \E s \in Slot : rows' = Inserted(request[s].events)
    BY DEF Next, vars, CollectorStep, CollectorAlone, Handle, RefuseBatch, CommitBatch,
           FailBatch, LoseCommit, Send, Post, Reply, TimeOut, BodyLost, Refused, CtrlC,
           Restart, ApiStart, Crash, ApiCrash, PoolConnects, ingestionVars
<1> QED
    BY <1>1, <1>2, <1>3

(* A del moves what it deletes to acked, when the reply is to the batch    *)
(* that pending_events begins with.                                        *)
LEMMA BatchSentMoves ==
    ASSUME TypeOK, Awaited, BatchSent
    PROVE  /\ Range(batch) \subseteq Buffered
           /\ Buffered = Range(batch) \cup Buffered'
<1>1. pending \in Seq(Traffic)
    BY DEF TypeOK, CollectorTypeOK
<1>2. batch = NextBatch
    BY DEF Awaited, BatchSent
<1>3. Len(batch) \in 0..Len(pending) /\ batch = SubSeq(pending, 1, Len(batch))
    BY <1>1, <1>2, NextBatchTaken
<1>4. Range(pending) = Range(SubSeq(pending, 1, Len(batch)))
                         \cup Range(SubSeq(pending, Len(batch) + 1, Len(pending)))
    BY <1>1, <1>3, TakeAndDrop
<1> QED
    BY <1>3, <1>4 DEF BatchSent, Buffered

(* What a callback has kept stays in pending_events until it is acked.     *)
LEMMA KeptGrows ==
    ASSUME TypeOK, Awaited, [Next]_vars
    PROVE  Buffered \cup acked \subseteq (Buffered \cup acked)'
<1>1. CASE UNCHANGED <<pending, acked>>
    BY <1>1 DEF Buffered
<1>2. ASSUME NEW e \in Events, HandleEvent(e)
      PROVE  Buffered \cup acked \subseteq (Buffered \cup acked)'
    <2>1. CASE Ignored(e)
        BY <1>2, <2>1 DEF HandleEvent, Buffered
    <2>2. CASE ~Ignored(e)
        <3>1. e \in Traffic /\ pending \in Seq(Traffic)
            BY <2>2 DEF Ignored, Events, TypeOK, CollectorTypeOK
        <3> QED
            BY <1>2, <2>2, <3>1, AppendRange DEF HandleEvent, Buffered
    <2> QED
        BY <2>1, <2>2
<1>3. CASE BatchSent
    BY <1>3, BatchSentMoves DEF BatchSent
<1>4. UNCHANGED <<pending, acked>> \/ BatchSent \/ \E e \in Events : HandleEvent(e)
    BY DEF Next, vars, collectorVars, CollectorStep, CollectorAlone, CaptureTraffic,
           Tick, BeginFlush, EndFlush, Handle, Send, SendBatch, Reply, Die, TimeOut,
           BatchNotSent, BodyLost, Refused, CannotConnect, CtrlC, Interrupt, Restart,
           Crash, PoolConnects, CaptureOwn
<1> QED
    BY <1>1, <1>2, <1>3, <1>4

(* The slots a step only closes, empties or answers otherwise than by 201. *)
Shrinks(s) ==
    /\ request'[s].open => request[s].open /\ request'[s].events = request[s].events
    /\ request'[s].events \in {request[s].events, <<>>}
    /\ request'[s].st = "created" =>
          request[s].st = "created" /\ request'[s].events = request[s].events

(* Requests that are left alone shrink.                                    *)
LEMMA UnchangedShrinks ==
    ASSUME request' = request
    PROVE  \A s \in Slot : Shrinks(s)
    BY DEF Shrinks

(* A batch that is not answered with 201 leaves less in flight.            *)
LEMMA RejectionShrinks ==
    ASSUME TypeOK, NEW s \in Slot, NEW st \in {"rejected", "failed"}, Settle(s, st)
    PROVE  \A t \in Slot : Shrinks(t)
    BY DEF Settle, Shrinks, Idle, TypeOK, IngestionTypeOK, Requests

(* A crash of the API leaves less in flight.                               *)
LEMMA CrashShrinks ==
    ASSUME TypeOK, ApiCrash
    PROVE  \A s \in Slot : Shrinks(s)
    BY DEF ApiCrash, Shrinks, Idle, TypeOK, IngestionTypeOK, Requests

(* Closing the one open connection leaves none open.                       *)
LEMMA HangUpShrinks ==
    ASSUME TypeOK, Awaited, NEW s \in Slot, request[s].open, HangUp(s)
    PROVE  \A t \in Slot : Shrinks(t) /\ ~request'[t].open
<1>1. \A t \in Slot : Shrinks(t)
    BY DEF HangUp, Shrinks, Idle, TypeOK, IngestionTypeOK, Requests
<1>2. ~request'[s].open
    BY DEF HangUp, Idle, TypeOK, IngestionTypeOK, Requests
<1>3. ASSUME NEW t \in Slot, t # s
      PROVE  ~request'[t].open
    BY <1>3 DEF HangUp, Awaited, TypeOK, IngestionTypeOK
<1> QED
    BY <1>1, <1>2, <1>3

(* A step under which requests only shrink, and which the collector either *)
(* does not notice or after which it awaits nothing, preserves InFlight.   *)
LEMMA ShrinkingKeepsInFlight ==
    ASSUME TypeOK, InFlight, [Next]_vars,
           \A s \in Slot : Shrinks(s),
           \/ UNCHANGED <<pc, batch, pending>>
           \/ pc' # "await" /\ \A s \in Slot : ~request'[s].open
    PROVE  InFlight'
<1>1. Awaited'
    <2>1. CASE UNCHANGED <<pc, batch, pending>>
        BY <2>1 DEF InFlight, Awaited, Shrinks, NextBatch
    <2>2. CASE pc' # "await" /\ \A s \in Slot : ~request'[s].open
        BY <2>2 DEF Awaited
    <2> QED
        BY <2>1, <2>2
<1>2. Kept'
    <2>1. Buffered \cup acked \subseteq (Buffered \cup acked)'
        BY KeptGrows DEF InFlight
    <2> QED
        BY <2>1, NothingInNothing DEF InFlight, Kept, Shrinks
<1>3. CreatedIsStored'
    <2> SUFFICES ASSUME NEW s \in Slot, request'[s].st = "created",
                        NEW e \in Range(request'[s].events)
                 PROVE  rows'[e] >= 1
        BY DEF CreatedIsStored
    <2>1. request[s].st = "created" /\ e \in Range(request[s].events)
        BY DEF Shrinks
    <2>2. rows[e] >= 1
        BY <2>1 DEF InFlight, CreatedIsStored
    <2>3. e \in Traffic
        BY <2>1, RangeOfSeq DEF TypeOK, IngestionTypeOK, Requests
    <2>4. rows[e] \in Nat /\ rows'[e] \in Nat
        BY <2>3, TypeStep DEF TypeOK, IngestionTypeOK
    <2> QED
        BY <2>2, <2>3, <2>4, RowsGrow
<1> QED
    BY <1>1, <1>2, <1>3 DEF InFlight

(* Every step keeps what is in flight in agreement with the collector.     *)
LEMMA InFlightStep ==
    ASSUME IInv, [Next]_vars
    PROVE  InFlight'
<1> USE DEF IInv
<1>1. CASE UNCHANGED vars
    BY <1>1, UnchangedShrinks, ShrinkingKeepsInFlight
    DEF vars, collectorVars, ingestionVars
<1>2. CASE CollectorStep
    <2>1. request' = request
        BY <1>2 DEF CollectorStep, CollectorAlone, ingestionVars
    <2>2. \/ UNCHANGED <<pc, batch, pending>>
          \/ pc # "await" /\ pc' # "await"
        BY <1>2 DEF CollectorStep, CollectorAlone, CaptureTraffic, HandleEvent, Tick,
                    BeginFlush, EndFlush, AfterFlush
    <2>3. pc # "await" => \A s \in Slot : ~request'[s].open
        BY <2>1 DEF InFlight, Awaited
    <2> QED
        BY <2>1, <2>2, <2>3, UnchangedShrinks, ShrinkingKeepsInFlight
<1>3. ASSUME NEW s \in Slot, Handle(s)
      PROVE  InFlight'
    <2>1. UNCHANGED <<pc, batch, pending, acked>>
        BY <1>3 DEF Handle, collectorVars
    <2>2. CASE Settle(s, "rejected") \/ Settle(s, "failed")
        BY <2>1, <2>2, RejectionShrinks, ShrinkingKeepsInFlight
    <2>3. CASE CommitBatch(s)
        <3>1. \A t \in Slot :
                 /\ request'[t].open =>
                       request[t].open /\ request'[t].events = request[t].events
                 /\ request'[t].events \in {request[t].events, <<>>}
                 /\ request'[t].st = "created" =>
                       /\ request'[t].events = request[t].events
                       /\ t = s \/ request[t].st = "created"
            BY <2>3 DEF CommitBatch, Settle, Idle, TypeOK, IngestionTypeOK, Requests
        <3>2. Awaited'
            BY <2>1, <3>1 DEF InFlight, Awaited, NextBatch
        <3>3. Kept'
            BY <2>1, <3>1, NothingInNothing DEF InFlight, Kept, Buffered
        <3>4. CreatedIsStored'
            <4> SUFFICES ASSUME NEW t \in Slot, request'[t].st = "created",
                                NEW e \in Range(request'[t].events)
                         PROVE  rows'[e] >= 1
                BY DEF CreatedIsStored
            <4>1. e \in Range(request[t].events)
                BY <3>1
            <4>2. e \in Traffic
                BY <4>1, RangeOfSeq DEF TypeOK, IngestionTypeOK, Requests
            <4>3. rows[e] \in Nat /\ rows'[e] \in Nat /\ rows'[e] >= rows[e]
                BY <4>2, RowsGrow, TypeStep DEF TypeOK, IngestionTypeOK
            <4>4. CASE t = s
                BY <2>3, <4>1, <4>2, <4>3, <4>4 DEF CommitBatch, Inserted
            <4>5. CASE request[t].st = "created"
                <5>1. rows[e] >= 1
                    BY <4>1, <4>5 DEF InFlight, CreatedIsStored
                <5> QED
                    BY <4>3, <5>1
            <4> QED
                BY <3>1, <4>4, <4>5
        <3> QED
            BY <3>2, <3>3, <3>4 DEF InFlight
    <2> QED
        BY <1>3, <2>2, <2>3 DEF Handle, RefuseBatch, FailBatch, LoseCommit
<1>4. ASSUME NEW s \in Slot, Send(s)
      PROVE  InFlight'
    <2>1. /\ pc = "flush" /\ pc' = "await"
          /\ batch' = NextBatch /\ UNCHANGED <<pending, acked, rows>>
        BY <1>4 DEF Send, SendBatch, Connect, Post
    <2>2. \A t \in Slot : ~request[t].open
        BY <2>1 DEF InFlight, Awaited
    <2>3. /\ \A t \in Slot : t # s => request'[t] = request[t]
          /\ request'[s].st = "received" /\ request'[s].events = NextBatch
        BY <1>4 DEF Send, Post, TypeOK, IngestionTypeOK
    <2>4. Awaited'
        BY <2>1, <2>2, <2>3 DEF Awaited, NextBatch
    <2>5. Kept'
        <3>1. Range(NextBatch) \subseteq Buffered
            <4>1. pending \in Seq(Traffic)
                BY DEF TypeOK, CollectorTypeOK
            <4>2. /\ Len(NextBatch) \in 0..Len(pending)
                  /\ NextBatch = SubSeq(pending, 1, Len(NextBatch))
                BY <4>1, NextBatchTaken
            <4>3. Range(SubSeq(pending, 1, Len(NextBatch))) \subseteq Range(pending)
                BY <4>1, <4>2, TakeAndDrop
            <4> QED
                BY <4>2, <4>3 DEF Buffered
        <3> QED
            BY <2>1, <2>3, <3>1 DEF InFlight, Kept, Buffered
    <2>6. CreatedIsStored'
        BY <2>1, <2>3 DEF InFlight, CreatedIsStored
    <2> QED
        BY <2>4, <2>5, <2>6 DEF InFlight
<1>5. ASSUME NEW s \in Slot, request[s].open, HangUp(s), pc' # "await"
      PROVE  InFlight'
    BY <1>5, HangUpShrinks, ShrinkingKeepsInFlight DEF InFlight
<1>6. ASSUME NEW s \in Slot, Reply(s)
      PROVE  InFlight'
    <2>1. pc' # "await"
        BY <1>6 DEF Reply, BatchSent, BatchNotSent, AfterFlush, Die
    <2> QED
        BY <1>5, <1>6, <2>1 DEF Reply, LeaveUnconfirmed
<1>7. ASSUME NEW s \in Slot, TimeOut(s)
      PROVE  InFlight'
    <2>1. pc' # "await"
        BY <1>7 DEF TimeOut, BatchNotSent, AfterFlush
    <2> QED
        BY <1>5, <1>7, <2>1 DEF TimeOut, LeaveUnconfirmed
<1>8. ASSUME NEW s \in Slot, BodyLost(s)
      PROVE  InFlight'
    BY <1>5, <1>8 DEF BodyLost, Die
<1>9. CASE Refused
    <2>1. request' = request /\ pc # "await" /\ pc' # "await"
        BY <1>9 DEF Refused, CannotConnect, Connect, AfterFlush, ingestionVars
    <2>2. \A s \in Slot : ~request'[s].open
        BY <2>1 DEF InFlight, Awaited
    <2> QED
        BY <2>1, <2>2, UnchangedShrinks, ShrinkingKeepsInFlight
<1>10. CASE CtrlC
    <2>1. pc' # "await"
        BY <1>10 DEF CtrlC, Interrupt
    <2>2. CASE pc = "await"
        BY <1>5, <1>10, <2>1, <2>2 DEF CtrlC, LeaveUnconfirmed
    <2>3. CASE pc # "await"
        <3>1. request' = request
            BY <1>10, <2>3 DEF CtrlC
        <3>2. \A s \in Slot : ~request'[s].open
            BY <2>3, <3>1 DEF InFlight, Awaited
        <3> QED
            BY <2>1, <3>1, <3>2, UnchangedShrinks, ShrinkingKeepsInFlight
    <2> QED
        BY <2>2, <2>3
<1>11. CASE Restart
    BY <1>11, UnchangedShrinks, ShrinkingKeepsInFlight
    DEF Restart, ApiStart, collectorVars
<1>12. CASE Crash
    BY <1>12, CrashShrinks, ShrinkingKeepsInFlight DEF Crash, collectorVars
<1>13. CASE PoolConnects
    BY <1>13, UnchangedShrinks, ShrinkingKeepsInFlight
    DEF PoolConnects, CaptureOwn, ingestionVars
<1> QED
    BY <1>1, <1>2, <1>3, <1>4, <1>6, <1>7, <1>8, <1>9, <1>10, <1>11, <1>12, <1>13
    DEF Next

(* Every step keeps acknowledged events stored.                            *)
LEMMA AckedStep ==
    ASSUME IInv, [Next]_vars
    PROVE  AckedIsStored'
<1> USE DEF IInv
<1>1. CASE UNCHANGED acked
    <2> SUFFICES ASSUME NEW e \in acked
                 PROVE  rows'[e] >= 1
        BY <1>1 DEF AckedIsStored
    <2>1. e \in Traffic /\ rows[e] \in Nat /\ rows'[e] \in Nat
        BY TypeStep DEF TypeOK, CollectorTypeOK, IngestionTypeOK
    <2> QED
        BY <2>1, RowsGrow DEF AckedIsStored
<1>2. ASSUME NEW s \in Slot, Reply(s), request[s].st = "created", BatchSent
      PROVE  AckedIsStored'
    <2>1. batch = request[s].events /\ rows' = rows
        BY <1>2 DEF Reply, InFlight, Awaited
    <2>2. \A e \in Range(batch) : rows[e] >= 1
        BY <1>2, <2>1 DEF InFlight, CreatedIsStored
    <2> QED
        BY <1>2, <2>1, <2>2 DEF BatchSent, AckedIsStored
<1>3. \/ UNCHANGED acked
      \/ \E s \in Slot : Reply(s) /\ request[s].st = "created" /\ BatchSent
    BY DEF Next, vars, collectorVars, CollectorStep, CollectorAlone, CaptureTraffic,
           HandleEvent, Tick, BeginFlush, EndFlush, Handle, Send, SendBatch, Reply, Die,
           TimeOut, BatchNotSent, BodyLost, Refused, CannotConnect, CtrlC, Interrupt,
           Restart, Crash, PoolConnects, CaptureOwn
<1> QED
    BY <1>1, <1>2, <1>3

(* The strengthening is an invariant.                                      *)
THEOREM Invariance == Spec => []IInv
<1>1. ASSUME Init
      PROVE  IInv
    <2>1. TypeOK
        BY <1>1, InitTyped
    <2>2. InFlight
        BY <1>1, NothingInNothing
        DEF Init, CollectorInit, IngestionInit, InFlight, Awaited, Kept,
            CreatedIsStored, Idle
    <2>3. AckedIsStored
        BY <1>1 DEF Init, CollectorInit, AckedIsStored
    <2> QED
        BY <2>1, <2>2, <2>3 DEF IInv
<1>2. IInv /\ [Next]_vars => IInv'
    BY TypeStep, InFlightStep, AckedStep DEF IInv
<1> QED
    BY <1>1, <1>2, PTL DEF Spec

(* An event that send_one_batch deletes from pending_events, of which      *)
(* there is no other copy, has a committed row in connection_events: for   *)
(* any batch and slice sizes, however many requests the collector gave up  *)
(* are still being handled, and across crashes of the API, lost replies,   *)
(* database failures and Ctrl+C.                                           *)
THEOREM AckedStored == Spec => []AckedIsStored
<1>1. IInv => AckedIsStored
    BY DEF IInv
<1> QED
    BY <1>1, Invariance, PTL

(* The requests in flight agree with what the collector awaits.            *)
THEOREM InFlightCorrect == Spec => []InFlight
<1>1. IInv => InFlight
    BY DEF IInv
<1> QED
    BY <1>1, Invariance, PTL

-----------------------------------------------------------------------------
(* The delivery path implements the promise of module AtLeastOnce.         *)

promised == <<Buffered \cup acked, rows, acked>>

(* A callback that keeps an event accepts it, one that does not stutters.  *)
LEMMA KeepingAccepts ==
    ASSUME TypeOK, NEW e \in Events, HandleEvent(e), UNCHANGED rows
    PROVE  [Promise!Next]_promised
<1>1. CASE Ignored(e)
    BY <1>1 DEF HandleEvent, Buffered, promised
<1>2. CASE ~Ignored(e)
    <2>1. e \in Traffic /\ pending \in Seq(Traffic)
        BY <1>2 DEF Ignored, Events, TypeOK, CollectorTypeOK
    <2>2. Buffered' = Buffered \cup {e} /\ acked' = acked
        BY <1>2, <2>1, AppendRange DEF HandleEvent, Buffered
    <2>3. CASE e \in Buffered \cup acked
        BY <2>2, <2>3 DEF promised
    <2>4. CASE e \notin Buffered \cup acked
        BY <2>1, <2>2, <2>4 DEF Promise!Next, Promise!Accept
    <2> QED
        BY <2>3, <2>4
<1> QED
    BY <1>1, <1>2

(* Inserted rows record events that were accepted.                         *)
LEMMA CommitRecords ==
    ASSUME IInv, NEW s \in Slot, rows' = Inserted(request[s].events),
           UNCHANGED <<pending, acked>>
    PROVE  [Promise!Next]_promised
<1> DEFINE B == Range(request[s].events)
<1>1. B \subseteq Buffered \cup acked
    BY DEF IInv, InFlight, Kept
<1>2. B \in SUBSET Traffic
    BY RangeOfSeq DEF IInv, TypeOK, IngestionTypeOK, Requests
<1>3. (Buffered \cup acked)' = Buffered \cup acked
    BY DEF Buffered
<1>4. Promise!Record(B)
    BY <1>1, <1>3 DEF Inserted, Promise!Record
<1> QED
    BY <1>2, <1>4 DEF Promise!Next

(* The del after a 201 releases events that were recorded.                 *)
LEMMA DelReleases ==
    ASSUME IInv, NEW s \in Slot, Reply(s), request[s].st = "created", BatchSent
    PROVE  [Promise!Next]_promised
<1>1. batch = request[s].events
    BY DEF Reply, IInv, InFlight, Awaited
<1>2. \A e \in Range(batch) : rows[e] >= 1
    BY <1>1 DEF IInv, InFlight, CreatedIsStored
<1>3. Range(batch) \in SUBSET Traffic
    BY RangeOfSeq DEF IInv, TypeOK, CollectorTypeOK
<1>4. Range(batch) \subseteq Buffered /\ Buffered = Range(batch) \cup Buffered'
    BY BatchSentMoves DEF IInv, InFlight
<1>5. Promise!Release(Range(batch))
    BY <1>2, <1>4 DEF BatchSent, Reply, Promise!Release
<1> QED
    BY <1>3, <1>5 DEF Promise!Next

(* Every step of the delivery path is one of AtLeastOnce, or a stutter.    *)
LEMMA PromiseStep ==
    ASSUME IInv, [Next]_vars
    PROVE  [Promise!Next]_promised
<1>1. CASE UNCHANGED <<pending, acked, rows>>
    BY <1>1 DEF promised, Buffered
<1>2. ASSUME NEW e \in Events, CollectorAlone(HandleEvent(e))
      PROVE  [Promise!Next]_promised
    BY <1>2, KeepingAccepts DEF IInv, CollectorAlone, ingestionVars
<1>3. ASSUME NEW s \in Slot, Handle(s), rows' = Inserted(request[s].events)
      PROVE  [Promise!Next]_promised
    BY <1>3, CommitRecords DEF Handle, collectorVars
<1>4. ASSUME NEW s \in Slot, Reply(s), request[s].st = "created", BatchSent
      PROVE  [Promise!Next]_promised
    BY <1>4, DelReleases
<1>5. \/ UNCHANGED <<pending, acked, rows>>
      \/ \E e \in Events : CollectorAlone(HandleEvent(e))
      \/ \E s \in Slot : \/ Handle(s) /\ rows' = Inserted(request[s].events)
                         \/ Reply(s) /\ request[s].st = "created" /\ BatchSent
    <2>1. CASE UNCHANGED vars
        BY <2>1 DEF vars, collectorVars, ingestionVars
    <2>2. CASE CollectorStep
        BY <2>2 DEF CollectorStep, CollectorAlone, CaptureTraffic, Tick, BeginFlush,
                    EndFlush, ingestionVars
    <2>3. ASSUME NEW s \in Slot, Handle(s)
          PROVE  \/ UNCHANGED <<pending, acked, rows>>
                 \/ rows' = Inserted(request[s].events)
        BY <2>3 DEF Handle, RefuseBatch, CommitBatch, FailBatch, LoseCommit, collectorVars
    <2>4. ASSUME NEW s \in Slot, Reply(s)
          PROVE  \/ UNCHANGED <<pending, acked, rows>>
                 \/ request[s].st = "created" /\ BatchSent
        BY <2>4 DEF Reply, BatchNotSent, Die
    <2>5. ASSUME NEW s \in Slot, Send(s) \/ TimeOut(s) \/ BodyLost(s)
          PROVE  UNCHANGED <<pending, acked, rows>>
        BY <2>5 DEF Send, SendBatch, Post, TimeOut, BatchNotSent, BodyLost, Die
    <2>6. CASE Refused \/ CtrlC \/ Restart \/ Crash \/ PoolConnects
        BY <2>6 DEF Refused, CannotConnect, CtrlC, Interrupt, Restart, ApiStart, Crash,
                    ApiCrash, PoolConnects, CaptureOwn, collectorVars, ingestionVars
    <2> QED
        BY <2>1, <2>2, <2>3, <2>4, <2>5, <2>6 DEF Next
<1> QED
    BY <1>1, <1>2, <1>3, <1>4, <1>5

(* The detailed path implements the abstract promise: only what a callback *)
(* kept is ever stored, no row is taken back, and the collector lets go of *)
(* an event only when it has a row.                                        *)
THEOREM Implementation == Spec => DeliversAtLeastOnce
<1>1. Init => Promise!Init
    BY NothingInNothing
    DEF Init, CollectorInit, IngestionInit, Promise!Init, Buffered
<1>2. IInv /\ [Next]_vars => [Promise!Next]_promised
    BY PromiseStep
<1> QED
    BY <1>1, <1>2, Invariance, PTL
    DEF Spec, DeliversAtLeastOnce, Promise!Spec, promised

-----------------------------------------------------------------------------
(* Where every reported connection is.                                     *)

(* A sequence without repetitions stays one when a new element is added.   *)
LEMMA AppendNew ==
    ASSUME NEW S, NEW seq \in Seq(S), IsInjective(seq), NEW e \in S, e \notin Range(seq)
    PROVE  IsInjective(Append(seq, e))
<1> DEFINE n == Len(seq)
           longer == Append(seq, e)
<1>1. /\ longer \in Seq(S)
      /\ Len(longer) = n + 1
      /\ \A i \in 1..n : longer[i] = seq[i]
      /\ longer[n + 1] = e
    BY AppendProperties
<1>2. n \in Nat /\ DOMAIN seq = 1..n /\ DOMAIN longer = 1..(n + 1)
    BY <1>1, LenProperties
<1>3. \A i \in 1..n : longer[i] # e
    BY <1>1, <1>2 DEF Range
<1>4. \A i, j \in 1..n : longer[i] = longer[j] => i = j
    <2>1. \A i, j \in DOMAIN seq : seq[i] = seq[j] => i = j
        BY DEF IsInjective
    <2> QED
        BY <1>1, <1>2, <2>1
<1> HIDE DEF n, longer
<1>5. \A i, j \in 1..(n + 1) : longer[i] = longer[j] => i = j
    <2> SUFFICES ASSUME NEW i \in 1..(n + 1), NEW j \in 1..(n + 1), longer[i] = longer[j]
                 PROVE  i = j
        OBVIOUS
    <2>1. (i \in 1..n \/ i = n + 1) /\ (j \in 1..n \/ j = n + 1)
        BY <1>2
    <2> QED
        BY <2>1, <1>1, <1>3, <1>4
<1>6. IsInjective(longer)
    BY <1>2, <1>5 DEF IsInjective
<1> QED
    BY <1>6 DEF longer

(* What is left of a sequence without repetitions after its n-th element   *)
(* is one too, and holds none of the first n elements.                     *)
LEMMA DropInjective ==
    ASSUME NEW S, NEW seq \in Seq(S), IsInjective(seq), NEW n \in 0..Len(seq)
    PROVE  /\ IsInjective(SubSeq(seq, n + 1, Len(seq)))
           /\ Range(SubSeq(seq, 1, n)) \cap Range(SubSeq(seq, n + 1, Len(seq))) = {}
<1> DEFINE back == SubSeq(seq, n + 1, Len(seq))
<1>1. Len(seq) \in Nat /\ n \in Nat /\ n <= Len(seq) /\ DOMAIN seq = 1..Len(seq)
    BY LenProperties
<1>2. \A i, j \in 1..Len(seq) : seq[i] = seq[j] => i = j
    BY <1>1 DEF IsInjective
<1>3. /\ back \in Seq(S) /\ Len(back) = Len(seq) - n
      /\ \A i \in 1..(Len(seq) - n) : back[i] = seq[n + i]
    BY TakeAndDrop
<1>4. DOMAIN back = 1..(Len(seq) - n)
    BY <1>3, LenProperties
<1>5. IsInjective(back)
    <2> HIDE DEF back
    <2> SUFFICES ASSUME NEW i \in 1..(Len(seq) - n), NEW j \in 1..(Len(seq) - n),
                        back[i] = back[j]
                 PROVE  i = j
        BY <1>4 DEF IsInjective
    <2>1. n + i \in 1..Len(seq) /\ n + j \in 1..Len(seq)
        BY <1>1
    <2>2. seq[n + i] = seq[n + j]
        BY <1>3
    <2>3. n + i = n + j
        BY <1>2, <2>1, <2>2
    <2> QED
        BY <1>1, <2>3
<1>6. /\ Range(SubSeq(seq, 1, n)) = {seq[i] : i \in 1..n}
      /\ Range(back) = {seq[i] : i \in (n + 1)..Len(seq)}
    BY TakeAndDrop
<1>7. Range(SubSeq(seq, 1, n)) \cap Range(back) = {}
    <2> HIDE DEF back
    <2> SUFFICES ASSUME NEW i \in 1..n, NEW j \in (n + 1)..Len(seq)
                 PROVE  seq[i] # seq[j]
        BY <1>6
    <2>1. i \in 1..Len(seq) /\ j \in 1..Len(seq) /\ i # j
        BY <1>1
    <2> QED
        BY <1>2, <2>1
<1> QED
    BY <1>5, <1>7

(* A del after a 201 takes each deleted event out of pending_events once   *)
(* and for all.                                                            *)
LEMMA BatchSentSplits ==
    ASSUME TypeOK, Awaited, IsInjective(pending), BatchSent
    PROVE  /\ Range(batch) \cap Buffered' = {}
           /\ IsInjective(pending')
<1>1. pending \in Seq(Traffic)
    BY DEF TypeOK, CollectorTypeOK
<1>2. batch = NextBatch
    BY DEF Awaited, BatchSent
<1>3. Len(batch) \in 0..Len(pending) /\ batch = SubSeq(pending, 1, Len(batch))
    BY <1>1, <1>2, NextBatchTaken
<1>4. /\ IsInjective(SubSeq(pending, Len(batch) + 1, Len(pending)))
      /\ Range(SubSeq(pending, 1, Len(batch)))
            \cap Range(SubSeq(pending, Len(batch) + 1, Len(pending))) = {}
    BY <1>1, <1>3, DropInjective
<1> QED
    BY <1>3, <1>4 DEF BatchSent, Buffered

(* No step but a report, a callback and a del moves an event, and those    *)
(* move it from one place to one other.                                    *)
LEMMA AccountingStep ==
    ASSUME IInv, Accounting, [Next]_vars
    PROVE  Accounting'
<1> USE DEF IInv
<1>1. TypeOK /\ Awaited /\ pending \in Seq(Traffic)
    BY DEF InFlight, TypeOK, CollectorTypeOK
<1>2. CASE /\ UNCHANGED <<pending, captured, lost, discarded, acked>>
           /\ ring' \cap Traffic = ring \cap Traffic
    <2>1. \A e : Ignored(e)' <=> Ignored(e)
        BY DEF Ignored, Unparsable
    <2> QED
        BY <1>2, <2>1 DEF Accounting, Buffered
<1>3. ASSUME NEW e \in Traffic, CaptureTraffic(e)
      PROVE  Accounting'
    BY <1>3 DEF CaptureTraffic, Submitted, Accounting, Buffered, Ignored, Unparsable
<1>4. ASSUME NEW e \in Events, HandleEvent(e)
      PROVE  Accounting'
    <2>1. CASE Ignored(e)
        BY <1>4, <2>1 DEF HandleEvent, Accounting, Buffered, Ignored, Unparsable
    <2>2. CASE ~Ignored(e)
        <3>1. e \in Traffic /\ e \in ring
            BY <1>4, <2>2 DEF HandleEvent, Ignored, Events
        <3>2. Buffered' = Buffered \cup {e} /\ pending' = Append(pending, e)
            BY <1>1, <1>4, <2>2, <3>1, AppendRange DEF HandleEvent, Buffered
        <3>3. e \notin Buffered
            BY <3>1 DEF Accounting
        <3>4. IsInjective(pending')
            <4>1. IsInjective(pending) /\ e \notin Range(pending)
                BY <3>3 DEF Accounting, Buffered
            <4>2. IsInjective(Append(pending, e))
                BY <1>1, <3>1, <4>1, AppendNew
            <4> QED
                BY <3>2, <4>2
        <3>5. /\ ring' = ring \ {e}
              /\ UNCHANGED <<captured, lost, discarded, acked>>
            BY <1>4, <2>2 DEF HandleEvent
        <3> QED
            BY <3>1, <3>2, <3>4, <3>5 DEF Accounting, Ignored, Unparsable
    <2> QED
        BY <2>1, <2>2
<1>5. CASE BatchSent
    <2>1. /\ Range(batch) \subseteq Buffered
          /\ Buffered = Range(batch) \cup Buffered'
          /\ Range(batch) \cap Buffered' = {}
          /\ IsInjective(pending')
        BY <1>1, <1>5, BatchSentMoves, BatchSentSplits DEF Accounting
    <2>2. /\ acked' = acked \cup Range(batch)
          /\ UNCHANGED <<ring, captured, lost, discarded>>
        BY <1>5 DEF BatchSent
    <2> QED
        BY <2>1, <2>2 DEF Accounting, Ignored, Unparsable
<1>6. \/ /\ UNCHANGED <<pending, captured, lost, discarded, acked>>
         /\ ring' \cap Traffic = ring \cap Traffic
      \/ \E e \in Traffic : CaptureTraffic(e)
      \/ \E e \in Events : HandleEvent(e)
      \/ BatchSent
    <2>1. Submitted(PostEvent) \cap Traffic = ring \cap Traffic
        BY CollectorAssumption DEF Submitted
    <2>2. Submitted(DatabaseEvent) \cap Traffic = ring \cap Traffic
        BY CollectorAssumption DEF Submitted
    <2> HIDE DEF IInv
    <2> QED
        BY <2>1, <2>2
        DEF Next, vars, collectorVars, CollectorStep, CollectorAlone, Tick, BeginFlush,
            EndFlush, Handle, Send, SendBatch, Connect, Reply, Die, TimeOut,
            BatchNotSent, BodyLost, Refused, CannotConnect, CtrlC, Interrupt, Restart,
            Crash, PoolConnects, CaptureOwn
<1> QED
    BY <1>2, <1>3, <1>4, <1>5, <1>6

(* Every connection the probes reported is in exactly one place: the perf  *)
(* buffer, among the dropped, among the ignored, once in pending_events or *)
(* among the acknowledged; whatever the sizes of buffer, batch and slice   *)
(* and however replies, faults and Ctrl+C interleave.                      *)
THEOREM NothingUnaccounted == Spec => []Accounting
<1>1. Init => Accounting
    BY NothingInNothing
    DEF Init, CollectorInit, Accounting, Buffered, IsInjective
<1>2. IInv /\ Accounting /\ [Next]_vars => Accounting'
    BY AccountingStep
<1> QED
    BY <1>1, <1>2, Invariance, PTL DEF Spec

-----------------------------------------------------------------------------
(* Where a second row comes from.                                          *)
(*                                                                         *)
(* DuplicatesExplained is not inductive: a request that was given up may   *)
(* be committed at any later time, several of them may be at work at once, *)
(* and the row of a request that is answered is not yet, or no longer,     *)
(* told by acked.  The strengthening counts the handlers still at work for *)
(* nobody as rows to come, and says when the first row may be there.       *)

(* The requests given up that may still insert a row for e.                *)
Late(e) ==
    {s \in Slot : /\ request[s].st = "received" /\ ~request[s].open
                  /\ e \in Range(request[s].events)}

(* A row of e that no unconfirmed POST accounts for may be there.          *)
Answered(e) ==
    \/ e \in acked
    \/ pc = "stopped"
    \/ \E s \in Slot : /\ request[s].open /\ request[s].st \in {"created", "failed", "reset"}
                       /\ e \in Range(request[s].events)

RowsExplained(e) ==
    /\ IsFiniteSet(Late(e))
    /\ rows[e] + Cardinality(Late(e)) <= unconfirmed[e] + (IF Answered(e) THEN 1 ELSE 0)

(* The numbers in RowsExplained are numbers.                               *)
LEMMA CountsTyped ==
    ASSUME TypeOK, NEW e \in Traffic
    PROVE  /\ rows[e] \in Nat /\ unconfirmed[e] \in Nat
           /\ IsFiniteSet(Late(e)) => Cardinality(Late(e)) \in Nat
    BY FS_CardinalityType DEF TypeOK, IngestionTypeOK

(* A step that gives up no request and stores nothing explains no less.    *)
LEMMA QuietExplained ==
    ASSUME TypeOK, TypeOK', NEW e \in Traffic, RowsExplained(e),
           \A s \in Slot : request'[s].st = "received" /\ ~request'[s].open =>
                             request'[s] = request[s],
           rows'[e] = rows[e], unconfirmed'[e] = unconfirmed[e],
           Answered(e) => Answered(e)'
    PROVE  RowsExplained(e)'
<1>1. Late(e)' \in SUBSET Late(e)
    BY DEF Late
<1>2. IsFiniteSet(Late(e)')
    BY <1>1, FS_Subset DEF RowsExplained
<1>3. Cardinality(Late(e)') <= Cardinality(Late(e))
    BY <1>1, FS_Subset DEF RowsExplained
<1>4. /\ rows[e] \in Nat /\ unconfirmed[e] \in Nat
      /\ Cardinality(Late(e)) \in Nat /\ Cardinality(Late(e)') \in Nat
    BY <1>2, CountsTyped, FS_CardinalityType DEF RowsExplained
<1> QED
    BY <1>2, <1>3, <1>4 DEF RowsExplained

(* A POST that leaves the collector in doubt explains the row its handler  *)
(* may still insert, or the one its answer stood for.                      *)
LEMMA UnconfirmedExplained ==
    ASSUME TypeOK, TypeOK', Awaited, NEW s \in Slot, LeaveUnconfirmed(s),
           UNCHANGED <<rows, acked>>, pc # "stopped",
           NEW e \in Traffic, RowsExplained(e)
    PROVE  RowsExplained(e)'
<1>1. /\ request[s].open
      /\ \A t \in Slot : t # s => request'[t] = request[t] /\ ~request[t].open
    BY DEF LeaveUnconfirmed, HangUp, Awaited, TypeOK, IngestionTypeOK
<1>2. request[s].st # "received" => request'[s] = Idle
    BY DEF LeaveUnconfirmed, HangUp, TypeOK, IngestionTypeOK
<1>3. request'[s].events \in {request[s].events, <<>>}
    BY DEF LeaveUnconfirmed, HangUp, Idle, TypeOK, IngestionTypeOK, Requests
<1>4. CASE e \notin Range(request[s].events)
    <2>1. unconfirmed'[e] = unconfirmed[e]
        BY <1>4 DEF LeaveUnconfirmed
    <2>2. Late(e)' \in SUBSET Late(e)
        BY <1>1, <1>3, <1>4, NothingInNothing DEF Late
    <2>3. Answered(e) => e \in acked
        BY <1>1, <1>4 DEF Answered
    <2>4. Answered(e) => Answered(e)'
        BY <2>3 DEF Answered
    <2>5. /\ IsFiniteSet(Late(e)')
          /\ Cardinality(Late(e)') <= Cardinality(Late(e))
        BY <2>2, FS_Subset DEF RowsExplained
    <2>6. /\ rows[e] \in Nat /\ unconfirmed[e] \in Nat
          /\ Cardinality(Late(e)) \in Nat /\ Cardinality(Late(e)') \in Nat
        BY <2>5, CountsTyped, FS_CardinalityType DEF RowsExplained
    <2> QED
        BY <2>1, <2>4, <2>5, <2>6 DEF RowsExplained
<1>5. CASE e \in Range(request[s].events)
    <2>1. unconfirmed'[e] = unconfirmed[e] + 1
        BY <1>5 DEF LeaveUnconfirmed
    <2>2. CASE request[s].st = "received"
        <3>1. Late(e)' \in SUBSET (Late(e) \cup {s})
            BY <1>1 DEF Late
        <3>2. /\ IsFiniteSet(Late(e) \cup {s})
              /\ Cardinality(Late(e) \cup {s}) <= Cardinality(Late(e)) + 1
            <4>1. IsFiniteSet(Late(e))
                BY DEF RowsExplained
            <4>2. Cardinality(Late(e)) \in Nat
                BY <4>1, FS_CardinalityType
            <4>3. /\ IsFiniteSet(Late(e) \cup {s})
                  /\ Cardinality(Late(e) \cup {s}) =
                        IF s \in Late(e) THEN Cardinality(Late(e))
                                         ELSE Cardinality(Late(e)) + 1
                BY <4>1, FS_AddElement
            <4> QED
                BY <4>2, <4>3
        <3>3. /\ IsFiniteSet(Late(e)')
              /\ Cardinality(Late(e)') <= Cardinality(Late(e) \cup {s})
            BY <3>1, <3>2, FS_Subset
        <3>4. /\ rows[e] \in Nat /\ unconfirmed[e] \in Nat
              /\ Cardinality(Late(e)) \in Nat /\ Cardinality(Late(e)') \in Nat
              /\ Cardinality(Late(e) \cup {s}) \in Nat
            BY <3>2, <3>3, CountsTyped, FS_CardinalityType DEF RowsExplained
        <3>5. Answered(e) => Answered(e)'
            BY <1>1, <2>2 DEF Answered
        <3> QED
            BY <2>1, <3>2, <3>3, <3>4, <3>5 DEF RowsExplained
    <2>3. CASE request[s].st # "received"
        <3>1. Late(e)' \in SUBSET Late(e)
            BY <1>1, <1>2, <2>3 DEF Late, Idle
        <3>2. /\ IsFiniteSet(Late(e)')
              /\ Cardinality(Late(e)') <= Cardinality(Late(e))
            BY <3>1, FS_Subset DEF RowsExplained
        <3>3. /\ rows[e] \in Nat /\ unconfirmed[e] \in Nat
              /\ Cardinality(Late(e)) \in Nat /\ Cardinality(Late(e)') \in Nat
            BY <3>2, CountsTyped, FS_CardinalityType DEF RowsExplained
        <3> QED
            BY <2>1, <3>2, <3>3 DEF RowsExplained
    <2> QED
        BY <2>2, <2>3
<1> QED
    BY <1>4, <1>5

(* A commit inserts the row that was to come, or the first one; with the   *)
(* answer 201 or, if the connection to PostgreSQL was lost after it, 500.  *)
LEMMA CommitExplained ==
    ASSUME IInv, TypeOK', Accounting, NEW s \in Slot, request[s].st = "received",
           NEW st \in {"created", "failed"}, Settle(s, st),
           rows' = Inserted(request[s].events),
           UNCHANGED <<pc, acked, unconfirmed>>,
           NEW e \in Traffic, RowsExplained(e)
    PROVE  RowsExplained(e)'
<1> USE DEF IInv
<1>1. \A t \in Slot : t # s => request'[t] = request[t]
    BY DEF Settle, TypeOK, IngestionTypeOK
<1>2. /\ request[s].st = "received"
      /\ request'[s] = IF request[s].open THEN [request[s] EXCEPT !.st = st]
                                          ELSE Idle
    BY DEF Settle, TypeOK, IngestionTypeOK
<1>3. /\ request'[s].st # "received"
      /\ request[s].open => /\ request'[s].st = st /\ request'[s].open
                            /\ request'[s].events = request[s].events
    BY <1>2 DEF Idle, TypeOK, IngestionTypeOK, Requests
<1>4. Late(e)' = Late(e) \ {s}
    BY <1>1, <1>3 DEF Late
<1>5. Answered(e) => Answered(e)'
    <2>1. \A t \in Slot : request[t].st \in {"created", "failed", "reset"} => t # s
        BY <1>2
    <2> QED
        BY <1>1, <2>1 DEF Answered
<1>6. /\ IsFiniteSet(Late(e)')
      /\ Cardinality(Late(e)') = IF s \in Late(e) THEN Cardinality(Late(e)) - 1
                                                  ELSE Cardinality(Late(e))
    <2>1. IsFiniteSet(Late(e))
        BY DEF RowsExplained
    <2> QED
        BY <1>4, <2>1, FS_RemoveElement
<1>7. /\ rows[e] \in Nat /\ unconfirmed[e] \in Nat
      /\ Cardinality(Late(e)) \in Nat /\ Cardinality(Late(e)') \in Nat
    BY <1>6, CountsTyped, FS_CardinalityType DEF RowsExplained
<1>8. CASE e \notin Range(request[s].events)
    <2>1. rows'[e] = rows[e] /\ s \notin Late(e)
        BY <1>8 DEF Inserted, Late
    <2> QED
        BY <1>5, <1>6, <1>7, <2>1 DEF RowsExplained
<1>9. CASE e \in Range(request[s].events) /\ ~request[s].open
    <2>1. rows'[e] = rows[e] + 1 /\ s \in Late(e)
        BY <1>2, <1>9 DEF Inserted, Late
    <2> QED
        BY <1>5, <1>6, <1>7, <2>1 DEF RowsExplained
<1>10. CASE e \in Range(request[s].events) /\ request[s].open
    <2>1. rows'[e] = rows[e] + 1 /\ s \notin Late(e)
        BY <1>10 DEF Inserted, Late
    <2>2. pc = "await" /\ request[s].events = NextBatch
        BY <1>10 DEF InFlight, Awaited
    <2>3. e \notin acked
        <3>1. pending \in Seq(Traffic)
            BY DEF TypeOK, CollectorTypeOK
        <3>2. /\ Len(NextBatch) \in 0..Len(pending)
              /\ NextBatch = SubSeq(pending, 1, Len(NextBatch))
            BY <3>1, NextBatchTaken
        <3>3. Range(SubSeq(pending, 1, Len(NextBatch))) \subseteq Range(pending)
            BY <3>1, <3>2, TakeAndDrop
        <3>4. e \in Buffered
            BY <1>10, <2>2, <3>2, <3>3 DEF Buffered
        <3> QED
            BY <3>4 DEF Accounting
    <2>4. ~Answered(e)
        BY <1>2, <1>10, <2>2, <2>3 DEF Answered, InFlight, Awaited
    <2>5. Answered(e)'
        BY <1>3, <1>10 DEF Answered
    <2> QED
        BY <1>6, <1>7, <2>1, <2>4, <2>5 DEF RowsExplained
<1> QED
    BY <1>8, <1>9, <1>10

(* Every row an event gains is explained when it appears.                  *)
LEMMA ExplainedStep ==
    ASSUME IInv, TypeOK', Accounting, [Next]_vars, NEW e \in Traffic, RowsExplained(e)
    PROVE  RowsExplained(e)'
<1> USE DEF IInv
<1>1. ASSUME request' = request, acked' = acked, pc = "stopped" => pc' = "stopped",
             UNCHANGED <<rows, unconfirmed>>
      PROVE  RowsExplained(e)'
    <2>1. Answered(e) => Answered(e)'
        BY <1>1 DEF Answered
    <2> QED
        BY <1>1, <2>1, QuietExplained
<1>2. CASE UNCHANGED vars
    BY <1>1, <1>2 DEF vars, collectorVars, ingestionVars
<1>3. CASE CollectorStep
    <2>1. /\ request' = request /\ acked' = acked /\ UNCHANGED <<rows, unconfirmed>>
          /\ pc = "stopped" => pc' = "stopped"
        BY <1>3 DEF CollectorStep, CollectorAlone, ingestionVars, CaptureTraffic,
                    HandleEvent, Tick, BeginFlush, EndFlush
    <2> QED
        BY <1>1, <2>1
<1>4. ASSUME NEW s \in Slot, Handle(s)
      PROVE  RowsExplained(e)'
    <2>1. UNCHANGED <<pc, acked, unconfirmed>>
        BY <1>4 DEF Handle, collectorVars
    <2>2. CASE CommitBatch(s) \/ (LoseCommit(s) /\ rows' = Inserted(request[s].events))
        BY <2>1, <2>2, CommitExplained DEF CommitBatch, LoseCommit
    <2>3. CASE RefuseBatch(s) \/ FailBatch(s) \/ (LoseCommit(s) /\ rows' = rows)
        <3>1. /\ request[s].st = "received" /\ UNCHANGED rows
              /\ request'[s].st # "received"
              /\ \A t \in Slot : t # s => request'[t] = request[t]
            BY <2>3 DEF RefuseBatch, FailBatch, LoseCommit, Settle, Idle, TypeOK, IngestionTypeOK,
                        Requests
        <3>2. Answered(e) => Answered(e)'
            BY <2>1, <3>1 DEF Answered
        <3> QED
            BY <2>1, <3>1, <3>2, QuietExplained
    <2>4. LoseCommit(s) => rows' \in {rows, Inserted(request[s].events)}
        BY DEF LoseCommit
    <2>5. CommitBatch(s) \/ RefuseBatch(s) \/ FailBatch(s) \/ LoseCommit(s)
        BY <1>4 DEF Handle
    <2>6. \/ CommitBatch(s) \/ (LoseCommit(s) /\ rows' = Inserted(request[s].events))
          \/ RefuseBatch(s) \/ FailBatch(s) \/ (LoseCommit(s) /\ rows' = rows)
        BY <2>4, <2>5
    <2> QED
        BY <2>2, <2>3, <2>6
<1>5. ASSUME NEW s \in Slot, Send(s)
      PROVE  RowsExplained(e)'
    <2>1. /\ request[s] = Idle /\ request'[s].open
          /\ \A t \in Slot : t # s => request'[t] = request[t]
          /\ pc # "stopped" /\ UNCHANGED <<acked, rows, unconfirmed>>
        BY <1>5 DEF Send, SendBatch, Connect, Post, TypeOK, IngestionTypeOK
    <2>2. Answered(e) => Answered(e)'
        BY <2>1 DEF Answered, Idle
    <2> QED
        BY <2>1, <2>2, QuietExplained
<1>6. ASSUME NEW s \in Slot, request[s].open, request[s].st # "received", HangUp(s),
             UNCHANGED <<rows, unconfirmed>>, acked \subseteq acked',
             \/ request[s].st = "created" => Range(request[s].events) \subseteq acked'
             \/ pc' = "stopped",
             request[s].st \in {"failed", "reset"} => pc' = "stopped"
      PROVE  RowsExplained(e)'
    <2>1. /\ request'[s] = Idle
          /\ \A t \in Slot : t # s => request'[t] = request[t] /\ ~request[t].open
        BY <1>6 DEF HangUp, InFlight, Awaited, TypeOK, IngestionTypeOK
    <2>2. pc # "stopped"
        BY <1>6 DEF InFlight, Awaited
    <2>3. Answered(e) => Answered(e)'
        BY <1>6, <2>1, <2>2 DEF Answered
    <2> QED
        BY <1>6, <2>1, <2>3, QuietExplained DEF Idle
<1>7. ASSUME NEW s \in Slot, Reply(s)
      PROVE  RowsExplained(e)'
    <2>1. CASE request[s].st = "created" /\ BatchSent
        <3>1. batch = request[s].events
            BY <1>7 DEF Reply, InFlight, Awaited
        <3> QED
            BY <1>6, <1>7, <2>1, <3>1 DEF Reply, BatchSent
    <2>2. CASE request[s].st = "rejected" /\ BatchNotSent
        BY <1>6, <1>7, <2>2 DEF Reply, BatchNotSent
    <2>4. CASE request[s].st = "failed" /\ BatchNotSent
        BY <1>7, <2>4, UnconfirmedExplained DEF Reply, BatchNotSent, InFlight
    <2>3. CASE request[s].st = "reset" /\ Die
        BY <1>6, <1>7, <2>3 DEF Reply, Die
    <2> QED
        BY <1>7, <2>1, <2>2, <2>3, <2>4 DEF Reply
<1>8. ASSUME NEW s \in Slot, TimeOut(s)
      PROVE  RowsExplained(e)'
    BY <1>8, UnconfirmedExplained DEF TimeOut, BatchNotSent, InFlight
<1>9. ASSUME NEW s \in Slot, BodyLost(s)
      PROVE  RowsExplained(e)'
    BY <1>6, <1>9 DEF BodyLost, Die
<1>10. CASE CtrlC
    <2>1. CASE pc = "await"
        <3>1. PICK s \in Slot : LeaveUnconfirmed(s)
            BY <1>10, <2>1 DEF CtrlC
        <3> QED
            BY <1>10, <2>1, <3>1, UnconfirmedExplained DEF CtrlC, Interrupt, InFlight
    <2>2. CASE pc # "await"
        BY <1>1, <1>10, <2>2 DEF CtrlC, Interrupt
    <2> QED
        BY <2>1, <2>2
<1>11. CASE Refused
    BY <1>1, <1>11 DEF Refused, CannotConnect, Connect, ingestionVars
<1>12. CASE Restart
    BY <1>1, <1>12 DEF Restart, ApiStart, collectorVars
<1>13. CASE Crash
    <2>1. /\ UNCHANGED <<pc, acked, rows, unconfirmed>>
          /\ \A s \in Slot :
                request'[s] = IF request[s].open THEN [request[s] EXCEPT !.st = "reset"]
                                                ELSE Idle
        BY <1>13 DEF Crash, ApiCrash, collectorVars
    <2>2. \A s \in Slot :
             /\ request'[s].st # "received"
             /\ request[s].open => /\ request'[s].st = "reset" /\ request'[s].open
                                   /\ request'[s].events = request[s].events
        BY <2>1 DEF Idle, TypeOK, IngestionTypeOK, Requests
    <2>3. Answered(e) => Answered(e)'
        BY <2>1, <2>2 DEF Answered
    <2> QED
        BY <2>1, <2>2, <2>3, QuietExplained
<1>14. CASE PoolConnects
    BY <1>1, <1>14 DEF PoolConnects, CaptureOwn, ingestionVars
<1> QED
    BY <1>2, <1>3, <1>4, <1>5, <1>7, <1>8, <1>9, <1>10, <1>11, <1>12, <1>13, <1>14
    DEF Next

(* The rows of every event are explained, for any number of requests the   *)
(* API has room for.                                                       *)
LEMMA AllExplained == Spec => [](\A e \in Traffic : RowsExplained(e))
<1> DEFINE Explained == \A e \in Traffic : RowsExplained(e)
<1>1. Init => Explained
    <2> SUFFICES ASSUME Init, NEW e \in Traffic
                 PROVE  RowsExplained(e)
        OBVIOUS
    <2>1. Late(e) = {}
        BY DEF Init, IngestionInit, Idle, Late
    <2> QED
        BY <2>1, FS_EmptySet DEF Init, IngestionInit, RowsExplained
<1>2. IInv /\ IInv' /\ Accounting /\ Explained /\ [Next]_vars => Explained'
    BY ExplainedStep DEF IInv
<1> HIDE DEF Explained
<1>3. Spec => []Explained
    BY <1>1, <1>2, Invariance, NothingUnaccounted, PTL DEF Spec
<1> QED
    BY <1>3 DEF Explained

(* An event has at most one row more than the number of POSTs containing   *)
(* it after which the collector could not know whether it is stored, for   *)
(* lack of an answer or for one of 500: a duplicate connection in the      *)
(* evidence always has such a POST behind it, however many handlers of     *)
(* abandoned requests are at work and in whatever order they commit.       *)
THEOREM DuplicatesBounded == Spec => []DuplicatesExplained
<1>1. TypeOK /\ (\A e \in Traffic : RowsExplained(e)) => DuplicatesExplained
    <2> SUFFICES ASSUME TypeOK, NEW e \in Traffic, RowsExplained(e)
                 PROVE  rows[e] <= 1 + unconfirmed[e]
        BY DEF DuplicatesExplained
    <2>1. IsFiniteSet(Late(e))
        BY DEF RowsExplained
    <2>2. rows[e] \in Nat /\ unconfirmed[e] \in Nat /\ Cardinality(Late(e)) \in Nat
        BY <2>1, CountsTyped
    <2> QED
        BY <2>2 DEF RowsExplained
<1> QED
    BY <1>1, AllExplained, TypeCorrect, PTL

(* An acknowledged event has one row and no more if every POST of it told  *)
(* the collector whether it was stored: delivery is exactly once as long   *)
(* as every reply arrives and none comes from a commit that was lost.      *)
THEOREM ExactlyOnce ==
    Spec => [](\A e \in acked : unconfirmed[e] = 0 => rows[e] = 1)
<1> DEFINE Once == \A e \in acked : unconfirmed[e] = 0 => rows[e] = 1
<1>1. TypeOK /\ AckedIsStored /\ DuplicatesExplained => Once
    BY DEF TypeOK, CollectorTypeOK, IngestionTypeOK, AckedIsStored, DuplicatesExplained
<1> HIDE DEF Once
<1>2. Spec => []Once
    BY <1>1, AckedStored, DuplicatesBounded, TypeCorrect, PTL
<1> QED
    BY <1>2 DEF Once
=============================================================================

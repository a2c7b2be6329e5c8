--------------------------- MODULE KernelProbeProofs ---------------------------
(***************************************************************************)
(* Proofs about module KernelProbe, for any threads, destinations, sizes   *)
(* of the maps and any number of returns that no probe sees: an entry in a *)
(* map belongs to the call in progress, and a sample to the call it is     *)
(* submitted for.                                                          *)
(***************************************************************************)
EXTENDS KernelProbe, SequenceTheorems, FiniteSetTheorems, TLAPS

-----------------------------------------------------------------------------
(* A thread is in no call, in one, or in tcp_v4_connect within             *)
(* tcp_v6_connect.                                                         *)
StackOK(s) ==
    /\ Len(s) <= 2
    /\ Len(s) = 2 => s[1].family = 6 /\ s[2].family = 4 /\ s[1].inner = "none"

StacksOK == \A t \in Thread : StackOK(calls[t])

(* A call that was not recorded although it could have been (the map was   *)
(* full) has nothing in the map that its return probe could take for it.   *)
CallOK(maps, t, call) ==
    /\ call.kept => maps[call.family][t] = call.dest
    /\ call.hooked /\ call.valid /\ ~call.kept => maps[call.family][t] = NoEntry

CallsOK == \A t \in Thread : \A n \in DOMAIN calls[t] : CallOK(pending, t, calls[t][n])

IInv == TypeOK /\ StacksOK /\ CallsOK /\ SamplesTrue

-----------------------------------------------------------------------------
(* Before main() attaches the first probe.                                 *)
LEMMA Initially == Init => IInv
<1> SUFFICES ASSUME Init PROVE IInv
  OBVIOUS
<1>1. TypeOK
  BY KernelProbeAssumption DEF Init, TypeOK, NoSample, Family
<1>2. StacksOK /\ CallsOK
  BY DEF Init, StacksOK, StackOK, CallsOK
<1>3. SamplesTrue
  BY DEF Init, SamplesTrue
<1> QED
  BY <1>1, <1>2, <1>3 DEF IInv

(* A probe or a buffer more.                                               *)
LEMMA AttachKeeps ==
    ASSUME IInv, Attach
    PROVE  IInv'
<1>1. TypeOK'
  BY DEF IInv, TypeOK, Attach
<1> QED
  BY <1>1 DEF IInv, Attach, StacksOK, CallsOK, CallOK, SamplesTrue

(* What the map of a family holds for a thread after an entry.             *)
LEMMA PendingAfterEntry ==
    ASSUME TypeOK, NEW t \in Thread, NEW f \in Family, NEW dest \in Dest,
           NEW valid \in BOOLEAN, OnEntry(t, f, dest, valid)
    PROVE  /\ pending' \in [Family -> [Thread -> Dest \cup {NoEntry}]]
           /\ pending'[f][t] = IF Recording(t, f, valid) THEN dest ELSE pending[f][t]
           /\ \A g \in Family, u \in Thread :
                  g # f \/ u # t => pending'[g][u] = pending[g][u]
  BY DEF TypeOK, OnEntry, Key

(* What the calls and the count of unseen returns are after an entry.      *)
LEMMA CallsAfterEntry ==
    ASSUME TypeOK, NEW t \in Thread, NEW f \in Family, NEW dest \in Dest,
           NEW valid \in BOOLEAN, Entered(t, f, dest, valid)
    PROVE  \E new \in Call :
              /\ new.family = f /\ new.dest = dest /\ new.valid = valid
              /\ new.kept = Recording(t, f, valid)
              /\ new.hooked => ReturnAttached(f)
              /\ IF new.kept /\ ~new.hooked THEN gaps < MaxGaps /\ gaps' = gaps + 1
                                            ELSE UNCHANGED gaps
              /\ calls' \in [Thread -> Seq(Call)]
              /\ \A u \in Thread : u # t => calls'[u] = calls[u]
              /\ Len(calls'[t]) = Len(calls[t]) + 1
              /\ calls'[t][Len(calls[t]) + 1] = new
              /\ \A n \in 1..Len(calls[t]) : calls'[t][n] = calls[t][n]
<1> DEFINE kept == Recording(t, f, valid)
<1>1. PICK hooked \in IF ReturnAttached(f) THEN BOOLEAN ELSE {FALSE} :
          /\ calls' = [calls EXCEPT ![t] =
                Append(@, [family |-> f, dest |-> dest, valid |-> valid,
                           kept |-> kept, hooked |-> hooked, inner |-> "none"])]
          /\ IF kept /\ ~hooked THEN gaps < MaxGaps /\ gaps' = gaps + 1
                                ELSE UNCHANGED gaps
  BY DEF Entered
<1> DEFINE new == [family |-> f, dest |-> dest, valid |-> valid,
                   kept |-> kept, hooked |-> hooked, inner |-> "none"]
<1>2. kept \in BOOLEAN /\ hooked \in BOOLEAN
  BY <1>1 DEF Recording, EntryAttached, Updatable
<1>3. new \in Call
  BY <1>2 DEF Call
<1>4. calls[t] \in Seq(Call)
  BY DEF TypeOK
<1>5. calls' = [calls EXCEPT ![t] = Append(calls[t], new)]
  BY <1>1
<1>6. /\ new.family = f /\ new.dest = dest /\ new.valid = valid
      /\ new.kept = kept /\ new.hooked = hooked
  OBVIOUS
<1> HIDE DEF new
<1>7. /\ Append(calls[t], new) \in Seq(Call)
      /\ Len(Append(calls[t], new)) = Len(calls[t]) + 1
      /\ Append(calls[t], new)[Len(calls[t]) + 1] = new
      /\ \A n \in 1..Len(calls[t]) : Append(calls[t], new)[n] = calls[t][n]
  BY <1>3, <1>4
<1>8. /\ calls'[t] = Append(calls[t], new)
      /\ \A u \in Thread : u # t => calls'[u] = calls[u]
      /\ calls' \in [Thread -> Seq(Call)]
  BY <1>5, <1>7 DEF TypeOK
<1> QED
  BY <1>1, <1>3, <1>6, <1>7, <1>8

(* The thread enters a call, within none or within tcp_v6_connect.         *)
LEMMA EnteredKeeps ==
    ASSUME IInv, NEW t \in Thread, NEW f \in Family, NEW dest \in Dest,
           NEW valid \in BOOLEAN, Entered(t, f, dest, valid),
           \/ calls[t] = <<>>
           \/ /\ f = 4 /\ Len(calls[t]) = 1
              /\ calls[t][1].family = 6 /\ calls[t][1].inner = "none"
    PROVE  IInv'
<1> DEFINE kept == Recording(t, f, valid)
<1>1. PICK new \in Call :
          /\ new.family = f /\ new.dest = dest /\ new.valid = valid
          /\ new.kept = kept
          /\ new.hooked => ReturnAttached(f)
          /\ IF new.kept /\ ~new.hooked THEN gaps < MaxGaps /\ gaps' = gaps + 1
                                        ELSE UNCHANGED gaps
          /\ calls' \in [Thread -> Seq(Call)]
          /\ \A u \in Thread : u # t => calls'[u] = calls[u]
          /\ Len(calls'[t]) = Len(calls[t]) + 1
          /\ calls'[t][Len(calls[t]) + 1] = new
          /\ \A n \in 1..Len(calls[t]) : calls'[t][n] = calls[t][n]
  BY CallsAfterEntry DEF IInv
<1>2. OnEntry(t, f, dest, valid) /\ UNCHANGED <<stage, last>>
  BY DEF Entered
<1>3. calls[t] \in Seq(Call) /\ calls'[t] \in Seq(Call)
  BY <1>1 DEF IInv, TypeOK
<1>4. /\ pending' \in [Family -> [Thread -> Dest \cup {NoEntry}]]
      /\ pending'[f][t] = IF kept THEN dest ELSE pending[f][t]
      /\ \A g \in Family, u \in Thread : g # f \/ u # t => pending'[g][u] = pending[g][u]
  BY <1>2, PendingAfterEntry DEF IInv
<1>5. TypeOK'
  <2>1. gaps' \in 0..MaxGaps
    BY <1>1, KernelProbeAssumption DEF IInv, TypeOK
  <2> QED
    BY <1>1, <1>2, <1>4, <2>1 DEF IInv, TypeOK
<1>6. calls[t] = <<>> => Len(calls[t]) = 0
  OBVIOUS
<1>7. StacksOK'
  <2>1. StackOK(calls'[t])
    BY <1>1, <1>3, <1>6 DEF StackOK
  <2> QED
    BY <1>1, <2>1 DEF IInv, StacksOK, StackOK
<1>8. CallsOK'
  <2>1. ASSUME NEW u \in Thread, NEW n \in DOMAIN calls'[u], u # t
        PROVE  CallOK(pending', u, calls'[u][n])
    <3>1. calls'[u] = calls[u] /\ calls[u] \in Seq(Call)
      BY <1>1, <2>1 DEF IInv, TypeOK
    <3>2. calls[u][n] \in Call /\ CallOK(pending, u, calls[u][n])
      BY <2>1, <3>1 DEF IInv, CallsOK
    <3> DEFINE call == calls[u][n]
    <3>3. call.family \in Family
      BY <3>2 DEF Call
    <3>4. pending'[call.family][u] = pending[call.family][u]
      BY <1>4, <2>1, <3>3
    <3> QED
      BY <3>1, <3>2, <3>4 DEF CallOK
  <2>2. ASSUME NEW n \in 1..Len(calls[t])
        PROVE  CallOK(pending', t, calls'[t][n])
    <3>1. calls'[t][n] = calls[t][n] /\ CallOK(pending, t, calls[t][n]) /\ calls[t][n] \in Call
      BY <1>1, <1>3 DEF IInv, CallsOK
    <3> DEFINE call == calls[t][n]
    <3>2. call.family # f /\ call.family \in Family
      BY <1>6, <3>1 DEF Call
    <3>3. pending'[call.family][t] = pending[call.family][t]
      BY <1>4, <3>2
    <3> QED
      BY <3>1, <3>3 DEF CallOK
  <2>3. CallOK(pending', t, new)
    <3>1. ASSUME new.hooked, valid, ~kept PROVE pending[f][t] = NoEntry
      <4>1. ReturnAttached(f)
        BY <1>1, <3>1
      <4>2. EntryAttached(f)
        BY <4>1 DEF ReturnAttached, EntryAttached, IInv, TypeOK
      <4>3. ~Updatable(f, t)
        BY <3>1, <4>2 DEF Recording
      <4> QED
        BY <4>3 DEF Updatable, Entries, Key
    <3> QED
      BY <1>1, <1>4, <3>1 DEF CallOK
  <2>4. DOMAIN calls'[t] = 1..(Len(calls[t]) + 1) /\ calls'[t][Len(calls[t]) + 1] = new
    BY <1>1, <1>3
  <2>5. Len(calls[t]) \in Nat
    BY <1>3
  <2>6. \A n \in DOMAIN calls'[t] : n \in 1..Len(calls[t]) \/ n = Len(calls[t]) + 1
    BY <2>4, <2>5
  <2>7. \A n \in DOMAIN calls'[t] : CallOK(pending', t, calls'[t][n])
    BY <2>2, <2>3, <2>4, <2>6
  <2>8. \A u \in Thread : \A n \in DOMAIN calls'[u] : CallOK(pending', u, calls'[u][n])
    BY <2>1, <2>7
  <2> QED
    BY <2>8 DEF CallsOK
<1>9. SamplesTrue'
  BY <1>2 DEF IInv, SamplesTrue
<1> QED
  BY <1>5, <1>7, <1>8, <1>9 DEF IInv

(* What a return leaves in the map of its family, and what it submits.     *)
LEMMA PendingAfterReturn ==
    ASSUME TypeOK, NEW t \in Thread, NEW f \in Family, NEW outcome, OnReturn(t, f, outcome)
    PROVE  /\ pending' \in [Family -> [Thread -> Dest \cup {NoEntry}]]
           /\ pending'[f][t] = NoEntry
           /\ \A g \in Family, u \in Thread :
                  g # f \/ u # t => pending'[g][u] = pending[g][u]
           /\ \/ pending[f][t] # NoEntry /\ outcome = "ok" /\ Submit(t, f, outcome)
              \/ UNCHANGED last
  BY DEF TypeOK, OnReturn, Key

(* What a return does to the calls, the maps and the last sample.          *)
LEMMA AfterReturn ==
    ASSUME IInv, NEW t \in Thread, Return(t)
    PROVE  \E call \in Call, outcome \in {"ok", "failed"} :
              /\ calls[t] \in Seq(Call) /\ Len(calls[t]) \in {1, 2} \cap DOMAIN calls[t]
              /\ call = Innermost(t) /\ call = calls[t][Len(calls[t])]
              /\ CallOK(pending, t, call)
              /\ outcome = "ok" => call.valid
              /\ pending' \in [Family -> [Thread -> Dest \cup {NoEntry}]]
              /\ \A g \in Family, u \in Thread :
                    g # call.family \/ u # t => pending'[g][u] = pending[g][u]
              /\ pending'[call.family][t] =
                    IF call.hooked THEN NoEntry ELSE pending[call.family][t]
              /\ \/ /\ pending[call.family][t] # NoEntry /\ outcome = "ok" /\ call.hooked
                    /\ Submit(t, call.family, outcome)
                 \/ UNCHANGED last
              /\ calls' \in [Thread -> Seq(Call)]
              /\ \A u \in Thread : u # t => calls'[u] = calls[u]
              /\ Len(calls[t]) = 1 => calls'[t] = <<>>
              /\ Len(calls[t]) = 2 => calls'[t] = <<[calls[t][1] EXCEPT !.inner = outcome]>>
<1> DEFINE call == Innermost(t)
           f == call.family
<1>1. PICK outcome \in Outcomes(call) :
          /\ Returned(t, outcome)
          /\ IF call.hooked THEN OnReturn(t, f, outcome) ELSE UNCHANGED <<pending, last>>
  BY DEF Return
<1>2. calls[t] # <<>> /\ UNCHANGED <<stage, gaps>>
  BY DEF Return
<1>3. calls[t] \in Seq(Call) /\ StackOK(calls[t])
  BY DEF IInv, TypeOK, StacksOK
<1>4. Len(calls[t]) = 1 \/ Len(calls[t]) = 2
  <2>1. Len(calls[t]) \in Nat /\ Len(calls[t]) # 0
    BY <1>2, <1>3, EmptySeq
  <2>2. Len(calls[t]) <= 2
    BY DEF IInv, StacksOK, StackOK
  <2>3. \A k \in Nat : k # 0 /\ k <= 2 => k = 1 \/ k = 2
    OBVIOUS
  <2> QED
    BY <2>1, <2>2, <2>3
<1>5. call = calls[t][Len(calls[t])] /\ call \in Call /\ Len(calls[t]) \in DOMAIN calls[t]
  <2>1. Len(calls[t]) \in DOMAIN calls[t] /\ 1 \in DOMAIN calls[t]
    BY <1>3, <1>4
  <2>2. calls[t][Len(calls[t])] \in Call
    BY <1>3, <2>1
  <2> QED
    BY <2>1, <2>2 DEF Innermost
<1>6. f \in Family /\ CallOK(pending, t, call)
  BY <1>5 DEF IInv, CallsOK, Call
<1>7. outcome \in {"ok", "failed"} /\ (outcome = "ok" => call.valid)
  BY <1>1, <1>3, <1>4, <1>5 DEF Outcomes, Call, StackOK
<1> HIDE DEF call
<1>8. /\ pending' \in [Family -> [Thread -> Dest \cup {NoEntry}]]
      /\ \A g \in Family, u \in Thread : g # f \/ u # t => pending'[g][u] = pending[g][u]
      /\ pending'[f][t] = IF call.hooked THEN NoEntry ELSE pending[f][t]
      /\ \/ pending[f][t] # NoEntry /\ outcome = "ok" /\ Submit(t, f, outcome) /\ call.hooked
         \/ UNCHANGED last
  <2>1. CASE call.hooked
    BY <1>1, <1>6, <2>1, PendingAfterReturn DEF IInv
  <2>2. CASE ~call.hooked
    BY <1>1, <2>2 DEF IInv, TypeOK
  <2> QED
    BY <2>1, <2>2
<1> DEFINE outer == [calls[t][1] EXCEPT !.inner = outcome]
<1>9. Len(calls[t]) = 2 => outer \in Call
  <2>1. Len(calls[t]) = 2 => calls[t][1] \in Call
    BY <1>3
  <2> QED
    BY <1>7, <2>1 DEF Call
<1>10. calls' = [calls EXCEPT ![t] = IF Len(calls[t]) = 1 THEN <<>> ELSE <<outer>>]
  BY <1>1 DEF Returned
<1>11. /\ calls'[t] = IF Len(calls[t]) = 1 THEN <<>> ELSE <<outer>>
       /\ \A u \in Thread : u # t => calls'[u] = calls[u]
  BY <1>10 DEF IInv, TypeOK
<1>12. calls' \in [Thread -> Seq(Call)]
  <2>1. (IF Len(calls[t]) = 1 THEN <<>> ELSE <<outer>>) \in Seq(Call)
    <3> HIDE DEF outer
    <3> QED BY <1>4, <1>9
  <2> HIDE DEF outer
  <2> QED
    BY <1>10, <2>1 DEF IInv, TypeOK
<1>13. /\ Len(calls[t]) = 1 => calls'[t] = <<>>
       /\ Len(calls[t]) = 2 => calls'[t] = <<outer>>
  <2> HIDE DEF outer
  <2> QED BY <1>11
<1>14. call = Innermost(t)
  BY DEF call
<1>15. call = calls[t][Len(calls[t])] /\ CallOK(pending, t, call) /\ calls[t] \in Seq(Call)
  BY <1>3, <1>5, <1>6
<1> QED
  BY <1>4, <1>5, <1>7, <1>8, <1>11, <1>12, <1>13, <1>14, <1>15

(* The innermost call of a thread returns.                                 *)
LEMMA ReturnKeeps ==
    ASSUME IInv, NEW t \in Thread, Return(t)
    PROVE  IInv'
<1>1. PICK call \in Call, outcome \in {"ok", "failed"} :
          /\ calls[t] \in Seq(Call) /\ Len(calls[t]) \in {1, 2} \cap DOMAIN calls[t]
          /\ call = Innermost(t) /\ call = calls[t][Len(calls[t])]
          /\ CallOK(pending, t, call)
          /\ outcome = "ok" => call.valid
          /\ pending' \in [Family -> [Thread -> Dest \cup {NoEntry}]]
          /\ \A g \in Family, u \in Thread :
                g # call.family \/ u # t => pending'[g][u] = pending[g][u]
          /\ \/ /\ pending[call.family][t] # NoEntry /\ outcome = "ok" /\ call.hooked
                /\ Submit(t, call.family, outcome)
             \/ UNCHANGED last
          /\ calls' \in [Thread -> Seq(Call)]
          /\ \A u \in Thread : u # t => calls'[u] = calls[u]
          /\ Len(calls[t]) = 1 => calls'[t] = <<>>
          /\ Len(calls[t]) = 2 => calls'[t] = <<[calls[t][1] EXCEPT !.inner = outcome]>>
  BY AfterReturn
<1> DEFINE f == call.family
           outer == [calls[t][1] EXCEPT !.inner = outcome]
<1>2. UNCHANGED <<stage, gaps>>
  BY DEF Return
<1>3. StackOK(calls[t]) /\ f \in Family /\ Len(calls[t]) \in DOMAIN calls[t]
  <2>1. StackOK(calls[t])
    BY DEF IInv, StacksOK
  <2>2. f \in Family
    BY <1>1 DEF Call
  <2>3. Len(calls[t]) \in DOMAIN calls[t]
    BY <1>1
  <2> QED
    BY <2>1, <2>2, <2>3
<1>4. SamplesTrue' /\ last' \in Sample \cup {NoSample}
  <2>1. CASE UNCHANGED last
    BY <2>1 DEF IInv, TypeOK, SamplesTrue, NoSample
  <2>2. CASE pending[f][t] # NoEntry /\ outcome = "ok" /\ Submit(t, f, outcome) /\ call.hooked
    <3>1. last' = [pid |-> Owner[t], ip_version |-> f, dest |-> pending[f][t],
                   call |-> call, returned |-> outcome]
      BY <1>1, <2>2 DEF Submit, Key
    <3>2. call.kept
      BY <1>1, <2>2 DEF CallOK, Call
    <3>3. pending[f][t] = call.dest
      BY <1>1, <3>2 DEF CallOK
    <3>4. SamplesTrue'
      BY <2>2, <3>1, <3>2, <3>3 DEF SamplesTrue
    <3>5. pending[f][t] \in Dest
      BY <1>1, <3>3 DEF Call
    <3>6. last' \in Sample
      BY <1>1, <1>3, <3>1, <3>5 DEF Sample
    <3> QED
      BY <3>4, <3>6
  <2> QED
    BY <1>1, <2>1, <2>2
<1>5. TypeOK'
  BY <1>1, <1>2, <1>4 DEF IInv, TypeOK
<1>6. StacksOK'
  <2>1. StackOK(calls'[t])
    <3>1. calls'[t] = <<>> \/ calls'[t] = <<outer>>
      BY <1>1
    <3> HIDE DEF outer
    <3>2. StackOK(<<>>) /\ StackOK(<<outer>>)
      BY DEF StackOK
    <3> QED
      BY <3>1, <3>2
  <2> QED
    BY <1>1, <2>1 DEF IInv, StacksOK
<1>7. CallsOK'
  <2>1. ASSUME NEW u \in Thread, NEW n \in DOMAIN calls'[u], u # t
        PROVE  CallOK(pending', u, calls'[u][n])
    <3>1. calls'[u] = calls[u] /\ calls[u] \in Seq(Call)
      BY <1>1, <2>1 DEF IInv, TypeOK
    <3>2. calls[u][n] \in Call /\ CallOK(pending, u, calls[u][n])
      BY <2>1, <3>1 DEF IInv, CallsOK
    <3>3. calls[u][n].family \in Family
      BY <3>2 DEF Call
    <3>4. pending'[calls[u][n].family][u] = pending[calls[u][n].family][u]
      BY <1>1, <2>1, <3>3
    <3> QED
      BY <3>1, <3>2, <3>4 DEF CallOK
  <2>2. ASSUME NEW n \in DOMAIN calls'[t]
        PROVE  CallOK(pending', t, calls'[t][n])
    <3>1. Len(calls[t]) = 2 /\ n = 1 /\ calls'[t][n] = outer
      <4>1. (Len(calls[t]) = 1 /\ calls'[t] = <<>>) \/ (Len(calls[t]) = 2 /\ calls'[t] = <<outer>>)
        BY <1>1
      <4> HIDE DEF outer
      <4> QED BY <4>1, <2>2
    <3>2. calls[t][1].family = 6 /\ f = 4
      BY <1>1, <1>3, <3>1 DEF StackOK
    <3>3. CallOK(pending, t, calls[t][1]) /\ calls[t][1] \in Call
      BY <1>1, <3>1 DEF IInv, CallsOK
    <3>4. pending'[6][t] = pending[6][t]
      BY <1>1, <3>2 DEF Family
    <3>5. /\ outer.family = 6 /\ outer.kept = calls[t][1].kept
          /\ outer.hooked = calls[t][1].hooked /\ outer.valid = calls[t][1].valid
          /\ outer.dest = calls[t][1].dest
      BY <3>2, <3>3 DEF Call
    <3> HIDE DEF outer
    <3> QED
      BY <3>1, <3>2, <3>3, <3>4, <3>5 DEF CallOK
  <2>3. \A u \in Thread : \A n \in DOMAIN calls'[u] : CallOK(pending', u, calls'[u][n])
    BY <2>1, <2>2
  <2> QED
    BY <2>3 DEF CallsOK
<1> QED
  BY <1>4, <1>5, <1>6, <1>7 DEF IInv

-----------------------------------------------------------------------------
(* Every step keeps the invariant.                                         *)
LEMMA Inductive == IInv /\ [Next]_vars => IInv'
<1> SUFFICES ASSUME IInv, [Next]_vars PROVE IInv'
  OBVIOUS
<1>1. CASE Attach
  BY <1>1, AttachKeeps
<1>2. ASSUME NEW t \in Thread, Connect(t) PROVE IInv'
  BY <1>2, EnteredKeeps DEF Connect
<1>3. ASSUME NEW t \in Thread, ConnectMapped(t) PROVE IInv'
  <2>1. calls[t] \in Seq(Call) /\ Len(calls[t]) = 1
    BY <1>3 DEF ConnectMapped, IInv, TypeOK
  <2>2. calls[t][1].dest \in Dest /\ 4 \in Family
    <3>1. calls[t][1] \in Call
      BY <2>1
    <3> QED
      BY <3>1 DEF Call, Family
  <2>3. /\ Entered(t, 4, calls[t][1].dest, TRUE)
        /\ calls[t][1].family = 6 /\ calls[t][1].inner = "none"
    BY <1>3 DEF ConnectMapped
  <2> QED
    BY <2>1, <2>2, <2>3, EnteredKeeps
<1>4. ASSUME NEW t \in Thread, Return(t) PROVE IInv'
  BY <1>4, ReturnKeeps
<1>5. CASE UNCHANGED vars
  BY <1>5 DEF vars, IInv, TypeOK, StacksOK, CallsOK, SamplesTrue
<1> QED
  BY <1>1, <1>2, <1>3, <1>4, <1>5 DEF Next

(* In every reachable state of the probes and of the threads they observe. *)
THEOREM Invariance == Spec => []IInv
  BY Initially, Inductive, PTL DEF Spec

(* The maps hold destinations under ids of threads, and a thread is in no  *)
(* calls but those of the two families.                                    *)
THEOREM TypeCorrect == Spec => []TypeOK
<1>1. IInv => TypeOK
  BY DEF IInv
<1> QED
  BY <1>1, Invariance, PTL

(* While a recorded call is in progress, the entry in the map is its own.  *)
THEOREM PendingEntriesMatch == Spec => []PendingMatches
<1>1. IInv => PendingMatches
  BY DEF IInv, CallsOK, CallOK, PendingMatches
<1> QED
  BY <1>1, Invariance, PTL

(* A sample describes the call it is submitted for, which was recorded and *)
(* succeeded, whatever was left in the maps by unseen returns.             *)
THEOREM SamplesAreTrue == Spec => []SamplesTrue
<1>1. IInv => SamplesTrue
  BY DEF IInv
<1> QED
  BY <1>1, Invariance, PTL

-----------------------------------------------------------------------------
(* What is left in the maps.                                               *)
(*                                                                         *)
(* LeaksExplained is not inductive: an entry becomes stale when a call     *)
(* returns unseen, but gaps has counted the call when it was entered.  The *)
(* strengthening counts from then on: an orphan is an entry that no return *)
(* probe is going to delete.                                               *)
Watched(t, f) ==
    \E n \in DOMAIN calls[t] : /\ calls[t][n].family = f
                               /\ calls[t][n].kept /\ calls[t][n].hooked

Orphans(f) == {t \in Thread : pending[f][t] # NoEntry /\ ~Watched(t, f)}

OrphansCounted ==
    /\ IsFiniteSet(Orphans(4)) /\ IsFiniteSet(Orphans(6))
    /\ Cardinality(Orphans(4)) + Cardinality(Orphans(6)) <= gaps

(* A step after which no more entries are orphans keeps the count.         *)
LEMMA FewerOrphans ==
    ASSUME TypeOK, OrphansCounted, UNCHANGED gaps,
           \A f \in Family : Orphans(f)' \in SUBSET Orphans(f)
    PROVE  OrphansCounted'
<1>1. \A f \in Family : IsFiniteSet(Orphans(f)) /\ Cardinality(Orphans(f)) \in Nat
  BY FS_CardinalityType DEF OrphansCounted, Family
<1>2. \A f \in Family : /\ IsFiniteSet(Orphans(f)')
                        /\ Cardinality(Orphans(f)') <= Cardinality(Orphans(f))
  BY <1>1, FS_Subset
<1>3. \A f \in Family : Cardinality(Orphans(f)') \in Nat
  BY <1>2, FS_CardinalityType
<1>4. 4 \in Family /\ 6 \in Family
  BY DEF Family
<1> QED
  BY <1>1, <1>2, <1>3, <1>4 DEF OrphansCounted, TypeOK

(* A step that counts a gap may leave one orphan more.                     *)
LEMMA OneMoreOrphan ==
    ASSUME TypeOK, OrphansCounted, gaps' = gaps + 1, NEW t, NEW f \in Family,
           Orphans(f)' \in SUBSET (Orphans(f) \cup {t}),
           \A g \in Family : g # f => Orphans(g)' \in SUBSET Orphans(g)
    PROVE  OrphansCounted'
<1>1. \A g \in Family : IsFiniteSet(Orphans(g)) /\ Cardinality(Orphans(g)) \in Nat
  BY FS_CardinalityType DEF OrphansCounted, Family
<1>2. /\ IsFiniteSet(Orphans(f) \cup {t})
      /\ Cardinality(Orphans(f) \cup {t}) =
            IF t \in Orphans(f) THEN Cardinality(Orphans(f)) ELSE Cardinality(Orphans(f)) + 1
  BY <1>1, FS_AddElement
<1>3. /\ IsFiniteSet(Orphans(f)')
      /\ Cardinality(Orphans(f)') <= Cardinality(Orphans(f) \cup {t})
  BY <1>2, FS_Subset
<1>4. \A g \in Family : g # f => /\ IsFiniteSet(Orphans(g)')
                                 /\ Cardinality(Orphans(g)') <= Cardinality(Orphans(g))
  BY <1>1, FS_Subset
<1>5. \A g \in Family : Cardinality(Orphans(g)') \in Nat /\ IsFiniteSet(Orphans(g)')
  BY <1>3, <1>4, FS_CardinalityType
<1>6. Cardinality(Orphans(f)') <= Cardinality(Orphans(f)) + 1
  BY <1>1, <1>2, <1>3, <1>5
<1>7. (f = 4 \/ f = 6) /\ 4 \in Family /\ 6 \in Family /\ 4 # 6
  BY DEF Family
<1> QED
  BY <1>1, <1>4, <1>5, <1>6, <1>7 DEF OrphansCounted, TypeOK

(* A recorded call whose return no probe will see is counted when it is    *)
(* entered; any other recorded call is watched, so its entry is no orphan. *)
LEMMA EnteredCounts ==
    ASSUME IInv, OrphansCounted, NEW t \in Thread, NEW f \in Family, NEW dest \in Dest,
           NEW valid \in BOOLEAN, Entered(t, f, dest, valid)
    PROVE  OrphansCounted'
<1>1. PICK new \in Call :
          /\ new.family = f /\ new.kept = Recording(t, f, valid)
          /\ IF new.kept /\ ~new.hooked THEN gaps < MaxGaps /\ gaps' = gaps + 1
                                        ELSE UNCHANGED gaps
          /\ calls' \in [Thread -> Seq(Call)]
          /\ \A u \in Thread : u # t => calls'[u] = calls[u]
          /\ Len(calls'[t]) = Len(calls[t]) + 1
          /\ calls'[t][Len(calls[t]) + 1] = new
          /\ \A n \in 1..Len(calls[t]) : calls'[t][n] = calls[t][n]
  BY CallsAfterEntry DEF IInv
<1>2. /\ pending'[f][t] = IF new.kept THEN dest ELSE pending[f][t]
      /\ \A g \in Family, u \in Thread : g # f \/ u # t => pending'[g][u] = pending[g][u]
  BY <1>1, PendingAfterEntry DEF Entered, IInv
<1>3. /\ DOMAIN calls[t] = 1..Len(calls[t])
      /\ DOMAIN calls'[t] = 1..(Len(calls[t]) + 1)
      /\ Len(calls[t]) \in Nat
  BY <1>1 DEF IInv, TypeOK
<1>4. \A u \in Thread, g \in Family : Watched(u, g) => Watched(u, g)'
  <2>1. \A u \in Thread, g \in Family : u # t /\ Watched(u, g) => Watched(u, g)'
    BY <1>1 DEF Watched
  <2>2. ASSUME NEW g \in Family, Watched(t, g)
        PROVE  Watched(t, g)'
    <3>1. PICK n \in 1..Len(calls[t]) : /\ calls[t][n].family = g
                                        /\ calls[t][n].kept /\ calls[t][n].hooked
      BY <1>3, <2>2 DEF Watched
    <3>2. n \in DOMAIN calls'[t] /\ calls'[t][n] = calls[t][n]
      BY <1>1, <1>3
    <3> QED
      BY <3>1, <3>2 DEF Watched
  <2> QED
    BY <2>1, <2>2
<1>5. \A u \in Thread, g \in Family :
         u \in Orphans(g)' => u \in Orphans(g) \/ (u = t /\ g = f /\ new.kept)
  BY <1>2, <1>4 DEF Orphans
<1>6. new.kept /\ new.hooked => Watched(t, f)'
  BY <1>1, <1>3 DEF Watched
<1>7. \A g \in Family : Orphans(g) \in SUBSET Thread /\ Orphans(g)' \in SUBSET Thread
  BY DEF Orphans
<1>8. CASE new.kept /\ ~new.hooked
  <2>1. Orphans(f)' \in SUBSET (Orphans(f) \cup {t})
    BY <1>5, <1>7
  <2>2. \A g \in Family : g # f => Orphans(g)' \in SUBSET Orphans(g)
    BY <1>5, <1>7
  <2> QED
    BY <1>1, <1>8, <2>1, <2>2, OneMoreOrphan DEF IInv
<1>9. CASE ~(new.kept /\ ~new.hooked)
  <2>1. new.kept \in BOOLEAN /\ new.hooked \in BOOLEAN
    BY DEF Call
  <2>2. new.kept => t \notin Orphans(f)'
    BY <1>6, <1>9, <2>1 DEF Orphans
  <2>3. \A g \in Family : Orphans(g)' \in SUBSET Orphans(g)
    BY <1>5, <1>7, <2>2
  <2> QED
    BY <1>1, <1>9, <2>3, FewerOrphans DEF IInv
<1> QED
  BY <1>8, <1>9

(* A return that is seen deletes the entry of its family; one that is not  *)
(* seen leaves an entry no call was going to delete.                       *)
LEMMA ReturnCounts ==
    ASSUME IInv, OrphansCounted, NEW t \in Thread, Return(t)
    PROVE  OrphansCounted'
<1>1. PICK call \in Call, outcome \in {"ok", "failed"} :
          /\ calls[t] \in Seq(Call) /\ Len(calls[t]) \in {1, 2} \cap DOMAIN calls[t]
          /\ call = calls[t][Len(calls[t])]
          /\ \A g \in Family, u \in Thread :
                g # call.family \/ u # t => pending'[g][u] = pending[g][u]
          /\ pending'[call.family][t] =
                IF call.hooked THEN NoEntry ELSE pending[call.family][t]
          /\ \A u \in Thread : u # t => calls'[u] = calls[u]
          /\ Len(calls[t]) = 2 => calls'[t] = <<[calls[t][1] EXCEPT !.inner = outcome]>>
  BY AfterReturn
<1>2. UNCHANGED gaps
  BY DEF Return
<1>3. StackOK(calls[t]) /\ DOMAIN calls[t] = 1..Len(calls[t])
  BY <1>1 DEF IInv, StacksOK
<1>4. ASSUME NEW g \in Family, g # call.family, Watched(t, g)
      PROVE  Watched(t, g)'
  <2>1. PICK n \in DOMAIN calls[t] : /\ calls[t][n].family = g
                                     /\ calls[t][n].kept /\ calls[t][n].hooked
    BY <1>4 DEF Watched
  <2>2. n # Len(calls[t])
    BY <1>1, <1>4, <2>1
  <2>3. n = 1 /\ Len(calls[t]) = 2
    BY <1>1, <1>3, <2>2
  <2>4. calls[t][1] \in Call
    BY <1>1, <1>3, <2>3
  <2> DEFINE outer == [calls[t][1] EXCEPT !.inner = outcome]
  <2>5. outer.family = g /\ outer.kept /\ outer.hooked
    BY <2>1, <2>3, <2>4 DEF Call
  <2>6. calls'[t] = <<outer>>
    BY <1>1, <2>3
  <2> HIDE DEF outer
  <2>7. 1 \in DOMAIN calls'[t] /\ calls'[t][1] = outer
    BY <2>6
  <2> QED
    BY <2>5, <2>7 DEF Watched
<1>5. ~call.hooked => ~Watched(t, call.family)
  <2> SUFFICES ASSUME ~call.hooked, NEW n \in DOMAIN calls[t],
                      calls[t][n].family = call.family, calls[t][n].hooked
               PROVE  FALSE
    BY DEF Watched
  <2>1. n # Len(calls[t])
    BY <1>1
  <2>2. n = 1 /\ Len(calls[t]) = 2
    BY <1>1, <1>3, <2>1
  <2> QED
    BY <1>1, <1>3, <2>2 DEF StackOK
<1>6. call.family \in Family
  BY DEF Call
<1>7. ASSUME NEW g \in Family, NEW u \in Thread, u \in Orphans(g)'
      PROVE  u \in Orphans(g)
  <2>1. CASE u # t
    BY <1>1, <1>7, <2>1 DEF Orphans, Watched
  <2>2. CASE u = t /\ g # call.family
    BY <1>1, <1>4, <1>7, <2>2 DEF Orphans
  <2>3. CASE u = t /\ g = call.family
    BY <1>1, <1>5, <1>7, <2>3 DEF Orphans
  <2> QED
    BY <2>1, <2>2, <2>3
<1>8. \A g \in Family : Orphans(g)' \in SUBSET Orphans(g)
  <2>1. \A g \in Family : Orphans(g)' \in SUBSET Thread
    BY DEF Orphans
  <2> QED
    BY <1>7, <2>1
<1> QED
  BY <1>2, <1>8, FewerOrphans DEF IInv

(* The count holds in every reachable state.                               *)
LEMMA OrphansAreCounted == Spec => []OrphansCounted
<1>1. Init => OrphansCounted
  <2> SUFFICES ASSUME Init PROVE OrphansCounted
    OBVIOUS
  <2>1. Orphans(4) = {} /\ Orphans(6) = {}
    BY DEF Init, Orphans, Family
  <2>2. IsFiniteSet({}) /\ Cardinality({}) = 0
    BY FS_EmptySet
  <2>3. gaps = 0
    BY DEF Init
  <2> QED
    BY <2>1, <2>2, <2>3 DEF OrphansCounted
<1>2. IInv /\ OrphansCounted /\ [Next]_vars => OrphansCounted'
  <2> SUFFICES ASSUME IInv, OrphansCounted, [Next]_vars PROVE OrphansCounted'
    OBVIOUS
  <2>1. CASE UNCHANGED <<calls, pending, gaps>>
    <3>1. \A f \in Family : Orphans(f)' \in SUBSET Orphans(f)
      BY <2>1 DEF Orphans, Watched
    <3> QED
      BY <2>1, <3>1, FewerOrphans DEF IInv
  <2>2. ASSUME NEW t \in Thread, Connect(t) PROVE OrphansCounted'
    BY <2>2, EnteredCounts DEF Connect
  <2>3. ASSUME NEW t \in Thread, ConnectMapped(t) PROVE OrphansCounted'
    <3>1. calls[t] \in Seq(Call) /\ Len(calls[t]) = 1
      BY <2>3 DEF ConnectMapped, IInv, TypeOK
    <3>2. calls[t][1] \in Call
      BY <3>1
    <3>3. calls[t][1].dest \in Dest /\ 4 \in Family
      BY <3>2 DEF Call, Family
    <3> QED
      BY <2>3, <3>3, EnteredCounts DEF ConnectMapped
  <2>4. ASSUME NEW t \in Thread, Return(t) PROVE OrphansCounted'
    BY <2>4, ReturnCounts
  <2> QED
    BY <2>1, <2>2, <2>3, <2>4 DEF Next, Attach, vars
<1> QED
  BY <1>1, <1>2, Invariance, PTL DEF Spec

(* The maps do not fill up by themselves: there are never more entries     *)
(* without a call in progress than returns that no probe saw, for any      *)
(* number of threads and processes and any capacity of the maps.           *)
THEOREM LeaksAreExplained == Spec => []LeaksExplained
<1>1. TypeOK /\ OrphansCounted => LeaksExplained
  <2> SUFFICES ASSUME TypeOK, OrphansCounted PROVE LeaksExplained
    OBVIOUS
  <2>1. \A f \in Family : Stale(f) \in SUBSET Orphans(f)
    BY DEF Stale, Entries, CallsIn, Orphans, Watched
  <2>2. 4 \in Family /\ 6 \in Family
    BY DEF Family
  <2>3. /\ IsFiniteSet(Stale(4)) /\ Cardinality(Stale(4)) <= Cardinality(Orphans(4))
        /\ IsFiniteSet(Stale(6)) /\ Cardinality(Stale(6)) <= Cardinality(Orphans(6))
    BY <2>1, <2>2, FS_Subset DEF OrphansCounted
  <2>4. /\ Cardinality(Stale(4)) \in Nat /\ Cardinality(Orphans(4)) \in Nat
        /\ Cardinality(Stale(6)) \in Nat /\ Cardinality(Orphans(6)) \in Nat
    BY <2>3, FS_CardinalityType DEF OrphansCounted
  <2> QED
    BY <2>3, <2>4 DEF OrphansCounted, LeaksExplained, TypeOK
<1> QED
  BY <1>1, OrphansAreCounted, TypeCorrect, PTL
================================================================================

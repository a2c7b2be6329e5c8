--------------------------- MODULE ConversationProofs ---------------------------
(***************************************************************************)
(* Proofs about module Conversation, for any tools, any ids, responses of  *)
(* any length and any number of rounds: each request to the API of a model *)
(* has the results that belong to its calls.                               *)
(***************************************************************************)
EXTENDS Conversation, SequenceTheorems, FiniteSetTheorems, TLAPS

(* The turns of a conversation.                                            *)
Spoken == Call \cup {TextPart}
Told == {TextPart} \cup [kind : {"answer"}, to : CallId \cup Tool, result : Nat]
Turns == [role : {"model"}, parts : Seq(Spoken)] \cup [role : {"user"}, parts : Seq(Told)]

ToolCallId == CallId \cup (Nat \X Nat)

TypeOK ==
    /\ provider \in {"openai", "gemini"}
    /\ contents \in Seq(Turns)
    /\ response.tool_requests \in Seq([call_id : ToolCallId, name : Tool])
    /\ tool_results \in Seq([call_id : ToolCallId, result : Nat])
    /\ round \in Nat
    /\ executed \in Seq(Tool)

(* The user and the model take turns.                                      *)
Alternating ==
    \A i \in DOMAIN contents : contents[i].role = IF i % 2 = 1 THEN "user" ELSE "model"

(* Past rounds: the executions of their calls are history.                 *)
Settled(i) ==
    /\ Answered(i)
    /\ CallsBefore(i - 1) + Len(CallsOf(contents[i - 1].parts)) <= Len(executed)

PastSettled == \A i \in DOMAIN contents : i > 1 /\ i % 2 = 1 => Settled(i)

(* Between two rounds every call has been executed.                        *)
Asking ==
    pc = "asking" =>
        /\ Len(contents) % 2 = 1 /\ tool_results = <<>>
        /\ Len(executed) = CallCount(contents)

(* What the model said last, and how many calls it made before that.       *)
Said == contents[Len(contents)].parts
Before == CallsBefore(Len(contents))

(* Calls that can be told apart.                                           *)
Distinct(calls) ==
    /\ \A i, j \in DOMAIN calls : i # j /\ calls[i].id # NoId => calls[i].id # calls[j].id
    /\ provider = "openai" => \A i \in DOMAIN calls : calls[i].id # NoId

(* Within a round the tools are executed in the order of the calls.        *)
Executing ==
    LET calls == CallsOf(Said)
    IN  /\ Len(contents) % 2 = 0 /\ contents # <<>>
        /\ Distinct(calls)
        /\ response.tool_requests = ToolRequests(Said)
        /\ provider = "gemini" => response.pending_calls = PendingCalls(Said)
        /\ Len(tool_results) <= Len(calls)
        /\ Len(executed) = Before + Len(tool_results)
        /\ \A n \in DOMAIN tool_results :
               /\ tool_results[n].call_id = ToolRequests(Said)[n].call_id
               /\ tool_results[n].result = Before + n
               /\ executed[Before + n] = calls[n].name

IInv ==
    /\ TypeOK /\ Alternating /\ PastSettled /\ Asking
    /\ pc = "looping" /\ response.tool_requests # <<>> => Executing
    /\ pc # "unknown call"

-----------------------------------------------------------------------------
(* Induction over the natural numbers, as a fact about sets.  Otherwise    *)
(* the successor would map a finite set one to one into a part of itself.  *)
LEMMA Induction ==
    ASSUME NEW S, 0 \in S, \A n \in Nat : n \in S => n + 1 \in S
    PROVE  Nat \subseteq S
<1> SUFFICES ASSUME NEW n \in Nat, n \notin S PROVE FALSE
  OBVIOUS
<1> DEFINE T == {m \in 0..n : m \in S}
           successor == [m \in T |-> m + 1]
<1>1. IsFiniteSet(T)
  <2>1. IsFiniteSet(0..n)
    BY FS_Interval
  <2> QED
    BY <2>1, FS_Subset
<1>2. 0 \in T
  OBVIOUS
<1>3. /\ IsFiniteSet(T \ {0})
      /\ Cardinality(T \ {0}) = Cardinality(T) - 1
  BY <1>1, <1>2, FS_RemoveElement
<1>4. Cardinality(T) \in Nat /\ Cardinality(T \ {0}) \in Nat
  BY <1>1, <1>3, FS_CardinalityType
<1>5. successor \in [T -> T \ {0}]
  <2>1. ASSUME NEW m \in T PROVE m + 1 \in T \ {0}
    <3>1. m \in 0..n /\ m \in S /\ m # n
      OBVIOUS
    <3> QED
      BY <3>1
  <2> QED
    BY <2>1
<1>6. \A l, m \in T : successor[l] = successor[m] => l = m
  OBVIOUS
<1> HIDE DEF T, successor
<1>7. Cardinality(T) > Cardinality(T \ {0})
  BY <1>3, <1>4
<1> QED
  BY <1>1, <1>3, <1>5, <1>6, <1>7, FS_PigeonHole

(* Up to a bound.                                                          *)
LEMMA InductionUpTo ==
    ASSUME NEW length \in Nat, NEW S, 0 \in S,
           \A n \in 0..length : n \in S /\ n < length => n + 1 \in S
    PROVE  0..length \subseteq S
<1> DEFINE T == {n \in Nat : n <= length => n \in S}
<1>1. 0 \in T
  OBVIOUS
<1>2. ASSUME NEW n \in Nat, n \in T PROVE n + 1 \in T
  BY <1>2
<1> HIDE DEF T
<1>3. Nat \subseteq T
  BY <1>1, <1>2, Induction
<1> QED
  BY <1>3 DEF T

(* f is defined by recursion from its first value.                         *)
Iterates(f, n, start, step) ==
    \A i \in 0..n : f[i] = IF i = 0 THEN start ELSE step[i][f[i - 1]]

(* There is such a function.                                               *)
LEMMA Iterate ==
    ASSUME NEW S, NEW length \in Nat, NEW start \in S, NEW step \in [1..length -> [S -> S]]
    PROVE  \E f \in [0..length -> S] : Iterates(f, length, start, step)
<1> USE DEF Iterates
<1> DEFINE Upto(n, f) == Iterates(f, n, start, step)
           T == {n \in 0..length : \E f \in [0..length -> S] : Upto(n, f)}
<1>1. 0 \in T
  <2> DEFINE f == [i \in 0..length |-> start]
  <2>1. f \in [0..length -> S] /\ Upto(0, f)
    OBVIOUS
  <2> HIDE DEF f, Upto
  <2> QED
    BY <2>1
<1>2. ASSUME NEW n \in 0..length, n \in T /\ n < length PROVE n + 1 \in T
  <2>1. PICK f \in [0..length -> S] : Upto(n, f)
    BY <1>2
  <2> DEFINE g == [f EXCEPT ![n + 1] = step[n + 1][f[n]]]
  <2>2. n + 1 \in 1..length /\ f[n] \in S
    BY <1>2
  <2>3. step[n + 1][f[n]] \in S
    BY <2>2
  <2>4. g \in [0..length -> S]
    BY <2>3
  <2>5. ASSUME NEW i \in 0..n + 1 PROVE g[i] = IF i = 0 THEN start ELSE step[i][g[i - 1]]
    <3>1. CASE i = n + 1
      BY <3>1, <1>2
    <3>2. CASE i # n + 1
      <4>1. i \in 0..n /\ g[i] = f[i] /\ (i # 0 => g[i - 1] = f[i - 1])
        BY <3>2, <1>2
      <4> QED
        BY <4>1, <2>1
    <3> QED
      BY <3>1, <3>2
  <2>6. Upto(n + 1, g)
    BY <2>5
  <2> HIDE DEF g, Upto
  <2> QED
    BY <2>2, <2>4, <2>6
<1> HIDE DEF T
<1>3. 0..length \subseteq T
  BY <1>1, <1>2, InductionUpTo
<1>4. length \in T
  BY <1>3
<1> QED
  BY <1>4 DEF T

-----------------------------------------------------------------------------
(* The calls among what was spoken are calls.                              *)
LEMMA CallsOfType ==
    ASSUME NEW parts \in Seq(Spoken)
    PROVE  CallsOf(parts) \in Seq(Call)
<1> DEFINE length == Len(parts)
           Is(f) == f = [i \in 0..length |->
                            IF i = 0 THEN <<>>
                            ELSE IF parts[i].kind = "call" THEN Append(f[i - 1], parts[i])
                            ELSE f[i - 1]]
           step == [i \in 1..length |->
                       [calls \in Seq(Call) |->
                           IF parts[i].kind = "call" THEN Append(calls, parts[i]) ELSE calls]]
<1>1. length \in Nat /\ \A i \in 1..length : parts[i].kind = "call" => parts[i] \in Call
  BY DEF Spoken, TextPart
<1>2. step \in [1..length -> [Seq(Call) -> Seq(Call)]]
  <2>1. ASSUME NEW i \in 1..length, NEW calls \in Seq(Call)
        PROVE  (IF parts[i].kind = "call" THEN Append(calls, parts[i]) ELSE calls) \in Seq(Call)
    BY <1>1, AppendProperties
  <2> HIDE DEF length
  <2> QED
    BY <2>1
<1>3. <<>> \in Seq(Call)
  OBVIOUS
<1>4. PICK f \in [0..length -> Seq(Call)] :
         \A i \in 0..length : f[i] = IF i = 0 THEN <<>> ELSE step[i][f[i - 1]]
  <2> HIDE DEF step, length
  <2>1. \E f \in [0..length -> Seq(Call)] : Iterates(f, length, <<>>, step)
    BY <1>1, <1>2, <1>3, Iterate
  <2> QED
    BY <2>1 DEF Iterates
<1>5. Is(f)
  <2>1. ASSUME NEW i \in 0..length, i # 0
        PROVE  f[i] = IF parts[i].kind = "call" THEN Append(f[i - 1], parts[i]) ELSE f[i - 1]
    <3>1. i \in 1..length /\ f[i - 1] \in Seq(Call)
      BY <1>1, <2>1
    <3>2. f[i] = step[i][f[i - 1]]
      <4> HIDE DEF step, length
      <4> QED
        BY <1>4, <2>1
    <3> QED
      BY <3>1, <3>2
  <2>2. f[0] = <<>>
    <3> HIDE DEF step, length
    <3> QED
      BY <1>1, <1>4
  <2>3. f = [i \in 0..length |-> f[i]]
    OBVIOUS
  <2> HIDE DEF length
  <2> QED
    BY <2>1, <2>2, <2>3
<1>6. PICK calls : calls = (CHOOSE g : Is(g))
  OBVIOUS
<1>7. Is(calls)
  BY <1>5, <1>6
<1>8. CallsOf(parts) = calls[length]
  BY <1>6 DEF CallsOf
<1> DEFINE T == {n \in 0..length : calls[n] \in Seq(Call)}
<1>9. 0 \in T
  BY <1>1, <1>3, <1>7
<1>10. ASSUME NEW n \in 0..length, n \in T /\ n < length PROVE n + 1 \in T
  <2>1. n + 1 \in 1..length /\ n + 1 \in 0..length /\ n + 1 # 0 /\ (n + 1) - 1 = n
    BY <1>1, <1>10
  <2>2. calls[n + 1] = IF parts[n + 1].kind = "call" THEN Append(calls[n], parts[n + 1])
                       ELSE calls[n]
    <3> HIDE DEF length
    <3> QED
      BY <1>7, <2>1
  <2>3. calls[n + 1] \in Seq(Call)
    BY <1>1, <1>10, <2>1, <2>2, AppendProperties
  <2> QED
    BY <2>1, <2>3
<1> HIDE DEF T
<1>11. 0..length \subseteq T
  BY <1>1, <1>9, <1>10, InductionUpTo
<1>12. length \in T
  BY <1>1, <1>11
<1> QED
  BY <1>8, <1>12 DEF T

(* How many calls there are in a turn.                                     *)
LEMMA CallsInType ==
    ASSUME NEW turn \in Turns
    PROVE  CallsIn(turn) \in Seq(Call) /\ Len(CallsIn(turn)) \in Nat
<1>1. turn.role = "model" => turn.parts \in Seq(Spoken)
  BY DEF Turns
<1> QED
  BY <1>1, CallsOfType DEF CallsIn

(* What the recursion in CallCount yields.                                 *)
LEMMA CountExists ==
    ASSUME NEW turns \in Seq(Turns)
    PROVE  \E count \in [0..Len(turns) -> Nat] :
              /\ CallCount(turns) = count[Len(turns)]
              /\ count[0] = 0
              /\ \A i \in 1..Len(turns) : count[i] = count[i - 1] + Len(CallsIn(turns[i]))
<1> DEFINE length == Len(turns)
           calls == [i \in 1..length |-> Len(CallsIn(turns[i]))]
           Is(f) == f = [i \in 0..length |->
                            IF i = 0 THEN 0 ELSE f[i - 1] + Len(CallsIn(turns[i]))]
           step == [i \in 1..length |-> [n \in Nat |-> n + calls[i]]]
<1>1. length \in Nat /\ calls \in [1..length -> Nat]
  BY CallsInType
<1>2. step \in [1..length -> [Nat -> Nat]]
  <2> HIDE DEF length, calls
  <2> QED
    BY <1>1
<1>3. PICK f \in [0..length -> Nat] :
         \A i \in 0..length : f[i] = IF i = 0 THEN 0 ELSE step[i][f[i - 1]]
  <2> HIDE DEF step, length
  <2>1. \E f \in [0..length -> Nat] : Iterates(f, length, 0, step)
    BY <1>1, <1>2, 0 \in Nat, Iterate
  <2> QED
    BY <2>1 DEF Iterates
<1>4. Is(f)
  <2>1. ASSUME NEW i \in 0..length, i # 0 PROVE f[i] = f[i - 1] + Len(CallsIn(turns[i]))
    <3>1. i \in 1..length /\ f[i - 1] \in Nat
      BY <1>1, <2>1
    <3>2. f[i] = step[i][f[i - 1]]
      <4> HIDE DEF step, length
      <4> QED
        BY <1>3, <2>1
    <3>3. f[i] = f[i - 1] + calls[i]
      <4> HIDE DEF calls
      <4> QED
        BY <3>1, <3>2
    <3> QED
      BY <3>1, <3>3
  <2>2. f[0] = 0
    <3> HIDE DEF step, length
    <3> QED
      BY <1>1, <1>3
  <2>3. f = [i \in 0..length |-> f[i]]
    OBVIOUS
  <2> HIDE DEF length
  <2> QED
    BY <2>1, <2>2, <2>3
<1>5. PICK count : count = (CHOOSE g : Is(g))
  OBVIOUS
<1>6. Is(count)
  BY <1>4, <1>5
<1>7. CallCount(turns) = count[length]
  BY <1>5 DEF CallCount
<1>8. count[0] = 0 /\ \A i \in 1..length : count[i] = count[i - 1] + calls[i]
  BY <1>1, <1>6
<1>9. count \in [0..length -> Nat]
  <2> DEFINE T == {n \in 0..length : count[n] \in Nat}
  <2>1. 0 \in T
    BY <1>1, <1>8
  <2>2. ASSUME NEW n \in 0..length, n \in T /\ n < length PROVE n + 1 \in T
    <3> HIDE DEF calls, length
    <3>1. n + 1 \in 1..length /\ n + 1 \in 0..length /\ (n + 1) - 1 = n /\ count[n] \in Nat
      BY <1>1, <2>2
    <3>2. count[n + 1] = count[n] + calls[n + 1]
      BY <1>8, <3>1
    <3>3. calls[n + 1] \in Nat
      BY <1>1, <3>1
    <3> QED
      BY <3>1, <3>2, <3>3
  <2> HIDE DEF T
  <2>3. 0..length \subseteq T
    BY <1>1, <2>1, <2>2, InductionUpTo
  <2> QED
    BY <1>6, <2>3 DEF T
<1> QED
  BY <1>7, <1>8, <1>9

(* One turn more.                                                          *)
LEMMA CountAppend ==
    ASSUME NEW turns \in Seq(Turns), NEW turn \in Turns
    PROVE  CallCount(Append(turns, turn)) = CallCount(turns) + Len(CallsIn(turn))
<1> DEFINE length == Len(turns)
           longer == Append(turns, turn)
<1>1. /\ length \in Nat
      /\ longer \in Seq(Turns) /\ Len(longer) = length + 1
      /\ longer[length + 1] = turn
      /\ \A i \in 1..length : longer[i] = turns[i]
  OBVIOUS
<1> HIDE DEF longer
<1>2. PICK f \in [0..length -> Nat] :
         /\ CallCount(turns) = f[length] /\ f[0] = 0
         /\ \A i \in 1..length : f[i] = f[i - 1] + Len(CallsIn(turns[i]))
  BY CountExists
<1>3. PICK g \in [0..length + 1 -> Nat] :
         /\ CallCount(longer) = g[length + 1] /\ g[0] = 0
         /\ \A i \in 1..length + 1 : g[i] = g[i - 1] + Len(CallsIn(longer[i]))
  <2>1. \E g \in [0..Len(longer) -> Nat] :
         /\ CallCount(longer) = g[Len(longer)] /\ g[0] = 0
         /\ \A i \in 1..Len(longer) : g[i] = g[i - 1] + Len(CallsIn(longer[i]))
    BY <1>1, CountExists
  <2> HIDE DEF length
  <2> QED
    BY <1>1, <2>1
<1> HIDE DEF length
<1> DEFINE T == {n \in 0..length : f[n] = g[n]}
<1>4. 0 \in T
  BY <1>1, <1>2, <1>3
<1>5. ASSUME NEW n \in 0..length, n \in T /\ n < length PROVE n + 1 \in T
  <2>1. n + 1 \in 1..length /\ n + 1 \in 1..length + 1 /\ (n + 1) - 1 = n
        /\ n + 1 \in 0..length
    BY <1>1, <1>5
  <2>2. f[n + 1] = f[n] + Len(CallsIn(turns[n + 1]))
    BY <1>2, <2>1
  <2>3. g[n + 1] = g[n] + Len(CallsIn(longer[n + 1]))
    BY <1>3, <2>1
  <2> QED
    BY <1>1, <1>5, <2>1, <2>2, <2>3
<1> HIDE DEF T
<1>6. 0..length \subseteq T
  BY <1>1, <1>4, <1>5, InductionUpTo
<1>7. f[length] = g[length]
  <2>1. length \in T
    BY <1>1, <1>6
  <2> QED
    BY <2>1 DEF T
<1>8. g[length + 1] = g[length] + Len(CallsIn(longer[length + 1]))
  <2>1. length + 1 \in 1..length + 1 /\ (length + 1) - 1 = length
    BY <1>1
  <2> QED
    BY <1>3, <2>1
<1> QED
  BY <1>1, <1>2, <1>3, <1>7, <1>8 DEF longer

(* The number of calls is a number, and none at first.                     *)
LEMMA CountType ==
    ASSUME NEW turns \in Seq(Turns)
    PROVE  CallCount(turns) \in Nat /\ (turns = <<>> => CallCount(turns) = 0)
<1>1. Len(turns) \in Nat /\ (turns = <<>> => Len(turns) = 0)
  OBVIOUS
<1>2. PICK count \in [0..Len(turns) -> Nat] :
         CallCount(turns) = count[Len(turns)] /\ count[0] = 0
  BY CountExists
<1> QED
  BY <1>1, <1>2

(* Earlier turns do not depend on a new one.                               *)
LEMMA EarlierTurns ==
    ASSUME NEW turns \in Seq(Turns), NEW turn \in Turns, NEW k \in 1..Len(turns) + 1
    PROVE  /\ SubSeq(Append(turns, turn), 1, k - 1) = SubSeq(turns, 1, k - 1)
           /\ SubSeq(turns, 1, k - 1) \in Seq(Turns)
<1>1. Len(turns) \in Nat /\ k - 1 \in 0..Len(turns) /\ Append(turns, turn) \in Seq(Turns)
  OBVIOUS
<1>2. /\ Len(Append(turns, turn)) = Len(turns) + 1
      /\ \A i \in 1..Len(turns) : Append(turns, turn)[i] = turns[i]
  OBVIOUS
<1>3. SubSeq(turns, 1, k - 1) = [i \in 1..k - 1 |-> turns[i]]
  BY <1>1
<1>4. SubSeq(Append(turns, turn), 1, k - 1) = [i \in 1..k - 1 |-> Append(turns, turn)[i]]
  BY <1>1, <1>2
<1>5. \A i \in 1..k - 1 : Append(turns, turn)[i] = turns[i]
  BY <1>1, <1>2
<1>6. SubSeq(turns, 1, k - 1) \in Seq(Turns)
  BY <1>1
<1> QED
  BY <1>3, <1>4, <1>5, <1>6

(* The calls before the last turn, and those in it.                        *)
LEMMA CountLast ==
    ASSUME NEW turns \in Seq(Turns), turns # <<>>
    PROVE  CallCount(turns)
             = CallCount(SubSeq(turns, 1, Len(turns) - 1)) + Len(CallsIn(turns[Len(turns)]))
<1> DEFINE front == SubSeq(turns, 1, Len(turns) - 1)
<1>1. front \in Seq(Turns) /\ turns[Len(turns)] \in Turns
  OBVIOUS
<1>2. turns = Append(front, turns[Len(turns)])
  OBVIOUS
<1> HIDE DEF front
<1>3. CallCount(Append(front, turns[Len(turns)])) = CallCount(front) + Len(CallsIn(turns[Len(turns)]))
  BY <1>1, CountAppend
<1> QED
  BY <1>2, <1>3 DEF front

-----------------------------------------------------------------------------
(* The agent has one request for each call, under a name of its own.       *)
LEMMA RequestsMatch ==
    ASSUME TypeOK, NEW parts \in Seq(Spoken)
    PROVE  /\ ToolRequests(parts) \in Seq([call_id : ToolCallId, name : Tool])
           /\ Len(ToolRequests(parts)) = Len(CallsOf(parts))
           /\ \A i \in DOMAIN CallsOf(parts) :
                  /\ ToolRequests(parts)[i].name = CallsOf(parts)[i].name
                  /\ ToolRequests(parts)[i].call_id
                       = IF CallsOf(parts)[i].id = NoId THEN Uuid(i) ELSE CallsOf(parts)[i].id
<1> DEFINE calls == CallsOf(parts)
           Requests == [call_id : ToolCallId, name : Tool]
<1>1. calls \in Seq(Call)
  BY CallsOfType
<1> HIDE DEF calls
<1>2. /\ Len(calls) \in Nat /\ DOMAIN calls = 1..Len(calls)
      /\ \A i \in DOMAIN calls : calls[i] \in Call
  BY <1>1
<1>3. \A i \in DOMAIN calls : calls[i].name \in Tool /\ calls[i].id \in CallId \cup {NoId}
  BY <1>2 DEF Call
<1>4. \A i \in DOMAIN calls : Uuid(i) \in ToolCallId
  BY <1>2 DEF Uuid, ToolCallId, TypeOK
<1> DEFINE request(i) == [call_id |-> IF calls[i].id = NoId THEN Uuid(i) ELSE calls[i].id,
                          name |-> calls[i].name]
<1>5. ToolRequests(parts) = [i \in 1..Len(calls) |-> request(i)]
  BY <1>2 DEF ToolRequests, calls
<1>6. \A i \in DOMAIN calls : request(i) \in Requests
  BY <1>3, <1>4 DEF ToolCallId
<1>7. \A i \in DOMAIN calls : /\ request(i).name = calls[i].name
         /\ request(i).call_id = IF calls[i].id = NoId THEN Uuid(i) ELSE calls[i].id
  OBVIOUS
<1> HIDE DEF request, Requests
<1>8. ToolRequests(parts) \in Seq(Requests) /\ Len(ToolRequests(parts)) = Len(calls)
  BY <1>2, <1>5, <1>6
<1>9. \A i \in DOMAIN calls : ToolRequests(parts)[i] = request(i)
  BY <1>2, <1>5
<1> QED
  BY <1>7, <1>8, <1>9 DEF calls, Requests

(* Two requests have different ids, made up or not.                        *)
LEMMA RequestsDistinct ==
    ASSUME TypeOK, NEW parts \in Seq(Spoken), Distinct(CallsOf(parts)),
           NEW i \in DOMAIN CallsOf(parts), NEW j \in DOMAIN CallsOf(parts), i # j
    PROVE  ToolRequests(parts)[i].call_id # ToolRequests(parts)[j].call_id
<1> DEFINE calls == CallsOf(parts)
<1>1. calls \in Seq(Call)
  BY CallsOfType
<1>2. calls[i].id \in CallId \cup {NoId} /\ calls[j].id \in CallId \cup {NoId}
      /\ i \in Nat /\ j \in Nat
  <2>1. calls[i] \in Call /\ calls[j] \in Call /\ i \in Nat /\ j \in Nat
    <3> HIDE DEF calls
    <3>1. DOMAIN calls = 1..Len(calls) /\ Len(calls) \in Nat
      BY <1>1
    <3>2. i \in 1..Len(calls) /\ j \in 1..Len(calls)
      BY <3>1 DEF calls
    <3> QED
      BY <1>1, <3>1, <3>2
  <2> QED
    BY <2>1 DEF Call
<1>3. Uuid(i) # Uuid(j) /\ Uuid(i) \notin CallId /\ Uuid(j) \notin CallId
  <2>1. Uuid(i) \in Nat \X Nat /\ Uuid(j) \in Nat \X Nat
    BY <1>2 DEF Uuid, TypeOK
  <2>2. Uuid(i)[2] = i /\ Uuid(j)[2] = j
    BY DEF Uuid
  <2> QED
    BY <2>1, <2>2, ConversationAssumption
<1>4. calls[i].id # NoId => calls[i].id # calls[j].id
  BY DEF Distinct
<1> QED
  BY <1>2, <1>3, <1>4, RequestsMatch

(* GeminiProvider finds the name of a call under the id of its request.    *)
LEMMA PendingName ==
    ASSUME TypeOK, NEW parts \in Seq(Spoken), Distinct(CallsOf(parts)),
           NEW i \in DOMAIN CallsOf(parts)
    PROVE  LET call_id == ToolRequests(parts)[i].call_id
           IN  /\ \E pending \in PendingCalls(parts) : pending[1] = call_id
               /\ (CHOOSE pending \in PendingCalls(parts) : pending[1] = call_id)[2]
                    = CallsOf(parts)[i].name
<1> DEFINE calls == CallsOf(parts)
           requests == ToolRequests(parts)
<1>1. /\ DOMAIN requests = DOMAIN calls
      /\ \A j \in DOMAIN calls : requests[j].name = calls[j].name
  BY RequestsMatch, CallsOfType
<1>2. PendingCalls(parts) = {<<requests[j].call_id, requests[j].name>> : j \in DOMAIN calls}
  BY <1>1 DEF PendingCalls, ToSet
<1>3. \A j \in DOMAIN calls : requests[j].call_id = requests[i].call_id => j = i
  BY RequestsDistinct
<1> DEFINE mine == <<requests[i].call_id, requests[i].name>>
<1> HIDE DEF requests, calls
<1>4. mine \in PendingCalls(parts) /\ mine[1] = requests[i].call_id
  BY <1>2 DEF calls
<1>5. \A pending \in PendingCalls(parts) :
         pending[1] = requests[i].call_id => pending = mine
  BY <1>2, <1>3
<1>6. (CHOOSE pending \in PendingCalls(parts) : pending[1] = requests[i].call_id) = mine
  <2> HIDE DEF mine
  <2> QED
    BY <1>4, <1>5
<1>7. mine[2] = calls[i].name
  BY <1>1 DEF calls
<1> QED
  BY <1>4, <1>6, <1>7 DEF requests, calls

-----------------------------------------------------------------------------
(* A model's turn is spoken.                                               *)
LEMMA ModelTurn ==
    ASSUME TypeOK, NEW i \in DOMAIN contents, contents[i].role = "model"
    PROVE  contents[i].parts \in Seq(Spoken)
<1>1. contents[i] \in Turns
  BY DEF TypeOK
<1> QED
  BY <1>1 DEF Turns

(* What is settled stays settled while the conversation goes on.           *)
LEMMA StillSettled ==
    ASSUME TypeOK, PastSettled, provider' = provider,
           \/ contents' = contents
           \/ \E turn \in Turns : contents' = Append(contents, turn),
           executed' = executed \/ \E name \in Tool : executed' = Append(executed, name)
    PROVE  \A i \in DOMAIN contents : i > 1 /\ i % 2 = 1 => Settled(i)'
<1> SUFFICES ASSUME NEW i \in DOMAIN contents, i > 1, i % 2 = 1
             PROVE  Settled(i)'
  OBVIOUS
<1>1. contents \in Seq(Turns) /\ Len(contents) \in Nat /\ i \in 1..Len(contents)
      /\ i - 1 \in 1..Len(contents)
  BY DEF TypeOK
<1>2. contents'[i] = contents[i] /\ contents'[i - 1] = contents[i - 1]
  BY <1>1
<1>3. CallsBefore(i - 1)' = CallsBefore(i - 1) /\ CallsBefore(i - 1) \in Nat
  <2>1. i - 1 \in 1..Len(contents) + 1
    BY <1>1
  <2>2. PICK turn : turn \in Turns /\ (contents' = contents \/ contents' = Append(contents, turn))
    BY <1>1
  <2>3. /\ SubSeq(Append(contents, turn), 1, (i - 1) - 1) = SubSeq(contents, 1, (i - 1) - 1)
        /\ SubSeq(contents, 1, (i - 1) - 1) \in Seq(Turns)
    BY <1>1, <2>1, <2>2, EarlierTurns
  <2>4. SubSeq(contents', 1, (i - 1) - 1) = SubSeq(contents, 1, (i - 1) - 1)
    BY <2>2, <2>3
  <2>5. CallsBefore(i - 1)' = CallCount(SubSeq(contents', 1, (i - 1) - 1))
    BY DEF CallsBefore
  <2> QED
    BY <2>3, <2>4, <2>5, CountType DEF CallsBefore
<1>4. Answered(i) /\ CallsBefore(i - 1) + Len(CallsOf(contents[i - 1].parts)) <= Len(executed)
  BY DEF PastSettled, Settled
<1>5. /\ Len(executed) \in Nat /\ Len(executed') \in Nat /\ Len(executed) <= Len(executed')
      /\ \A k \in 1..Len(executed) : executed'[k] = executed[k]
  BY DEF TypeOK
<1> DEFINE calls == CallsOf(contents[i - 1].parts)
           before == CallsBefore(i - 1)
<1>6. calls \in Seq(Call) /\ Len(calls) \in Nat /\ DOMAIN calls = 1..Len(calls)
  <2>1. calls \in Seq(Call)
    BY <1>1, <1>4, ModelTurn, CallsOfType DEF Answered
  <2> HIDE DEF calls
  <2> QED
    BY <2>1
<1>7. CallsOf(contents[i - 1].parts)' = calls
  BY <1>2
<1>8. ASSUME NEW n \in DOMAIN calls
      PROVE  Matches(contents[i].parts[n], calls[n], before + n)'
  <2>1. Matches(contents[i].parts[n], calls[n], before + n)
    BY <1>4 DEF Answered
  <2> HIDE DEF calls, before
  <2>2. before + n \in 1..Len(executed)
    BY <1>3, <1>4, <1>5, <1>6 DEF calls, before
  <2>3. executed'[before + n] = executed[before + n]
    BY <1>5, <2>2
  <2>4. contents[i].parts' = contents[i].parts /\ calls' = calls /\ before' = before
    BY <1>2, <1>3, <1>7 DEF calls, before
  <2> QED
    BY <2>1, <2>3, <2>4 DEF Matches
<1>9. Answered(i)'
  <2>1. /\ contents'[i - 1].role = "model" /\ contents'[i].role = "user"
        /\ Len(contents'[i].parts) = Len(CallsOf(contents'[i - 1].parts))
    BY <1>2, <1>4 DEF Answered
  <2>2. \A n \in DOMAIN CallsOf(contents'[i - 1].parts) :
           Matches(contents[i].parts[n], calls[n], before + n)'
    BY <1>7, <1>8
  <2> QED
    BY <2>1, <2>2 DEF Answered
<1>10. (CallsBefore(i - 1) + Len(CallsOf(contents[i - 1].parts)) <= Len(executed))'
  <2> HIDE DEF calls, before
  <2> QED
    BY <1>3, <1>4, <1>5, <1>6, <1>7 DEF calls, before
<1> QED
  BY <1>9, <1>10 DEF Settled

-----------------------------------------------------------------------------
(* A question, and nothing done yet.                                       *)
LEMMA Initially == Init => IInv
<1> SUFFICES ASSUME Init PROVE IInv
  OBVIOUS
<1> DEFINE question == Turn("user", <<TextPart>>)
<1>1. question \in Turns /\ question.role = "user"
  BY DEF Turn, Turns, Told
<1>2. contents = <<question>> /\ contents = Append(<<>>, question) /\ <<>> \in Seq(Turns)
  BY DEF Init
<1>3. CallCount(contents) = 0
  <2>1. CallCount(contents) = CallCount(<<>>) + Len(CallsIn(question))
    BY <1>1, <1>2, CountAppend
  <2>2. CallsIn(question) = <<>>
    BY <1>1 DEF CallsIn
  <2>3. CallCount(<<>>) = 0
    BY <1>2, CountType
  <2>4. Len(CallsIn(question)) = 0
    BY <2>2
  <2> QED
    BY <2>1, <2>3, <2>4
<1> HIDE DEF question
<1>4. TypeOK
  BY <1>1, <1>2, ConversationAssumption DEF Init, TypeOK, NoResponse
<1>5. Alternating /\ PastSettled
  BY <1>1, <1>2 DEF Alternating, PastSettled
<1>6. Asking
  BY <1>2, <1>3 DEF Init, Asking
<1> QED
  BY <1>4, <1>5, <1>6 DEF Init, IInv

(* The agent, and failures, leave the conversation alone.                  *)
LEMMA Leaving ==
    ASSUME IInv, pc' # "asking", pc' # "unknown call",
           pc' = "looping" /\ response'.tool_requests # <<>> => pc = "looping" /\ response' = response,
           response'.tool_requests \in Seq([call_id : ToolCallId, name : Tool]),
           UNCHANGED <<provider, contents, tool_results, round, executed>>
    PROVE  IInv'
<1>1. TypeOK' /\ Alternating' /\ Asking'
  BY DEF IInv, TypeOK, Alternating, Asking
<1>2. PastSettled'
  BY StillSettled DEF IInv, PastSettled
<1>3. pc' = "looping" /\ response'.tool_requests # <<>> => Executing'
  <2> SUFFICES ASSUME pc' = "looping", response'.tool_requests # <<>> PROVE Executing'
    OBVIOUS
  <2>1. response' = response /\ Executing
    BY DEF IInv
  <2>2. Said' = Said /\ Before' = Before
    BY DEF Said, Before, CallsBefore
  <2>3. ToolRequests(Said)' = ToolRequests(Said) /\ PendingCalls(Said)' = PendingCalls(Said)
    BY <2>2 DEF ToolRequests, PendingCalls, Uuid
  <2>4. Distinct(CallsOf(Said))' <=> Distinct(CallsOf(Said))
    BY <2>2 DEF Distinct
  <2> QED
    BY <2>1, <2>2, <2>3, <2>4 DEF Executing
<1> QED
  BY <1>1, <1>2, <1>3 DEF IInv

(* The model speaks.                                                       *)
LEMMA Responding ==
    ASSUME IInv, NEW parts \in Responses, Respond(parts)
    PROVE  IInv'
<1>1. parts \in Seq(Spoken)
  BY ConversationAssumption DEF Responses, Spoken
<1> DEFINE json == \A call \in ToSet(CallsOf(parts)) : call.json
<1>2. CASE ~json
  BY <1>2, Leaving DEF Respond, IInv, TypeOK
<1>3. CASE json
  <2> DEFINE turn == Turn("model", parts)
  <2>1. /\ pc = "asking" /\ Sayable(parts) /\ pc' = "looping"
        /\ response' = Converted(parts) /\ contents' = Append(contents, turn)
        /\ UNCHANGED <<provider, tool_results, round, executed>>
    BY <1>3 DEF Respond
  <2>2. turn \in Turns /\ turn.role = "model" /\ turn.parts = parts
    BY <1>1 DEF Turn, Turns
  <2> HIDE DEF turn
  <2>3. /\ contents \in Seq(Turns) /\ Len(contents) \in Nat /\ Len(contents) % 2 = 1
        /\ tool_results = <<>> /\ Len(executed) = CallCount(contents)
    BY <2>1 DEF IInv, TypeOK, Asking
  <2>4. /\ contents' \in Seq(Turns) /\ Len(contents') = Len(contents) + 1
        /\ contents'[Len(contents) + 1] = turn
        /\ \A i \in 1..Len(contents) : contents'[i] = contents[i]
        /\ Len(contents') % 2 = 0
    BY <2>1, <2>2, <2>3
  <2>5. /\ response'.tool_requests = ToolRequests(parts)
        /\ provider = "gemini" => response'.pending_calls = PendingCalls(parts)
    BY <2>1 DEF Converted
  <2>6. TypeOK'
    <3>1. ToolRequests(parts) \in Seq([call_id : ToolCallId, name : Tool])
      BY <1>1, RequestsMatch DEF IInv
    <3> QED
      BY <2>1, <2>4, <2>5, <3>1 DEF IInv, TypeOK
  <2>7. Alternating'
    <3> SUFFICES ASSUME NEW i \in 1..Len(contents) + 1
                 PROVE  contents'[i].role = IF i % 2 = 1 THEN "user" ELSE "model"
      BY <2>4 DEF Alternating
    <3>1. CASE i = Len(contents) + 1
      BY <3>1, <2>2, <2>4
    <3>2. CASE i # Len(contents) + 1
      <4>1. i \in DOMAIN contents /\ i \in 1..Len(contents)
        BY <3>2, <2>3
      <4>2. contents[i].role = IF i % 2 = 1 THEN "user" ELSE "model"
        BY <4>1 DEF IInv, Alternating
      <4> QED
        BY <4>1, <4>2, <2>4
    <3> QED
      BY <3>1, <3>2
  <2>8. PastSettled'
    <3>1. \A i \in DOMAIN contents : i > 1 /\ i % 2 = 1 => Settled(i)'
      BY <2>1, <2>2, StillSettled DEF IInv
    <3>2. \A i \in DOMAIN contents' : i % 2 = 1 => i \in DOMAIN contents
      BY <2>3, <2>4
    <3> QED
      BY <3>1, <3>2 DEF PastSettled
  <2>9. Executing'
    <3>1. Said' = parts
      BY <2>2, <2>4 DEF Said
    <3>2. Before' = CallCount(contents)
      <4>1. SubSeq(contents', 1, Len(contents')  - 1) = contents
        <5>1. Len(contents) + 1 \in 1..Len(contents) + 1
          BY <2>3
        <5>2. SubSeq(Append(contents, turn), 1, (Len(contents) + 1) - 1)
                = SubSeq(contents, 1, (Len(contents) + 1) - 1)
          BY <2>2, <2>3, <5>1, EarlierTurns
        <5>3. (Len(contents) + 1) - 1 = Len(contents)
          BY <2>3
        <5> QED
          BY <2>1, <2>3, <2>4, <5>2, <5>3
      <4> QED
        BY <4>1 DEF Before, CallsBefore
    <3>3. Distinct(CallsOf(parts))'
      BY <2>1 DEF Sayable, Distinct
    <3>4. ToolRequests(parts)' = ToolRequests(parts) /\ PendingCalls(parts)' = PendingCalls(parts)
      BY <2>1 DEF ToolRequests, PendingCalls, Uuid
    <3>5. Len(CallsOf(parts)) \in Nat /\ CallCount(contents) \in Nat
      BY <1>1, <2>3, CallsOfType, CountType
    <3>6. /\ Len(tool_results') <= Len(CallsOf(Said'))
          /\ Len(executed') = Before' + Len(tool_results')
          /\ DOMAIN tool_results' = {}
      BY <2>1, <2>3, <3>1, <3>2, <3>5
    <3>7. Len(contents') % 2 = 0 /\ contents' # <<>>
      BY <2>3, <2>4
    <3>8. /\ Distinct(CallsOf(Said))'
          /\ response'.tool_requests = ToolRequests(Said)'
          /\ provider' = "gemini" => response'.pending_calls = PendingCalls(Said)'
      <4>1. ToolRequests(Said)' = ToolRequests(parts)' /\ PendingCalls(Said)' = PendingCalls(parts)'
        BY <3>1 DEF ToolRequests, PendingCalls, Uuid
      <4> QED
        BY <2>1, <2>5, <3>1, <3>3, <3>4, <4>1 DEF Distinct
    <3> QED
      BY <3>6, <3>7, <3>8 DEF Executing
  <2> QED
    BY <2>1, <2>6, <2>7, <2>8, <2>9 DEF IInv, Asking
<1> QED
  BY <1>2, <1>3

(* What is known while the tools of a round are executed.                  *)
LEMMA WhileExecuting ==
    ASSUME IInv, Looping, response.tool_requests # <<>>
    PROVE  LET calls == CallsOf(Said)
           IN  /\ Executing
               /\ Len(contents) \in 1..Len(contents) /\ contents[Len(contents)].role = "model"
               /\ Said \in Seq(Spoken) /\ calls \in Seq(Call) /\ Len(calls) \in Nat
               /\ Len(response.tool_requests) = Len(calls)
               /\ Before \in Nat
               /\ CallCount(contents) = Before + Len(calls)
<1>1. Executing /\ TypeOK /\ Alternating
  BY DEF IInv, Looping
<1>2. /\ contents \in Seq(Turns) /\ contents # <<>> /\ Len(contents) % 2 = 0
      /\ Len(contents) \in 1..Len(contents)
  BY <1>1 DEF TypeOK, Executing
<1>3. contents[Len(contents)].role = "model"
  BY <1>1, <1>2 DEF Alternating
<1>4. Said \in Seq(Spoken)
  BY <1>1, <1>2, <1>3, ModelTurn DEF Said
<1>5. CallsOf(Said) \in Seq(Call)
  BY <1>4, CallsOfType
<1>6. Len(response.tool_requests) = Len(CallsOf(Said))
  BY <1>1, <1>4, RequestsMatch DEF Executing
<1>7. Before \in Nat
  <2>1. SubSeq(contents, 1, Len(contents) - 1) \in Seq(Turns)
    BY <1>2
  <2> QED
    BY <2>1, CountType DEF Before, CallsBefore
<1>8. CallCount(contents) = Before + Len(CallsOf(Said))
  BY <1>2, <1>3, CountLast DEF Before, CallsBefore, Said, CallsIn
<1> QED
  BY <1>1, <1>2, <1>3, <1>4, <1>5, <1>6, <1>7, <1>8

(* The next tool.                                                          *)
LEMMA ExecutingTool ==
    ASSUME IInv, ExecuteTool
    PROVE  IInv'
<1> DEFINE calls == CallsOf(Said)
           requests == ToolRequests(Said)
           n == Len(tool_results) + 1
<1>1. TypeOK /\ Looping /\ Len(tool_results) < Len(response.tool_requests)
  BY DEF IInv, ExecuteTool, Unexecuted
<1>2. Len(tool_results) \in Nat /\ Len(executed) \in Nat /\ response.tool_requests # <<>>
  BY <1>1 DEF TypeOK
<1>3. /\ Executing /\ Said \in Seq(Spoken) /\ calls \in Seq(Call) /\ Len(calls) \in Nat
      /\ Len(response.tool_requests) = Len(calls) /\ Before \in Nat
  BY <1>1, <1>2, WhileExecuting
<1>4. /\ executed' = Append(executed, requests[n].name)
      /\ tool_results' = Append(tool_results,
                            [call_id |-> requests[n].call_id, result |-> Len(executed) + 1])
      /\ UNCHANGED <<provider, pc, contents, response, round>>
  BY <1>3 DEF ExecuteTool, Executing
<1>5. n \in 1..Len(calls) /\ DOMAIN calls = 1..Len(calls)
  BY <1>1, <1>2, <1>3
<1>6. /\ requests \in Seq([call_id : ToolCallId, name : Tool])
      /\ Len(requests) = Len(calls) /\ requests[n].name = calls[n].name
  BY <1>1, <1>3, <1>5, RequestsMatch
<1> HIDE DEF calls, requests
<1>7. requests[n].name \in Tool /\ requests[n].call_id \in ToolCallId
  <2>1. requests[n] \in [call_id : ToolCallId, name : Tool]
    <3>1. n \in 1..Len(requests)
      BY <1>5, <1>6
    <3>2. requests \in Seq([call_id : ToolCallId, name : Tool])
      BY <1>6
    <3> HIDE DEF n
    <3> QED
      BY <3>1, <3>2, ElementOfSeq
  <2> QED
    BY <2>1
<1>8. TypeOK'
  <2>1. executed' \in Seq(Tool)
    BY <1>1, <1>4, <1>7 DEF TypeOK
  <2>2. [call_id |-> requests[n].call_id, result |-> Len(executed) + 1]
          \in [call_id : ToolCallId, result : Nat]
    BY <1>2, <1>7
  <2>3. tool_results' \in Seq([call_id : ToolCallId, result : Nat])
    BY <1>1, <1>4, <2>2 DEF TypeOK
  <2> QED
    BY <1>1, <1>4, <2>1, <2>3 DEF TypeOK
<1>9. Alternating' /\ Asking' /\ pc' # "unknown call" /\ pc' = "looping"
  BY <1>1, <1>4 DEF IInv, Alternating, Asking, Looping
<1>10. PastSettled'
  <2>1. executed' = executed \/ \E name \in Tool : executed' = Append(executed, name)
    BY <1>4, <1>7
  <2>2. \A i \in DOMAIN contents : i > 1 /\ i % 2 = 1 => Settled(i)'
    BY <1>4, <2>1, StillSettled DEF IInv
  <2> QED
    BY <1>4, <2>2 DEF PastSettled
<1>11. Executing'
  <2>1. Said' = Said /\ Before' = Before
    BY <1>4 DEF Said, Before, CallsBefore
  <2>2. ToolRequests(Said)' = ToolRequests(Said) /\ PendingCalls(Said)' = PendingCalls(Said)
    BY <1>4, <2>1 DEF ToolRequests, PendingCalls, Uuid
  <2>3. Distinct(CallsOf(Said))' <=> Distinct(CallsOf(Said))
    BY <1>4, <2>1 DEF Distinct
  <2>4. /\ Len(tool_results) <= Len(calls) /\ Len(executed) = Before + Len(tool_results)
        /\ \A k \in DOMAIN tool_results :
               /\ tool_results[k].call_id = requests[k].call_id
               /\ tool_results[k].result = Before + k
               /\ executed[Before + k] = calls[k].name
    BY <1>3 DEF Executing, calls, requests
  <2>5. /\ Len(tool_results') = n /\ Len(executed') = Before + n
        /\ DOMAIN tool_results' = 1..n /\ DOMAIN tool_results = 1..Len(tool_results)
    BY <1>1, <1>2, <1>3, <1>4, <2>4 DEF TypeOK
  <2>6. ASSUME NEW k \in 1..n
        PROVE  /\ tool_results'[k].call_id = requests[k].call_id
               /\ tool_results'[k].result = Before + k
               /\ executed'[Before + k] = calls[k].name
    <3>1. CASE k = n
      <4>1. tool_results'[k] = [call_id |-> requests[n].call_id, result |-> Len(executed) + 1]
        BY <1>1, <1>4, <3>1 DEF TypeOK
      <4>2. Before + k = Len(executed) + 1
        BY <1>2, <1>3, <2>4, <3>1
      <4>3. executed'[Len(executed) + 1] = requests[n].name
        BY <1>1, <1>4 DEF TypeOK
      <4> QED
        BY <1>6, <3>1, <4>1, <4>2, <4>3
    <3>2. CASE k # n
      <4>1. k \in 1..Len(tool_results) /\ Before + k \in 1..Len(executed)
        BY <1>2, <1>3, <2>4, <3>2
      <4>2. tool_results'[k] = tool_results[k]
        BY <1>1, <1>4, <4>1 DEF TypeOK
      <4>3. executed'[Before + k] = executed[Before + k]
        BY <1>1, <1>4, <4>1 DEF TypeOK
      <4> QED
        BY <2>4, <2>5, <4>1, <4>2, <4>3
    <3> QED
      BY <3>1, <3>2
  <2>7. Len(tool_results') <= Len(calls)
    BY <1>5, <2>5
  <2> QED
    BY <1>3, <1>4, <2>1, <2>2, <2>3, <2>5, <2>6, <2>7 DEF Executing, calls, requests
<1> QED
  BY <1>8, <1>9, <1>10, <1>11 DEF IInv

(* The answers that either provider makes of the results of a round.       *)
LEMMA AnswersMatch ==
    ASSUME IInv, ContinueWithToolResults
    PROVE  LET calls == CallsOf(Said)
           IN  /\ \A i \in DOMAIN tool_results : Known(tool_results[i].call_id)
               /\ Len(tool_results) = Len(calls)
               /\ Answers \in Seq(Told) /\ Len(Answers) = Len(calls)
               /\ \A n \in DOMAIN calls : Matches(Answers[n], calls[n], Before + n)
<1> DEFINE calls == CallsOf(Said)
           requests == ToolRequests(Said)
           name(call_id) ==
               (CHOOSE pending \in response.pending_calls : pending[1] = call_id)[2]
<1>1. TypeOK /\ Looping /\ response.tool_requests # <<>> /\ ~Unexecuted
  BY DEF IInv, ContinueWithToolResults
<1>2. /\ Executing /\ Said \in Seq(Spoken) /\ calls \in Seq(Call) /\ Len(calls) \in Nat
      /\ Len(response.tool_requests) = Len(calls) /\ Before \in Nat
  BY <1>1, WhileExecuting
<1>3. /\ Len(tool_results) = Len(calls)
      /\ DOMAIN tool_results = 1..Len(calls) /\ DOMAIN calls = 1..Len(calls)
  <2> HIDE DEF calls
  <2>1. Len(tool_results) <= Len(calls) /\ Len(tool_results) >= Len(calls)
    BY <1>1, <1>2 DEF Executing, Unexecuted, TypeOK, calls
  <2> QED
    BY <1>1, <1>2, <2>1 DEF TypeOK
<1>4. ASSUME NEW n \in 1..Len(calls)
      PROVE  /\ tool_results[n].call_id = requests[n].call_id
             /\ tool_results[n].result = Before + n
             /\ executed[Before + n] = calls[n].name
  BY <1>2, <1>3, <1>4 DEF Executing
<1>5. ASSUME NEW n \in 1..Len(calls)
      PROVE  /\ calls[n].id \in CallId \cup {NoId} /\ calls[n].name \in Tool
             /\ provider = "openai" => calls[n].id # NoId
             /\ requests[n].call_id = IF calls[n].id = NoId THEN Uuid(n) ELSE calls[n].id
  <2>1. calls[n].id \in CallId \cup {NoId} /\ calls[n].name \in Tool
    <3>1. calls[n] \in Call
      <4> HIDE DEF calls
      <4> QED
        BY <1>2, <1>5
    <3> QED
      BY <3>1 DEF Call
  <2>2. provider = "openai" => calls[n].id # NoId
    BY <1>2, <1>3, <1>5 DEF Executing, Distinct
  <2>3. requests[n].call_id = IF calls[n].id = NoId THEN Uuid(n) ELSE calls[n].id
    BY <1>1, <1>2, <1>3, <1>5, RequestsMatch
  <2> QED
    BY <2>1, <2>2, <2>3
<1>6. ASSUME provider = "gemini", NEW n \in 1..Len(calls)
      PROVE  /\ \E pending \in response.pending_calls : pending[1] = requests[n].call_id
             /\ name(requests[n].call_id) = calls[n].name
  <2>1. response.pending_calls = PendingCalls(Said) /\ Distinct(calls)
    BY <1>2, <1>6 DEF Executing
  <2> QED
    BY <1>1, <1>2, <1>3, <1>6, <2>1, PendingName
<1>7. \A i \in DOMAIN tool_results : Known(tool_results[i].call_id)
  BY <1>3, <1>4, <1>6 DEF Known
<1> DEFINE answer(n) == Answer(IF provider = "openai" THEN tool_results[n].call_id
                               ELSE name(tool_results[n].call_id), tool_results[n].result)
<1>8. Answers = [n \in 1..Len(calls) |-> answer(n)]
  BY <1>3 DEF Answers
<1>9. ASSUME NEW n \in 1..Len(calls)
      PROVE  answer(n) = Answer(IF provider = "openai" THEN calls[n].id ELSE calls[n].name,
                                Before + n)
  <2>1. provider \in {"openai", "gemini"}
    BY <1>1 DEF TypeOK
  <2>2. tool_results[n].result = Before + n /\ tool_results[n].call_id = requests[n].call_id
    BY <1>4, <1>9
  <2>3. CASE provider = "openai"
    BY <1>5, <1>9, <2>2, <2>3
  <2>4. CASE provider = "gemini"
    BY <1>6, <1>9, <2>2, <2>4
  <2> QED
    BY <2>1, <2>3, <2>4
<1>10. ASSUME NEW n \in 1..Len(calls)
       PROVE  answer(n) \in Told /\ Matches(answer(n), calls[n], Before + n)
  <2>1. Before + n \in Nat
    BY <1>2, <1>10
  <2>2. (IF provider = "openai" THEN calls[n].id ELSE calls[n].name) \in CallId \cup Tool
    BY <1>5, <1>10
  <2>3. answer(n) \in Told
    BY <1>9, <1>10, <2>1, <2>2 DEF Answer, Told
  <2>4. Matches(answer(n), calls[n], Before + n)
    BY <1>4, <1>9, <1>10 DEF Answer, Matches
  <2> QED
    BY <2>3, <2>4
<1> HIDE DEF answer, calls, requests, name
<1>11. Answers \in Seq(Told) /\ Len(Answers) = Len(calls)
  BY <1>2, <1>8, <1>10
<1>12. \A n \in 1..Len(calls) : Answers[n] = answer(n)
  BY <1>8
<1> QED
  BY <1>3, <1>7, <1>10, <1>11, <1>12 DEF calls

(* The next request.                                                       *)
LEMMA Continuing ==
    ASSUME IInv, ContinueWithToolResults
    PROVE  IInv'
<1> DEFINE calls == CallsOf(Said)
           turn == Turn("user", Answers)
<1>0. PICK last : last = Len(contents)
  OBVIOUS
<1>1. TypeOK /\ Looping /\ response.tool_requests # <<>>
  BY DEF IInv, ContinueWithToolResults
<1>2. /\ Executing /\ Said \in Seq(Spoken) /\ calls \in Seq(Call) /\ Len(calls) \in Nat
      /\ Before \in Nat /\ last \in 1..last /\ contents[last].role = "model"
      /\ CallCount(contents) = Before + Len(calls)
  BY <1>0, <1>1, WhileExecuting
<1>3. /\ \A i \in DOMAIN tool_results : Known(tool_results[i].call_id)
      /\ Len(tool_results) = Len(calls)
      /\ Answers \in Seq(Told) /\ Len(Answers) = Len(calls)
      /\ \A n \in DOMAIN calls : Matches(Answers[n], calls[n], Before + n)
  BY AnswersMatch
<1>4. /\ contents' = Append(contents, turn) /\ pc' = "asking"
      /\ tool_results' = <<>> /\ round' = round + 1
      /\ UNCHANGED <<provider, response, executed>>
  BY <1>3 DEF ContinueWithToolResults
<1>5. turn \in Turns /\ turn.role = "user" /\ turn.parts = Answers
  BY <1>3 DEF Turn, Turns
<1> HIDE DEF turn
<1>6. /\ contents \in Seq(Turns) /\ last \in Nat /\ last % 2 = 0 /\ last > 0
      /\ Len(executed) = Before + Len(calls)
  BY <1>0, <1>1, <1>2, <1>3 DEF TypeOK, Executing
<1> HIDE DEF calls
<1>7. /\ contents' \in Seq(Turns) /\ Len(contents') = last + 1
      /\ contents'[last + 1] = turn /\ (last + 1) % 2 = 1
      /\ \A i \in 1..last : contents'[i] = contents[i]
  BY <1>0, <1>4, <1>5, <1>6
<1>8. TypeOK'
  BY <1>1, <1>4, <1>7 DEF TypeOK
<1>9. Alternating'
  <2> SUFFICES ASSUME NEW i \in 1..last + 1
               PROVE  contents'[i].role = IF i % 2 = 1 THEN "user" ELSE "model"
    BY <1>7 DEF Alternating
  <2>1. CASE i = last + 1
    BY <2>1, <1>5, <1>7
  <2>2. CASE i # last + 1
    <3>1. i \in DOMAIN contents /\ i \in 1..last
      BY <2>2, <1>0, <1>6
    <3>2. contents[i].role = IF i % 2 = 1 THEN "user" ELSE "model"
      BY <3>1 DEF IInv, Alternating
    <3> QED
      BY <3>1, <3>2, <1>7
  <2> QED
    BY <2>1, <2>2
<1>10. Asking'
  <2>1. CallCount(contents') = CallCount(contents) + Len(CallsIn(turn))
    BY <1>4, <1>5, <1>6, CountAppend
  <2>2. Len(CallsIn(turn)) = 0
    BY <1>5 DEF CallsIn
  <2>3. CallCount(contents') = Len(executed')
    BY <1>2, <1>4, <1>6, <2>1, <2>2
  <2> QED
    BY <1>4, <1>7, <2>3 DEF Asking
<1>11. Settled(last + 1)'
  <2>1. contents'[last] = contents[last] /\ (last + 1) - 1 = last
    BY <1>2, <1>6, <1>7
  <2>2. CallsOf(contents'[last].parts) = calls
    BY <1>0, <2>1 DEF calls, Said
  <2>3. CallsBefore(last)' = Before
    <3>1. SubSeq(contents', 1, last - 1) = SubSeq(contents, 1, last - 1)
      <4>1. last \in 1..Len(contents) + 1
        BY <1>0, <1>6
      <4> QED
        BY <1>4, <1>5, <1>6, <4>1, EarlierTurns
    <3> QED
      BY <1>0, <3>1 DEF Before, CallsBefore
  <2>4. ASSUME NEW n \in DOMAIN calls
        PROVE  /\ Answers[n].result = Before + n
               /\ executed'[Before + n] = calls[n].name
               /\ Answers[n].to = IF provider' = "openai" THEN calls[n].id ELSE calls[n].name
    BY <1>3, <1>4, <2>4 DEF Matches
  <2>5. /\ contents'[last].role = "model" /\ contents'[last + 1].role = "user"
        /\ contents'[last + 1].parts = Answers
    BY <1>2, <1>5, <1>7, <2>1
  <2>6. Answered(last + 1)'
    <3> SUFFICES /\ contents'[(last + 1) - 1].role = "model"
                 /\ contents'[last + 1].role = "user"
                 /\ Len(contents'[last + 1].parts) = Len(CallsOf(contents'[(last + 1) - 1].parts))
                 /\ \A n \in DOMAIN CallsOf(contents'[(last + 1) - 1].parts) :
                        /\ contents'[last + 1].parts[n].result = CallsBefore(last)' + n
                        /\ executed'[CallsBefore(last)' + n]
                             = CallsOf(contents'[(last + 1) - 1].parts)[n].name
                        /\ contents'[last + 1].parts[n].to
                             = IF provider' = "openai"
                                 THEN CallsOf(contents'[(last + 1) - 1].parts)[n].id
                                 ELSE CallsOf(contents'[(last + 1) - 1].parts)[n].name
      BY <2>1 DEF Answered, Matches
    <3> QED
      BY <1>3, <2>1, <2>2, <2>3, <2>4, <2>5
  <2>7. CallsBefore(last)' + Len(CallsOf(contents'[last].parts)) <= Len(executed')
    BY <1>2, <1>4, <1>6, <2>2, <2>3
  <2> QED
    BY <2>1, <2>6, <2>7 DEF Settled
<1>12. PastSettled'
  <2>1. \A i \in DOMAIN contents : i > 1 /\ i % 2 = 1 => Settled(i)'
    BY <1>4, <1>5, StillSettled DEF IInv
  <2>2. \A i \in DOMAIN contents' : i \in DOMAIN contents \/ i = last + 1
    BY <1>0, <1>6, <1>7
  <2> QED
    BY <1>11, <2>1, <2>2 DEF PastSettled
<1> QED
  BY <1>4, <1>8, <1>9, <1>10, <1>12 DEF IInv

-----------------------------------------------------------------------------
(* Every step of the agent, the provider and the API keeps the invariant.  *)
LEMMA Inductive == IInv /\ [Next]_vars => IInv'
<1> SUFFICES ASSUME IInv, [Next]_vars PROVE IInv'
  OBVIOUS
<1>1. ASSUME NEW parts \in Responses, Respond(parts) PROVE IInv'
  BY <1>1, Responding
<1>2. CASE RespondNothing
  <2>1. response'.tool_requests = <<>>
    BY <1>2 DEF RespondNothing, NoResponse
  <2> QED
    BY <1>2, <2>1, Leaving DEF RespondNothing
<1>3. CASE RequestFails \/ TakeReport \/ ExceedRounds \/ ToolRaises
  <2>1. /\ pc' \in {"raised", "reported"}
        /\ UNCHANGED <<provider, contents, response, tool_results, round, executed>>
    BY <1>3 DEF RequestFails, TakeReport, ExceedRounds, ToolRaises
  <2> QED
    BY <2>1, Leaving DEF IInv, TypeOK
<1>4. CASE ExecuteTool
  BY <1>4, ExecutingTool
<1>5. CASE ContinueWithToolResults
  BY <1>5, Continuing
<1>6. CASE UNCHANGED vars
  <2>2. PastSettled'
    BY <1>6, StillSettled DEF vars, IInv, PastSettled
  <2>3. TypeOK' /\ Alternating' /\ Asking'
    BY <1>6 DEF vars, IInv, TypeOK, Alternating, Asking
  <2>4. Executing' <=> Executing
    <3>1. Said' = Said /\ Before' = Before
      BY <1>6 DEF vars, Said, Before, CallsBefore
    <3>2. ToolRequests(Said)' = ToolRequests(Said) /\ PendingCalls(Said)' = PendingCalls(Said)
      BY <1>6, <3>1 DEF vars, ToolRequests, PendingCalls, Uuid
    <3>3. Distinct(CallsOf(Said))' <=> Distinct(CallsOf(Said))
      BY <1>6, <3>1 DEF vars, Distinct
    <3> QED
      BY <1>6, <3>1, <3>2, <3>3 DEF vars, Executing
  <2> QED
    BY <1>6, <2>2, <2>3, <2>4 DEF vars, IInv
<1> QED
  BY <1>1, <1>2, <1>3, <1>4, <1>5, <1>6 DEF Next

(* In every reachable state the past rounds are settled, and what the      *)
(* agent has executed in this one are its first calls, in their order.     *)
THEOREM Invariance == Spec => []IInv
  BY Initially, Inductive, PTL DEF Spec

(* Whenever a request is sent to an API, every call of the model's has     *)
(* been answered in the next turn, in order, with the result of its own    *)
(* execution, under the id or the name that the API knows it by; and the   *)
(* provider knows every id that the agent has.  For any number of parallel *)
(* calls, of one tool or of several, with ids or without.                  *)
THEOREM CallsAreAnswered == Spec => []CallsAnswered
<1>1. IInv => CallsAnswered
  BY DEF IInv, CallsAnswered, Asking, PastSettled, Settled
<1> QED
  BY <1>1, Invariance, PTL

================================================================================

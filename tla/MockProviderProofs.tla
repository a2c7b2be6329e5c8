--------------------------- MODULE MockProviderProofs ---------------------------
(***************************************************************************)
(* Proofs about the tools of module AgentTools, the searches for ids of    *)
(* module EventIds and the demonstration of module MockProvider: for any   *)
(* table, any LIMIT, and any nesting of JSON values.                       *)
(***************************************************************************)
EXTENDS MockProvider, SequenceTheorems, FiniteSetTheorems, TLAPS

-----------------------------------------------------------------------------
(* Induction over the natural numbers, as a fact about sets.  Otherwise    *)
(* the successor would map a finite set one to one into a part of itself.  *)
LEMMA Induction ==
    ASSUME NEW S, 0 \in S, \A n \in Nat : n \in S => n + 1 \in S
    PROVE  Nat \subseteq S
<1> SUFFICES ASSUME NEW n \in Nat, n \notin S PROVE FALSE
  OBVIOUS
<1> DEFINE T == {m \in 0..n : m \in S}
           successor == [m \in T |-> m + 1]
<1>1. IsFiniteSet(T)
  <2>1. IsFiniteSet(0..n)
    BY FS_Interval
  <2> QED
    BY <2>1, FS_Subset
<1>2. 0 \in T
  OBVIOUS
<1>3. /\ IsFiniteSet(T \ {0})
      /\ Cardinality(T \ {0}) = Cardinality(T) - 1
  BY <1>1, <1>2, FS_RemoveElement
<1>4. Cardinality(T) \in Nat /\ Cardinality(T \ {0}) \in Nat
  BY <1>1, <1>3, FS_CardinalityType
<1>5. successor \in [T -> T \ {0}]
  <2>1. ASSUME NEW m \in T PROVE m + 1 \in T \ {0}
    <3>1. m \in 0..n /\ m \in S /\ m # n
      OBVIOUS
    <3> QED
      BY <3>1
  <2> QED
    BY <2>1
<1>6. \A l, m \in T : successor[l] = successor[m] => l = m
  OBVIOUS
<1> HIDE DEF T, successor
<1>7. Cardinality(T) > Cardinality(T \ {0})
  BY <1>3, <1>4
<1> QED
  BY <1>1, <1>3, <1>5, <1>6, <1>7, FS_PigeonHole

(* Up to a bound.                                                          *)
LEMMA InductionUpTo ==
    ASSUME NEW length \in Nat, NEW S, 0 \in S,
           \A n \in 0..length : n \in S /\ n < length => n + 1 \in S
    PROVE  0..length \subseteq S
<1> DEFINE T == {n \in Nat : n <= length => n \in S}
<1>1. 0 \in T
  OBVIOUS
<1>2. ASSUME NEW n \in Nat, n \in T PROVE n + 1 \in T
  BY <1>2
<1> HIDE DEF T
<1>3. Nat \subseteq T
  BY <1>1, <1>2, Induction
<1> QED
  BY <1>3 DEF T

(* f is defined by recursion from its first value.                         *)
Iterates(f, n, start, step) ==
    \A i \in 0..n : f[i] = IF i = 0 THEN start ELSE step[i][f[i - 1]]

(* There is such a function.                                               *)
LEMMA Iterate ==
    ASSUME NEW S, NEW length \in Nat, NEW start \in S, NEW step \in [1..length -> [S -> S]]
    PROVE  \E f \in [0..length -> S] : Iterates(f, length, start, step)
<1> USE DEF Iterates
<1> DEFINE Upto(n, f) == Iterates(f, n, start, step)
           T == {n \in 0..length : \E f \in [0..length -> S] : Upto(n, f)}
<1>1. 0 \in T
  <2> DEFINE f == [i \in 0..length |-> start]
  <2>1. f \in [0..length -> S] /\ Upto(0, f)
    OBVIOUS
  <2> HIDE DEF f, Upto
  <2> QED
    BY <2>1
<1>2. ASSUME NEW n \in 0..length, n \in T /\ n < length PROVE n + 1 \in T
  <2>1. PICK f \in [0..length -> S] : Upto(n, f)
    BY <1>2
  <2> DEFINE g == [f EXCEPT ![n + 1] = step[n + 1][f[n]]]
  <2>2. n + 1 \in 1..length /\ f[n] \in S
    BY <1>2
  <2>3. step[n + 1][f[n]] \in S
    BY <2>2
  <2>4. g \in [0..length -> S]
    BY <2>3
  <2>5. ASSUME NEW i \in 0..n + 1 PROVE g[i] = IF i = 0 THEN start ELSE step[i][g[i - 1]]
    <3>1. CASE i = n + 1
      BY <3>1, <1>2
    <3>2. CASE i # n + 1
      <4>1. i \in 0..n /\ g[i] = f[i] /\ (i # 0 => g[i - 1] = f[i - 1])
        BY <3>2, <1>2
      <4> QED
        BY <4>1, <2>1
    <3> QED
      BY <3>1, <3>2
  <2>6. Upto(n + 1, g)
    BY <2>5
  <2> HIDE DEF g, Upto
  <2> QED
    BY <2>2, <2>4, <2>6
<1> HIDE DEF T
<1>3. 0..length \subseteq T
  BY <1>1, <1>2, InductionUpTo
<1>4. length \in T
  BY <1>3
<1> QED
  BY <1>4 DEF T

-----------------------------------------------------------------------------
(* What an element of a sequence is.                                       *)
LEMMA ToSetOfSeq ==
    ASSUME NEW S, NEW s \in Seq(S)
    PROVE  /\ ToSet(s) \subseteq S
           /\ ToSet(s) = {s[i] : i \in 1..Len(s)}
           /\ ToSet(s) = {} <=> s = <<>>
<1>1. DOMAIN s = 1..Len(s) /\ Len(s) \in Nat /\ \A i \in 1..Len(s) : s[i] \in S
  OBVIOUS
<1>2. ToSet(s) = {s[i] : i \in 1..Len(s)}
  BY <1>1 DEF ToSet
<1>3. s # <<>> => 1 \in 1..Len(s)
  BY EmptySeq
<1>4. s = <<>> => 1..Len(s) = {}
  BY EmptySeq
<1> QED
  BY <1>1, <1>2, <1>3, <1>4

(* The elements of a concatenation, and of an extended sequence.           *)
LEMMA ToSetConcat ==
    ASSUME NEW S, NEW s \in Seq(S), NEW t \in Seq(S)
    PROVE  s \o t \in Seq(S) /\ ToSet(s \o t) = ToSet(s) \cup ToSet(t)
<1>1. s \o t \in Seq(S) /\ Len(s \o t) = Len(s) + Len(t)
  BY ConcatProperties
<1>2. \A i \in 1..Len(s) + Len(t) :
         (s \o t)[i] = IF i <= Len(s) THEN s[i] ELSE t[i - Len(s)]
  BY ConcatProperties
<1>3. \A i \in 1..Len(t) : Len(s) + i \in 1..Len(s) + Len(t) /\ (s \o t)[Len(s) + i] = t[i]
  BY <1>2
<1>4. \A i \in 1..Len(s) : i \in 1..Len(s) + Len(t) /\ (s \o t)[i] = s[i]
  BY <1>2
<1>5. \A x : x \in ToSet(s \o t) <=> \E i \in 1..Len(s) + Len(t) : (s \o t)[i] = x
  <2>1. ToSet(s \o t) = {(s \o t)[i] : i \in 1..Len(s \o t)}
    BY <1>1, ToSetOfSeq
  <2> QED
    BY <1>1, <2>1
<1>6. \A x : x \in ToSet(s) \cup ToSet(t) <=>
         (\E i \in 1..Len(s) : s[i] = x) \/ (\E i \in 1..Len(t) : t[i] = x)
  BY ToSetOfSeq
<1>7. \A i \in 1..Len(s) + Len(t) : i > Len(s) => i - Len(s) \in 1..Len(t)
  OBVIOUS
<1>8. ASSUME NEW x, x \in ToSet(s \o t) PROVE x \in ToSet(s) \cup ToSet(t)
  <2>1. PICK i \in 1..Len(s) + Len(t) : (s \o t)[i] = x
    BY <1>5, <1>8
  <2> QED
    BY <1>2, <1>6, <1>7, <2>1
<1>9. ASSUME NEW x, x \in ToSet(s) \cup ToSet(t) PROVE x \in ToSet(s \o t)
  BY <1>3, <1>4, <1>5, <1>6, <1>9
<1> QED
  BY <1>1, <1>8, <1>9

LEMMA ToSetAppend ==
    ASSUME NEW S, NEW s \in Seq(S), NEW e \in S
    PROVE  Append(s, e) \in Seq(S) /\ ToSet(Append(s, e)) = ToSet(s) \cup {e}
<1>1. Append(s, e) = s \o <<e>> /\ <<e>> \in Seq(S)
  BY AppendIsConcat
<1>2. ToSet(<<e>>) = {e}
  BY DEF ToSet
<1>3. ToSet(s \o <<e>>) = ToSet(s) \cup ToSet(<<e>>)
  BY <1>1, ToSetConcat
<1> QED
  BY <1>1, <1>2, <1>3, AppendProperties

LEMMA FirstOfConcat ==
    ASSUME NEW S, NEW s \in Seq(S), NEW t \in Seq(S), s # <<>>
    PROVE  s \o t # <<>> /\ (s \o t)[1] = s[1]
<1>1. Len(s) \in Nat /\ Len(s) >= 1 /\ Len(t) \in Nat
  BY EmptySeq
<1>2. \A i \in 1..Len(s) + Len(t) : (s \o t)[i] = IF i <= Len(s) THEN s[i] ELSE t[i - Len(s)]
  BY ConcatProperties
<1> QED
  BY <1>1, <1>2, ConcatEqualIffEmpty

(* What is built by extend: f[i] are the first i lists, one after another. *)
Extends(f, n, lists) ==
    \A i \in 0..n : f[i] = IF i = 0 THEN <<>> ELSE f[i - 1] \o lists[i]

(* The elements of the first n lists.                                      *)
Gathered(lists, n) == UNION {ToSet(lists[i]) : i \in 1..n}

LEMMA ExtendsExists ==
    ASSUME NEW S, NEW n \in Nat, NEW lists \in [1..n -> Seq(S)]
    PROVE  \E f \in [0..n -> Seq(S)] : Extends(f, n, lists)
<1> DEFINE step == [i \in 1..n |-> [s \in Seq(S) |-> s \o lists[i]]]
<1>1. step \in [1..n -> [Seq(S) -> Seq(S)]]
  BY ConcatProperties
<1>2. <<>> \in Seq(S)
  OBVIOUS
<1>3. PICK f \in [0..n -> Seq(S)] : Iterates(f, n, <<>>, step)
  <2> HIDE DEF step
  <2> QED
    BY <1>1, <1>2, Iterate
<1>4. ASSUME NEW i \in 0..n, i # 0 PROVE f[i] = f[i - 1] \o lists[i]
  <2>1. i \in 1..n /\ f[i - 1] \in Seq(S)
    BY <1>4
  <2> QED
    BY <1>3, <1>4, <2>1 DEF Iterates
<1>5. f[0] = <<>>
  <2> HIDE DEF step
  <2> QED
    BY <1>3 DEF Iterates
<1> QED
  BY <1>4, <1>5 DEF Extends

(* Its elements are those of the lists, and its first one that of the      *)
(* first list.                                                             *)
LEMMA ExtendsIs ==
    ASSUME NEW S, NEW n \in Nat, NEW lists \in [1..n -> Seq(S)], NEW f, Extends(f, n, lists)
    PROVE  /\ f[n] \in Seq(S)
           /\ ToSet(f[n]) = Gathered(lists, n)
           /\ n > 0 /\ lists[1] # <<>> => f[n] # <<>> /\ f[n][1] = lists[1][1]
<1> DEFINE Is(m) ==
        /\ f[m] \in Seq(S)
        /\ ToSet(f[m]) = Gathered(lists, m)
        /\ m > 0 /\ lists[1] # <<>> => f[m] # <<>> /\ f[m][1] = lists[1][1]
<1> DEFINE T == {m \in 0..n : Is(m)}
<1>1. 0 \in T
  <2>1. f[0] = <<>>
    BY DEF Extends
  <2>2. ToSet(<<>>) = {}
    BY DEF ToSet
  <2>3. <<>> \in Seq(S) /\ 1..0 = {}
    OBVIOUS
  <2>4. Is(0)
    BY <2>1, <2>2, <2>3 DEF Gathered
  <2> HIDE DEF Is
  <2> QED
    BY <2>4
<1>2. ASSUME NEW m \in 0..n, m \in T /\ m < n PROVE m + 1 \in T
  <2>1. m + 1 \in 1..n /\ m + 1 \in 0..n /\ (m + 1) - 1 = m /\ m + 1 # 0
    BY <1>2
  <2>2. f[m + 1] = f[m] \o lists[m + 1]
    BY <2>1 DEF Extends
  <2>3. f[m] \in Seq(S) /\ lists[m + 1] \in Seq(S)
    BY <1>2, <2>1
  <2>4. f[m + 1] \in Seq(S) /\ ToSet(f[m + 1]) = ToSet(f[m]) \cup ToSet(lists[m + 1])
    BY <2>2, <2>3, ToSetConcat
  <2>5. 1..m + 1 = (1..m) \cup {m + 1}
    BY <1>2
  <2>6. ToSet(f[m + 1]) = Gathered(lists, m + 1)
    BY <1>2, <2>4, <2>5 DEF Gathered
  <2>7. ASSUME lists[1] # <<>> PROVE f[m + 1] # <<>> /\ f[m + 1][1] = lists[1][1]
    <3>1. CASE m = 0
      <4>1. f[0] = <<>> /\ lists[1] \in Seq(S)
        BY <3>1, <2>3 DEF Extends
      <4>2. f[1] = lists[1]
        BY <3>1, <2>2, <4>1, ConcatEmptySeq
      <4> QED
        BY <3>1, <4>2, <2>7
    <3>2. CASE m > 0
      <4>1. f[m] # <<>> /\ f[m][1] = lists[1][1]
        BY <1>2, <2>7, <3>2
      <4>2. f[m] \o lists[m + 1] # <<>> /\ (f[m] \o lists[m + 1])[1] = f[m][1]
        BY <2>3, <4>1, FirstOfConcat
      <4> QED
        BY <2>2, <4>1, <4>2
    <3> QED
      BY <1>2, <3>1, <3>2
  <2> QED
    BY <2>1, <2>4, <2>6, <2>7
<1> HIDE DEF T
<1>3. 0..n \subseteq T
  BY <1>1, <1>2, InductionUpTo
<1>4. n \in T
  BY <1>3
<1> QED
  BY <1>4 DEF T

(* The community module's flattening of a sequence of sequences, which     *)
(* starts from the first of them.                                          *)
Flattens(f, n, lists) ==
    f = [i \in 1..n |-> IF i = 1 THEN lists[i] ELSE f[i - 1] \o lists[i]]

LEMMA FlattensExists ==
    ASSUME NEW S, NEW n \in Nat, NEW lists \in [1..n -> Seq(S)]
    PROVE  \E f : Flattens(f, n, lists)
<1>1. PICK f \in [0..n -> Seq(S)] : Extends(f, n, lists)
  BY ExtendsExists
<1> DEFINE g == [i \in 1..n |-> f[i]]
<1>2. ASSUME NEW i \in 1..n PROVE g[i] = IF i = 1 THEN lists[i] ELSE g[i - 1] \o lists[i]
  <2>1. i \in 0..n /\ i # 0 /\ 0 \in 0..n
    OBVIOUS
  <2>2. f[i] = f[i - 1] \o lists[i] /\ f[0] = <<>>
    BY <1>1, <2>1 DEF Extends
  <2>3. <<>> \o lists[i] = lists[i]
    <3>1. lists[i] \in Seq(S)
      OBVIOUS
    <3> QED
      BY <3>1, ConcatEmptySeq
  <2>4. CASE i = 1
    <3>1. i - 1 = 0
      BY <2>4
    <3>2. f[i] = lists[i]
      BY <2>2, <2>3, <3>1
    <3> QED
      BY <2>4, <3>2
  <2>5. CASE i # 1
    <3>1. i - 1 \in 1..n
      BY <2>5
    <3> QED
      BY <2>2, <2>5, <3>1
  <2> QED
    BY <2>4, <2>5
<1>3. Flattens(g, n, lists)
  BY <1>2 DEF Flattens
<1> HIDE DEF g
<1> QED
  BY <1>3

LEMMA FlattensIs ==
    ASSUME NEW S, NEW n \in Nat \ {0}, NEW lists \in [1..n -> Seq(S)], NEW f, Flattens(f, n, lists)
    PROVE  /\ f[n] \in Seq(S)
           /\ ToSet(f[n]) = Gathered(lists, n)
           /\ lists[1] # <<>> => f[n] # <<>> /\ f[n][1] = lists[1][1]
<1> DEFINE h == [i \in 0..n |-> IF i = 0 THEN <<>> ELSE f[i]]
<1>1. ASSUME NEW i \in 1..n PROVE h[i] = h[i - 1] \o lists[i]
  <2>1. f[i] = IF i = 1 THEN lists[i] ELSE f[i - 1] \o lists[i]
    BY DEF Flattens
  <2>2. i \in 0..n /\ i - 1 \in 0..n /\ i # 0 /\ (i # 1 => i - 1 # 0)
    OBVIOUS
  <2>3. h[i] = f[i] /\ h[i - 1] = IF i = 1 THEN <<>> ELSE f[i - 1]
    BY <2>2
  <2>4. <<>> \o lists[i] = lists[i]
    <3>1. lists[i] \in Seq(S)
      OBVIOUS
    <3> QED
      BY <3>1, ConcatEmptySeq
  <2> HIDE DEF h
  <2> QED
    BY <2>1, <2>3, <2>4
<1>2. h[0] = <<>> /\ h[n] = f[n] /\ \A i \in 0..n : i # 0 => i \in 1..n
  OBVIOUS
<1> HIDE DEF h
<1>3. Extends(h, n, lists)
  BY <1>1, <1>2 DEF Extends
<1>4. n \in Nat /\ n > 0
  OBVIOUS
<1>5. /\ h[n] \in Seq(S)
      /\ ToSet(h[n]) = Gathered(lists, n)
      /\ n > 0 /\ lists[1] # <<>> => h[n] # <<>> /\ h[n][1] = lists[1][1]
  BY <1>3, <1>4, ExtendsIs
<1> QED
  BY <1>2, <1>4, <1>5

LEMMA Flatten ==
    ASSUME NEW S, NEW lists \in Seq(Seq(S))
    PROVE  /\ FlattenSeq(lists) \in Seq(S)
           /\ ToSet(FlattenSeq(lists)) = Gathered(lists, Len(lists))
           /\ lists # <<>> /\ lists[1] # <<>> =>
                  FlattenSeq(lists) # <<>> /\ FlattenSeq(lists)[1] = lists[1][1]
<1>1. CASE lists = <<>>
  <2>1. FlattenSeq(lists) = <<>> /\ 1..Len(lists) = {}
    BY <1>1 DEF FlattenSeq
  <2>2. ToSet(<<>>) = {} /\ <<>> \in Seq(S)
    BY DEF ToSet
  <2>3. Gathered(lists, Len(lists)) = {}
    BY <2>1 DEF Gathered
  <2> QED
    BY <1>1, <2>1, <2>2, <2>3
<1>2. CASE lists # <<>>
  <2>1. Len(lists) \in Nat \ {0} /\ lists \in [1..Len(lists) -> Seq(S)]
    BY <1>2, EmptySeq
  <2>2. \E f : Flattens(f, Len(lists), lists)
    BY <2>1, FlattensExists
  <2>3. PICK flatten : flatten = (CHOOSE f : Flattens(f, Len(lists), lists))
    OBVIOUS
  <2>4. Flattens(flatten, Len(lists), lists)
    BY <2>2, <2>3
  <2>5. FlattenSeq(lists) = flatten[Len(lists)]
    BY <2>1, <2>3 DEF FlattenSeq, Flattens
  <2>6. /\ flatten[Len(lists)] \in Seq(S)
        /\ ToSet(flatten[Len(lists)]) = Gathered(lists, Len(lists))
        /\ lists[1] # <<>> =>
               flatten[Len(lists)] # <<>> /\ flatten[Len(lists)][1] = lists[1][1]
    <3> DEFINE n == Len(lists)
    <3>1. n \in Nat \ {0} /\ lists \in [1..n -> Seq(S)] /\ Flattens(flatten, n, lists)
      BY <2>1, <2>4
    <3> HIDE DEF n
    <3>2. /\ flatten[n] \in Seq(S)
          /\ ToSet(flatten[n]) = Gathered(lists, n)
          /\ lists[1] # <<>> => flatten[n] # <<>> /\ flatten[n][1] = lists[1][1]
      BY <3>1, FlattensIs
    <3> QED
      BY <3>2 DEF n
  <2> QED
    BY <2>5, <2>6
<1> QED
  BY <1>1, <1>2

(* A filtered sequence.                                                    *)
LEMMA AmongIs ==
    ASSUME NEW S, NEW s \in Seq(S), NEW kept
    PROVE  Among(s, kept) \in Seq(S) /\ ToSet(Among(s, kept)) = ToSet(s) \cap kept
<1> DEFINE lists == [i \in DOMAIN s |-> IF s[i] \in kept THEN <<s[i]>> ELSE <<>>]
<1>1. DOMAIN s = 1..Len(s) /\ Len(s) \in Nat /\ \A i \in 1..Len(s) : s[i] \in S
  OBVIOUS
<1>2. lists \in Seq(Seq(S)) /\ Len(lists) = Len(s)
  BY <1>1
<1>3. \A i \in 1..Len(s) : ToSet(lists[i]) = {s[i]} \cap kept
  BY <1>1 DEF ToSet
<1>4. Among(s, kept) = FlattenSeq(lists)
  BY DEF Among
<1>5. ToSet(FlattenSeq(lists)) = UNION {ToSet(lists[i]) : i \in 1..Len(s)}
      /\ FlattenSeq(lists) \in Seq(S)
  <2> HIDE DEF lists
  <2> QED
    BY <1>2, Flatten DEF Gathered
<1>6. UNION {ToSet(lists[i]) : i \in 1..Len(s)} = {s[i] : i \in 1..Len(s)} \cap kept
  <2> HIDE DEF lists
  <2> QED
    BY <1>3
<1> QED
  BY <1>4, <1>5, <1>6, ToSetOfSeq

(* The first occurrences of the elements of a sequence.                    *)
LEMMA UnrepeatedIs ==
    ASSUME NEW S, NEW ids \in Seq(S)
    PROVE  /\ Unrepeated(ids) \in Seq(S)
           /\ ToSet(Unrepeated(ids)) = ToSet(ids)
           /\ ids # <<>> => Unrepeated(ids) # <<>> /\ Unrepeated(ids)[1] = ids[1]
<1> DEFINE length == Len(ids)
           Is(f) == f = [n \in 0..length |->
                            IF n = 0 THEN <<>>
                            ELSE IF ids[n] \in ToSet(f[n - 1]) THEN f[n - 1]
                            ELSE Append(f[n - 1], ids[n])]
           step == [n \in 1..length |->
                       [s \in Seq(S) |-> IF ids[n] \in ToSet(s) THEN s ELSE Append(s, ids[n])]]
<1>1. length \in Nat /\ \A n \in 1..length : ids[n] \in S
  OBVIOUS
<1>2. step \in [1..length -> [Seq(S) -> Seq(S)]]
  <2> HIDE DEF length
  <2> QED
    BY <1>1, AppendProperties
<1>3. PICK f \in [0..length -> Seq(S)] : Iterates(f, length, <<>>, step)
  <2>1. <<>> \in Seq(S)
    OBVIOUS
  <2> HIDE DEF step, length
  <2> QED
    BY <1>1, <1>2, <2>1, Iterate
<1>4. Is(f)
  <2>1. ASSUME NEW n \in 0..length, n # 0
        PROVE  f[n] = IF ids[n] \in ToSet(f[n - 1]) THEN f[n - 1] ELSE Append(f[n - 1], ids[n])
    <3>1. n \in 1..length /\ f[n - 1] \in Seq(S)
      BY <1>1, <2>1
    <3>2. f[n] = step[n][f[n - 1]]
      <4> HIDE DEF step, length
      <4> QED
        BY <1>3, <2>1 DEF Iterates
    <3> QED
      BY <3>1, <3>2
  <2>2. f[0] = <<>>
    <3> HIDE DEF step, length
    <3> QED
      BY <1>1, <1>3 DEF Iterates
  <2>3. f = [n \in 0..length |-> f[n]]
    OBVIOUS
  <2> HIDE DEF length
  <2> QED
    BY <2>1, <2>2, <2>3
<1>5. PICK keys : keys = (CHOOSE g : Is(g))
  OBVIOUS
<1>6. Is(keys)
  BY <1>4, <1>5
<1>7. Unrepeated(ids) = keys[length]
  BY <1>5 DEF Unrepeated
<1> DEFINE Holds(n) ==
        /\ keys[n] \in Seq(S) /\ ToSet(keys[n]) = {ids[i] : i \in 1..n}
        /\ n > 0 => keys[n] # <<>> /\ keys[n][1] = ids[1]
    T == {n \in 0..length : Holds(n)}
<1>8. 0 \in T
  <2>1. keys[0] = <<>>
    BY <1>1, <1>6
  <2>2. Holds(0)
    BY <2>1 DEF ToSet
  <2> HIDE DEF Holds
  <2> QED
    BY <1>1, <2>2
<1>9. ASSUME NEW n \in 0..length, n \in T /\ n < length PROVE n + 1 \in T
  <2>1. n + 1 \in 1..length /\ n + 1 \in 0..length /\ n + 1 # 0 /\ (n + 1) - 1 = n
    BY <1>1, <1>9
  <2>2. keys[n + 1] = IF ids[n + 1] \in ToSet(keys[n]) THEN keys[n]
                      ELSE Append(keys[n], ids[n + 1])
    <3> HIDE DEF length
    <3> QED
      BY <1>6, <2>1
  <2>3. 1..n + 1 = (1..n) \cup {n + 1}
    BY <1>1, <1>9
  <2>4. {ids[i] : i \in 1..n + 1} = {ids[i] : i \in 1..n} \cup {ids[n + 1]}
    BY <2>3
  <2>5. keys[n] \in Seq(S) /\ ids[n + 1] \in S /\ Holds(n)
    BY <1>1, <1>9, <2>1
  <2>6. CASE ids[n + 1] \in ToSet(keys[n])
    <3>1. n > 0
      BY <1>9, <2>5, <2>6
    <3>2. Holds(n + 1)
      BY <2>2, <2>4, <2>5, <2>6, <3>1
    <3> QED
      BY <2>1, <3>2
  <2>7. CASE ids[n + 1] \notin ToSet(keys[n])
    <3>1. keys[n + 1] = Append(keys[n], ids[n + 1])
      BY <2>2, <2>7
    <3>2. keys[n + 1] \in Seq(S) /\ ToSet(keys[n + 1]) = {ids[i] : i \in 1..n + 1}
      <4>1. /\ Append(keys[n], ids[n + 1]) \in Seq(S)
            /\ ToSet(Append(keys[n], ids[n + 1])) = ToSet(keys[n]) \cup {ids[n + 1]}
        <5> HIDE DEF length, Is, Holds
        <5>1. keys[n] \in Seq(S) /\ ids[n + 1] \in S
          BY <2>5
        <5> QED
          BY <5>1, ToSetAppend
      <4> QED
        BY <2>4, <2>5, <3>1, <4>1
    <3>3. keys[n + 1] # <<>> /\ keys[n + 1][1] = ids[1]
      <4>1. CASE n = 0
        <5>1. keys[0] = <<>>
          BY <1>1, <1>6
        <5> QED
          BY <2>5, <3>1, <4>1, <5>1
      <4>2. CASE n > 0
        <5>1. keys[n] # <<>> /\ keys[n][1] = ids[1]
          BY <2>5, <4>2
        <5>2. Append(keys[n], ids[n + 1]) = keys[n] \o <<ids[n + 1]>> /\ <<ids[n + 1]>> \in Seq(S)
          BY <2>5, AppendIsConcat
        <5>3. keys[n] \o <<ids[n + 1]>> # <<>> /\ (keys[n] \o <<ids[n + 1]>>)[1] = keys[n][1]
          BY <2>5, <5>1, <5>2, FirstOfConcat
        <5> QED
          BY <3>1, <5>1, <5>2, <5>3
      <4> QED
        BY <1>9, <4>1, <4>2
    <3>4. Holds(n + 1)
      BY <3>2, <3>3
    <3> QED
      BY <2>1, <3>4
  <2> QED
    BY <2>6, <2>7
<1> HIDE DEF T
<1>10. 0..length \subseteq T
  BY <1>1, <1>8, <1>9, InductionUpTo
<1>11. Holds(length)
  <2>1. length \in T
    BY <1>1, <1>10
  <2> HIDE DEF Holds
  <2> QED
    BY <2>1 DEF T
<1>12. ids # <<>> => length > 0
  BY EmptySeq
<1> QED
  BY <1>7, <1>11, <1>12, ToSetOfSeq
-----------------------------------------------------------------------------
(* What the recursive functions of EventIds are at each depth.  One exists *)
(* at every depth, so the one that is chosen is one.                       *)
NextLevel(children) == Atoms \cup Lists(children) \cup Dicts(children)

LEMMA JsonIs ==
    /\ Json[0] = Atoms
    /\ \A depth \in 1..Depth : Json[depth] = NextLevel(Json[depth - 1])
<1> DEFINE Is(f, n) == f = [depth \in 0..n |-> IF depth = 0 THEN Atoms ELSE NextLevel(f[depth - 1])]
           T == {n \in 0..Depth : \E f : Is(f, n)}
<1>1. Depth \in Nat
  BY EventIdsAssumption
<1>2. 0 \in T
  <2> DEFINE f == [depth \in 0..0 |-> Atoms]
  <2>1. Is(f, 0)
    OBVIOUS
  <2> HIDE DEF Is, f
  <2> QED
    BY <1>1, <2>1
<1>3. ASSUME NEW n \in 0..Depth, n \in T /\ n < Depth PROVE n + 1 \in T
  <2>1. PICK f : Is(f, n)
    BY <1>3
  <2> DEFINE g == [depth \in 0..n + 1 |-> IF depth = n + 1 THEN NextLevel(f[n]) ELSE f[depth]]
  <2>2. ASSUME NEW depth \in 0..n + 1
        PROVE  g[depth] = IF depth = 0 THEN Atoms ELSE NextLevel(g[depth - 1])
    <3>1. CASE depth = n + 1
      <4>1. g[depth] = NextLevel(f[n]) /\ depth - 1 = n /\ g[n] = f[n] /\ depth # 0
        BY <1>1, <3>1
      <4> QED
        BY <4>1
    <3>2. CASE depth # n + 1
      <4>1. depth \in 0..n /\ g[depth] = f[depth] /\ (depth # 0 => g[depth - 1] = f[depth - 1])
        BY <1>1, <3>2
      <4>2. f[depth] = IF depth = 0 THEN Atoms ELSE NextLevel(f[depth - 1])
        BY <2>1, <4>1
      <4> QED
        BY <4>1, <4>2
    <3> QED
      BY <3>1, <3>2
  <2>3. Is(g, n + 1)
    BY <2>2
  <2> HIDE DEF Is, g
  <2> QED
    BY <1>1, <1>3, <2>3
<1>4. Depth \in T
  <2> HIDE DEF T
  <2>1. 0..Depth \subseteq T
    BY <1>1, <1>2, <1>3, InductionUpTo
  <2> QED
    BY <1>1, <2>1
<1>5. Json = CHOOSE f : Is(f, Depth)
  BY DEF Json, NextLevel
<1>6. Is(Json, Depth)
  <2> HIDE DEF Is
  <2> QED
    BY <1>4, <1>5
<1> QED
  BY <1>1, <1>6

(* The kinds of a value, and what each holds.                              *)
LEMMA Shape ==
    ASSUME NEW depth \in 0..Depth, NEW value \in Json[depth]
    PROVE  /\ value.kind = "str" => value.text \in Texts
           /\ value.kind = "dict" =>
                  depth # 0 /\ value.items \in Seq([key : Keys, child : Json[depth - 1]])
           /\ value.kind = "list" => depth # 0 /\ value.items \in Seq(Json[depth - 1])
<1>1. ASSUME value \in Atoms PROVE value.kind \in {"str", "bool", "number"} /\
          (value.kind = "str" => value.text \in Texts)
  BY <1>1 DEF Atoms, Number
<1>2. CASE depth = 0
  BY <1>1, <1>2, JsonIs
<1>3. CASE depth # 0
  <2>1. depth \in 1..Depth
    BY <1>3, EventIdsAssumption
  <2>2. value \in Atoms \cup Lists(Json[depth - 1]) \cup Dicts(Json[depth - 1])
    BY <2>1, JsonIs DEF NextLevel
  <2>3. CASE value \in Atoms
    BY <1>1, <2>3
  <2>4. CASE value \in Lists(Json[depth - 1])
    BY <1>3, <2>4 DEF Lists
  <2>5. CASE value \in Dicts(Json[depth - 1])
    BY <1>3, <2>5 DEF Dicts
  <2> QED
    BY <2>2, <2>3, <2>4, <2>5
<1> QED
  BY <1>2, <1>3

(* The set that the agent finds in a value, given those of its children.   *)
FoundIn(below, item) ==
    IF IsId(item.key, item.child) THEN {item.child.text}
    ELSE IF AreIds(item.key, item.child) THEN ToSet(Strings(item.child))
    ELSE below[item.child]

SetOf(below, value) ==
    CASE value.kind = "dict" -> UNION {FoundIn(below, item) : item \in ToSet(value.items)}
      [] value.kind = "list" -> UNION {below[child] : child \in ToSet(value.items)}
      [] OTHER -> {}

LEMMA SetsAre ==
    \A depth \in 0..Depth : \A value \in Json[depth] :
        IdSets[depth][value] = SetOf(IdSets[depth - 1], value)
<1> DEFINE Is(f, n) ==
               f = [depth \in 0..n |-> [value \in Json[depth] |-> SetOf(f[depth - 1], value)]]
           T == {n \in 0..Depth : \E f : Is(f, n)}
<1>1. Depth \in Nat
  BY EventIdsAssumption
<1>2. ASSUME NEW value \in Json[0], NEW below PROVE SetOf(below, value) = {}
  <2>1. 0 \in 0..Depth
    BY <1>1
  <2>2. value.kind # "dict" /\ value.kind # "list"
    BY <2>1, Shape
  <2> QED
    BY <2>2 DEF SetOf
<1>3. 0 \in T
  <2> DEFINE f == [depth \in 0..0 |-> [value \in Json[0] |-> {}]]
  <2>1. [value \in Json[0] |-> {}] = [value \in Json[0] |-> SetOf(f[0 - 1], value)]
    <3> HIDE DEF f
    <3> QED
      BY <1>2
  <2>2. \A depth \in 0..0 : f[depth] = [value \in Json[depth] |-> SetOf(f[depth - 1], value)]
    BY <2>1
  <2>3. f = [depth \in 0..0 |-> f[depth]]
    OBVIOUS
  <2>4. Is(f, 0)
    <3> HIDE DEF f
    <3> QED
      BY <2>2, <2>3
  <2> HIDE DEF Is, f
  <2> QED
    BY <1>1, <2>4
<1>4. ASSUME NEW n \in 0..Depth, n \in T /\ n < Depth PROVE n + 1 \in T
  <2>1. PICK f : Is(f, n)
    BY <1>4
  <2> DEFINE top == [value \in Json[n + 1] |-> SetOf(f[n], value)]
             g == [depth \in 0..n + 1 |-> IF depth = n + 1 THEN top ELSE f[depth]]
  <2>2. ASSUME NEW depth \in 0..n + 1
        PROVE  g[depth] = [value \in Json[depth] |-> SetOf(g[depth - 1], value)]
    <3>1. CASE depth = n + 1
      <4>1. g[depth] = top /\ depth - 1 = n /\ g[n] = f[n]
        BY <1>1, <3>1
      <4> QED
        BY <3>1, <4>1
    <3>2. CASE depth \in 1..n
      <4>1. depth \in 0..n /\ g[depth] = f[depth] /\ g[depth - 1] = f[depth - 1]
        BY <1>1, <3>2
      <4>2. f[depth] = [value \in Json[depth] |-> SetOf(f[depth - 1], value)]
        BY <2>1, <4>1
      <4> QED
        BY <4>1, <4>2
    <3>3. CASE depth = 0
      <4>1. 0 \in 0..n /\ g[0] = f[0]
        BY <1>1
      <4>2. f[0] = [value \in Json[0] |-> SetOf(f[0 - 1], value)]
        BY <2>1, <4>1
      <4>3. f[0] = [value \in Json[0] |-> SetOf(g[0 - 1], value)]
        <5> HIDE DEF g, Is
        <5> QED
          BY <1>2, <4>2
      <4> QED
        BY <3>3, <4>1, <4>3
    <3> QED
      BY <1>1, <3>1, <3>2, <3>3
  <2>3. g = [depth \in 0..n + 1 |-> g[depth]]
    OBVIOUS
  <2>4. Is(g, n + 1)
    <3> HIDE DEF g
    <3> QED
      BY <2>2, <2>3
  <2> HIDE DEF Is, g
  <2> QED
    BY <1>1, <1>4, <2>4
<1>5. Depth \in T
  <2> HIDE DEF T
  <2>1. 0..Depth \subseteq T
    BY <1>1, <1>3, <1>4, InductionUpTo
  <2> QED
    BY <1>1, <2>1
<1>6. IdSets = CHOOSE f : Is(f, Depth)
  BY DEF IdSets, SetOf, FoundIn
<1>7. Is(IdSets, Depth)
  <2> HIDE DEF Is
  <2> QED
    BY <1>5, <1>6
<1> QED
  BY <1>1, <1>7

(* The same of the sequence that the mock provider collects.               *)
Part(below, item) ==
    IF IsId(item.key, item.child) THEN <<item.child.text>>
    ELSE IF AreIds(item.key, item.child) THEN Strings(item.child)
    ELSE below[item.child]

Collects(f, parts, n) ==
    f = [i \in 0..n |-> IF i = 0 THEN <<>> ELSE f[i - 1] \o parts[i]]

Collected(parts, n) == LET f == CHOOSE f : Collects(f, parts, n) IN Unrepeated(f[n])

DictParts(below, items) == [i \in 1..Len(items) |-> Part(below, items[i])]
ListParts(below, items) == [i \in 1..Len(items) |-> below[items[i]]]

ListOf(below, value) ==
    CASE value.kind = "dict" -> Collected(DictParts(below, value.items), Len(value.items))
      [] value.kind = "list" -> Collected(ListParts(below, value.items), Len(value.items))
      [] OTHER -> <<>>

(* Collecting from the parts is the loop over the items that has them.     *)
LEMMA CollectedIs ==
    ASSUME NEW S, NEW n \in Nat, NEW parts \in [1..n -> Seq(S)]
    PROVE  /\ Collected(parts, n) \in Seq(S)
           /\ ToSet(Collected(parts, n)) = Gathered(parts, n)
           /\ n > 0 /\ parts[1] # <<>> =>
                  Collected(parts, n) # <<>> /\ Collected(parts, n)[1] = parts[1][1]
<1>1. \A f : Collects(f, parts, n) => Extends(f, n, parts)
  BY DEF Collects, Extends
<1>2. \E f : Collects(f, parts, n)
  <2>1. PICK f \in [0..n -> Seq(S)] : Extends(f, n, parts)
    BY ExtendsExists
  <2>2. f = [i \in 0..n |-> f[i]]
    OBVIOUS
  <2>3. Collects(f, parts, n)
    BY <2>1, <2>2 DEF Collects, Extends
  <2> QED
    BY <2>3
<1>3. PICK f : f = CHOOSE g : Collects(g, parts, n)
  OBVIOUS
<1>4. Extends(f, n, parts)
  BY <1>1, <1>2, <1>3
<1>5. Collected(parts, n) = Unrepeated(f[n])
  BY <1>3 DEF Collected
<1>6. /\ f[n] \in Seq(S)
      /\ ToSet(f[n]) = Gathered(parts, n)
      /\ n > 0 /\ parts[1] # <<>> => f[n] # <<>> /\ f[n][1] = parts[1][1]
  BY <1>4, ExtendsIs
<1>7. /\ Unrepeated(f[n]) \in Seq(S)
      /\ ToSet(Unrepeated(f[n])) = ToSet(f[n])
      /\ f[n] # <<>> => Unrepeated(f[n]) # <<>> /\ Unrepeated(f[n])[1] = f[n][1]
  BY <1>6, UnrepeatedIs
<1> QED
  BY <1>5, <1>6, <1>7

(* The loops of the source, which read the items one by one.               *)
LoopOverItems(f, below, items) ==
    f = [n \in 0..Len(items) |-> IF n = 0 THEN <<>> ELSE f[n - 1] \o Part(below, items[n])]

LoopOverChildren(f, below, items) ==
    f = [n \in 0..Len(items) |-> IF n = 0 THEN <<>> ELSE f[n - 1] \o below[items[n]]]

Loop(below, value) ==
    CASE value.kind = "dict" ->
           LET f == CHOOSE f : LoopOverItems(f, below, value.items)
           IN  Unrepeated(f[Len(value.items)])
      [] value.kind = "list" ->
           LET f == CHOOSE f : LoopOverChildren(f, below, value.items)
           IN  Unrepeated(f[Len(value.items)])
      [] OTHER -> <<>>

LEMMA LoopIs ==
    ASSUME NEW depth \in 0..Depth, NEW value \in Json[depth], NEW below
    PROVE  Loop(below, value) = ListOf(below, value)
<1> DEFINE items == value.items
<1>1. ASSUME Len(items) \in Nat, NEW f
      PROVE  /\ LoopOverItems(f, below, items) <=> Collects(f, DictParts(below, items), Len(items))
             /\ LoopOverChildren(f, below, items) <=> Collects(f, ListParts(below, items), Len(items))
  <2>1. \A n \in 0..Len(items) : n # 0 =>
            /\ DictParts(below, items)[n] = Part(below, items[n])
            /\ ListParts(below, items)[n] = below[items[n]]
    BY <1>1 DEF DictParts, ListParts
  <2> HIDE DEF items
  <2> QED
    BY <2>1 DEF LoopOverItems, LoopOverChildren, Collects
<1>2. CASE value.kind = "dict"
  <2>1. Len(items) \in Nat
    BY <1>2, Shape
  <2>2. (CHOOSE f : LoopOverItems(f, below, items)) =
            CHOOSE f : Collects(f, DictParts(below, items), Len(items))
    <3> HIDE DEF items
    <3> QED
      BY <1>1, <2>1
  <2>3. PICK f : f = CHOOSE g : LoopOverItems(g, below, items)
    OBVIOUS
  <2>4. Loop(below, value) = Unrepeated(f[Len(items)])
    BY <1>2, <2>3 DEF Loop
  <2>5. ListOf(below, value) = Collected(DictParts(below, items), Len(items))
    BY <1>2 DEF ListOf
  <2>6. Collected(DictParts(below, items), Len(items)) = Unrepeated(f[Len(items)])
    BY <2>2, <2>3 DEF Collected
  <2> QED
    BY <2>4, <2>5, <2>6
<1>3. CASE value.kind = "list"
  <2>1. Len(items) \in Nat
    BY <1>3, Shape
  <2>2. (CHOOSE f : LoopOverChildren(f, below, items)) =
            CHOOSE f : Collects(f, ListParts(below, items), Len(items))
    <3> HIDE DEF items
    <3> QED
      BY <1>1, <2>1
  <2>3. PICK f : f = CHOOSE g : LoopOverChildren(g, below, items)
    OBVIOUS
  <2>4. Loop(below, value) = Unrepeated(f[Len(items)])
    BY <1>3, <2>3 DEF Loop
  <2>5. ListOf(below, value) = Collected(ListParts(below, items), Len(items))
    BY <1>3 DEF ListOf
  <2>6. Collected(ListParts(below, items), Len(items)) = Unrepeated(f[Len(items)])
    BY <2>2, <2>3 DEF Collected
  <2> QED
    BY <2>4, <2>5, <2>6
<1>4. CASE value.kind # "dict" /\ value.kind # "list"
  BY <1>4 DEF Loop, ListOf
<1> QED
  BY <1>2, <1>3, <1>4

LEMMA ListsAre ==
    \A depth \in 0..Depth : \A value \in Json[depth] :
        IdLists[depth][value] = ListOf(IdLists[depth - 1], value)
<1> DEFINE Is(f, n) ==
               f = [depth \in 0..n |-> [value \in Json[depth] |-> ListOf(f[depth - 1], value)]]
           T == {n \in 0..Depth : \E f : Is(f, n)}
<1>1. Depth \in Nat
  BY EventIdsAssumption
<1>2. ASSUME NEW value \in Json[0], NEW below PROVE ListOf(below, value) = <<>>
  <2>1. 0 \in 0..Depth
    BY <1>1
  <2>2. value.kind # "dict" /\ value.kind # "list"
    BY <2>1, Shape
  <2> QED
    BY <2>2 DEF ListOf
<1>3. 0 \in T
  <2> DEFINE f == [depth \in 0..0 |-> [value \in Json[0] |-> <<>>]]
  <2>1. [value \in Json[0] |-> <<>>] = [value \in Json[0] |-> ListOf(f[0 - 1], value)]
    <3> HIDE DEF f
    <3> QED
      BY <1>2
  <2>2. \A depth \in 0..0 : f[depth] = [value \in Json[depth] |-> ListOf(f[depth - 1], value)]
    BY <2>1
  <2>3. f = [depth \in 0..0 |-> f[depth]]
    OBVIOUS
  <2>4. Is(f, 0)
    <3> HIDE DEF f
    <3> QED
      BY <2>2, <2>3
  <2> HIDE DEF Is, f
  <2> QED
    BY <1>1, <2>4
<1>4. ASSUME NEW n \in 0..Depth, n \in T /\ n < Depth PROVE n + 1 \in T
  <2>1. PICK f : Is(f, n)
    BY <1>4
  <2> DEFINE top == [value \in Json[n + 1] |-> ListOf(f[n], value)]
             g == [depth \in 0..n + 1 |-> IF depth = n + 1 THEN top ELSE f[depth]]
  <2>2. ASSUME NEW depth \in 0..n + 1
        PROVE  g[depth] = [value \in Json[depth] |-> ListOf(g[depth - 1], value)]
    <3>1. CASE depth = n + 1
      <4>1. g[depth] = top /\ depth - 1 = n /\ g[n] = f[n]
        BY <1>1, <3>1
      <4> QED
        BY <3>1, <4>1
    <3>2. CASE depth \in 1..n
      <4>1. depth \in 0..n /\ g[depth] = f[depth] /\ g[depth - 1] = f[depth - 1]
        BY <1>1, <3>2
      <4>2. f[depth] = [value \in Json[depth] |-> ListOf(f[depth - 1], value)]
        BY <2>1, <4>1
      <4> QED
        BY <4>1, <4>2
    <3>3. CASE depth = 0
      <4>1. 0 \in 0..n /\ g[0] = f[0]
        BY <1>1
      <4>2. f[0] = [value \in Json[0] |-> ListOf(f[0 - 1], value)]
        BY <2>1, <4>1
      <4>3. f[0] = [value \in Json[0] |-> ListOf(g[0 - 1], value)]
        <5> HIDE DEF g, Is
        <5> QED
          BY <1>2, <4>2
      <4> QED
        BY <3>3, <4>1, <4>3
    <3> QED
      BY <1>1, <3>1, <3>2, <3>3
  <2>3. g = [depth \in 0..n + 1 |-> g[depth]]
    OBVIOUS
  <2>4. Is(g, n + 1)
    <3> HIDE DEF g
    <3> QED
      BY <2>2, <2>3
  <2> HIDE DEF Is, g
  <2> QED
    BY <1>1, <1>4, <2>4
<1>5. Depth \in T
  <2> HIDE DEF T
  <2>1. 0..Depth \subseteq T
    BY <1>1, <1>3, <1>4, InductionUpTo
  <2> QED
    BY <1>1, <2>1
<1> DEFINE Was(f, n) ==
               f = [depth \in 0..n |-> [value \in Json[depth] |-> Loop(f[depth - 1], value)]]
<1>6. IdLists = CHOOSE f : Was(f, Depth)
  BY DEF IdLists, Part, Loop, LoopOverItems, LoopOverChildren
<1>7. ASSUME NEW f PROVE Is(f, Depth) <=> Was(f, Depth)
  <2>1. ASSUME NEW depth \in 0..Depth
        PROVE  [value \in Json[depth] |-> Loop(f[depth - 1], value)] =
               [value \in Json[depth] |-> ListOf(f[depth - 1], value)]
    BY <2>1, LoopIs
  <2> QED
    BY <2>1
<1>8. Is(IdLists, Depth)
  <2> HIDE DEF Is, Was
  <2> QED
    BY <1>5, <1>6, <1>7
<1> QED
  BY <1>1, <1>8

-----------------------------------------------------------------------------
(* The strings of a list are texts: some of its children.                  *)
LEMMA StringsAre ==
    ASSUME NEW depth \in 0..Depth, NEW child \in Json[depth], child.kind = "list"
    PROVE  /\ Strings(child) \in Seq(Texts)
           /\ ToSet(Strings(child)) =
                  {item.text : item \in {item \in ToSet(child.items) : item.kind = "str"}}
<1> DEFINE kept == {item \in ToSet(child.items) : item.kind = "str"}
           strings == Among(child.items, kept)
<1>1. depth - 1 \in 0..Depth /\ child.items \in Seq(Json[depth - 1])
  <2>1. depth # 0 /\ child.items \in Seq(Json[depth - 1])
    BY Shape
  <2> QED
    BY <2>1, EventIdsAssumption
<1>2. ToSet(child.items) \subseteq Json[depth - 1]
  BY <1>1, ToSetOfSeq
<1>3. \A item \in kept : item.text \in Texts
  BY <1>1, <1>2, Shape
<1>4. strings \in Seq(Json[depth - 1]) /\ ToSet(strings) = kept
  <2>1. /\ strings \in Seq(Json[depth - 1])
        /\ ToSet(strings) = ToSet(child.items) \cap kept
    <3> HIDE DEF kept
    <3> QED
      BY <1>1, AmongIs
  <2> QED
    BY <2>1
<1>5. Strings(child) = [i \in DOMAIN strings |-> strings[i].text]
  BY DEF Strings
<1> HIDE DEF strings, kept
<1>6. /\ DOMAIN strings = 1..Len(strings) /\ Len(strings) \in Nat
      /\ kept = {strings[i] : i \in 1..Len(strings)}
  BY <1>4, ToSetOfSeq
<1>7. Strings(child) \in Seq(Texts) /\ DOMAIN Strings(child) = 1..Len(strings)
  BY <1>3, <1>5, <1>6
<1>8. ToSet(Strings(child)) = {strings[i].text : i \in 1..Len(strings)}
  BY <1>5, <1>6, <1>7 DEF ToSet
<1>9. {strings[i].text : i \in 1..Len(strings)} = {item.text : item \in kept}
  BY <1>6
<1> QED
  BY <1>7, <1>8, <1>9 DEF kept

(* The two searches agree on an item of a dict if they do on its child.    *)
LEMMA PartsAgree ==
    ASSUME NEW depth \in 0..Depth, NEW item \in [key : Keys, child : Json[depth]],
           NEW lists, NEW sets,
           \A child \in Json[depth] :
               lists[child] \in Seq(Texts) /\ ToSet(lists[child]) = sets[child]
    PROVE  Part(lists, item) \in Seq(Texts) /\ ToSet(Part(lists, item)) = FoundIn(sets, item)
<1>1. item.child \in Json[depth]
  OBVIOUS
<1>2. CASE IsId(item.key, item.child)
  <2>1. item.child.text \in Texts
    BY <1>1, <1>2, Shape DEF IsId
  <2>2. <<item.child.text>> \in Seq(Texts) /\ ToSet(<<item.child.text>>) = {item.child.text}
    BY <2>1 DEF ToSet
  <2> QED
    BY <1>2, <2>2 DEF Part, FoundIn
<1>3. CASE ~IsId(item.key, item.child) /\ AreIds(item.key, item.child)
  <2>1. Strings(item.child) \in Seq(Texts)
    BY <1>1, <1>3, StringsAre DEF AreIds
  <2> QED
    BY <1>3, <2>1 DEF Part, FoundIn
<1>4. CASE ~IsId(item.key, item.child) /\ ~AreIds(item.key, item.child)
  BY <1>1, <1>4 DEF Part, FoundIn
<1> QED
  BY <1>2, <1>3, <1>4

Agree(depth) ==
    \A value \in Json[depth] :
        /\ IdLists[depth][value] \in Seq(Texts)
        /\ ToSet(IdLists[depth][value]) = IdSets[depth][value]

LEMMA AtomsAgree == Agree(0)
<1>1. 0 \in 0..Depth
  BY EventIdsAssumption
<1>2. ASSUME NEW value \in Json[0] PROVE IdLists[0][value] = <<>> /\ IdSets[0][value] = {}
  <2>1. value.kind # "dict" /\ value.kind # "list"
    BY <1>1, Shape
  <2>2. ListOf(IdLists[0 - 1], value) = <<>> /\ SetOf(IdSets[0 - 1], value) = {}
    BY <2>1 DEF ListOf, SetOf
  <2> QED
    BY <1>1, <2>2, ListsAre, SetsAre
<1>3. <<>> \in Seq(Texts) /\ ToSet(<<>>) = {}
  BY DEF ToSet
<1> QED
  BY <1>2, <1>3 DEF Agree

LEMMA ChildrenAgree ==
    ASSUME NEW depth \in 1..Depth, Agree(depth - 1)
    PROVE  Agree(depth)
<1> DEFINE lists == IdLists[depth - 1]
           sets == IdSets[depth - 1]
<1>1. depth \in 0..Depth /\ depth - 1 \in 0..Depth
  BY EventIdsAssumption
<1>2. \A child \in Json[depth - 1] :
          lists[child] \in Seq(Texts) /\ ToSet(lists[child]) = sets[child]
  BY DEF Agree
<1> SUFFICES ASSUME NEW value \in Json[depth]
             PROVE  ListOf(lists, value) \in Seq(Texts) /\ ToSet(ListOf(lists, value)) = SetOf(sets, value)
  BY <1>1, ListsAre, SetsAre DEF Agree
<1> HIDE DEF lists, sets
<1> DEFINE items == value.items
           n == Len(items)
<1>3. CASE value.kind = "dict"
  <2>1. items \in Seq([key : Keys, child : Json[depth - 1]])
    BY <1>1, <1>3, Shape
  <2>2. n \in Nat /\ (\A i \in 1..n : items[i] \in [key : Keys, child : Json[depth - 1]])
    <3> DEFINE entries == [key : Keys, child : Json[depth - 1]]
    <3>1. items \in Seq(entries)
      BY <2>1
    <3> HIDE DEF entries, items
    <3>2. Len(items) \in Nat /\ \A i \in 1..Len(items) : items[i] \in entries
      BY <3>1
    <3> QED
      BY <3>2 DEF entries
  <2>3. \A i \in 1..n : DictParts(lists, items)[i] = Part(lists, items[i])
    BY DEF DictParts
  <2>4. \A i \in 1..n : /\ Part(lists, items[i]) \in Seq(Texts)
                        /\ ToSet(Part(lists, items[i])) = FoundIn(sets, items[i])
    <3> HIDE DEF items, n
    <3> QED
      BY <1>1, <1>2, <2>2, PartsAgree
  <2>5. DictParts(lists, items) \in [1..n -> Seq(Texts)]
    BY <2>4 DEF DictParts
  <2>6. /\ Collected(DictParts(lists, items), n) \in Seq(Texts)
        /\ ToSet(Collected(DictParts(lists, items), n)) = Gathered(DictParts(lists, items), n)
    <3> HIDE DEF items, n
    <3> QED
      BY <2>2, <2>5, CollectedIs
  <2>7. ToSet(items) = {items[i] : i \in 1..n}
    <3> HIDE DEF items
    <3> QED
      BY <2>1, ToSetOfSeq
  <2>8. Gathered(DictParts(lists, items), n) = UNION {FoundIn(sets, item) : item \in ToSet(items)}
    <3> HIDE DEF items, n
    <3> QED
      BY <2>3, <2>4, <2>7 DEF Gathered
  <2> QED
    BY <1>3, <2>6, <2>8 DEF ListOf, SetOf
<1>4. CASE value.kind = "list"
  <2>1. items \in Seq(Json[depth - 1])
    BY <1>1, <1>4, Shape
  <2>2. n \in Nat /\ (\A i \in 1..n : items[i] \in Json[depth - 1])
    BY <2>1
  <2>3. \A i \in 1..n : ListParts(lists, items)[i] = lists[items[i]]
    BY DEF ListParts
  <2>4. \A i \in 1..n : lists[items[i]] \in Seq(Texts) /\ ToSet(lists[items[i]]) = sets[items[i]]
    <3> HIDE DEF items, n
    <3> QED
      BY <1>2, <2>2
  <2>5. ListParts(lists, items) \in [1..n -> Seq(Texts)]
    BY <2>4 DEF ListParts
  <2>6. /\ Collected(ListParts(lists, items), n) \in Seq(Texts)
        /\ ToSet(Collected(ListParts(lists, items), n)) = Gathered(ListParts(lists, items), n)
    <3> HIDE DEF items, n
    <3> QED
      BY <2>2, <2>5, CollectedIs
  <2>7. ToSet(items) = {items[i] : i \in 1..n}
    <3> HIDE DEF items
    <3> QED
      BY <2>1, ToSetOfSeq
  <2>8. Gathered(ListParts(lists, items), n) = UNION {sets[child] : child \in ToSet(items)}
    <3> HIDE DEF items, n
    <3> QED
      BY <2>3, <2>4, <2>7 DEF Gathered
  <2> QED
    BY <1>4, <2>6, <2>8 DEF ListOf, SetOf
<1>5. CASE value.kind # "dict" /\ value.kind # "list"
  <2>1. ListOf(lists, value) = <<>> /\ SetOf(sets, value) = {}
    BY <1>5 DEF ListOf, SetOf
  <2>2. <<>> \in Seq(Texts) /\ ToSet(<<>>) = {}
    BY DEF ToSet
  <2> QED
    BY <2>1, <2>2
<1> QED
  BY <1>3, <1>4, <1>5

(* The agent and the mock provider find the same ids in a tool's result,   *)
(* whatever it is: agent.py collects a set by one recursion, and           *)
(* mock_provider.py a sequence by another.                                 *)
SearchesAgree ==
    \A value \in Json[Depth] :
        /\ extract_event_ids(value) \in Seq(Texts)
        /\ ToSet(extract_event_ids(value)) = extract_tool_event_ids(value)

THEOREM ProviderFindsWhatAgentAllows == SearchesAgree
<1> DEFINE T == {depth \in 0..Depth : Agree(depth)}
<1>1. Depth \in Nat
  BY EventIdsAssumption
<1>2. 0 \in T
  BY <1>1, AtomsAgree
<1>3. ASSUME NEW n \in 0..Depth, n \in T /\ n < Depth PROVE n + 1 \in T
  <2>1. n + 1 \in 1..Depth /\ n + 1 \in 0..Depth /\ (n + 1) - 1 = n
    BY <1>1, <1>3
  <2>2. Agree(n + 1)
    BY <1>3, <2>1, ChildrenAgree
  <2> QED
    BY <2>1, <2>2
<1> HIDE DEF T
<1>4. 0..Depth \subseteq T
  BY <1>1, <1>2, <1>3, InductionUpTo
<1>5. Agree(Depth)
  BY <1>1, <1>4 DEF T
<1> QED
  BY <1>5 DEF Agree, SearchesAgree, extract_event_ids, extract_tool_event_ids

-----------------------------------------------------------------------------
(* The sequences of a finite set contain each of its elements.             *)
LEMMA PermutationIs ==
    ASSUME NEW S, IsFiniteSet(S), NEW s \in SetToSeqs(S)
    PROVE  /\ s \in Seq(S) /\ ToSet(s) = S
           /\ Len(s) = Cardinality(S)
<1> DEFINE n == Cardinality(S)
<1>1. n \in Nat
  BY FS_CardinalityType
<1>2. s \in [1..n -> S] /\ \A i, j \in 1..n : i # j => s[i] # s[j]
  BY DEF SetToSeqs
<1> HIDE DEF n
<1>3. s \in Seq(S) /\ Len(s) = n
  BY <1>1, <1>2
<1>4. ASSUME NEW x \in S, x \notin ToSet(s) PROVE FALSE
  <2>1. s \in [1..n -> S \ {x}]
    BY <1>2, <1>3, <1>4, ToSetOfSeq
  <2>2. IsFiniteSet(1..n) /\ Cardinality(1..n) = n
    BY <1>1, FS_Interval
  <2>3. IsFiniteSet(S \ {x}) /\ Cardinality(S \ {x}) = n - 1
    BY <1>4, FS_RemoveElement DEF n
  <2>4. Cardinality(S \ {x}) < Cardinality(1..n)
    BY <1>1, <2>2, <2>3
  <2>5. \E i, j \in 1..n : i # j /\ s[i] = s[j]
    <3> DEFINE places == 1..n
               others == S \ {x}
    <3>1. /\ IsFiniteSet(places) /\ IsFiniteSet(others)
          /\ Cardinality(others) < Cardinality(places) /\ s \in [places -> others]
      BY <2>1, <2>2, <2>3, <2>4
    <3> HIDE DEF places, others
    <3>2. \E i, j \in places : i # j /\ s[i] = s[j]
      BY <3>1, FS_PigeonHole
    <3> QED
      BY <3>2 DEF places
  <2> QED
    BY <1>2, <2>5
<1> QED
  BY <1>3, <1>4, ToSetOfSeq DEF n

LEMMA SomePermutation ==
    ASSUME NEW S, IsFiniteSet(S)
    PROVE  SetToSeq(S) \in Seq(S)
<1> DEFINE n == Cardinality(S)
<1>1. n \in Nat /\ ExistsBijection(1..n, S)
  BY FS_CardinalityType
<1>2. \E f \in [1..n -> S] : IsInjective(f)
  BY <1>1 DEF ExistsBijection, Bijection, Injection
<1>3. SetToSeq(S) \in [1..n -> S]
  BY <1>2 DEF SetToSeq
<1> HIDE DEF n
<1> QED
  BY <1>1, <1>3

(* A finite set of integers has a least element.                           *)
LEMMA Least ==
    ASSUME NEW S \in SUBSET Int, IsFiniteSet(S), S # {}
    PROVE  Min(S) \in S
<1> DEFINE HasLeast(U) == \E x \in U : \A y \in U : x <= y
           T == {n \in Nat : \A U \in SUBSET Int :
                    IsFiniteSet(U) /\ Cardinality(U) = n + 1 => HasLeast(U)}
<1>1. 0 \in T
  <2>1. ASSUME NEW U \in SUBSET Int, IsFiniteSet(U), Cardinality(U) = 1 PROVE HasLeast(U)
    <3>1. PICK x : U = {x}
      BY <2>1, FS_Singleton
    <3> QED
      BY <3>1
  <2> HIDE DEF HasLeast
  <2> QED
    BY <2>1
<1>2. ASSUME NEW n \in Nat, n \in T PROVE n + 1 \in T
  <2>1. ASSUME NEW U \in SUBSET Int, IsFiniteSet(U), Cardinality(U) = n + 2 PROVE HasLeast(U)
    <3>1. PICK x : x \in U
      BY <2>1, FS_EmptySet
    <3>2. IsFiniteSet(U \ {x}) /\ Cardinality(U \ {x}) = n + 1
      BY <2>1, <3>1, FS_RemoveElement
    <3>3. PICK z \in U \ {x} : \A y \in U \ {x} : z <= y
      BY <1>2, <3>2
    <3>4. CASE x <= z
      BY <3>1, <3>3, <3>4
    <3>5. CASE z <= x
      BY <3>1, <3>3, <3>5
    <3> QED
      BY <3>1, <3>3, <3>4, <3>5
  <2>2. (n + 1) + 1 = n + 2 /\ n + 1 \in Nat
    OBVIOUS
  <2> HIDE DEF HasLeast
  <2> QED
    BY <2>1, <2>2
<1>3. Nat \subseteq T
  <2> HIDE DEF T
  <2> QED
    BY <1>1, <1>2, Induction
<1>4. Cardinality(S) - 1 \in Nat
  BY FS_CardinalityType, FS_EmptySet
<1>5. HasLeast(S)
  <2>1. (Cardinality(S) - 1) + 1 = Cardinality(S)
    BY FS_CardinalityType
  <2> HIDE DEF HasLeast
  <2> QED
    BY <1>3, <1>4, <2>1
<1> QED
  BY <1>5 DEF Min

-----------------------------------------------------------------------------
(* What the agent finds in a value of each kind.                           *)
Found(depth, value) == IdSets[depth][value]

LEMMA AtomHas ==
    ASSUME NEW depth \in 0..Depth, NEW value \in Atoms
    PROVE  value \in Json[depth] /\ Found(depth, value) = {}
<1>1. value \in Json[depth]
  <2>1. depth = 0 \/ depth \in 1..Depth
    BY EventIdsAssumption
  <2> QED
    BY <2>1, JsonIs DEF NextLevel
<1>2. value.kind # "dict" /\ value.kind # "list"
  BY DEF Atoms, Number
<1>3. SetOf(IdSets[depth - 1], value) = {}
  BY <1>2 DEF SetOf
<1> QED
  BY <1>1, <1>3, SetsAre DEF Found

LEMMA ListHas ==
    ASSUME NEW depth \in 1..Depth, NEW items \in Seq(Json[depth - 1])
    PROVE  /\ List(items) \in Json[depth]
           /\ Found(depth, List(items)) =
                  UNION {Found(depth - 1, child) : child \in ToSet(items)}
<1>1. List(items) \in Json[depth] /\ List(items).kind = "list" /\ List(items).items = items
  BY JsonIs DEF NextLevel, List, Lists
<1>2. depth \in 0..Depth
  BY EventIdsAssumption
<1>3. Found(depth, List(items)) = SetOf(IdSets[depth - 1], List(items))
  BY <1>1, <1>2, SetsAre DEF Found
<1>4. SetOf(IdSets[depth - 1], List(items)) =
          UNION {IdSets[depth - 1][child] : child \in ToSet(items)}
  BY <1>1 DEF SetOf
<1> QED
  BY <1>1, <1>3, <1>4 DEF Found

(* A dict with one item in which anything is found.                        *)
Silent(depth, item) ==
    /\ item.key # "event_id" /\ item.key # "event_ids"
    /\ item.child \in Json[depth] /\ Found(depth, item.child) = {}

LEMMA DictHas ==
    ASSUME NEW depth \in 1..Depth,
           NEW items \in Seq([key : Keys, child : Json[depth - 1]]),
           NEW one \in ToSet(items),
           \A item \in ToSet(items) : item = one \/ Silent(depth - 1, item)
    PROVE  /\ Dict(items) \in Json[depth]
           /\ Found(depth, Dict(items)) = FoundIn(IdSets[depth - 1], one)
<1>1. Dict(items) \in Json[depth] /\ Dict(items).kind = "dict" /\ Dict(items).items = items
  BY JsonIs DEF NextLevel, Dict, Dicts
<1>2. depth \in 0..Depth
  BY EventIdsAssumption
<1>3. Found(depth, Dict(items)) = SetOf(IdSets[depth - 1], Dict(items))
  BY <1>1, <1>2, SetsAre DEF Found
<1>4. SetOf(IdSets[depth - 1], Dict(items)) =
          UNION {FoundIn(IdSets[depth - 1], item) : item \in ToSet(items)}
  BY <1>1 DEF SetOf
<1>5. \A item \in ToSet(items) : item # one => FoundIn(IdSets[depth - 1], item) = {}
  BY DEF Silent, FoundIn, Found, IsId, AreIds
<1> QED
  BY <1>1, <1>3, <1>4, <1>5

(* Items with an atom, an id, ids, and another value.                      *)
LEMMA AtomItem ==
    ASSUME NEW depth \in 0..Depth, NEW key \in Keys, NEW child \in Atoms
    PROVE  /\ Item(key, child) \in [key : Keys, child : Json[depth]]
           /\ key # "event_id" /\ key # "event_ids" => Silent(depth, Item(key, child))
  BY AtomHas DEF Item, Silent

LEMMA IdItem ==
    ASSUME NEW depth \in 0..Depth, NEW id \in Texts, "event_id" \in Keys
    PROVE  /\ Item("event_id", Text(id)) \in [key : Keys, child : Json[depth]]
           /\ FoundIn(IdSets[depth], Item("event_id", Text(id))) = {id}
<1>1. Text(id) \in Atoms
  BY DEF Text, Atoms
<1>2. Item("event_id", Text(id)) \in [key : Keys, child : Json[depth]]
  <2>1. Text(id) \in Json[depth]
    BY <1>1, AtomHas
  <2> QED
    BY <2>1 DEF Item
<1>3. IsId("event_id", Text(id)) /\ Text(id).text = id
  BY DEF IsId, Text
<1> QED
  BY <1>2, <1>3 DEF FoundIn, Item

LEMMA IdsItem ==
    ASSUME NEW depth \in 1..Depth, NEW ids \in Seq(Texts), "event_ids" \in Keys
    PROVE  /\ Item("event_ids", IdList(ids)) \in [key : Keys, child : Json[depth]]
           /\ FoundIn(IdSets[depth], Item("event_ids", IdList(ids))) = ToSet(ids)
<1> DEFINE texts == [i \in DOMAIN ids |-> Text(ids[i])]
<1>1. DOMAIN ids = 1..Len(ids) /\ Len(ids) \in Nat /\ \A i \in 1..Len(ids) : ids[i] \in Texts
  OBVIOUS
<1>2. \A text \in Texts : Text(text) \in Atoms /\ Text(text).kind = "str" /\ Text(text).text = text
  BY DEF Text, Atoms
<1>3. texts \in Seq(Atoms) /\ ToSet(texts) = {Text(ids[i]) : i \in 1..Len(ids)}
  <2>1. texts \in Seq(Atoms)
    BY <1>1, <1>2
  <2> QED
    BY <1>1, <2>1 DEF ToSet
<1>4. depth - 1 \in 0..Depth /\ depth \in 0..Depth
  BY EventIdsAssumption
<1>5. texts \in Seq(Json[depth - 1])
  <2>1. Atoms \subseteq Json[depth - 1]
    BY <1>4, AtomHas
  <2> HIDE DEF texts
  <2> QED
    BY <1>3, <2>1
<1>6. /\ IdList(ids) \in Json[depth]
      /\ IdList(ids).kind = "list" /\ IdList(ids).items = texts
  <2>1. IdList(ids) = List(texts)
    BY DEF IdList
  <2>2. List(texts).kind = "list" /\ List(texts).items = texts
    BY DEF List
  <2> HIDE DEF texts
  <2> QED
    BY <1>5, <2>1, <2>2, ListHas
<1>7. ToSet(Strings(IdList(ids))) =
          {item.text : item \in {item \in ToSet(texts) : item.kind = "str"}}
  <2> HIDE DEF texts
  <2> QED
    BY <1>4, <1>6, StringsAre
<1>8. {item.text : item \in {item \in ToSet(texts) : item.kind = "str"}} = ToSet(ids)
  <2>1. ToSet(ids) = {ids[i] : i \in 1..Len(ids)}
    BY ToSetOfSeq
  <2> HIDE DEF texts
  <2> QED
    BY <1>1, <1>2, <1>3, <2>1
<1>9. /\ ~IsId("event_ids", IdList(ids)) /\ AreIds("event_ids", IdList(ids))
  BY <1>6 DEF IsId, AreIds
<1>10. Item("event_ids", IdList(ids)) \in [key : Keys, child : Json[depth]]
  BY <1>6 DEF Item
<1>11. FoundIn(IdSets[depth], Item("event_ids", IdList(ids))) = ToSet(Strings(IdList(ids)))
  BY <1>9 DEF FoundIn, Item
<1> HIDE DEF texts
<1> QED
  BY <1>7, <1>8, <1>10, <1>11

LEMMA OtherItem ==
    ASSUME NEW depth \in 0..Depth, NEW key \in Keys \ {"event_id", "event_ids"},
           NEW child \in Json[depth]
    PROVE  /\ Item(key, child) \in [key : Keys, child : Json[depth]]
           /\ FoundIn(IdSets[depth], Item(key, child)) = Found(depth, child)
           /\ Found(depth, child) = {} => Silent(depth, Item(key, child))
  BY DEF Item, FoundIn, Found, Silent, IsId, AreIds

(* The items of a dict of up to five.                                      *)
LEMMA TwoItems ==
    ASSUME NEW S, NEW a \in S, NEW b \in S
    PROVE  <<a, b>> \in Seq(S) /\ ToSet(<<a, b>>) = {a, b}
  BY DEF ToSet

LEMMA ThreeItems ==
    ASSUME NEW S, NEW a \in S, NEW b \in S, NEW c \in S
    PROVE  <<a, b, c>> \in Seq(S) /\ ToSet(<<a, b, c>>) = {a, b, c}
  BY DEF ToSet

LEMMA FourItems ==
    ASSUME NEW S, NEW a \in S, NEW b \in S, NEW c \in S, NEW d \in S
    PROVE  <<a, b, c, d>> \in Seq(S) /\ ToSet(<<a, b, c, d>>) = {a, b, c, d}
  BY DEF ToSet

LEMMA FiveItems ==
    ASSUME NEW S, NEW a \in S, NEW b \in S, NEW c \in S, NEW d \in S, NEW e \in S
    PROVE  <<a, b, c, d, e>> \in Seq(S) /\ ToSet(<<a, b, c, d, e>>) = {a, b, c, d, e}
  BY DEF ToSet

-----------------------------------------------------------------------------
(* The tools' results.  Every column of a row is a text in a result.       *)
LEMMA ColumnsAreTexts ==
    ASSUME TableTypeOK, NEW n \in Ids
    PROVE  /\ n \in Texts /\ rows[n].at \in Int /\ rows[n].at \in Stamp
           /\ Text(rows[n].at) \in Atoms /\ Text(rows[n].name) \in Atoms
           /\ Text(rows[n].dest) \in Atoms
           /\ Window(n) \in Texts
<1>1. rows[n] \in Row /\ n \in RowId
  BY DEF TableTypeOK
<1>2. rows[n].at \in Stamp /\ rows[n].name \in Name /\ rows[n].dest \in Dest
  BY <1>1 DEF Row
<1>3. Window(n) \in {at \div Minute : at \in Stamp}
  BY <1>2 DEF Window
<1> QED
  BY <1>1, <1>2, <1>3, AgentToolsAssumption, EventTableAssumption DEF Text, Atoms

LEMMA PlainAtoms ==
    /\ Number \in Atoms
    /\ \A text \in Texts : Text(text) \in Atoms
    /\ \A value \in BOOLEAN : Flag(value) \in Atoms
  BY DEF Number, Text, Flag, Atoms

LEMMA ToolKeysAreKeys ==
    /\ "pid" \in Keys /\ "process_name" \in Keys /\ "connection_count" \in Keys
    /\ "event_id" \in Keys /\ "event_ids" \in Keys /\ "event_count" \in Keys
    /\ "events" \in Keys /\ "timestamp" \in Keys /\ "destination_ip" \in Keys
    /\ "minutes" \in Keys /\ "processes" \in Keys /\ "window_start" \in Keys
    /\ "threshold" \in Keys /\ "bursts" \in Keys /\ "first_seen" \in Keys
    /\ "unusual_destinations" \in Keys /\ "lookback_hours" \in Keys
    /\ "returned_event_count" \in Keys /\ "truncated" \in Keys
    /\ "timeline" \in Keys /\ "destinations" \in Keys
  BY AgentToolsAssumption DEF ToolKeys

LEMMA EventEntryHas ==
    ASSUME TableTypeOK, NEW n \in Ids, NEW depth \in 1..Depth
    PROVE  EventEntry(n) \in Json[depth] /\ Found(depth, EventEntry(n)) = {n}
<1> DEFINE S == [key : Keys, child : Json[depth - 1]]
           a == Item("event_id", Text(n))
           b == Item("timestamp", Text(rows[n].at))
           c == Item("process_name", Text(rows[n].name))
           d == Item("destination_ip", Text(rows[n].dest))
           items == <<a, b, c, d>>
<1>1. depth - 1 \in 0..Depth
  BY EventIdsAssumption
<1>2. a \in S /\ FoundIn(IdSets[depth - 1], a) = {n}
  BY <1>1, ColumnsAreTexts, ToolKeysAreKeys, IdItem
<1>3. /\ b \in S /\ Silent(depth - 1, b)
      /\ c \in S /\ Silent(depth - 1, c)
      /\ d \in S /\ Silent(depth - 1, d)
  BY <1>1, ColumnsAreTexts, ToolKeysAreKeys, AtomItem
<1>4. items \in Seq(S) /\ ToSet(items) = {a, b, c, d}
  <2> HIDE DEF S, a, b, c, d
  <2> QED
    BY <1>2, <1>3, FourItems
<1>5. Dict(items) \in Json[depth] /\ Found(depth, Dict(items)) = FoundIn(IdSets[depth - 1], a)
  <2> HIDE DEF a, b, c, d, items
  <2>1. /\ a \in ToSet(items)
        /\ \A item \in ToSet(items) : item = a \/ Silent(depth - 1, item)
    BY <1>3, <1>4
  <2>2. /\ Dict(items) \in Json[depth]
        /\ Found(depth, Dict(items)) = FoundIn(IdSets[depth - 1], a)
    BY <1>3, <1>4, <2>1, DictHas
  <2> QED
    BY <1>3, <1>4, <2>2
<1>6. EventEntry(n) = Dict(items)
  BY DEF EventEntry
<1> QED
  BY <1>2, <1>5, <1>6

(* An entry of several events shows their ids, and nothing else.           *)
LEMMA IdsOfRows ==
    ASSUME TableTypeOK, NEW ids \in Seq(Ids), NEW depth \in 2..Depth
    PROVE  /\ depth - 1 \in 1..Depth /\ depth - 1 \in 0..Depth /\ depth \in 1..Depth
           /\ Item("event_ids", IdList(ids)) \in [key : Keys, child : Json[depth - 1]]
           /\ FoundIn(IdSets[depth - 1], Item("event_ids", IdList(ids))) = ToSet(ids)
           /\ ids # <<>> => ids[1] \in Ids
<1>1. depth - 1 \in 1..Depth /\ depth - 1 \in 0..Depth /\ depth \in 1..Depth
  BY EventIdsAssumption
<1>2. Ids \subseteq Texts
  BY ColumnsAreTexts
<1>3. ids \in Seq(Texts)
  BY <1>2
<1>4. ids # <<>> => ids[1] \in Ids
  BY EmptySeq
<1> QED
  BY <1>1, <1>3, <1>4, ToolKeysAreKeys, IdsItem

LEMMA ProcessGroupHas ==
    ASSUME TableTypeOK, NEW ids \in Seq(Ids), ids # <<>>, NEW depth \in 2..Depth
    PROVE  ProcessGroup(ids) \in Json[depth] /\ Found(depth, ProcessGroup(ids)) = ToSet(ids)
<1> DEFINE S == [key : Keys, child : Json[depth - 1]]
           a == Item("pid", Number)
           b == Item("process_name", Text(rows[ids[1]].name))
           c == Item("connection_count", Number)
           d == Item("event_ids", IdList(ids))
           items == <<a, b, c, d>>
<1>1. /\ depth - 1 \in 0..Depth /\ depth \in 1..Depth
      /\ d \in S /\ FoundIn(IdSets[depth - 1], d) = ToSet(ids) /\ ids[1] \in Ids
  BY IdsOfRows
<1>2. /\ a \in S /\ Silent(depth - 1, a)
      /\ b \in S /\ Silent(depth - 1, b)
      /\ c \in S /\ Silent(depth - 1, c)
  BY <1>1, ColumnsAreTexts, PlainAtoms, ToolKeysAreKeys, AtomItem
<1>3. items \in Seq(S) /\ ToSet(items) = {a, b, c, d}
  <2> HIDE DEF S, a, b, c, d
  <2> QED
    BY <1>1, <1>2, FourItems
<1>4. Dict(items) \in Json[depth] /\ Found(depth, Dict(items)) = FoundIn(IdSets[depth - 1], d)
  <2> HIDE DEF a, b, c, d, items
  <2>1. /\ d \in ToSet(items)
        /\ \A item \in ToSet(items) : item = d \/ Silent(depth - 1, item)
    BY <1>1, <1>2, <1>3
  <2>2. /\ Dict(items) \in Json[depth]
        /\ Found(depth, Dict(items)) = FoundIn(IdSets[depth - 1], d)
    BY <1>1, <1>2, <1>3, <2>1, DictHas
  <2> QED
    BY <1>1, <1>2, <1>3, <2>2
<1>5. ProcessGroup(ids) = Dict(items)
  BY DEF ProcessGroup
<1> QED
  BY <1>1, <1>4, <1>5

LEMMA BurstGroupHas ==
    ASSUME TableTypeOK, NEW ids \in Seq(Ids), ids # <<>>, NEW depth \in 2..Depth
    PROVE  BurstGroup(ids) \in Json[depth] /\ Found(depth, BurstGroup(ids)) = ToSet(ids)
<1> DEFINE S == [key : Keys, child : Json[depth - 1]]
           a == Item("pid", Number)
           b == Item("process_name", Text(rows[ids[1]].name))
           c == Item("window_start", Text(Window(ids[1])))
           d == Item("connection_count", Number)
           e == Item("event_ids", IdList(ids))
           items == <<a, b, c, d, e>>
<1>1. /\ depth - 1 \in 0..Depth /\ depth \in 1..Depth
      /\ e \in S /\ FoundIn(IdSets[depth - 1], e) = ToSet(ids) /\ ids[1] \in Ids
  BY IdsOfRows
<1>2. /\ a \in S /\ Silent(depth - 1, a)
      /\ b \in S /\ Silent(depth - 1, b)
      /\ c \in S /\ Silent(depth - 1, c)
      /\ d \in S /\ Silent(depth - 1, d)
  BY <1>1, ColumnsAreTexts, PlainAtoms, ToolKeysAreKeys, AtomItem
<1>3. items \in Seq(S) /\ ToSet(items) = {a, b, c, d, e}
  <2> HIDE DEF S, a, b, c, d, e
  <2> QED
    BY <1>1, <1>2, FiveItems
<1>4. Dict(items) \in Json[depth] /\ Found(depth, Dict(items)) = FoundIn(IdSets[depth - 1], e)
  <2> HIDE DEF a, b, c, d, e, items
  <2>1. /\ e \in ToSet(items)
        /\ \A item \in ToSet(items) : item = e \/ Silent(depth - 1, item)
    BY <1>1, <1>2, <1>3
  <2>2. /\ Dict(items) \in Json[depth]
        /\ Found(depth, Dict(items)) = FoundIn(IdSets[depth - 1], e)
    BY <1>1, <1>2, <1>3, <2>1, DictHas
  <2> QED
    BY <1>1, <1>2, <1>3, <2>2
<1>5. BurstGroup(ids) = Dict(items)
  BY DEF BurstGroup
<1> QED
  BY <1>1, <1>4, <1>5

LEMMA UnusualGroupHas ==
    ASSUME TableTypeOK, NEW ids \in Seq(Ids), ids # <<>>, NEW depth \in 2..Depth
    PROVE  UnusualGroup(ids) \in Json[depth] /\ Found(depth, UnusualGroup(ids)) = ToSet(ids)
<1> DEFINE S == [key : Keys, child : Json[depth - 1]]
           a == Item("destination_ip", Text(rows[ids[1]].dest))
           b == Item("first_seen", Text(FirstSeen(ToSet(ids))))
           c == Item("event_ids", IdList(ids))
           items == <<a, b, c>>
<1>1. /\ depth - 1 \in 0..Depth /\ depth \in 1..Depth
      /\ c \in S /\ FoundIn(IdSets[depth - 1], c) = ToSet(ids) /\ ids[1] \in Ids
  BY IdsOfRows
<1>2. Text(FirstSeen(ToSet(ids))) \in Atoms
  <2> DEFINE times == {rows[n].at : n \in ToSet(ids)}
  <2>1. ToSet(ids) \subseteq Ids /\ ToSet(ids) # {}
    BY ToSetOfSeq
  <2>2. IsFiniteSet(ToSet(ids))
    BY <2>1, FS_Subset DEF TableTypeOK
  <2>3. [n \in ToSet(ids) |-> rows[n].at] \in Surjection(ToSet(ids), times)
    BY DEF Surjection
  <2>4. IsFiniteSet(times)
    <3> HIDE DEF times
    <3> QED
      BY <2>2, <2>3, FS_Surjection
  <2>5. times \subseteq Stamp /\ times # {} /\ Stamp \subseteq Int
    BY <2>1, ColumnsAreTexts, EventTableAssumption
  <2>6. FirstSeen(ToSet(ids)) = Min(times)
    BY DEF FirstSeen
  <2> HIDE DEF times
  <2>7. Min(times) \in times
    BY <2>4, <2>5, Least
  <2>8. Min(times) \in Texts
    BY <2>5, <2>7, AgentToolsAssumption
  <2> QED
    BY <2>6, <2>8, PlainAtoms
<1>3. /\ a \in S /\ Silent(depth - 1, a)
      /\ b \in S /\ Silent(depth - 1, b)
  BY <1>1, <1>2, ColumnsAreTexts, ToolKeysAreKeys, AtomItem
<1>4. items \in Seq(S) /\ ToSet(items) = {a, b, c}
  <2> HIDE DEF S, a, b, c
  <2> QED
    BY <1>1, <1>3, ThreeItems
<1>5. Dict(items) \in Json[depth] /\ Found(depth, Dict(items)) = FoundIn(IdSets[depth - 1], c)
  <2> HIDE DEF a, b, c, items
  <2>1. /\ c \in ToSet(items)
        /\ \A item \in ToSet(items) : item = c \/ Silent(depth - 1, item)
    BY <1>1, <1>3, <1>4
  <2>2. /\ Dict(items) \in Json[depth]
        /\ Found(depth, Dict(items)) = FoundIn(IdSets[depth - 1], c)
    BY <1>1, <1>3, <1>4, <2>1, DictHas
  <2> QED
    BY <1>1, <1>3, <1>4, <2>2
<1>6. UnusualGroup(ids) = Dict(items)
  BY DEF UnusualGroup
<1> QED
  BY <1>1, <1>5, <1>6

(* The list of a tool's entries shows what they show.                      *)
LEMMA EntriesHave ==
    ASSUME NEW depth \in 1..Depth, NEW n \in Nat, NEW ids, NEW entries \in [1..n -> Json[depth - 1]],
           \A i \in 1..n : Found(depth - 1, entries[i]) = ToSet(ids[i])
    PROVE  /\ List(entries) \in Json[depth]
           /\ Found(depth, List(entries)) = Gathered(ids, n)
<1>1. entries \in Seq(Json[depth - 1]) /\ Len(entries) = n
  OBVIOUS
<1>2. /\ List(entries) \in Json[depth]
      /\ Found(depth, List(entries)) = UNION {Found(depth - 1, child) : child \in ToSet(entries)}
  BY <1>1, ListHas
<1>3. ToSet(entries) = {entries[i] : i \in 1..n}
  BY <1>1, ToSetOfSeq
<1> QED
  BY <1>2, <1>3 DEF Gathered

(* The groups of a query: of rows, and none of them empty.                 *)
Groups(groups) ==
    /\ IsFiniteSet(groups)
    /\ \A g \in groups : g \subseteq Ids /\ g # {}

LEMMA RankedRows ==
    ASSUME TableTypeOK, NEW groups, Groups(groups), NEW rank, NEW ids \in InRank(groups, rank)
    PROVE  \E n \in Nat :
               /\ ids \in [1..n -> Seq(Ids)]
               /\ \A i \in 1..n : ids[i] # <<>>
               /\ Gathered(ids, n) = UNION groups
<1>1. PICK order \in SetToSeqs(groups) : ids \in SeqOfAggregates(order)
  BY DEF InRank
<1> DEFINE n == Len(order)
<1>2. order \in Seq(groups) /\ ToSet(order) = groups
  BY PermutationIs DEF Groups
<1>3. n \in Nat /\ DOMAIN order = 1..n /\ \A i \in 1..n : order[i] \in groups
  BY <1>2
<1>4. \A i \in 1..n : ids[i] \in SetToSeqs(order[i])
  BY <1>1, <1>3 DEF SeqOfAggregates, Aggregates
<1>5. DOMAIN ids = 1..n /\ ids = [i \in 1..n |-> ids[i]]
  BY <1>1, <1>3 DEF SeqOfAggregates
<1> HIDE DEF n
<1>6. ASSUME NEW i \in 1..n
      PROVE  ids[i] \in Seq(Ids) /\ ToSet(ids[i]) = order[i] /\ ids[i] # <<>>
  <2>1. order[i] \subseteq Ids /\ order[i] # {}
    BY <1>3 DEF Groups
  <2>2. IsFiniteSet(order[i])
    BY <2>1, FS_Subset DEF TableTypeOK
  <2>3. ids[i] \in Seq(order[i]) /\ ToSet(ids[i]) = order[i]
    BY <1>4, <2>2, PermutationIs
  <2>4. ids[i] \in Seq(Ids)
    BY <2>1, <2>3
  <2> QED
    BY <2>1, <2>3, <2>4, ToSetOfSeq
<1>7. ids \in [1..n -> Seq(Ids)]
  BY <1>5, <1>6
<1>8. Gathered(ids, n) = UNION {order[i] : i \in 1..n}
  BY <1>6 DEF Gathered
<1>9. {order[i] : i \in 1..n} = groups
  BY <1>2, ToSetOfSeq DEF n
<1> QED
  BY <1>3, <1>6, <1>7, <1>8, <1>9

LEMMA GroupsOfRows ==
    ASSUME TableTypeOK, NEW groups, \A g \in groups : g \subseteq Ids /\ g # {}
    PROVE  Groups(groups)
<1>1. IsFiniteSet(SUBSET Ids)
  BY FS_SUBSET DEF TableTypeOK
<1>2. groups \subseteq SUBSET Ids
  OBVIOUS
<1> QED
  BY <1>1, <1>2, FS_Subset DEF Groups

LEMMA BurstsAreGroups ==
    ASSUME TableTypeOK, NEW threshold, NEW minutes
    PROVE  Groups(RecentBursts(threshold, minutes))
<1>1. \A g \in RecentBursts(threshold, minutes) : g \subseteq Ids /\ g # {}
  BY DEF RecentBursts, Bursts, GroupBy, Since
<1> QED
  BY <1>1, GroupsOfRows

LEMMA TopAreGroups ==
    ASSUME TableTypeOK, NEW limit, NEW minutes, NEW top \in TopProcesses(minutes, limit)
    PROVE  Groups(top)
<1>1. \A g \in top : g \subseteq Ids /\ g # {}
  BY DEF TopProcesses, GroupBy, Since
<1> QED
  BY <1>1, GroupsOfRows

-----------------------------------------------------------------------------
(* What a tool returns: a JSON value that shows the ids of some rows.      *)
Shows(result, ids) == result \in Json[Depth] /\ extract_tool_event_ids(result) = ids

LEMMA TopShown ==
    ASSUME TableTypeOK, NEW top, Groups(top), NEW result \in get_top_network_processes(top)
    PROVE  Shows(result, UNION top)
<1>1. PICK ids \in InRank(top, CountDescending(top)) :
          result = Dict(<< Item("minutes", Number),
                           Item("processes", List([i \in DOMAIN ids |-> ProcessGroup(ids[i])])) >>)
  BY DEF get_top_network_processes
<1>2. PICK n \in Nat : /\ ids \in [1..n -> Seq(Ids)]
                       /\ \A i \in 1..n : ids[i] # <<>>
                       /\ Gathered(ids, n) = UNION top
  BY RankedRows
<1> DEFINE entries == [i \in DOMAIN ids |-> ProcessGroup(ids[i])]
           S == [key : Keys, child : Json[Depth - 1]]
           a == Item("minutes", Number)
           b == Item("processes", List(entries))
           items == <<a, b>>
<1>3. /\ Depth - 2 \in 2..Depth /\ Depth - 1 \in 1..Depth /\ Depth - 1 \in 0..Depth
      /\ Depth \in 1..Depth /\ (Depth - 1) - 1 = Depth - 2
  BY EventIdsAssumption, AgentToolsAssumption
<1>4. \A i \in 1..n : /\ ProcessGroup(ids[i]) \in Json[Depth - 2]
                      /\ Found(Depth - 2, ProcessGroup(ids[i])) = ToSet(ids[i])
  BY <1>2, <1>3, ProcessGroupHas
<1>5. /\ entries \in [1..n -> Json[Depth - 2]]
      /\ \A i \in 1..n : Found(Depth - 2, entries[i]) = ToSet(ids[i])
  BY <1>2, <1>4
<1>6. List(entries) \in Json[Depth - 1] /\ Found(Depth - 1, List(entries)) = UNION top
  <2> HIDE DEF entries
  <2>1. /\ entries \in [1..n -> Json[(Depth - 1) - 1]]
        /\ \A i \in 1..n : Found((Depth - 1) - 1, entries[i]) = ToSet(ids[i])
    BY <1>3, <1>5
  <2>2. List(entries) \in Json[Depth - 1] /\ Found(Depth - 1, List(entries)) = Gathered(ids, n)
    BY <1>2, <1>3, <2>1, EntriesHave
  <2> QED
    BY <1>2, <2>2
<1>7. a \in S /\ Silent(Depth - 1, a)
  BY <1>3, PlainAtoms, ToolKeysAreKeys, AtomItem
<1>8. b \in S /\ FoundIn(IdSets[Depth - 1], b) = UNION top
  <2> HIDE DEF entries
  <2> QED
    BY <1>3, <1>6, ToolKeysAreKeys, OtherItem
<1>9. items \in Seq(S) /\ ToSet(items) = {a, b}
  <2> HIDE DEF S, a, b
  <2> QED
    BY <1>7, <1>8, TwoItems
<1>10. Dict(items) \in Json[Depth] /\ Found(Depth, Dict(items)) = UNION top
  <2> HIDE DEF a, b, items
  <2>1. /\ b \in ToSet(items)
        /\ \A item \in ToSet(items) : item = b \/ Silent(Depth - 1, item)
    BY <1>3, <1>7, <1>8, <1>9
  <2>2. /\ Dict(items) \in Json[Depth]
        /\ Found(Depth, Dict(items)) = FoundIn(IdSets[Depth - 1], b)
    BY <1>3, <1>7, <1>8, <1>9, <2>1, DictHas
  <2> QED
    BY <1>3, <1>7, <1>8, <1>9, <2>2
<1> QED
  BY <1>1, <1>10 DEF Shows, extract_tool_event_ids, Found

LEMMA BurstsShown ==
    ASSUME TableTypeOK, NEW bursts, Groups(bursts), NEW result \in find_connection_bursts(bursts)
    PROVE  Shows(result, UNION bursts)
<1>1. PICK ids \in InRank(bursts, CountDescending(bursts)) :
          result = Dict(<< Item("threshold", Number), Item("minutes", Number),
                           Item("bursts", List([i \in DOMAIN ids |-> BurstGroup(ids[i])])) >>)
  BY DEF find_connection_bursts
<1>2. PICK n \in Nat : /\ ids \in [1..n -> Seq(Ids)]
                       /\ \A i \in 1..n : ids[i] # <<>>
                       /\ Gathered(ids, n) = UNION bursts
  BY RankedRows
<1> DEFINE entries == [i \in DOMAIN ids |-> BurstGroup(ids[i])]
           S == [key : Keys, child : Json[Depth - 1]]
           a == Item("threshold", Number)
           b == Item("minutes", Number)
           c == Item("bursts", List(entries))
           items == <<a, b, c>>
<1>3. /\ Depth - 2 \in 2..Depth /\ Depth - 1 \in 1..Depth /\ Depth - 1 \in 0..Depth
      /\ Depth \in 1..Depth /\ (Depth - 1) - 1 = Depth - 2
  BY EventIdsAssumption, AgentToolsAssumption
<1>4. \A i \in 1..n : /\ BurstGroup(ids[i]) \in Json[Depth - 2]
                      /\ Found(Depth - 2, BurstGroup(ids[i])) = ToSet(ids[i])
  BY <1>2, <1>3, BurstGroupHas
<1>5. /\ entries \in [1..n -> Json[Depth - 2]]
      /\ \A i \in 1..n : Found(Depth - 2, entries[i]) = ToSet(ids[i])
  BY <1>2, <1>4
<1>6. List(entries) \in Json[Depth - 1] /\ Found(Depth - 1, List(entries)) = UNION bursts
  <2> HIDE DEF entries
  <2>1. /\ entries \in [1..n -> Json[(Depth - 1) - 1]]
        /\ \A i \in 1..n : Found((Depth - 1) - 1, entries[i]) = ToSet(ids[i])
    BY <1>3, <1>5
  <2>2. List(entries) \in Json[Depth - 1] /\ Found(Depth - 1, List(entries)) = Gathered(ids, n)
    BY <1>2, <1>3, <2>1, EntriesHave
  <2> QED
    BY <1>2, <2>2
<1>7. a \in S /\ Silent(Depth - 1, a) /\ b \in S /\ Silent(Depth - 1, b)
  BY <1>3, PlainAtoms, ToolKeysAreKeys, AtomItem
<1>8. c \in S /\ FoundIn(IdSets[Depth - 1], c) = UNION bursts
  <2> HIDE DEF entries
  <2> QED
    BY <1>3, <1>6, ToolKeysAreKeys, OtherItem
<1>9. items \in Seq(S) /\ ToSet(items) = {a, b, c}
  <2> HIDE DEF S, a, b, c
  <2> QED
    BY <1>7, <1>8, ThreeItems
<1>10. Dict(items) \in Json[Depth] /\ Found(Depth, Dict(items)) = UNION bursts
  <2> HIDE DEF a, b, c, items
  <2>1. /\ c \in ToSet(items)
        /\ \A item \in ToSet(items) : item = c \/ Silent(Depth - 1, item)
    BY <1>3, <1>7, <1>8, <1>9
  <2>2. /\ Dict(items) \in Json[Depth]
        /\ Found(Depth, Dict(items)) = FoundIn(IdSets[Depth - 1], c)
    BY <1>3, <1>7, <1>8, <1>9, <2>1, DictHas
  <2> QED
    BY <1>3, <1>7, <1>8, <1>9, <2>2
<1> QED
  BY <1>1, <1>10 DEF Shows, extract_tool_event_ids, Found

LEMMA UnusualShown ==
    ASSUME TableTypeOK, NEW unusual, Groups(unusual),
           NEW result \in find_unusual_destinations(unusual)
    PROVE  Shows(result, UNION unusual)
<1> DEFINE rank == [g \in unusual |-> FirstSeen(g)]
<1>1. PICK ids \in InRank(unusual, rank) :
          result = Dict(<< Item("pid", Number), Item("unusual_destinations",
                           List([i \in DOMAIN ids |-> UnusualGroup(ids[i])])) >>)
  BY DEF find_unusual_destinations
<1> HIDE DEF rank
<1>2. PICK n \in Nat : /\ ids \in [1..n -> Seq(Ids)]
                       /\ \A i \in 1..n : ids[i] # <<>>
                       /\ Gathered(ids, n) = UNION unusual
  BY RankedRows
<1> DEFINE entries == [i \in DOMAIN ids |-> UnusualGroup(ids[i])]
           S == [key : Keys, child : Json[Depth - 1]]
           a == Item("pid", Number)
           b == Item("unusual_destinations", List(entries))
           items == <<a, b>>
<1>3. /\ Depth - 2 \in 2..Depth /\ Depth - 1 \in 1..Depth /\ Depth - 1 \in 0..Depth
      /\ Depth \in 1..Depth /\ (Depth - 1) - 1 = Depth - 2
  BY EventIdsAssumption, AgentToolsAssumption
<1>4. \A i \in 1..n : /\ UnusualGroup(ids[i]) \in Json[Depth - 2]
                      /\ Found(Depth - 2, UnusualGroup(ids[i])) = ToSet(ids[i])
  BY <1>2, <1>3, UnusualGroupHas
<1>5. /\ entries \in [1..n -> Json[Depth - 2]]
      /\ \A i \in 1..n : Found(Depth - 2, entries[i]) = ToSet(ids[i])
  BY <1>2, <1>4
<1>6. List(entries) \in Json[Depth - 1] /\ Found(Depth - 1, List(entries)) = UNION unusual
  <2> HIDE DEF entries
  <2>1. /\ entries \in [1..n -> Json[(Depth - 1) - 1]]
        /\ \A i \in 1..n : Found((Depth - 1) - 1, entries[i]) = ToSet(ids[i])
    BY <1>3, <1>5
  <2>2. List(entries) \in Json[Depth - 1] /\ Found(Depth - 1, List(entries)) = Gathered(ids, n)
    BY <1>2, <1>3, <2>1, EntriesHave
  <2> QED
    BY <1>2, <2>2
<1>7. a \in S /\ Silent(Depth - 1, a)
  BY <1>3, PlainAtoms, ToolKeysAreKeys, AtomItem
<1>8. b \in S /\ FoundIn(IdSets[Depth - 1], b) = UNION unusual
  <2> HIDE DEF entries
  <2> QED
    BY <1>3, <1>6, ToolKeysAreKeys, OtherItem
<1>9. items \in Seq(S) /\ ToSet(items) = {a, b}
  <2> HIDE DEF S, a, b
  <2> QED
    BY <1>7, <1>8, TwoItems
<1>10. Dict(items) \in Json[Depth] /\ Found(Depth, Dict(items)) = UNION unusual
  <2> HIDE DEF a, b, items
  <2>1. /\ b \in ToSet(items)
        /\ \A item \in ToSet(items) : item = b \/ Silent(Depth - 1, item)
    BY <1>3, <1>7, <1>8, <1>9
  <2>2. /\ Dict(items) \in Json[Depth]
        /\ Found(Depth, Dict(items)) = FoundIn(IdSets[Depth - 1], b)
    BY <1>3, <1>7, <1>8, <1>9, <2>1, DictHas
  <2> QED
    BY <1>3, <1>7, <1>8, <1>9, <2>2
<1> QED
  BY <1>1, <1>10 DEF Shows, extract_tool_event_ids, Found

(* A query's rows in the order of time, and as many of them as its LIMIT.  *)
LEMMA OrderedRows ==
    ASSUME TableTypeOK, NEW ids \in SUBSET Ids, NEW s \in InOrder(ids)
    PROVE  /\ s \in Seq(ids) /\ ToSet(s) = ids /\ Len(s) \in Nat /\ s \in Seq(Ids)
           /\ \A i, j \in 1..Len(s) : i < j => rows[s[i]].at <= rows[s[j]].at
           /\ Shorter(s) \in 0..Len(s)
           /\ Shorter(s) # Len(s) => Shorter(s) = MaxEvents
<1>1. IsFiniteSet(ids) /\ s \in SetToSeqs(ids)
  BY FS_Subset DEF TableTypeOK, InOrder
<1>2. s \in Seq(ids) /\ ToSet(s) = ids
  BY <1>1, PermutationIs
<1>3. DOMAIN s = 1..Len(s) /\ Len(s) \in Nat /\ s \in Seq(Ids)
  BY <1>2
<1>4. \A i, j \in 1..Len(s) : i < j => rows[s[i]].at <= rows[s[j]].at
  BY <1>3 DEF InOrder
<1> QED
  BY <1>2, <1>3, <1>4, AgentToolsAssumption DEF Shorter

LEMMA ConnectionsTyped ==
    ASSUME TableTypeOK, NEW pid, NEW start, NEW end,
           NEW events \in SelectConnections(pid, start, end)
    PROVE  events \in Seq(Ids)
<1> DEFINE ids == {n \in OfPid(pid) : rows[n].at \in start..end}
<1>1. PICK s \in InOrder(ids) : events = SubSeq(s, 1, Shorter(s))
  BY DEF SelectConnections
<1>2. ids \subseteq Ids
  BY DEF OfPid
<1> HIDE DEF ids
<1>3. /\ s \in Seq(Ids) /\ Len(s) \in Nat /\ Shorter(s) \in 0..Len(s)
  BY <1>2, OrderedRows
<1>4. \A i \in 1..Shorter(s) : s[i] \in Ids
  BY <1>3
<1> QED
  BY <1>1, <1>3, <1>4, SubSeqProperties

(* The newest events of the last day: the tail of all of them.             *)
LEMMA TimelineTyped ==
    ASSUME TableTypeOK, NEW pid, NEW events \in SelectTimeline(pid)
    PROVE  events \in Seq(Ids) /\ \A n \in ToSet(events) : n \in Ids /\ rows[n].pid = pid
<1> DEFINE ids == OfPid(pid) \cap Since(Cutoff(Day))
<1>1. PICK s \in InOrder(ids) : events = SubSeq(s, Len(s) - Shorter(s) + 1, Len(s))
  BY DEF SelectTimeline
<1>2. ids \subseteq Ids /\ \A n \in ids : rows[n].pid = pid
  BY DEF OfPid
<1> HIDE DEF ids
<1>3. s \in Seq(ids) /\ Len(s) \in Nat /\ Shorter(s) \in 0..Len(s)
  BY <1>2, OrderedRows
<1> DEFINE first == Len(s) - Shorter(s) + 1
<1>4. first \in Int /\ Len(s) \in Int /\ \A i \in first..Len(s) : s[i] \in ids
  BY <1>3
<1> HIDE DEF first
<1>5. SubSeq(s, first, Len(s)) \in Seq(ids)
  BY <1>4, SubSeqProperties
<1>6. events \in Seq(ids)
  BY <1>1, <1>5 DEF first
<1>7. events \in Seq(Ids) /\ ToSet(events) \subseteq ids
  BY <1>2, <1>6, ToSetOfSeq
<1> QED
  BY <1>2, <1>7

LEMMA ConnectionsShown ==
    ASSUME TableTypeOK, NEW events \in Seq(Ids)
    PROVE  Shows(get_process_connections(events), ToSet(events))
<1> DEFINE n == Len(events)
           ids == [i \in 1..n |-> <<events[i]>>]
           entries == [i \in DOMAIN events |-> EventEntry(events[i])]
           S == [key : Keys, child : Json[Depth - 1]]
           a == Item("pid", Number)
           b == Item("event_count", Number)
           c == Item("events", List(entries))
           items == <<a, b, c>>
<1>1. n \in Nat /\ DOMAIN events = 1..n /\ \A i \in 1..n : events[i] \in Ids
  OBVIOUS
<1>2. /\ (Depth - 1) - 1 \in 1..Depth /\ Depth - 1 \in 1..Depth /\ Depth - 1 \in 0..Depth
      /\ Depth \in 1..Depth
  BY EventIdsAssumption, AgentToolsAssumption
<1>3. \A i \in 1..n : /\ EventEntry(events[i]) \in Json[(Depth - 1) - 1]
                      /\ Found((Depth - 1) - 1, EventEntry(events[i])) = {events[i]}
  BY <1>1, <1>2, EventEntryHas
<1>4. \A i \in 1..n : ToSet(ids[i]) = {events[i]}
  BY DEF ToSet
<1>5. /\ entries \in [1..n -> Json[(Depth - 1) - 1]]
      /\ \A i \in 1..n : Found((Depth - 1) - 1, entries[i]) = ToSet(ids[i])
  BY <1>1, <1>3, <1>4
<1>6. Gathered(ids, n) = ToSet(events)
  <2>1. ToSet(events) = {events[i] : i \in 1..n}
    BY ToSetOfSeq
  <2>2. {ToSet(ids[i]) : i \in 1..n} = {{events[i]} : i \in 1..n}
    <3> HIDE DEF ids, n
    <3> QED
      BY <1>4
  <2>3. UNION {{events[i]} : i \in 1..n} = {events[i] : i \in 1..n}
    OBVIOUS
  <2> HIDE DEF ids, n
  <2> QED
    BY <2>1, <2>2, <2>3 DEF Gathered
<1>7. List(entries) \in Json[Depth - 1] /\ Found(Depth - 1, List(entries)) = ToSet(events)
  <2> HIDE DEF entries, n, ids
  <2> QED
    BY <1>1, <1>2, <1>5, <1>6, EntriesHave
<1>8. a \in S /\ Silent(Depth - 1, a) /\ b \in S /\ Silent(Depth - 1, b)
  BY <1>2, PlainAtoms, ToolKeysAreKeys, AtomItem
<1>9. c \in S /\ FoundIn(IdSets[Depth - 1], c) = ToSet(events)
  <2> HIDE DEF entries
  <2> QED
    BY <1>2, <1>7, ToolKeysAreKeys, OtherItem
<1>10. items \in Seq(S) /\ ToSet(items) = {a, b, c}
  <2> HIDE DEF S, a, b, c
  <2> QED
    BY <1>8, <1>9, ThreeItems
<1>11. Dict(items) \in Json[Depth] /\ Found(Depth, Dict(items)) = ToSet(events)
  <2> HIDE DEF a, b, c, items
  <2>1. /\ c \in ToSet(items)
        /\ \A item \in ToSet(items) : item = c \/ Silent(Depth - 1, item)
    BY <1>8, <1>9, <1>10
  <2>2. /\ Dict(items) \in Json[Depth]
        /\ Found(Depth, Dict(items)) = FoundIn(IdSets[Depth - 1], c)
    BY <1>2, <1>10, <2>1, DictHas
  <2> QED
    BY <1>8, <1>9, <1>10, <2>2
<1> QED
  BY <1>11 DEF Shows, extract_tool_event_ids, Found, get_process_connections

InMinute(events, minute) == Among(events, {n \in ToSet(events) : Window(n) = minute})

LEMMA TimelineEntryHas ==
    ASSUME TableTypeOK, NEW events \in Seq(Ids), NEW minute \in Texts, NEW depth \in 2..Depth
    PROVE  /\ TimelineEntry(events, minute) \in Json[depth]
           /\ Found(depth, TimelineEntry(events, minute)) = ToSet(InMinute(events, minute))
<1> DEFINE ids == InMinute(events, minute)
           destinations == {Text(rows[n].dest) : n \in ToSet(ids)}
           S == [key : Keys, child : Json[depth - 1]]
           a == Item("window_start", Text(minute))
           b == Item("connection_count", Number)
           c == Item("destinations", List(SetToSeq(destinations)))
           d == Item("event_ids", IdList(ids))
           items == <<a, b, c, d>>
<1>1. ids \in Seq(Ids)
  <2> DEFINE kept == {n \in ToSet(events) : Window(n) = minute}
  <2>1. ids = Among(events, kept)
    BY DEF InMinute
  <2> HIDE DEF kept, ids
  <2> QED
    BY <2>1, AmongIs
<1>2. /\ depth - 1 \in 0..Depth /\ depth - 1 \in 1..Depth /\ depth \in 1..Depth
      /\ d \in S /\ FoundIn(IdSets[depth - 1], d) = ToSet(ids)
  <2> HIDE DEF ids
  <2> QED
    BY <1>1, IdsOfRows
<1>3. List(SetToSeq(destinations)) \in Json[depth - 1] /\ Found(depth - 1, List(SetToSeq(destinations))) = {}
  <2>1. ToSet(ids) \subseteq Ids
    <3> HIDE DEF ids
    <3> QED
      BY <1>1, ToSetOfSeq
  <2>2. IsFiniteSet(ToSet(ids))
    BY <2>1, FS_Subset DEF TableTypeOK
  <2>3. [n \in ToSet(ids) |-> Text(rows[n].dest)] \in Surjection(ToSet(ids), destinations)
    BY DEF Surjection
  <2>4. destinations \subseteq Atoms
    BY <2>1, ColumnsAreTexts
  <2> HIDE DEF destinations, ids
  <2>5. IsFiniteSet(destinations)
    BY <2>2, <2>3, FS_Surjection
  <2>6. SetToSeq(destinations) \in Seq(destinations)
    BY <2>5, SomePermutation
  <2>7. (depth - 1) - 1 \in 0..Depth
    BY EventIdsAssumption
  <2>8. \A child \in destinations :
            child \in Json[(depth - 1) - 1] /\ Found((depth - 1) - 1, child) = {}
    BY <2>4, <2>7, AtomHas
  <2>9. /\ SetToSeq(destinations) \in Seq(Json[(depth - 1) - 1])
        /\ ToSet(SetToSeq(destinations)) \subseteq destinations
    BY <2>6, <2>8, ToSetOfSeq
  <2>10. /\ List(SetToSeq(destinations)) \in Json[depth - 1]
         /\ Found(depth - 1, List(SetToSeq(destinations))) =
                UNION {Found((depth - 1) - 1, child) : child \in ToSet(SetToSeq(destinations))}
    BY <1>2, <2>9, ListHas
  <2> QED
    BY <2>8, <2>9, <2>10
<1>4. a \in S /\ Silent(depth - 1, a) /\ b \in S /\ Silent(depth - 1, b)
  BY <1>2, PlainAtoms, ToolKeysAreKeys, AtomItem
<1>5. c \in S /\ Silent(depth - 1, c)
  <2> HIDE DEF destinations
  <2> QED
    BY <1>2, <1>3, ToolKeysAreKeys, OtherItem
<1>6. items \in Seq(S) /\ ToSet(items) = {a, b, c, d}
  <2> HIDE DEF S, a, b, c, d
  <2> QED
    BY <1>2, <1>4, <1>5, FourItems
<1>7. Dict(items) \in Json[depth] /\ Found(depth, Dict(items)) = ToSet(ids)
  <2> HIDE DEF a, b, c, d, items, ids
  <2>1. /\ d \in ToSet(items)
        /\ \A item \in ToSet(items) : item = d \/ Silent(depth - 1, item)
    BY <1>2, <1>4, <1>5, <1>6
  <2>2. /\ Dict(items) \in Json[depth]
        /\ Found(depth, Dict(items)) = FoundIn(IdSets[depth - 1], d)
    BY <1>2, <1>6, <2>1, DictHas
  <2> QED
    BY <1>2, <1>4, <1>5, <1>6, <2>2
<1> QED
  BY <1>7 DEF TimelineEntry, InMinute

LEMMA TimelineShown ==
    ASSUME TableTypeOK, NEW events \in Seq(Ids)
    PROVE  Shows(get_event_timeline(events), ToSet(events))
<1> DEFINE windows == [i \in DOMAIN events |-> Window(events[i])]
           minutes == Unrepeated(windows)
           n == Len(minutes)
           ids == [i \in 1..n |-> InMinute(events, minutes[i])]
           entries == [i \in DOMAIN minutes |-> TimelineEntry(events, minutes[i])]
           S == [key : Keys, child : Json[Depth - 1]]
           a == Item("pid", Number)
           b == Item("lookback_hours", Number)
           c == Item("returned_event_count", Number)
           d == Item("truncated", Flag(Truncated(events)))
           e == Item("timeline", List(entries))
           items == <<a, b, c, d, e>>
<1>1. /\ DOMAIN events = 1..Len(events) /\ Len(events) \in Nat
      /\ \A i \in 1..Len(events) : events[i] \in Ids
  OBVIOUS
<1>2. /\ (Depth - 1) - 1 \in 2..Depth /\ Depth - 1 \in 1..Depth /\ Depth - 1 \in 0..Depth
      /\ Depth \in 1..Depth
  BY EventIdsAssumption, AgentToolsAssumption
<1>3. windows \in Seq(Texts) /\ ToSet(windows) = {Window(events[i]) : i \in 1..Len(events)}
  <2>1. windows \in Seq(Texts)
    BY <1>1, ColumnsAreTexts
  <2>2. DOMAIN windows = 1..Len(events)
    BY <1>1
  <2> QED
    BY <1>1, <2>1, <2>2 DEF ToSet
<1>4. minutes \in Seq(Texts) /\ ToSet(minutes) = ToSet(windows)
  <2> HIDE DEF windows
  <2> QED
    BY <1>3, UnrepeatedIs
<1>5. /\ n \in Nat /\ DOMAIN minutes = 1..n /\ \A i \in 1..n : minutes[i] \in Texts
      /\ ToSet(minutes) = {minutes[i] : i \in 1..n}
  <2> HIDE DEF minutes
  <2> QED
    BY <1>4, ToSetOfSeq
<1> HIDE DEF minutes, windows
<1>6. \A i \in 1..n : /\ TimelineEntry(events, minutes[i]) \in Json[(Depth - 1) - 1]
                      /\ Found((Depth - 1) - 1, TimelineEntry(events, minutes[i])) = ToSet(ids[i])
  <2> HIDE DEF n
  <2> QED
    BY <1>2, <1>5, TimelineEntryHas
<1>7. /\ entries \in [1..n -> Json[(Depth - 1) - 1]]
      /\ \A i \in 1..n : Found((Depth - 1) - 1, entries[i]) = ToSet(ids[i])
  <2> HIDE DEF n
  <2> QED
    BY <1>5, <1>6
<1>8. Gathered(ids, n) = ToSet(events)
  <2>1. ASSUME NEW i \in 1..n
        PROVE  ToSet(ids[i]) = {m \in ToSet(events) : Window(m) = minutes[i]}
    <3> DEFINE kept == {m \in ToSet(events) : Window(m) = minutes[i]}
    <3>1. ids[i] = Among(events, kept)
      BY DEF InMinute
    <3>2. kept \subseteq ToSet(events)
      OBVIOUS
    <3> HIDE DEF kept, ids
    <3>3. ToSet(ids[i]) = ToSet(events) \cap kept
      BY <3>1, AmongIs
    <3> QED
      BY <3>2, <3>3 DEF kept
  <2>2. ToSet(events) = {events[i] : i \in 1..Len(events)}
    BY ToSetOfSeq
  <2>3. \A m \in ToSet(events) : \E i \in 1..n : minutes[i] = Window(m)
    BY <1>3, <1>4, <1>5, <2>2
  <2> HIDE DEF ids, n
  <2> QED
    BY <2>1, <2>3 DEF Gathered
<1>9. List(entries) \in Json[Depth - 1] /\ Found(Depth - 1, List(entries)) = ToSet(events)
  <2> HIDE DEF entries, n, ids
  <2> QED
    BY <1>2, <1>5, <1>7, <1>8, EntriesHave
<1>10. /\ a \in S /\ Silent(Depth - 1, a) /\ b \in S /\ Silent(Depth - 1, b)
       /\ c \in S /\ Silent(Depth - 1, c) /\ d \in S /\ Silent(Depth - 1, d)
  <2>1. Flag(Truncated(events)) \in Atoms
    BY PlainAtoms DEF Truncated
  <2> QED
    BY <1>2, <2>1, PlainAtoms, ToolKeysAreKeys, AtomItem
<1>11. e \in S /\ FoundIn(IdSets[Depth - 1], e) = ToSet(events)
  <2> HIDE DEF entries
  <2> QED
    BY <1>2, <1>9, ToolKeysAreKeys, OtherItem
<1>12. items \in Seq(S) /\ ToSet(items) = {a, b, c, d, e}
  <2> HIDE DEF S, a, b, c, d, e
  <2> QED
    BY <1>10, <1>11, FiveItems
<1>13. Dict(items) \in Json[Depth] /\ Found(Depth, Dict(items)) = ToSet(events)
  <2> HIDE DEF a, b, c, d, e, items
  <2>1. /\ e \in ToSet(items)
        /\ \A item \in ToSet(items) : item = e \/ Silent(Depth - 1, item)
    BY <1>10, <1>11, <1>12
  <2>2. /\ Dict(items) \in Json[Depth]
        /\ Found(Depth, Dict(items)) = FoundIn(IdSets[Depth - 1], e)
    BY <1>2, <1>12, <2>1, DictHas
  <2> QED
    BY <1>10, <1>11, <1>12, <2>2
<1> QED
  BY <1>13 DEF Shows, extract_tool_event_ids, Found, get_event_timeline, minutes, windows

-----------------------------------------------------------------------------
(* The events that a timeline leaves out are the oldest, and it is full.   *)
LEMMA Truncation == TableTypeOK => TruncationTold
<1> SUFFICES ASSUME TableTypeOK, NEW pid \in Pid, NEW events \in SelectTimeline(pid)
             PROVE  LET hidden == (OfPid(pid) \cap Since(Cutoff(Day))) \ ToSet(events)
                    IN  /\ hidden # {} =>
                              Item("truncated", Flag(TRUE)) \in ToSet(get_event_timeline(events).items)
                        /\ \A n \in ToSet(events), m \in hidden : rows[m].at <= rows[n].at
  BY DEF TruncationTold
<1> DEFINE ids == OfPid(pid) \cap Since(Cutoff(Day))
           hidden == ids \ ToSet(events)
<1>1. PICK s \in InOrder(ids) : events = SubSeq(s, Len(s) - Shorter(s) + 1, Len(s))
  BY DEF SelectTimeline
<1>2. ids \subseteq Ids
  BY DEF OfPid
<1> HIDE DEF ids
<1>3. /\ s \in Seq(ids) /\ ToSet(s) = ids /\ Len(s) \in Nat
      /\ \A i, j \in 1..Len(s) : i < j => rows[s[i]].at <= rows[s[j]].at
      /\ Shorter(s) \in 0..Len(s)
      /\ Shorter(s) # Len(s) => Shorter(s) = MaxEvents
  BY <1>1, <1>2, OrderedRows
<1> DEFINE first == Len(s) - Shorter(s) + 1
<1>4. first \in Int /\ first >= 1 /\ Len(s) \in Int /\ \A i \in first..Len(s) : s[i] \in ids
  BY <1>3
<1>5. first <= Len(s) => Len(s) - first + 1 = Shorter(s)
  BY <1>3
<1>6. first > Len(s) => Shorter(s) = 0
  BY <1>3
<1>7. Len(s) - first + 1 = Shorter(s)
  BY <1>3
<1> HIDE DEF first
<1>8. /\ events \in Seq(ids)
      /\ Len(events) = IF first <= Len(s) THEN Len(s) - first + 1 ELSE 0
      /\ \A i \in 1..Len(s) - first + 1 : events[i] = s[first + i - 1]
  <2>1. events = SubSeq(s, first, Len(s))
    BY <1>1 DEF first
  <2> QED
    BY <1>4, <2>1, SubSeqProperties
<1>9. Len(events) = Shorter(s)
  BY <1>4, <1>5, <1>6, <1>8
<1>10. ASSUME NEW j \in first..Len(s) PROVE s[j] \in ToSet(events)
  <2>1. j - first + 1 \in 1..Len(s) - first + 1 /\ first + (j - first + 1) - 1 = j
    BY <1>4
  <2>2. events[j - first + 1] = s[j]
    BY <1>8, <2>1
  <2>3. j - first + 1 \in 1..Len(events)
    BY <1>7, <1>9, <2>1
  <2> QED
    BY <1>8, <2>2, <2>3, ToSetOfSeq
<1>11. ASSUME NEW n \in ToSet(events) PROVE \E j \in first..Len(s) : n = s[j]
  <2>1. PICK i \in 1..Len(events) : n = events[i]
    BY <1>8, ToSetOfSeq
  <2>2. i \in 1..Len(s) - first + 1
    BY <1>7, <1>9, <2>1
  <2>3. first + i - 1 \in first..Len(s)
    BY <1>4, <2>2
  <2> QED
    BY <1>8, <2>1, <2>2, <2>3
<1>12. ASSUME NEW m \in hidden PROVE \E i \in 1..Len(s) : i < first /\ m = s[i]
  <2>1. PICK i \in 1..Len(s) : m = s[i]
    BY <1>3, ToSetOfSeq
  <2>2. i \notin first..Len(s)
    BY <1>10, <2>1
  <2> QED
    BY <1>4, <2>1, <2>2
<1>13. ASSUME NEW n \in ToSet(events), NEW m \in hidden PROVE rows[m].at <= rows[n].at
  <2>1. PICK j \in first..Len(s) : n = s[j]
    BY <1>11
  <2>2. PICK i \in 1..Len(s) : i < first /\ m = s[i]
    BY <1>12
  <2>3. j \in 1..Len(s) /\ i < j
    BY <1>4, <2>1, <2>2
  <2> QED
    BY <1>3, <2>1, <2>2, <2>3
<1>14. ASSUME hidden # {}
       PROVE  Item("truncated", Flag(TRUE)) \in ToSet(get_event_timeline(events).items)
  <2>1. PICK m : m \in hidden
    BY <1>14
  <2>2. PICK i \in 1..Len(s) : i < first
    BY <1>12, <2>1
  <2>3. Shorter(s) = MaxEvents
    BY <1>3, <1>4, <1>7, <2>2
  <2>4. Truncated(events) = TRUE
    BY <1>9, <2>3 DEF Truncated
  <2>5. PICK a, b, c, e :
            get_event_timeline(events).items = <<a, b, c, Item("truncated", Flag(Truncated(events))), e>>
    BY DEF get_event_timeline, Dict
  <2>6. ToSet(<<a, b, c, Item("truncated", Flag(TRUE)), e>>) =
            {a, b, c, Item("truncated", Flag(TRUE)), e}
    <3> DEFINE d == Item("truncated", Flag(TRUE))
               S == {a, b, c, d, e}
    <3>1. a \in S /\ b \in S /\ c \in S /\ d \in S /\ e \in S
      OBVIOUS
    <3> HIDE DEF S, d
    <3>2. ToSet(<<a, b, c, d, e>>) = {a, b, c, d, e}
      BY <3>1, FiveItems
    <3> QED
      BY <3>2 DEF d
  <2> QED
    BY <2>4, <2>5, <2>6
<1> QED
  BY <1>13, <1>14 DEF ids

(* Both searches find the ids that a tool shows.                           *)
LEMMA Extracted ==
    ASSUME NEW result, NEW ids, Shows(result, ids)
    PROVE  ExtractsExactly(result, ids)
  BY ProviderFindsWhatAgentAllows DEF SearchesAgree, Shows, ExtractsExactly

(* What the reply to a request reports are groups of rows.                 *)
ReplyGrouped == request.pc = "replied" => Groups(request.unusual_destinations)

LEMMA Extraction == TableTypeOK /\ ReplyGrouped => AllIdsExtracted
<1> SUFFICES ASSUME TableTypeOK, ReplyGrouped PROVE AllIdsExtracted
  OBVIOUS
<1>1. ASSUME NEW pid \in Pid, NEW start \in Stamp, NEW end \in Stamp,
             NEW events \in SelectConnections(pid, start, end)
      PROVE  ExtractsExactly(get_process_connections(events), ToSet(events))
  BY <1>1, ConnectionsTyped, ConnectionsShown, Extracted
<1>2. ASSUME NEW pid \in Pid, NEW events \in SelectTimeline(pid)
      PROVE  ExtractsExactly(get_event_timeline(events), ToSet(events))
  BY <1>2, TimelineTyped, TimelineShown, Extracted
<1>3. ASSUME NEW minutes \in Spans, NEW limit \in Limits, NEW top \in TopProcesses(minutes, limit),
             NEW result \in get_top_network_processes(top)
      PROVE  ExtractsExactly(result, UNION top)
  BY <1>3, TopAreGroups, TopShown, Extracted
<1>4. ASSUME NEW minutes \in Spans, NEW threshold \in Thresholds,
             NEW result \in find_connection_bursts(RecentBursts(threshold, minutes))
      PROVE  ExtractsExactly(result, UNION RecentBursts(threshold, minutes))
  BY <1>4, BurstsAreGroups, BurstsShown, Extracted
<1>5. ASSUME request.pc = "replied",
             NEW result \in find_unusual_destinations(request.unusual_destinations)
      PROVE  ExtractsExactly(result, UNION request.unusual_destinations)
  BY <1>5, UnusualShown, Extracted DEF ReplyGrouped
<1> QED
  BY <1>1, <1>2, <1>3, <1>4, <1>5 DEF AllIdsExtracted

-----------------------------------------------------------------------------
(* The agent allows what its search finds in any of the results.           *)
Allowed(tool_results) ==
    UNION {extract_tool_event_ids(tool_results[i]) : i \in 1..Len(tool_results)}

LEMMA AllowedAppend ==
    ASSUME NEW tool_results \in Seq(Json[Depth]), NEW result \in Json[Depth]
    PROVE  Allowed(Append(tool_results, result)) =
               Allowed(tool_results) \cup extract_tool_event_ids(result)
<1> DEFINE longer == Append(tool_results, result)
           n == Len(tool_results)
<1>1. /\ n \in Nat /\ Len(longer) = n + 1 /\ longer[n + 1] = result
      /\ \A i \in 1..n : longer[i] = tool_results[i]
  BY AppendProperties
<1>2. 1..n + 1 = (1..n) \cup {n + 1}
  BY <1>1
<1> HIDE DEF longer
<1> QED
  BY <1>1, <1>2 DEF Allowed, longer

(* The ids the provider may cite are those allowed; the first of them is   *)
(* one of the timeline, if that has any.                                   *)
LEMMA CitableAreAllowed ==
    ASSUME NEW tool_results \in Seq(Json[Depth])
    PROVE  /\ CitableIds(tool_results) \in Seq(Texts)
           /\ ToSet(CitableIds(tool_results)) = Allowed(tool_results)
           /\ tool_results # <<>> /\ extract_event_ids(tool_results[1]) # <<>> =>
                  /\ CitableIds(tool_results) # <<>>
                  /\ CitableIds(tool_results)[1] \in extract_tool_event_ids(tool_results[1])
<1> DEFINE lists == [i \in DOMAIN tool_results |-> extract_event_ids(tool_results[i])]
           n == Len(tool_results)
<1>1. n \in Nat /\ DOMAIN tool_results = 1..n /\ \A i \in 1..n : tool_results[i] \in Json[Depth]
  OBVIOUS
<1>2. ASSUME NEW i \in 1..n
      PROVE  /\ lists[i] = extract_event_ids(tool_results[i])
             /\ lists[i] \in Seq(Texts)
             /\ ToSet(lists[i]) = extract_tool_event_ids(tool_results[i])
  BY <1>1, ProviderFindsWhatAgentAllows DEF SearchesAgree
<1>3. lists \in Seq(Seq(Texts)) /\ Len(lists) = n
  BY <1>1, <1>2
<1> DEFINE ids == FlattenSeq(lists)
<1>4. CitableIds(tool_results) = Unrepeated(ids)
  BY DEF CitableIds
<1> HIDE DEF lists, ids
<1>5. /\ ids \in Seq(Texts) /\ ToSet(ids) = Gathered(lists, n)
      /\ lists # <<>> /\ lists[1] # <<>> => ids # <<>> /\ ids[1] = lists[1][1]
  BY <1>3, Flatten DEF ids
<1>6. /\ Unrepeated(ids) \in Seq(Texts) /\ ToSet(Unrepeated(ids)) = ToSet(ids)
      /\ ids # <<>> => Unrepeated(ids) # <<>> /\ Unrepeated(ids)[1] = ids[1]
  BY <1>5, UnrepeatedIs
<1>7. Gathered(lists, n) = Allowed(tool_results)
  BY <1>2 DEF Gathered, Allowed
<1>8. ASSUME tool_results # <<>>, extract_event_ids(tool_results[1]) # <<>>
      PROVE  ids # <<>> /\ ids[1] \in extract_tool_event_ids(tool_results[1])
  <2>1. 1 \in 1..n
    BY <1>8, EmptySeq
  <2>2. lists # <<>> /\ lists[1] # <<>> /\ lists[1] \in Seq(Texts)
    BY <1>2, <1>3, <1>8, <2>1, EmptySeq
  <2>3. 1 \in 1..Len(lists[1])
    BY <2>2, EmptySeq
  <2>4. lists[1][1] \in ToSet(lists[1])
    BY <2>2, <2>3, ToSetOfSeq
  <2> QED
    BY <1>2, <1>5, <2>1, <2>2, <2>4
<1> QED
  BY <1>4, <1>5, <1>6, <1>7, <1>8

-----------------------------------------------------------------------------
(* The table and the request for unusual destinations are those of module  *)
(* Analytics.  Rows are added to the table, never changed or removed.      *)
LEMMA Stored ==
    ASSUME TypeOK, ReplyGrouped, Store \/ Pass
    PROVE  /\ TypeOK' /\ ReplyGrouped'
           /\ \A n \in Ids : n \in Ids' /\ rows'[n] = rows[n]
<1>1. CASE Store
  <2>1. PICK n \in RowId, row \in Row : Insert(n, row)
    BY <1>1 DEF Store
  <2>2. Ids' = Ids \cup {n} /\ UNCHANGED <<now, request>>
    BY <1>1, <2>1 DEF Store, Insert, Ids
  <2>3. IsFiniteSet(Ids')
    BY <2>2, FS_AddElement DEF TypeOK, TableTypeOK
  <2>4. rows' \in [Ids' -> Row] /\ \A m \in Ids : rows'[m] = rows[m]
    BY <2>1, <2>2 DEF Insert, TypeOK, TableTypeOK
  <2>5. TableTypeOK'
    BY <2>2, <2>3, <2>4 DEF TypeOK, TableTypeOK
  <2> QED
    BY <2>2, <2>4, <2>5 DEF TypeOK, Requests, NoRequest, ReplyGrouped, Groups
<1>2. CASE Pass
  <2>1. UNCHANGED <<rows, request>> /\ Ids' = Ids
    BY <1>2 DEF Pass, Tick, Ids
  <2>2. now' \in 0..MaxNow
    BY <1>2, EventTableAssumption DEF Pass, Tick, TypeOK, TableTypeOK
  <2> QED
    BY <2>1, <2>2 DEF TypeOK, TableTypeOK, Requests, NoRequest, ReplyGrouped, Groups
<1> QED
  BY <1>1, <1>2

LEMMA BaselineRead ==
    ASSUME TypeOK, NEW pid \in Pid, ReadBaseline(pid, Hour, Day)
    PROVE  TypeOK' /\ ReplyGrouped' /\ UNCHANGED <<rows, now>>
<1> DEFINE r == Asked(pid, Hour, Day)
<1>1. /\ request' = [r EXCEPT !.baseline_destinations = Destinations(Baseline(r))]
      /\ UNCHANGED <<rows, now>>
  BY DEF ReadBaseline, tableVars
<1>2. Minute \in Nat /\ now \in Nat /\ now \in 0..MaxNow
  BY EventTableAssumption DEF TypeOK, TableTypeOK
<1>3. Cutoff(Hour) \in Int /\ Cutoff(Hour + Day) \in Int
  BY <1>2, AgentToolsAssumption DEF Cutoff
<1>4. Destinations(Baseline(r)) \subseteq Dest
  <2>1. Baseline(r) \subseteq Ids
    BY DEF Baseline, OfPid
  <2>2. \A n \in Ids : rows[n].dest \in Dest
    BY DEF TypeOK, TableTypeOK, Row
  <2> HIDE DEF r
  <2> QED
    BY <2>1, <2>2 DEF Destinations
<1>5. r \in Requests /\ r.pc = "baseline read"
  BY <1>2, <1>3 DEF Asked, Requests, TypeOK, TableTypeOK
<1> HIDE DEF r
<1>6. request' \in Requests /\ request'.pc = "baseline read"
  BY <1>1, <1>4, <1>5 DEF Requests
<1>7. TableTypeOK'
  BY <1>1 DEF TypeOK, TableTypeOK, Ids
<1> QED
  BY <1>1, <1>6, <1>7 DEF TypeOK, ReplyGrouped

LEMMA RecentRead ==
    ASSUME TypeOK, ReadRecent
    PROVE  /\ TypeOK' /\ ReplyGrouped' /\ UNCHANGED <<rows, now>>
           /\ Groups(request'.unusual_destinations)
<1> DEFINE key(n) == rows[n].dest
           found == {g \in GroupBy(Recent(request), key) :
                         Destinations(g) \cap request.baseline_destinations = {}}
<1>1. /\ request.pc = "baseline read"
      /\ request' = [request EXCEPT !.pc = "replied", !.unusual_destinations = found]
      /\ UNCHANGED <<rows, now>>
  BY DEF ReadRecent, tableVars
<1>2. request \in Requests
  <2>1. NoRequest.pc = "idle"
    BY DEF NoRequest
  <2> QED
    BY <1>1, <2>1 DEF TypeOK
<1>3. \A g \in found : g \subseteq Ids /\ g # {}
  BY DEF GroupBy, Recent, OfPid
<1>4. found \subseteq SUBSET RowId
  BY <1>3 DEF TypeOK, TableTypeOK
<1> HIDE DEF found
<1>5. request' \in Requests /\ request'.unusual_destinations = found
  BY <1>1, <1>2, <1>4 DEF Requests
<1>6. TableTypeOK' /\ Ids' = Ids
  BY <1>1 DEF TypeOK, TableTypeOK, Ids
<1>7. Groups(found)
  BY <1>3, GroupsOfRows DEF TypeOK
<1> QED
  BY <1>1, <1>5, <1>6, <1>7 DEF TypeOK, ReplyGrouped, Groups

-----------------------------------------------------------------------------
(* The inductive invariant of a demonstration.  The first result is the    *)
(* timeline of the PID; the agent allows what it found in the results so   *)
(* far; a report that is written cites the first of the citable ids.       *)
DemoTypeOK ==
    demo \in [pc : {"start", "timeline", "bursts", "unusual", "report", "done"},
              pid : SUBSET Pid, tool_results : Seq(Json[Depth]), allowed_event_ids : SUBSET Texts,
              text : {"", "Demo mode requires a PID", "No supporting events",
                      "PID produced activity"},
              cited : SUBSET Texts]

AllowedFound == demo.allowed_event_ids = Allowed(demo.tool_results)

TimelineFirst ==
    /\ demo.pc \in {"start", "timeline"} => demo.tool_results = <<>>
    /\ demo.pc \in {"bursts", "unusual", "report"} => demo.tool_results # <<>>
    /\ demo.tool_results # <<>> =>
           \A n \in extract_tool_event_ids(demo.tool_results[1]) :
               n \in Ids /\ rows[n].pid \in demo.pid

Cited(tool_results) ==
    {CitableIds(tool_results)[i] : i \in 1..MaxCited \cap DOMAIN CitableIds(tool_results)}

Written ==
    /\ demo.pc # "done" => demo.text = "" /\ demo.cited = {}
    /\ demo.pc = "done" => demo.cited = Cited(demo.tool_results)
    /\ demo.text = "PID produced activity" => demo.tool_results # <<>>

DemoInv ==
    TypeOK /\ ReplyGrouped /\ DemoTypeOK /\ AllowedFound /\ TimelineFirst /\ Written

(* What is cited is allowed, and some id is if any is allowed.             *)
LEMMA CitedAreAllowed ==
    ASSUME NEW tool_results \in Seq(Json[Depth])
    PROVE  /\ Cited(tool_results) \subseteq Allowed(tool_results)
           /\ Allowed(tool_results) # {} => Cited(tool_results) # {}
           /\ CitableIds(tool_results) # <<>> => CitableIds(tool_results)[1] \in Cited(tool_results)
           /\ Allowed(tool_results) \subseteq Texts
<1> DEFINE ids == CitableIds(tool_results)
<1>1. ids \in Seq(Texts) /\ ToSet(ids) = Allowed(tool_results)
  BY CitableAreAllowed
<1>2. Cited(tool_results) = {ids[i] : i \in 1..MaxCited \cap DOMAIN ids}
  BY DEF Cited
<1> HIDE DEF ids
<1>3. DOMAIN ids = 1..Len(ids) /\ ToSet(ids) = {ids[i] : i \in 1..Len(ids)} /\ ToSet(ids) \subseteq Texts
  BY <1>1, ToSetOfSeq
<1>4. ids # <<>> => 1 \in 1..MaxCited \cap DOMAIN ids
  BY <1>1, <1>3, EmptySeq, MockProviderAssumption
<1>5. ids # <<>> => ids[1] \in Cited(tool_results)
  BY <1>2, <1>4
<1>6. Allowed(tool_results) # {} => ids # <<>>
  BY <1>1, ToSetOfSeq
<1> QED
  BY <1>1, <1>2, <1>3, <1>5, <1>6 DEF ids

(* Before anything was read, nothing is citable.                           *)
LEMMA NothingCited == Cited(<<>>) = {} /\ Allowed(<<>>) = {}
<1>1. 1..Len(<<>>) = {}
  OBVIOUS
<1>2. Allowed(<<>>) = {}
  BY <1>1 DEF Allowed
<1>3. <<>> \in Seq(Json[Depth])
  OBVIOUS
<1> QED
  BY <1>2, <1>3, CitedAreAllowed

LEMMA DemoInitially == DemoInit => DemoInv
<1> SUFFICES ASSUME DemoInit PROVE DemoInv
  OBVIOUS
<1>1. TypeOK /\ ReplyGrouped
  <2>1. Ids = {}
    BY DEF DemoInit, Init, TableInit, Ids
  <2>2. rows \in [Ids -> Row]
    BY <2>1 DEF DemoInit, Init, TableInit
  <2>3. now = 0 /\ request = NoRequest /\ NoRequest.pc = "idle"
    BY DEF DemoInit, Init, TableInit, NoRequest
  <2>4. TableTypeOK
    BY <2>1, <2>2, <2>3, FS_EmptySet, EventTableAssumption DEF TableTypeOK
  <2> QED
    BY <2>3, <2>4 DEF TypeOK, ReplyGrouped
<1>2. demo = [pc |-> "start", pid |-> {}, tool_results |-> <<>>,
              allowed_event_ids |-> {}, text |-> "", cited |-> {}]
  BY DEF DemoInit
<1>3. DemoTypeOK
  <2>1. <<>> \in Seq(Json[Depth])
    OBVIOUS
  <2> QED
    BY <1>2, <2>1 DEF DemoTypeOK
<1> QED
  BY <1>1, <1>2, <1>3, NothingCited DEF DemoInv, AllowedFound, TimelineFirst, Written

(* A tool has returned: what its result shows is allowed from now on.      *)
LEMMA ResultReturned ==
    ASSUME DemoInv, TypeOK', ReplyGrouped', UNCHANGED rows,
           NEW result, NEW ids, Shows(result, ids),
           NEW next \in {"bursts", "unusual", "report"}, Returned(result, next),
           \/ demo.pc = "timeline" /\ \A n \in ids : n \in Ids /\ rows[n].pid \in demo.pid
           \/ demo.pc \in {"bursts", "unusual"}
    PROVE  DemoInv'
<1> USE DEF DemoInv
<1> DEFINE tool_results == demo.tool_results
<1>1. result \in Json[Depth] /\ extract_tool_event_ids(result) = ids
  BY DEF Shows
<1>2. /\ demo'.pc = next /\ demo'.pid = demo.pid /\ demo'.text = demo.text
      /\ demo'.cited = demo.cited
      /\ demo'.tool_results = Append(tool_results, result)
      /\ demo'.allowed_event_ids = demo.allowed_event_ids \cup ids
      /\ demo' = [demo EXCEPT !.pc = next, !.tool_results = Append(tool_results, result),
                              !.allowed_event_ids = demo.allowed_event_ids \cup ids]
  BY <1>1 DEF Returned, DemoTypeOK
<1>3. tool_results \in Seq(Json[Depth])
  BY DEF DemoTypeOK
<1> HIDE DEF tool_results
<1>4. /\ Append(tool_results, result) \in Seq(Json[Depth])
      /\ Append(tool_results, result) # <<>>
      /\ Allowed(Append(tool_results, result)) = Allowed(tool_results) \cup ids
  BY <1>1, <1>3, AllowedAppend, AppendProperties
<1>5. AllowedFound'
  BY <1>2, <1>4 DEF AllowedFound, tool_results
<1>6. DemoTypeOK'
  <2>1. ids \subseteq Texts
    BY <1>1, <1>4, CitedAreAllowed
  <2> QED
    BY <1>2, <1>4, <2>1 DEF DemoTypeOK
<1>7. TimelineFirst'
  <2>1. ASSUME NEW n \in extract_tool_event_ids(Append(tool_results, result)[1])
        PROVE  n \in Ids' /\ rows'[n].pid \in demo'.pid
    <3>1. CASE demo.pc = "timeline"
      <4>1. tool_results = <<>>
        BY <3>1 DEF TimelineFirst, tool_results
      <4>2. Append(tool_results, result)[1] = result
        BY <4>1
      <4> QED
        BY <1>1, <1>2, <2>1, <3>1, <4>2 DEF Ids
    <3>2. CASE demo.pc \in {"bursts", "unusual"}
      <4>1. tool_results # <<>>
        BY <3>2 DEF TimelineFirst, tool_results
      <4>2. Append(tool_results, result)[1] = tool_results[1]
        BY <1>1, <1>3, <4>1, EmptySeq, AppendProperties
      <4> QED
        BY <1>2, <2>1, <4>1, <4>2 DEF TimelineFirst, tool_results, Ids
    <3> QED
      BY <3>1, <3>2
  <2> QED
    BY <1>2, <1>4, <2>1 DEF TimelineFirst
<1>8. Written'
  BY <1>2, <1>4 DEF Written
<1> QED
  BY <1>5, <1>6, <1>7, <1>8

LEMMA DemoStep == DemoInv /\ [DemoNext]_demoVars => DemoInv'
<1> SUFFICES ASSUME DemoInv, [DemoNext]_demoVars PROVE DemoInv'
  OBVIOUS
<1> USE DEF DemoInv
<1>1. ASSUME UNCHANGED demo, TypeOK', ReplyGrouped',
             \A n \in Ids : n \in Ids' /\ rows'[n] = rows[n]
      PROVE  DemoInv'
  <2>1. DemoTypeOK' /\ AllowedFound'
    BY <1>1 DEF DemoTypeOK, AllowedFound
  <2>2. TimelineFirst' /\ Written'
    BY <1>1 DEF TimelineFirst, Written
  <2> QED
    BY <1>1, <2>1, <2>2
<1>2. CASE DemoStore \/ DemoPass
  BY <1>1, <1>2, Stored DEF DemoStore, DemoPass
<1>3. ASSUME UNCHANGED vars PROVE TypeOK' /\ ReplyGrouped' /\ UNCHANGED rows /\ Ids' = Ids
  BY <1>3 DEF vars, tableVars, TypeOK, TableTypeOK, ReplyGrouped, Groups, Ids
<1>4. CASE StartWithoutPid
  <2>1. /\ demo' = [demo EXCEPT !.pc = "done", !.text = "Demo mode requires a PID"]
        /\ demo.pc = "start" /\ UNCHANGED vars
    BY <1>4 DEF StartWithoutPid
  <2>2. demo.tool_results = <<>> /\ demo.cited = {}
    BY <2>1 DEF TimelineFirst, Written
  <2>3. DemoTypeOK' /\ AllowedFound'
    BY <2>1 DEF DemoTypeOK, AllowedFound
  <2>4. /\ demo'.pc = "done" /\ demo'.text = "Demo mode requires a PID"
        /\ demo'.tool_results = <<>> /\ demo'.cited = demo.cited
    BY <2>1, <2>2 DEF DemoTypeOK
  <2>5. TimelineFirst'
    BY <2>4 DEF TimelineFirst
  <2>6. Written'
    BY <2>2, <2>4, NothingCited DEF Written
  <2> QED
    BY <1>3, <2>1, <2>3, <2>5, <2>6
<1>5. ASSUME NEW pid \in Pid, Start(pid) PROVE DemoInv'
  <2>1. /\ demo' = [demo EXCEPT !.pc = "timeline", !.pid = {pid}]
        /\ demo.pc = "start" /\ UNCHANGED vars
    BY <1>5 DEF Start
  <2>2. demo.tool_results = <<>>
    BY <2>1 DEF TimelineFirst
  <2>3. DemoTypeOK' /\ AllowedFound'
    BY <2>1 DEF DemoTypeOK, AllowedFound
  <2>4. /\ demo'.pc = "timeline" /\ demo'.tool_results = <<>>
        /\ demo'.text = demo.text /\ demo'.cited = demo.cited
    BY <2>1, <2>2 DEF DemoTypeOK
  <2>5. TimelineFirst' /\ Written'
    BY <2>1, <2>4 DEF TimelineFirst, Written
  <2> QED
    BY <1>3, <2>1, <2>3, <2>5
<1>6. CASE ReadTimeline
  <2>1. PICK pid \in demo.pid : \E events \in SelectTimeline(pid) :
            Returned(get_event_timeline(events), "bursts")
    BY <1>6 DEF ReadTimeline
  <2>2. PICK events \in SelectTimeline(pid) : Returned(get_event_timeline(events), "bursts")
    BY <2>1
  <2>3. demo.pc = "timeline" /\ UNCHANGED vars
    BY <1>6 DEF ReadTimeline
  <2>4. events \in Seq(Ids) /\ \A n \in ToSet(events) : n \in Ids /\ rows[n].pid = pid
    BY TimelineTyped DEF TypeOK
  <2>5. Shows(get_event_timeline(events), ToSet(events))
    BY <2>4, TimelineShown DEF TypeOK
  <2> QED
    BY <1>3, <2>2, <2>3, <2>4, <2>5, ResultReturned
<1>7. CASE ReadBursts
  <2> DEFINE bursts == RecentBursts(BurstThreshold, Day)
  <2>1. PICK result \in find_connection_bursts(bursts) : Returned(result, "unusual")
    BY <1>7 DEF ReadBursts
  <2>2. demo.pc = "bursts" /\ UNCHANGED vars
    BY <1>7 DEF ReadBursts
  <2>3. Shows(result, UNION bursts)
    BY BurstsAreGroups, BurstsShown DEF TypeOK
  <2> HIDE DEF bursts
  <2> QED
    BY <1>3, <2>1, <2>2, <2>3, ResultReturned
<1>8. CASE ReadUsual
  <2>1. PICK pid \in demo.pid : ReadBaseline(pid, Hour, Day)
    BY <1>8 DEF ReadUsual
  <2>2. pid \in Pid /\ UNCHANGED demo
    BY <1>8 DEF ReadUsual, DemoTypeOK
  <2>3. TypeOK' /\ ReplyGrouped' /\ UNCHANGED <<rows, now>>
    BY <2>1, <2>2, BaselineRead
  <2> QED
    BY <1>1, <2>2, <2>3 DEF Ids
<1>9. CASE ReadUnusual
  <2> DEFINE unusual == request'.unusual_destinations
  <2>1. demo.pc = "unusual" /\ ReadRecent
    BY <1>9 DEF ReadUnusual
  <2>2. PICK result \in find_unusual_destinations(unusual) : Returned(result, "report")
    BY <1>9 DEF ReadUnusual
  <2>3. TypeOK' /\ ReplyGrouped' /\ UNCHANGED rows /\ Groups(unusual)
    BY <2>1, RecentRead
  <2> HIDE DEF unusual
  <2>4. Shows(result, UNION unusual)
    BY <2>3, UnusualShown DEF TypeOK
  <2> QED
    BY <2>1, <2>2, <2>3, <2>4, ResultReturned
<1>10. CASE Report
  <2> DEFINE ids == CitableIds(demo.tool_results)
             text == IF ids = <<>> THEN "No supporting events" ELSE "PID produced activity"
  <2>1. /\ demo' = [demo EXCEPT !.pc = "done", !.text = text, !.cited = Cited(demo.tool_results)]
        /\ demo.pc = "report" /\ UNCHANGED vars
    BY <1>10 DEF Report, Cited
  <2>2. demo.tool_results # <<>> /\ demo.tool_results \in Seq(Json[Depth])
    BY <2>1 DEF TimelineFirst, DemoTypeOK
  <2>3. Cited(demo.tool_results) \subseteq Texts
    BY <2>2, CitedAreAllowed
  <2>4. text \in {"No supporting events", "PID produced activity"}
    OBVIOUS
  <2> HIDE DEF text
  <2>5. DemoTypeOK' /\ AllowedFound'
    BY <2>1, <2>3, <2>4 DEF DemoTypeOK, AllowedFound
  <2>6. /\ demo'.pc = "done" /\ demo'.cited = Cited(demo.tool_results)
        /\ demo'.tool_results = demo.tool_results /\ demo'.pid = demo.pid
    BY <2>1 DEF DemoTypeOK
  <2>7. TimelineFirst' /\ Written'
    BY <1>3, <2>1, <2>2, <2>6 DEF TimelineFirst, Written
  <2> QED
    BY <1>3, <2>1, <2>5, <2>7
<1>11. CASE UNCHANGED demoVars
  BY <1>1, <1>3, <1>11 DEF demoVars
<1> QED
  BY <1>2, <1>4, <1>5, <1>6, <1>7, <1>8, <1>9, <1>10, <1>11 DEF DemoNext

(* In every state of a demonstration, whatever is stored meanwhile.        *)
THEOREM DemoInvariance == DemoSpec => []DemoInv
<1>1. DemoInv /\ [DemoNext]_demoVars => DemoInv'
  BY DemoStep
<1> QED
  BY DemoInitially, <1>1, PTL DEF DemoSpec

(* Both recursions find in the result of a tool the events it selected,    *)
(* all of them and no others.                                              *)
THEOREM IdsAreExtracted == DemoSpec => []AllIdsExtracted
<1>1. DemoInv => AllIdsExtracted
  BY Extraction DEF DemoInv, TypeOK
<1> QED
  BY <1>1, DemoInvariance, PTL

(* A timeline that leaves events out says so, and leaves out the oldest.   *)
THEOREM TruncationIsTold == DemoSpec => []TruncationTold
<1>1. DemoInv => TruncationTold
  BY Truncation DEF DemoInv, TypeOK
<1> QED
  BY <1>1, DemoInvariance, PTL

(* The mock provider's report passes the agent's evidence check, whatever  *)
(* the tools returned.                                                     *)
THEOREM ReportIsAccepted == DemoSpec => []ReportAccepted
<1>1. DemoInv => ReportAccepted
  BY CitedAreAllowed
  DEF DemoInv, DemoTypeOK, AllowedFound, Written, ReportAccepted, validate_report_evidence
<1> QED
  BY <1>1, DemoInvariance, PTL

(* A report on a PID with events in the timeline cites one of them.        *)
THEOREM TimelineIsCited == DemoSpec => []CitesTimeline
<1>1. DemoInv => CitesTimeline
  <2> SUFFICES ASSUME DemoInv, demo.text = "PID produced activity",
                      extract_event_ids(demo.tool_results[1]) # <<>>
               PROVE  \E n \in demo.cited : rows[n].pid \in demo.pid
    BY DEF CitesTimeline
  <2> DEFINE tool_results == demo.tool_results
  <2>1. tool_results \in Seq(Json[Depth]) /\ tool_results # <<>>
    BY DEF DemoInv, DemoTypeOK, Written
  <2>2. demo.cited = Cited(tool_results)
    BY DEF DemoInv, Written
  <2> HIDE DEF tool_results
  <2>3. /\ CitableIds(tool_results) # <<>>
        /\ CitableIds(tool_results)[1] \in extract_tool_event_ids(tool_results[1])
    BY <2>1, CitableAreAllowed DEF tool_results
  <2>4. CitableIds(tool_results)[1] \in demo.cited
    BY <2>1, <2>2, <2>3, CitedAreAllowed
  <2>5. rows[CitableIds(tool_results)[1]].pid \in demo.pid
    BY <2>1, <2>3 DEF DemoInv, TimelineFirst, tool_results
  <2> QED
    BY <2>4, <2>5
<1> QED
  BY <1>1, DemoInvariance, PTL
=============================================================================

------------------------------- MODULE Lemmas -------------------------------
(***************************************************************************)
(* Facts about numbers and sequences that the proofs of several components *)
(* use.                                                                    *)
(***************************************************************************)
EXTENDS Integers, Sequences, SequenceTheorems, WellFoundedInduction, TLAPS

\* A set of natural numbers has a first one.
LEMMA FirstExists ==
  ASSUME NEW S \in SUBSET Nat, S # {}
  PROVE  \E m \in S : \A i \in S : m <= i
<1>1. \E m \in S : \A i \in S : ~ (<<i, m>> \in OpToRel(<, Nat))
  BY NatLessThanWellFounded, WFMin
<1>2. PICK m \in S : \A i \in S : ~ (i < m)
  BY <1>1 DEF OpToRel
<1> QED BY <1>2

\* A set of numbers up to k has a last one.
LEMMA LastExists ==
  ASSUME NEW k \in Nat, NEW S \in SUBSET (1 .. k), S # {}
  PROVE  \E m \in S : \A i \in S : i <= m
<1> DEFINE D == {d \in Nat : \E i \in S : d = k - i}
<1>1. D \in SUBSET Nat /\ D # {}
  <2>1. PICK i \in S : TRUE
    OBVIOUS
  <2>2. k - i \in D
    OBVIOUS
  <2> QED BY <2>2
<1>2. PICK d \in D : \A e \in D : d <= e
  BY <1>1, FirstExists
<1>3. PICK m \in S : d = k - m
  OBVIOUS
<1>4. \A i \in S : i <= m
  BY <1>2, <1>3
<1> QED BY <1>4

\* The length of a sequence that is not empty and not longer than k.
LEMMA LengthRange ==
  ASSUME NEW S, NEW s \in Seq(S), NEW k \in Nat, s # <<>>, Len(s) <= k
  PROVE  Len(s) \in 1 .. k
<1> DEFINE n == Len(s)
<1>1. n \in Nat /\ n # 0 /\ n <= k
  BY EmptySeq
<1> HIDE DEF n
<1>2. n \in 1 .. k
  BY <1>1
<1> QED BY <1>2 DEF n

\* Sequences of one element.
LEMMA OneElement ==
  ASSUME NEW q
  PROVE  /\ Append(<<>>, q) = <<q>> /\ <<q>> # <<>>
         /\ Head(<<q>>) = q /\ Tail(<<q>>) = <<>>
         /\ Len(<<q>>) = 1 /\ <<q>>[1] = q /\ Len(<<>>) = 0
OBVIOUS

-----------------------------------------------------------------------------
(* Functions defined by recursion on 0 .. n: step[i] takes the value at i - 1 *)
(* to the value at i.                                                         *)

\* Such a function exists: the first n for which there is none would get one
\* from that for n - 1.
LEMMA RecursionExists ==
  ASSUME NEW S, NEW x \in S, NEW n \in Nat, NEW step \in [1 .. n -> [S -> S]]
  PROVE  \E e \in [0 .. n -> S] : e[0] = x /\ \A i \in 1 .. n : e[i] = step[i][e[i - 1]]
<1> DEFINE Rec(e, m) ==
             e \in [0 .. m -> S] /\ e[0] = x /\ \A i \in 1 .. m : e[i] = step[i][e[i - 1]]
           Bad == {m \in 0 .. n : ~ \E e : Rec(e, m)}
<1> SUFFICES ASSUME Bad # {} PROVE FALSE
  <2>1. n \in 0 .. n
    OBVIOUS
  <2>2. Bad = {} => \E e : Rec(e, n)
    BY <2>1
  <2> QED BY <2>2
<1>1. PICK b \in Bad : \A m \in Bad : b <= m
  <2>1. Bad \in SUBSET Nat
    OBVIOUS
  <2> QED BY <2>1, FirstExists
<1>2. b \in 0 .. n /\ ~ \E e : Rec(e, b)
  OBVIOUS
<1>3. b # 0
  <2> DEFINE e == [i \in 0 .. 0 |-> x]
  <2>1. Rec(e, 0)
    OBVIOUS
  <2> QED BY <1>2, <2>1
<1>4. b - 1 \in 0 .. n /\ ~ (b <= b - 1) /\ b \in 1 .. n
  BY <1>2, <1>3
<1>5. PICK d : Rec(d, b - 1)
  BY <1>1, <1>4
<1> DEFINE e == [i \in 0 .. b |-> IF i = b THEN step[b][d[b - 1]] ELSE d[i]]
<1>6. \A i \in 0 .. b - 1 : i \in 0 .. b /\ i # b
  BY <1>4
<1>7. \A i \in 0 .. b - 1 : e[i] = d[i] /\ e[i] \in S
  BY <1>5, <1>6
<1>8. b - 1 \in 0 .. b - 1 /\ 0 \in 0 .. b - 1 /\ b \in 0 .. b
  BY <1>4
<1>9. e[b] = step[b][e[b - 1]] /\ e[b] \in S
  BY <1>4, <1>7, <1>8
<1>10. e \in [0 .. b -> S]
  <2>1. \A i \in 0 .. b : i = b \/ i \in 0 .. b - 1
    BY <1>4
  <2>2. \A i \in 0 .. b : e[i] \in S
    BY <1>7, <1>9, <2>1
  <2> QED BY <2>2
<1>11. \A i \in 1 .. b : e[i] = step[i][e[i - 1]]
  <2> SUFFICES ASSUME NEW i \in 1 .. b PROVE e[i] = step[i][e[i - 1]]
    OBVIOUS
  <2>1. i = b \/ (i \in 1 .. b - 1 /\ i \in 0 .. b - 1 /\ i - 1 \in 0 .. b - 1)
    BY <1>4
  <2> HIDE DEF e
  <2> QED BY <1>5, <1>7, <1>9, <2>1
<1>12. e[0] = x
  BY <1>5, <1>7, <1>8
<1>13. Rec(e, b)
  BY <1>10, <1>11, <1>12
<1> QED BY <1>2, <1>13

\* Its values stay where the steps keep them.
LEMMA RecursionType ==
  ASSUME NEW S, NEW n \in Nat, NEW d, d[0] \in S,
         \A i \in 1 .. n : d[i - 1] \in S => d[i] \in S,
         NEW m \in 0 .. n
  PROVE  d[m] \in S
<1> DEFINE Bad == {i \in 0 .. n : d[i] \notin S}
<1> SUFFICES ASSUME Bad # {} PROVE FALSE
  OBVIOUS
<1>1. PICK b \in Bad : \A i \in Bad : b <= i
  <2>1. Bad \in SUBSET Nat
    OBVIOUS
  <2> QED BY <2>1, FirstExists
<1>2. b \in 1 .. n /\ b - 1 \in 0 .. n /\ ~ (b <= b - 1)
  OBVIOUS
<1>3. d[b - 1] \in S
  BY <1>1, <1>2
<1> QED BY <1>2, <1>3

\* Two functions that start alike and step alike are the same.
LEMMA RecursionUnique ==
  ASSUME NEW n \in Nat, NEW d, NEW e, d[0] = e[0],
         \A i \in 1 .. n : d[i - 1] = e[i - 1] => d[i] = e[i],
         NEW m \in 0 .. n
  PROVE  d[m] = e[m]
<1> DEFINE Bad == {i \in 0 .. n : d[i] # e[i]}
<1> SUFFICES ASSUME Bad # {} PROVE FALSE
  OBVIOUS
<1>1. PICK b \in Bad : \A i \in Bad : b <= i
  <2>1. Bad \in SUBSET Nat
    OBVIOUS
  <2> QED BY <2>1, FirstExists
<1>2. b \in 1 .. n /\ b - 1 \in 0 .. n /\ ~ (b <= b - 1)
  OBVIOUS
<1>3. d[b - 1] = e[b - 1]
  BY <1>1, <1>2
<1> QED BY <1>2, <1>3

\* The same as a property of its parameters, so that it can be instantiated
\* with a set of numbers: e records x and the outcome of every step.
Recurses(e, S, x, n, step) ==
  e \in [0 .. n -> S] /\ e[0] = x /\ \A i \in 1 .. n : e[i] = step[i][e[i - 1]]

StepsWithin(S, x, n, step) ==
  x \in S /\ n \in Nat /\ step \in [1 .. n -> [S -> S]]

LEMMA RecursionExistsAnywhere ==
  \A S, x, n, step : StepsWithin(S, x, n, step) => \E e : Recurses(e, S, x, n, step)
<1> TAKE S, x, n, step
<1> HAVE StepsWithin(S, x, n, step)
<1> QED BY RecursionExists DEF StepsWithin, Recurses

\* From zero in the natural numbers.
LEMMA NatRecursionExists ==
  ASSUME NEW n \in Nat, NEW step \in [1 .. n -> [Nat -> Nat]]
  PROVE  \E e \in [0 .. n -> Nat] : e[0] = 0 /\ \A i \in 1 .. n : e[i] = step[i][e[i - 1]]
<1>1. StepsWithin(Nat, 0, n, step)
  BY DEF StepsWithin
<1>2. PICK e : Recurses(e, Nat, 0, n, step)
  BY <1>1, RecursionExistsAnywhere, Zenon
<1> QED BY <1>2 DEF Recurses

\* The running sums of n lengths.
LEMMA SumsExist ==
  ASSUME NEW n \in Nat, NEW len \in [1 .. n -> Nat]
  PROVE  \E e \in [0 .. n -> Nat] : e[0] = 0 /\ \A i \in 1 .. n : e[i] = e[i - 1] + len[i]
<1>1. PICK step : step = [i \in 1 .. n |-> [y \in Nat |-> y + len[i]]]
  OBVIOUS
<1>2. step \in [1 .. n -> [Nat -> Nat]]
  BY <1>1
<1>3. PICK e \in [0 .. n -> Nat] : e[0] = 0 /\ \A i \in 1 .. n : e[i] = step[i][e[i - 1]]
  BY <1>2, NatRecursionExists
<1>4. \A i \in 1 .. n : i - 1 \in 0 .. n
  OBVIOUS
<1>5. \A i \in 1 .. n : e[i] = e[i - 1] + len[i]
  BY <1>1, <1>3, <1>4
<1> QED BY <1>3, <1>5
=============================================================================

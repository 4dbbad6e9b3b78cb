------------------------------- MODULE Recursion -------------------------------
(***************************************************************************)
(* Induction over the natural numbers, division, and the existence of      *)
(* recursive functions, stated with sets and functions where the library's *)
(* theorems take operators. The proofs about loops and records rest on     *)
(* them.                                                                   *)
(***************************************************************************)
EXTENDS Naturals, SequencesExt, SequenceTheorems, WellFoundedInduction, TLAPS

\* A set that has zero and, with a number, the next one has all numbers: the least
\* number that it has not would be the next one of a number it has.
THEOREM SetInduction ==
  ASSUME NEW S, 0 \in S, \A n \in Nat : n \in S => n + 1 \in S
  PROVE  Nat \subseteq S
<1> DEFINE T == {n \in Nat : n \notin S}
<1>1. SUFFICES ASSUME T # {} PROVE FALSE
  OBVIOUS
<1>2. IsWellFoundedOn(OpToRel(<, Nat), Nat)
  BY NatLessThanWellFounded
<1>3. T \subseteq Nat
  OBVIOUS
<1>4. \E x \in T : \A y \in T : ~(<<y, x>> \in OpToRel(<, Nat))
  <2> HIDE DEF T
  <2> QED BY <1>1, <1>2, <1>3, WFMin
<1>5. PICK x \in T : \A y \in T : ~(<<y, x>> \in OpToRel(<, Nat))
  BY <1>4
<1>6. x \in Nat /\ x # 0
  OBVIOUS
<1>7. x - 1 \in Nat /\ x - 1 < x /\ x - 1 + 1 = x
  BY <1>6
<1>8. x - 1 \in T
  BY <1>6, <1>7
<1>9. <<x - 1, x>> \in OpToRel(<, Nat)
  BY <1>6, <1>7 DEF OpToRel
<1> QED BY <1>5, <1>8, <1>9

\* So has a set that has every number all of whose predecessors it has.
THEOREM StrongInduction ==
  ASSUME NEW S, \A n \in Nat : (\A m \in Nat : m < n => m \in S) => n \in S
  PROVE  Nat \subseteq S
<1> DEFINE T == {n \in Nat : \A m \in Nat : m < n => m \in S}
<1>1. 0 \in T
  OBVIOUS
<1>2. ASSUME NEW n \in Nat, n \in T PROVE n + 1 \in T
  <2>1. n \in S
    BY <1>2
  <2>2. \A m \in Nat : m < n + 1 => m < n \/ m = n
    OBVIOUS
  <2> QED BY <1>2, <2>1, <2>2
<1>3. Nat \subseteq T
  <2> HIDE DEF T
  <2> QED BY <1>1, <1>2, SetInduction
<1> QED BY <1>3

-----------------------------------------------------------------------------
(* The least and the greatest number of a set.                              *)

\* The least of some numbers.
LEMMA LeastIs ==
  ASSUME NEW S, S \subseteq Nat, S # {}
  PROVE  Min(S) \in S /\ \A m \in S : Min(S) <= m
<1>1. \E x \in S : \A y \in S : x <= y
  <2> DEFINE T == {n \in Nat : n \notin S}
  <2> SUFFICES ASSUME \A x \in S : \E y \in S : ~(x <= y) PROVE FALSE
    OBVIOUS
  <2>1. ASSUME NEW n \in Nat, \A m \in Nat : m < n => m \in T PROVE n \in T
    <3>1. ASSUME n \in S PROVE FALSE
      <4>1. PICK y \in S : ~(n <= y)
        BY <3>1
      <4>2. y \in Nat /\ y < n
        BY <4>1
      <4> QED BY <2>1, <4>2
    <3> QED BY <3>1
  <2>2. Nat \subseteq T
    <3> HIDE DEF T
    <3> QED BY <2>1, StrongInduction
  <2> QED BY <2>2
<1> QED BY <1>1 DEF Min

\* The greatest of some numbers up to a bound.
LEMMA GreatestIs ==
  ASSUME NEW n \in Nat, NEW S, S \subseteq 0..n, S # {}
  PROVE  Max(S) \in S /\ \A m \in S : m <= Max(S)
<1> DEFINE T == {n - i : i \in S}
<1>1. T \subseteq Nat /\ T # {}
  <2>1. \A i \in S : n - i \in Nat
    OBVIOUS
  <2> QED BY <2>1
<1>2. Min(T) \in T /\ \A m \in T : Min(T) <= m
  <2> HIDE DEF T
  <2> QED BY <1>1, LeastIs
<1>3. PICK x \in S : Min(T) = n - x
  BY <1>2
<1>4. \A y \in S : x >= y
  <2> TAKE y \in S
  <2>1. n - y \in T
    OBVIOUS
  <2> HIDE DEF T
  <2>2. n - x <= n - y
    BY <1>2, <1>3, <2>1
  <2> QED BY <2>2
<1>5. \E x_1 \in S : \A y \in S : x_1 >= y
  BY <1>4
<1>6. Max(S) \in S /\ \A y \in S : Max(S) >= y
  BY <1>5 DEF Max
<1> QED BY <1>6

-----------------------------------------------------------------------------
(* Division.                                                               *)

\* Division with a rest.
LEMMA Division ==
  ASSUME NEW n \in Nat, NEW b \in Nat \ {0}
  PROVE  n \div b \in Nat /\ n % b \in 0..(b - 1) /\ n = b * (n \div b) + (n % b)
  OBVIOUS

\* The rest and the quotient are what they have to be.
LEMMA DivisionUnique ==
  ASSUME NEW q \in Nat, NEW b \in Nat \ {0}, NEW r \in 0..(b - 1)
  PROVE  (b * q + r) \div b = q /\ (b * q + r) % b = r
  OBVIOUS

-----------------------------------------------------------------------------
(* Recursive functions. The value at d is base[d] where d is in Stop, and  *)
(* otherwise made by step of the value at prev[d], which has lower rank.   *)

Equation(g, d, Stop, prev, base, step) ==
  g[d] = IF d \in Stop THEN base[d] ELSE step[<<g[prev[d]], d>>]

\* g obeys the equation below rank n.
Obeys(g, n, D, Stop, rank, prev, base, step) ==
  \A d \in D : rank[d] < n => Equation(g, d, Stop, prev, base, step)

\* Two functions that obey the equation below a rank are equal there.
LEMMA RecursionUnique ==
  ASSUME NEW D, NEW Stop, NEW rank \in [D -> Nat], NEW prev \in [D -> D],
         NEW base, NEW step, \A d \in D \ Stop : rank[prev[d]] < rank[d],
         NEW n \in Nat, NEW g, NEW h,
         Obeys(g, n, D, Stop, rank, prev, base, step),
         Obeys(h, n, D, Stop, rank, prev, base, step)
  PROVE  \A d \in D : rank[d] < n => g[d] = h[d]
<1> DEFINE S == {k \in Nat : k <= n => \A d \in D : rank[d] < k => g[d] = h[d]}
<1>1. 0 \in S
  OBVIOUS
<1>2. ASSUME NEW k \in Nat, k \in S PROVE k + 1 \in S
  <2> SUFFICES ASSUME k + 1 <= n, NEW d \in D, rank[d] < k + 1 PROVE g[d] = h[d]
    OBVIOUS
  <2>1. \A c \in D : rank[c] < k => g[c] = h[c]
    BY <1>2
  <2>2. Equation(g, d, Stop, prev, base, step) /\ Equation(h, d, Stop, prev, base, step)
    BY DEF Obeys
  <2>3. CASE d \in Stop
    BY <2>2, <2>3 DEF Equation
  <2>4. CASE d \notin Stop
    <3>1. prev[d] \in D /\ rank[prev[d]] < k
      BY <2>4
    <3> QED BY <2>1, <2>2, <2>4, <3>1 DEF Equation
  <2> QED BY <2>3, <2>4
<1>3. Nat \subseteq S
  <2> HIDE DEF S
  <2> QED BY <1>1, <1>2, SetInduction
<1> QED BY <1>3

\* There is a function that obeys the equation everywhere.
THEOREM RecursionExists ==
  ASSUME NEW D, NEW V, NEW Stop, NEW rank \in [D -> Nat], NEW prev \in [D -> D],
         NEW base \in [D -> V], NEW step \in [V \X D -> V],
         \A d \in D \ Stop : rank[prev[d]] < rank[d]
  PROVE  \E g \in [D -> V] : \A d \in D : Equation(g, d, Stop, prev, base, step)
<1> DEFINE Upto(g, n) == Obeys(g, n, D, Stop, rank, prev, base, step)
           S == {n \in Nat : \E g \in [D -> V] : Upto(g, n)}
<1>1. 0 \in S
  BY DEF Obeys
<1>2. ASSUME NEW n \in Nat, n \in S PROVE n + 1 \in S
  <2>1. PICK g \in [D -> V] : Upto(g, n)
    BY <1>2
  <2> DEFINE h == [d \in D |-> IF d \in Stop THEN base[d] ELSE step[<<g[prev[d]], d>>]]
  <2>2. h \in [D -> V]
    OBVIOUS
  <2>3. ASSUME NEW d \in D, rank[d] < n + 1 PROVE Equation(h, d, Stop, prev, base, step)
    <3>1. CASE d \in Stop
      BY <3>1 DEF Equation
    <3>2. CASE d \notin Stop
      <4>1. prev[d] \in D /\ rank[prev[d]] < n
        BY <2>3, <3>2
      <4>2. h[prev[d]] = g[prev[d]]
        BY <2>1, <4>1 DEF Obeys, Equation
      <4> QED BY <3>2, <4>2 DEF Equation
    <3> QED BY <3>1, <3>2
  <2>4. Upto(h, n + 1)
    <3> HIDE DEF h
    <3> QED BY <2>3 DEF Obeys
  <2>5. \E f \in [D -> V] : Upto(f, n + 1)
    <3> HIDE DEF h, Upto
    <3> QED BY <2>2, <2>4
  <2> QED BY <2>5
<1>3. Nat \subseteq S
  <2> HIDE DEF S
  <2> QED BY <1>1, <1>2, SetInduction
<1> DEFINE part(n) == CHOOSE g \in [D -> V] : Upto(g, n)
           f == [d \in D |-> part(rank[d] + 1)[d]]
<1>4. ASSUME NEW n \in Nat PROVE part(n) \in [D -> V] /\ Upto(part(n), n)
  <2>1. \E g \in [D -> V] : Upto(g, n)
    BY <1>3
  <2> HIDE DEF Upto
  <2> QED BY <2>1
<1>5. ASSUME NEW n \in Nat, NEW g, NEW h, Upto(g, n), Upto(h, n), NEW d \in D, rank[d] < n
      PROVE  g[d] = h[d]
  BY <1>5, RecursionUnique
<1>6. f \in [D -> V]
  <2> SUFFICES ASSUME NEW d \in D PROVE part(rank[d] + 1)[d] \in V
    OBVIOUS
  <2>1. rank[d] + 1 \in Nat
    OBVIOUS
  <2> HIDE DEF part
  <2> QED BY <1>4, <2>1
<1>7. ASSUME NEW d \in D PROVE Equation(f, d, Stop, prev, base, step)
  <2> HIDE DEF part
  <2>1. rank[d] + 1 \in Nat /\ rank[d] < rank[d] + 1 /\ f[d] = part(rank[d] + 1)[d]
    OBVIOUS
  <2>2. Equation(part(rank[d] + 1), d, Stop, prev, base, step)
    BY <1>4, <2>1 DEF Obeys
  <2>3. CASE d \in Stop
    BY <2>1, <2>2, <2>3 DEF Equation
  <2>4. CASE d \notin Stop
    <3> DEFINE c == prev[d]
    <3>1. c \in D /\ rank[c] < rank[d] /\ rank[c] + 1 \in Nat /\ rank[c] < rank[c] + 1
      BY <2>4
    <3>2. /\ Upto(part(rank[d] + 1), rank[c] + 1)
          /\ Upto(part(rank[c] + 1), rank[c] + 1)
      <4>1. Upto(part(rank[d] + 1), rank[d] + 1) /\ Upto(part(rank[c] + 1), rank[c] + 1)
        BY <1>4, <2>1, <3>1
      <4>2. \A e \in D : rank[e] < rank[c] + 1 => rank[e] < rank[d] + 1
        BY <3>1
      <4> QED BY <4>1, <4>2 DEF Obeys
    <3>3. part(rank[d] + 1)[c] = part(rank[c] + 1)[c]
      <4> HIDE DEF c, Upto
      <4> QED BY <1>5, <3>1, <3>2
    <3>4. f[c] = part(rank[c] + 1)[c]
      BY <3>1
    <3> QED BY <2>1, <2>2, <2>4, <3>3, <3>4 DEF Equation
  <2> QED BY <2>3, <2>4
<1> QED BY <1>6, <1>7

\* What the turns of a loop are counted with: all numbers, or those up to some n.
Counts == {Nat} \cup {0..n : n \in Nat}

\* The numbers, and those up to any number, count turns.
LEMMA CountsAre == Nat \in Counts /\ \A n \in Nat : 0..n \in Counts
  BY DEF Counts

Loop(g, D, b, step) == g[0] = b /\ \A i \in D \ {0} : g[i] = step[<<g[i - 1], i>>]

\* There is a loop that starts with b and goes on with step.
THEOREM LoopExists ==
  ASSUME NEW D \in Counts, NEW V, NEW b \in V, NEW step \in [V \X D -> V]
  PROVE  \E g \in [D -> V] : Loop(g, D, b, step)
<1> DEFINE prev == [i \in D |-> IF i = 0 THEN 0 ELSE i - 1]
           rank == [i \in D |-> i]
           base == [i \in D |-> b]
<1>1. D \subseteq Nat /\ 0 \in D /\ \A i \in D \ {0} : i - 1 \in D
  BY DEF Counts
<1>2. prev \in [D -> D] /\ rank \in [D -> Nat] /\ base \in [D -> V]
  BY <1>1
<1>3. \A i \in D \ {0} : rank[prev[i]] < rank[i]
  BY <1>1
<1>4. PICK g \in [D -> V] : \A i \in D : Equation(g, i, {0}, prev, base, step)
  <2> HIDE DEF prev, rank, base
  <2> QED BY <1>2, <1>3, RecursionExists
<1>5. g[0] = b
  BY <1>1, <1>4 DEF Equation
<1>6. ASSUME NEW i \in D \ {0} PROVE g[i] = step[<<g[i - 1], i>>]
  <2>1. prev[i] = i - 1
    OBVIOUS
  <2> HIDE DEF prev
  <2> QED BY <1>4, <2>1 DEF Equation
<1> QED BY <1>5, <1>6 DEF Loop

\* Induction up to a bound.
LEMMA BoundedInduction ==
  ASSUME NEW n \in Nat, NEW S, 0 \in S, \A i \in 1..n : i - 1 \in S => i \in S
  PROVE  0..n \subseteq S
<1> DEFINE T == {i \in Nat : i <= n => i \in S}
<1>1. 0 \in T
  OBVIOUS
<1>2. ASSUME NEW i \in Nat, i \in T PROVE i + 1 \in T
  <2> SUFFICES ASSUME i + 1 <= n PROVE i + 1 \in S
    OBVIOUS
  <2>1. i + 1 \in 1..n /\ (i + 1) - 1 = i /\ i \in S
    BY <1>2
  <2> QED BY <2>1
<1>3. Nat \subseteq T
  <2> HIDE DEF T
  <2> QED BY <1>1, <1>2, SetInduction
<1> QED BY <1>3

-----------------------------------------------------------------------------
(* Sequences.                                                              *)

\* One more element, behind two sequences.
LEMMA ConcatAppend ==
  ASSUME NEW C, NEW s \in Seq(C), NEW t \in Seq(C), NEW e \in C
  PROVE  s \o Append(t, e) = Append(s \o t, e)
<1>1. Append(t, e) = t \o <<e>> /\ <<e>> \in Seq(C)
  BY AppendIsConcat
<1>2. Append(s \o t, e) = (s \o t) \o <<e>>
  <2>1. s \o t \in Seq(C)
    BY ConcatProperties
  <2> QED BY <2>1, AppendIsConcat
<1> QED BY <1>1, <1>2, ConcatAssociative

\* The last element and those before it.
LEMMA FrontLast ==
  ASSUME NEW C, NEW s \in Seq(C), s # <<>>
  PROVE  Front(s) \in Seq(C) /\ Last(s) \in C /\ s = Append(Front(s), Last(s))
<1>1. PICK t \in Seq(C), e \in C : s = Append(t, e)
  BY SequenceEmptyOrAppend
<1>2. /\ Len(s) = Len(t) + 1 /\ Len(t) \in Nat /\ s[Len(t) + 1] = e
      /\ \A i \in 1..Len(t) : s[i] = t[i]
  BY <1>1, AppendProperties
<1>3. Last(s) = e
  BY <1>2 DEF Last
<1>4. Front(s) = SubSeq(s, 1, Len(t))
  BY <1>2 DEF Front
<1>5. \A i \in 1..Len(t) : s[i] \in C
  BY <1>2
<1>6. /\ Front(s) \in Seq(C) /\ Len(Front(s)) = Len(t)
      /\ \A i \in 1..Len(t) : Front(s)[i] = s[i]
  <2>1. /\ SubSeq(s, 1, Len(t)) \in Seq(C)
        /\ Len(SubSeq(s, 1, Len(t))) = IF 1 <= Len(t) THEN Len(t) - 1 + 1 ELSE 0
        /\ \A i \in 1..(Len(t) - 1 + 1) : SubSeq(s, 1, Len(t))[i] = s[1 + i - 1]
    BY <1>2, <1>5, SubSeqProperties
  <2> QED BY <1>2, <1>4, <2>1
<1>7. Front(s) = t
  BY <1>2, <1>6, SeqEqual
<1> QED BY <1>1, <1>3, <1>6, <1>7

LEMMA FrontLastAppend ==
  ASSUME NEW C, NEW s \in Seq(C), NEW e \in C
  PROVE  Append(s, e) # <<>> /\ Front(Append(s, e)) = s /\ Last(Append(s, e)) = e
<1> DEFINE t == Append(s, e)
<1>1. t \in Seq(C) /\ t # <<>>
  BY AppendProperties
<1> HIDE DEF t
<1>2. Front(t) \in Seq(C) /\ Last(t) \in C /\ t = Append(Front(t), Last(t))
  BY <1>1, FrontLast
<1>3. Front(t) = s /\ Last(t) = e
  BY <1>2, AppendInjective DEF t
<1> QED BY <1>1, <1>3 DEF t

\* g puts the sequences one behind the other: at i, the first i of them.
Flattens(g, seqs, C) ==
  /\ g \in [0..Len(seqs) -> Seq(C)] /\ g[0] = <<>>
  /\ \A i \in 1..Len(seqs) : g[i] = g[i - 1] \o seqs[i]
  /\ g[Len(seqs)] = FlattenSeq(seqs)

\* FlattenSeq is such a loop.
LEMMA FlattenLoop ==
  ASSUME NEW C, NEW seqs \in Seq(Seq(C))
  PROVE  \E g : Flattens(g, seqs, C)
<1> DEFINE n == Len(seqs)
           D == 0..n
           V == Seq(C)
           turn(s, i) == IF i = 0 THEN <<>> ELSE s \o seqs[i]
           step == [p \in V \X D |-> turn(p[1], p[2])]
           turns(h) == [i \in 1..n |-> IF i = 1 THEN seqs[i] ELSE h[i - 1] \o seqs[i]]
           f == CHOOSE h : h = turns(h)
<1>1. n \in Nat /\ <<>> \in V /\ \A i \in 1..n : i - 1 \in D /\ i \in D /\ seqs[i] \in V
  OBVIOUS
<1>2. step \in [V \X D -> V]
  <2>1. ASSUME NEW s \in V, NEW i \in D PROVE turn(s, i) \in V
    <3>1. CASE i = 0
      BY <3>1
    <3>2. CASE i # 0
      <4>1. seqs[i] \in V
        BY <1>1, <3>2
      <4> QED BY <3>2, <4>1, ConcatProperties
    <3> QED BY <3>1, <3>2
  <2> HIDE DEF turn, V, D
  <2> QED BY <2>1
<1>3. PICK g \in [D -> V] : Loop(g, D, <<>>, step)
  <2>1. D \in Counts
    BY <1>1, CountsAre
  <2> HIDE DEF step, D, V
  <2> QED BY <1>1, <1>2, <2>1, LoopExists
<1>4. \A i \in 1..n : g[i] = g[i - 1] \o seqs[i]
  <2> SUFFICES ASSUME NEW i \in 1..n PROVE g[i] = g[i - 1] \o seqs[i]
    OBVIOUS
  <2>1. i \in D \ {0} /\ i - 1 \in D
    BY <1>1
  <2>2. step[<<g[i - 1], i>>] = turn(g[i - 1], i)
    <3> HIDE DEF turn
    <3> QED BY <2>1
  <2>3. turn(g[i - 1], i) = g[i - 1] \o seqs[i]
    BY <2>1
  <2> HIDE DEF step, V, D, turn
  <2> QED BY <1>3, <2>1, <2>2, <2>3 DEF Loop
<1>5. g[0] = <<>>
  BY <1>3 DEF Loop
<1>6. g[n] = FlattenSeq(seqs)
  <2>1. CASE n = 0
    <3>1. seqs = <<>>
      BY <2>1
    <3> QED BY <1>5, <2>1, <3>1 DEF FlattenSeq
  <2>2. CASE n # 0
    <3>1. FlattenSeq(seqs) = f[n]
      BY <2>2 DEF FlattenSeq
    <3>2. 1 \in 1..n /\ n \in 1..n
      BY <1>1, <2>2
    <3> DEFINE h == [i \in 1..n |-> g[i]]
    <3>3. h = turns(h)
      <4> SUFFICES ASSUME NEW i \in 1..n
                   PROVE  g[i] = IF i = 1 THEN seqs[i] ELSE h[i - 1] \o seqs[i]
        OBVIOUS
      <4>1. g[i] = g[i - 1] \o seqs[i] /\ seqs[i] \in V
        BY <1>1, <1>4
      <4>2. CASE i = 1
        <5>1. g[i - 1] = <<>>
          <6>1. i - 1 = 0
            BY <4>2
          <6> QED BY <1>5, <6>1
        <5>2. <<>> \o seqs[i] = seqs[i]
          BY <4>1, ConcatEmptySeq
        <5> QED BY <4>1, <4>2, <5>1, <5>2
      <4>3. CASE i # 1
        <5>1. i - 1 \in 1..n
          BY <1>1, <4>3
        <5> QED BY <4>1, <4>3, <5>1
      <4> QED BY <4>2, <4>3
    <3>4. f = turns(f)
      <4> HIDE DEF turns, h
      <4> QED BY <3>3
    <3> HIDE DEF f
    <3>5. f[1] = seqs[1] /\ \A i \in 1..n : i # 1 => f[i] = f[i - 1] \o seqs[i]
      BY <3>2, <3>4
    <3>6. f[1] = g[1]
      <4>1. g[1] = g[1 - 1] \o seqs[1] /\ seqs[1] \in V
        BY <1>1, <1>4, <3>2
      <4>2. g[1 - 1] = <<>>
        <5>1. 1 - 1 = 0
          OBVIOUS
        <5> QED BY <1>5, <5>1
      <4> QED BY <3>5, <4>1, <4>2, ConcatEmptySeq
    <3> DEFINE S == {i \in Nat : i + 1 <= n => f[i + 1] = g[i + 1]}
    <3>7. 0 \in S
      BY <3>6
    <3>8. ASSUME NEW i \in Nat, i \in S PROVE i + 1 \in S
      <4> SUFFICES ASSUME (i + 1) + 1 <= n PROVE f[(i + 1) + 1] = g[(i + 1) + 1]
        OBVIOUS
      <4> DEFINE j == (i + 1) + 1
      <4>1. j \in 1..n /\ j # 1 /\ j - 1 = i + 1 /\ i + 1 <= n
        BY <1>1
      <4>2. f[i + 1] = g[i + 1]
        BY <3>8, <4>1
      <4> HIDE DEF j
      <4>3. f[j] = f[j - 1] \o seqs[j]
        BY <3>5, <4>1
      <4>4. g[j] = g[j - 1] \o seqs[j]
        BY <1>4, <4>1
      <4>5. f[j] = g[j]
        BY <4>1, <4>2, <4>3, <4>4
      <4> QED BY <4>5 DEF j
    <3>9. n - 1 \in S
      <4>1. n - 1 \in Nat
        BY <1>1, <2>2
      <4> HIDE DEF S
      <4> QED BY <3>7, <3>8, <4>1, SetInduction
    <3>10. f[n] = g[n]
      BY <1>1, <2>2, <3>9
    <3> QED BY <3>1, <3>10
  <2> QED BY <2>1, <2>2
<1> QED BY <1>4, <1>5, <1>6 DEF Flattens

\* No sequences make the empty one.
LEMMA FlattenEmpty == FlattenSeq(<<>>) = <<>>
  BY DEF FlattenSeq

\* One sequence more comes behind the others.
LEMMA FlattenAppend ==
  ASSUME NEW C, NEW seqs \in Seq(Seq(C)), NEW s \in Seq(C)
  PROVE  /\ FlattenSeq(seqs) \in Seq(C)
         /\ FlattenSeq(Append(seqs, s)) = FlattenSeq(seqs) \o s
<1> DEFINE n == Len(seqs)
           more == Append(seqs, s)
<1>1. n \in Nat
  OBVIOUS
<1>2. /\ more \in Seq(Seq(C)) /\ Len(more) = n + 1 /\ more[n + 1] = s
      /\ \A i \in 1..n : more[i] = seqs[i]
  BY AppendProperties
<1>3. PICK g : Flattens(g, seqs, C)
  BY FlattenLoop
<1> HIDE DEF more
<1>4. PICK h : Flattens(h, more, C)
  BY <1>2, FlattenLoop
<1> DEFINE S == {i \in Nat : i <= n => g[i] = h[i]}
<1>5. 0 \in S
  BY <1>3, <1>4 DEF Flattens
<1>6. ASSUME NEW i \in Nat, i \in S PROVE i + 1 \in S
  <2> SUFFICES ASSUME i + 1 <= n PROVE g[i + 1] = h[i + 1]
    OBVIOUS
  <2> DEFINE j == i + 1
  <2>1. j \in 1..n /\ j \in 1..Len(more) /\ j - 1 = i /\ i <= n
    BY <1>1, <1>2
  <2> HIDE DEF j
  <2>2. g[j] = g[j - 1] \o seqs[j]
    BY <1>3, <2>1 DEF Flattens
  <2>3. h[j] = h[j - 1] \o more[j]
    BY <1>4, <2>1 DEF Flattens
  <2>4. g[i] = h[i] /\ more[j] = seqs[j]
    BY <1>2, <1>6, <2>1
  <2>5. g[j] = h[j]
    BY <2>1, <2>2, <2>3, <2>4
  <2> QED BY <2>5 DEF j
<1>7. n \in S
  <2> HIDE DEF S
  <2> QED BY <1>1, <1>5, <1>6, SetInduction
<1>8. h[n + 1] = h[n] \o s
  <2>1. n + 1 \in 1..Len(more) /\ (n + 1) - 1 = n
    BY <1>1, <1>2
  <2>2. h[n + 1] = h[(n + 1) - 1] \o more[n + 1]
    BY <1>4, <2>1 DEF Flattens
  <2> QED BY <1>2, <2>1, <2>2
<1>9. FlattenSeq(seqs) = g[n] /\ g[n] \in Seq(C)
  <2>1. n \in 0..n
    BY <1>1
  <2> QED BY <1>3, <2>1 DEF Flattens
<1>10. FlattenSeq(more) = h[n + 1]
  <2>1. h[Len(more)] = FlattenSeq(more)
    BY <1>4 DEF Flattens
  <2> QED BY <1>2, <2>1
<1>11. g[n] = h[n]
  BY <1>1, <1>7
<1> QED BY <1>8, <1>9, <1>10, <1>11 DEF more

\* s is what t has behind its first p elements.
Follows(t, p, s) ==
  p + Len(s) <= Len(t) /\ \A j \in 1..Len(s) : t[p + j] = s[j]

\* Of two sequences the first follows nothing, and the second follows the first.
LEMMA FollowsConcat ==
  ASSUME NEW C, NEW s \in Seq(C), NEW t \in Seq(C)
  PROVE  Follows(s \o t, 0, s) /\ Follows(s \o t, Len(s), t)
<1> DEFINE both == s \o t
<1>1. /\ both \in Seq(C) /\ Len(both) = Len(s) + Len(t)
      /\ \A i \in 1..Len(s) + Len(t) : both[i] = IF i <= Len(s) THEN s[i] ELSE t[i - Len(s)]
  BY ConcatProperties
<1>2. Len(s) \in Nat /\ Len(t) \in Nat
  OBVIOUS
<1> HIDE DEF both
<1>3. Follows(both, 0, s)
  BY <1>1, <1>2 DEF Follows
<1>4. \A j \in 1..Len(t) : both[Len(s) + j] = t[j]
  <2> SUFFICES ASSUME NEW j \in 1..Len(t) PROVE both[Len(s) + j] = t[j]
    OBVIOUS
  <2>1. Len(s) + j \in 1..Len(s) + Len(t) /\ ~(Len(s) + j <= Len(s)) /\ (Len(s) + j) - Len(s) = j
    BY <1>2
  <2> QED BY <1>1, <2>1
<1> QED BY <1>1, <1>2, <1>3, <1>4 DEF Follows, both

\* What follows in a part follows in the whole.
LEMMA FollowsThrough ==
  ASSUME NEW C, NEW t \in Seq(C), NEW s \in Seq(C), NEW r \in Seq(C),
         NEW p \in Nat, NEW m \in Nat, Follows(t, p, s), Follows(s, m, r)
  PROVE  Follows(t, p + m, r)
<1>1. Len(t) \in Nat /\ Len(s) \in Nat /\ Len(r) \in Nat
  OBVIOUS
<1>2. (p + m) + Len(r) <= Len(t)
  BY <1>1 DEF Follows
<1>3. ASSUME NEW j \in 1..Len(r) PROVE t[(p + m) + j] = r[j]
  <2>1. m + j \in 1..Len(s) /\ p + (m + j) = (p + m) + j
    BY <1>1 DEF Follows
  <2>2. s[m + j] = r[j]
    BY DEF Follows
  <2>3. t[p + (m + j)] = s[m + j]
    BY <2>1 DEF Follows
  <2> QED BY <2>1, <2>2, <2>3
<1> QED BY <1>2, <1>3 DEF Follows

\* Where each of the sequences is in what they make.
LEMMA FlattenAt ==
  ASSUME NEW C, NEW seqs \in Seq(Seq(C)), NEW g, Flattens(g, seqs, C)
  PROVE  /\ FlattenSeq(seqs) \in Seq(C)
         /\ \A i \in 1..Len(seqs) :
              /\ Len(g[i - 1]) \in Nat /\ Len(g[i]) = Len(g[i - 1]) + Len(seqs[i])
              /\ Follows(FlattenSeq(seqs), Len(g[i - 1]), seqs[i])
<1> DEFINE n == Len(seqs)
           At(i, t) == Follows(t, Len(g[i - 1]), seqs[i])
           S == {k \in 0..n : \A i \in 1..k : At(i, g[k])}
<1>1. n \in Nat /\ \A i \in 1..n : i \in 0..n /\ i - 1 \in 0..n /\ seqs[i] \in Seq(C)
  OBVIOUS
<1>2. /\ \A i \in 0..n : g[i] \in Seq(C) /\ Len(g[i]) \in Nat
      /\ \A i \in 1..n : g[i] = g[i - 1] \o seqs[i]
      /\ g[n] = FlattenSeq(seqs)
  BY DEF Flattens
<1>3. 0 \in S
  <2>1. 0 \in 0..n /\ 1..0 = {}
    BY <1>1
  <2> HIDE DEF At
  <2> QED BY <2>1
<1>4. ASSUME NEW k \in 1..n, k - 1 \in S PROVE k \in S
  <2>1. /\ g[k - 1] \in Seq(C) /\ seqs[k] \in Seq(C) /\ g[k] = g[k - 1] \o seqs[k]
        /\ g[k] \in Seq(C) /\ k \in 0..n
    BY <1>1, <1>2
  <2> DEFINE t == g[k]
             s == g[k - 1]
             r == seqs[k]
  <2>2. Follows(t, 0, s) /\ Follows(t, Len(s), r)
    <3> HIDE DEF s, r
    <3>1. s \in Seq(C) /\ r \in Seq(C) /\ t = s \o r
      BY <2>1 DEF s, r
    <3> QED BY <3>1, FollowsConcat
  <2>3. ASSUME NEW i \in 1..k PROVE At(i, t)
    <3>1. CASE i = k
      BY <2>2, <3>1
    <3>2. CASE i # k
      <4>1. i \in 1..(k - 1) /\ i \in 1..n
        BY <1>1, <3>2
      <4> DEFINE m == Len(g[i - 1])
                 u == seqs[i]
      <4>2. m \in Nat /\ u \in Seq(C) /\ 0 \in Nat /\ 0 + m = m
        BY <1>1, <1>2, <4>1
      <4>3. Follows(s, m, u)
        BY <1>4, <4>1
      <4> HIDE DEF m, u, s, t
      <4>4. Follows(t, 0 + m, u)
        <5>1. s \in Seq(C) /\ t \in Seq(C)
          BY <2>1 DEF s, t
        <5> QED BY <2>2, <4>2, <4>3, <5>1, FollowsThrough
      <4> QED BY <4>2, <4>4 DEF m, u
    <3> QED BY <3>1, <3>2
  <2> HIDE DEF At
  <2> QED BY <2>1, <2>3
<1>5. n \in S
  <2>1. 0..n \subseteq S
    <3> HIDE DEF S
    <3> QED BY <1>1, <1>3, <1>4, BoundedInduction
  <2>2. n \in 0..n
    BY <1>1
  <2> HIDE DEF S
  <2> QED BY <2>1, <2>2
<1>6. \A i \in 1..n : At(i, g[n])
  <2> HIDE DEF At
  <2> QED BY <1>5
<1>7. ASSUME NEW i \in 1..n
      PROVE  Len(g[i - 1]) \in Nat /\ Len(g[i]) = Len(g[i - 1]) + Len(seqs[i])
  <2>1. g[i - 1] \in Seq(C) /\ seqs[i] \in Seq(C) /\ g[i] = g[i - 1] \o seqs[i]
    BY <1>1, <1>2
  <2> QED BY <2>1, ConcatProperties
<1>8. FlattenSeq(seqs) \in Seq(C)
  <2>1. n \in 0..n
    BY <1>1
  <2> QED BY <1>2, <2>1
<1> QED BY <1>2, <1>6, <1>7, <1>8

\* A sequence grows to its beginnings, one element after the other.
LEMMA Beginnings ==
  ASSUME NEW C, NEW s \in Seq(C)
  PROVE  /\ SubSeq(s, 1, 0) = <<>> /\ SubSeq(s, 1, Len(s)) = s
         /\ \A i \in 0..Len(s) : SubSeq(s, 1, i) \in Seq(C)
         /\ \A i \in 1..Len(s) : SubSeq(s, 1, i) = Append(SubSeq(s, 1, i - 1), s[i])
<1>1. SubSeq(s, 1, 0) = <<>> /\ SubSeq(s, 1, Len(s)) = s
  BY SubSeqEmpty, SubSeqFull
<1>2. ASSUME NEW i \in 0..Len(s) PROVE SubSeq(s, 1, i) \in Seq(C)
  <2>1. 1 \in Int /\ i \in Int /\ \A j \in 1..i : s[j] \in C
    OBVIOUS
  <2> QED BY <2>1, SubSeqProperties
<1>3. ASSUME NEW i \in 1..Len(s) PROVE SubSeq(s, 1, i) = Append(SubSeq(s, 1, i - 1), s[i])
  <2>1. SubSeq(s, 1, i) = SubSeq(s, 1, i - 1) \o <<s[i]>>
    <3>1. 1 \in 1..Len(s) /\ i \in 1..Len(s)
      OBVIOUS
    <3> QED BY <3>1, SubSeqRecursiveSecond
  <2>2. i - 1 \in 0..Len(s) /\ s[i] \in C
    OBVIOUS
  <2> QED BY <1>2, <2>1, <2>2, AppendIsConcat
<1> QED BY <1>1, <1>2, <1>3

-----------------------------------------------------------------------------
(* Functions that give a value by those of lower rank.                     *)

\* The functions that give each element of D a value of its own set.
Selections(D, V, W) == {f \in [D -> V] : \A d \in D : f[d] \in W[d]}

\* What F makes of a function at d depends on its values of lower rank only.
Contracts(F, T, D, rank) ==
  \A f, h \in T : \A d \in D :
    (\A c \in D : rank[c] < rank[d] => f[c] = h[c]) => F[f][d] = F[h][d]

\* F gives every choice another, of values that come from lower ranks.
Contraction(F, D, V, W, rank) ==
  /\ W \in [D -> SUBSET V] /\ (\A d \in D : W[d] # {}) /\ rank \in [D -> Nat]
  /\ F \in [Selections(D, V, W) -> Selections(D, V, W)] /\ Contracts(F, Selections(D, V, W), D, rank)

\* Then there is a function that F maps to itself: rank by rank the functions that
\* F makes one of the other come to rest.
THEOREM FixedPoint ==
  ASSUME NEW D, NEW V, NEW W, NEW rank, NEW F, Contraction(F, D, V, W, rank)
  PROVE  \E f \in Selections(D, V, W) : F[f] = f
<1>0. /\ W \in [D -> SUBSET V] /\ (\A d \in D : W[d] # {}) /\ rank \in [D -> Nat]
      /\ F \in [Selections(D, V, W) -> Selections(D, V, W)] /\ Contracts(F, Selections(D, V, W), D, rank)
  BY DEF Contraction
<1> DEFINE T == Selections(D, V, W)
           first == [d \in D |-> CHOOSE v \in W[d] : TRUE]
           step == [p \in T \X Nat |-> F[p[1]]]
<1>1. first \in T
  BY <1>0 DEF Selections
<1> HIDE DEF T, first
<1>2. F \in [T -> T] /\ Contracts(F, T, D, rank)
  BY <1>0 DEF T
<1>3. step \in [T \X Nat -> T]
  BY <1>2
<1>4. PICK g \in [Nat -> T] : Loop(g, Nat, first, step)
  <2> HIDE DEF step
  <2> QED BY <1>1, <1>3, CountsAre, LoopExists
<1>5. ASSUME NEW i \in Nat PROVE g[i + 1] = F[g[i]]
  <2>1. i + 1 \in Nat \ {0} /\ (i + 1) - 1 = i
    OBVIOUS
  <2>2. g[i + 1] = step[<<g[(i + 1) - 1], i + 1>>]
    BY <1>4, <2>1 DEF Loop
  <2>3. <<g[i], i + 1>> \in T \X Nat
    BY <2>1
  <2>4. step[<<g[i], i + 1>>] = F[g[i]]
    BY <2>3
  <2> HIDE DEF step
  <2> QED BY <2>1, <2>2, <2>4
<1> DEFINE S == {k \in Nat : \A d \in D : rank[d] < k =>
                             \A m \in Nat : k <= m => g[m][d] = g[k][d]}
<1>6. 0 \in S
  BY <1>0
<1>7. ASSUME NEW k \in Nat, k \in S PROVE k + 1 \in S
  <2> SUFFICES ASSUME NEW d \in D, rank[d] < k + 1, NEW m \in Nat, k + 1 <= m
               PROVE  g[m][d] = g[k + 1][d]
    OBVIOUS
  <2> DEFINE l == m - 1
  <2>1. l \in Nat /\ k <= l /\ l + 1 = m
    OBVIOUS
  <2> HIDE DEF l
  <2>2. g[m] = F[g[l]] /\ g[k + 1] = F[g[k]] /\ g[l] \in T /\ g[k] \in T
    BY <1>5, <2>1
  <2>3. \A c \in D : rank[c] < rank[d] => g[l][c] = g[k][c]
    <3> SUFFICES ASSUME NEW c \in D, rank[c] < rank[d] PROVE g[l][c] = g[k][c]
      OBVIOUS
    <3>1. rank[c] \in Nat /\ rank[d] \in Nat
      BY <1>0
    <3>2. rank[c] < k
      BY <3>1
    <3> QED BY <1>7, <2>1, <3>2
  <2>4. F[g[l]][d] = F[g[k]][d]
    BY <1>2, <2>2, <2>3 DEF Contracts
  <2> QED BY <2>2, <2>4
<1>8. ASSUME NEW k \in Nat, NEW d \in D, rank[d] < k, NEW m \in Nat, k <= m
      PROVE  g[m][d] = g[k][d]
  <2>1. Nat \subseteq S
    <3> HIDE DEF S
    <3> QED BY <1>6, <1>7, SetInduction
  <2> QED BY <1>8, <2>1
<1> DEFINE f == [d \in D |-> g[rank[d] + 1][d]]
<1>9. f \in T
  <2>1. ASSUME NEW d \in D PROVE f[d] \in W[d] /\ W[d] \subseteq V
    <3>1. rank[d] + 1 \in Nat /\ W[d] \subseteq V
      BY <1>0
    <3>2. g[rank[d] + 1] \in T
      BY <3>1
    <3> QED BY <3>1, <3>2 DEF T, Selections
  <2>2. f \in [D -> V]
    BY <2>1
  <2> HIDE DEF f
  <2> QED BY <2>1, <2>2 DEF T, Selections
<1>10. ASSUME NEW d \in D PROVE F[f][d] = f[d]
  <2> DEFINE r == rank[d]
  <2>1. r \in Nat /\ r + 1 \in Nat /\ g[r] \in T /\ f[d] = g[r + 1][d]
    BY <1>0
  <2>2. ASSUME NEW c \in D, rank[c] < r PROVE f[c] = g[r][c]
    <3> DEFINE k == rank[c] + 1
    <3>1. k \in Nat /\ rank[c] < k /\ k <= r /\ f[c] = g[k][c]
      BY <1>0, <2>1, <2>2
    <3> HIDE DEF k, f
    <3> QED BY <1>8, <2>1, <3>1
  <2>3. F[f][d] = F[g[r]][d]
    <3> HIDE DEF f
    <3> QED BY <1>2, <1>9, <2>1, <2>2 DEF Contracts
  <2>4. g[r + 1] = F[g[r]]
    <3> HIDE DEF r
    <3> QED BY <1>5, <2>1
  <2> QED BY <2>1, <2>3, <2>4
<1>11. F[f] = f
  <2>1. f \in T /\ F[f] \in T
    BY <1>2, <1>9
  <2>2. F[f] \in [D -> V] /\ f \in [D -> V]
    <3> HIDE DEF f
    <3> QED BY <2>1 DEF T, Selections
  <2> HIDE DEF f
  <2> QED BY <1>10, <2>2
<1> QED BY <1>9, <1>11 DEF T
=============================================================================

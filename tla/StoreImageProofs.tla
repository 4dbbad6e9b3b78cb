---------------------------- MODULE StoreImageProofs ----------------------------
(***************************************************************************)
(* What is written to a store file is read back: varints, strings, records *)
(* and pages, for any base, any words, any events, whole or cut anywhere.  *)
(***************************************************************************)
EXTENDS StoreImage, Recursion, SequenceTheorems

-----------------------------------------------------------------------------
(* Numbers.                                                                *)

\* A number divided by two or more gets less.
LEMMA QuotientLess ==
  ASSUME NEW n \in Nat \ {0}, NEW b \in Nat \ {0, 1}
  PROVE  n \div b < n
  OBVIOUS

\* One digit more: what it weighs, and the same with all weights times c.
Carries(l, c, x, y, z, f, g) ==
  f = (l + c * x) + y * (c * z) /\ g = x + y * z => f = l + c * g

\* A factor goes into a sum.
LEMMA Carry ==
  ASSUME NEW l \in Nat, NEW c \in Nat, NEW x \in Nat, NEW y \in Nat, NEW z \in Nat,
         NEW f, NEW g
  PROVE  Carries(l, c, x, y, z, f, g)
  BY DEF Carries

-----------------------------------------------------------------------------
(* Varints.                                                                *)

\* The weight of a digit is Base times that of the digit below it.
LEMMA PowerStep ==
  /\ Power \in [Nat -> Nat] /\ Power[0] = 1
  /\ \A n \in Nat : Power[n + 1] = Base * Power[n]
<1> DEFINE step == [p \in Nat \X Nat |-> Base * p[1]]
<1>1. step \in [Nat \X Nat -> Nat]
  BY VarintAssumption
<1>2. PICK g \in [Nat -> Nat] : Loop(g, Nat, 1, step)
  <2> HIDE DEF step
  <2> QED BY <1>1, LoopExists, CountsAre
<1>3. ASSUME NEW i \in Nat \ {0} PROVE g[i] = Base * g[i - 1]
  <2>1. step[<<g[i - 1], i>>] = Base * g[i - 1]
    OBVIOUS
  <2> HIDE DEF step
  <2> QED BY <1>2, <2>1 DEF Loop
<1>4. g = [n \in Nat |-> IF n = 0 THEN 1 ELSE Base * g[n - 1]]
  BY <1>2, <1>3 DEF Loop
<1>5. Power = [n \in Nat |-> IF n = 0 THEN 1 ELSE Base * Power[n - 1]]
  BY <1>4 DEF Power
<1>6. Power[0] = 1
  BY <1>5
<1>7. ASSUME NEW n \in Nat PROVE Power[n + 1] = Base * Power[n]
  <2>1. n + 1 \in Nat /\ n + 1 # 0 /\ (n + 1) - 1 = n
    OBVIOUS
  <2> QED BY <1>5, <2>1
<1>8. Power \in [Nat -> Nat]
  <2> DEFINE S == {n \in Nat : Power[n] \in Nat}
  <2>1. 0 \in S
    BY <1>6
  <2>2. \A n \in Nat : n \in S => n + 1 \in S
    BY <1>7, VarintAssumption
  <2>3. Nat \subseteq S
    <3> HIDE DEF S
    <3> QED BY <2>1, <2>2, SetInduction
  <2> QED BY <1>5, <2>3
<1> QED BY <1>6, <1>7, <1>8

\* A digit is a byte, with the continuation and without.
LEMMA Digit ==
  ASSUME NEW n \in Nat
  PROVE  /\ n \div Base \in Nat /\ n % Base \in Nat /\ n % Base < Base
         /\ n % Base \in Byte /\ Base + (n % Base) \in Byte
         /\ n < Base => n \in Byte /\ n % Base = n
<1>1. Base \in Nat \ {0, 1}
  BY VarintAssumption
<1>2. n \div Base \in Nat /\ n % Base \in 0..(Base - 1)
  BY <1>1, Division
<1>3. n < Base => n % Base = n
  BY <1>1
<1> QED BY <1>1, <1>2, <1>3 DEF Byte

\* What encode_varint writes: one byte when that is enough, otherwise the lowest
\* digit with a continuation, and what it writes for the rest of the number.
LEMMA EncodeStep ==
  ASSUME NEW v \in Nat
  PROVE  /\ EncodeVarint(v) \in Seq(Byte)
         /\ v < Base => EncodeVarint(v) = <<v>>
         /\ ~(v < Base) => EncodeVarint(v) = <<Base + (v % Base)>> \o EncodeVarint(v \div Base)
<1> DEFINE low(n)  == <<Base + (n % Base)>>
           high(n) == n \div Base
           Stop == {n \in Nat : n < Base}
           prev == [n \in Nat |-> IF n < Base THEN 0 ELSE high(n)]
           rank == [n \in Nat |-> n]
           base == [n \in Nat |-> IF n < Base THEN <<n>> ELSE <<>>]
           step == [p \in Seq(Byte) \X Nat |-> low(p[2]) \o p[1]]
           digits(g) == [n \in Nat |-> IF n < Base THEN <<n>> ELSE low(n) \o g[high(n)]]
<1>1. Base \in Nat \ {0, 1}
  BY VarintAssumption
<1>2. ASSUME NEW n \in Nat
      PROVE  /\ high(n) \in Nat /\ low(n) \in Seq(Byte)
             /\ n < Base => <<n>> \in Seq(Byte)
             /\ ~(n < Base) => high(n) < n
  <2>1. high(n) \in Nat /\ low(n) \in Seq(Byte)
    BY Digit
  <2>2. n < Base => <<n>> \in Seq(Byte)
    BY Digit
  <2>3. ~(n < Base) => high(n) < n
    BY <1>1, QuotientLess
  <2> QED BY <2>1, <2>2, <2>3
<1>3. \A n \in Nat : EncodeVarint(n) = (CHOOSE f : f = digits(f))[n]
  BY DEF EncodeVarint
<1> HIDE DEF low, high
<1>4. prev \in [Nat -> Nat] /\ rank \in [Nat -> Nat]
  BY <1>2
<1>5. base \in [Nat -> Seq(Byte)]
  BY <1>2
<1>6. step \in [Seq(Byte) \X Nat -> Seq(Byte)]
  BY <1>2, ConcatProperties
<1>7. \A n \in Nat \ Stop : rank[prev[n]] < rank[n]
  BY <1>2
<1>8. PICK g \in [Nat -> Seq(Byte)] : \A n \in Nat : Equation(g, n, Stop, prev, base, step)
  <2> HIDE DEF prev, rank, base, step, Stop
  <2> QED BY <1>4, <1>5, <1>6, <1>7, RecursionExists
<1>9. ASSUME NEW n \in Nat PROVE g[n] = IF n < Base THEN <<n>> ELSE low(n) \o g[high(n)]
  <2>1. n < Base => n \in Stop /\ base[n] = <<n>>
    OBVIOUS
  <2>2. ~(n < Base) => n \notin Stop /\ prev[n] = high(n)
    OBVIOUS
  <2>3. step[<<g[high(n)], n>>] = low(n) \o g[high(n)]
    BY <1>2
  <2> HIDE DEF prev, base, step, Stop
  <2>4. g[n] = IF n \in Stop THEN base[n] ELSE step[<<g[prev[n]], n>>]
    BY <1>8 DEF Equation
  <2> QED BY <2>1, <2>2, <2>3, <2>4
<1>10. g = digits(g)
  BY <1>9
<1> DEFINE f == CHOOSE h : h = digits(h)
<1>11. f = digits(f)
  <2> HIDE DEF digits
  <2> QED BY <1>10
<1> HIDE DEF f
<1>12. ASSUME NEW n \in Nat PROVE f[n] = IF n < Base THEN <<n>> ELSE low(n) \o f[high(n)]
  BY <1>11
<1> DEFINE S == {n \in Nat : f[n] \in Seq(Byte)}
<1>13. ASSUME NEW n \in Nat, \A m \in Nat : m < n => m \in S PROVE n \in S
  <2>1. CASE n < Base
    BY <1>2, <1>12, <2>1
  <2>2. CASE ~(n < Base)
    <3>1. f[high(n)] \in Seq(Byte) /\ low(n) \in Seq(Byte)
      BY <1>2, <1>13, <2>2
    <3>2. low(n) \o f[high(n)] \in Seq(Byte)
      BY <3>1, ConcatProperties
    <3> QED BY <1>12, <2>2, <3>2
  <2> QED BY <2>1, <2>2
<1>14. Nat \subseteq S
  <2> HIDE DEF S
  <2> QED BY <1>13, StrongInduction
<1>15. EncodeVarint(v) = f[v] /\ EncodeVarint(high(v)) = f[high(v)]
  BY <1>2, <1>3 DEF f
<1>16. f[v] \in Seq(Byte)
  BY <1>14
<1>17. ~(v < Base) => EncodeVarint(v) = low(v) \o EncodeVarint(high(v))
  BY <1>12, <1>15
<1>18. v < Base => EncodeVarint(v) = <<v>>
  BY <1>12, <1>15
<1> QED BY <1>15, <1>16, <1>17, <1>18 DEF low, high

\* One byte before others.
LEMMA Prepended ==
  ASSUME NEW b \in Byte, NEW t \in Seq(Byte)
  PROVE  /\ <<b>> \o t \in Seq(Byte) /\ Len(<<b>> \o t) = Len(t) + 1
         /\ (<<b>> \o t)[1] = b /\ \A i \in 1..Len(t) : (<<b>> \o t)[i + 1] = t[i]
<1>1. <<b>> \in Seq(Byte) /\ Len(<<b>>) = 1 /\ <<b>>[1] = b
  OBVIOUS
<1>2. /\ <<b>> \o t \in Seq(Byte) /\ Len(<<b>> \o t) = Len(<<b>>) + Len(t)
      /\ \A i \in 1..Len(<<b>>) + Len(t) :
           (<<b>> \o t)[i] = IF i <= Len(<<b>>) THEN <<b>>[i] ELSE t[i - Len(<<b>>)]
  BY <1>1, ConcatProperties
<1>3. Len(t) \in Nat
  OBVIOUS
<1>4. (<<b>> \o t)[1] = b
  BY <1>1, <1>2, <1>3
<1>5. ASSUME NEW i \in 1..Len(t) PROVE (<<b>> \o t)[i + 1] = t[i]
  <2>1. i + 1 \in 1..1 + Len(t) /\ ~(i + 1 <= 1) /\ (i + 1) - 1 = i
    BY <1>3
  <2> QED BY <1>1, <1>2, <2>1
<1> QED BY <1>1, <1>2, <1>3, <1>4, <1>5

\* A number of more than one digit: its lowest digit and the rest of it.
LEMMA EncodeLong ==
  ASSUME NEW v \in Nat, ~(v < Base)
  PROVE  LET w == v \div Base IN
         /\ w \in Nat /\ w < v /\ v = (v % Base) + Base * w
         /\ Len(EncodeVarint(v)) = Len(EncodeVarint(w)) + 1
         /\ EncodeVarint(v)[1] = Base + (v % Base)
         /\ \A i \in 1..Len(EncodeVarint(w)) : EncodeVarint(v)[i + 1] = EncodeVarint(w)[i]
<1> DEFINE w == v \div Base
<1>1. Base \in Nat \ {0, 1}
  BY VarintAssumption
<1>2. w \in Nat /\ w < v
  BY <1>1, Digit, QuotientLess
<1>3. v = (v % Base) + Base * w
  BY <1>1, Division
<1>4. EncodeVarint(w) \in Seq(Byte) /\ Base + (v % Base) \in Byte
  BY <1>2, EncodeStep, Digit
<1>5. EncodeVarint(v) = <<Base + (v % Base)>> \o EncodeVarint(w)
  BY EncodeStep
<1> QED BY <1>2, <1>3, <1>4, <1>5, Prepended

\* Every byte but the last has the continuation.
LEMMA EncodeShape ==
  ASSUME NEW v \in Nat
  PROVE  LET e == EncodeVarint(v) IN
         /\ e \in Seq(Byte) /\ Len(e) \in Nat \ {0}
         /\ e[Len(e)] < Base /\ \A i \in 1..(Len(e) - 1) : e[i] >= Base
<1> DEFINE Shaped(n) == LET e == EncodeVarint(n) IN
             /\ e \in Seq(Byte) /\ Len(e) \in Nat \ {0}
             /\ e[Len(e)] < Base /\ \A i \in 1..(Len(e) - 1) : e[i] >= Base
           S == {n \in Nat : Shaped(n)}
<1>1. Base \in Nat \ {0, 1}
  BY VarintAssumption
<1>2. ASSUME NEW n \in Nat, \A m \in Nat : m < n => m \in S PROVE n \in S
  <2>1. CASE n < Base
    <3> DEFINE e == EncodeVarint(n)
    <3>1. e = <<n>> /\ n \in Byte
      BY <2>1, EncodeStep, Digit
    <3> HIDE DEF e
    <3>2. e \in Seq(Byte) /\ Len(e) = 1 /\ e[1] = n
      BY <3>1
    <3>3. /\ Len(e) \in Nat \ {0} /\ e[Len(e)] < Base
          /\ \A i \in 1..(Len(e) - 1) : e[i] >= Base
      BY <2>1, <3>2
    <3> QED BY <3>2, <3>3 DEF e
  <2>2. CASE ~(n < Base)
    <3> DEFINE w == n \div Base
               e == EncodeVarint(n)
               t == EncodeVarint(w)
    <3>1. /\ w \in Nat /\ w < n /\ Len(e) = Len(t) + 1 /\ e[1] = Base + (n % Base)
          /\ \A i \in 1..Len(t) : e[i + 1] = t[i]
      BY <2>2, EncodeLong
    <3>2. e \in Seq(Byte)
      BY EncodeStep
    <3>3. n % Base \in Nat
      BY Digit
    <3>4. Shaped(w)
      BY <1>2, <3>1
    <3> HIDE DEF w, e, t
    <3>5. Len(t) \in Nat \ {0} /\ t[Len(t)] < Base /\ \A i \in 1..(Len(t) - 1) : t[i] >= Base
      BY <3>4 DEF t
    <3>6. e[Len(e)] < Base
      BY <3>1, <3>5
    <3>7. ASSUME NEW i \in 1..(Len(e) - 1) PROVE e[i] >= Base
      <4>1. CASE i = 1
        BY <1>1, <3>1, <3>3, <4>1
      <4>2. CASE i # 1
        <5>1. i - 1 \in 1..(Len(t) - 1) /\ i - 1 \in 1..Len(t) /\ (i - 1) + 1 = i
          BY <3>1, <3>5, <4>2
        <5>2. e[i] = t[i - 1] /\ t[i - 1] >= Base
          BY <3>1, <3>5, <5>1
        <5> QED BY <5>2
      <4> QED BY <4>1, <4>2
    <3> QED BY <3>1, <3>2, <3>5, <3>6, <3>7 DEF e
  <2> QED BY <2>1, <2>2
<1>3. Nat \subseteq S
  <2> HIDE DEF S
  <2> QED BY <1>2, StrongInduction
<1> QED BY <1>3

\* A number below the weight of the digit after n takes n bytes at the most.
LEMMA EncodeLength ==
  ASSUME NEW n \in Nat, NEW v \in Nat, v < Power[n]
  PROVE  v # 0 => Len(EncodeVarint(v)) <= n
<1> DEFINE S == {k \in Nat : \A u \in Nat : u < Power[k] /\ u # 0 => Len(EncodeVarint(u)) <= k}
<1>1. Base \in Nat \ {0, 1}
  BY VarintAssumption
<1>2. 0 \in S
  BY PowerStep
<1>3. ASSUME NEW k \in Nat, k \in S PROVE k + 1 \in S
  <2> SUFFICES ASSUME NEW u \in Nat, u < Power[k + 1], u # 0
               PROVE  Len(EncodeVarint(u)) <= k + 1
    OBVIOUS
  <2>1. CASE u < Base
    <3>1. EncodeVarint(u) = <<u>>
      BY <2>1, EncodeStep
    <3>2. Len(<<u>>) = 1
      OBVIOUS
    <3> QED BY <3>1, <3>2
  <2>2. CASE ~(u < Base)
    <3> DEFINE w == u \div Base
               low == u % Base
    <3>1. /\ w \in Nat /\ u = low + Base * w
          /\ Len(EncodeVarint(u)) = Len(EncodeVarint(w)) + 1
      BY <2>2, EncodeLong
    <3>2. low \in Nat /\ low < Base /\ Power[k] \in Nat /\ Power[k + 1] = Base * Power[k]
      BY Digit, PowerStep
    <3>3. EncodeVarint(w) \in Seq(Byte)
      BY <3>1, EncodeStep
    <3> HIDE DEF w, low
    <3>4. w # 0
      BY <1>1, <2>2, <3>1, <3>2
    <3>5. w < Power[k]
      <4> SUFFICES ASSUME NEW x \in Nat, x = w, NEW y \in Nat, y = Power[k], ~(x < y),
                          NEW c \in Nat, c = Base
                   PROVE  FALSE
        BY <1>1, <3>1, <3>2
      <4>1. c * y <= c * x
        OBVIOUS
      <4>2. u = low + c * x /\ u < c * y
        BY <3>1, <3>2
      <4> QED BY <3>2, <4>1, <4>2
    <3>6. Len(EncodeVarint(w)) <= k
      BY <1>3, <3>1, <3>4, <3>5
    <3>7. Len(EncodeVarint(w)) \in Nat
      BY <3>3
    <3> QED BY <3>1, <3>6, <3>7
  <2> QED BY <2>1, <2>2
<1>4. Nat \subseteq S
  <2> HIDE DEF S
  <2> QED BY <1>2, <1>3, SetInduction
<1> QED BY <1>4

\* What is written for a word decode_varint reads to its end.
LEMMA WordLength ==
  ASSUME NEW v \in Word
  PROVE  v \in Nat /\ Len(EncodeVarint(v)) \in 1..Groups
<1>1. v \in Nat /\ v < Power[Groups]
  BY VarintAssumption, PowerStep DEF Word
<1>2. Len(EncodeVarint(v)) \in Nat \ {0}
  BY <1>1, EncodeShape
<1>3. CASE v # 0
  BY <1>1, <1>2, <1>3, EncodeLength, VarintAssumption
<1>4. CASE v = 0
  <2>1. v < Base
    BY <1>4, VarintAssumption
  <2>2. EncodeVarint(v) = <<v>>
    BY <1>1, <2>1, EncodeStep
  <2>3. Len(<<v>>) = 1
    OBVIOUS
  <2> QED BY <1>1, <2>2, <2>3, VarintAssumption
<1> QED BY <1>1, <1>3, <1>4

\* What does not exceed a word is one, and arithmetic leaves it as it is.
LEMMA WordBelow ==
  ASSUME NEW m \in Word, NEW n \in Nat, n <= m
  PROVE  n \in Word /\ n % WordSize = n
  BY VarintAssumption DEF Word

\* s[i] is what the first i digits of e are worth.
Weighs(s, e) ==
  s[0] = 0 /\ \A i \in 1..Len(e) : s[i] = s[i - 1] + (e[i] % Base) * Power[i - 1]

\* Every sequence of bytes has such weights.
LEMMA WeightExists ==
  ASSUME NEW e \in Seq(Byte)
  PROVE  \E s \in [0..Len(e) -> Nat] : Weighs(s, e)
<1> DEFINE D == 0..Len(e)
           digit == [i \in D |-> IF i = 0 THEN 0 ELSE e[i] % Base]
           step == [p \in Nat \X D |-> p[1] + digit[p[2]] * Power[IF p[2] = 0 THEN 0 ELSE p[2] - 1]]
<1>1. Len(e) \in Nat
  OBVIOUS
<1>2. \A i \in 1..Len(e) : e[i] \in Nat
  BY VarintAssumption DEF Byte
<1>3. digit \in [D -> Nat]
  <2>1. \A i \in D \ {0} : e[i] % Base \in Nat
    <3> SUFFICES ASSUME NEW i \in D \ {0} PROVE e[i] % Base \in Nat
      OBVIOUS
    <3>1. i \in 1..Len(e)
      BY <1>1
    <3>2. e[i] \in Nat
      BY <1>2, <3>1
    <3> QED BY <3>2, Digit
  <2> QED BY <2>1
<1>4. step \in [Nat \X D -> Nat]
  <2> SUFFICES ASSUME NEW a \in Nat, NEW i \in D PROVE step[<<a, i>>] \in Nat
    OBVIOUS
  <2>1. (IF i = 0 THEN 0 ELSE i - 1) \in Nat
    BY <1>1
  <2>3. digit[i] \in Nat
    <3> HIDE DEF digit
    <3> QED BY <1>3
  <2>4. Power[IF i = 0 THEN 0 ELSE i - 1] \in Nat
    BY <2>1, PowerStep
  <2>2. step[<<a, i>>] = a + digit[i] * Power[IF i = 0 THEN 0 ELSE i - 1]
    OBVIOUS
  <2> HIDE DEF step, digit
  <2>5. \A p, q \in Nat : a + p * q \in Nat
    OBVIOUS
  <2> QED BY <2>2, <2>3, <2>4, <2>5
<1>5. D \in Counts
  BY <1>1, CountsAre
<1>6. PICK s \in [D -> Nat] : Loop(s, D, 0, step)
  <2> HIDE DEF step, D
  <2> QED BY <1>4, <1>5, LoopExists
<1>7. ASSUME NEW i \in 1..Len(e) PROVE s[i] = s[i - 1] + (e[i] % Base) * Power[i - 1]
  <2>1. i \in D \ {0} /\ i - 1 \in D /\ s[i - 1] \in Nat
    BY <1>1
  <2>2. step[<<s[i - 1], i>>] = s[i - 1] + digit[i] * Power[IF i = 0 THEN 0 ELSE i - 1]
    BY <2>1
  <2>3. digit[i] = e[i] % Base /\ (IF i = 0 THEN 0 ELSE i - 1) = i - 1
    BY <2>1
  <2> HIDE DEF step, digit, D
  <2>4. s[i] = step[<<s[i - 1], i>>]
    BY <1>6, <2>1 DEF Loop
  <2> QED BY <2>2, <2>3, <2>4
<1>8. s[0] = 0
  BY <1>6 DEF Loop
<1> QED BY <1>7, <1>8 DEF Weighs


\* A sequence has one weight at each digit.
LEMMA WeightUnique ==
  ASSUME NEW e \in Seq(Byte), NEW f, NEW g, Weighs(f, e), Weighs(g, e)
  PROVE  \A i \in 0..Len(e) : f[i] = g[i]
<1> DEFINE S == {i \in Nat : i <= Len(e) => f[i] = g[i]}
<1>1. Len(e) \in Nat
  OBVIOUS
<1>2. 0 \in S
  BY DEF Weighs
<1>3. ASSUME NEW i \in Nat, i \in S PROVE i + 1 \in S
  <2> SUFFICES ASSUME i + 1 <= Len(e) PROVE f[i + 1] = g[i + 1]
    OBVIOUS
  <2>1. i + 1 \in 1..Len(e) /\ (i + 1) - 1 = i /\ f[i] = g[i]
    BY <1>1, <1>3
  <2> QED BY <2>1 DEF Weighs
<1>4. Nat \subseteq S
  <2> HIDE DEF S
  <2> QED BY <1>2, <1>3, SetInduction
<1> QED BY <1>1, <1>4

\* The digits are worth the first of them and Base times what the others are worth.
LEMMA TailWeighs ==
  ASSUME NEW e \in Seq(Byte), NEW t \in Seq(Byte), Len(e) = Len(t) + 1,
         \A i \in 1..Len(t) : e[i + 1] = t[i],
         NEW f, Weighs(f, e), NEW g \in [0..Len(t) -> Nat], Weighs(g, t)
  PROVE  f[Len(e)] = (e[1] % Base) + Base * g[Len(t)]
<1> DEFINE low == e[1] % Base
           T == {i \in Nat : i <= Len(t) => f[i + 1] = low + Base * g[i]}
<1>1. Base \in Nat \ {0, 1} /\ Len(t) \in Nat
  BY VarintAssumption
<1>2. low \in Nat /\ Power[0] = 1
  <2>1. e[1] \in Nat
    BY <1>1, VarintAssumption DEF Byte
  <2> QED BY <2>1, Digit, PowerStep
<1>3. f[1] = low
  <2>1. f[0] = 0 /\ f[1] = f[0] + (e[1] % Base) * Power[0]
    BY <1>1 DEF Weighs
  <2> QED BY <1>2, <2>1
<1>4. \A i \in 1..Len(t) : t[i] % Base \in Nat
  <2> SUFFICES ASSUME NEW i \in 1..Len(t) PROVE t[i] % Base \in Nat
    OBVIOUS
  <2>1. t[i] \in Nat
    BY <1>1 DEF Byte
  <2> QED BY <2>1, Digit
<1> HIDE DEF low
<1>5. 0 \in T
  BY <1>1, <1>2, <1>3 DEF Weighs
<1>6. ASSUME NEW i \in Nat, i \in T PROVE i + 1 \in T
  <2> SUFFICES ASSUME i + 1 <= Len(t) PROVE f[i + 2] = low + Base * g[i + 1]
    BY <1>1
  <2> DEFINE d == t[i + 1] % Base
  <2>1. i + 1 \in 1..Len(t) /\ i + 2 \in 1..Len(e) /\ (i + 2) - 1 = i + 1 /\ (i + 1) - 1 = i
    BY <1>1
  <2>2. d \in Nat /\ e[i + 2] = t[i + 1]
    BY <1>4, <2>1
  <2>3. f[i + 2] = f[i + 1] + d * Power[i + 1]
    BY <2>1, <2>2 DEF Weighs
  <2>4. g[i + 1] = g[i] + d * Power[i]
    BY <2>1 DEF Weighs
  <2>5. f[i + 1] = low + Base * g[i]
    BY <1>1, <1>6
  <2>6. Power[i] \in Nat /\ Power[i + 1] = Base * Power[i] /\ g[i] \in Nat
    <3>1. Power[i] \in Nat /\ Power[i + 1] = Base * Power[i]
      BY PowerStep
    <3>2. i \in 0..Len(t)
      BY <1>1, <2>1
    <3> QED BY <3>1, <3>2
  <2> HIDE DEF d
  <2>7. Carries(low, Base, g[i], d, Power[i], f[i + 2], g[i + 1])
    <3>1. Base \in Nat /\ low \in Nat /\ d \in Nat /\ g[i] \in Nat /\ Power[i] \in Nat
      BY <1>1, <1>2, <2>2, <2>6
    <3> QED BY <3>1, Carry
  <2>8. f[i + 2] = (low + Base * g[i]) + d * (Base * Power[i])
    BY <2>3, <2>5, <2>6
  <2> QED BY <2>4, <2>7, <2>8, Zenon DEF Carries
<1>7. Len(t) \in T
  <2>1. Nat \subseteq T
    <3> HIDE DEF T
    <3> QED BY <1>5, <1>6, SetInduction
  <2> QED BY <1>1, <2>1
<1> QED BY <1>1, <1>7 DEF low

\* The digit of a byte that is not the last.
LEMMA ContinuationDigit ==
  ASSUME NEW d \in Nat, d < Base
  PROVE  (Base + d) % Base = d
<1> DEFINE one == 1
<1>1. Base \in Nat \ {0} /\ d \in 0..(Base - 1) /\ one \in Nat /\ Base * one + d = Base + d
  BY VarintAssumption
<1> HIDE DEF one
<1>2. (Base * one + d) % Base = d
  BY <1>1, DivisionUnique
<1> QED BY <1>1, <1>2

\* The digits of what is written for v are worth v.
LEMMA EncodeWeighs ==
  ASSUME NEW v \in Nat, NEW s, Weighs(s, EncodeVarint(v))
  PROVE  s[Len(EncodeVarint(v))] = v
<1> DEFINE Worth(n) == \A f : Weighs(f, EncodeVarint(n)) => f[Len(EncodeVarint(n))] = n
           S == {n \in Nat : Worth(n)}
<1>1. Base \in Nat \ {0, 1}
  BY VarintAssumption
<1>2. ASSUME NEW n \in Nat, \A m \in Nat : m < n => m \in S PROVE n \in S
  <2> DEFINE e == EncodeVarint(n)
             low == n % Base
  <2> SUFFICES ASSUME NEW f, Weighs(f, e) PROVE f[Len(e)] = n
    OBVIOUS
  <2>1. Power[0] = 1 /\ low \in Nat /\ low < Base /\ e \in Seq(Byte)
    BY PowerStep, Digit, EncodeStep
  <2>2. CASE n < Base
    <3>1. e = <<n>> /\ low = n
      BY <2>2, EncodeStep, Digit
    <3> HIDE DEF e
    <3>2. Len(e) = 1 /\ e[1] = n
      BY <3>1
    <3>3. f[0] = 0 /\ f[1] = f[0] + (e[1] % Base) * Power[0]
      BY <3>2 DEF Weighs
    <3> QED BY <2>1, <3>1, <3>2, <3>3
  <2>3. CASE ~(n < Base)
    <3> DEFINE w == n \div Base
               t == EncodeVarint(w)
    <3>1. /\ w \in Nat /\ w < n /\ n = low + Base * w
          /\ Len(e) = Len(t) + 1 /\ e[1] = Base + low
          /\ \A i \in 1..Len(t) : e[i + 1] = t[i]
      BY <2>3, EncodeLong
    <3>2. t \in Seq(Byte)
      BY <3>1, EncodeStep
    <3>3. PICK g \in [0..Len(t) -> Nat] : Weighs(g, t)
      <4> HIDE DEF t
      <4> QED BY <3>2, WeightExists
    <3>4. g[Len(t)] = w
      BY <1>2, <3>1, <3>3
    <3>5. e[1] % Base = low
      BY <2>1, <3>1, ContinuationDigit
    <3> HIDE DEF e, low, w, t
    <3>6. f[Len(e)] = (e[1] % Base) + Base * g[Len(t)]
      BY <2>1, <3>1, <3>2, <3>3, TailWeighs
    <3> QED BY <3>1, <3>4, <3>5, <3>6
  <2> QED BY <2>2, <2>3
<1>3. Nat \subseteq S
  <2> HIDE DEF S
  <2> QED BY <1>2, StrongInduction
<1> QED BY <1>3

\* The bytes of a varint: no idle highest digit, and the last byte alone without
\* continuation.
Whole(e) ==
  /\ Len(e) # 0 /\ (Len(e) = 1 \/ e[Len(e)] # 0)
  /\ e[Len(e)] < Base /\ \A i \in 1..(Len(e) - 1) : e[i] >= Base

\* Such bytes are what is written for what their digits are worth.
LEMMA WholeIsEncoded ==
  ASSUME NEW e \in Seq(Byte), Whole(e), NEW s, Weighs(s, e)
  PROVE  s[Len(e)] \in Nat /\ EncodeVarint(s[Len(e)]) = e
<1> DEFINE Right(d, v) == v \in Nat /\ EncodeVarint(v) = d /\ (Len(d) = 1 \/ v # 0)
           S == {n \in Nat : \A d \in Seq(Byte) : \A f :
                   Len(d) = n + 1 /\ Whole(d) /\ Weighs(f, d) => Right(d, f[Len(d)])}
<1>1. Base \in Nat \ {0, 1} /\ Power[0] = 1
  BY VarintAssumption, PowerStep
<1>2. 0 \in S
  <2> SUFFICES ASSUME NEW d \in Seq(Byte), NEW f, Len(d) = 1, Whole(d), Weighs(f, d)
               PROVE  Right(d, f[Len(d)])
    OBVIOUS
  <2>1. d = <<d[1]>> /\ d[1] \in Nat /\ d[1] < Base
    <3> DEFINE o == <<d[1]>>
    <3>3. 1 \in 1..Len(d)
      OBVIOUS
    <3>4. d[1] \in Byte
      BY <3>3
    <3>5. o \in Seq(Byte) /\ Len(o) = 1 /\ o[1] = d[1]
      BY <3>4
    <3> HIDE DEF o
    <3>6. o = d
      <4>1. \A i \in 1..Len(d) : o[i] = d[i]
        BY <3>5
      <4> QED BY <3>5, <4>1
    <3>1. d = <<d[1]>> /\ d[1] \in Byte
      BY <3>4, <3>6 DEF o
    <3>2. d[1] < Base
      BY DEF Whole
    <3> QED BY <1>1, <3>1, <3>2 DEF Byte
  <2>2. f[0] = 0 /\ f[1] = f[0] + (d[1] % Base) * Power[0]
    BY DEF Weighs
  <2>3. d[1] % Base = d[1]
    BY <2>1, Digit
  <2>4. f[1] = d[1]
    BY <1>1, <2>1, <2>2, <2>3
  <2> QED BY <2>1, <2>4, EncodeStep
<1>3. ASSUME NEW n \in Nat, n \in S PROVE n + 1 \in S
  <2> SUFFICES ASSUME NEW d \in Seq(Byte), NEW f,
                      Len(d) = n + 2, Whole(d), Weighs(f, d)
               PROVE  Right(d, f[Len(d)])
    OBVIOUS
  <2> DEFINE t == [i \in 1..n + 1 |-> d[i + 1]]
  <2>1. t \in Seq(Byte) /\ Len(t) = n + 1 /\ Len(t) - 1 = n
    OBVIOUS
  <2>2. \A i \in 1..n + 1 : d[i + 1] = t[i]
    OBVIOUS
  <2> HIDE DEF t
  <2>3. Whole(t)
    <3>1. n + 1 \in 1..n + 1 /\ (n + 1) + 1 = Len(d)
      OBVIOUS
    <3>2. t[Len(t)] = d[Len(d)]
      BY <2>1, <2>2, <3>1
    <3>3. ASSUME NEW i \in 1..(Len(t) - 1) PROVE t[i] >= Base
      <4>1. i \in 1..n + 1 /\ i + 1 \in 1..(Len(d) - 1)
        BY <2>1
      <4> QED BY <2>2, <4>1 DEF Whole
    <3> QED BY <2>1, <3>2, <3>3 DEF Whole
  <2>4. PICK g \in [0..Len(t) -> Nat] : Weighs(g, t)
    BY <2>1, WeightExists
  <2> DEFINE low == d[1] % Base
             w == g[Len(t)]
             v == low + Base * w
  <2>5. w \in Nat /\ EncodeVarint(w) = t /\ (Len(t) = 1 \/ w # 0)
    BY <1>3, <2>1, <2>3, <2>4
  <2>6. w # 0
    <3> SUFFICES ASSUME Len(t) = 1 PROVE w # 0
      BY <2>5
    <3>1. t[1] # 0 /\ t[1] \in Nat /\ t[1] < Base
      <4>5. Len(t) = 1 /\ Len(t) - 1 = n /\ Len(d) = n + 2
        BY <2>1
      <4>6. n = 0
        BY <4>5
      <4>1. 1 \in 1..n + 1 /\ 1 + 1 = Len(d) /\ 1 \in 1..Len(t)
        BY <4>5, <4>6
      <4>2. t[1] = d[Len(d)] /\ Len(d) # 1
        BY <2>2, <4>1
      <4>3. t[1] # 0 /\ t[1] < Base
        BY <4>2 DEF Whole
      <4>4. t[1] \in Byte
        BY <2>1, <4>1
      <4> QED BY <1>1, <4>3, <4>4 DEF Byte
    <3>2. g[0] = 0 /\ g[1] = g[0] + (t[1] % Base) * Power[0]
      BY <2>4 DEF Weighs
    <3>3. t[1] % Base = t[1]
      BY <3>1, Digit
    <3> QED BY <1>1, <3>1, <3>2, <3>3
  <2>7. d[1] \in Nat /\ d[1] >= Base /\ d[1] < Base + Base
    <3>1. 1 \in 1..Len(d) /\ 1 \in 1..(Len(d) - 1)
      OBVIOUS
    <3>2. d[1] \in Byte
      BY <3>1
    <3> QED BY <1>1, <3>1, <3>2 DEF Whole, Byte
  <2>8. low \in Nat /\ low < Base /\ d[1] = Base + low
    <3> DEFINE r == d[1] - Base
    <3>1. r \in Nat /\ r < Base /\ d[1] = Base + r
      BY <1>1, <2>7
    <3> HIDE DEF r
    <3>2. low = r
      BY <3>1, ContinuationDigit
    <3> QED BY <3>1, <3>2
  <2>9. f[Len(d)] = v
    <3>1. Len(d) = Len(t) + 1 /\ \A i \in 1..Len(t) : d[i + 1] = t[i]
      BY <2>1, <2>2
    <3> QED BY <2>1, <2>4, <3>1, TailWeighs
  <2> HIDE DEF low, w
  <2>10. v \in Nat /\ ~(v < Base) /\ v # 0
    <3>1. Base * w >= Base
      BY <1>1, <2>5, <2>6
    <3>2. Base * w \in Nat
      BY <1>1, <2>5
    <3> QED BY <1>1, <2>8, <3>1, <3>2
  <2>11. v \div Base = w /\ v % Base = low
    <3>1. low \in 0..(Base - 1) /\ Base * w + low = v
      <4>1. Base * w \in Nat
        BY <1>1, <2>5
      <4> QED BY <1>1, <2>8, <4>1
    <3> HIDE DEF v
    <3>2. (Base * w + low) \div Base = w /\ (Base * w + low) % Base = low
      BY <1>1, <2>5, <3>1, DivisionUnique
    <3> QED BY <3>1, <3>2
  <2> HIDE DEF v
  <2>12. EncodeVarint(v) = <<d[1]>> \o t
    BY <2>5, <2>8, <2>10, <2>11, EncodeStep
  <2>13. <<d[1]>> \o t = d
    <3>1. d[1] \in Byte
      OBVIOUS
    <3> DEFINE u == <<d[1]>> \o t
    <3>2. /\ u \in Seq(Byte) /\ Len(u) = Len(t) + 1
          /\ u[1] = d[1] /\ \A i \in 1..Len(t) : u[i + 1] = t[i]
      BY <2>1, <3>1, Prepended
    <3> HIDE DEF u
    <3>3. ASSUME NEW i \in 1..Len(d) PROVE u[i] = d[i]
      <4>1. CASE i = 1
        BY <3>2, <4>1
      <4>2. CASE i # 1
        <5>1. i - 1 \in 1..n + 1 /\ (i - 1) + 1 = i
          BY <4>2
        <5> QED BY <2>1, <2>2, <3>2, <5>1
      <4> QED BY <4>1, <4>2
    <3>4. u = d
      BY <2>1, <3>2, <3>3
    <3> QED BY <3>4 DEF u
  <2> QED BY <2>9, <2>10, <2>12, <2>13
<1>4. Nat \subseteq S
  <2> HIDE DEF S
  <2> QED BY <1>2, <1>3, SetInduction
<1>5. Len(e) - 1 \in Nat /\ Len(e) = (Len(e) - 1) + 1
  BY DEF Whole
<1> QED BY <1>4, <1>5

\* The sum of the digits at pos is what they weigh.
LEMMA DigitsWeigh ==
  ASSUME NEW e \in Seq(Byte), NEW bytes, NEW pos \in Nat,
         \A i \in 1..Len(e) : bytes[pos + i] = e[i]
  PROVE  \E s \in [0..Len(e) -> Nat] : Weighs(s, e) /\ DigitsSum(bytes, pos, Len(e)) = s[Len(e)]
<1> DEFINE n == Len(e)
           sums(f) == [i \in 0..n |->
                         IF i = 0 THEN 0
                         ELSE f[i - 1] + (bytes[pos + i] % Base) * Power[i - 1]]
<1>1. n \in Nat
  OBVIOUS
<1>2. PICK g \in [0..n -> Nat] : Weighs(g, e)
  BY <1>1, WeightExists
<1>3. g = sums(g)
  <2>1. \A i \in 0..n : i # 0 => i \in 1..n
    BY <1>1
  <2> QED BY <1>2, <2>1 DEF Weighs
<1> DEFINE f == CHOOSE h : h = sums(h)
<1>4. f = sums(f)
  <2> HIDE DEF sums
  <2> QED BY <1>3
<1>5. DigitsSum(bytes, pos, n) = f[n]
  BY DEF DigitsSum
<1> HIDE DEF f
<1>6. Weighs(f, e)
  <2>1. f[0] = 0 /\ \A i \in 1..n : f[i] = f[i - 1] + (bytes[pos + i] % Base) * Power[i - 1]
    <3>1. 0 \in 0..n /\ \A i \in 1..n : i \in 0..n /\ i # 0
      BY <1>1
    <3> QED BY <1>4, <3>1
  <2> QED BY <2>1 DEF Weighs
<1>7. f[n] = g[n]
  BY <1>1, <1>2, <1>6, WeightUnique
<1> QED BY <1>2, <1>5, <1>7

\* The varint written for v, wherever it stands, is worth v.
LEMMA EncodedDigits ==
  ASSUME NEW v \in Nat, NEW bytes, NEW pos \in Nat,
         \A i \in 1..Len(EncodeVarint(v)) : bytes[pos + i] = EncodeVarint(v)[i]
  PROVE  DigitsValue(bytes, pos, Len(EncodeVarint(v))) = v % WordSize
<1> DEFINE e == EncodeVarint(v)
<1>1. e \in Seq(Byte)
  BY EncodeStep
<1>2. \E s \in [0..Len(e) -> Nat] : Weighs(s, e) /\ DigitsSum(bytes, pos, Len(e)) = s[Len(e)]
  <2>1. \A i \in 1..Len(e) : bytes[pos + i] = e[i]
    OBVIOUS
  <2> HIDE DEF e
  <2> QED BY <1>1, <2>1, DigitsWeigh
<1>3. DigitsSum(bytes, pos, Len(e)) = v
  BY <1>2, EncodeWeighs
<1> QED BY <1>3 DEF DigitsValue

-----------------------------------------------------------------------------
(* Reading at a position.                                                  *)

\* From pos on, bytes go on with s, or with as much of s as there is room for.
Begins(bytes, pos, s) == \A i \in 1..Len(s) : pos + i <= Len(bytes) => bytes[pos + i] = s[i]

\* They hold s whole.
Stands(bytes, pos, s) == Begins(bytes, pos, s) /\ pos + Len(s) <= Len(bytes)

\* The length of two parts.
LEMMA JoinedLength ==
  ASSUME NEW s \in Seq(Byte), NEW t \in Seq(Byte)
  PROVE  /\ s \o t \in Seq(Byte) /\ Len(s \o t) = Len(s) + Len(t)
         /\ Len(s) \in Nat /\ Len(t) \in Nat
  BY ConcatProperties

\* What begins with two parts begins with the first, and after it with the second.
LEMMA BeginsParts ==
  ASSUME NEW bytes \in Seq(Byte), NEW pos \in Nat, NEW s \in Seq(Byte), NEW t \in Seq(Byte)
  PROVE  /\ s \o t \in Seq(Byte) /\ Len(s \o t) = Len(s) + Len(t)
         /\ Len(s) \in Nat /\ Len(t) \in Nat
         /\ Begins(bytes, pos, s \o t) =>
              Begins(bytes, pos, s) /\ Begins(bytes, pos + Len(s), t)
<1> DEFINE u == s \o t
<1>1. /\ u \in Seq(Byte) /\ Len(u) = Len(s) + Len(t)
      /\ \A i \in 1..Len(s) + Len(t) : u[i] = IF i <= Len(s) THEN s[i] ELSE t[i - Len(s)]
  BY ConcatProperties
<1> HIDE DEF u
<1>2. Len(s) \in Nat /\ Len(t) \in Nat /\ Len(bytes) \in Nat
  OBVIOUS
<1>3. ASSUME Begins(bytes, pos, u) PROVE Begins(bytes, pos, s)
  <2> SUFFICES ASSUME NEW i \in 1..Len(s), pos + i <= Len(bytes) PROVE bytes[pos + i] = s[i]
    BY DEF Begins
  <2>1. i \in 1..Len(u) /\ u[i] = s[i]
    BY <1>1, <1>2
  <2> QED BY <1>3, <2>1 DEF Begins
<1>4. ASSUME Begins(bytes, pos, u) PROVE Begins(bytes, pos + Len(s), t)
  <2> SUFFICES ASSUME NEW i \in 1..Len(t), pos + Len(s) + i <= Len(bytes)
               PROVE  bytes[pos + Len(s) + i] = t[i]
    BY DEF Begins
  <2>1. /\ Len(s) + i \in 1..Len(u) /\ ~(Len(s) + i <= Len(s)) /\ (Len(s) + i) - Len(s) = i
        /\ pos + (Len(s) + i) = pos + Len(s) + i
    BY <1>1, <1>2
  <2>2. u[Len(s) + i] = t[i]
    BY <1>1, <2>1
  <2> QED BY <1>4, <2>1, <2>2 DEF Begins
<1> QED BY <1>1, <1>2, <1>3, <1>4 DEF u

\* A varint that stands whole is read back, whatever follows it.
LEMMA DecodeWhole ==
  ASSUME NEW v \in Word, NEW bytes \in Seq(Byte), NEW pos \in Nat,
         Stands(bytes, pos, EncodeVarint(v))
  PROVE  DecodeVarint(bytes, pos) =
           [ok |-> TRUE, value |-> v, pos |-> pos + Len(EncodeVarint(v))]
<1> DEFINE e == EncodeVarint(v)
           n == Len(e)
<1>1. v \in Nat /\ n \in 1..Groups /\ Groups \in Nat
  BY WordLength, VarintAssumption
<1>2. e[n] < Base /\ \A i \in 1..(n - 1) : e[i] >= Base
  BY <1>1, EncodeShape
<1>3. pos + n <= Len(bytes) /\ \A i \in 1..n : bytes[pos + i] = e[i]
  <2>1. Len(bytes) \in Nat
    OBVIOUS
  <2>2. Stands(bytes, pos, e)
    OBVIOUS
  <2> HIDE DEF e
  <2>3. pos + n <= Len(bytes) /\ \A i \in 1..n : pos + i <= Len(bytes)
    BY <1>1, <2>1, <2>2 DEF Stands
  <2> QED BY <2>2, <2>3 DEF Stands, Begins
<1>4. DigitsValue(bytes, pos, n) = v
  <2>1. DigitsValue(bytes, pos, n) = v % WordSize
    BY <1>1, <1>3, EncodedDigits
  <2>2. v % WordSize = v
    BY VarintAssumption DEF Word
  <2> QED BY <2>1, <2>2
<1>5. \A i \in 1..n : bytes[pos + i] \in Nat
  <2> SUFFICES ASSUME NEW i \in 1..n PROVE e[i] \in Nat
    BY <1>3
  <2>1. e \in Seq(Byte)
    BY <1>1, EncodeStep
  <2> HIDE DEF e
  <2>2. e[i] \in Byte
    BY <2>1
  <2> QED BY <2>2, VarintAssumption DEF Byte
<1>6. VarintLengths(bytes, pos) = {n}
  <2> HIDE DEF e
  <2>1. n \in VarintLengths(bytes, pos)
    <3>1. bytes[pos + n] < Base
      BY <1>1, <1>2, <1>3
    <3>2. ASSUME NEW i \in 1..(n - 1) PROVE bytes[pos + i] >= Base
      <4>1. i \in 1..n
        BY <1>1
      <4> QED BY <1>2, <1>3, <4>1
    <3> QED BY <1>1, <1>3, <3>1, <3>2 DEF VarintLengths
  <2>2. ASSUME NEW m \in VarintLengths(bytes, pos) PROVE m = n
    <3>1. /\ m \in 1..Groups /\ bytes[pos + m] < Base
          /\ \A i \in 1..(m - 1) : bytes[pos + i] >= Base
      BY DEF VarintLengths
    <3>2. ~(m < n)
      <4>1. SUFFICES ASSUME m < n PROVE FALSE
        OBVIOUS
      <4>2. m \in 1..(n - 1) /\ m \in 1..n
        BY <1>1, <3>1, <4>1
      <4>3. bytes[pos + m] = e[m] /\ e[m] >= Base /\ bytes[pos + m] \in Nat
        BY <1>2, <1>3, <1>5, <4>2
      <4> QED BY <3>1, <4>3, VarintAssumption
    <3>3. ~(n < m)
      <4>1. SUFFICES ASSUME n < m PROVE FALSE
        OBVIOUS
      <4>2. n \in 1..(m - 1) /\ n \in 1..n
        BY <1>1, <3>1, <4>1
      <4>3. bytes[pos + n] >= Base /\ bytes[pos + n] = e[n] /\ bytes[pos + n] \in Nat
        BY <1>3, <1>5, <3>1, <4>2
      <4> QED BY <1>2, <4>3, VarintAssumption
    <3> QED BY <1>1, <3>1, <3>2, <3>3
  <2> QED BY <2>1, <2>2
<1> HIDE DEF e
<1>7. (CHOOSE m \in {n} : TRUE) = n
  OBVIOUS
<1> QED BY <1>4, <1>6, <1>7 DEF DecodeVarint, e

\* A varint that the input ends in is refused, whatever part of it there is.
LEMMA DecodeCut ==
  ASSUME NEW v \in Word, NEW bytes \in Seq(Byte), NEW pos \in Nat,
         Begins(bytes, pos, EncodeVarint(v)), ~(pos + Len(EncodeVarint(v)) <= Len(bytes))
  PROVE  ~DecodeVarint(bytes, pos).ok
<1> DEFINE e == EncodeVarint(v)
           n == Len(e)
<1>1. v \in Nat /\ n \in 1..Groups /\ Groups \in Nat /\ Len(bytes) \in Nat
  BY WordLength, VarintAssumption
<1>2. \A i \in 1..(n - 1) : e[i] >= Base
  BY <1>1, EncodeShape
<1>3. VarintLengths(bytes, pos) = {}
  <2> SUFFICES ASSUME NEW m \in VarintLengths(bytes, pos) PROVE FALSE
    OBVIOUS
  <2> HIDE DEF e
  <2>1. m \in 1..Groups /\ pos + m <= Len(bytes) /\ bytes[pos + m] < Base
    BY DEF VarintLengths
  <2>2. ~(pos + n <= Len(bytes))
    BY DEF e
  <2>3. m \in 1..(n - 1) /\ m \in 1..n
    BY <1>1, <2>1, <2>2
  <2>4. bytes[pos + m] = e[m]
    BY <2>1, <2>3 DEF Begins, e
  <2>5. pos + m \in 1..Len(bytes)
    BY <1>1, <2>1
  <2>6. bytes[pos + m] \in Byte
    BY <2>5
  <2>7. bytes[pos + m] >= Base
    BY <1>2, <2>3, <2>4
  <2>8. bytes[pos + m] \in Nat /\ Base \in Nat
    BY <2>6, VarintAssumption DEF Byte
  <2> QED BY <2>1, <2>7, <2>8
<1> QED BY <1>3 DEF DecodeVarint

-----------------------------------------------------------------------------
(* Strings and records.                                                    *)

\* What put writes: the length and the characters.
LEMMA PutShape ==
  ASSUME NEW t \in Seq(Byte)
  PROVE  /\ PutString(t) \in Seq(Byte)
         /\ Len(PutString(t)) \in Nat /\ Len(t) < Len(PutString(t))
         /\ Len(PutString(t)) = Len(EncodeVarint(Len(t))) + Len(t)
<1>1. Len(t) \in Nat
  OBVIOUS
<1>2. EncodeVarint(Len(t)) \in Seq(Byte) /\ Len(EncodeVarint(Len(t))) \in Nat \ {0}
  BY <1>1, EncodeShape
<1>3. /\ PutString(t) \in Seq(Byte)
      /\ Len(PutString(t)) = Len(EncodeVarint(Len(t))) + Len(t)
  BY <1>2, ConcatProperties DEF PutString
<1> QED BY <1>1, <1>2, <1>3

\* The characters at a position.
LEMMA Characters ==
  ASSUME NEW bytes \in Seq(Byte), NEW pos \in Nat, NEW t \in Seq(Byte), Stands(bytes, pos, t)
  PROVE  SubSeq(bytes, pos + 1, pos + Len(t)) = t
<1> DEFINE sub == SubSeq(bytes, pos + 1, pos + Len(t))
<1>1. Len(t) \in Nat /\ Len(bytes) \in Nat
  OBVIOUS
<1>2. /\ \A i \in (pos + 1)..(pos + Len(t)) : bytes[i] \in Byte
      /\ pos + 1 \in Int /\ pos + Len(t) \in Int
  <2>1. \A i \in (pos + 1)..(pos + Len(t)) : i \in 1..Len(bytes)
    BY <1>1 DEF Stands
  <2> QED BY <1>1, <2>1
<1>3. /\ sub \in Seq(Byte)
      /\ Len(sub) = IF pos + 1 <= pos + Len(t) THEN pos + Len(t) - (pos + 1) + 1 ELSE 0
      /\ \A i \in 1..(pos + Len(t) - (pos + 1) + 1) : sub[i] = bytes[pos + 1 + i - 1]
  BY <1>2, SubSeqProperties
<1>4. Len(sub) = Len(t)
  BY <1>1, <1>3
<1>5. ASSUME NEW i \in 1..Len(t) PROVE sub[i] = t[i]
  <2>1. /\ i \in 1..(pos + Len(t) - (pos + 1) + 1) /\ pos + 1 + i - 1 = pos + i
        /\ pos + i <= Len(bytes)
    BY <1>1 DEF Stands
  <2> HIDE DEF sub
  <2>2. sub[i] = bytes[pos + i]
    BY <1>3, <2>1
  <2> QED BY <2>1, <2>2 DEF Stands, Begins
<1> HIDE DEF sub
<1>6. sub = t
  BY <1>3, <1>4, <1>5, SeqEqual
<1> QED BY <1>6 DEF sub

\* get reads back a string that stands whole in a record.
LEMMA GetWhole ==
  ASSUME NEW t \in Seq(Byte), NEW bytes \in Seq(Byte), NEW pos \in Nat,
         Len(bytes) \in Word, Stands(bytes, pos, PutString(t))
  PROVE  GetString(bytes, pos) =
           [ok |-> TRUE, thrown |-> FALSE, text |-> t, pos |-> pos + Len(PutString(t))]
<1> DEFINE e == EncodeVarint(Len(t))
           p == pos + Len(e)
<1>1. /\ Len(t) \in Nat /\ Len(bytes) \in Nat /\ e \in Seq(Byte) /\ Len(e) \in Nat
      /\ PutString(t) = e \o t /\ Len(PutString(t)) = Len(e) + Len(t)
  <2>1. Len(t) \in Nat /\ Len(bytes) \in Nat
    OBVIOUS
  <2> QED BY <2>1, PutShape, EncodeShape DEF PutString
<1> HIDE DEF e
<1>2. p \in Nat /\ p + Len(t) = pos + Len(PutString(t)) /\ p + Len(t) <= Len(bytes)
  BY <1>1 DEF Stands
<1>3. Begins(bytes, pos, e \o t)
  BY <1>1 DEF Stands
<1>4. Begins(bytes, pos, e) /\ Begins(bytes, p, t)
  BY <1>1, <1>3, BeginsParts
<1>5. Stands(bytes, pos, e) /\ Stands(bytes, p, t)
  BY <1>1, <1>2, <1>4 DEF Stands
<1>6. Len(t) \in Word
  <2>1. Len(t) <= Len(bytes)
    BY <1>1, <1>2
  <2> QED BY <1>1, <2>1, WordBelow
<1>7. DecodeVarint(bytes, pos) = [ok |-> TRUE, value |-> Len(t), pos |-> p]
  BY <1>5, <1>6, DecodeWhole DEF e
<1>8. (p + Len(t)) % WordSize = p + Len(t) /\ p + Len(t) < WordSize
  <2> HIDE DEF p
  <2>1. p + Len(t) \in Nat
    BY <1>1, <1>2
  <2>2. p + Len(t) \in Word /\ (p + Len(t)) % WordSize = p + Len(t)
    BY <1>2, <2>1, WordBelow
  <2>3. ASSUME NEW w \in Word PROVE w < WordSize
    BY VarintAssumption DEF Word
  <2> QED BY <2>2, <2>3
<1> HIDE DEF p
<1>9. SubSeq(bytes, p + 1, p + Len(t)) = t
  BY <1>2, <1>5, Characters
<1> DEFINE d == DecodeVarint(bytes, pos)
<1>10. d.ok /\ d.value = Len(t) /\ d.pos = p
  BY <1>7
<1>11. (d.pos + d.value) % WordSize <= Len(bytes) /\ d.pos + d.value < WordSize
  BY <1>2, <1>8, <1>10
<1>12. SubSeq(bytes, d.pos + 1, d.pos + d.value) = t
  BY <1>9, <1>10
<1>13. d.pos + d.value = pos + Len(PutString(t))
  BY <1>2, <1>10
<1> QED BY <1>10, <1>11, <1>12, <1>13 DEF GetString, StringBehind

\* n times the text t.
Copies(t, n) == FlattenSeq([i \in 1..n |-> t])

\* A text repeated once more has it once more at the end.
LEMMA CopiesStep ==
  ASSUME NEW t \in Seq(Byte), NEW n \in Nat
  PROVE  /\ Copies(t, n) \in Seq(Byte) /\ Copies(t, 0) = <<>>
         /\ Copies(t, n + 1) = Copies(t, n) \o t
<1> DEFINE step == [p \in Seq(Byte) \X Nat |-> p[1] \o t]
<1>1. step \in [Seq(Byte) \X Nat -> Seq(Byte)]
  BY ConcatProperties
<1>2. <<>> \in Seq(Byte)
  OBVIOUS
<1>3. PICK g \in [Nat -> Seq(Byte)] : Loop(g, Nat, <<>>, step)
  <2> HIDE DEF step
  <2> QED BY <1>1, <1>2, LoopExists, CountsAre
<1>4. \A i \in Nat : g[i + 1] = g[i] \o t
  <2> SUFFICES ASSUME NEW i \in Nat PROVE g[i + 1] = g[i] \o t
    OBVIOUS
  <2>1. i + 1 \in Nat \ {0} /\ (i + 1) - 1 = i /\ g[i] \in Seq(Byte)
    OBVIOUS
  <2>2. step[<<g[i], i + 1>>] = g[i] \o t
    BY <2>1
  <2> HIDE DEF step
  <2>3. g[i + 1] = step[<<g[(i + 1) - 1], i + 1>>]
    BY <1>3, <2>1 DEF Loop
  <2> QED BY <2>1, <2>2, <2>3
<1>5. g[0] = <<>>
  BY <1>3 DEF Loop
<1> DEFINE first == 0
<1>9. g[1] = t
  <2>1. first \in Nat /\ first + 1 = 1 /\ g[first] = <<>>
    BY <1>5
  <2> HIDE DEF first
  <2>2. g[first + 1] = <<>> \o t
    BY <1>4, <2>1
  <2> QED BY <2>1, <2>2, ConcatEmptySeq
<1>6. Copies(t, 0) = <<>>
  <2>1. [i \in 1..0 |-> t] = <<>>
    OBVIOUS
  <2> QED BY <2>1 DEF Copies, FlattenSeq
<1>7. ASSUME NEW k \in Nat \ {0} PROVE Copies(t, k) = g[k]
  <2> DEFINE seqs == [i \in 1..k |-> t]
             turns(f) == [i \in 1..k |-> IF i = 1 THEN seqs[i] ELSE f[i - 1] \o seqs[i]]
             f == CHOOSE h : h = turns(h)
             h == [i \in 1..k |-> g[i]]
  <2>1. Len(seqs) = k
    OBVIOUS
  <2>2. Copies(t, k) = f[k]
    <3> HIDE DEF seqs
    <3> QED BY <2>1 DEF Copies, FlattenSeq, seqs
  <2>3. \A i \in 1..k : seqs[i] = t
    OBVIOUS
  <2>4. h = turns(h)
    <3> HIDE DEF seqs
    <3>2. ASSUME NEW i \in 1..k
          PROVE  g[i] = IF i = 1 THEN seqs[i] ELSE h[i - 1] \o seqs[i]
      <4>1. CASE i = 1
        BY <1>9, <2>3, <4>1
      <4>2. CASE i # 1
        <5>1. i - 1 \in Nat /\ i - 1 \in 1..k /\ (i - 1) + 1 = i
          BY <4>2
        <5> QED BY <1>4, <2>3, <4>2, <5>1
      <4> QED BY <4>1, <4>2
    <3> QED BY <3>2
  <2>5. f = turns(f)
    <3> HIDE DEF turns
    <3> QED BY <2>4
  <2> DEFINE S == {i \in Nat : i \in 1..k => f[i] = g[i]}
  <2>6. ASSUME NEW i \in Nat, i \in S PROVE i + 1 \in S
    <3> HIDE DEF f
    <3> SUFFICES ASSUME i + 1 \in 1..k PROVE f[i + 1] = g[i + 1]
      OBVIOUS
    <3>1. f[i + 1] = IF i + 1 = 1 THEN seqs[i + 1] ELSE f[(i + 1) - 1] \o seqs[i + 1]
      <4> HIDE DEF seqs
      <4> QED BY <2>5
    <3> HIDE DEF seqs
    <3>2. g[i + 1] = g[i] \o t
      BY <1>4
    <3>3. CASE i = 0
      BY <1>9, <2>3, <3>1, <3>3
    <3>4. CASE i # 0
      <4>1. i \in 1..k /\ (i + 1) - 1 = i
        BY <3>4
      <4>2. f[i] = g[i]
        BY <2>6, <4>1
      <4>3. seqs[i + 1] = t
        BY <2>3
      <4>4. i + 1 # 1
        BY <3>4
      <4> HIDE DEF S
      <4> QED BY <3>1, <3>2, <4>1, <4>2, <4>3, <4>4
    <3> QED BY <3>3, <3>4
  <2>7. Nat \subseteq S
    <3>1. 0 \in S
      OBVIOUS
    <3> HIDE DEF S
    <3> QED BY <2>6, <3>1, SetInduction
  <2> HIDE DEF f
  <2> QED BY <2>2, <2>7
<1>8. Copies(t, n) = g[n] /\ Copies(t, n + 1) = g[n + 1]
  BY <1>5, <1>6, <1>7
<1>10. g[n] \in Seq(Byte)
  OBVIOUS
<1> QED BY <1>4, <1>6, <1>8, <1>10

\* Copies that stand whole at a position: so do the first of them, and the next one
\* stands behind those.
LEMMA CopiesStand ==
  ASSUME NEW t \in Seq(Byte), NEW bytes \in Seq(Byte), NEW pos \in Nat, NEW n \in Nat,
         Stands(bytes, pos, Copies(t, n))
  PROVE  /\ \A i \in 0..n : Stands(bytes, pos, Copies(t, i))
         /\ \A i \in 0..n : i # n => Stands(bytes, pos + Len(Copies(t, i)), t)
         /\ t # <<>> => n <= Len(Copies(t, n))
<1> DEFINE P(k) == /\ \A i \in 0..k : Stands(bytes, pos, Copies(t, i))
                   /\ \A i \in 0..k : i # k => Stands(bytes, pos + Len(Copies(t, i)), t)
                   /\ t # <<>> => k <= Len(Copies(t, k))
           S == {k \in Nat : Stands(bytes, pos, Copies(t, k)) => P(k)}
<1>1. Len(t) \in Nat /\ Len(bytes) \in Nat /\ (t # <<>> => Len(t) > 0)
  OBVIOUS
<1>2. 0 \in S
  <2>1. Copies(t, 0) = <<>> /\ Len(<<>>) = 0
    BY CopiesStep
  <2> QED BY <2>1
<1>3. ASSUME NEW k \in Nat, k \in S PROVE k + 1 \in S
  <2> SUFFICES ASSUME Stands(bytes, pos, Copies(t, k + 1)) PROVE P(k + 1)
    OBVIOUS
  <2> DEFINE c == Copies(t, k)
  <2>1. c \in Seq(Byte) /\ Len(c) \in Nat /\ Copies(t, k + 1) = c \o t
    <3>1. c \in Seq(Byte) /\ Copies(t, k + 1) = c \o t
      BY CopiesStep
    <3> QED BY <3>1
  <2>2. Stands(bytes, pos, c \o t)
    BY <2>1
  <2>3. Len(c \o t) = Len(c) + Len(t) /\ pos + Len(c) \in Nat
    BY <1>1, <2>1, BeginsParts
  <2>4. Begins(bytes, pos, c) /\ Begins(bytes, pos + Len(c), t)
    BY <2>1, <2>2, BeginsParts DEF Stands
  <2>5. Stands(bytes, pos, c) /\ Stands(bytes, pos + Len(c), t)
    BY <1>1, <2>1, <2>2, <2>3, <2>4 DEF Stands
  <2>6. P(k)
    BY <1>3, <2>5
  <2>7. \A i \in 0..(k + 1) : i \in 0..k \/ i = k + 1
    OBVIOUS
  <2>8. \A i \in 0..(k + 1) : Stands(bytes, pos, Copies(t, i))
    BY <2>1, <2>2, <2>6, <2>7
  <2>9. \A i \in 0..(k + 1) : i # k + 1 => Stands(bytes, pos + Len(Copies(t, i)), t)
    BY <2>5, <2>6, <2>7
  <2>10. t # <<>> => k + 1 <= Len(Copies(t, k + 1))
    BY <1>1, <2>1, <2>3, <2>6
  <2> QED BY <2>8, <2>9, <2>10
<1>4. Nat \subseteq S
  <2> HIDE DEF S
  <2> QED BY <1>2, <1>3, SetInduction
<1> QED BY <1>4

\* A field that stands whole is read back, its key and then its value.
LEMMA FieldWhole ==
  ASSUME NEW bytes \in Seq(Byte), NEW pos \in Nat,
         Len(bytes) \in Word, Stands(bytes, pos, PutField)
  PROVE  GetField(bytes, pos) = [ok |-> TRUE, thrown |-> FALSE, pos |-> pos + Len(PutField)]
<1> DEFINE k == PutString(KeyText)
           v == PutString(ValueText)
           p == pos + Len(k)
<1>1. KeyText \in Seq(Byte) /\ ValueText \in Seq(Byte)
  BY CodecAssumption
<1>2. /\ k \in Seq(Byte) /\ v \in Seq(Byte)
      /\ Len(k) \in Nat /\ Len(v) \in Nat /\ Len(bytes) \in Nat
  BY <1>1, PutShape
<1>3. PutField = k \o v
  BY DEF PutField
<1> HIDE DEF k, v
<1>4. Stands(bytes, pos, k \o v)
  BY <1>3
<1>5. Len(k \o v) = Len(k) + Len(v) /\ p \in Nat /\ p + Len(v) = pos + Len(k \o v)
  <2>1. Len(k \o v) = Len(k) + Len(v)
    BY <1>2, JoinedLength
  <2> QED BY <1>2, <2>1
<1>6. Begins(bytes, pos, k) /\ Begins(bytes, p, v) /\ pos + Len(k \o v) <= Len(bytes)
  BY <1>2, <1>4, BeginsParts DEF Stands
<1>7. Stands(bytes, pos, k) /\ Stands(bytes, p, v)
  BY <1>2, <1>5, <1>6 DEF Stands
<1>8. GetString(bytes, pos) = [ok |-> TRUE, thrown |-> FALSE, text |-> KeyText, pos |-> p]
  BY <1>1, <1>7, GetWhole DEF k
<1>9. GetString(bytes, p) =
        [ok |-> TRUE, thrown |-> FALSE, text |-> ValueText, pos |-> p + Len(v)]
  <2> HIDE DEF p
  <2> QED BY <1>1, <1>5, <1>7, GetWhole DEF v
<1> HIDE DEF p
<1>10. GetField(bytes, pos) = [ok |-> TRUE, thrown |-> FALSE, pos |-> p + Len(v)]
  <2> DEFINE key == GetString(bytes, pos)
             value == GetString(bytes, key.pos)
  <2>1. key.ok /\ key.thrown = FALSE /\ key.pos = p
    BY <1>8
  <2> HIDE DEF key
  <2>2. value.ok = TRUE /\ value.thrown = FALSE /\ value.pos = p + Len(v)
    BY <1>9, <2>1
  <2>3. GetField(bytes, pos) =
          [ok |-> key.ok /\ value.ok, thrown |-> key.thrown \/ value.thrown, pos |-> value.pos]
    BY DEF GetField, ValueBehind, key
  <2>4. (key.ok /\ value.ok) = TRUE /\ (key.thrown \/ value.thrown) = FALSE
    BY <2>1, <2>2
  <2> HIDE DEF value
  <2> QED BY <2>2, <2>3, <2>4
<1> QED BY <1>3, <1>5, <1>10

\* What a field is written as is never nothing.
LEMMA FieldShape == PutField \in Seq(Byte) /\ PutField # <<>>
<1> DEFINE k == PutString(KeyText)
           v == PutString(ValueText)
<1>1. KeyText \in Seq(Byte) /\ ValueText \in Seq(Byte) /\ Len(KeyText) \in Nat
  BY CodecAssumption
<1>2. k \in Seq(Byte) /\ v \in Seq(Byte) /\ Len(k) \in Nat /\ Len(KeyText) < Len(k) /\ Len(v) \in Nat
  BY <1>1, PutShape
<1> HIDE DEF k, v
<1>3. k \o v \in Seq(Byte) /\ Len(k \o v) = Len(k) + Len(v)
  BY <1>2, JoinedLength
<1>4. Len(<<>>) = 0 /\ Len(k) + Len(v) # 0
  BY <1>1, <1>2
<1>5. k \o v # <<>>
  BY <1>3, <1>4
<1> QED BY <1>3, <1>5 DEF PutField, k, v

\* The loop over the fields of a record reads as many of them as it is to read.
LEMMA FieldsRead ==
  ASSUME NEW bytes \in Seq(Byte), NEW pos \in Nat, NEW n \in Nat, NEW count \in 0..n,
         Len(bytes) \in Word, Stands(bytes, pos, Copies(PutField, n))
  PROVE  FieldsEnd(bytes, pos, count).ok
<1> DEFINE field == PutField
           at(i) == pos + Len(Copies(field, i))
           turns(f) == [i \in 0..count |->
                          IF i = 0 THEN [ok |-> TRUE, thrown |-> FALSE, pos |-> pos]
                          ELSE IF f[i - 1].ok THEN GetField(bytes, f[i - 1].pos)
                          ELSE f[i - 1]]
           h == [i \in 0..count |-> [ok |-> TRUE, thrown |-> FALSE, pos |-> at(i)]]
           f == CHOOSE g : g = turns(g)
<1>1. field \in Seq(Byte)
  BY FieldShape
<1>2. FieldsEnd(bytes, pos, count) = f[count]
  BY DEF FieldsEnd
<1>3. at(0) = pos
  <2>1. Copies(field, 0) = <<>> /\ Len(<<>>) = 0
    BY <1>1, CopiesStep
  <2> QED BY <2>1
<1>4. ASSUME NEW i \in Nat, i + 1 \in 0..count
      PROVE  GetField(bytes, at(i)) = [ok |-> TRUE, thrown |-> FALSE, pos |-> at(i + 1)]
  <2> DEFINE c == Copies(field, i)
  <2>1. i \in 0..n /\ i # n
    BY <1>4
  <2>2. c \in Seq(Byte) /\ Copies(field, i + 1) = c \o field
    BY <1>1, CopiesStep
  <2>3. Stands(bytes, at(i), field)
    BY <1>1, <2>1, CopiesStand
  <2>4. Len(c) \in Nat /\ Len(c \o field) = Len(c) + Len(field) /\ Len(field) \in Nat
    BY <1>1, <2>2, BeginsParts
  <2>5. GetField(bytes, at(i)) = [ok |-> TRUE, thrown |-> FALSE, pos |-> at(i) + Len(field)]
    <3>1. at(i) \in Nat
      BY <2>4
    <3> HIDE DEF at
    <3> QED BY <2>3, <3>1, FieldWhole
  <2>6. at(i) + Len(field) = at(i + 1)
    <3>1. Len(Copies(field, i + 1)) = Len(c) + Len(field)
      BY <2>2, <2>4
    <3> HIDE DEF c, field
    <3> QED BY <2>4, <3>1 DEF c
  <2> QED BY <2>5, <2>6
<1> HIDE DEF at
<1>5. h = turns(h)
  <2>1. ASSUME NEW i \in 0..count
        PROVE  h[i] = IF i = 0 THEN [ok |-> TRUE, thrown |-> FALSE, pos |-> pos]
                      ELSE IF h[i - 1].ok THEN GetField(bytes, h[i - 1].pos)
                      ELSE h[i - 1]
    <3>1. CASE i = 0
      BY <1>3, <3>1
    <3>2. CASE i # 0
      <4>1. i - 1 \in Nat /\ i - 1 \in 0..count /\ (i - 1) + 1 = i
        BY <3>2
      <4>2. h[i - 1].ok /\ h[i - 1].pos = at(i - 1)
        BY <4>1
      <4>3. h[i] = [ok |-> TRUE, thrown |-> FALSE, pos |-> at(i)]
        OBVIOUS
      <4>4. GetField(bytes, at(i - 1)) = [ok |-> TRUE, thrown |-> FALSE, pos |-> at(i)]
        BY <1>4, <4>1
      <4> HIDE DEF h
      <4> QED BY <3>2, <4>2, <4>3, <4>4
    <3> QED BY <3>1, <3>2
  <2>2. h \in [0..count -> {h[i] : i \in 0..count}] /\ DOMAIN h = 0..count
    OBVIOUS
  <2> HIDE DEF h
  <2> QED BY <2>1, <2>2
<1>6. f = turns(f)
  <2> HIDE DEF turns, h
  <2> QED BY <1>5
<1> HIDE DEF f
<1> DEFINE S == {i \in Nat : i \in 0..count => f[i].ok /\ f[i].pos = at(i)}
<1>7. 0 \in S
  <2>1. 0 \in 0..count
    OBVIOUS
  <2>2. f[0] = [ok |-> TRUE, thrown |-> FALSE, pos |-> pos]
    BY <1>6, <2>1
  <2> QED BY <1>3, <2>2
<1>8. ASSUME NEW i \in Nat, i \in S PROVE i + 1 \in S
  <2> SUFFICES ASSUME i + 1 \in 0..count PROVE f[i + 1].ok /\ f[i + 1].pos = at(i + 1)
    OBVIOUS
  <2>1. i \in 0..count /\ (i + 1) - 1 = i /\ i + 1 # 0
    OBVIOUS
  <2>2. f[i].ok /\ f[i].pos = at(i)
    BY <1>8, <2>1
  <2>3. f[i + 1] = IF f[(i + 1) - 1].ok THEN GetField(bytes, f[(i + 1) - 1].pos)
                   ELSE f[(i + 1) - 1]
    BY <1>6, <2>1
  <2>4. f[i + 1] = GetField(bytes, at(i))
    BY <2>1, <2>2, <2>3
  <2> QED BY <1>4, <2>4
<1>9. Nat \subseteq S
  <2> HIDE DEF S
  <2> QED BY <1>7, <1>8, SetInduction
<1> QED BY <1>2, <1>9

\* An id is known by its characters.
LEMMA IdReadBack ==
  ASSUME NEW i \in Ids
  PROVE  IdText[i] \in Seq(Byte) /\ IdOf(IdText[i]) = i
<1>1. IdText[i] \in Seq(Byte)
  BY CodecAssumption
<1>2. (CHOOSE j \in Ids : IdText[j] = IdText[i]) = i
  <2>1. \E j \in Ids : IdText[j] = IdText[i]
    OBVIOUS
  <2> DEFINE c == CHOOSE j \in Ids : IdText[j] = IdText[i]
  <2>2. c \in Ids /\ IdText[c] = IdText[i]
    BY <2>1
  <2> HIDE DEF c
  <2>3. c = i
    BY <2>2, CodecAssumption
  <2> QED BY <2>3 DEF c
<1> QED BY <1>1, <1>2 DEF IdOf

\* The parts of a record, and where they stand in it.
LEMMA RecordParts ==
  ASSUME NEW e \in Event
  PROVE  LET r    == SerializeEvent(e)
             id   == PutString(IdText[e.id])
             n    == EncodeVarint(e.fields)
             fs   == Copies(PutField, e.fields)
         IN  /\ r \in Seq(Byte) /\ Len(r) = 1 + Len(id) + Len(n) + Len(fs)
             /\ Len(id) \in Nat /\ Len(n) \in Nat /\ Len(fs) \in Nat
             /\ r[1] = IF e.tombstone THEN 1 ELSE 0
             /\ Stands(r, 1, id)
             /\ Stands(r, 1 + Len(id), n)
             /\ Stands(r, 1 + Len(id) + Len(n), fs)
<1> DEFINE flag == <<IF e.tombstone THEN 1 ELSE 0>>
           id   == PutString(IdText[e.id])
           n    == EncodeVarint(e.fields)
           fs   == Copies(PutField, e.fields)
           r    == SerializeEvent(e)
           a    == flag \o id
           b    == a \o n
<1>1. e.id \in Ids /\ e.fields \in Nat
  BY CodecAssumption DEF Event
<1>2. /\ flag \in Seq(Byte) /\ Len(flag) = 1 /\ flag[1] = IF e.tombstone THEN 1 ELSE 0
      /\ id \in Seq(Byte) /\ n \in Seq(Byte) /\ fs \in Seq(Byte)
  <2>1. (IF e.tombstone THEN 1 ELSE 0) \in Byte
    BY VarintAssumption DEF Byte
  <2>2. id \in Seq(Byte)
    BY <1>1, IdReadBack, PutShape
  <2>3. fs \in Seq(Byte)
    BY <1>1, FieldShape, CopiesStep
  <2>4. n \in Seq(Byte)
    BY <1>1, EncodeStep
  <2>5. ASSUME NEW x \in Byte PROVE <<x>> \in Seq(Byte) /\ Len(<<x>>) = 1 /\ <<x>>[1] = x
    OBVIOUS
  <2> HIDE DEF id, n, fs
  <2> QED BY <2>1, <2>2, <2>3, <2>4, <2>5
<1>3. r = b \o fs
  BY DEF SerializeEvent, Copies
<1> HIDE DEF flag, id, n, fs, r
<1>4. a \in Seq(Byte) /\ Len(a) = 1 + Len(id) /\ Len(id) \in Nat
  BY <1>2, JoinedLength
<1>5. b \in Seq(Byte) /\ Len(b) = Len(a) + Len(n) /\ Len(n) \in Nat
  <2> HIDE DEF a
  <2> QED BY <1>2, <1>4, JoinedLength
<1>6. r \in Seq(Byte) /\ Len(r) = Len(b) + Len(fs) /\ Len(fs) \in Nat
  <2> HIDE DEF a, b
  <2> QED BY <1>2, <1>3, <1>5, JoinedLength
<1>7. Begins(r, 0, b \o fs)
  <2> HIDE DEF b
  <2> QED BY <1>3 DEF Begins
<1>8. Begins(r, 0, b) /\ Begins(r, 0 + Len(b), fs)
  <2> HIDE DEF a, b
  <2> QED BY <1>2, <1>5, <1>6, <1>7, BeginsParts
<1>9. Begins(r, 0, a) /\ Begins(r, 0 + Len(a), n)
  <2> HIDE DEF a
  <2> QED BY <1>2, <1>4, <1>6, <1>8, BeginsParts
<1>10. Begins(r, 0, flag) /\ Begins(r, 0 + Len(flag), id)
  BY <1>2, <1>6, <1>9, BeginsParts
<1> HIDE DEF a, b
<1>11. 0 + Len(b) = 1 + Len(id) + Len(n) /\ 0 + Len(a) = 1 + Len(id) /\ 0 + Len(flag) = 1
  BY <1>2, <1>4, <1>5
<1>12. Len(r) = 1 + Len(id) + Len(n) + Len(fs)
  BY <1>4, <1>5, <1>6
<1>13. r[1] = flag[1]
  <2>1. 1 \in 1..Len(flag) /\ 0 + 1 = 1 /\ 0 + 1 <= Len(r)
    BY <1>2, <1>4, <1>5, <1>6
  <2>2. r[0 + 1] = flag[1]
    BY <1>10, <2>1 DEF Begins
  <2> QED BY <2>1, <2>2
<1>14. Stands(r, 1, id) /\ Stands(r, 1 + Len(id), n) /\ Stands(r, 1 + Len(id) + Len(n), fs)
  <2>1. /\ 1 + Len(id) <= Len(r) /\ 1 + Len(id) + Len(n) <= Len(r)
        /\ 1 + Len(id) + Len(n) + Len(fs) <= Len(r)
    BY <1>4, <1>5, <1>6, <1>12
  <2>2. /\ Begins(r, 1, id) /\ Begins(r, 1 + Len(id), n)
        /\ Begins(r, 1 + Len(id) + Len(n), fs)
    BY <1>8, <1>9, <1>10, <1>11
  <2> QED BY <2>1, <2>2 DEF Stands
<1> QED BY <1>2, <1>4, <1>5, <1>6, <1>12, <1>13, <1>14 DEF r, id, n, fs

\* What deserialize_event makes of what serialize_event wrote is the event, with as
\* many of its fields as are read back.
THEOREM RecordReadBack ==
  ASSUME NEW e \in Event, Len(SerializeEvent(e)) \in Word
  PROVE  DeserializeEvent(SerializeEvent(e)) =
           [ok |-> TRUE, thrown |-> FALSE, event |-> ReadBack(e)]
<1> DEFINE r    == SerializeEvent(e)
           idp  == PutString(IdText[e.id])
           n    == EncodeVarint(e.fields)
           fs   == Copies(PutField, e.fields)
           got  == GetString(r, 1)
           count == DecodeVarint(r, got.pos)
           read == IF count.value <= FieldLimit THEN count.value ELSE FieldLimit
<1>1. e.id \in Ids /\ e.fields \in Nat /\ e.tombstone \in BOOLEAN /\ FieldLimit \in Nat
  BY CodecAssumption DEF Event
<1>2. /\ r \in Seq(Byte) /\ Len(r) = 1 + Len(idp) + Len(n) + Len(fs)
      /\ Len(idp) \in Nat /\ Len(n) \in Nat /\ Len(fs) \in Nat
      /\ r[1] = IF e.tombstone THEN 1 ELSE 0
      /\ Stands(r, 1, idp)
      /\ Stands(r, 1 + Len(idp), n)
      /\ Stands(r, 1 + Len(idp) + Len(n), fs)
  BY RecordParts
<1>3. Len(r) \in Word
  OBVIOUS
<1>4. got = [ok |-> TRUE, thrown |-> FALSE, text |-> IdText[e.id], pos |-> 1 + Len(idp)]
  <2>1. IdText[e.id] \in Seq(Byte)
    BY <1>1, IdReadBack
  <2> HIDE DEF r
  <2> QED BY <1>2, <1>3, <2>1, GetWhole
<1>5. e.fields \in Word
  <2>2. PutField \in Seq(Byte) /\ PutField # <<>>
    BY FieldShape
  <2> HIDE DEF r, idp, n
  <2>3. 1 + Len(idp) + Len(n) \in Nat
    BY <1>2
  <2>4. e.fields <= Len(fs)
    BY <1>1, <1>2, <2>2, <2>3, CopiesStand
  <2> HIDE DEF fs
  <2>5. e.fields <= Len(r)
    BY <1>1, <1>2, <2>4
  <2> QED BY <1>1, <1>3, <2>5, WordBelow
<1> HIDE DEF r, idp
<1>6. count = [ok |-> TRUE, value |-> e.fields, pos |-> 1 + Len(idp) + Len(n)]
  <2>1. got.pos = 1 + Len(idp) /\ got.pos \in Nat
    BY <1>2, <1>4
  <2> HIDE DEF got
  <2>2. Stands(r, got.pos, EncodeVarint(e.fields))
    BY <1>2, <2>1
  <2>3. count = [ok |-> TRUE, value |-> e.fields, pos |-> got.pos + Len(n)]
    BY <1>2, <1>5, <2>1, <2>2, DecodeWhole
  <2> QED BY <2>1, <2>3
<1> HIDE DEF got, count
<1>7. /\ read = IF e.fields <= FieldLimit THEN e.fields ELSE FieldLimit
      /\ read \in 0..e.fields
  BY <1>1, <1>6
<1>8. FieldsEnd(r, count.pos, read).ok
  <2>1. count.pos = 1 + Len(idp) + Len(n) /\ count.pos \in Nat
    BY <1>2, <1>6
  <2> HIDE DEF read, n
  <2> QED BY <1>1, <1>2, <1>3, <1>7, <2>1, FieldsRead
<1>9. ~(Len(r) < 1)
  <2> HIDE DEF n, fs
  <2> QED BY <1>2
<1>10. r[1] # 0 <=> e.tombstone
  BY <1>1, <1>2
<1>11. IdOf(got.text) = e.id
  BY <1>1, <1>4, IdReadBack
<1>12. DeserializeEvent(r) =
        [ok |-> TRUE, thrown |-> FALSE,
         event |-> [id |-> IdOf(got.text), fields |-> read, tombstone |-> r[1] # 0]]
  <2>1. got.ok /\ count.ok
    BY <1>4, <1>6
  <2> HIDE DEF read, n, fs
  <2> QED BY <1>8, <1>9, <2>1 DEF DeserializeEvent, BehindId, got, count, read
<1>13. ReadBack(e) = [id |-> IdOf(got.text), fields |-> read, tombstone |-> r[1] # 0]
  <2>1. e = [id |-> e.id, fields |-> e.fields, tombstone |-> e.tombstone]
    BY DEF Event
  <2>2. (r[1] # 0) = e.tombstone
    BY <1>1, <1>10
  <2> HIDE DEF read
  <2>3. ReadBack(e) = [id |-> e.id, fields |-> read, tombstone |-> e.tombstone]
    BY <1>7, <2>1 DEF ReadBack
  <2> QED BY <1>11, <2>2, <2>3
<1> QED BY <1>12, <1>13 DEF r

-----------------------------------------------------------------------------
(* Pages and images.                                                       *)

\* The bytes of a page.
LengthBytes(e) == EncodeVarint(Len(SerializeEvent(e)))

\* A page is its length, its record and the checksum, and none of its bytes is missing.
LEMMA PageParts ==
  ASSUME NEW e \in Event
  PROVE  LET r == SerializeEvent(e)
             c == Checksum(r)
         IN  /\ r \in Seq(Byte) /\ Len(r) \in Nat
             /\ LengthBytes(e) \in Seq(Byte) /\ Len(LengthBytes(e)) \in Nat \ {0}
             /\ c \in Seq(Byte) /\ Len(c) = ChecksumSize
             /\ Pages[e] = (LengthBytes(e) \o r) \o c
             /\ Pages[e] \in Seq(Byte) /\ Len(Pages[e]) \in Nat
             /\ Len(Pages[e]) = Len(LengthBytes(e)) + Len(r) + ChecksumSize
             /\ Len(LengthBytes(e)) < Len(Pages[e])
<1> DEFINE r == SerializeEvent(e)
           c == Checksum(r)
           l == LengthBytes(e)
<1>1. r \in Seq(Byte) /\ Len(r) \in Nat
  <2>1. r \in Seq(Byte)
    BY RecordParts
  <2> HIDE DEF r
  <2> QED BY <2>1
<1>2. l \in Seq(Byte) /\ Len(l) \in Nat \ {0}
  BY <1>1, EncodeShape DEF LengthBytes
<1>3. Pages[e] = (l \o r) \o c
  BY DEF Pages, Page, LengthBytes
<1> HIDE DEF r, l
<1>4. c \in Seq(Byte) /\ Len(c) = ChecksumSize
  <2>1. ChecksumSize \in Nat
    BY ImageAssumption
  <2>2. \A i \in 1..ChecksumSize : (Len(r) + i) % (2 * Base) \in Byte
    BY <1>1, VarintAssumption DEF Byte
  <2>3. c \in [1..ChecksumSize -> Byte]
    BY <2>2 DEF Checksum
  <2> HIDE DEF c
  <2> QED BY <2>1, <2>3
<1> HIDE DEF c
<1>5. l \o r \in Seq(Byte) /\ Len(l \o r) = Len(l) + Len(r)
  BY <1>1, <1>2, JoinedLength
<1> DEFINE lr == l \o r
<1>6. lr \o c \in Seq(Byte) /\ Len(lr \o c) = Len(lr) + Len(c)
  <2> HIDE DEF lr
  <2> QED BY <1>4, <1>5, JoinedLength DEF lr
<1>7. /\ Pages[e] \in Seq(Byte) /\ Len(Pages[e]) = Len(l) + Len(r) + ChecksumSize
  BY <1>3, <1>4, <1>5, <1>6
<1>8. Len(l) + Len(r) + ChecksumSize \in Nat /\ Len(l) < Len(l) + Len(r) + ChecksumSize
  BY <1>1, <1>2, ImageAssumption
<1>9. Len(Pages[e]) \in Nat /\ Len(l) < Len(Pages[e])
  BY <1>7, <1>8
<1> QED BY <1>1, <1>2, <1>3, <1>4, <1>7, <1>9 DEF r, l, c

\* The header and the first k pages of an image, and where they end.
ImageTo(es, k) ==
  LET upTo[i \in 0..Len(es)] == IF i = 0 THEN Header ELSE upTo[i - 1] \o Pages[es[i]]
  IN  upTo[k]
End(es, k) == Len(ImageTo(es, k))

\* An image grows by a page at a time, and Image is the last.
LEMMA ImageStep ==
  ASSUME NEW es \in Seq(Event)
  PROVE  /\ Image(es) = ImageTo(es, Len(es))
         /\ ImageTo(es, 0) = Header
         /\ \A k \in 0..Len(es) : ImageTo(es, k) \in Seq(Byte)
         /\ \A k \in 1..Len(es) :
              /\ es[k] \in Event
              /\ ImageTo(es, k) = ImageTo(es, k - 1) \o Pages[es[k]]
<1> DEFINE n == Len(es)
           D == 0..n
           V == Seq(Byte)
           page(i) == IF i = 0 THEN <<>> ELSE Pages[es[i]]
           step == [p \in V \X D |-> p[1] \o page(p[2])]
           turns(f) == [i \in 0..n |-> IF i = 0 THEN Header ELSE f[i - 1] \o Pages[es[i]]]
           f == CHOOSE h : h = turns(h)
<1>1. n \in Nat /\ Header \in V
  BY ImageAssumption
<1>2. \A k \in 1..n : es[k] \in Event
  OBVIOUS
<1>3. \A i \in D : page(i) \in V
  <2> SUFFICES ASSUME NEW i \in D PROVE page(i) \in V
    OBVIOUS
  <2>1. CASE i = 0
    BY <2>1
  <2>2. CASE i # 0
    <3>1. es[i] \in Event
      BY <1>1, <1>2, <2>2
    <3> QED BY <2>2, <3>1, PageParts
  <2> QED BY <2>1, <2>2
<1>4. step \in [V \X D -> V]
  <2> HIDE DEF page
  <2> QED BY <1>3, ConcatProperties
<1>5. PICK g \in [D -> V] : Loop(g, D, Header, step)
  <2>1. D \in Counts
    BY <1>1, CountsAre
  <2> HIDE DEF step, D
  <2> QED BY <1>1, <1>4, <2>1, LoopExists
<1>6. ASSUME NEW i \in D \ {0} PROVE g[i] = g[i - 1] \o Pages[es[i]]
  <2>1. i - 1 \in D
    BY <1>1
  <2>2. step[<<g[i - 1], i>>] = g[i - 1] \o page(i)
    BY <2>1
  <2>3. page(i) = Pages[es[i]]
    OBVIOUS
  <2> HIDE DEF step, page
  <2> QED BY <1>5, <2>2, <2>3 DEF Loop
<1>7. g = turns(g)
  <2>1. g[0] = Header
    BY <1>5 DEF Loop
  <2> QED BY <1>6, <2>1
<1>8. f = turns(f)
  <2> HIDE DEF turns
  <2> QED BY <1>7
<1>9. \A k \in D : ImageTo(es, k) = f[k]
  BY DEF ImageTo
<1>10. Image(es) = f[n]
  BY DEF Image
<1> HIDE DEF f
<1>11. f[0] = Header /\ \A k \in 1..n : f[k] = f[k - 1] \o Pages[es[k]]
  <2>1. 0 \in 0..n /\ \A k \in 1..n : k \in 0..n /\ k # 0
    BY <1>1
  <2> QED BY <1>8, <2>1
<1> DEFINE S == {k \in Nat : k <= n => f[k] \in V}
<1>12. 0 \in S
  BY <1>1, <1>11
<1>13. ASSUME NEW k \in Nat, k \in S PROVE k + 1 \in S
  <2> SUFFICES ASSUME k + 1 <= n PROVE f[k + 1] \in V
    OBVIOUS
  <2>1. k + 1 \in 1..n /\ (k + 1) - 1 = k /\ k <= n
    BY <1>1
  <2>2. Pages[es[k + 1]] \in V
    BY <1>2, <2>1, PageParts
  <2>3. f[k + 1] = f[(k + 1) - 1] \o Pages[es[k + 1]]
    BY <1>11, <2>1
  <2>4. f[k] \in V
    BY <1>13, <2>1
  <2>5. f[k] \o Pages[es[k + 1]] \in V
    BY <2>2, <2>4, JoinedLength
  <2> QED BY <2>1, <2>3, <2>5
<1>14. Nat \subseteq S
  <2> HIDE DEF S
  <2> QED BY <1>12, <1>13, SetInduction
<1>15. \A k \in 0..n : f[k] \in V
  BY <1>1, <1>14
<1>16. \A k \in 1..n : ImageTo(es, k) = ImageTo(es, k - 1) \o Pages[es[k]]
  <2> SUFFICES ASSUME NEW k \in 1..n PROVE ImageTo(es, k) = ImageTo(es, k - 1) \o Pages[es[k]]
    OBVIOUS
  <2>1. k \in D /\ k - 1 \in D
    BY <1>1
  <2> QED BY <1>9, <1>11, <2>1
<1>17. ImageTo(es, 0) = Header /\ Image(es) = ImageTo(es, n)
  BY <1>1, <1>9, <1>10, <1>11
<1> QED BY <1>2, <1>9, <1>15, <1>16, <1>17

\* Each page ends by its length behind the one before.
LEMMA EndStep ==
  ASSUME NEW es \in Seq(Event)
  PROVE  /\ End(es, 0) = Len(Header) /\ End(es, Len(es)) = Len(Image(es))
         /\ \A k \in 0..Len(es) : End(es, k) \in Nat
         /\ \A k \in 1..Len(es) : End(es, k) = End(es, k - 1) + Len(Pages[es[k]])
<1>1. End(es, 0) = Len(Header) /\ End(es, Len(es)) = Len(Image(es))
  BY ImageStep DEF End
<1>2. ASSUME NEW k \in 0..Len(es) PROVE End(es, k) \in Nat
  <2>1. ImageTo(es, k) \in Seq(Byte)
    BY ImageStep
  <2> QED BY <2>1 DEF End
<1>3. ASSUME NEW k \in 1..Len(es) PROVE End(es, k) = End(es, k - 1) + Len(Pages[es[k]])
  <2>1. Len(es) \in Nat
    OBVIOUS
  <2>2. k - 1 \in 0..Len(es)
    BY <2>1
  <2>3. ImageTo(es, k - 1) \in Seq(Byte) /\ Pages[es[k]] \in Seq(Byte)
    BY <2>2, ImageStep, PageParts
  <2>4. ImageTo(es, k) = ImageTo(es, k - 1) \o Pages[es[k]]
    BY ImageStep
  <2> QED BY <2>3, <2>4, JoinedLength DEF End
<1> QED BY <1>1, <1>2, <1>3

\* So the ends of the pages grow.
LEMMA EndsGrow ==
  ASSUME NEW es \in Seq(Event)
  PROVE  \A j, k \in 0..Len(es) : j < k => End(es, j) < End(es, k)
<1> DEFINE n == Len(es)
           S == {k \in Nat : k <= n => \A j \in 0..n : j < k => End(es, j) < End(es, k)}
<1>1. n \in Nat
  OBVIOUS
<1>2. 0 \in S
  BY <1>1
<1>3. ASSUME NEW k \in Nat, k \in S PROVE k + 1 \in S
  <2> SUFFICES ASSUME k + 1 <= n, NEW j \in 0..n, j < k + 1
               PROVE  End(es, j) < End(es, k + 1)
    OBVIOUS
  <2>1. k + 1 \in 1..n /\ (k + 1) - 1 = k /\ k \in 0..n /\ k + 1 \in 0..n
    BY <1>1
  <2>2. es[k + 1] \in Event
    BY <2>1
  <2>3. Len(Pages[es[k + 1]]) \in Nat \ {0}
    <3>1. /\ Len(LengthBytes(es[k + 1])) \in Nat /\ Len(Pages[es[k + 1]]) \in Nat
          /\ Len(LengthBytes(es[k + 1])) < Len(Pages[es[k + 1]])
      BY <2>2, PageParts
    <3> QED BY <3>1
  <2>4. End(es, k + 1) = End(es, k) + Len(Pages[es[k + 1]])
    <3>1. End(es, k + 1) = End(es, (k + 1) - 1) + Len(Pages[es[k + 1]])
      BY <2>1, EndStep
    <3> QED BY <2>1, <3>1
  <2>5. End(es, k) \in Nat /\ End(es, k + 1) \in Nat /\ End(es, j) \in Nat
    BY <2>1, EndStep
  <2>6. End(es, k) < End(es, k + 1)
    BY <2>3, <2>4, <2>5
  <2>7. CASE j = k
    BY <2>6, <2>7
  <2>8. CASE j < k
    <3>1. End(es, j) < End(es, k)
      BY <1>3, <2>1, <2>8
    <3> QED BY <2>5, <2>6, <3>1
  <2> QED BY <2>7, <2>8
<1>4. Nat \subseteq S
  <2> HIDE DEF S
  <2> QED BY <1>2, <1>3, SetInduction
<1>5. ASSUME NEW j \in 0..n, NEW k \in 0..n, j < k PROVE End(es, j) < End(es, k)
  <2>1. k \in S
    <3>1. k \in Nat
      BY <1>1
    <3> QED BY <1>4, <3>1
  <2> QED BY <1>5, <2>1
<1> QED BY <1>5

\* b is the beginning of an image.
CutOf(b, es) == b \in Seq(Byte) /\ Begins(b, 0, Image(es))

\* It begins with the header and any number of pages, and behind each page with the next one.
LEMMA CutParts ==
  ASSUME NEW es \in Seq(Event), NEW b, CutOf(b, es)
  PROVE  /\ Begins(b, 0, Header)
         /\ \A k \in 0..Len(es) : Begins(b, 0, ImageTo(es, k))
         /\ \A k \in 1..Len(es) : Begins(b, End(es, k - 1), Pages[es[k]])
<1> DEFINE n == Len(es)
           S == {m \in Nat : m <= n => Begins(b, 0, ImageTo(es, n - m))}
<1>1. n \in Nat /\ b \in Seq(Byte)
  BY DEF CutOf
<1>2. 0 \in S
  <2>1. n - 0 = n
    BY <1>1
  <2>2. Begins(b, 0, ImageTo(es, n))
    BY ImageStep DEF CutOf
  <2> QED BY <2>1, <2>2
<1>3. ASSUME NEW k \in 1..n, Begins(b, 0, ImageTo(es, k))
      PROVE  /\ Begins(b, 0, ImageTo(es, k - 1))
             /\ Begins(b, End(es, k - 1), Pages[es[k]])
  <2> DEFINE before == ImageTo(es, k - 1)
             page   == Pages[es[k]]
  <2>1. k - 1 \in 0..n
    BY <1>1
  <2>2. before \in Seq(Byte) /\ page \in Seq(Byte) /\ ImageTo(es, k) = before \o page
    BY <2>1, ImageStep, PageParts
  <2>3. End(es, k - 1) = 0 + Len(before)
    BY <2>2 DEF End
  <2>4. Begins(b, 0, before \o page)
    BY <1>3, <2>2
  <2> HIDE DEF before, page
  <2>5. Begins(b, 0, before) /\ Begins(b, 0 + Len(before), page)
    BY <1>1, <2>2, <2>4, BeginsParts
  <2> QED BY <2>3, <2>5 DEF before, page
<1>4. ASSUME NEW m \in Nat, m \in S PROVE m + 1 \in S
  <2> SUFFICES ASSUME m + 1 <= n PROVE Begins(b, 0, ImageTo(es, n - (m + 1)))
    OBVIOUS
  <2>1. n - m \in 1..n /\ n - (m + 1) = (n - m) - 1 /\ m <= n
    BY <1>1
  <2>2. Begins(b, 0, ImageTo(es, n - m))
    BY <1>4, <2>1
  <2> QED BY <1>3, <2>1, <2>2
<1>5. ASSUME NEW k \in 0..n PROVE Begins(b, 0, ImageTo(es, k))
  <2>1. Nat \subseteq S
    <3> HIDE DEF S
    <3> QED BY <1>2, <1>4, SetInduction
  <2>2. n - k \in Nat /\ n - k <= n /\ n - (n - k) = k
    BY <1>1
  <2>3. n - k \in S
    BY <2>1, <2>2
  <2> QED BY <2>2, <2>3
<1>6. Begins(b, 0, Header)
  <2>1. 0 \in 0..n
    BY <1>1
  <2>2. Begins(b, 0, ImageTo(es, 0))
    BY <1>5, <2>1
  <2> QED BY <2>2, ImageStep
<1>7. \A k \in 1..n : Begins(b, End(es, k - 1), Pages[es[k]])
  <2>1. \A k \in 1..n : k \in 0..n
    BY <1>1
  <2> QED BY <1>3, <1>5, <2>1
<1> QED BY <1>5, <1>6, <1>7

\* What a load finds where a page begins, in a file that ends before the page does,
\* inside its length, or behind it.
Length(b, pos) == DecodeVarint(b, pos)
Past(b, pos) == (Length(b, pos).pos + Length(b, pos).value + ChecksumSize) % WordSize
Record(b, pos) ==
  DeserializeEvent(SubSeq(b, Length(b, pos).pos + 1, Length(b, pos).pos + Length(b, pos).value))

\* With a sum that does not wrap, load throws at the records that throw.
LEMMA PageThrowsAt ==
  ASSUME NEW b, NEW at
  PROVE  LET end == Length(b, at).pos + Length(b, at).value + ChecksumSize
         IN  /\ ~Length(b, at).ok => ~PageThrows(b, at)
             /\ end < WordSize /\ end % WordSize = end /\ Length(b, at).ok =>
                  (PageThrows(b, at) <=> end <= Len(b) /\ Record(b, at).thrown)
<1> DEFINE end == Length(b, at).pos + Length(b, at).value + ChecksumSize
<1>1. ~Length(b, at).ok => ~PageThrows(b, at)
  BY DEF PageThrows, Length
<1>2. ASSUME end < WordSize, end % WordSize = end, Length(b, at).ok
      PROVE  PageThrows(b, at) <=> end <= Len(b) /\ Record(b, at).thrown
  BY <1>2 DEF PageThrows, Length, Record
<1> QED BY <1>1, <1>2

\* Wherever an image is cut, load finds each page that is whole, with its length, its record
\* and where it ends, and does not take a length that is cut for one.
THEOREM PageReadBack ==
  ASSUME NEW es \in Seq(Event), Len(Image(es)) \in Word, NEW b, CutOf(b, es),
         NEW k \in 1..Len(es)
  PROVE  LET at == End(es, k - 1)
             ln == Len(LengthBytes(es[k]))
         IN  /\ ~(at + ln <= Len(b)) => ~Length(b, at).ok
             /\ at + ln <= Len(b) => Length(b, at).ok /\ Past(b, at) = End(es, k)
             /\ End(es, k) <= Len(b) =>
                  Record(b, at) = [ok |-> TRUE, thrown |-> FALSE, event |-> ReadBack(es[k])]
             /\ ~PageThrows(b, at)
<1> DEFINE at == End(es, k - 1)
           e  == es[k]
           l  == LengthBytes(e)
           r  == SerializeEvent(e)
           c  == Checksum(r)
<1>1. /\ e \in Event /\ k - 1 \in 0..Len(es) /\ k \in 0..Len(es) /\ Len(es) \in 0..Len(es)
      /\ b \in Seq(Byte) /\ Len(b) \in Nat
  BY DEF CutOf
<1>2. /\ r \in Seq(Byte) /\ Len(r) \in Nat /\ l \in Seq(Byte) /\ Len(l) \in Nat \ {0}
      /\ c \in Seq(Byte) /\ Pages[e] = (l \o r) \o c
      /\ Len(Pages[e]) = Len(l) + Len(r) + ChecksumSize
  BY <1>1, PageParts
<1>3. at \in Nat /\ End(es, k) = at + Len(Pages[e]) /\ End(es, k) \in Nat
  BY <1>1, EndStep
<1>4. End(es, k) <= Len(Image(es)) /\ Len(Image(es)) \in Nat
  <2>1. End(es, Len(es)) = Len(Image(es)) /\ End(es, Len(es)) \in Nat
    BY <1>1, EndStep
  <2>2. k = Len(es) \/ k < Len(es)
    BY <1>1
  <2>3. k < Len(es) => End(es, k) < End(es, Len(es))
    BY <1>1, EndsGrow
  <2> QED BY <1>3, <2>1, <2>2, <2>3
<1>5. Begins(b, at, Pages[e])
  BY CutParts
<1> HIDE DEF at, e, l, r, c
<1>6. End(es, k) = at + Len(l) + Len(r) + ChecksumSize /\ ChecksumSize \in Nat
  BY <1>2, <1>3, ImageAssumption
<1>7. /\ Begins(b, at, l) /\ Begins(b, at + Len(l), r)
  <2> DEFINE lr == l \o r
  <2>1. lr \in Seq(Byte)
    BY <1>2, JoinedLength
  <2>2. Begins(b, at, lr \o c)
    BY <1>2, <1>5
  <2>3. Begins(b, at, lr)
    <3> HIDE DEF lr
    <3> QED BY <1>1, <1>2, <1>3, <2>1, <2>2, BeginsParts
  <2> QED BY <1>1, <1>2, <1>3, <2>3, BeginsParts
<1>8. End(es, k) \in Word /\ End(es, k) % WordSize = End(es, k) /\ Len(r) \in Word
  <2>1. End(es, k) \in Word /\ End(es, k) % WordSize = End(es, k)
    BY <1>3, <1>4, WordBelow
  <2>2. Len(r) <= End(es, k)
    BY <1>2, <1>3, <1>6
  <2> QED BY <1>2, <2>1, <2>2, WordBelow
<1>9. l = EncodeVarint(Len(r))
  BY DEF l, r, LengthBytes
<1>10. ASSUME ~(at + Len(l) <= Len(b)) PROVE ~Length(b, at).ok
  BY <1>1, <1>3, <1>7, <1>8, <1>9, <1>10, DecodeCut DEF Length
<1>11. ASSUME at + Len(l) <= Len(b)
       PROVE  Length(b, at) = [ok |-> TRUE, value |-> Len(r), pos |-> at + Len(l)]
  <2>1. Stands(b, at, l)
    BY <1>7, <1>11 DEF Stands
  <2> QED BY <1>1, <1>3, <1>8, <1>9, <2>1, DecodeWhole DEF Length
<1>12. ASSUME at + Len(l) <= Len(b) PROVE Length(b, at).ok /\ Past(b, at) = End(es, k)
  <2>1. /\ Length(b, at).ok /\ Length(b, at).value = Len(r)
        /\ Length(b, at).pos = at + Len(l)
    BY <1>11, <1>12
  <2>2. Past(b, at) = (at + Len(l) + Len(r) + ChecksumSize) % WordSize
    BY <2>1 DEF Past
  <2> QED BY <1>6, <1>8, <2>1, <2>2
<1>13. ASSUME End(es, k) <= Len(b)
       PROVE  Record(b, at) = [ok |-> TRUE, thrown |-> FALSE, event |-> ReadBack(e)]
  <2> DEFINE p == at + Len(l)
  <2>1. p \in Nat /\ p <= Len(b) /\ p + Len(r) <= Len(b)
    BY <1>1, <1>2, <1>3, <1>6, <1>13
  <2>2. Length(b, at).value = Len(r) /\ Length(b, at).pos = p
    BY <1>11, <2>1
  <2>3. Stands(b, p, r)
    BY <1>7, <2>1 DEF Stands
  <2>4. SubSeq(b, p + 1, p + Len(r)) = r
    <3> HIDE DEF p
    <3> QED BY <1>1, <1>2, <2>1, <2>3, Characters
  <2>5. Record(b, at) = DeserializeEvent(r)
    <3> HIDE DEF p
    <3> QED BY <2>2, <2>4 DEF Record
  <2>6. DeserializeEvent(r) = [ok |-> TRUE, thrown |-> FALSE, event |-> ReadBack(e)]
    BY <1>1, <1>8, RecordReadBack DEF r
  <2> QED BY <2>5, <2>6
<1>14. ~PageThrows(b, at)
  <2>1. CASE ~(at + Len(l) <= Len(b))
    BY <1>10, <2>1, PageThrowsAt
  <2>2. CASE at + Len(l) <= Len(b)
    <3>1. Length(b, at).pos = at + Len(l) /\ Length(b, at).value = Len(r) /\ Length(b, at).ok
      BY <1>11, <2>2
    <3>2. Length(b, at).pos + Length(b, at).value + ChecksumSize = End(es, k)
      BY <1>6, <3>1
    <3>5. End(es, k) < WordSize /\ End(es, k) % WordSize = End(es, k)
      BY <1>8, VarintAssumption DEF Word
    <3>3. PageThrows(b, at) => Record(b, at).thrown /\ End(es, k) <= Len(b)
      <4> DEFINE end == Length(b, at).pos + Length(b, at).value + ChecksumSize
      <4>1. end = End(es, k) /\ end < WordSize /\ end % WordSize = end /\ Length(b, at).ok
        BY <3>1, <3>2, <3>5
      <4>2. PageThrows(b, at) <=> end <= Len(b) /\ Record(b, at).thrown
        BY <4>1, PageThrowsAt
      <4> HIDE DEF end
      <4> QED BY <4>1, <4>2
    <3>4. End(es, k) <= Len(b) => ~Record(b, at).thrown
      BY <1>13
    <3> QED BY <3>3, <3>4
  <2> QED BY <2>1, <2>2
<1> QED BY <1>10, <1>12, <1>13, <1>14 DEF at, e, l

-----------------------------------------------------------------------------
(* Loads.                                                                  *)

\* The first k events of es, as they are read back.
First(es, k) == [i \in 1..k |-> ReadBack(es[i])]

\* An event that is read back is an event.
LEMMA ReadBackType ==
  ASSUME NEW e \in Event
  PROVE  ReadBack(e) \in Event /\ ReadBack(e).id = e.id
<1>1. e.fields \in 0..MaxFields
  BY DEF Event
<1>2. (IF e.fields <= FieldLimit THEN e.fields ELSE FieldLimit) \in 0..MaxFields
  BY <1>1, CodecAssumption
<1> QED BY <1>2 DEF ReadBack, Event

\* Reading one event more back appends it.
LEMMA FirstStep ==
  ASSUME NEW es \in Seq(Event)
  PROVE  /\ First(es, 0) = <<>> /\ First(es, Len(es)) = ReadBackAll(es)
         /\ ReadBackAll(es) \in Seq(Event)
         /\ \A k \in 0..Len(es) : First(es, k) \in Seq(Event) /\ Len(First(es, k)) = k
         /\ \A k \in 1..Len(es) : First(es, k) = Append(First(es, k - 1), ReadBack(es[k]))
<1>1. Len(es) \in Nat /\ \A i \in 1..Len(es) : es[i] \in Event
  OBVIOUS
<1>2. First(es, 0) = <<>>
  BY DEF First
<1>3. First(es, Len(es)) = ReadBackAll(es)
  BY DEF First, ReadBackAll
<1>4. ASSUME NEW k \in 0..Len(es) PROVE First(es, k) \in Seq(Event) /\ Len(First(es, k)) = k
  <2>1. k \in Nat /\ \A i \in 1..k : i \in 1..Len(es)
    BY <1>1
  <2>2. \A i \in 1..k : ReadBack(es[i]) \in Event
    BY <1>1, <2>1, ReadBackType
  <2>3. First(es, k) \in [1..k -> Event]
    BY <2>2 DEF First
  <2> QED BY <2>1, <2>3
<1>5. ASSUME NEW k \in 1..Len(es)
      PROVE  First(es, k) = Append(First(es, k - 1), ReadBack(es[k]))
  <2> DEFINE f == First(es, k - 1)
             g == First(es, k)
             r == ReadBack(es[k])
  <2>1. k - 1 \in 0..Len(es) /\ k \in 0..Len(es)
    BY <1>1
  <2>2. f \in Seq(Event) /\ Len(f) = k - 1 /\ g \in Seq(Event) /\ Len(g) = k /\ r \in Event
    BY <1>1, <1>4, <2>1, ReadBackType
  <2>3. /\ \A i \in 1..(k - 1) : f[i] = ReadBack(es[i])
        /\ \A i \in 1..k : g[i] = ReadBack(es[i])
    BY DEF First
  <2> HIDE DEF f, g
  <2>4. /\ Append(f, r) \in Seq(Event) /\ Len(Append(f, r)) = Len(f) + 1
        /\ \A i \in 1..Len(f) : Append(f, r)[i] = f[i]
        /\ Append(f, r)[Len(f) + 1] = r
    BY <2>2, AppendProperties
  <2>5. Len(Append(f, r)) = Len(g)
    BY <2>2, <2>4
  <2>6. ASSUME NEW i \in 1..Len(g) PROVE g[i] = Append(f, r)[i]
    <3>1. CASE i = k
      BY <2>2, <2>3, <2>4, <3>1
    <3>2. CASE i # k
      <4>1. i \in 1..(k - 1) /\ i \in 1..k /\ i \in 1..Len(f)
        BY <2>2, <3>2
      <4> QED BY <2>3, <2>4, <4>1
    <3> QED BY <3>1, <3>2
  <2> HIDE DEF r
  <2>7. g = Append(f, r)
    BY <2>2, <2>4, <2>5, <2>6, SeqEqual
  <2> QED BY <2>7 DEF f, g, r
<1>6. ReadBackAll(es) \in Seq(Event)
  <2>1. Len(es) \in 0..Len(es)
    BY <1>1
  <2> QED BY <1>3, <1>4, <2>1
<1> QED BY <1>2, <1>3, <1>4, <1>5, <1>6

\* k is the number of the pages that are whole in the first size bytes of an image,
\* and the result that load has for what follows them.
WholePages(size, es, k) ==
  End(es, k) <= size /\ (k < Len(es) => ~(End(es, k + 1) <= size))
ResultAfter(size, es, k) ==
  IF size <= End(es, k) THEN "ok"
  ELSE IF ~(End(es, k) + Len(LengthBytes(es[k + 1])) <= size) THEN "invalid_format"
  ELSE "truncated_input"

\* Beyond the header there is such a number.
LEMMA WholePagesExist ==
  ASSUME NEW es \in Seq(Event), NEW size \in Nat, Len(Header) <= size
  PROVE  \E k \in 0..Len(es) : WholePages(size, es, k)
<1> DEFINE n == Len(es)
           S == {k \in Nat : k <= n => End(es, k) <= size}
<1>1. n \in Nat
  OBVIOUS
<1> SUFFICES ASSUME \A k \in 0..n : ~WholePages(size, es, k) PROVE FALSE
  OBVIOUS
<1>2. 0 \in S
  BY EndStep
<1>3. ASSUME NEW k \in Nat, k \in S PROVE k + 1 \in S
  <2> SUFFICES ASSUME k + 1 <= n PROVE End(es, k + 1) <= size
    OBVIOUS
  <2>1. k \in 0..n /\ k <= n /\ k < n
    BY <1>1
  <2>2. End(es, k) <= size /\ ~WholePages(size, es, k)
    BY <1>3, <2>1
  <2> QED BY <2>1, <2>2 DEF WholePages
<1>4. Nat \subseteq S
  <2> HIDE DEF S
  <2> QED BY <1>2, <1>3, SetInduction
<1>5. WholePages(size, es, n)
  <2>1. n \in S /\ ~(n < n)
    BY <1>1, <1>4
  <2> QED BY <1>1, <2>1 DEF WholePages
<1> QED BY <1>1, <1>5

\* The state of a load that has read k pages.
Loads(es, k, result) == [pos |-> End(es, k), events |-> First(es, k), result |-> result]

\* The page behind the first k of an image, from where it begins.
LEMMA NextPage ==
  ASSUME NEW es \in Seq(Event), Len(Image(es)) \in Word, NEW b, CutOf(b, es),
         NEW k \in 0..Len(es), k < Len(es)
  PROVE  LET at == End(es, k)
             ln == Len(LengthBytes(es[k + 1]))
         IN  /\ k + 1 \in 1..Len(es) /\ es[k + 1] \in Event
             /\ at \in Nat /\ End(es, k + 1) \in Nat
             /\ at + ln \in Nat /\ at < at + ln /\ at + ln < End(es, k + 1)
             /\ ~(at + ln <= Len(b)) => ~Length(b, at).ok
             /\ at + ln <= Len(b) => Length(b, at).ok /\ Past(b, at) = End(es, k + 1)
             /\ End(es, k + 1) <= Len(b) =>
                  Record(b, at) = [ok |-> TRUE, thrown |-> FALSE, event |-> ReadBack(es[k + 1])]
             /\ ~PageThrows(b, at)
<1> DEFINE at == End(es, k)
           ln == Len(LengthBytes(es[k + 1]))
           pg == Len(Pages[es[k + 1]])
<1>1. /\ k + 1 \in 1..Len(es) /\ (k + 1) - 1 = k /\ k + 1 \in 0..Len(es)
      /\ Len(es) \in Nat /\ at \in Nat
  BY EndStep
<1>2. es[k + 1] \in Event
  BY <1>1
<1>3. ln \in Nat \ {0} /\ pg \in Nat /\ ln < pg
  BY <1>2, PageParts
<1>4. End(es, k + 1) \in Nat /\ End(es, k + 1) = at + pg
  <2>1. End(es, k + 1) = End(es, (k + 1) - 1) + Len(Pages[es[k + 1]])
    BY <1>1, EndStep
  <2>2. End(es, k + 1) \in Nat
    BY <1>1, EndStep
  <2> QED BY <1>1, <2>1, <2>2
<1>5. /\ ~(at + ln <= Len(b)) => ~Length(b, at).ok
      /\ at + ln <= Len(b) => Length(b, at).ok /\ Past(b, at) = End(es, k + 1)
      /\ End(es, k + 1) <= Len(b) =>
           Record(b, at) = [ok |-> TRUE, thrown |-> FALSE, event |-> ReadBack(es[k + 1])]
      /\ ~PageThrows(b, at)
  <2>1. End(es, (k + 1) - 1) = at
    BY <1>1
  <2> HIDE DEF at
  <2> QED BY <1>1, <2>1, PageReadBack
<1> HIDE DEF ln, pg, at
<1>6. at + ln \in Nat /\ at < at + ln /\ at + ln < End(es, k + 1)
  BY <1>1, <1>3, <1>4
<1> QED BY <1>1, <1>2, <1>4, <1>5, <1>6 DEF ln, at

\* A turn of the loop of load reads the next page or finds the result.
LEMMA LoadTurns ==
  ASSUME NEW es \in Seq(Event), Len(Image(es)) \in Word,
         NEW b, CutOf(b, es), Len(b) <= Len(Image(es)),
         NEW k \in 0..Len(es), End(es, k) <= Len(b)
  PROVE  /\ k < Len(es) /\ End(es, k + 1) <= Len(b) =>
              LoadTurn(b, Loads(es, k, "none")) = Loads(es, k + 1, "none")
         /\ WholePages(Len(b), es, k) =>
              LoadTurn(b, Loads(es, k, "none")) = Loads(es, k, ResultAfter(Len(b), es, k))
<1> DEFINE s  == Loads(es, k, "none")
           at == End(es, k)
           d  == DecodeVarint(b, s.pos)
           past == (d.pos + d.value + ChecksumSize) % WordSize
           read == DeserializeEvent(SubSeq(b, d.pos + 1, d.pos + d.value))
           more == s.result = "none" /\ s.pos < Len(b)
<1>1. /\ s.pos = at /\ s.result = "none" /\ s.events = First(es, k)
      /\ at \in Nat /\ Len(b) \in Nat /\ Len(es) \in Nat
  BY EndStep DEF Loads, CutOf
<1>2. d = Length(b, at) /\ past = Past(b, at) /\ read = Record(b, at)
  BY <1>1 DEF Length, Past, Record
<1>3. ASSUME k < Len(es)
      PROVE  /\ k + 1 \in 1..Len(es) /\ End(es, k + 1) \in Nat
             /\ at + Len(LengthBytes(es[k + 1])) \in Nat
             /\ at + Len(LengthBytes(es[k + 1])) < End(es, k + 1)
             /\ ~(at + Len(LengthBytes(es[k + 1])) <= Len(b)) => ~d.ok
             /\ at + Len(LengthBytes(es[k + 1])) <= Len(b) => d.ok /\ past = End(es, k + 1)
             /\ End(es, k + 1) <= Len(b) =>
                  read = [ok |-> TRUE, thrown |-> FALSE, event |-> ReadBack(es[k + 1])]
             /\ ~PageThrows(b, at)
  <2> HIDE DEF at, d, past, read
  <2> QED BY <1>2, <1>3, NextPage DEF at
<1>4. ASSUME s.pos >= Len(b) PROVE LoadTurn(b, s) = [s EXCEPT !.result = "ok"]
  <2>1. ~more
    BY <1>1, <1>4
  <2> HIDE DEF s
  <2> QED BY <1>1, <1>4, <2>1 DEF LoadTurn
<1>5. ASSUME more, ~d.ok PROVE LoadTurn(b, s) = [s EXCEPT !.result = "invalid_format"]
  <2>1. ~(s.pos >= Len(b))
    BY <1>1, <1>5
  <2> HIDE DEF s
  <2> QED BY <1>1, <1>5, <2>1 DEF LoadTurn
<1>6. ASSUME more, d.ok, past > Len(b), ~(past <= Len(b))
      PROVE  LoadTurn(b, s) = [s EXCEPT !.result = "truncated_input"]
  <2>1. ~(s.pos >= Len(b))
    BY <1>1, <1>6
  <2> HIDE DEF s
  <2> QED BY <1>1, <1>6, <2>1 DEF LoadTurn
<1>7. ASSUME more, d.ok, past <= Len(b), ~(past > Len(b)), read.ok, ~PageThrows(b, s.pos)
      PROVE  LoadTurn(b, s) = [s EXCEPT !.pos = past, !.events = Append(@, read.event)]
  <2>1. ~(s.pos >= Len(b))
    BY <1>1, <1>7
  <2> HIDE DEF s
  <2> QED BY <1>1, <1>7, <2>1 DEF LoadTurn
<1>8. ASSUME k < Len(es), End(es, k + 1) <= Len(b)
      PROVE  LoadTurn(b, s) = Loads(es, k + 1, "none")
  <2>1. /\ more /\ d.ok /\ past = End(es, k + 1) /\ past <= Len(b) /\ ~(past > Len(b))
        /\ read = [ok |-> TRUE, thrown |-> FALSE, event |-> ReadBack(es[k + 1])]
        /\ ~PageThrows(b, s.pos)
    <3> HIDE DEF d, past, read, at
    <3> QED BY <1>1, <1>3, <1>8
  <2> HIDE DEF d, past, read
  <2>2. LoadTurn(b, s) = [s EXCEPT !.pos = past, !.events = Append(@, read.event)]
    BY <1>7, <2>1
  <2>3. First(es, k + 1) = Append(First(es, k), ReadBack(es[k + 1]))
    <3>1. k + 1 \in 1..Len(es) /\ (k + 1) - 1 = k
      BY <1>1, <1>8
    <3>2. First(es, k + 1) = Append(First(es, (k + 1) - 1), ReadBack(es[k + 1]))
      BY <3>1, FirstStep
    <3> QED BY <3>1, <3>2
  <2>4. LoadTurn(b, s) = [pos |-> past, events |-> Append(First(es, k), read.event),
                         result |-> "none"]
    <3>1. s = [pos |-> End(es, k), events |-> First(es, k), result |-> "none"]
      BY DEF s, Loads
    <3> DEFINE State == [pos: Nat, events: Seq(Event), result: {"none"}]
    <3>2. s \in State /\ s.events = First(es, k) /\ s.result = "none"
      BY <1>1, <3>1, FirstStep, EndStep
    <3> HIDE DEF s
    <3>3. ASSUME NEW r \in State, NEW p \in Nat
          PROVE  /\ [r EXCEPT !.pos = p] \in State /\ [r EXCEPT !.pos = p].pos = p
                 /\ [r EXCEPT !.pos = p].events = r.events
      OBVIOUS
    <3>4. ASSUME NEW r \in State, NEW f \in Seq(Event)
          PROVE  [r EXCEPT !.events = f] = [pos |-> r.pos, events |-> f, result |-> "none"]
      OBVIOUS
    <3>5. past \in Nat /\ Append(s.events, read.event) \in Seq(Event)
      <4>1. k + 1 \in 0..Len(es)
        BY <1>1, <1>8
      <4>2. past = End(es, k + 1) /\ Append(s.events, read.event) = First(es, k + 1)
        BY <2>1, <2>3, <3>2
      <4> QED BY <4>1, <4>2, FirstStep, EndStep
    <3> HIDE DEF State
    <3> DEFINE r == [s EXCEPT !.pos = past]
    <3>6. r \in State /\ r.pos = past
      BY <3>2, <3>3, <3>5
    <3>7. LoadTurn(b, s) = [r EXCEPT !.events = Append(s.events, read.event)]
      BY <2>2
    <3> HIDE DEF r
    <3>8. LoadTurn(b, s) = [pos |-> past, events |-> Append(s.events, read.event), result |-> "none"]
      BY <3>4, <3>5, <3>6, <3>7
    <3> QED BY <3>2, <3>8
  <2>5. read.event = ReadBack(es[k + 1])
    BY <2>1
  <2>6. LoadTurn(b, s) = [pos |-> End(es, k + 1), events |-> First(es, k + 1), result |-> "none"]
    BY <2>1, <2>3, <2>4, <2>5
  <2> QED BY <2>6 DEF Loads
<1>9. ASSUME WholePages(Len(b), es, k)
      PROVE  LoadTurn(b, s) = Loads(es, k, ResultAfter(Len(b), es, k))
  <2> HIDE DEF d, past, read, at
  <2>1. CASE Len(b) <= at
    BY <1>1, <1>4, <2>1 DEF Loads, ResultAfter, at
  <2>2. CASE ~(Len(b) <= at)
    <3>1. k < Len(es)
      <4>1. SUFFICES ASSUME k = Len(es) PROVE FALSE
        BY <1>1
      <4>2. at = Len(Image(es))
        BY <4>1, EndStep DEF at
      <4> QED BY <1>1, <2>2, <4>2
    <3>2. ~(End(es, k + 1) <= Len(b)) /\ more
      BY <1>1, <1>9, <2>2, <3>1 DEF WholePages
    <3> DEFINE ln == Len(LengthBytes(es[k + 1]))
    <3>3. CASE ~(at + ln <= Len(b))
      <4>1. ~d.ok
        BY <1>3, <3>1, <3>3
      <4>2. ResultAfter(Len(b), es, k) = "invalid_format"
        BY <2>2, <3>3 DEF ResultAfter, at
      <4> QED BY <1>5, <3>2, <4>1, <4>2 DEF Loads
    <3>4. CASE at + ln <= Len(b)
      <4>1. d.ok /\ past = End(es, k + 1) /\ End(es, k + 1) \in Nat
        BY <1>3, <3>1, <3>4
      <4>2. past > Len(b) /\ ~(past <= Len(b))
        BY <1>1, <3>2, <4>1
      <4>3. ResultAfter(Len(b), es, k) = "truncated_input"
        BY <2>2, <3>4 DEF ResultAfter, at
      <4> QED BY <1>6, <3>2, <4>1, <4>2, <4>3 DEF Loads
    <3> QED BY <3>3, <3>4
  <2> QED BY <2>1, <2>2
<1> QED BY <1>8, <1>9

\* A load accepts a beginning of an image that has as many bytes as the header.
LEMMA HeaderStands ==
  ASSUME NEW es \in Seq(Event), NEW b, CutOf(b, es)
  PROVE  HasHeader(b) <=> Len(Header) <= Len(b)
<1>1. b \in Seq(Byte) /\ Len(b) \in Nat /\ Header \in Seq(Byte) /\ Len(Header) \in Nat
  BY ImageAssumption DEF CutOf
<1>2. ASSUME Len(Header) <= Len(b) PROVE HasHeader(b)
  <2> DEFINE start == 0
  <2>1. start \in Nat /\ start + Len(Header) = Len(Header) /\ start + 1 = 1
    BY <1>1
  <2>2. Stands(b, start, Header)
    BY <1>2, <2>1, CutParts DEF Stands
  <2> HIDE DEF start
  <2>3. SubSeq(b, start + 1, start + Len(Header)) = Header
    BY <1>1, <2>1, <2>2, Characters
  <2> QED BY <1>1, <1>2, <2>1, <2>3 DEF HasHeader
<1> QED BY <1>1, <1>2 DEF HasHeader

\* The loop of load runs from the first page to its first result: a run of turns that
\* has one, no longer than the bytes allow, is what the load makes of them.
LEMMA LoopRuns ==
  ASSUME NEW b \in Seq(Byte), HasHeader(b), NEW m \in 0..(Len(b) + 1), NEW h,
         h[0] = [pos |-> Len(Header), events |-> <<>>, result |-> "none"],
         \A i \in 1..m : h[i] = LoadTurn(b, h[i - 1]),
         h[m].result # "none"
  PROVE  LoadBytes(b) = [result |-> h[m].result, events |-> h[m].events]
<1> DEFINE n == Len(b) + 1
           start == [pos |-> Len(Header), events |-> <<>>, result |-> "none"]
           turns(f) == [i \in 0..n |-> IF i = 0 THEN start ELSE LoadTurn(b, f[i - 1])]
           g == [i \in 0..n |-> IF i <= m THEN h[i] ELSE h[m]]
           f == CHOOSE t : t = turns(t)
<1>1. n \in Nat /\ m \in Nat /\ m <= n
  OBVIOUS
<1>2. LoadBytes(b) = [result |-> f[n].result, events |-> f[n].events]
  <2> HIDE DEF start
  <2> QED BY DEF LoadBytes, LoadOutcome, start
<1>3. LoadTurn(b, h[m]) = h[m]
  BY DEF LoadTurn
<1> HIDE DEF n, start
<1>4. ASSUME NEW i \in 0..n, i # 0 PROVE g[i] = LoadTurn(b, g[i - 1])
  <2>1. i \in 1..n /\ i - 1 \in 0..n
    BY <1>1, <1>4
  <2>2. CASE i <= m
    <3>1. i \in 1..m /\ g[i] = h[i] /\ g[i - 1] = h[i - 1]
      BY <1>1, <2>1, <2>2
    <3> QED BY <3>1
  <2>3. CASE ~(i <= m)
    <3>1. g[i] = h[m] /\ g[i - 1] = h[m]
      BY <1>1, <2>1, <2>3
    <3> QED BY <1>3, <3>1
  <2> QED BY <2>2, <2>3
<1>5. g[0] = start
  BY <1>1 DEF start
<1>6. f = turns(f)
  <2>1. g = turns(g)
    <3>1. \A i \in 0..n : g[i] = IF i = 0 THEN start ELSE LoadTurn(b, g[i - 1])
      <4> HIDE DEF g
      <4> QED BY <1>4, <1>5
    <3>2. g = [i \in 0..n |-> g[i]]
      OBVIOUS
    <3> HIDE DEF g
    <3> QED BY <3>1, <3>2
  <2> HIDE DEF turns, g
  <2> QED BY <2>1
<1>7. g[n] = h[m]
  BY <1>1
<1> HIDE DEF f, g
<1> DEFINE S == {i \in Nat : i \in 0..n => f[i] = g[i]}
<1>8. 0 \in S
  <2>1. 0 \in 0..n
    BY <1>1
  <2> QED BY <1>5, <1>6, <2>1
<1>9. ASSUME NEW i \in Nat, i \in S PROVE i + 1 \in S
  <2> SUFFICES ASSUME i + 1 \in 0..n PROVE f[i + 1] = g[i + 1]
    OBVIOUS
  <2>1. i \in 0..n /\ (i + 1) - 1 = i /\ i + 1 # 0
    BY <1>1
  <2>2. f[i] = g[i]
    BY <1>9, <2>1
  <2>3. f[i + 1] = LoadTurn(b, f[(i + 1) - 1])
    BY <1>6, <2>1
  <2>4. g[i + 1] = LoadTurn(b, g[(i + 1) - 1])
    BY <1>4, <2>1
  <2> QED BY <2>1, <2>2, <2>3, <2>4
<1>10. Nat \subseteq S
  <2> HIDE DEF S
  <2> QED BY <1>8, <1>9, SetInduction
<1>11. f[n] = h[m]
  <2>1. n \in 0..n
    BY <1>1
  <2> QED BY <1>1, <1>7, <1>10, <2>1
<1> QED BY <1>2, <1>11

\* No page is without a byte.
LEMMA PagesFit ==
  ASSUME NEW es \in Seq(Event), NEW k \in 0..Len(es)
  PROVE  k <= End(es, k)
<1> DEFINE S == {i \in Nat : i <= Len(es) => i <= End(es, i)}
<1>1. Len(es) \in Nat
  OBVIOUS
<1>2. 0 \in S
  BY <1>1, EndStep
<1>3. ASSUME NEW i \in Nat, i \in S PROVE i + 1 \in S
  <2> SUFFICES ASSUME i + 1 <= Len(es) PROVE i + 1 <= End(es, i + 1)
    OBVIOUS
  <2>1. i \in 0..Len(es) /\ i + 1 \in 0..Len(es) /\ i < i + 1 /\ i <= Len(es)
    BY <1>1
  <2>2. i <= End(es, i)
    BY <1>3, <2>1
  <2>3. End(es, i) < End(es, i + 1)
    BY <2>1, EndsGrow
  <2>4. End(es, i) \in Nat /\ End(es, i + 1) \in Nat
    BY <2>1, EndStep
  <2> QED BY <2>2, <2>3, <2>4
<1>4. Nat \subseteq S
  <2> HIDE DEF S
  <2> QED BY <1>2, <1>3, SetInduction
<1> QED BY <1>1, <1>4

\* What load makes of the beginning of an image, wherever it was cut: it refuses the
\* file when the header is not whole; otherwise it reads the pages that are whole,
\* each as the event that was written, and says whether it met the end of a page,
\* a cut length or a cut page behind them.
THEOREM CutReadBack ==
  ASSUME NEW es \in Seq(Event), Len(Image(es)) \in Word,
         NEW b, CutOf(b, es), Len(b) <= Len(Image(es))
  PROVE  \/ /\ ~(Len(Header) <= Len(b))
            /\ LoadBytes(b) = [result |-> "storage_corrupt", events |-> <<>>]
         \/ \E k \in 0..Len(es) :
              /\ WholePages(Len(b), es, k)
              /\ LoadBytes(b) = [result |-> ResultAfter(Len(b), es, k), events |-> First(es, k)]
<1>1. b \in Seq(Byte) /\ Len(b) \in Nat /\ Len(es) \in Nat /\ Header \in Seq(Byte)
      /\ Len(Header) \in Nat
  BY ImageAssumption DEF CutOf
<1>2. CASE ~(Len(Header) <= Len(b))
  <2>1. ~HasHeader(b)
    BY <1>1, <1>2 DEF HasHeader
  <2>2. LoadBytes(b) = [result |-> "storage_corrupt", events |-> <<>>]
    BY <2>1 DEF LoadBytes
  <2> QED BY <1>2, <2>2
<1>3. CASE Len(Header) <= Len(b)
  <2>1. HasHeader(b)
    BY <1>3, HeaderStands
  <2>2. PICK k \in 0..Len(es) : WholePages(Len(b), es, k)
    BY <1>3, WholePagesExist
  <2> DEFINE result == ResultAfter(Len(b), es, k)
             m == k + 1
             h == [i \in 0..m |-> IF i <= k THEN Loads(es, i, "none") ELSE Loads(es, k, result)]
  <2>3. \A i \in 0..k : End(es, i) <= Len(b)
    <3> SUFFICES ASSUME NEW i \in 0..k PROVE End(es, i) <= Len(b)
      OBVIOUS
    <3>1. i \in 0..Len(es) /\ k \in 0..Len(es) /\ (i = k \/ i < k)
      BY <1>1
    <3>2. End(es, i) \in Nat /\ End(es, k) \in Nat /\ End(es, k) <= Len(b)
      BY <2>2, <3>1, EndStep DEF WholePages
    <3> QED BY <1>1, <3>1, <3>2, EndsGrow
  <2>4. m \in 0..(Len(b) + 1)
    <3>1. k <= End(es, k) /\ End(es, k) <= Len(b) /\ End(es, k) \in Nat
      BY <1>1, <2>3, EndStep, PagesFit
    <3> QED BY <1>1, <3>1
  <2>5. result # "none"
    BY DEF ResultAfter
  <2>6. ASSUME NEW i \in 1..m PROVE h[i] = LoadTurn(b, h[i - 1])
    <3>1. i - 1 \in 0..m /\ i \in 0..m
      BY <1>1
    <3>2. CASE i <= k
      <4>1. /\ h[i] = Loads(es, i, "none") /\ h[i - 1] = Loads(es, i - 1, "none")
            /\ i - 1 \in 0..Len(es) /\ i - 1 < Len(es) /\ (i - 1) + 1 = i
            /\ i - 1 \in 0..k /\ i \in 0..k
        BY <1>1, <3>1, <3>2
      <4>2. End(es, i - 1) <= Len(b) /\ End(es, i) <= Len(b)
        BY <2>3, <4>1
      <4> DEFINE j == i - 1
      <4>3. j \in 0..Len(es) /\ j < Len(es) /\ j + 1 = i /\ End(es, j) <= Len(b)
        BY <4>1, <4>2
      <4> HIDE DEF j
      <4>4. LoadTurn(b, Loads(es, j, "none")) = Loads(es, j + 1, "none")
        BY <4>2, <4>3, LoadTurns
      <4> HIDE DEF h
      <4> QED BY <4>1, <4>3, <4>4 DEF j
    <3>3. CASE i = k + 1
      <4>1. h[i] = Loads(es, k, result) /\ h[i - 1] = Loads(es, k, "none")
        BY <1>1, <3>1, <3>3
      <4>2. LoadTurn(b, Loads(es, k, "none")) = Loads(es, k, result)
        <5>1. End(es, k) <= Len(b)
          BY <2>2 DEF WholePages
        <5> QED BY <2>2, <5>1, LoadTurns
      <4> HIDE DEF h
      <4> QED BY <4>1, <4>2
    <3> QED BY <1>1, <3>2, <3>3
  <2>7. h[0] = [pos |-> Len(Header), events |-> <<>>, result |-> "none"]
    <3>1. h[0] = Loads(es, 0, "none")
      BY <1>1
    <3>2. End(es, 0) = Len(Header) /\ First(es, 0) = <<>>
      BY EndStep, FirstStep
    <3> HIDE DEF h
    <3> QED BY <3>1, <3>2 DEF Loads
  <2>8. h[m] = Loads(es, k, result)
    BY <1>1
  <2>9. h[m].result = result /\ h[m].events = First(es, k)
    <3> HIDE DEF h, result
    <3> QED BY <2>8 DEF Loads
  <2> HIDE DEF h, m, result
  <2>10. LoadBytes(b) = [result |-> h[m].result, events |-> h[m].events]
    BY <1>1, <2>1, <2>4, <2>5, <2>6, <2>7, <2>9, LoopRuns
  <2> QED BY <2>2, <2>9, <2>10 DEF result
<1> QED BY <1>2, <1>3

\* An image is bytes.
LEMMA ImageType ==
  ASSUME NEW es \in Seq(Event)
  PROVE  Image(es) \in Seq(Byte) /\ Len(Image(es)) \in Nat
<1>1. Len(es) \in 0..Len(es)
  OBVIOUS
<1>2. ImageTo(es, Len(es)) \in Seq(Byte) /\ Image(es) = ImageTo(es, Len(es))
  BY <1>1, ImageStep
<1> QED BY <1>2

\* A load of a whole image reads back every event of it, and succeeds.
THEOREM ImageReadBack ==
  ASSUME NEW es \in Seq(Event), Len(Image(es)) \in Word
  PROVE  LoadBytes(Image(es)) = [result |-> "ok", events |-> ReadBackAll(es)]
<1> DEFINE b == Image(es)
<1>1. b \in Seq(Byte) /\ Len(b) \in Nat /\ Len(es) \in Nat
  BY ImageType
<1>2. CutOf(b, es) /\ Len(b) <= Len(Image(es))
  <2>1. \A i \in 1..Len(b) : b[0 + i] = Image(es)[i]
    OBVIOUS
  <2> HIDE DEF b
  <2> QED BY <1>1, <2>1 DEF CutOf, Begins, b
<1>3. End(es, Len(es)) = Len(b) /\ End(es, 0) = Len(Header)
  BY EndStep
<1> HIDE DEF b
<1>4. Len(Header) <= Len(b)
  <2>1. 0 \in 0..Len(es) /\ Len(es) \in 0..Len(es) /\ (0 = Len(es) \/ 0 < Len(es))
    BY <1>1
  <2>2. 0 = Len(es) \/ End(es, 0) < End(es, Len(es))
    BY <2>1, EndsGrow
  <2> QED BY <1>1, <1>3, <2>2, ImageAssumption
<1>5. PICK k \in 0..Len(es) :
        /\ WholePages(Len(b), es, k)
        /\ LoadBytes(b) = [result |-> ResultAfter(Len(b), es, k), events |-> First(es, k)]
  <2> SUFFICES \E k \in 0..Len(es) :
        /\ WholePages(Len(b), es, k)
        /\ LoadBytes(b) = [result |-> ResultAfter(Len(b), es, k), events |-> First(es, k)]
    OBVIOUS
  <2> QED BY <1>2, <1>4, CutReadBack
<1>6. k = Len(es)
  <2> SUFFICES ASSUME k < Len(es) PROVE FALSE
    BY <1>1
  <2>1. k + 1 \in 0..Len(es) /\ Len(es) \in 0..Len(es) /\ (k + 1 = Len(es) \/ k + 1 < Len(es))
    BY <1>1
  <2>2. End(es, k + 1) \in Nat /\ (End(es, k + 1) = Len(b) \/ End(es, k + 1) < Len(b))
    BY <1>3, <2>1, EndStep, EndsGrow
  <2> QED BY <1>1, <1>5, <2>2 DEF WholePages
<1>7. ResultAfter(Len(b), es, k) = "ok"
  BY <1>1, <1>3, <1>6 DEF ResultAfter
<1> QED BY <1>5, <1>6, <1>7, FirstStep DEF b

\* A beginning of an image is a prefix of it.
LEMMA CutIsPrefix ==
  ASSUME NEW es \in Seq(Event), NEW b, CutOf(b, es), Len(b) <= Len(Image(es))
  PROVE  IsPrefix(b, Image(es))
<1>1. b \in Seq(Byte) /\ Image(es) \in Seq(Byte)
  BY ImageType DEF CutOf
<1> DEFINE t == Image(es)
           n == Len(b)
<1> HIDE DEF t
<1>2. t \in Seq(Byte) /\ n <= Len(t) /\ n \in Nat
  BY <1>1 DEF t
<1>3. /\ SubSeq(t, 1, n) \in Seq(Byte) /\ Len(SubSeq(t, 1, n)) = n
      /\ \A i \in 1..n : SubSeq(t, 1, n)[i] = t[i]
  BY <1>2, SubSeqProperties
<1>4. \A i \in 1..n : b[i] = t[i]
  BY <1>1 DEF CutOf, Begins, t
<1>5. b = SubSeq(t, 1, n)
  BY <1>1, <1>3, <1>4, SeqEqual
<1>6. SubSeq(b, 1, n) = b
  BY <1>1, SubSeqFull
<1> QED BY <1>2, <1>5, <1>6 DEF IsPrefix, t

\* The first events of an image that a load keeps are a prefix of all of them.
LEMMA FirstIsPrefix ==
  ASSUME NEW es \in Seq(Event), NEW k \in 0..Len(es)
  PROVE  IsPrefix(First(es, k), ReadBackAll(es))
<1> DEFINE s == First(es, k)
           t == ReadBackAll(es)
<1>1. s \in Seq(Event) /\ t \in Seq(Event) /\ Len(s) = k /\ Len(t) = Len(es) /\ k \in Nat
  <2>1. Len(es) \in 0..Len(es) /\ k \in Nat
    OBVIOUS
  <2> QED BY <2>1, FirstStep
<1>2. \A i \in 1..k : s[i] = t[i]
  BY DEF First, ReadBackAll
<1> HIDE DEF s, t
<1>3. k <= Len(t) /\ Len(es) \in Nat
  BY <1>1
<1>4. /\ SubSeq(t, 1, k) \in Seq(Event) /\ Len(SubSeq(t, 1, k)) = k
      /\ \A i \in 1..k : SubSeq(t, 1, k)[i] = t[i]
  BY <1>1, <1>3, SubSeqProperties
<1>5. s = SubSeq(t, 1, k)
  BY <1>1, <1>2, <1>4, SeqEqual
<1>6. SubSeq(s, 1, k) = s
  BY <1>1, SubSeqFull
<1> QED BY <1>1, <1>3, <1>5, <1>6 DEF IsPrefix, s, t

-----------------------------------------------------------------------------
(* Images with a damaged byte.                                             *)

\* The pages of the first events, and those of the others, are the same on their own.
LEMMA ImageOfFirst ==
  ASSUME NEW es \in Seq(Event), NEW k \in 0..Len(es)
  PROVE  LET some == SubSeq(es, 1, k)
         IN  /\ some \in Seq(Event) /\ Len(some) = k
             /\ Len(Image(some)) = End(es, k) /\ ReadBackAll(some) = First(es, k)
<1> DEFINE some == SubSeq(es, 1, k)
           S == {i \in Nat : i <= k => End(some, i) = End(es, i)}
<1>1. Len(es) \in Nat /\ k \in Nat /\ k <= Len(es) /\ \A i \in 1..k : es[i] \in Event
  OBVIOUS
<1>2. some \in Seq(Event) /\ Len(some) = k /\ \A i \in 1..k : some[i] = es[i]
  <2>1. /\ SubSeq(es, 1, k) \in Seq(Event)
        /\ Len(SubSeq(es, 1, k)) = IF 1 <= k THEN k - 1 + 1 ELSE 0
        /\ \A i \in 1..(k - 1 + 1) : SubSeq(es, 1, k)[i] = es[1 + i - 1]
    BY <1>1, SubSeqProperties
  <2> QED BY <1>1, <2>1
<1> HIDE DEF some
<1>3. 0 \in S
  BY <1>2, EndStep
<1>4. ASSUME NEW i \in Nat, i \in S PROVE i + 1 \in S
  <2> SUFFICES ASSUME i + 1 <= k PROVE End(some, i + 1) = End(es, i + 1)
    OBVIOUS
  <2>1. i + 1 \in 1..k /\ i + 1 \in 1..Len(some) /\ i + 1 \in 1..Len(es) /\ (i + 1) - 1 = i
    BY <1>1, <1>2
  <2>2. End(some, i) = End(es, i)
    BY <1>1, <1>4, <2>1
  <2>3. /\ End(some, i + 1) = End(some, (i + 1) - 1) + Len(Pages[some[i + 1]])
        /\ End(es, i + 1) = End(es, (i + 1) - 1) + Len(Pages[es[i + 1]])
    BY <1>2, <2>1, EndStep
  <2> QED BY <1>2, <2>1, <2>2, <2>3
<1>5. Nat \subseteq S
  <2> HIDE DEF S
  <2> QED BY <1>3, <1>4, SetInduction
<1>6. End(some, k) = End(es, k)
  BY <1>1, <1>5
<1>7. Len(Image(some)) = End(some, k)
  BY <1>2, EndStep
<1>8. ReadBackAll(some) = First(es, k)
  BY <1>2 DEF ReadBackAll, First
<1> QED BY <1>2, <1>6, <1>7, <1>8 DEF some

\* A record that stands behind its length is the one that load decodes.
LEMMA RecordAt ==
  ASSUME NEW b \in Seq(Byte), Len(b) \in Word, NEW at \in Nat, NEW r \in Seq(Byte),
         Stands(b, at, EncodeVarint(Len(r))), Stands(b, at + Len(EncodeVarint(Len(r))), r)
  PROVE  Record(b, at) = DeserializeEvent(r)
<1> DEFINE l == EncodeVarint(Len(r))
           p == at + Len(l)
<1>1. Len(r) \in Nat /\ Len(b) \in Nat /\ p + Len(r) <= Len(b)
  BY DEF Stands
<1>2. Len(l) \in Nat
  BY <1>1, EncodeShape
<1> HIDE DEF l
<1>3. Len(r) <= Len(b) /\ p \in Nat
  BY <1>1, <1>2
<1>4. Len(r) \in Word
  BY <1>1, <1>3, WordBelow
<1>5. Length(b, at) = [ok |-> TRUE, value |-> Len(r), pos |-> p]
  <2>1. Stands(b, at, EncodeVarint(Len(r)))
    OBVIOUS
  <2> QED BY <1>4, <2>1, DecodeWhole DEF Length, l
<1>6. Stands(b, p, r)
  BY DEF l
<1> HIDE DEF p
<1>7. SubSeq(b, p + 1, p + Len(r)) = r
  BY <1>3, <1>6, Characters
<1>8. Length(b, at).pos = p /\ Length(b, at).value = Len(r)
  BY <1>5
<1> QED BY <1>7, <1>8 DEF Record

\* A page whose length is as it was written is passed whole, unless a string in the record
\* has a length at which load throws; a record as it was written is read back.
LEMMA PassPage ==
  ASSUME NEW b \in Seq(Byte), Len(b) \in Word, NEW at \in Nat, NEW e \in Event,
         at + Len(Pages[e]) <= Len(b), Stands(b, at, LengthBytes(e)),
         NEW events
  PROVE  LET s == [pos |-> at, events |-> events, result |-> "none"]
         IN  /\ ~Record(b, at).thrown =>
                  LoadTurn(b, s) =
                    [pos    |-> at + Len(Pages[e]),
                     events |-> IF Record(b, at).ok THEN Append(events, Record(b, at).event)
                                ELSE events,
                     result |-> "none"]
             /\ Record(b, at).thrown =>
                  LoadTurn(b, s) = [pos |-> at, events |-> events, result |-> "length_error"]
             /\ Stands(b, at + Len(LengthBytes(e)), SerializeEvent(e)) =>
                  Record(b, at) = [ok |-> TRUE, thrown |-> FALSE, event |-> ReadBack(e)]
<1> DEFINE s == [pos |-> at, events |-> events, result |-> "none"]
           l == LengthBytes(e)
           r == SerializeEvent(e)
           p == at + Len(l)
           end == at + Len(Pages[e])
<1>1. /\ r \in Seq(Byte) /\ Len(r) \in Nat /\ l \in Seq(Byte) /\ Len(l) \in Nat \ {0}
      /\ Len(Pages[e]) = Len(l) + Len(r) + ChecksumSize /\ ChecksumSize \in Nat
      /\ Len(b) \in Nat
  BY PageParts, ImageAssumption
<1>2. l = EncodeVarint(Len(r))
  BY DEF LengthBytes
<1> HIDE DEF l, r
<1>3. /\ end \in Nat /\ end = at + Len(l) + Len(r) + ChecksumSize /\ end <= Len(b) /\ at < end
      /\ p \in Nat /\ p <= end /\ Len(r) <= end
  BY <1>1
<1>4. end % WordSize = end /\ Len(r) \in Word
  <2>1. end \in Word /\ end % WordSize = end
    <3> HIDE DEF end
    <3> QED BY <1>1, <1>3, WordBelow
  <2>2. Len(r) \in Word
    <3> HIDE DEF end
    <3> QED BY <1>1, <1>3, <2>1, WordBelow
  <2> QED BY <2>1, <2>2
<1>5. Length(b, at) = [ok |-> TRUE, value |-> Len(r), pos |-> p]
  <2>1. Stands(b, at, l)
    BY DEF l
  <2> QED BY <1>2, <1>4, <2>1, DecodeWhole DEF Length
<1>6. Length(b, at).ok /\ Past(b, at) = end
  <2>1. Past(b, at) = (p + Len(r) + ChecksumSize) % WordSize
    BY <1>5 DEF Past
  <2>2. p + Len(r) + ChecksumSize = end
    BY <1>3
  <2> QED BY <1>4, <1>5, <2>1, <2>2
<1>10. PageThrows(b, at) <=> Record(b, at).thrown
  <2>1. Length(b, at).pos + Length(b, at).value + ChecksumSize = end
    BY <1>3, <1>5
  <2>2. end < WordSize /\ end <= Len(b)
    <3> HIDE DEF end
    <3> QED BY <1>1, <1>3, VarintAssumption DEF Word
  <2> DEFINE sum == Length(b, at).pos + Length(b, at).value + ChecksumSize
  <2>3. sum = end /\ sum < WordSize /\ sum % WordSize = sum /\ Length(b, at).ok
    BY <1>4, <1>6, <2>1, <2>2
  <2>4. PageThrows(b, at) <=> sum <= Len(b) /\ Record(b, at).thrown
    BY <2>3, PageThrowsAt
  <2> HIDE DEF end, sum
  <2> QED BY <2>2, <2>3, <2>4
<1> HIDE DEF end
<1>7. LoadTurn(b, s) =
        IF Record(b, at).thrown THEN [s EXCEPT !.result = "length_error"]
        ELSE [s EXCEPT !.pos = end,
                       !.events = IF Record(b, at).ok THEN Append(@, Record(b, at).event) ELSE @]
  <2>1. /\ s.pos = at /\ s.result = "none" /\ s.pos < Len(b) /\ ~(s.pos >= Len(b))
        /\ end <= Len(b) /\ ~(end > Len(b))
    BY <1>1, <1>3
  <2>2. /\ Length(b, at) = DecodeVarint(b, s.pos)
        /\ end = (DecodeVarint(b, s.pos).pos + DecodeVarint(b, s.pos).value + ChecksumSize)
                   % WordSize
        /\ Record(b, at) = DeserializeEvent(SubSeq(b, DecodeVarint(b, s.pos).pos + 1,
                             DecodeVarint(b, s.pos).pos + DecodeVarint(b, s.pos).value))
    BY <1>6, <2>1 DEF Length, Past, Record
  <2> DEFINE d == DecodeVarint(b, s.pos)
             past == (d.pos + d.value + ChecksumSize) % WordSize
             read == DeserializeEvent(SubSeq(b, d.pos + 1, d.pos + d.value))
  <2>3. d.ok /\ past = end /\ read = Record(b, at)
    BY <1>6, <2>2
  <2>4. s.result = "none" /\ s.pos < Len(b) /\ d.ok /\ past <= Len(b) /\ ~(past > Len(b))
    BY <2>1, <2>3
  <2>5. LoadTurn(b, s) =
          IF PageThrows(b, s.pos) THEN [s EXCEPT !.result = "length_error"]
          ELSE [s EXCEPT !.pos = past, !.events = IF read.ok THEN Append(@, read.event) ELSE @]
    <3> HIDE DEF s
    <3> QED BY <2>1, <2>4 DEF LoadTurn
  <2> HIDE DEF d, past, read, s
  <2> QED BY <1>10, <2>1, <2>3, <2>5
<1>8. /\ ~Record(b, at).thrown =>
           LoadTurn(b, s) =
             [pos    |-> end,
              events |-> IF Record(b, at).ok THEN Append(events, Record(b, at).event) ELSE events,
              result |-> "none"]
      /\ Record(b, at).thrown =>
           LoadTurn(b, s) = [pos |-> at, events |-> events, result |-> "length_error"]
  BY <1>7
<1>9. ASSUME Stands(b, p, r)
      PROVE  Record(b, at) = [ok |-> TRUE, thrown |-> FALSE, event |-> ReadBack(e)]
  <2>1. Stands(b, at, EncodeVarint(Len(r))) /\ Stands(b, at + Len(EncodeVarint(Len(r))), r)
    BY <1>2, <1>9 DEF l
  <2>2. Record(b, at) = DeserializeEvent(r)
    BY <1>1, <2>1, RecordAt
  <2>3. DeserializeEvent(r) = [ok |-> TRUE, thrown |-> FALSE, event |-> ReadBack(e)]
    BY <1>4, RecordReadBack DEF r
  <2> QED BY <2>2, <2>3
<1> QED BY <1>8, <1>9 DEF end, l, r

\* A part of an image stands in the damaged image too, unless the byte is in it.
LEMMA Undamaged ==
  ASSUME NEW b \in Seq(Byte), NEW i \in 1..Len(b), NEW byte \in Byte, NEW at \in Nat,
         NEW t \in Seq(Byte), Stands(b, at, t), ~(i \in (at + 1)..(at + Len(t)))
  PROVE  Stands([b EXCEPT ![i] = byte], at, t)
<1> DEFINE d == [b EXCEPT ![i] = byte]
<1>1. /\ Len(d) = Len(b) /\ Len(b) \in Nat /\ Len(t) \in Nat
      /\ \A j \in 1..Len(b) : d[j] = IF j = i THEN byte ELSE b[j]
  BY ExceptSeq
<1> HIDE DEF d
<1>2. ASSUME NEW j \in 1..Len(t) PROVE d[at + j] = t[j]
  <2>1. at + j \in 1..Len(b) /\ at + j # i /\ at + j <= Len(b)
    BY <1>1 DEF Stands
  <2>2. b[at + j] = t[j]
    BY <2>1 DEF Stands, Begins
  <2> QED BY <1>1, <2>1, <2>2
<1>3. at + Len(t) <= Len(d)
  BY <1>1 DEF Stands
<1> QED BY <1>2, <1>3 DEF Stands, Begins, d

\* A part of an image with a damaged byte stands in the damaged image as it is now.
LEMMA Damaged ==
  ASSUME NEW b \in Seq(Byte), NEW i \in 1..Len(b), NEW byte \in Byte, NEW at \in Nat,
         NEW t \in Seq(Byte), Stands(b, at, t), i \in (at + 1)..(at + Len(t))
  PROVE  LET c == [t EXCEPT ![i - at] = byte]
         IN  /\ c \in Seq(Byte) /\ Len(c) = Len(t)
             /\ Stands([b EXCEPT ![i] = byte], at, c)
<1> DEFINE c == [t EXCEPT ![i - at] = byte]
           d == [b EXCEPT ![i] = byte]
<1>1. /\ d \in Seq(Byte) /\ Len(d) = Len(b) /\ Len(b) \in Nat
      /\ \A j \in 1..Len(b) : d[j] = IF j = i THEN byte ELSE b[j]
  BY ExceptSeq
<1>2. Len(t) \in Nat /\ i - at \in 1..Len(t)
  OBVIOUS
<1>3. /\ c \in Seq(Byte) /\ Len(c) = Len(t)
      /\ \A j \in 1..Len(t) : c[j] = IF j = i - at THEN byte ELSE t[j]
  BY <1>2, ExceptSeq
<1> HIDE DEF c, d
<1>4. at + Len(t) <= Len(b)
  BY DEF Stands
<1>5. ASSUME NEW j \in 1..Len(t) PROVE d[at + j] = c[j]
  <2>1. at + j \in 1..Len(b) /\ at + j <= Len(b) /\ (at + j = i <=> j = i - at)
    BY <1>1, <1>2, <1>4
  <2>2. b[at + j] = t[j]
    BY <2>1 DEF Stands, Begins
  <2> QED BY <1>1, <1>3, <2>1, <2>2
<1>6. Stands(d, at, c)
  BY <1>1, <1>3, <1>4, <1>5 DEF Stands, Begins
<1> QED BY <1>3, <1>6 DEF c, d

\* Where the parts of the pages stand in an image.
LEMMA ImageStands ==
  ASSUME NEW es \in Seq(Event), NEW j \in 1..Len(es)
  PROVE  LET at == End(es, j - 1)
             l  == LengthBytes(es[j])
             r  == SerializeEvent(es[j])
         IN  /\ es[j] \in Event /\ at \in Nat /\ l \in Seq(Byte) /\ r \in Seq(Byte)
             /\ Len(Header) <= at /\ End(es, j) = at + Len(Pages[es[j]])
             /\ at + Len(l) + Len(r) <= End(es, j) /\ End(es, j) <= Len(Image(es))
             /\ Stands(Image(es), at, l) /\ Stands(Image(es), at + Len(l), r)
<1> DEFINE b  == Image(es)
           at == End(es, j - 1)
           l  == LengthBytes(es[j])
           r  == SerializeEvent(es[j])
           c  == Checksum(r)
<1>1. /\ es[j] \in Event /\ j - 1 \in 0..Len(es) /\ j \in 0..Len(es) /\ Len(es) \in 0..Len(es)
      /\ 0 \in 0..Len(es) /\ b \in Seq(Byte) /\ Len(b) \in Nat
  BY ImageType
<1>2. /\ r \in Seq(Byte) /\ Len(r) \in Nat /\ l \in Seq(Byte) /\ Len(l) \in Nat \ {0}
      /\ c \in Seq(Byte) /\ Pages[es[j]] = (l \o r) \o c
      /\ Len(Pages[es[j]]) = Len(l) + Len(r) + ChecksumSize /\ ChecksumSize \in Nat
  BY <1>1, PageParts, ImageAssumption
<1>3. at \in Nat /\ End(es, j) = at + Len(Pages[es[j]]) /\ End(es, j) \in Nat
  BY <1>1, EndStep
<1>4. End(es, j) <= Len(b)
  <2>1. End(es, Len(es)) = Len(b) /\ (j = Len(es) \/ j < Len(es))
    BY <1>1, EndStep
  <2>2. j < Len(es) => End(es, j) < End(es, Len(es))
    BY <1>1, EndsGrow
  <2> QED BY <1>1, <1>3, <2>1, <2>2
<1>5. Len(Header) <= at
  <2>1. End(es, 0) = Len(Header) /\ Len(Header) \in Nat
    BY EndStep, ImageAssumption
  <2>2. j - 1 = 0 \/ 0 < j - 1
    BY <1>1
  <2>3. 0 < j - 1 => End(es, 0) < at
    BY <1>1, EndsGrow
  <2> QED BY <1>3, <2>1, <2>2, <2>3
<1>6. CutOf(b, es)
  <2>1. \A i \in 1..Len(b) : b[0 + i] = Image(es)[i]
    OBVIOUS
  <2> HIDE DEF b
  <2> QED BY <1>1, <2>1 DEF CutOf, Begins, b
<1>7. Begins(b, at, Pages[es[j]])
  BY <1>6, CutParts
<1> HIDE DEF b, at, l, r, c
<1>8. Begins(b, at, l) /\ Begins(b, at + Len(l), r)
  <2> DEFINE lr == l \o r
  <2>1. lr \in Seq(Byte)
    BY <1>2, JoinedLength
  <2>2. Begins(b, at, lr \o c)
    BY <1>2, <1>7
  <2>3. Begins(b, at, lr)
    <3> HIDE DEF lr
    <3> QED BY <1>1, <1>2, <1>3, <2>1, <2>2, BeginsParts
  <2> QED BY <1>1, <1>2, <1>3, <2>3, BeginsParts
<1>9. at + Len(l) + Len(r) <= End(es, j) /\ at + Len(l) <= Len(b) /\ at + Len(l) + Len(r) <= Len(b)
  BY <1>1, <1>2, <1>3, <1>4
<1>10. Stands(b, at, l) /\ Stands(b, at + Len(l), r)
  BY <1>8, <1>9 DEF Stands
<1> QED BY <1>1, <1>2, <1>3, <1>4, <1>5, <1>9, <1>10 DEF b, at, l, r

\* An element behind two parts is behind the second.
AppendsBehind(S, s, t, e) == Append(s \o t, e) = s \o Append(t, e)

LEMMA AppendBehind ==
  ASSUME NEW S, NEW s \in Seq(S), NEW t \in Seq(S), NEW e \in S
  PROVE  AppendsBehind(S, s, t, e)
<1> DEFINE st == s \o t
           te == Append(t, e)
           x  == Append(st, e)
           y  == s \o te
<1>1. /\ st \in Seq(S) /\ Len(st) = Len(s) + Len(t) /\ Len(s) \in Nat /\ Len(t) \in Nat
      /\ \A i \in 1..Len(s) + Len(t) : st[i] = IF i <= Len(s) THEN s[i] ELSE t[i - Len(s)]
  BY ConcatProperties
<1>2. /\ te \in Seq(S) /\ Len(te) = Len(t) + 1 /\ te[Len(t) + 1] = e
      /\ \A i \in 1..Len(t) : te[i] = t[i]
  BY AppendProperties
<1> HIDE DEF st, te
<1>3. /\ x \in Seq(S) /\ Len(x) = Len(st) + 1 /\ x[Len(st) + 1] = e
      /\ \A i \in 1..Len(st) : x[i] = st[i]
  BY <1>1, AppendProperties
<1>4. /\ y \in Seq(S) /\ Len(y) = Len(s) + Len(te)
      /\ \A i \in 1..Len(s) + Len(te) : y[i] = IF i <= Len(s) THEN s[i] ELSE te[i - Len(s)]
  BY <1>2, ConcatProperties
<1> HIDE DEF x, y
<1>5. Len(x) = Len(y)
  BY <1>1, <1>2, <1>3, <1>4
<1>6. ASSUME NEW i \in 1..Len(x) PROVE x[i] = y[i]
  <2> DEFINE m == Len(s)
             n == Len(t)
  <2>1. /\ m \in Nat /\ n \in Nat /\ i \in 1..(m + n + 1) /\ Len(st) = m + n
        /\ Len(te) = n + 1
    BY <1>1, <1>2, <1>3
  <2>2. /\ \A j \in 1..m + n : x[j] = IF j <= m THEN s[j] ELSE t[j - m]
        /\ x[m + n + 1] = e
    BY <1>1, <1>3, <2>1
  <2>3. /\ \A j \in 1..m + (n + 1) : y[j] = IF j <= m THEN s[j] ELSE te[j - m]
        /\ te[n + 1] = e /\ \A j \in 1..n : te[j] = t[j]
    BY <1>2, <1>4, <2>1
  <2> HIDE DEF m, n
  <2>4. CASE i <= m
    BY <2>1, <2>2, <2>3, <2>4
  <2>5. CASE i = m + n + 1
    <3>1. i \in 1..m + (n + 1) /\ ~(i <= m) /\ i - m = n + 1
      BY <2>1, <2>5
    <3> QED BY <2>2, <2>3, <2>5, <3>1
  <2>6. CASE ~(i <= m) /\ i # m + n + 1
    <3>1. i \in 1..m + n /\ i \in 1..m + (n + 1) /\ i - m \in 1..n
      BY <2>1, <2>6
    <3> QED BY <2>2, <2>3, <2>6, <3>1
  <2> QED BY <2>4, <2>5, <2>6
<1>7. x = y
  BY <1>3, <1>4, <1>5, <1>6, SeqEqual
<1> QED BY <1>7 DEF x, y, st, te, AppendsBehind

\* The first events and those behind them are all of them.
LEMMA FirstAndRest ==
  ASSUME NEW es \in Seq(Event), NEW k \in 0..Len(es), NEW rest \in Seq(Event),
         Len(rest) = Len(es) - k, \A j \in (k + 1)..Len(es) : es[j] = rest[j - k]
  PROVE  First(es, k) \o First(rest, Len(rest)) = First(es, Len(es))
<1> DEFINE n == Len(es)
           s == First(es, k)
           t == First(rest, Len(rest))
           u == First(es, n)
<1>1. n \in Nat /\ k \in Nat /\ k <= n /\ n \in 0..n /\ Len(rest) \in 0..Len(rest)
  OBVIOUS
<1>2. /\ s \in Seq(Event) /\ Len(s) = k /\ t \in Seq(Event) /\ Len(t) = n - k
      /\ u \in Seq(Event) /\ Len(u) = n
  <2>1. s \in Seq(Event) /\ Len(s) = k
    BY FirstStep
  <2>2. t \in Seq(Event) /\ Len(t) = Len(rest)
    BY <1>1, FirstStep
  <2>3. u \in Seq(Event) /\ Len(u) = n
    BY <1>1, FirstStep
  <2> HIDE DEF s, t, u
  <2> QED BY <2>1, <2>2, <2>3
<1>3. /\ \A j \in 1..k : s[j] = ReadBack(es[j])
      /\ \A j \in 1..Len(rest) : t[j] = ReadBack(rest[j])
      /\ \A j \in 1..n : u[j] = ReadBack(es[j])
  BY DEF First
<1> HIDE DEF s, t, u
<1>4. /\ s \o t \in Seq(Event) /\ Len(s \o t) = Len(s) + Len(t)
      /\ \A j \in 1..Len(s) + Len(t) : (s \o t)[j] = IF j <= Len(s) THEN s[j] ELSE t[j - Len(s)]
  BY ONLY <1>2, ConcatProperties
<1>5. Len(s \o t) = Len(u)
  BY <1>1, <1>2, <1>4
<1>6. ASSUME NEW j \in 1..Len(u) PROVE (s \o t)[j] = u[j]
  <2>1. CASE j <= k
    BY <1>1, <1>2, <1>3, <1>4, <2>1
  <2>2. CASE ~(j <= k)
    <3>1. j \in (k + 1)..n /\ j - k \in 1..Len(rest) /\ j \in 1..n
      BY <1>1, <1>2, <2>2
    <3>2. (s \o t)[j] = t[j - k]
      BY <1>1, <1>2, <1>4, <2>2, <3>1
    <3> QED BY <1>3, <3>1, <3>2
  <2> QED BY <2>1, <2>2
<1>7. s \o t = u
  BY <1>2, <1>4, <1>5, <1>6, SeqEqual
<1> QED BY <1>7 DEF s, t, u

\* load does not compare checksums. Whatever byte of a record or a checksum is not the one
\* that was written, the other records load as they were saved, before and behind it, and
\* load succeeds; a damaged record is lost or is another event, a damaged checksum is not
\* noticed. But when a string of the damaged record has a length now whose sum with its
\* position wraps, load leaves by length_error with the events before (RecordStore::load).
THEOREM DamageReadBack ==
  ASSUME NEW es \in Seq(Event), Len(Image(es)) \in Word, NEW k \in 1..Len(es),
         NEW i \in 1..Len(Image(es)),
         End(es, k - 1) + Len(LengthBytes(es[k])) < i, i <= End(es, k), NEW byte \in Byte
  PROVE  LET record == SerializeEvent(es[k])
             start  == End(es, k - 1) + Len(LengthBytes(es[k]))
             before == ReadBackAll(SubSeq(es, 1, k - 1))
             behind == ReadBackAll(SubSeq(es, k + 1, Len(es)))
             loaded == LoadBytes([Image(es) EXCEPT ![i] = byte])
             throws == /\ i <= start + Len(record)
                       /\ DeserializeEvent([record EXCEPT ![i - start] = byte]).thrown
         IN  /\ before \in Seq(Event) /\ Len(before) = k - 1
             /\ behind \in Seq(Event) /\ Len(behind) = Len(es) - k
             /\ throws => loaded = [result |-> "length_error", events |-> before]
             /\ ~throws => /\ loaded.result = "ok"
                           /\ \/ loaded.events = before \o behind
                              \/ \E e : loaded.events = Append(before, e) \o behind
             /\ ~(i <= start + Len(record)) => loaded.events = ReadBackAll(es)
<1> DEFINE b    == Image(es)
           d    == [b EXCEPT ![i] = byte]
           n    == Len(es)
           rest == SubSeq(es, k + 1, n)
           rec  == Record(d, End(es, k - 1))
           start == End(es, k - 1) + Len(LengthBytes(es[k]))
           r     == SerializeEvent(es[k])
           c     == [r EXCEPT ![i - start] = byte]
           mid  == IF rec.ok THEN Append(First(es, k - 1), rec.event) ELSE First(es, k - 1)
           V    == Event \cup {rec.event}
           Events(j)     == IF j < k THEN First(es, j) ELSE mid \o First(rest, j - k)
           State(j, res) == [pos |-> End(es, j), events |-> Events(j), result |-> res]
<1>1. /\ b \in Seq(Byte) /\ Len(b) \in Nat /\ n \in Nat /\ k - 1 \in 0..n /\ 0 \in 0..n
      /\ n \in 0..n /\ k \in 0..n
  BY ImageType
<1>2. d \in Seq(Byte) /\ Len(d) = Len(b)
  BY <1>1, ExceptSeq
<1>3. /\ rest \in Seq(Event) /\ Len(rest) = n - k
      /\ \A j \in (k + 1)..n : es[j] = rest[j - k] /\ j - k \in 1..Len(rest)
  <2>1. k + 1 \in Int /\ n \in Int /\ \A j \in (k + 1)..n : es[j] \in Event
    BY <1>1
  <2>2. /\ rest \in Seq(Event)
        /\ Len(rest) = IF k + 1 <= n THEN n - (k + 1) + 1 ELSE 0
        /\ \A j \in 1..(n - (k + 1) + 1) : rest[j] = es[(k + 1) + j - 1]
    BY <2>1, SubSeqProperties
  <2>3. Len(rest) = n - k
    BY <1>1, <2>2
  <2>4. ASSUME NEW j \in (k + 1)..n PROVE es[j] = rest[j - k] /\ j - k \in 1..Len(rest)
    <3>1. j - k \in 1..(n - (k + 1) + 1) /\ (k + 1) + (j - k) - 1 = j
      BY <1>1
    <3> QED BY <1>1, <2>2, <2>3, <3>1
  <2> QED BY <2>2, <2>3, <2>4
<1> HIDE DEF b, d, n, rest
<1>4. HasHeader(d)
  <2> DEFINE front == 0
  <2>1. /\ front \in Nat /\ front + Len(Header) = Len(Header) /\ front + 1 = 1
        /\ Header \in Seq(Byte) /\ Len(Header) \in Nat
    BY ImageAssumption
  <2>2. Len(Header) <= End(es, k - 1) /\ End(es, k - 1) \in Nat
        /\ Len(LengthBytes(es[k])) \in Nat /\ End(es, k) <= Len(b)
    <3>1. es[k] \in Event
      OBVIOUS
    <3> QED BY <1>1, <3>1, ImageStands, PageParts DEF b
  <2>3. Stands(b, front, Header)
    <3>1. CutOf(b, es)
      <4>1. \A j \in 1..Len(b) : b[0 + j] = Image(es)[j]
        BY DEF b
      <4> QED BY <1>1, <4>1 DEF CutOf, Begins, b
    <3>2. Begins(b, front, Header)
      BY <3>1, CutParts
    <3>3. Len(Header) <= Len(b)
      BY <1>1, <2>1, <2>2 DEF b
    <3> QED BY <2>1, <3>2, <3>3 DEF Stands
  <2>4. ~(i \in (front + 1)..(front + Len(Header)))
    BY <2>1, <2>2
  <2> HIDE DEF front
  <2>5. Stands(d, front, Header)
    <3>1. i \in 1..Len(b)
      BY DEF b
    <3> QED BY <1>1, <2>1, <2>3, <2>4, <3>1, Undamaged DEF d
  <2>6. SubSeq(d, front + 1, front + Len(Header)) = Header
    BY <1>2, <2>1, <2>5, Characters
  <2>7. Len(d) >= Len(Header)
    BY <1>1, <1>2, <2>1, <2>3 DEF Stands
  <2> QED BY <2>1, <2>6, <2>7 DEF HasHeader
<1>5. ASSUME NEW j \in 1..n
      PROVE  /\ ~Record(d, End(es, j - 1)).thrown =>
                  LoadTurn(d, State(j - 1, "none")) =
                    [pos    |-> End(es, j),
                     events |-> IF Record(d, End(es, j - 1)).ok
                                THEN Append(Events(j - 1), Record(d, End(es, j - 1)).event)
                                ELSE Events(j - 1),
                     result |-> "none"]
             /\ Record(d, End(es, j - 1)).thrown =>
                  LoadTurn(d, State(j - 1, "none")) = State(j - 1, "length_error")
             /\ j # k => Record(d, End(es, j - 1)) =
                           [ok |-> TRUE, thrown |-> FALSE, event |-> ReadBack(es[j])]
             /\ Stands(d, End(es, j - 1), LengthBytes(es[j]))
  <2> DEFINE at == End(es, j - 1)
             l  == LengthBytes(es[j])
             t  == SerializeEvent(es[j])
             ev == Events(j - 1)
  <2>1. /\ es[j] \in Event /\ at \in Nat /\ l \in Seq(Byte) /\ t \in Seq(Byte)
        /\ End(es, j) = at + Len(Pages[es[j]])
        /\ at + Len(l) + Len(t) <= End(es, j) /\ End(es, j) <= Len(b)
        /\ Stands(b, at, l) /\ Stands(b, at + Len(l), t)
    BY ImageStands DEF b, n
  <2>2. at \in Nat /\ Len(l) \in Nat /\ Len(t) \in Nat /\ at + Len(l) \in Nat
    BY <2>1
  <2>3. End(es, k) \in Nat /\ End(es, k - 1) \in Nat /\ End(es, j) \in Nat
    BY <1>1, EndStep DEF n
  <2>4. /\ j < k => End(es, j) <= End(es, k - 1)
        /\ k < j => End(es, k) <= at
    <3>1. j < k => j \in 0..n /\ (j = k - 1 \/ j < k - 1)
      BY <1>1
    <3> DEFINE x == j - 1
    <3>2. k < j => x \in 0..n /\ (k = x \/ k < x)
      BY <1>1
    <3>3. j < k => End(es, j) <= End(es, k - 1)
      BY <1>1, <2>3, <3>1, EndsGrow DEF n
    <3>4. k < j => End(es, k) <= at
      <4>1. End(es, x) \in Nat
        BY <2>1
      <4> HIDE DEF x
      <4>2. k < j => End(es, k) <= End(es, x)
        BY <1>1, <2>3, <3>2, <4>1, EndsGrow DEF n
      <4> QED BY <4>2 DEF x
    <3> QED BY <3>3, <3>4
  <2>5. Len(LengthBytes(es[k])) \in Nat
    <3>1. es[k] \in Event
      OBVIOUS
    <3> QED BY <3>1, PageParts
  <2>8. i \in 1..Len(b)
    BY DEF b
  <2> HIDE DEF at, l, t, ev
  <2>6. ~(i \in (at + 1)..(at + Len(l)))
    <3>1. CASE j = k
      BY <2>2, <3>1, <2>5 DEF at, l
    <3>2. CASE j < k
      <4>1. End(es, j) < i
        BY <1>1, <2>3, <2>4, <2>5, <2>8, <3>2
      <4>2. i \in Int /\ at + Len(l) + Len(t) <= End(es, j)
        BY <2>1
      <4> QED BY <2>2, <2>3, <4>1, <4>2
    <3>3. CASE k < j
      BY <1>1, <2>1, <2>2, <2>3, <2>4, <3>3
    <3> QED BY <1>1, <3>1, <3>2, <3>3
  <2>7. j # k => ~(i \in (at + Len(l) + 1)..(at + Len(l) + Len(t)))
    <3>1. CASE j < k
      <4>1. End(es, j) < i
        BY <1>1, <2>3, <2>4, <2>5, <2>8, <3>1
      <4>2. i \in Int /\ at + Len(l) + Len(t) <= End(es, j)
        BY <2>1
      <4> QED BY <2>2, <2>3, <4>1, <4>2
    <3>2. CASE k < j
      BY <1>1, <2>1, <2>2, <2>3, <2>4, <3>2
    <3> QED BY <1>1, <3>1, <3>2
  <2>9. Stands(d, at, l)
    BY <1>1, <2>1, <2>6, <2>8, Undamaged DEF d
  <2>10. j # k => Stands(d, at + Len(l), t)
    BY <1>1, <2>1, <2>2, <2>7, <2>8, Undamaged DEF d
  <2>11. Len(d) \in Word /\ at + Len(Pages[es[j]]) <= Len(d)
    BY <1>2, <2>1 DEF b
  <2>12. /\ ~Record(d, at).thrown =>
              LoadTurn(d, [pos |-> at, events |-> ev, result |-> "none"]) =
                [pos    |-> at + Len(Pages[es[j]]),
                 events |-> IF Record(d, at).ok THEN Append(ev, Record(d, at).event) ELSE ev,
                 result |-> "none"]
         /\ Record(d, at).thrown =>
              LoadTurn(d, [pos |-> at, events |-> ev, result |-> "none"]) =
                [pos |-> at, events |-> ev, result |-> "length_error"]
         /\ Stands(d, at + Len(l), t) =>
              Record(d, at) = [ok |-> TRUE, thrown |-> FALSE, event |-> ReadBack(es[j])]
    <3> DEFINE e == es[j]
    <3>1. e \in Event /\ l = LengthBytes(e) /\ t = SerializeEvent(e)
      BY <2>1 DEF l, t
    <3> HIDE DEF e
    <3>2. at + Len(Pages[e]) <= Len(d) /\ Stands(d, at, LengthBytes(e)) /\ at \in Nat
      BY <2>1, <2>9, <2>11, <3>1 DEF e
    <3>3. LET s == [pos |-> at, events |-> ev, result |-> "none"]
          IN  /\ ~Record(d, at).thrown =>
                   LoadTurn(d, s) =
                     [pos    |-> at + Len(Pages[e]),
                      events |-> IF Record(d, at).ok THEN Append(ev, Record(d, at).event) ELSE ev,
                      result |-> "none"]
              /\ Record(d, at).thrown =>
                   LoadTurn(d, s) = [pos |-> at, events |-> ev, result |-> "length_error"]
              /\ Stands(d, at + Len(LengthBytes(e)), SerializeEvent(e)) =>
                   Record(d, at) = [ok |-> TRUE, thrown |-> FALSE, event |-> ReadBack(e)]
      BY <1>2, <2>11, <3>1, <3>2, PassPage
    <3> QED BY <3>1, <3>3 DEF e
  <2> QED BY <2>1, <2>9, <2>10, <2>12 DEF at, ev, l
<1>6. /\ First(es, k - 1) \in Seq(V) /\ mid \in Seq(V)
      /\ \A j \in 0..Len(rest) : First(rest, j) \in Seq(V)
  <2>1. First(es, k - 1) \in Seq(Event) /\ \A j \in 0..Len(rest) : First(rest, j) \in Seq(Event)
    BY <1>1, <1>3, FirstStep DEF n
  <2>2. Event \subseteq V /\ rec.event \in V
    OBVIOUS
  <2> HIDE DEF V, rec
  <2>3. First(es, k - 1) \in Seq(V) /\ \A j \in 0..Len(rest) : First(rest, j) \in Seq(V)
    BY <2>1, <2>2, SeqMonotonic
  <2>4. Append(First(es, k - 1), rec.event) \in Seq(V)
    BY <2>2, <2>3, AppendProperties
  <2> QED BY <2>3, <2>4
<1> HIDE DEF mid
<1>20. ASSUME NEW j \in 0..n
       PROVE  /\ j < k => Events(j) = First(es, j)
              /\ ~(j < k) => Events(j) = mid \o First(rest, j - k)
  OBVIOUS
<1> HIDE DEF Events
<1>7. ASSUME NEW j \in 1..n, j # k \/ ~rec.thrown
      PROVE  LoadTurn(d, State(j - 1, "none")) = State(j, "none")
  <2> DEFINE at == End(es, j - 1)
             ev == Events(j - 1)
             after == IF Record(d, at).ok THEN Append(ev, Record(d, at).event) ELSE ev
  <2>1. LoadTurn(d, State(j - 1, "none")) = [pos |-> End(es, j), events |-> after, result |-> "none"]
    <3>1. ~Record(d, at).thrown
      <4>1. CASE j = k
        BY <1>7, <4>1
      <4>2. CASE j # k
        <5>1. Record(d, at) = [ok |-> TRUE, thrown |-> FALSE, event |-> ReadBack(es[j])]
          BY <1>5, <4>2
        <5> HIDE DEF at
        <5> QED BY <5>1
      <4> QED BY <4>1, <4>2
    <3> HIDE DEF State
    <3> QED BY <1>5, <3>1
  <2>2. j # k => after = Append(ev, ReadBack(es[j]))
    <3>1. j # k => Record(d, at) = [ok |-> TRUE, thrown |-> FALSE, event |-> ReadBack(es[j])]
      BY <1>5
    <3> HIDE DEF ev, at
    <3> QED BY <3>1
  <2>3. after = Events(j)
    <3>1. CASE j < k
      <4>1. ev = First(es, j - 1) /\ Events(j) = First(es, j)
        BY <1>1, <1>20, <3>1
      <4>2. First(es, j) = Append(First(es, j - 1), ReadBack(es[j]))
        BY FirstStep DEF n
      <4> QED BY <2>2, <3>1, <4>1, <4>2
    <3>2. CASE j = k
      <4>1. ev = First(es, k - 1) /\ at = End(es, k - 1)
        BY <1>1, <1>20, <3>2
      <4>2. after = mid
        <5> HIDE DEF ev, at
        <5> QED BY <4>1 DEF mid
      <4>3. Events(j) = mid \o First(rest, j - k) /\ j - k = 0
        BY <1>1, <1>20, <3>2
      <4>4. First(rest, 0) = <<>>
        BY <1>3, FirstStep
      <4>5. mid \o <<>> = mid
        <5> HIDE DEF V
        <5> QED BY <1>6, ConcatEmptySeq
      <4> HIDE DEF after
      <4> QED BY <4>2, <4>3, <4>4, <4>5
    <3>3. CASE j > k
      <4> DEFINE x == j - k
                 f == First(rest, x - 1)
                 e == ReadBack(es[j])
      <4>1. /\ j \in (k + 1)..n /\ x \in 1..Len(rest) /\ x - 1 \in 0..Len(rest)
            /\ (j - 1) - k = x - 1 /\ ~(j - 1 < k) /\ ~(j < k) /\ es[j] = rest[x]
            /\ es[j] \in Event
        <5>1. j \in (k + 1)..n /\ j \in 1..n
          BY <1>1, <3>3
        <5>2. x \in 1..Len(rest) /\ es[j] = rest[x]
          BY <1>3, <5>1
        <5>3. es[j] \in Event
          BY DEF n
        <5> QED BY <1>1, <1>3, <3>3, <5>1, <5>2, <5>3
      <4>2. ev = mid \o f /\ Events(j) = mid \o First(rest, x)
        <5>1. j - 1 \in 0..n /\ j \in 0..n
          BY <1>1
        <5>2. ev = mid \o First(rest, (j - 1) - k) /\ Events(j) = mid \o First(rest, j - k)
          BY <1>20, <4>1, <5>1
        <5> QED BY <4>1, <5>2
      <4>3. First(rest, x) = Append(f, e)
        BY <1>3, <4>1, FirstStep
      <4>4. f \in Seq(V) /\ e \in V /\ mid \in Seq(V)
        BY <1>6, <4>1, ReadBackType
      <4>5. Append(mid \o f, e) = mid \o Append(f, e)
        <5> HIDE DEF f, e, V
        <5>1. AppendsBehind(V, mid, f, e)
          BY <4>4, AppendBehind
        <5> QED BY <5>1 DEF AppendsBehind
      <4>6. after = Append(ev, e)
        BY <2>2, <3>3
      <4> HIDE DEF after, ev, f, e
      <4> QED BY <4>2, <4>3, <4>5, <4>6
    <3> QED BY <1>1, <3>1, <3>2, <3>3
  <2> HIDE DEF after
  <2> QED BY <2>1, <2>3
<1>8. LoadTurn(d, State(n, "none")) = State(n, "ok")
  <2> DEFINE s == State(n, "none")
  <2>1. s.pos = Len(d) /\ s.result = "none" /\ Len(d) \in Nat
    BY <1>1, <1>2, EndStep DEF b, n
  <2>2. [s EXCEPT !.result = "ok"] = State(n, "ok")
    OBVIOUS
  <2> HIDE DEF s, State
  <2>3. s.pos >= Len(d) /\ ~(s.pos < Len(d))
    BY <2>1
  <2>4. LoadTurn(d, s) = [s EXCEPT !.result = "ok"]
    BY <2>1, <2>3 DEF LoadTurn
  <2> QED BY <2>2, <2>4 DEF s
<1>9. n <= Len(d) /\ k - 1 \in 0..n /\ Events(0) = First(es, 0)
  <2>1. n <= End(es, n) /\ End(es, n) = Len(b)
    BY <1>1, PagesFit, EndStep DEF b, n
  <2> QED BY <1>1, <1>2, <1>20, <2>1
<1>10. State(0, "none") = [pos |-> Len(Header), events |-> <<>>, result |-> "none"]
  BY <1>9, EndStep, FirstStep
<1>11. \A j, res : State(j, res).result = res /\ State(j, res).events = Events(j)
  OBVIOUS
<1> HIDE DEF State
<1>12. ASSUME NEW z \in 0..n, NEW res, res # "none",
              \A j \in 1..z : LoadTurn(d, State(j - 1, "none")) = State(j, "none"),
              LoadTurn(d, State(z, "none")) = State(z, res)
       PROVE  LoadBytes(d) = [result |-> res, events |-> Events(z)]
  <2> DEFINE m == z + 1
             h == [j \in 0..m |-> IF j <= z THEN State(j, "none") ELSE State(z, res)]
  <2>1. m \in 0..(Len(d) + 1) /\ h[0] = State(0, "none") /\ h[m] = State(z, res) /\ z \in Nat
    BY <1>1, <1>2, <1>9
  <2>2. ASSUME NEW j \in 1..m PROVE h[j] = LoadTurn(d, h[j - 1])
    <3>1. CASE j <= z
      <4>1. h[j] = State(j, "none") /\ h[j - 1] = State(j - 1, "none") /\ j \in 1..z
        BY <2>1, <3>1
      <4> QED BY <1>12, <4>1
    <3>2. CASE ~(j <= z)
      <4>1. h[j] = State(z, res) /\ j - 1 = z /\ h[j - 1] = State(z, "none")
        BY <2>1, <3>2
      <4> QED BY <1>12, <4>1
    <3> QED BY <3>1, <3>2
  <2> HIDE DEF h, m
  <2>3. h[m].result = res /\ h[m].events = Events(z)
    BY <1>11, <2>1
  <2>4. h[0] = [pos |-> Len(Header), events |-> <<>>, result |-> "none"]
    BY <1>10, <2>1
  <2>5. LoadBytes(d) = [result |-> h[m].result, events |-> h[m].events]
    BY <1>2, <1>4, <1>12, <2>1, <2>2, <2>3, <2>4, LoopRuns
  <2> QED BY <2>3, <2>5
<1>13. ASSUME ~rec.thrown PROVE LoadBytes(d) = [result |-> "ok", events |-> Events(n)]
  BY <1>1, <1>7, <1>8, <1>12, <1>13
<1>14. ASSUME rec.thrown PROVE LoadBytes(d) = [result |-> "length_error", events |-> First(es, k - 1)]
  <2> DEFINE z == k - 1
  <2>1. z \in 0..n /\ z \in Nat /\ z < k /\ \A j \in 1..z : j \in 1..n /\ j # k
    BY <1>1
  <2>2. LoadTurn(d, State(z, "none")) = State(z, "length_error")
    <3>1. k \in 1..n
      BY DEF n
    <3> QED BY <1>5, <1>14, <3>1
  <2>3. Events(z) = First(es, z)
    BY <1>20, <2>1
  <2> HIDE DEF z
  <2>4. LoadBytes(d) = [result |-> "length_error", events |-> Events(z)]
    BY <1>7, <1>12, <2>1, <2>2
  <2> QED BY <2>3, <2>4 DEF z
<1> DEFINE before == ReadBackAll(SubSeq(es, 1, k - 1))
           behind == ReadBackAll(rest)
<1>15. before = First(es, k - 1) /\ before \in Seq(Event) /\ Len(before) = k - 1
  <2>1. before = First(es, k - 1)
    BY <1>1, ImageOfFirst DEF n
  <2>2. First(es, k - 1) \in Seq(Event) /\ Len(First(es, k - 1)) = k - 1
    BY <1>1, FirstStep DEF n
  <2> HIDE DEF before
  <2> QED BY <2>1, <2>2
<1>16. behind = First(rest, Len(rest)) /\ behind \in Seq(Event) /\ Len(behind) = n - k
  <2>1. Len(rest) \in 0..Len(rest)
    BY <1>3
  <2>2. First(rest, Len(rest)) \in Seq(Event) /\ Len(First(rest, Len(rest))) = Len(rest)
    BY <1>3, <2>1, FirstStep
  <2>3. behind = First(rest, Len(rest))
    BY <1>3, FirstStep
  <2> HIDE DEF behind
  <2> QED BY <1>3, <2>2, <2>3
<1> HIDE DEF before, behind
<1>17. Events(n) = mid \o behind
  <2>1. Events(n) = mid \o First(rest, n - k)
    <3>1. n \in 0..n /\ ~(n < k)
      BY <1>1
    <3> QED BY <1>20, <3>1
  <2> QED BY <1>3, <1>16, <2>1
<1>18. mid = before \/ mid = Append(before, rec.event)
  BY <1>15 DEF mid
<1>19. /\ rec.thrown <=> i <= start + Len(r) /\ DeserializeEvent(c).thrown
       /\ ~(i <= start + Len(r)) => rec = [ok |-> TRUE, thrown |-> FALSE, event |-> ReadBack(es[k])]
  <2> DEFINE at == End(es, k - 1)
             l  == EncodeVarint(Len(r))
  <2>1. /\ es[k] \in Event /\ at \in Nat /\ r \in Seq(Byte) /\ l \in Seq(Byte) /\ k \in 1..n
        /\ Stands(b, at + Len(l), r) /\ Stands(d, at, l) /\ start = at + Len(l) /\ l = LengthBytes(es[k])
    BY <1>5, ImageStands DEF b, n, LengthBytes
  <2>2. start \in Nat /\ i \in 1..Len(b) /\ start < i /\ Len(d) \in Word /\ Len(r) \in Nat
    BY <1>2, <2>1 DEF b
  <2> HIDE DEF at, l, r, start, rec
  <2>3. CASE i <= start + Len(r)
    <3>1. i \in (start + 1)..(start + Len(r))
      BY <2>2, <2>3
    <3>2. c \in Seq(Byte) /\ Len(c) = Len(r) /\ Stands(d, start, c)
      <4>1. Stands(b, start, r) /\ r \in Seq(Byte) /\ b \in Seq(Byte)
        BY <1>1, <2>1
      <4>2. d = [b EXCEPT ![i] = byte]
        BY DEF d
      <4>3. LET x == [r EXCEPT ![i - start] = byte]
            IN  /\ x \in Seq(Byte) /\ Len(x) = Len(r)
                /\ Stands([b EXCEPT ![i] = byte], start, x)
        BY ONLY <2>2, <3>1, <4>1, byte \in Byte, Damaged
      <4> QED BY <4>2, <4>3
    <3> HIDE DEF c
    <3>3. Stands(d, at, EncodeVarint(Len(c))) /\ Stands(d, at + Len(EncodeVarint(Len(c))), c)
      BY <2>1, <3>2 DEF l
    <3>4. Record(d, at) = DeserializeEvent(c)
      BY <1>2, <2>1, <2>2, <3>2, <3>3, RecordAt
    <3> QED BY <2>3, <3>4 DEF rec, at
  <2>4. CASE ~(i <= start + Len(r))
    <3>1. ~(i \in (start + 1)..(start + Len(r)))
      BY <2>4
    <3>2. Stands(d, start, r)
      BY <1>1, <2>1, <2>2, <3>1, Undamaged DEF d
    <3>3. Stands(d, at, EncodeVarint(Len(r))) /\ Stands(d, at + Len(EncodeVarint(Len(r))), r)
      BY <2>1, <3>2 DEF l
    <3>4. Record(d, at) = DeserializeEvent(r)
      BY <1>2, <2>1, <2>2, <3>3, RecordAt
    <3>5. Len(r) \in Word
      <4>1. Len(r) <= Len(d) /\ Len(d) \in Nat
        BY <1>1, <1>2, <2>2, <3>2 DEF Stands
      <4> QED BY <2>2, <4>1, WordBelow
    <3>6. DeserializeEvent(r) = [ok |-> TRUE, thrown |-> FALSE, event |-> ReadBack(es[k])]
      BY <2>1, <3>5, RecordReadBack DEF r
    <3> HIDE DEF c
    <3> QED BY <2>4, <3>4, <3>6 DEF rec, at
  <2> QED BY <2>3, <2>4
<1>21. ~(i <= start + Len(r)) => mid \o behind = ReadBackAll(es)
  <2>1. CASE ~(i <= start + Len(r))
    <3>1. rec.ok /\ rec.event = ReadBack(es[k])
      <4> HIDE DEF rec, start, r
      <4> QED BY <1>19, <2>1
    <3>2. mid = Append(First(es, k - 1), ReadBack(es[k]))
      <4> HIDE DEF rec
      <4> QED BY <3>1 DEF mid
    <3>3. mid = First(es, k)
      BY <3>2, FirstStep
    <3>4. mid \o First(rest, Len(rest)) = First(es, Len(es))
      BY <1>1, <1>3, <3>3, FirstAndRest DEF n
    <3> QED BY <1>16, <3>4, FirstStep
  <2> QED BY <2>1
<1>22. rec.thrown => LoadBytes(d) = [result |-> "length_error", events |-> before]
  BY <1>14, <1>15
<1> HIDE DEF rec, start, r, c
<1>23. ~rec.thrown => LoadBytes(d).result = "ok" /\ LoadBytes(d).events = mid \o behind
  BY <1>13, <1>17
<1>24. ~(i <= start + Len(r)) => ~rec.thrown
  BY <1>19
<1> QED BY <1>15, <1>16, <1>18, <1>19, <1>21, <1>22, <1>23, <1>24
        DEF before, behind, b, d, n, rest, start, r, c
=============================================================================

----------------------------- MODULE ReaderProofs -----------------------------
(***************************************************************************)
(* The two readers, of bytes and of text.                                  *)
(*                                                                         *)
(* For every buffer, every size of a word and whatever lengths a caller    *)
(* passes: no operation of a ByteReader or ByteSlice looks outside of the  *)
(* buffer it was built over. And for every text, however it is cut into    *)
(* chunks: the frames of a StreamDecoder are those of the lines it was     *)
(* given, reconstruct_messages keeps what they carry, and                  *)
(* split_rotated_segments changes nothing of them but their numbers.       *)
(***************************************************************************)
EXTENDS ByteReader, StreamDecoder, Recursion, FiniteSetTheorems

-----------------------------------------------------------------------------
(* ByteReader.                                                             *)

\* The writer still has the buffer: no slice of it has been handed out.
Unread == ~reading => view = [from |-> 0, size |-> 0] /\ pos = 0 /\ touched = None

ReaderInv == TypeOK /\ ReadsStayInside /\ Unread

-----------------------------------------------------------------------------
(* Numbers and their bytes.                                                *)

\* A byte further up a value counts ByteSize times as much.
LEMMA ShiftStep ==
  /\ Shift \in [Nat -> Nat \ {0}] /\ Shift[0] = 1
  /\ \A n \in Nat : Shift[n + 1] = ByteSize * Shift[n]
<1> DEFINE V == Nat \ {0}
           step == [p \in V \X Nat |-> ByteSize * p[1]]
<1>1. ByteSize \in Nat \ {0, 1}
  BY ReaderAssumption
<1>2. step \in [V \X Nat -> V]
  BY <1>1
<1>3. PICK g \in [Nat -> V] : Loop(g, Nat, 1, step)
  <2>1. 1 \in V
    OBVIOUS
  <2> HIDE DEF step, V
  <2> QED BY <1>2, <2>1, LoopExists, CountsAre
<1>4. ASSUME NEW i \in Nat \ {0} PROVE g[i] = ByteSize * g[i - 1]
  <2>1. step[<<g[i - 1], i>>] = ByteSize * g[i - 1]
    OBVIOUS
  <2> HIDE DEF step
  <2> QED BY <1>3, <2>1 DEF Loop
<1>5. g = [n \in Nat |-> IF n = 0 THEN 1 ELSE ByteSize * g[n - 1]]
  BY <1>3, <1>4 DEF Loop
<1>6. Shift = [n \in Nat |-> IF n = 0 THEN 1 ELSE ByteSize * Shift[n - 1]]
  BY <1>5 DEF Shift
<1>7. Shift[0] = 1
  BY <1>6
<1>8. ASSUME NEW n \in Nat PROVE Shift[n + 1] = ByteSize * Shift[n]
  <2>1. n + 1 \in Nat /\ n + 1 # 0 /\ (n + 1) - 1 = n
    OBVIOUS
  <2> QED BY <1>6, <2>1
<1>9. Shift \in [Nat -> Nat \ {0}]
  <2> DEFINE S == {n \in Nat : Shift[n] \in V}
  <2>1. 0 \in S
    BY <1>7
  <2>2. \A n \in Nat : n \in S => n + 1 \in S
    BY <1>1, <1>8
  <2>3. Nat \subseteq S
    <3> HIDE DEF S
    <3> QED BY <2>1, <2>2, SetInduction
  <2> QED BY <1>6, <2>3
<1> QED BY <1>7, <1>8, <1>9

\* A byte of a number is a byte.
LEMMA LeBytesType ==
  ASSUME NEW width \in Nat, NEW value \in Nat
  PROVE  LeBytes(value, width) \in Seq(Byte) /\ Len(LeBytes(value, width)) = width
<1>1. ASSUME NEW i \in 1..width PROVE (value \div Shift[i - 1]) % ByteSize \in Byte
  <2>1. Shift[i - 1] \in Nat \ {0}
    <3>1. i - 1 \in Nat
      OBVIOUS
    <3> QED BY <3>1, ShiftStep
  <2>2. value \div Shift[i - 1] \in Nat
    BY <2>1, Division
  <2> QED BY <2>2, Division, ReaderAssumption DEF Byte
<1>2. LeBytes(value, width) \in [1..width -> Byte]
  BY <1>1 DEF LeBytes
<1> QED BY <1>2

\* The number of the first k bytes.
LeTo(bs, k) ==
  LET sum[i \in 0..Len(bs)] == IF i = 0 THEN 0 ELSE sum[i - 1] + bs[i] * Shift[i - 1]
  IN  sum[k]

\* It grows by a byte at a time.
LEMMA LeStep ==
  ASSUME NEW bs \in Seq(Byte)
  PROVE  /\ LeValue(bs) = LeTo(bs, Len(bs)) /\ LeTo(bs, 0) = 0
         /\ \A k \in 0..Len(bs) : LeTo(bs, k) \in Nat
         /\ \A k \in 1..Len(bs) : LeTo(bs, k) = LeTo(bs, k - 1) + bs[k] * Shift[k - 1]
<1> DEFINE n == Len(bs)
           D == 0..n
           weight(i) == IF i = 0 THEN 0 ELSE bs[i] * Shift[i - 1]
           step == [p \in Nat \X D |-> p[1] + weight(p[2])]
           sums(f) == [i \in 0..n |-> IF i = 0 THEN 0 ELSE f[i - 1] + bs[i] * Shift[i - 1]]
           f == CHOOSE h : h = sums(h)
<1>1. n \in Nat /\ \A i \in 1..n : bs[i] \in Nat
  BY ReaderAssumption DEF Byte
<1>2. ASSUME NEW i \in D PROVE weight(i) \in Nat
  <2>1. CASE i = 0
    BY <2>1
  <2>2. CASE i # 0
    <3>1. bs[i] \in Nat /\ i - 1 \in Nat
      BY <1>1, <2>2
    <3>2. Shift[i - 1] \in Nat
      BY <3>1, ShiftStep
    <3>3. \A p, q \in Nat : p * q \in Nat
      OBVIOUS
    <3> QED BY <2>2, <3>1, <3>2, <3>3
  <2> QED BY <2>1, <2>2
<1>3. \A i \in 1..n : weight(i) = bs[i] * Shift[i - 1]
  BY <1>1
<1> HIDE DEF weight
<1>4. step \in [Nat \X D -> Nat]
  BY <1>2
<1>5. PICK g \in [D -> Nat] : Loop(g, D, 0, step)
  <2>1. D \in Counts
    BY <1>1, CountsAre
  <2> HIDE DEF step, D
  <2> QED BY <1>4, <2>1, LoopExists
<1>6. ASSUME NEW i \in 1..n PROVE g[i] = g[i - 1] + bs[i] * Shift[i - 1]
  <2>1. i \in D \ {0} /\ i - 1 \in D
    BY <1>1
  <2>2. step[<<g[i - 1], i>>] = g[i - 1] + weight(i)
    BY <2>1
  <2> HIDE DEF step, D
  <2>3. g[i] = step[<<g[i - 1], i>>]
    BY <1>5, <2>1 DEF Loop
  <2> QED BY <1>3, <2>2, <2>3
<1>7. g = sums(g)
  <2>1. g[0] = 0
    BY <1>5 DEF Loop
  <2>2. \A i \in 0..n : i # 0 => i \in 1..n
    BY <1>1
  <2> QED BY <1>6, <2>1, <2>2
<1>8. f = sums(f)
  <2> HIDE DEF sums
  <2> QED BY <1>7
<1>9. LeValue(bs) = f[n] /\ \A k \in D : LeTo(bs, k) = f[k]
  BY DEF LeValue, LeTo
<1> HIDE DEF f
<1>10. f[0] = 0 /\ \A k \in 1..n : f[k] = f[k - 1] + bs[k] * Shift[k - 1]
  <2>1. 0 \in 0..n /\ \A k \in 1..n : k \in 0..n /\ k # 0
    BY <1>1
  <2> QED BY <1>8, <2>1
<1> DEFINE S == {k \in Nat : k <= n => f[k] \in Nat}
<1>11. 0 \in S
  BY <1>10
<1>12. ASSUME NEW k \in Nat, k \in S PROVE k + 1 \in S
  <2> SUFFICES ASSUME k + 1 <= n PROVE f[k + 1] \in Nat
    OBVIOUS
  <2>1. k + 1 \in 1..n /\ k + 1 \in D /\ (k + 1) - 1 = k /\ k <= n
    BY <1>1
  <2>2. f[k] \in Nat /\ weight(k + 1) \in Nat
    BY <1>2, <1>12, <2>1
  <2>3. f[k + 1] = f[k] + weight(k + 1)
    BY <1>3, <1>10, <2>1
  <2> QED BY <2>2, <2>3
<1>13. \A k \in D : f[k] \in Nat
  <2>1. Nat \subseteq S
    <3> HIDE DEF S
    <3> QED BY <1>11, <1>12, SetInduction
  <2> QED BY <1>1, <2>1
<1>14. 0 \in D /\ n \in D /\ \A k \in 1..n : k \in D /\ k - 1 \in D
  BY <1>1
<1> HIDE DEF D
<1>15. LeValue(bs) = LeTo(bs, n) /\ LeTo(bs, 0) = 0
  BY <1>9, <1>10, <1>14
<1>16. \A k \in D : LeTo(bs, k) \in Nat
  BY <1>9, <1>13
<1>17. \A k \in 1..n : LeTo(bs, k) = LeTo(bs, k - 1) + bs[k] * Shift[k - 1]
  BY <1>9, <1>10, <1>14
<1> QED BY <1>15, <1>16, <1>17 DEF D

\* What the first k bytes stand for is less than what byte k + 1 counts.
LEMMA LeBelow ==
  ASSUME NEW bs \in Seq(Byte), NEW k \in 0..Len(bs)
  PROVE  LeTo(bs, k) < Shift[k]
<1> DEFINE S == {i \in Nat : i <= Len(bs) => LeTo(bs, i) < Shift[i]}
<1>1. Len(bs) \in Nat /\ ByteSize \in Nat /\ \A i \in 1..Len(bs) : bs[i] \in 0..(ByteSize - 1)
  BY ReaderAssumption DEF Byte
<1>2. 0 \in S
  BY LeStep, ShiftStep
<1>3. ASSUME NEW i \in Nat, i \in S PROVE i + 1 \in S
  <2> SUFFICES ASSUME i + 1 <= Len(bs) PROVE LeTo(bs, i + 1) < Shift[i + 1]
    OBVIOUS
  <2>1. i + 1 \in 1..Len(bs) /\ (i + 1) - 1 = i /\ i \in 0..Len(bs) /\ i <= Len(bs)
    BY <1>1
  <2> DEFINE s == LeTo(bs, i)
             w == Shift[i]
             d == bs[i + 1]
  <2>2. s \in Nat /\ w \in Nat /\ s < w /\ d \in 0..(ByteSize - 1)
    BY <1>1, <1>3, <2>1, LeStep, ShiftStep
  <2>3. LeTo(bs, i + 1) = s + d * w /\ Shift[i + 1] = ByteSize * w
    BY <2>1, LeStep, ShiftStep
  <2> HIDE DEF s, w, d
  <2>4. (d + 1) * w <= ByteSize * w
    <3>1. \A p, q, r \in Nat : p <= q => p * r <= q * r
      OBVIOUS
    <3>2. d + 1 \in Nat /\ d + 1 <= ByteSize
      BY <1>1, <2>2
    <3> QED BY <1>1, <2>2, <3>1, <3>2
  <2>5. (d + 1) * w = d * w + w /\ d * w \in Nat /\ ByteSize * w \in Nat
    BY <1>1, <2>2
  <2> QED BY <2>2, <2>3, <2>4, <2>5
<1>4. k \in S
  <2>1. k \in Nat
    BY <1>1
  <2> HIDE DEF S
  <2> QED BY <1>2, <1>3, <2>1, SetInduction
<1>5. k <= Len(bs)
  BY <1>1
<1> QED BY <1>4, <1>5

\* From byte k + 1 on, the number is that byte and ByteSize times something more.
LEMMA LeAbove ==
  ASSUME NEW bs \in Seq(Byte), NEW k \in 0..Len(bs)
  PROVE  /\ \E q \in Nat : LeValue(bs) = LeTo(bs, k) + Shift[k] * q
         /\ k < Len(bs) =>
              \E q \in Nat : LeValue(bs) = LeTo(bs, k) + Shift[k] * (ByteSize * q + bs[k + 1])
<1> DEFINE n == Len(bs)
           More(i) == \E q \in Nat : LeValue(bs) = LeTo(bs, i) + Shift[i] * q
           S == {m \in Nat : m <= n => More(n - m)}
<1>1. n \in Nat /\ ByteSize \in Nat /\ \A i \in 1..n : bs[i] \in Nat
  BY ReaderAssumption DEF Byte
<1>2. 0 \in S
  <2>1. n - 0 = n /\ n \in 0..n
    BY <1>1
  <2>2. LeValue(bs) = LeTo(bs, n) /\ LeTo(bs, n) \in Nat /\ Shift[n] \in Nat
    BY <1>1, <2>1, LeStep, ShiftStep
  <2>3. LeValue(bs) = LeTo(bs, n) + Shift[n] * 0
    BY <2>2
  <2> QED BY <2>1, <2>3
<1>3. ASSUME NEW i \in 0..n, i < n, More(i + 1)
      PROVE  /\ More(i)
             /\ \E q \in Nat : LeValue(bs) = LeTo(bs, i) + Shift[i] * (ByteSize * q + bs[i + 1])
  <2>1. i + 1 \in 1..n /\ (i + 1) - 1 = i /\ i \in Nat /\ i + 1 \in 0..n
    BY <1>1, <1>3
  <2> DEFINE s == LeTo(bs, i)
             w == Shift[i]
             d == bs[i + 1]
  <2>2. PICK q \in Nat : LeValue(bs) = LeTo(bs, i + 1) + Shift[i + 1] * q
    BY <1>3
  <2>3. s \in Nat /\ w \in Nat /\ d \in Nat
    BY <1>1, <2>1, LeStep, ShiftStep
  <2>4. LeTo(bs, i + 1) = s + d * w /\ Shift[i + 1] = ByteSize * w
    BY <2>1, LeStep, ShiftStep
  <2> HIDE DEF s, w, d
  <2>5. ByteSize * q + d \in Nat
    BY <1>1, <2>3
  <2>6. (s + d * w) + (ByteSize * w) * q = s + w * (ByteSize * q + d)
    BY <1>1, <2>3
  <2>7. LeValue(bs) = s + w * (ByteSize * q + d)
    BY <2>2, <2>4, <2>6
  <2> QED BY <2>5, <2>7 DEF s, w, d
<1>4. ASSUME NEW m \in Nat, m \in S PROVE m + 1 \in S
  <2> SUFFICES ASSUME m + 1 <= n PROVE More(n - (m + 1))
    OBVIOUS
  <2>1. n - (m + 1) \in 0..n /\ n - (m + 1) < n /\ (n - (m + 1)) + 1 = n - m /\ m <= n
    BY <1>1
  <2>2. More((n - (m + 1)) + 1)
    BY <1>4, <2>1
  <2> HIDE DEF More
  <2> QED BY <1>3, <2>1, <2>2
<1>5. ASSUME NEW i \in 0..n PROVE More(i)
  <2>1. Nat \subseteq S
    <3> HIDE DEF S
    <3> QED BY <1>2, <1>4, SetInduction
  <2>2. n - i \in Nat /\ n - i <= n /\ n - (n - i) = i
    BY <1>1
  <2>3. n - i \in S
    BY <2>1, <2>2
  <2> HIDE DEF More
  <2> QED BY <2>2, <2>3
<1>6. k < n => k + 1 \in 0..n
  BY <1>1
<1> HIDE DEF More
<1>7. More(k)
  BY <1>5
<1>8. k < n => \E q \in Nat : LeValue(bs) = LeTo(bs, k) + Shift[k] * (ByteSize * q + bs[k + 1])
  BY <1>3, <1>5, <1>6
<1> QED BY <1>7, <1>8 DEF More

\* The value of any bytes has these very bytes: write_le and read_le are inverse.
THEOREM LeReadBack ==
  ASSUME NEW bs \in Seq(Byte)
  PROVE  LeBytes(LeValue(bs), Len(bs)) = bs
<1> DEFINE v == LeValue(bs)
           n == Len(bs)
<1>1. n \in Nat /\ v \in Nat /\ ByteSize \in Nat \ {0}
  <2>1. n \in 0..n /\ n \in Nat
    OBVIOUS
  <2> QED BY <2>1, LeStep, ReaderAssumption
<1>2. ASSUME NEW i \in 1..n PROVE (v \div Shift[i - 1]) % ByteSize = bs[i]
  <2> DEFINE k == i - 1
             s == LeTo(bs, k)
             w == Shift[k]
             d == bs[i]
  <2>1. k \in 0..n /\ k < n /\ k + 1 = i /\ k \in Nat
    BY <1>1
  <2>2. s \in Nat /\ w \in Nat \ {0} /\ s < w /\ d \in 0..(ByteSize - 1)
    <3>1. d \in 0..(ByteSize - 1)
      <4>1. d \in Byte
        OBVIOUS
      <4> QED BY <4>1 DEF Byte
    <3> HIDE DEF k, d
    <3> QED BY <2>1, <3>1, LeStep, LeBelow, ShiftStep
  <2>3. PICK q \in Nat : v = s + w * (ByteSize * q + d)
    <3> HIDE DEF k
    <3> QED BY <2>1, LeAbove
  <2> HIDE DEF v, s, w, d
  <2> DEFINE h == ByteSize * q + d
  <2>4. h \in Nat
    BY <1>1, <2>2
  <2>5. h % ByteSize = d
    BY <1>1, <2>2, DivisionUnique
  <2> HIDE DEF h
  <2>6. s \in 0..(w - 1) /\ v = w * h + s
    <3>1. v = s + w * h
      BY <2>3 DEF h
    <3>2. w * h \in Nat
      BY <2>2, <2>4
    <3> QED BY <2>2, <3>1, <3>2
  <2>7. v \div w = h
    BY <2>2, <2>4, <2>6, DivisionUnique
  <2> QED BY <2>5, <2>7 DEF w, d
<1>3. LeBytes(v, n) \in Seq(Byte) /\ Len(LeBytes(v, n)) = n
  <2> HIDE DEF v, n
  <2> QED BY <1>1, LeBytesType
<1>4. \A i \in 1..n : LeBytes(v, n)[i] = bs[i]
  BY <1>2 DEF LeBytes
<1> HIDE DEF v, n
<1>5. LeBytes(v, n) = bs
  BY <1>3, <1>4, SeqEqual DEF n
<1> QED BY <1>5 DEF v, n

-----------------------------------------------------------------------------
(* The reader stays inside.                                                *)

\* A reader that has n bytes left moves over them within its slice.
LEMMA MoveInside ==
  ASSUME ReaderInv, reading, NEW n \in Nat, NEW known, Has(n), Move(n, known)
  PROVE  ReaderInv'
<1>1. /\ view \in [from: Nat, size: Nat] /\ pos \in Nat /\ pos <= view.size
      /\ view.from + view.size <= Len(bytes) /\ Len(bytes) \in Nat
  BY DEF ReaderInv, TypeOK, ReadsStayInside
<1>2. pos + n <= view.size
  BY <1>1 DEF Has, Remaining
<1>3. /\ pos' = pos + n /\ touched' = [lo |-> view.from + pos, hi |-> view.from + pos + n]
      /\ UNCHANGED <<bytes, reading, view>>
  BY DEF Move, Touch
<1>4. TypeOK'
  BY <1>1, <1>3 DEF ReaderInv, TypeOK
<1>5. ReadsStayInside'
  BY <1>1, <1>2, <1>3 DEF ReaderInv, ReadsStayInside
<1> QED BY <1>3, <1>4, <1>5 DEF ReaderInv, Unread

\* A new reader over a part of the slice stays within it.
LEMMA ViewInside ==
  ASSUME ReaderInv, reading, NEW from \in Nat, NEW n \in Nat, from + n <= view.size,
         view' = [from |-> view.from + from, size |-> n], pos' = 0, touched' = None,
         UNCHANGED <<bytes, reading>>
  PROVE  ReaderInv'
<1>1. /\ view \in [from: Nat, size: Nat] /\ Len(bytes) \in Nat
      /\ view.from + view.size <= Len(bytes)
  BY DEF ReaderInv, TypeOK, ReadsStayInside
<1>2. TypeOK'
  BY <1>1 DEF ReaderInv, TypeOK, None
<1>3. ReadsStayInside'
  BY <1>1 DEF ReadsStayInside, None
<1> QED BY <1>2, <1>3 DEF ReaderInv, Unread

\* A new writer and reader have nothing before or behind them.
LEMMA ReaderInitial == Init => ReaderInv
<1> SUFFICES ASSUME Init PROVE ReaderInv
  OBVIOUS
<1>0. MaxBytes \in Nat
  BY ReaderAssumption
<1>1. Len(bytes) = 0 /\ bytes \in Seq(Byte)
  BY DEF Init
<1>2. /\ view = [from |-> 0, size |-> 0] /\ pos = 0 /\ touched = [lo |-> 0, hi |-> 0]
      /\ reading = FALSE
  BY DEF Init, None
<1>3. TypeOK
  <2>1. view \in [from: Nat, size: Nat] /\ touched \in [lo: Nat, hi: Nat]
    BY <1>2
  <2>2. reading \in BOOLEAN
    BY <1>2
  <2>3. Len(bytes) <= MaxBytes /\ pos \in Nat
    BY <1>0, <1>1, <1>2
  <2> QED BY <1>1, <2>1, <2>2, <2>3 DEF TypeOK
<1> QED BY <1>1, <1>2, <1>3 DEF ReaderInv, ReadsStayInside, Unread, None

\* Every operation of the writer, the slice and the reader stays inside.
LEMMA ReaderStep == ReaderInv /\ [Next]_vars => ReaderInv'
<1> SUFFICES ASSUME ReaderInv, [Next]_vars PROVE ReaderInv'
  OBVIOUS
<1> USE DEF ReaderInv
<1>0. Lengths \subseteq Nat /\ Widths \subseteq Nat /\ MaxBytes \in Nat
  BY ReaderAssumption
<1>t. /\ bytes \in Seq(Byte) /\ Len(bytes) \in Nat /\ view \in [from: Nat, size: Nat] /\ pos \in Nat
      /\ pos <= view.size /\ view.from + view.size <= Len(bytes)
  BY DEF TypeOK, ReadsStayInside
<1>1. ASSUME NEW width \in Widths, NEW value \in 0..Shift[width] - 1, WriteLe(value, width)
      PROVE  ReaderInv'
  <2>1. LeBytes(value, width) \in Seq(Byte) /\ Len(LeBytes(value, width)) = width /\ width \in Nat
    <3>1. width \in Nat /\ Shift[width] \in Nat
      BY <1>0, ShiftStep
    <3>2. value \in Nat
      BY <3>1
    <3> QED BY <3>1, <3>2, LeBytesType
  <2>2. /\ bytes' \in Seq(Byte) /\ Len(bytes') = Len(bytes) + width
        /\ Len(bytes) + width <= MaxBytes
    BY <1>1, <1>t, <2>1, ConcatProperties DEF WriteLe
  <2>3. UNCHANGED <<reading, view, pos, touched>>
    BY <1>1 DEF WriteLe
  <2>4. TypeOK'
    BY <2>2, <2>3 DEF TypeOK
  <2>5. ReadsStayInside'
    BY <1>t, <2>1, <2>2, <2>3 DEF TypeOK, ReadsStayInside
  <2> QED BY <2>3, <2>4, <2>5 DEF Unread
<1>2. ASSUME Clear PROVE ReaderInv'
  <2>1. bytes' = <<>> /\ Len(bytes') = 0 /\ UNCHANGED <<reading, view, pos, touched>> /\ ~reading
    BY <1>2 DEF Clear
  <2> QED BY <1>0, <2>1 DEF TypeOK, ReadsStayInside, Unread, None
<1>3. ASSUME OpenReader PROVE ReaderInv'
  <2>1. /\ view' = [from |-> 0, size |-> Len(bytes)] /\ reading' = TRUE
        /\ UNCHANGED <<bytes, pos, touched>> /\ pos = 0 /\ touched = None
    BY <1>3 DEF OpenReader, Unread
  <2> QED BY <1>t, <2>1 DEF TypeOK, ReadsStayInside, Unread, None
<1>4. ASSUME NEW n \in Lengths, At(n) PROVE ReaderInv'
  <2>1. n \in Nat /\ reading /\ UNCHANGED <<bytes, reading, view, pos>>
    BY <1>0, <1>4 DEF At
  <2>2. CASE n >= view.size
    <3>1. touched' = None
      BY <1>4, <2>2 DEF At
    <3> QED BY <1>t, <2>1, <3>1 DEF TypeOK, ReadsStayInside, Unread, None
  <2>3. CASE ~(n >= view.size)
    <3>1. touched' = [lo |-> view.from + n, hi |-> view.from + n + 1]
      BY <1>4, <2>3 DEF At, Touch
    <3>2. n + 1 <= view.size
      BY <1>t, <2>1, <2>3
    <3> QED BY <1>t, <2>1, <3>1, <3>2 DEF TypeOK, ReadsStayInside, Unread
  <2> QED BY <2>2, <2>3
<1>5. ASSUME NEW n \in Lengths, NEW from \in Lengths, Sub(from, n) PROVE ReaderInv'
  <2>1. n \in Nat /\ from \in Nat
    BY <1>0
  <2>2. from + n <= view.size
    BY <1>5, <1>t, <2>1 DEF Sub, Inside
  <2> QED BY <1>5, <2>1, <2>2, ViewInside DEF Sub
<1>6. ASSUME NEW width \in Widths, ReadLe(width) PROVE ReaderInv'
  BY <1>0, <1>6, MoveInside DEF ReadLe
<1>7. ASSUME NEW n \in Lengths, ReadString(n) PROVE ReaderInv'
  BY <1>0, <1>7, MoveInside DEF ReadString
<1>8. ASSUME NEW n \in Lengths, ReadSlice(n) PROVE ReaderInv'
  <2>1. n \in Nat /\ pos + n <= view.size
    BY <1>0, <1>8, <1>t DEF ReadSlice, Has, Remaining
  <2> QED BY <1>8, <1>t, <2>1, ViewInside DEF ReadSlice
<1>9. ASSUME NEW n \in Lengths, Skip(n) PROVE ReaderInv'
  <2>1. n \in Nat /\ pos + n <= view.size
    BY <1>0, <1>9, <1>t DEF Skip, Has, Remaining
  <2>2. pos' = pos + n /\ touched' = None /\ UNCHANGED <<bytes, reading, view>> /\ reading
    BY <1>9 DEF Skip
  <2> QED BY <1>t, <2>1, <2>2 DEF TypeOK, ReadsStayInside, Unread, None
<1>10. ASSUME NEW n \in Lengths, NEW c \in Byte, ReadUntil(c, n) PROVE ReaderInv'
  <2>1. n \in Nat /\ reading
    BY <1>0, <1>10 DEF ReadUntil
  <2>2. Looked(n) \in Nat /\ Has(Looked(n))
    BY <1>t, <2>1 DEF Looked, Has, Remaining
  <2>3. CASE \E k \in 1..Looked(n) : FoundAt(c, n, k) /\ Move(k, NextBytes(k))
    <3>1. PICK k \in 1..Looked(n) : Move(k, NextBytes(k))
      BY <2>3
    <3>2. k \in Nat /\ Has(k)
      BY <1>t, <2>2 DEF Has, Remaining
    <3> QED BY <2>1, <3>1, <3>2, MoveInside
  <2>4. CASE Move(Looked(n), Nothing(Looked(n)))
    BY <2>1, <2>2, <2>4, MoveInside
  <2> QED BY <1>10, <2>3, <2>4 DEF ReadUntil
<1>11. CASE UNCHANGED vars
  BY <1>11 DEF vars, TypeOK, ReadsStayInside, Unread
<1> QED BY <1>1, <1>2, <1>3, <1>4, <1>5, <1>6, <1>7, <1>8, <1>9, <1>10, <1>11 DEF Next

\* Type correctness of the buffer, the slice and the position.
THEOREM ReaderTypeCorrect == Spec => []TypeOK
<1>1. ReaderInv => TypeOK
  BY DEF ReaderInv
<1> QED BY ReaderInitial, ReaderStep, <1>1, PTL DEF Spec

\* No read, slice or search looks outside of the buffer (ByteSlice::at and sub, and
\* every operation of ByteReader, src/core/slice.cpp), for lengths up to 2^64 - 1.
THEOREM StaysInside == Spec => []ReadsStayInside
<1>1. ReaderInv => ReadsStayInside
  BY DEF ReaderInv
<1> QED BY ReaderInitial, ReaderStep, <1>1, PTL DEF Spec

-----------------------------------------------------------------------------
(* The reads lie end to end.                                               *)

\* Where a byte the caller knows is from.
Known == Byte \cup {Lost}
Tiles ==
  /\ got \in Seq(Known)
  /\ Len(got) = pos
  /\ \A i \in 1..Len(got) : got[i] \in {ByteAt(i - 1), Lost}
  /\ ~reading => got = <<>>

TileInv == ReaderInv /\ Tiles

\* The next bytes of the slice are the ones at the position and behind it.
LEMMA NextBytesAt ==
  ASSUME ReaderInv, NEW n \in Nat, Has(n)
  PROVE  /\ NextBytes(n) \in Seq(Byte) /\ Len(NextBytes(n)) = n
         /\ \A i \in 1..n : NextBytes(n)[i] = ByteAt(pos + i - 1)
<1> DEFINE lo == view.from + pos
<1>1. /\ bytes \in Seq(Byte) /\ Len(bytes) \in Nat /\ view.from \in Nat /\ view.size \in Nat
      /\ pos \in Nat /\ pos + n <= view.size /\ view.from + view.size <= Len(bytes)
  BY DEF ReaderInv, TypeOK, ReadsStayInside, Has, Remaining
<1>2. lo \in Nat /\ lo + n <= Len(bytes)
  BY <1>1
<1> DEFINE s == SubSeq(bytes, lo + 1, lo + n)
<1>3. NextBytes(n) = s
  BY <1>1 DEF NextBytes
<1>4. \A i \in 1..n : view.from + (pos + i - 1) + 1 = lo + i
  BY <1>1
<1> HIDE DEF lo
<1>5. s \in Seq(Byte) /\ Len(s) = n /\ \A i \in 1..n : s[i] = bytes[lo + i]
  <2>1. lo + 1 \in 1..(Len(bytes) + 1) /\ lo + n \in lo..Len(bytes)
    BY <1>1, <1>2
  <2>2. /\ s \in Seq(Byte) /\ Len(s) = IF lo + 1 <= lo + n THEN (lo + n) - (lo + 1) + 1 ELSE 0
        /\ \A i \in 1..((lo + n) - (lo + 1) + 1) : s[i] = bytes[(lo + 1) + i - 1]
    BY <1>1, <2>1, SubSeqProperties
  <2>3. Len(s) = n
    BY <1>2, <2>2
  <2>4. \A i \in 1..n : i \in 1..((lo + n) - (lo + 1) + 1) /\ (lo + 1) + i - 1 = lo + i
    BY <1>2
  <2> QED BY <2>2, <2>3, <2>4
<1> QED BY <1>3, <1>4, <1>5 DEF ByteAt

\* A number that is read stands for these very bytes.
LEMMA ReadLeKnown ==
  ASSUME ReaderInv, NEW n \in Nat, Has(n)
  PROVE  LeBytes(LeValue(NextBytes(n)), n) = NextBytes(n)
<1> DEFINE bs == NextBytes(n)
<1>1. bs \in Seq(Byte) /\ Len(bs) = n
  BY NextBytesAt
<1> HIDE DEF bs
<1>2. LeBytes(LeValue(bs), Len(bs)) = bs
  BY <1>1, LeReadBack
<1> QED BY <1>1, <1>2 DEF bs

\* A step over n bytes, of each of which the caller knows the byte or nothing.
LEMMA TileGrows ==
  ASSUME TileInv, reading, NEW n \in Nat, NEW known \in Seq(Known), Len(known) = n,
         \A i \in 1..n : known[i] \in {ByteAt(pos + i - 1), Lost},
         pos' = pos + n, got' = got \o known, UNCHANGED <<bytes, reading, view>>
  PROVE  Tiles'
<1>1. got \in Seq(Known) /\ Len(got) = pos /\ pos \in Nat
  BY DEF TileInv, Tiles, ReaderInv, TypeOK
<1>2. /\ got' \in Seq(Known) /\ Len(got') = pos + n
      /\ \A i \in 1..(pos + n) : got'[i] = IF i <= pos THEN got[i] ELSE known[i - pos]
  BY <1>1, ConcatProperties
<1>3. ASSUME NEW i \in 1..(pos + n) PROVE got'[i] \in {ByteAt(i - 1), Lost}
  <2>1. CASE i <= pos
    <3>1. i \in 1..Len(got)
      BY <1>1, <2>1
    <3>2. got[i] \in {ByteAt(i - 1), Lost}
      BY <3>1 DEF TileInv, Tiles
    <3> QED BY <1>2, <2>1, <3>2
  <2>2. CASE ~(i <= pos)
    <3>1. i - pos \in 1..n /\ pos + (i - pos) - 1 = i - 1
      BY <1>1, <2>2
    <3>2. known[i - pos] \in {ByteAt(i - 1), Lost}
      BY <3>1
    <3> QED BY <1>2, <2>2, <3>2
  <2> QED BY <2>1, <2>2
<1>4. \A i : ByteAt(i)' = ByteAt(i)
  BY DEF ByteAt
<1> QED BY <1>2, <1>3, <1>4 DEF Tiles

\* The bytes that are read are known, the ones passed over are not.
LEMMA KnownType ==
  ASSUME ReaderInv, NEW n \in Nat, Has(n), NEW known, known \in {NextBytes(n), Nothing(n)}
  PROVE  /\ known \in Seq(Known) /\ Len(known) = n
         /\ \A i \in 1..n : known[i] \in {ByteAt(pos + i - 1), Lost}
<1>1. CASE known = NextBytes(n)
  <2>1. /\ known \in Seq(Byte) /\ Len(known) = n
        /\ \A i \in 1..n : known[i] = ByteAt(pos + i - 1)
    BY <1>1, NextBytesAt
  <2>2. known \in Seq(Known)
    BY <2>1 DEF Known
  <2> QED BY <2>1, <2>2
<1>2. CASE known = Nothing(n)
  BY <1>2 DEF Nothing, Known
<1> QED BY <1>1, <1>2

\* A new reader has read nothing.
LEMMA TileAnew ==
  ASSUME pos' = 0, got' = <<>>
  PROVE  Tiles'
<1>1. got' \in Seq(Known)' /\ Len(got') = 0
  BY DEF Known, Byte
<1> QED BY <1>1 DEF Tiles

\* Every operation lays what it reads behind what was read before.
LEMMA TileStep == TileInv /\ [Next]_vars => Tiles'
<1> SUFFICES ASSUME TileInv, [Next]_vars PROVE Tiles'
  OBVIOUS
<1>0. ReaderInv /\ Tiles /\ Lengths \subseteq Nat /\ Widths \subseteq Nat
  BY ReaderAssumption DEF TileInv
<1>t. /\ view \in [from: Nat, size: Nat] /\ pos \in Nat /\ pos <= view.size
      /\ ~reading => pos = 0
  BY <1>0 DEF ReaderInv, TypeOK, ReadsStayInside, Unread
\* The writer and the opening of the reader.
<1>1. ASSUME ~reading, UNCHANGED <<pos, got>> PROVE Tiles'
  <2>1. got' = <<>> /\ pos' = 0
    BY <1>0, <1>1, <1>t DEF Tiles
  <2> QED BY <2>1, TileAnew
<1>2. ASSUME NEW n \in Nat, NEW known, known \in {NextBytes(n), Nothing(n)}, Has(n), reading,
             pos' = pos + n, got' = got \o known, UNCHANGED <<bytes, reading, view>>
      PROVE  Tiles'
  BY <1>0, <1>2, KnownType, TileGrows
<1>3. ASSUME NEW width \in Widths, NEW value \in 0..Shift[width] - 1, WriteLe(value, width)
      PROVE  Tiles'
  BY <1>1, <1>3 DEF WriteLe
<1>4. ASSUME Clear \/ OpenReader PROVE Tiles'
  BY <1>1, <1>4 DEF Clear, OpenReader
<1>5. ASSUME NEW n \in Lengths, At(n) PROVE Tiles'
  BY <1>0, <1>5 DEF At, Tiles, ByteAt
<1>6. ASSUME NEW n \in Lengths, NEW from \in Lengths, Sub(from, n) PROVE Tiles'
  BY <1>6, TileAnew DEF Sub
<1>7. ASSUME NEW width \in Widths, ReadLe(width) PROVE Tiles'
  <2>1. width \in Nat /\ reading /\ Has(width)
    BY <1>0, <1>7 DEF ReadLe
  <2>2. LeBytes(LeValue(NextBytes(width)), width) = NextBytes(width)
    BY <1>0, <2>1, ReadLeKnown
  <2> QED BY <1>2, <1>7, <2>1, <2>2 DEF ReadLe, Move
<1>8. ASSUME NEW n \in Lengths, ReadString(n) PROVE Tiles'
  BY <1>0, <1>2, <1>8 DEF ReadString, Move
<1>9. ASSUME NEW n \in Lengths, ReadSlice(n) PROVE Tiles'
  BY <1>9, TileAnew DEF ReadSlice
<1>10. ASSUME NEW n \in Lengths, Skip(n) PROVE Tiles'
  BY <1>0, <1>2, <1>10 DEF Skip
<1>11. ASSUME NEW n \in Lengths, NEW c \in Byte, ReadUntil(c, n) PROVE Tiles'
  <2>1. n \in Nat /\ reading
    BY <1>0, <1>11 DEF ReadUntil
  <2>2. Looked(n) \in Nat /\ Has(Looked(n))
    BY <1>t, <2>1 DEF Looked, Has, Remaining
  <2>3. CASE \E k \in 1..Looked(n) : FoundAt(c, n, k) /\ Move(k, NextBytes(k))
    <3>1. PICK k \in 1..Looked(n) : Move(k, NextBytes(k))
      BY <2>3
    <3>2. k \in Nat /\ Has(k)
      BY <1>t, <2>2 DEF Has, Remaining
    <3> QED BY <1>2, <2>1, <3>1, <3>2 DEF Move
  <2>4. CASE Move(Looked(n), Nothing(Looked(n)))
    BY <1>2, <2>1, <2>2, <2>4 DEF Move
  <2> QED BY <1>11, <2>3, <2>4 DEF ReadUntil
<1>12. CASE UNCHANGED vars
  BY <1>0, <1>12 DEF vars, Tiles, ByteAt
<1> QED BY <1>3, <1>4, <1>5, <1>6, <1>7, <1>8, <1>9, <1>10, <1>11, <1>12 DEF Next

\* What the caller was given are the bytes of the slice up to the position, each in its
\* place (every read of src/core/slice.cpp), with holes where a read hands nothing out.
THEOREM ReadsTile == Spec => []ReadsTileInput
<1>1. Init => Tiles
  <2> SUFFICES ASSUME Init PROVE Tiles
    OBVIOUS
  <2>1. got = <<>> /\ pos = 0 /\ got \in Seq(Known) /\ Len(got) = 0
    BY DEF Init
  <2> QED BY <2>1 DEF Tiles
<1>2. Init => TileInv
  BY <1>1, ReaderInitial DEF TileInv
<1>3. TileInv /\ [Next]_vars => TileInv'
  BY ReaderStep, TileStep DEF TileInv
<1>4. TileInv => ReadsTileInput
  BY DEF TileInv, Tiles, ReadsTileInput
<1> QED BY <1>2, <1>3, <1>4, PTL DEF Spec

-----------------------------------------------------------------------------
(* Texts in lines.                                                         *)

\* What a text over C is cut into.
Cuts(C) == [lines: Seq(Seq(C)), stops: Seq(C), rest: Seq(C)]
NoLines == [lines |-> <<>>, stops |-> <<>>, rest |-> <<>>]

\* A cut stays a cut.
LEMMA CutAtType ==
  ASSUME NEW C, NEW c \in Cuts(C), NEW x \in C, NEW ends
  PROVE  CutAt(c, x, ends) \in Cuts(C)
<1>1. c.lines \in Seq(Seq(C)) /\ c.stops \in Seq(C) /\ c.rest \in Seq(C)
  BY DEF Cuts
<1>2. /\ Append(c.lines, c.rest) \in Seq(Seq(C)) /\ Append(c.stops, x) \in Seq(C)
      /\ Append(c.rest, x) \in Seq(C)
  BY <1>1, AppendProperties
<1>3. <<>> \in Seq(C)
  OBVIOUS
<1> QED BY <1>1, <1>2, <1>3 DEF CutAt, Cuts

\* A text is cut lexeme after lexeme.
LEMMA CutLoop ==
  ASSUME NEW C, NEW text \in Seq(C), NEW ends
  PROVE  /\ CutTo(text, ends, 0) = NoLines
         /\ \A i \in 1..Len(text) : CutTo(text, ends, i) = CutAt(CutTo(text, ends, i - 1), text[i], ends)
         /\ \A i \in 0..Len(text) : CutTo(text, ends, i) \in Cuts(C)
<1> DEFINE n == Len(text)
           D == 0..n
           V == Cuts(C)
           first == NoLines
           turn(v, i) == IF i = 0 THEN first ELSE CutAt(v, text[i], ends)
           step == [p \in V \X D |-> turn(p[1], p[2])]
           turns(f) == [i \in 0..n |-> IF i = 0 THEN first ELSE CutAt(f[i - 1], text[i], ends)]
           f == CHOOSE h : h = turns(h)
<1>1. n \in Nat /\ 0 \in D /\ \A i \in 1..n : i - 1 \in D /\ i \in D \ {0} /\ text[i] \in C
  OBVIOUS
<1>2. first \in V
  BY DEF Cuts, NoLines
<1>3. \A v \in V : \A i \in 1..n : CutAt(v, text[i], ends) \in V
  BY <1>1, CutAtType
<1>4. step \in [V \X D -> V]
  <2>1. ASSUME NEW v \in V, NEW i \in D PROVE turn(v, i) \in V
    <3>1. i # 0 => i \in 1..n
      BY <1>1
    <3> HIDE DEF V, first
    <3> QED BY <1>2, <1>3, <3>1
  <2> HIDE DEF turn, V, D
  <2> QED BY <2>1
<1>5. PICK g \in [D -> V] : Loop(g, D, first, step)
  <2>1. D \in Counts
    BY <1>1, CountsAre
  <2> HIDE DEF step, D, V, first
  <2> QED BY <1>2, <1>4, <2>1, LoopExists
<1>6. ASSUME NEW i \in D \ {0} PROVE g[i] = CutAt(g[i - 1], text[i], ends)
  <2>1. i - 1 \in D
    BY <1>1
  <2>2. step[<<g[i - 1], i>>] = turn(g[i - 1], i)
    <3> HIDE DEF turn, V
    <3> QED BY <2>1
  <2>3. turn(g[i - 1], i) = CutAt(g[i - 1], text[i], ends)
    OBVIOUS
  <2> HIDE DEF step, V, D, turn, first
  <2> QED BY <1>5, <2>2, <2>3 DEF Loop
<1>7. g = turns(g)
  <2>1. g[0] = first
    BY <1>5 DEF Loop
  <2> HIDE DEF first, V
  <2> QED BY <1>6, <2>1
<1>8. f = turns(f)
  <2> HIDE DEF turns
  <2> QED BY <1>7
<1>9. \A k \in D : CutTo(text, ends, k) = f[k]
  BY DEF CutTo, NoLines
<1> HIDE DEF f
<1>10. f[0] = first /\ \A i \in 1..n : f[i] = CutAt(f[i - 1], text[i], ends)
  <2> HIDE DEF first, V
  <2>1. \A i \in 1..n : i \in 0..n /\ i # 0
    BY <1>1
  <2> QED BY <1>1, <1>8, <2>1
<1> DEFINE S == {i \in D : f[i] \in V}
<1>11. 0 \in S
  <2> HIDE DEF first, V
  <2> QED BY <1>1, <1>2, <1>10
<1>12. \A i \in 1..n : i - 1 \in S => i \in S
  <2> HIDE DEF first, V
  <2> QED BY <1>1, <1>3, <1>10
<1>13. 0..n \subseteq S
  <2> HIDE DEF S
  <2> QED BY <1>1, <1>11, <1>12, BoundedInduction
<1>14. \A k \in 0..n : f[k] \in V
  BY <1>13
<1>15. \A i \in 1..n : i - 1 \in 0..n /\ i \in 0..n
  BY <1>1
<1> HIDE DEF V, first, n
<1> QED BY <1>1, <1>9, <1>10, <1>14, <1>15 DEF V, first, n

\* What follows does not change the cut of what was there.
LEMMA CutPrefix ==
  ASSUME NEW C, NEW s \in Seq(C), NEW t \in Seq(C), NEW ends
  PROVE  /\ \A k \in 0..Len(s) : CutTo(s \o t, ends, k) = CutTo(s, ends, k)
         /\ CutTo(s \o t, ends, Len(s)) = Cut(s, ends)
<1> DEFINE n == Len(s)
           text == s \o t
           S == {k \in 0..n : CutTo(text, ends, k) = CutTo(s, ends, k)}
<1>1. n \in Nat /\ Len(t) \in Nat
  OBVIOUS
<1>2. text \in Seq(C) /\ Len(text) = n + Len(t) /\ \A i \in 1..n : text[i] = s[i]
  <2>1. /\ text \in Seq(C) /\ Len(text) = n + Len(t)
        /\ \A i \in 1..n + Len(t) : text[i] = IF i <= n THEN s[i] ELSE t[i - n]
    BY ConcatProperties
  <2> QED BY <1>1, <2>1
<1> HIDE DEF text
<1>3. 0 \in S
  BY <1>1, <1>2, CutLoop
<1>4. ASSUME NEW i \in 1..n, i - 1 \in S PROVE i \in S
  <2>1. i \in 1..Len(text) /\ i \in 1..Len(s)
    BY <1>1, <1>2
  <2>2. /\ CutTo(text, ends, i) = CutAt(CutTo(text, ends, i - 1), text[i], ends)
        /\ CutTo(s, ends, i) = CutAt(CutTo(s, ends, i - 1), s[i], ends)
    BY <1>2, <2>1, CutLoop
  <2> QED BY <1>1, <1>2, <1>4, <2>2
<1>5. 0..n \subseteq S
  <2> HIDE DEF S
  <2> QED BY <1>1, <1>3, <1>4, BoundedInduction
<1> QED BY <1>1, <1>5 DEF text, Cut

\* One lexeme more.
LEMMA CutAppend ==
  ASSUME NEW C, NEW text \in Seq(C), NEW x \in C, NEW ends
  PROVE  /\ Cut(text, ends) \in Cuts(C)
         /\ Cut(Append(text, x), ends) = CutAt(Cut(text, ends), x, ends)
<1> DEFINE n == Len(text)
           more == Append(text, x)
<1>1. n \in Nat /\ <<x>> \in Seq(C)
  OBVIOUS
<1>2. more \in Seq(C) /\ Len(more) = n + 1 /\ more[n + 1] = x /\ more = text \o <<x>>
  BY AppendProperties, AppendIsConcat
<1> HIDE DEF more
<1>3. Cut(text, ends) \in Cuts(C)
  <2>1. n \in 0..Len(text)
    BY <1>1
  <2> HIDE DEF n
  <2>2. CutTo(text, ends, n) \in Cuts(C)
    BY <2>1, CutLoop
  <2> QED BY <2>2 DEF Cut, n
<1>4. CutTo(more, ends, n) = Cut(text, ends)
  <2>1. CutTo(text \o <<x>>, ends, Len(text)) = Cut(text, ends)
    BY <1>1, CutPrefix
  <2> QED BY <1>2, <2>1
<1>5. CutTo(more, ends, n + 1) = CutAt(CutTo(more, ends, (n + 1) - 1), more[n + 1], ends)
  <2>1. n + 1 \in 1..Len(more)
    BY <1>1, <1>2
  <2> QED BY <1>2, <2>1, CutLoop
<1>6. (n + 1) - 1 = n
  BY <1>1
<1> QED BY <1>2, <1>3, <1>4, <1>5, <1>6 DEF Cut, more

\* The empty text.
LEMMA CutEmpty == \A ends : Cut(<<>>, ends) = NoLines
<1>1. <<>> \in Seq({}) /\ Len(<<>>) = 0
  OBVIOUS
<1> QED BY <1>1, CutLoop DEF Cut

\* A text that nothing ends is all rest.
LEMMA CutNone ==
  ASSUME NEW C, NEW ends, NEW text \in Seq(C \ ends)
  PROVE  Cut(text, ends) = [lines |-> <<>>, stops |-> <<>>, rest |-> text]
<1> DEFINE n == Len(text)
           part(k) == SubSeq(text, 1, k)
           S == {k \in 0..n : CutTo(text, ends, k) = [lines |-> <<>>, stops |-> <<>>, rest |-> part(k)]}
<1>1. n \in Nat /\ \A i \in 1..n : text[i] \in C \ ends
  OBVIOUS
<1>2. 0 \in S
  <2>1. part(0) = <<>>
    BY SubSeqEmpty
  <2> HIDE DEF part
  <2>2. CutTo(text, ends, 0) = NoLines
    BY CutLoop
  <2>3. CutTo(text, ends, 0) = [lines |-> <<>>, stops |-> <<>>, rest |-> part(0)]
    BY <2>1, <2>2 DEF NoLines
  <2>4. 0 \in 0..n
    BY <1>1
  <2> QED BY <2>3, <2>4
<1>3. ASSUME NEW i \in 1..n, i - 1 \in S PROVE i \in S
  <2>1. CutTo(text, ends, i) = CutAt(CutTo(text, ends, i - 1), text[i], ends)
    BY CutLoop
  <2>2. part(i) = Append(part(i - 1), text[i])
    <3>1. SubSeq(text, 1, i) = SubSeq(text, 1, i - 1) \o <<text[i]>>
      <4>1. 1 \in 1..Len(text) /\ i \in 1..Len(text)
        BY <1>1
      <4> QED BY <4>1, SubSeqRecursiveSecond
    <3>2. part(i - 1) \in Seq(C)
      <4>1. 1 \in Int /\ i - 1 \in Int /\ \A j \in 1..(i - 1) : text[j] \in C
        BY <1>1
      <4> QED BY <4>1, SubSeqProperties
    <3>3. text[i] \in C
      BY <1>1
    <3> QED BY <3>1, <3>2, <3>3, AppendIsConcat
  <2> HIDE DEF part
  <2>3. CutTo(text, ends, i - 1) = [lines |-> <<>>, stops |-> <<>>, rest |-> part(i - 1)]
    BY <1>3
  <2>4. text[i] \notin ends
    BY <1>1
  <2> DEFINE c == CutTo(text, ends, i - 1)
  <2>5. c.lines = <<>> /\ c.stops = <<>> /\ c.rest = part(i - 1)
    BY <2>3
  <2>6. CutAt(c, text[i], ends) = [lines |-> <<>>, stops |-> <<>>, rest |-> part(i)]
    <3> HIDE DEF c
    <3> QED BY <2>2, <2>4, <2>5 DEF CutAt
  <2>7. i \in 0..n
    BY <1>1
  <2> QED BY <2>1, <2>6, <2>7
<1>4. 0..n \subseteq S
  <2> HIDE DEF S
  <2> QED BY <1>1, <1>2, <1>3, BoundedInduction
<1>5. part(n) = text
  BY SubSeqFull
<1>6. n \in S
  <2> HIDE DEF S
  <2> QED BY <1>1, <1>4
<1> QED BY <1>5, <1>6 DEF Cut

\* The rest is no longer than the text.
LEMMA CutLengths ==
  ASSUME NEW C, NEW text \in Seq(C), NEW ends
  PROVE  \A k \in 0..Len(text) : Len(CutTo(text, ends, k).rest) <= k
<1> DEFINE n == Len(text)
           S == {k \in 0..n : Len(CutTo(text, ends, k).rest) <= k}
<1>1. n \in Nat
  OBVIOUS
<1>2. 0 \in S
  <2>1. CutTo(text, ends, 0) = NoLines
    BY CutLoop
  <2> QED BY <1>1, <2>1 DEF NoLines
<1>3. ASSUME NEW i \in 1..n, i - 1 \in S PROVE i \in S
  <2> DEFINE c == CutTo(text, ends, i - 1)
  <2>1. CutTo(text, ends, i) = CutAt(c, text[i], ends)
    BY CutLoop
  <2>2. c.rest \in Seq(C) /\ Len(c.rest) <= i - 1 /\ text[i] \in C
    <3>1. i - 1 \in 0..Len(text)
      BY <1>1
    <3>2. c \in Cuts(C)
      BY <3>1, CutLoop
    <3> QED BY <1>3, <3>2 DEF Cuts
  <2> HIDE DEF c
  <2>3. Len(Append(c.rest, text[i])) = Len(c.rest) + 1 /\ Len(c.rest) \in Nat
    BY <2>2, AppendProperties
  <2>4. Len(CutAt(c, text[i], ends).rest) <= i
    BY <2>2, <2>3 DEF CutAt
  <2> QED BY <1>1, <2>1, <2>4
<1>4. 0..n \subseteq S
  <2> HIDE DEF S
  <2> QED BY <1>1, <1>2, <1>3, BoundedInduction
<1> QED BY <1>4

-----------------------------------------------------------------------------
(* One line.                                                               *)

\* The name in force after a line, and the frame of the line.
LineSource(src, raw) == IF IsHeader(Chomp(raw)) THEN HeaderName(Chomp(raw)) ELSE src
LineFrame(src, seq, raw) ==
  IF IsHeader(Chomp(raw)) THEN Frame(HeaderName(Chomp(raw)), <<>>, FALSE, TRUE, seq)
  ELSE Frame(src, Unframed(Chomp(raw)), IsContinuation(Chomp(raw)), FALSE, seq)

\* A line does to a decoder what its name and its frame say.
LEMMA DecodeLineIs ==
  \A s, raw : DecodeLine(s, raw) =
    [source |-> LineSource(s.source, raw), sequence |-> s.sequence + 1,
     out |-> Append(s.out, LineFrame(s.source, s.sequence, raw))]
  BY DEF DecodeLine, LineSource, LineFrame

\* A line without its carriage return is a line, and no longer.
LEMMA ChompType ==
  ASSUME NEW raw \in Line
  PROVE  Chomp(raw) \in Line /\ Len(Chomp(raw)) <= Len(raw)
<1>1. CASE raw # <<>> /\ Last(raw) = "cr"
  <2>1. /\ Front(raw) \in Line /\ Last(raw) \in Lexemes \ {"nl"}
        /\ raw = Append(Front(raw), Last(raw))
    BY <1>1, FrontLast DEF Line
  <2>2. Len(raw) = Len(Front(raw)) + 1 /\ Len(Front(raw)) \in Nat
    <3> DEFINE s == Front(raw)
               e == Last(raw)
    <3>1. s \in Seq(Lexemes \ {"nl"}) /\ e \in Lexemes \ {"nl"} /\ raw = Append(s, e)
      BY <2>1 DEF Line
    <3> HIDE DEF s, e
    <3>2. Len(raw) = Len(s) + 1 /\ Len(s) \in Nat
      BY <3>1, AppendProperties
    <3> QED BY <3>2 DEF s
  <2> QED BY <1>1, <2>1, <2>2 DEF Chomp
<1>2. CASE ~(raw # <<>> /\ Last(raw) = "cr")
  <2>1. Chomp(raw) = raw
    BY <1>2 DEF Chomp
  <2>2. Len(raw) \in Nat
    BY DEF Line
  <2> QED BY <2>1, <2>2
<1> QED BY <1>1, <1>2

\* A part of a line is a line.
LEMMA PartType ==
  ASSUME NEW line \in Line, NEW m \in Nat \ {0}, NEW n \in Int, n <= Len(line)
  PROVE  SubSeq(line, m, n) \in Line /\ Len(SubSeq(line, m, n)) = IF m <= n THEN n - m + 1 ELSE 0
<1>1. Len(line) \in Nat /\ \A i \in 1..Len(line) : line[i] \in Lexemes \ {"nl"}
  BY DEF Line
<1>2. \A i \in m..n : line[i] \in Lexemes \ {"nl"}
  BY <1>1
<1>3. m \in Int
  OBVIOUS
<1> QED BY <1>2, <1>3, SubSeqProperties DEF Line

\* The name in a header is text of the line.
LEMMA HeaderNameType ==
  ASSUME NEW line \in Line, IsHeader(line)
  PROVE  HeaderName(line) \in Line
<1>1. Len(line) \in Nat /\ \A i \in 1..Len(line) : line[i] \in Lexemes \ {"nl"}
  BY DEF Line
<1>2. Len(line) >= 2 /\ line[2] = "sp" /\ line[Len(line)] = "<=="
  BY DEF IsHeader, StartsHeader
<1>3. Len(line) # 2
  BY <1>2
<1>4. CASE Len(line) = 3
  <2>1. line[3] = "<==" /\ line[3] \in Lexemes \ {"nl"}
    BY <1>1, <1>2, <1>4
  <2>2. <<"<==">> \in Seq(Lexemes \ {"nl"})
    BY <2>1
  <2> QED BY <1>4, <2>2 DEF HeaderName, Line
<1>5. CASE Len(line) # 3
  <2>1. 3 \in Nat \ {0} /\ Len(line) - 2 \in Int /\ Len(line) - 2 <= Len(line)
    BY <1>1
  <2>2. SubSeq(line, 3, Len(line) - 2) \in Line
    BY <2>1, PartType
  <2> QED BY <1>5, <2>2 DEF HeaderName
<1> QED BY <1>4, <1>5

\* What a frame that is no header carries is a line.
LEMMA UnframedType ==
  ASSUME NEW line \in Line
  PROVE  Unframed(line) \in Line
<1> DEFINE at == {p \in (1..Len(line)) \X (1..Len(line)) : IsFramed(line, p[1], p[2])}
           p  == CHOOSE p \in at : TRUE
<1>1. CASE at = {}
  BY <1>1 DEF Unframed
<1>2. CASE at # {}
  <2>1. p \in at
    <3> HIDE DEF at
    <3> QED BY <1>2
  <2> DEFINE sp == p[1]
             n  == Numerals[line[p[2]]]
             last == IF sp + n < Len(line) THEN sp + n ELSE Len(line)
  <2>2. Unframed(line) = SubSeq(line, sp + 1, last)
    BY <1>2 DEF Unframed, FrameText
  <2>3. IsFramed(line, sp, p[2])
    <3> HIDE DEF p
    <3> QED BY <2>1
  <2>4. sp \in 3..Len(line) /\ n \in Nat /\ Len(line) \in Nat
    <3> HIDE DEF p
    <3> QED BY <2>3, StreamAssumption DEF IsFramed, Line
  <2> HIDE DEF n, p, at
  <2>5. sp + 1 \in Nat \ {0} /\ last \in Int /\ last <= Len(line)
    BY <2>4
  <2> HIDE DEF last
  <2> QED BY <2>2, <2>5, PartType
<1> QED BY <1>1, <1>2

\* What is cut out of a LEN line is what Carries says.
LEMMA FrameTextCarries ==
  ASSUME NEW line \in Line, Len(line) <= MaxInput, NEW sp, NEW k, IsFramed(line, sp, k),
         NEW f, f.payload = FrameText(line, sp, Numerals[line[k]]),
         f.continuation = IsContinuation(line)
  PROVE  f.payload \in Line /\ Carries(f, line)
<1> DEFINE n == Numerals[line[k]]
           last == IF sp + n < Len(line) THEN sp + n ELSE Len(line)
<1>1. /\ Len(line) \in Nat /\ Len(line) < PosSize /\ PosSize \in Nat
      /\ sp \in 3..Len(line) /\ k \in 3..sp - 1
  BY StreamAssumption DEF IsFramed, Line
<1>2. line[k] \in DOMAIN Numerals /\ n \in 0..(PosSize - 1)
  BY StreamAssumption DEF IsFramed
<1>3. line[1] = "LEN" /\ line[sp] = "sp" /\ (sp + n) % PosSize <= Len(line)
  BY DEF IsFramed
<1>4. f.payload = SubSeq(line, sp + 1, last)
  BY DEF FrameText
<1> HIDE DEF n
<1>5. last \in Int /\ sp <= last /\ last <= Len(line)
  BY <1>1, <1>2
<1>6. f.payload \in Line /\ Len(f.payload) = last - sp
  <2>1. sp + 1 \in Nat \ {0}
    BY <1>1
  <2> HIDE DEF last
  <2>2. /\ SubSeq(line, sp + 1, last) \in Line
        /\ Len(SubSeq(line, sp + 1, last)) = IF sp + 1 <= last THEN last - (sp + 1) + 1 ELSE 0
    BY <1>5, <2>1, PartType
  <2>3. (IF sp + 1 <= last THEN last - (sp + 1) + 1 ELSE 0) = last - sp
    BY <1>1, <1>5
  <2> QED BY <1>4, <2>2, <2>3
<1>7. sp + Len(f.payload) = last
  BY <1>1, <1>5, <1>6
<1>8. Len(f.payload) = n \/ (sp + n >= PosSize /\ sp + Len(f.payload) = Len(line))
  <2>1. CASE sp + n < PosSize
    <3>1. (sp + n) % PosSize = sp + n
      <4> DEFINE r == sp + n
      <4>1. PosSize \in Nat \ {0} /\ r \in 0..(PosSize - 1) /\ 0 \in Nat
        BY <1>1, <1>2, <2>1
      <4>2. (PosSize * 0 + r) % PosSize = r
        <5> HIDE DEF r
        <5> QED BY <4>1, DivisionUnique
      <4>3. PosSize * 0 + r = r
        BY <4>1
      <4> QED BY <4>2, <4>3
    <3> QED BY <1>1, <1>2, <1>3, <1>6, <3>1
  <2>2. CASE sp + n >= PosSize
    BY <1>1, <1>2, <1>7, <2>2
  <2> QED BY <1>1, <1>2, <2>1, <2>2
<1>9. ~f.continuation
  BY <1>3 DEF IsContinuation
<1>10. \E k1, sp1 \in 3..Len(line) :
          /\ k1 < sp1 /\ line[k1] \in DOMAIN Numerals /\ line[sp1] = "sp"
          /\ f.payload = SubSeq(line, sp1 + 1, sp1 + Len(f.payload))
          /\ \/ Len(f.payload) = Numerals[line[k1]]
             \/ sp1 + Numerals[line[k1]] >= PosSize /\ sp1 + Len(f.payload) = Len(line)
  <2>1. k \in 3..Len(line) /\ k < sp
    BY <1>1
  <2>2. f.payload = SubSeq(line, sp + 1, sp + Len(f.payload))
    BY <1>4, <1>7
  <2>3. \/ Len(f.payload) = Numerals[line[k]]
        \/ sp + Numerals[line[k]] >= PosSize /\ sp + Len(f.payload) = Len(line)
    BY <1>8 DEF n
  <2> QED BY <1>1, <1>2, <1>3, <2>1, <2>2, <2>3
<1> QED BY <1>3, <1>6, <1>9, <1>10 DEF Carries

\* So is what a frame that is no header carries.
LEMMA UnframedCarries ==
  ASSUME NEW line \in Line, Len(line) <= MaxInput, NEW f, f.payload = Unframed(line),
         f.continuation = IsContinuation(line)
  PROVE  f.payload \in Line /\ Carries(f, line)
<1> DEFINE at == {p \in (1..Len(line)) \X (1..Len(line)) : IsFramed(line, p[1], p[2])}
           p  == CHOOSE p \in at : TRUE
<1>1. CASE at = {}
  <2>1. f.payload = line
    BY <1>1 DEF Unframed
  <2> QED BY <2>1 DEF Carries
<1>2. CASE at # {}
  <2>1. p \in at
    <3> HIDE DEF at
    <3> QED BY <1>2
  <2>2. f.payload = FrameText(line, p[1], Numerals[line[p[2]]])
    BY <1>2 DEF Unframed
  <2>3. IsFramed(line, p[1], p[2])
    <3> HIDE DEF p
    <3> QED BY <2>1
  <2> HIDE DEF p, at
  <2> QED BY <2>2, <2>3, FrameTextCarries
<1> QED BY <1>1, <1>2

\* What a line leads to is a name and a frame.
LEMMA LineFrameType ==
  ASSUME NEW src \in Line, NEW seq \in Nat, NEW raw \in Line
  PROVE  LineSource(src, raw) \in Line /\ LineFrame(src, seq, raw) \in Frames
<1> DEFINE line == Chomp(raw)
<1>1. line \in Line
  BY ChompType
<1>2. CASE IsHeader(line)
  <2>1. HeaderName(line) \in Line
    BY <1>1, <1>2, HeaderNameType
  <2>2. <<>> \in Line
    BY DEF Line
  <2>3. LineFrame(src, seq, raw) = Frame(HeaderName(line), <<>>, FALSE, TRUE, seq)
    BY <1>2 DEF LineFrame
  <2> QED BY <1>2, <2>1, <2>2, <2>3 DEF LineSource, Frame, Frames
<1>3. CASE ~IsHeader(line)
  <2>1. LineFrame(src, seq, raw) = Frame(src, Unframed(line), IsContinuation(line), FALSE, seq)
    BY <1>3 DEF LineFrame
  <2>2. Unframed(line) \in Line
    BY <1>1, UnframedType
  <2>3. IsContinuation(line) \in BOOLEAN
    BY DEF IsContinuation
  <2> QED BY <1>3, <2>1, <2>2, <2>3 DEF Frame, Frames, LineSource
<1> QED BY <1>2, <1>3

\* The frame of a line that is no header carries it.
LEMMA LineFrameCarries ==
  ASSUME NEW src, NEW seq, NEW raw \in Line, Len(raw) <= MaxInput, ~IsHeader(Chomp(raw))
  PROVE  Carries(LineFrame(src, seq, raw), Chomp(raw))
<1> DEFINE line == Chomp(raw)
           f == LineFrame(src, seq, raw)
<1>1. line \in Line /\ Len(line) <= MaxInput
  <2>1. line \in Line /\ Len(line) <= Len(raw)
    BY ChompType
  <2>2. Len(raw) \in Nat /\ Len(line) \in Nat /\ MaxInput \in Nat
    BY <2>1, StreamAssumption DEF Line
  <2> HIDE DEF line
  <2> QED BY <2>1, <2>2
<1>2. f = Frame(src, Unframed(line), IsContinuation(line), FALSE, seq)
  BY DEF LineFrame
<1>3. f.payload = Unframed(line) /\ f.continuation = IsContinuation(line)
  BY <1>2 DEF Frame
<1> HIDE DEF f, line
<1>4. Carries(f, line)
  BY <1>1, <1>3, UnframedCarries
<1> QED BY <1>4 DEF f, line

\* What is decoded so far.
Decoders == [source: Line, sequence: Nat, out: Seq(Frames)]

\* A decoder stays a decoder.
LEMMA DecodeLineType ==
  ASSUME NEW s \in Decoders, NEW raw \in Line
  PROVE  DecodeLine(s, raw) \in Decoders
<1> DEFINE f == LineFrame(s.source, s.sequence, raw)
<1>1. s.source \in Line /\ s.sequence \in Nat /\ s.out \in Seq(Frames)
  BY DEF Decoders
<1>2. LineSource(s.source, raw) \in Line /\ f \in Frames
  BY <1>1, LineFrameType
<1> HIDE DEF f
<1>3. Append(s.out, f) \in Seq(Frames)
  BY <1>1, <1>2, AppendProperties
<1> QED BY <1>1, <1>2, <1>3, DecodeLineIs DEF Decoders, f

\* Lines are decoded one after the other.
LEMMA DecodeLoop ==
  ASSUME NEW s \in Decoders, NEW lines \in Seq(Line)
  PROVE  /\ DecodeTo(s, lines, 0) = s
         /\ \A i \in 1..Len(lines) : DecodeTo(s, lines, i) = DecodeLine(DecodeTo(s, lines, i - 1), lines[i])
         /\ \A i \in 0..Len(lines) : DecodeTo(s, lines, i) \in Decoders
<1> DEFINE n == Len(lines)
           D == 0..n
           V == Decoders
           first == s
           turn(v, i) == IF i = 0 THEN first ELSE DecodeLine(v, lines[i])
           step == [p \in V \X D |-> turn(p[1], p[2])]
           turns(f) == [i \in 0..n |-> IF i = 0 THEN first ELSE DecodeLine(f[i - 1], lines[i])]
           f == CHOOSE h : h = turns(h)
<1>1. n \in Nat /\ 0 \in D /\ \A i \in 1..n : i - 1 \in D /\ i \in D \ {0} /\ lines[i] \in Line
  OBVIOUS
<1>2. first \in V
  OBVIOUS
<1>3. \A v \in V : \A i \in 1..n : DecodeLine(v, lines[i]) \in V
  BY <1>1, DecodeLineType
<1>4. step \in [V \X D -> V]
  <2>1. ASSUME NEW v \in V, NEW i \in D PROVE turn(v, i) \in V
    <3>1. i # 0 => i \in 1..n
      BY <1>1
    <3> HIDE DEF V, first
    <3> QED BY <1>2, <1>3, <3>1
  <2> HIDE DEF turn, V, D
  <2> QED BY <2>1
<1>5. PICK g \in [D -> V] : Loop(g, D, first, step)
  <2>1. D \in Counts
    BY <1>1, CountsAre
  <2> HIDE DEF step, D, V, first
  <2> QED BY <1>2, <1>4, <2>1, LoopExists
<1>6. ASSUME NEW i \in D \ {0} PROVE g[i] = DecodeLine(g[i - 1], lines[i])
  <2>1. i - 1 \in D
    BY <1>1
  <2>2. step[<<g[i - 1], i>>] = turn(g[i - 1], i)
    <3> HIDE DEF turn, V
    <3> QED BY <2>1
  <2>3. turn(g[i - 1], i) = DecodeLine(g[i - 1], lines[i])
    OBVIOUS
  <2> HIDE DEF step, V, D, turn, first
  <2> QED BY <1>5, <2>2, <2>3 DEF Loop
<1>7. g = turns(g)
  <2>1. g[0] = first
    BY <1>5 DEF Loop
  <2> HIDE DEF first, V
  <2> QED BY <1>6, <2>1
<1>8. f = turns(f)
  <2> HIDE DEF turns
  <2> QED BY <1>7
<1>9. \A k \in D : DecodeTo(s, lines, k) = f[k]
  BY DEF DecodeTo
<1> HIDE DEF f
<1>10. f[0] = first /\ \A i \in 1..n : f[i] = DecodeLine(f[i - 1], lines[i])
  <2> HIDE DEF first, V
  <2>1. \A i \in 1..n : i \in 0..n /\ i # 0
    BY <1>1
  <2> QED BY <1>1, <1>8, <2>1
<1> DEFINE S == {i \in D : f[i] \in V}
<1>11. 0 \in S
  <2> HIDE DEF first, V
  <2> QED BY <1>1, <1>2, <1>10
<1>12. \A i \in 1..n : i - 1 \in S => i \in S
  <2> HIDE DEF first, V
  <2> QED BY <1>1, <1>3, <1>10
<1>13. 0..n \subseteq S
  <2> HIDE DEF S
  <2> QED BY <1>1, <1>11, <1>12, BoundedInduction
<1>14. \A k \in 0..n : f[k] \in V
  BY <1>13
<1>15. \A i \in 1..n : i - 1 \in 0..n /\ i \in 0..n
  BY <1>1
<1> HIDE DEF V, first, n
<1> QED BY <1>1, <1>9, <1>10, <1>14, <1>15 DEF V, first, n

\* One line more.
LEMMA DecodeAppend ==
  ASSUME NEW s \in Decoders, NEW lines \in Seq(Line), NEW raw \in Line
  PROVE  /\ DecodeLines(s, lines) \in Decoders
         /\ DecodeLines(s, Append(lines, raw)) = DecodeLine(DecodeLines(s, lines), raw)
         /\ DecodeLines(s, <<>>) = s
<1> DEFINE n == Len(lines)
           more == Append(lines, raw)
           S == {k \in 0..n : DecodeTo(s, more, k) = DecodeTo(s, lines, k)}
<1>1. n \in Nat
  OBVIOUS
<1>2. /\ more \in Seq(Line) /\ Len(more) = n + 1 /\ more[n + 1] = raw
      /\ \A i \in 1..n : more[i] = lines[i]
  BY AppendProperties
<1> HIDE DEF more
<1>3. 0 \in S
  BY <1>1, <1>2, DecodeLoop
<1>4. ASSUME NEW i \in 1..n, i - 1 \in S PROVE i \in S
  <2>1. i \in 1..Len(more)
    BY <1>1, <1>2
  <2>2. /\ DecodeTo(s, more, i) = DecodeLine(DecodeTo(s, more, i - 1), more[i])
        /\ DecodeTo(s, lines, i) = DecodeLine(DecodeTo(s, lines, i - 1), lines[i])
    BY <1>2, <2>1, DecodeLoop
  <2> QED BY <1>1, <1>2, <1>4, <2>2
<1>5. 0..n \subseteq S
  <2> HIDE DEF S
  <2> QED BY <1>1, <1>3, <1>4, BoundedInduction
<1>6. n \in 0..n
  BY <1>1
<1>7. DecodeTo(s, more, n) = DecodeTo(s, lines, n) /\ DecodeTo(s, lines, n) \in Decoders
  BY <1>5, <1>6, DecodeLoop
<1>8. DecodeTo(s, more, n + 1) = DecodeLine(DecodeTo(s, more, (n + 1) - 1), more[n + 1])
  <2>1. n + 1 \in 1..Len(more)
    BY <1>1, <1>2
  <2> QED BY <1>2, <2>1, DecodeLoop
<1>9. (n + 1) - 1 = n
  BY <1>1
<1>10. DecodeLines(s, <<>>) = s
  <2>1. <<>> \in Seq(Line) /\ Len(<<>>) = 0
    OBVIOUS
  <2> QED BY <2>1, DecodeLoop DEF DecodeLines
<1> QED BY <1>2, <1>7, <1>8, <1>9, <1>10 DEF DecodeLines, more

-----------------------------------------------------------------------------
(* The frames of the lines that were given.                                *)

Stops == {"nl", "eof"}

\* f is a frame that line i of the cut c may have.
FrameFits(c, i, f) ==
  /\ Named(c, i, f.source) /\ f.sequence = i - 1
  /\ f.rotated <=> Header(c, i)
  /\ c.stops[i] = "eof" => f.payload = c.lines[i]
  /\ c.stops[i] = "nl" /\ ~f.rotated => Carries(f, Chomp(c.lines[i]))

\* The frames fit the lines of c, as do the name and the number that are next.
Fits(c, fs, src, seq) ==
  /\ c.lines \in Seq(Line) /\ c.stops \in Seq(Stops) /\ Len(c.stops) = Len(c.lines)
  /\ fs \in Seq(Frames) /\ Len(fs) = Len(c.lines)
  /\ src \in Line /\ Named(c, Len(c.lines), src)
  /\ seq = Len(c.lines)
  /\ \A i \in 1..Len(c.lines) : FrameFits(c, i, fs[i])

\* The names depend on the lines so far.
LEMMA NamedSame ==
  ASSUME NEW c, NEW d, NEW n \in Nat, NEW name,
         \A j \in 1..n : c.lines[j] = d.lines[j] /\ c.stops[j] = d.stops[j]
  PROVE  Named(c, n, name) => Named(d, n, name)
<1>1. \A j \in 1..n : Header(c, j) <=> Header(d, j)
  BY DEF Header
<1>2. \A i \in 1..n : \A j \in (i + 1)..n : j \in 1..n
  OBVIOUS
<1> QED BY <1>1, <1>2 DEF Named

\* d is c with one line more.
OneMore(c, d, line, stop) ==
  d.lines = Append(c.lines, line) /\ d.stops = Append(c.stops, stop)

\* The lines of d are those of c, and one.
LEMMA OneMoreIs ==
  ASSUME NEW c, NEW d, NEW line \in Line, NEW stop \in Stops, OneMore(c, d, line, stop),
         c.lines \in Seq(Line), c.stops \in Seq(Stops), Len(c.stops) = Len(c.lines)
  PROVE  /\ d.lines \in Seq(Line) /\ d.stops \in Seq(Stops)
         /\ Len(c.lines) \in Nat
         /\ Len(d.lines) = Len(c.lines) + 1 /\ Len(d.stops) = Len(d.lines)
         /\ d.lines[Len(c.lines) + 1] = line /\ d.stops[Len(c.lines) + 1] = stop
         /\ \A j \in 1..Len(c.lines) : c.lines[j] = d.lines[j] /\ c.stops[j] = d.stops[j]
<1>1. /\ d.lines \in Seq(Line) /\ Len(d.lines) = Len(c.lines) + 1
      /\ d.lines[Len(c.lines) + 1] = line
      /\ \A j \in 1..Len(c.lines) : d.lines[j] = c.lines[j]
  BY AppendProperties DEF OneMore
<1>2. /\ d.stops \in Seq(Stops) /\ Len(d.stops) = Len(c.stops) + 1
      /\ d.stops[Len(c.stops) + 1] = stop
      /\ \A j \in 1..Len(c.stops) : d.stops[j] = c.stops[j]
  BY AppendProperties DEF OneMore
<1>3. Len(c.lines) \in Nat
  OBVIOUS
<1> QED BY <1>1, <1>2, <1>3

\* One frame more.
LEMMA FitsMore ==
  ASSUME NEW c, NEW fs, NEW src, NEW seq, Fits(c, fs, src, seq),
         NEW d, NEW line \in Line, NEW stop \in Stops, OneMore(c, d, line, stop),
         NEW f \in Frames, FrameFits(d, seq + 1, f),
         NEW next \in Line, Named(d, seq + 1, next)
  PROVE  Fits(d, Append(fs, f), next, seq + 1)
<1> DEFINE n == Len(c.lines)
           more == Append(fs, f)
<1>1. /\ d.lines \in Seq(Line) /\ d.stops \in Seq(Stops) /\ n \in Nat
      /\ Len(d.lines) = n + 1 /\ Len(d.stops) = Len(d.lines)
      /\ \A j \in 1..n : c.lines[j] = d.lines[j] /\ c.stops[j] = d.stops[j]
  <2>1. c.lines \in Seq(Line) /\ c.stops \in Seq(Stops) /\ Len(c.stops) = Len(c.lines)
    BY DEF Fits
  <2> QED BY <2>1, OneMoreIs DEF Stops
<1>2. fs \in Seq(Frames) /\ Len(fs) = n /\ seq = n /\ \A i \in 1..n : FrameFits(c, i, fs[i])
  BY DEF Fits
<1>3. /\ more \in Seq(Frames) /\ Len(more) = n + 1 /\ more[n + 1] = f
      /\ \A i \in 1..n : more[i] = fs[i]
  BY <1>2, AppendProperties
<1> HIDE DEF n, more
<1>4. ASSUME NEW i \in 1..n PROVE FrameFits(d, i, more[i])
  <2>1. i \in Nat /\ \A j \in 1..i : c.lines[j] = d.lines[j] /\ c.stops[j] = d.stops[j]
    BY <1>1
  <2>2. FrameFits(c, i, more[i])
    BY <1>2, <1>3
  <2>3. Named(d, i, more[i].source)
    BY <2>1, <2>2, NamedSame DEF FrameFits
  <2>4. c.lines[i] = d.lines[i] /\ c.stops[i] = d.stops[i]
    BY <1>1
  <2> QED BY <2>2, <2>3, <2>4 DEF FrameFits, Header
<1>5. ASSUME NEW i \in 1..(n + 1) PROVE FrameFits(d, i, more[i])
  <2>1. CASE i = n + 1
    BY <1>2, <1>3, <2>1
  <2>2. CASE i # n + 1
    <3>1. i \in 1..n
      BY <1>1, <2>2
    <3> QED BY <1>4, <3>1
  <2> QED BY <2>1, <2>2
<1>6. Fits(d, more, next, seq + 1)
  BY <1>1, <1>2, <1>3, <1>5 DEF Fits
<1> QED BY <1>6 DEF more

\* The name in force stays when a line is no header.
LEMMA NamedStays ==
  ASSUME NEW c, NEW d, NEW n \in Nat, NEW name, Named(c, n, name),
         \A j \in 1..n : c.lines[j] = d.lines[j] /\ c.stops[j] = d.stops[j],
         ~Header(d, n + 1)
  PROVE  Named(d, n + 1, name)
<1>1. Named(d, n, name)
  BY NamedSame
<1>2. CASE name = DefaultSource /\ \A j \in 1..n : ~Header(d, j)
  <2>1. \A j \in 1..(n + 1) : j = n + 1 \/ j \in 1..n
    OBVIOUS
  <2> QED BY <1>2, <2>1 DEF Named
<1>3. CASE \E i \in 1..n : /\ Header(d, i) /\ name = HeaderName(Chomp(d.lines[i]))
                           /\ \A j \in (i + 1)..n : ~Header(d, j)
  <2>1. PICK i \in 1..n : /\ Header(d, i) /\ name = HeaderName(Chomp(d.lines[i]))
                          /\ \A j \in (i + 1)..n : ~Header(d, j)
    BY <1>3
  <2>2. i \in 1..(n + 1) /\ \A j \in (i + 1)..(n + 1) : j = n + 1 \/ j \in (i + 1)..n
    OBVIOUS
  <2>3. \A j \in (i + 1)..(n + 1) : ~Header(d, j)
    BY <2>1, <2>2
  <2> QED BY <2>1, <2>2, <2>3 DEF Named
<1> QED BY <1>1, <1>2, <1>3 DEF Named

\* A line that feed decodes.
LEMMA FitsLine ==
  ASSUME NEW c, NEW fs, NEW src, NEW seq, Fits(c, fs, src, seq),
         NEW d, NEW line \in Line, Len(line) <= MaxInput, OneMore(c, d, line, "nl")
  PROVE  Fits(d, Append(fs, LineFrame(src, seq, line)), LineSource(src, line), seq + 1)
<1> DEFINE n == Len(c.lines)
           f == LineFrame(src, seq, line)
           next == LineSource(src, line)
<1>1. /\ n \in Nat /\ seq = n /\ src \in Line /\ Named(c, n, src)
      /\ d.lines[n + 1] = line /\ d.stops[n + 1] = "nl"
      /\ \A j \in 1..n : c.lines[j] = d.lines[j] /\ c.stops[j] = d.stops[j]
  BY OneMoreIs DEF Fits, Stops
<1>2. f \in Frames /\ next \in Line
  BY <1>1, LineFrameType
<1>3. Header(d, n + 1) <=> IsHeader(Chomp(line))
  BY <1>1 DEF Header
<1> HIDE DEF n
<1>4. f.sequence = seq /\ f.source = next /\ (f.rotated <=> IsHeader(Chomp(line)))
  BY DEF LineFrame, LineSource, Frame
<1>5. Named(d, n + 1, next)
  <2>1. CASE IsHeader(Chomp(line))
    <3>1. next = HeaderName(Chomp(line))
      BY <2>1 DEF LineSource
    <3>2. n + 1 \in 1..(n + 1) /\ \A j \in ((n + 1) + 1)..(n + 1) : FALSE
      BY <1>1
    <3> HIDE DEF next
    <3> QED BY <1>1, <1>3, <2>1, <3>1, <3>2 DEF Named
  <2>2. CASE ~IsHeader(Chomp(line))
    <3>1. next = src
      BY <2>2 DEF LineSource
    <3> HIDE DEF next
    <3> QED BY <1>1, <1>3, <2>2, <3>1, NamedStays
  <2> QED BY <2>1, <2>2
<1>6. ~IsHeader(Chomp(line)) => Carries(f, Chomp(line))
  BY LineFrameCarries
<1> HIDE DEF f, next
<1>7. FrameFits(d, n + 1, f)
  <2>1. (n + 1) - 1 = n
    BY <1>1
  <2> QED BY <1>1, <1>3, <1>4, <1>5, <1>6, <2>1 DEF FrameFits
<1>8. "nl" \in Stops
  BY DEF Stops
<1>9. Fits(d, Append(fs, f), next, seq + 1)
  BY <1>1, <1>2, <1>5, <1>7, <1>8, FitsMore
<1> QED BY <1>9 DEF f, next

\* The rest of a cut says nothing of its frames.
LEMMA FitsSame ==
  ASSUME NEW c, NEW fs, NEW src, NEW seq, Fits(c, fs, src, seq),
         NEW d, d.lines = c.lines, d.stops = c.stops
  PROVE  Fits(d, fs, src, seq)
<1>1. \A i : Header(c, i) <=> Header(d, i)
  BY DEF Header
<1>2. \A n, name : Named(c, n, name) <=> Named(d, n, name)
  BY <1>1 DEF Named
<1>3. \A i, f : FrameFits(c, i, f) <=> FrameFits(d, i, f)
  BY <1>1, <1>2 DEF FrameFits
<1> QED BY <1>2, <1>3 DEF Fits

\* The line that finish returns.
LEMMA FitsLast ==
  ASSUME NEW c, NEW fs, NEW src, NEW seq, Fits(c, fs, src, seq),
         NEW d, NEW line \in Line, OneMore(c, d, line, "eof")
  PROVE  Fits(d, Append(fs, Frame(src, line, FALSE, FALSE, seq)), src, seq + 1)
<1> DEFINE n == Len(c.lines)
           f == Frame(src, line, FALSE, FALSE, seq)
<1>1. /\ n \in Nat /\ seq = n /\ src \in Line /\ Named(c, n, src)
      /\ d.lines[n + 1] = line /\ d.stops[n + 1] = "eof"
      /\ \A j \in 1..n : c.lines[j] = d.lines[j] /\ c.stops[j] = d.stops[j]
  BY OneMoreIs DEF Fits, Stops
<1> HIDE DEF n
<1>2. f \in Frames
  BY <1>1 DEF Frame, Frames
<1>3. ~Header(d, n + 1)
  BY <1>1 DEF Header
<1>4. Named(d, n + 1, src)
  BY <1>1, <1>3, NamedStays
<1>5. f.sequence = seq /\ f.source = src /\ f.rotated = FALSE /\ f.payload = line
  BY DEF Frame
<1> HIDE DEF f
<1>6. FrameFits(d, n + 1, f)
  <2>1. (n + 1) - 1 = n
    BY <1>1
  <2> QED BY <1>1, <1>3, <1>4, <1>5, <2>1 DEF FrameFits
<1>7. "eof" \in Stops
  BY DEF Stops
<1>8. Fits(d, Append(fs, f), src, seq + 1)
  BY <1>1, <1>2, <1>4, <1>6, <1>7, FitsMore
<1> QED BY <1>8 DEF f

-----------------------------------------------------------------------------
(* A decoder between two calls.                                            *)

Decoder0 == [source |-> source, sequence |-> sequence, out |-> <<>>]
Texts == Seq(Lexemes \cup {"eof"})

\* The frames fit the lines that were given; pending_ is the line not yet complete.
DecoderInv ==
  /\ DecoderTypeOK
  /\ input \in Texts /\ Len(input) <= MaxInput
  /\ pending = Given.rest
  /\ Fits(Given, frames, source, sequence)

\* Every decoder starts with a name.
LEMMA SourceType == DefaultSource \in Line
<1>1. "stream" \in Lexemes \ {"nl"}
  BY DEF Lexemes
<1>2. <<"stream">> \in Seq(Lexemes \ {"nl"})
  BY <1>1
<1> QED BY <1>2 DEF DefaultSource, Line

\* A chunk is text: it holds no end of input.
LEMMA ChunkType ==
  ASSUME NEW chunk \in Chunks
  PROVE  chunk \in Seq(Lexemes) /\ \A i \in 1..Len(chunk) : chunk[i] # "eof"
<1>1. chunk \in Seq(ToSet(chunk) \ {"eof"})
  BY StreamAssumption
<1>2. ToSet(chunk) \subseteq Lexemes
  BY DEF Lexemes
<1>3. \A i \in 1..Len(chunk) : chunk[i] \in Lexemes /\ chunk[i] # "eof"
  BY <1>1, <1>2
<1>4. chunk \in Seq(Lexemes)
  BY <1>1, <1>3
<1> QED BY <1>3, <1>4

\* The cut of the whole input and the cut of the text at hand agree.
Agree(a, b, s) ==
  /\ a.rest = b.rest /\ b.rest \in Line /\ b.lines \in Seq(Line)
  /\ LET d == DecodeLines(s, b.lines) IN Fits(a, frames \o d.out, d.source, d.sequence)

\* They still do after one lexeme more.
LEMMA AgreeStep ==
  ASSUME frames \in Seq(Frames), NEW s \in Decoders,
         NEW a, NEW b, Agree(a, b, s), Len(b.rest) <= MaxInput,
         NEW x \in Lexemes, x # "eof"
  PROVE  Agree(CutAt(a, x, {"nl", "eof"}), CutAt(b, x, {"nl"}), s)
<1> DEFINE d == DecodeLines(s, b.lines)
           a2 == CutAt(a, x, {"nl", "eof"})
           b2 == CutAt(b, x, {"nl"})
<1>1. a.rest = b.rest /\ b.rest \in Line /\ b.lines \in Seq(Line)
  BY DEF Agree
<1>2. Fits(a, frames \o d.out, d.source, d.sequence)
  BY DEF Agree
<1>3. CASE x = "nl"
  <2> DEFINE line == b.rest
             e == DecodeLines(s, Append(b.lines, line))
             f == LineFrame(d.source, d.sequence, line)
  <2>1. OneMore(a, a2, line, "nl") /\ a2.rest = <<>>
    BY <1>1, <1>3 DEF CutAt, OneMore
  <2>2. b2.lines = Append(b.lines, line) /\ b2.rest = <<>>
    BY <1>3 DEF CutAt
  <2>3. d \in Decoders /\ e = DecodeLine(d, line)
    BY <1>1, DecodeAppend
  <2>4. <<>> \in Line /\ Append(b.lines, line) \in Seq(Line)
    BY <1>1, AppendProperties DEF Line
  <2>5. d.out \in Seq(Frames) /\ d.source \in Line /\ d.sequence \in Nat
    BY <2>3 DEF Decoders
  <2> HIDE DEF d, a2, b2
  <2>6. e.out = Append(d.out, f) /\ e.source = LineSource(d.source, line) /\ e.sequence = d.sequence + 1
    BY <2>3, DecodeLineIs
  <2>7. Fits(a2, Append(frames \o d.out, f), LineSource(d.source, line), d.sequence + 1)
    BY <1>1, <1>2, <2>1, FitsLine
  <2>8. f \in Frames
    BY <1>1, <2>5, LineFrameType
  <2> HIDE DEF f
  <2>9. frames \o Append(d.out, f) = Append(frames \o d.out, f)
    BY <2>5, <2>8, ConcatAppend
  <2> HIDE DEF e, line
  <2>10. Fits(a2, frames \o e.out, e.source, e.sequence)
    BY <2>6, <2>7, <2>9
  <2>11. Agree(a2, b2, s)
    BY <2>1, <2>2, <2>4, <2>10 DEF Agree, e
  <2> QED BY <2>11 DEF a2, b2
<1>4. CASE x # "nl"
  <2>1. a2.lines = a.lines /\ a2.stops = a.stops /\ a2.rest = Append(a.rest, x)
    BY <1>4 DEF CutAt
  <2>2. b2.lines = b.lines /\ b2.rest = Append(b.rest, x)
    BY <1>4 DEF CutAt
  <2>3. Append(b.rest, x) \in Line
    BY <1>1, <1>4, AppendProperties DEF Line
  <2> HIDE DEF a2, b2
  <2>4. Fits(a2, frames \o d.out, d.source, d.sequence)
    BY <1>2, <2>1, FitsSame
  <2>5. Agree(a2, b2, s)
    BY <1>1, <2>1, <2>2, <2>3, <2>4 DEF Agree
  <2> QED BY <2>5 DEF a2, b2
<1> QED BY <1>3, <1>4

\* Feed: the text at hand is the line that was not complete, and the chunk.
LEMMA FeedKeeps ==
  ASSUME DecoderInv, NEW chunk \in Chunks, Len(input) + Len(chunk) <= MaxInput
  PROVE  Agree(Cut(input \o chunk, {"nl", "eof"}), Cut(pending \o chunk, {"nl"}), Decoder0)
<1> DEFINE E == {"nl", "eof"}
           C == Lexemes \cup {"eof"}
           m == Len(chunk)
           text == input \o chunk
           buf == pending \o chunk
           A(j) == CutTo(text, E, Len(input) + j)
           B(j) == CutTo(buf, {"nl"}, Len(pending) + j)
           S == {j \in 0..m : Agree(A(j), B(j), Decoder0)}
<1>1. /\ chunk \in Seq(C) /\ input \in Seq(C) /\ pending \in Seq(C)
      /\ pending \in Seq(C \ {"nl"}) /\ pending \in Line
      /\ \A j \in 1..m : chunk[j] \in Lexemes /\ chunk[j] # "eof"
  <2>1. chunk \in Seq(Lexemes) /\ \A j \in 1..m : chunk[j] # "eof"
    BY ChunkType
  <2>2. input \in Seq(C) /\ pending \in Seq(Lexemes \ {"nl"})
    BY DEF DecoderInv, DecoderTypeOK, Line, Texts
  <2>3. chunk \in Seq(C) /\ pending \in Seq(C) /\ pending \in Seq(C \ {"nl"})
    BY <2>1, <2>2, SeqMonotonic
  <2> QED BY <2>1, <2>2, <2>3 DEF Line
<1>2. /\ Len(input) \in Nat /\ Len(pending) \in Nat /\ m \in Nat /\ MaxInput \in Nat
      /\ Len(input) + m <= MaxInput
  BY <1>1, StreamAssumption DEF Line
<1>3. /\ text \in Seq(C) /\ Len(text) = Len(input) + m
      /\ \A j \in 1..m : text[Len(input) + j] = chunk[j]
  BY <1>1, <1>2, ConcatProperties
<1>4. /\ buf \in Seq(C) /\ Len(buf) = Len(pending) + m
      /\ \A j \in 1..m : buf[Len(pending) + j] = chunk[j]
  BY <1>1, <1>2, ConcatProperties
<1>5. frames \in Seq(Frames) /\ Decoder0 \in Decoders
  <2>1. <<>> \in Seq(Frames)
    OBVIOUS
  <2> QED BY <2>1 DEF DecoderInv, DecoderTypeOK, Decoder0, Decoders
<1>6. Len(pending) <= Len(input)
  <2>1. Len(input) \in 0..Len(input)
    BY <1>2
  <2>2. Len(CutTo(input, E, Len(input)).rest) <= Len(input)
    BY <1>1, <2>1, CutLengths
  <2> QED BY <2>2 DEF DecoderInv, Given, Cut
<1>7. A(0) = Given
  <2>1. CutTo(text, E, Len(input)) = Cut(input, E)
    BY <1>1, CutPrefix
  <2>2. Len(input) + 0 = Len(input)
    BY <1>2
  <2> QED BY <2>1, <2>2 DEF Given
<1>8. B(0) = [lines |-> <<>>, stops |-> <<>>, rest |-> pending]
  <2>1. CutTo(buf, {"nl"}, Len(pending)) = Cut(pending, {"nl"})
    BY <1>1, CutPrefix
  <2>2. Len(pending) + 0 = Len(pending)
    BY <1>2
  <2>3. Cut(pending, {"nl"}) = [lines |-> <<>>, stops |-> <<>>, rest |-> pending]
    BY <1>1, CutNone
  <2> QED BY <2>1, <2>2, <2>3
<1> HIDE DEF text, buf
<1>9. 0 \in S
  <2>1. B(0).lines = <<>> /\ B(0).rest = pending
    <3> DEFINE b == B(0)
    <3>1. b = [lines |-> <<>>, stops |-> <<>>, rest |-> pending]
      BY <1>8
    <3> HIDE DEF b
    <3>2. b.lines = <<>> /\ b.rest = pending
      BY <3>1
    <3> QED BY <3>2 DEF b
  <2>2. <<>> \in Seq(Line)
    OBVIOUS
  <2>3. DecodeLines(Decoder0, <<>>) = Decoder0
    BY <1>5, <2>2, SourceType, DecodeAppend
  <2>4. Given.rest = pending /\ Fits(Given, frames, source, sequence)
    BY DEF DecoderInv
  <2>5. Decoder0.out = <<>> /\ Decoder0.source = source /\ Decoder0.sequence = sequence
    BY DEF Decoder0
  <2>6. frames \o <<>> = frames
    BY <1>5, ConcatEmptySeq
  <2> DEFINE b == B(0)
             a == A(0)
  <2>7. a = Given /\ b.lines = <<>> /\ b.rest = pending
    BY <1>7, <2>1
  <2> HIDE DEF a, b
  <2>8. Agree(a, b, Decoder0)
    BY <1>1, <2>2, <2>3, <2>4, <2>5, <2>6, <2>7 DEF Agree
  <2>9. 0 \in 0..m
    BY <1>2
  <2> QED BY <2>8, <2>9 DEF a, b
<1>10. ASSUME NEW j \in 1..m, j - 1 \in S PROVE j \in S
  <2> DEFINE a == A(j - 1)
             b == B(j - 1)
             x == chunk[j]
  <2>1. x \in Lexemes /\ x # "eof"
    BY <1>1
  <2>2. A(j) = CutAt(a, x, E)
    <3>1. Len(input) + j \in 1..Len(text) /\ (Len(input) + j) - 1 = Len(input) + (j - 1)
      BY <1>2, <1>3
    <3>2. CutTo(text, E, Len(input) + j) = CutAt(CutTo(text, E, (Len(input) + j) - 1), text[Len(input) + j], E)
      BY <1>3, <3>1, CutLoop
    <3> QED BY <1>3, <3>1, <3>2
  <2>3. B(j) = CutAt(b, x, {"nl"})
    <3>1. Len(pending) + j \in 1..Len(buf) /\ (Len(pending) + j) - 1 = Len(pending) + (j - 1)
      BY <1>2, <1>4
    <3>2. CutTo(buf, {"nl"}, Len(pending) + j)
            = CutAt(CutTo(buf, {"nl"}, (Len(pending) + j) - 1), buf[Len(pending) + j], {"nl"})
      BY <1>4, <3>1, CutLoop
    <3> QED BY <1>4, <3>1, <3>2
  <2>4. Len(b.rest) <= MaxInput
    <3>1. Len(pending) + (j - 1) \in 0..Len(buf)
      BY <1>2, <1>4
    <3>2. Len(b.rest) <= Len(pending) + (j - 1)
      BY <1>4, <3>1, CutLengths
    <3>3. b.rest \in Line
      BY <1>10 DEF Agree
    <3>4. Len(b.rest) \in Nat
      BY <3>3 DEF Line
    <3> HIDE DEF b
    <3> QED BY <1>2, <1>6, <3>2, <3>4
  <2>5. Agree(a, b, Decoder0)
    BY <1>10
  <2> HIDE DEF a, b, x
  <2>6. Agree(CutAt(a, x, E), CutAt(b, x, {"nl"}), Decoder0)
    BY <1>5, <2>1, <2>4, <2>5, AgreeStep
  <2>7. j \in 0..m
    BY <1>2
  <2> QED BY <2>2, <2>3, <2>6, <2>7
<1>11. 0..m \subseteq S
  <2> HIDE DEF S
  <2> QED BY <1>2, <1>9, <1>10, BoundedInduction
<1>12. Agree(A(m), B(m), Decoder0)
  <2>1. m \in 0..m
    BY <1>2
  <2> QED BY <1>11, <2>1
<1> QED BY <1>3, <1>4, <1>12 DEF Cut, text, buf

-----------------------------------------------------------------------------
(* What holds between any two calls.                                       *)

\* The invariant holds at the start, whatever came before it.
LEMMA DecoderStart ==
  ASSUME NEW pnd, NEW src, NEW seq, NEW fs, NEW inp,
         pnd = <<>>, src = DefaultSource, seq = 0, fs = <<>>, inp = <<>>
  PROVE  /\ pnd \in Line /\ src \in Line /\ seq \in Nat /\ fs \in Seq(Frames)
         /\ inp \in Texts /\ Len(inp) <= MaxInput
         /\ pnd = Cut(inp, {"nl", "eof"}).rest
         /\ Fits(Cut(inp, {"nl", "eof"}), fs, src, seq)
<1>1. Cut(inp, {"nl", "eof"}) = NoLines
  BY CutEmpty
<1>2. pnd \in Line /\ fs \in Seq(Frames) /\ inp \in Texts
  BY DEF Line, Texts
<1>3. Len(inp) <= MaxInput
  BY StreamAssumption
<1>4. src \in Line
  BY SourceType
<1>5. Fits(NoLines, <<>>, DefaultSource, 0)
  <2>1. <<>> \in Seq(Line) /\ <<>> \in Seq(Stops) /\ <<>> \in Seq(Frames) /\ Len(<<>>) = 0
    OBVIOUS
  <2>2. NoLines.lines = <<>> /\ NoLines.stops = <<>>
    BY DEF NoLines
  <2>3. Named(NoLines, 0, DefaultSource)
    BY DEF Named
  <2> QED BY <2>1, <2>2, <2>3, SourceType DEF Fits
<1>6. NoLines.rest = <<>>
  BY DEF NoLines
<1> QED BY <1>1, <1>2, <1>3, <1>4, <1>5, <1>6

\* Every call keeps it.
LEMMA DecoderInvStep ==
  ASSUME DecoderInv, [DecoderNext]_decoderVars
  PROVE  DecoderInv'
<1> DEFINE E == {"nl", "eof"}
<1>1. ASSUME NEW chunk \in Chunks, Feed(chunk) PROVE DecoderInv'
  <2> DEFINE b == Cut(pending \o chunk, {"nl"})
             d == DecodeLines(Decoder0, b.lines)
             a == Cut(input \o chunk, E)
  <2>1. /\ Len(input) + Len(chunk) <= MaxInput
        /\ frames' = frames \o d.out /\ source' = d.source /\ sequence' = d.sequence
        /\ pending' = b.rest /\ input' = input \o chunk
    BY <1>1 DEF Feed, Decoder0
  <2>2. Agree(a, b, Decoder0)
    BY <2>1, FeedKeeps
  <2>3. chunk \in Texts /\ Len(chunk) \in Nat
    <3>1. chunk \in Seq(Lexemes)
      BY ChunkType
    <3>2. chunk \in Seq(Lexemes \cup {"eof"})
      BY <3>1, SeqMonotonic
    <3> QED BY <3>1, <3>2 DEF Texts
  <2>4. input' \in Texts /\ Len(input') <= MaxInput
    <3>1. input \in Texts
      BY DEF DecoderInv
    <3> QED BY <2>1, <2>3, <3>1, ConcatProperties DEF Texts
  <2> HIDE DEF a, b, d
  <2>5. /\ a.rest = b.rest /\ b.rest \in Line
        /\ Fits(a, frames \o d.out, d.source, d.sequence)
    BY <2>2 DEF Agree, d
  <2>6. Given' = a
    BY <2>1 DEF Given, a
  <2>7. Fits(Given', frames', source', sequence')
    BY <2>1, <2>5, <2>6
  <2>8. source' \in Line /\ frames' \in Seq(Frames) /\ sequence' \in Nat
    <3>1. /\ source' \in Line /\ frames' \in Seq(Frames)
          /\ sequence' = Len(Given'.lines) /\ Given'.lines \in Seq(Line)
      BY <2>7 DEF Fits
    <3> QED BY <3>1
  <2> QED BY <2>1, <2>4, <2>5, <2>6, <2>7, <2>8 DEF DecoderInv, DecoderTypeOK
<1>2. CASE Finish
  <2> DEFINE c == Given
             d == Cut(Append(input, "eof"), E)
             f == Frame(source, pending, FALSE, FALSE, sequence)
  <2>1. /\ Len(input) < MaxInput
        /\ frames' = Append(frames, f) /\ source' = source /\ sequence' = sequence + 1
        /\ pending' = <<>> /\ input' = Append(input, "eof")
    BY <1>2 DEF Finish
  <2>2. /\ pending \in Line /\ pending = c.rest /\ Fits(c, frames, source, sequence)
        /\ source \in Line /\ frames \in Seq(Frames) /\ sequence \in Nat
        /\ input \in Texts
    BY DEF DecoderInv, DecoderTypeOK
  <2>3. d = CutAt(c, "eof", E)
    <3>1. input \in Seq(Lexemes \cup {"eof"}) /\ "eof" \in Lexemes \cup {"eof"}
      BY <2>2 DEF Texts
    <3> QED BY <3>1, CutAppend DEF Given
  <2> HIDE DEF c, d
  <2>4. OneMore(c, d, pending, "eof") /\ d.rest = <<>>
    BY <2>2, <2>3 DEF CutAt, OneMore
  <2>5. Fits(d, Append(frames, f), source, sequence + 1)
    BY <2>2, <2>4, FitsLast
  <2>6. f \in Frames
    BY <2>2 DEF Frame, Frames
  <2> HIDE DEF f
  <2>7. frames' \in Seq(Frames) /\ source' \in Line /\ sequence' \in Nat /\ pending' \in Line
    BY <2>1, <2>2, <2>6, AppendProperties DEF Line
  <2>8. Given' = d
    BY <2>1 DEF Given, d
  <2>9. input' \in Texts /\ Len(input') <= MaxInput
    <3>1. MaxInput \in Nat /\ Len(input) \in Nat
      BY <2>2, StreamAssumption DEF Texts
    <3>2. input' \in Texts /\ Len(input') = Len(input) + 1
      BY <2>1, <2>2, AppendProperties DEF Texts
    <3> QED BY <2>1, <3>1, <3>2
  <2> QED BY <2>1, <2>4, <2>5, <2>7, <2>8, <2>9 DEF DecoderInv, DecoderTypeOK
<1>3. CASE Reset
  <2>1. pending' = <<>> /\ source' = DefaultSource /\ sequence' = 0 /\ frames' = <<>> /\ input' = <<>>
    BY <1>3 DEF Reset
  <2>2. /\ pending' \in Line /\ source' \in Line /\ sequence' \in Nat /\ frames' \in Seq(Frames)
        /\ input' \in Texts /\ Len(input') <= MaxInput
        /\ pending' = Cut(input', E).rest
        /\ Fits(Cut(input', E), frames', source', sequence')
    BY <2>1, DecoderStart
  <2> QED BY <2>2 DEF DecoderInv, DecoderTypeOK, Given
<1>4. CASE UNCHANGED decoderVars
  BY <1>4 DEF decoderVars, DecoderInv, DecoderTypeOK, Given
<1> QED BY <1>1, <1>2, <1>3, <1>4 DEF DecoderNext

\* The invariant from which the properties of a decoder follow: the frames fit the
\* lines given to feed and finish (src/stream/decoder.cpp).
THEOREM DecoderInvariant == DecoderSpec => []DecoderInv
<1>1. DecoderInit => DecoderInv
  BY DecoderStart DEF DecoderInit, DecoderInv, DecoderTypeOK, Given
<1>2. DecoderInv /\ [DecoderNext]_decoderVars => DecoderInv'
  BY DecoderInvStep
<1> QED BY <1>1, <1>2, PTL DEF DecoderSpec

\* No call leaves a newline in what is kept or returned, whatever chunks are fed.
THEOREM DecoderTypeCorrect == DecoderSpec => []DecoderTypeOK
<1>1. DecoderInv => DecoderTypeOK
  BY DEF DecoderInv
<1> QED BY <1>1, DecoderInvariant, PTL

\* The frames are those of the lines given, however the input was cut into chunks.
THEOREM ChunkingIsInvisibleHolds == DecoderSpec => []ChunkingIsInvisible
<1>1. DecoderInv => ChunkingIsInvisible
  BY DEF DecoderInv, Fits, FrameFits, ChunkingIsInvisible
<1> QED BY <1>1, DecoderInvariant, PTL

\* A frame carries its line, or the text that the number of a LEN line asks for.
THEOREM FramesCarryTheirLinesHolds == DecoderSpec => []FramesCarryTheirLines
<1>1. DecoderInv => FramesCarryTheirLines
  BY DEF DecoderInv, Fits, FrameFits, FramesCarryTheirLines
<1> QED BY <1>1, DecoderInvariant, PTL

-----------------------------------------------------------------------------
(* Messages.                                                               *)

Messaged == Seq(Seq(Line))

\* One frame more: its payload ends the last message or is a message.
LEMMA AddFrameIs ==
  ASSUME NEW ms \in Messaged, NEW f \in Frames
  PROVE  /\ AddFrame(ms, f) \in Messaged /\ FlattenSeq(ms) \in Seq(Line)
         /\ f.rotated => AddFrame(ms, f) = ms
         /\ ~f.rotated => /\ AddFrame(ms, f) # <<>>
                          /\ FlattenSeq(AddFrame(ms, f)) = Append(FlattenSeq(ms), f.payload)
                          /\ Len(AddFrame(ms, f))
                               = IF f.continuation /\ ms # <<>> THEN Len(ms) ELSE Len(ms) + 1
<1>1. /\ f.payload \in Line /\ <<f.payload>> \in Seq(Line)
  BY DEF Frames
<1>2. ms \in Seq(Seq(Line)) /\ Len(ms) \in Nat
  BY DEF Messaged
<1>3. <<>> \in Seq(Line)
  OBVIOUS
<1>4. FlattenSeq(ms) \in Seq(Line)
  BY <1>2, <1>3, FlattenAppend
<1>5. CASE f.rotated
  BY <1>2, <1>4, <1>5 DEF AddFrame, Messaged
<1>6. CASE ~f.rotated /\ f.continuation /\ ms # <<>>
  <2> DEFINE front == Front(ms)
             last == Last(ms)
             more == Append(last, f.payload)
  <2>1. front \in Seq(Seq(Line)) /\ last \in Seq(Line) /\ ms = Append(front, last)
    BY <1>2, <1>6, FrontLast
  <2>2. AddFrame(ms, f) = Append(front, more)
    BY <1>6 DEF AddFrame
  <2> HIDE DEF front, last
  <2>3. more \in Seq(Line)
    BY <1>1, <2>1, AppendProperties
  <2>4. FlattenSeq(Append(front, more)) = FlattenSeq(front) \o more
    <3> HIDE DEF more
    <3> QED BY <2>1, <2>3, FlattenAppend
  <2>5. FlattenSeq(ms) = FlattenSeq(front) \o last /\ FlattenSeq(front) \in Seq(Line)
    BY <2>1, FlattenAppend
  <2>6. FlattenSeq(front) \o more = Append(FlattenSeq(front) \o last, f.payload)
    <3> DEFINE flat == FlattenSeq(front)
    <3>1. flat \in Seq(Line) /\ last \in Seq(Line) /\ f.payload \in Line
      BY <1>1, <2>1, <2>5
    <3> HIDE DEF flat
    <3>2. flat \o Append(last, f.payload) = Append(flat \o last, f.payload)
      BY <3>1, ConcatAppend
    <3> QED BY <3>2 DEF flat
  <2> HIDE DEF more
  <2>7. /\ Append(front, more) \in Seq(Seq(Line)) /\ Append(front, more) # <<>>
        /\ Len(Append(front, more)) = Len(ms)
    <3>1. Len(ms) = Len(front) + 1
      BY <2>1, AppendProperties
    <3>2. /\ Append(front, more) \in Seq(Seq(Line)) /\ Append(front, more) # <<>>
          /\ Len(Append(front, more)) = Len(front) + 1
      BY <2>1, <2>3, AppendProperties
    <3> QED BY <3>1, <3>2
  <2> QED BY <1>4, <1>6, <2>2, <2>4, <2>5, <2>6, <2>7 DEF Messaged
<1>7. CASE ~f.rotated /\ ~(f.continuation /\ ms # <<>>)
  <2>1. AddFrame(ms, f) = Append(ms, <<f.payload>>)
    BY <1>7 DEF AddFrame
  <2>2. FlattenSeq(Append(ms, <<f.payload>>)) = FlattenSeq(ms) \o <<f.payload>>
    BY <1>1, <1>2, FlattenAppend
  <2>3. FlattenSeq(ms) \o <<f.payload>> = Append(FlattenSeq(ms), f.payload)
    BY <1>1, <1>4, AppendIsConcat
  <2>4. /\ Append(ms, <<f.payload>>) \in Seq(Seq(Line)) /\ Append(ms, <<f.payload>>) # <<>>
        /\ Len(Append(ms, <<f.payload>>)) = Len(ms) + 1
    BY <1>1, <1>2, AppendProperties
  <2> QED BY <1>4, <1>7, <2>1, <2>2, <2>3, <2>4 DEF Messaged
<1> QED BY <1>5, <1>6, <1>7

\* Messages grow frame after frame.
LEMMA MessagesLoop ==
  ASSUME NEW fs \in Seq(Frames)
  PROVE  /\ MessagesTo(fs, 0) = <<>>
         /\ \A i \in 1..Len(fs) : MessagesTo(fs, i) = AddFrame(MessagesTo(fs, i - 1), fs[i])
         /\ \A i \in 0..Len(fs) : MessagesTo(fs, i) \in Messaged
<1> DEFINE n == Len(fs)
           D == 0..n
           V == Messaged
           first == <<>>
           turn(v, i) == IF i = 0 THEN first ELSE AddFrame(v, fs[i])
           step == [p \in V \X D |-> turn(p[1], p[2])]
           turns(f) == [i \in 0..n |-> IF i = 0 THEN first ELSE AddFrame(f[i - 1], fs[i])]
           f == CHOOSE h : h = turns(h)
<1>1. n \in Nat /\ 0 \in D /\ \A i \in 1..n : i - 1 \in D /\ i \in D \ {0} /\ fs[i] \in Frames
  OBVIOUS
<1>2. first \in V
  BY DEF Messaged
<1>3. \A v \in V : \A i \in 1..n : AddFrame(v, fs[i]) \in V
  BY <1>1, AddFrameIs
<1>4. step \in [V \X D -> V]
  <2>1. ASSUME NEW v \in V, NEW i \in D PROVE turn(v, i) \in V
    <3>1. i # 0 => i \in 1..n
      BY <1>1
    <3> HIDE DEF V, first
    <3> QED BY <1>2, <1>3, <3>1
  <2> HIDE DEF turn, V, D
  <2> QED BY <2>1
<1>5. PICK g \in [D -> V] : Loop(g, D, first, step)
  <2>1. D \in Counts
    BY <1>1, CountsAre
  <2> HIDE DEF step, D, V, first
  <2> QED BY <1>2, <1>4, <2>1, LoopExists
<1>6. ASSUME NEW i \in D \ {0} PROVE g[i] = AddFrame(g[i - 1], fs[i])
  <2>1. i - 1 \in D
    BY <1>1
  <2>2. step[<<g[i - 1], i>>] = turn(g[i - 1], i)
    <3> HIDE DEF turn, V
    <3> QED BY <2>1
  <2>3. turn(g[i - 1], i) = AddFrame(g[i - 1], fs[i])
    OBVIOUS
  <2> HIDE DEF step, V, D, turn, first
  <2> QED BY <1>5, <2>2, <2>3 DEF Loop
<1>7. g = turns(g)
  <2>1. g[0] = first
    BY <1>5 DEF Loop
  <2> HIDE DEF first, V
  <2> QED BY <1>6, <2>1
<1>8. f = turns(f)
  <2> HIDE DEF turns
  <2> QED BY <1>7
<1>9. \A k \in D : MessagesTo(fs, k) = f[k]
  BY DEF MessagesTo
<1> HIDE DEF f
<1>10. f[0] = first /\ \A i \in 1..n : f[i] = AddFrame(f[i - 1], fs[i])
  <2> HIDE DEF first, V
  <2>1. \A i \in 1..n : i \in 0..n /\ i # 0
    BY <1>1
  <2> QED BY <1>1, <1>8, <2>1
<1> DEFINE S == {i \in D : f[i] \in V}
<1>11. 0 \in S
  <2> HIDE DEF first, V
  <2> QED BY <1>1, <1>2, <1>10
<1>12. \A i \in 1..n : i - 1 \in S => i \in S
  <2> HIDE DEF first, V
  <2> QED BY <1>1, <1>3, <1>10
<1>13. 0..n \subseteq S
  <2> HIDE DEF S
  <2> QED BY <1>1, <1>11, <1>12, BoundedInduction
<1>14. \A k \in 0..n : f[k] \in V
  BY <1>13
<1>15. \A i \in 1..n : i - 1 \in 0..n /\ i \in 0..n
  BY <1>1
<1> HIDE DEF V, first, n
<1> QED BY <1>1, <1>9, <1>10, <1>14, <1>15 DEF V, first, n

\* A payload more, unless the frame is a header.
AddPayload(payloads, f) == IF f.rotated THEN payloads ELSE Append(payloads, f.payload)

\* Payloads are lines.
LEMMA AddPayloadType ==
  ASSUME NEW ps \in Seq(Line), NEW f \in Frames
  PROVE  AddPayload(ps, f) \in Seq(Line)
<1>1. f.payload \in Line
  BY DEF Frames
<1>2. Append(ps, f.payload) \in Seq(Line)
  BY <1>1, AppendProperties
<1> QED BY <1>2 DEF AddPayload

\* So do the payloads.
LEMMA PayloadsLoop ==
  ASSUME NEW fs \in Seq(Frames)
  PROVE  /\ Payloads(fs, 0) = <<>>
         /\ \A i \in 1..Len(fs) : Payloads(fs, i) = AddPayload(Payloads(fs, i - 1), fs[i])
         /\ \A i \in 0..Len(fs) : Payloads(fs, i) \in Seq(Line)
<1> DEFINE n == Len(fs)
           D == 0..n
           V == Seq(Line)
           first == <<>>
           turn(v, i) == IF i = 0 THEN first ELSE AddPayload(v, fs[i])
           step == [p \in V \X D |-> turn(p[1], p[2])]
           turns(f) == [i \in 0..n |-> IF i = 0 THEN first ELSE AddPayload(f[i - 1], fs[i])]
           f == CHOOSE h : h = turns(h)
<1>1. n \in Nat /\ 0 \in D /\ \A i \in 1..n : i - 1 \in D /\ i \in D \ {0} /\ fs[i] \in Frames
  OBVIOUS
<1>2. first \in V
  OBVIOUS
<1>3. \A v \in V : \A i \in 1..n : AddPayload(v, fs[i]) \in V
  BY <1>1, AddPayloadType
<1>4. step \in [V \X D -> V]
  <2>1. ASSUME NEW v \in V, NEW i \in D PROVE turn(v, i) \in V
    <3>1. i # 0 => i \in 1..n
      BY <1>1
    <3> HIDE DEF V, first
    <3> QED BY <1>2, <1>3, <3>1
  <2> HIDE DEF turn, V, D
  <2> QED BY <2>1
<1>5. PICK g \in [D -> V] : Loop(g, D, first, step)
  <2>1. D \in Counts
    BY <1>1, CountsAre
  <2> HIDE DEF step, D, V, first
  <2> QED BY <1>2, <1>4, <2>1, LoopExists
<1>6. ASSUME NEW i \in D \ {0} PROVE g[i] = AddPayload(g[i - 1], fs[i])
  <2>1. i - 1 \in D
    BY <1>1
  <2>2. step[<<g[i - 1], i>>] = turn(g[i - 1], i)
    <3> HIDE DEF turn, V
    <3> QED BY <2>1
  <2>3. turn(g[i - 1], i) = AddPayload(g[i - 1], fs[i])
    OBVIOUS
  <2> HIDE DEF step, V, D, turn, first
  <2> QED BY <1>5, <2>2, <2>3 DEF Loop
<1>7. g = turns(g)
  <2>1. g[0] = first
    BY <1>5 DEF Loop
  <2> HIDE DEF first, V
  <2> QED BY <1>6, <2>1
<1>8. f = turns(f)
  <2> HIDE DEF turns
  <2> QED BY <1>7
<1>9. \A k \in D : Payloads(fs, k) = f[k]
  BY DEF Payloads, AddPayload
<1> HIDE DEF f
<1>10. f[0] = first /\ \A i \in 1..n : f[i] = AddPayload(f[i - 1], fs[i])
  <2> HIDE DEF first, V
  <2>1. \A i \in 1..n : i \in 0..n /\ i # 0
    BY <1>1
  <2> QED BY <1>1, <1>8, <2>1
<1> DEFINE S == {i \in D : f[i] \in V}
<1>11. 0 \in S
  <2> HIDE DEF first, V
  <2> QED BY <1>1, <1>2, <1>10
<1>12. \A i \in 1..n : i - 1 \in S => i \in S
  <2> HIDE DEF first, V
  <2> QED BY <1>1, <1>3, <1>10
<1>13. 0..n \subseteq S
  <2> HIDE DEF S
  <2> QED BY <1>1, <1>11, <1>12, BoundedInduction
<1>14. \A k \in 0..n : f[k] \in V
  BY <1>13
<1>15. \A i \in 1..n : i - 1 \in 0..n /\ i \in 0..n
  BY <1>1
<1> HIDE DEF V, first, n
<1> QED BY <1>1, <1>9, <1>10, <1>14, <1>15 DEF V, first, n

\* The frames up to n that continue nothing.
Starting(fs, n) == {j \in 1..n : Starts(fs, j)}

\* After n frames: every payload is in a message, and the messages are as many as
\* the frames that continue nothing.
Kept(fs, n) ==
  LET ms == MessagesTo(fs, n) IN
  /\ FlattenSeq(ms) = Payloads(fs, n)
  /\ IsFiniteSet(Starting(fs, n)) /\ Len(ms) = Cardinality(Starting(fs, n))
  /\ ms = <<>> <=> \A j \in 1..n : fs[j].rotated

\* Frame after frame.
LEMMA MessagesKeep ==
  ASSUME NEW fs \in Seq(Frames)
  PROVE  Kept(fs, Len(fs))
<1> DEFINE n == Len(fs)
           S == {k \in 0..n : Kept(fs, k)}
<1>1. n \in Nat /\ \A i \in 1..n : fs[i] \in Frames /\ i \in Nat /\ i - 1 \in 0..n
  OBVIOUS
<1>2. 0 \in S
  <2>1. MessagesTo(fs, 0) = <<>> /\ Payloads(fs, 0) = <<>>
    BY MessagesLoop, PayloadsLoop
  <2>2. Starting(fs, 0) = {}
    BY DEF Starting
  <2>3. IsFiniteSet({}) /\ Cardinality({}) = 0
    BY FS_EmptySet
  <2>4. Len(<<>>) = 0 /\ \A j \in 1..0 : fs[j].rotated
    OBVIOUS
  <2>5. Kept(fs, 0)
    BY <2>1, <2>2, <2>3, <2>4, FlattenEmpty DEF Kept
  <2> QED BY <1>1, <2>5
<1>3. ASSUME NEW i \in 1..n, i - 1 \in S PROVE i \in S
  <2> DEFINE ms == MessagesTo(fs, i - 1)
             new == MessagesTo(fs, i)
             f == fs[i]
             old == Starting(fs, i - 1)
             all == Starting(fs, i)
  <2>1. ms \in Messaged /\ new = AddFrame(ms, f) /\ f \in Frames
    BY <1>1, MessagesLoop
  <2>2. Payloads(fs, i) = AddPayload(Payloads(fs, i - 1), f)
    BY PayloadsLoop
  <2>3. /\ FlattenSeq(ms) = Payloads(fs, i - 1)
        /\ IsFiniteSet(old) /\ Len(ms) = Cardinality(old)
        /\ ms = <<>> <=> \A j \in 1..(i - 1) : fs[j].rotated
    BY <1>3 DEF Kept
  <2>4. \A j : j \in 1..i <=> j \in 1..(i - 1) \/ j = i
    BY <1>1
  <2>5. i \notin old
    BY <1>1 DEF Starting
  <2>6. all = IF Starts(fs, i) THEN old \cup {i} ELSE old
    BY <2>4 DEF Starting
  <2>7. Starts(fs, i) <=> ~f.rotated /\ ~(f.continuation /\ ms # <<>>)
    BY <2>3 DEF Starts
  <2>8. (\A j \in 1..i : fs[j].rotated) <=> f.rotated /\ \A j \in 1..(i - 1) : fs[j].rotated
    BY <2>4
  <2>9. IsFiniteSet(old \cup {i}) /\ Cardinality(old \cup {i}) = Cardinality(old) + 1
    <3> HIDE DEF old
    <3> QED BY <2>3, <2>5, FS_AddElement
  <2>10. i \in 0..n
    BY <1>1
  <2> HIDE DEF ms, new, f, old, all
  <2>11. CASE f.rotated
    <3>1. new = ms /\ all = old
      BY <2>1, <2>6, <2>7, <2>11, AddFrameIs
    <3>2. Payloads(fs, i) = Payloads(fs, i - 1)
      BY <2>2, <2>11 DEF AddPayload
    <3>3. Kept(fs, i)
      BY <2>3, <2>8, <2>11, <3>1, <3>2 DEF Kept, new, ms, all, old
    <3> QED BY <2>10, <3>3
  <2>12. CASE ~f.rotated
    <3>1. /\ new # <<>> /\ FlattenSeq(new) = Append(FlattenSeq(ms), f.payload)
          /\ Len(new) = IF f.continuation /\ ms # <<>> THEN Len(ms) ELSE Len(ms) + 1
      BY <2>1, <2>12, AddFrameIs
    <3>2. FlattenSeq(new) = Payloads(fs, i)
      BY <2>2, <2>3, <2>12, <3>1 DEF AddPayload
    <3>3. IsFiniteSet(all) /\ Len(new) = Cardinality(all)
      BY <2>3, <2>6, <2>7, <2>9, <2>12, <3>1
    <3>4. new = <<>> <=> \A j \in 1..i : fs[j].rotated
      BY <2>8, <2>12, <3>1
    <3>5. Kept(fs, i)
      BY <3>2, <3>3, <3>4 DEF Kept, new, all
    <3> QED BY <2>10, <3>5
  <2> QED BY <2>11, <2>12
<1>4. 0..n \subseteq S
  <2> HIDE DEF S
  <2> QED BY <1>1, <1>2, <1>3, BoundedInduction
<1>5. n \in 0..n
  BY <1>1
<1> QED BY <1>4, <1>5

\* reconstruct_messages keeps every payload, in order, and breaks messages exactly
\* before the frames that continue nothing.
THEOREM MessagesKeepPayloadsHolds == DecoderSpec => []MessagesKeepPayloads
<1>1. DecoderInv => MessagesKeepPayloads
  <2>1. DecoderInv => frames \in Seq(Frames)
    BY DEF DecoderInv, DecoderTypeOK
  <2>2. frames \in Seq(Frames) => Kept(frames, Len(frames))
    BY MessagesKeep
  <2> QED BY <2>1, <2>2 DEF MessagesKeepPayloads, Kept, Messages, Starting
<1> QED BY <1>1, DecoderInvariant, PTL

-----------------------------------------------------------------------------
(* Lines and the text they make.                                           *)

Chars == Lexemes \cup {"nl"}
NL == {"nl"}

\* What holds of <<>> and of one element more holds of every sequence.
LEMMA AppendInduction ==
  ASSUME NEW C, NEW S, <<>> \in S,
         \A s \in Seq(C), e \in C : s \in S => Append(s, e) \in S
  PROVE  Seq(C) \subseteq S
<1> DEFINE T == {n \in Nat : \A s \in Seq(C) : Len(s) = n => s \in S}
<1>1. 0 \in T
  <2>1. \A s \in Seq(C) : Len(s) = 0 => s = <<>>
    BY EmptySeq
  <2> QED BY <2>1
<1>2. ASSUME NEW n \in Nat, n \in T PROVE n + 1 \in T
  <2> SUFFICES ASSUME NEW s \in Seq(C), Len(s) = n + 1 PROVE s \in S
    OBVIOUS
  <2>1. s # <<>>
    OBVIOUS
  <2>2. Front(s) \in Seq(C) /\ Last(s) \in C /\ s = Append(Front(s), Last(s))
    BY <2>1, FrontLast
  <2> DEFINE t == Front(s)
             e == Last(s)
  <2>3. t \in Seq(C) /\ e \in C /\ s = Append(t, e)
    BY <2>2
  <2> HIDE DEF t, e
  <2>4. Len(s) = Len(t) + 1 /\ Len(t) \in Nat
    BY <2>3, AppendProperties
  <2>5. t \in S
    BY <1>2, <2>3, <2>4
  <2> QED BY <2>3, <2>5
<1>3. Nat \subseteq T
  <2> HIDE DEF T
  <2> QED BY <1>1, <1>2, SetInduction
<1>4. ASSUME NEW s \in Seq(C) PROVE s \in S
  <2>1. Len(s) \in T
    BY <1>3
  <2> QED BY <2>1
<1> QED BY <1>4

\* Every line gets its newline.
Ended(lines) == [i \in 1..Len(lines) |-> Append(lines[i], "nl")]
Joined(lines) == FlattenSeq(Ended(lines))

\* A line is text, also with its newline.
LEMMA EndedLine ==
  ASSUME NEW line \in Line
  PROVE  line \in Seq(Chars) /\ Append(line, "nl") \in Seq(Chars)
<1>1. line \in Seq(Chars)
  <2>1. line \in Seq(Lexemes \ {"nl"}) /\ Lexemes \ {"nl"} \subseteq Chars
    BY DEF Line, Chars
  <2> QED BY <2>1, SeqMonotonic
<1>2. "nl" \in Chars
  BY DEF Chars
<1> QED BY <1>1, <1>2, AppendProperties

\* No lines make no text.
LEMMA JoinedEmpty == Joined(<<>>) = <<>>
<1>1. Ended(<<>>) = <<>>
  BY DEF Ended
<1> QED BY <1>1, FlattenEmpty DEF Joined

\* One line more.
LEMMA JoinedAppend ==
  ASSUME NEW lines \in Seq(Line), NEW line \in Line
  PROVE  /\ Joined(lines) \in Seq(Chars)
         /\ Joined(Append(lines, line)) = Joined(lines) \o Append(line, "nl")
<1> DEFINE more == Append(lines, line)
           end == Append(line, "nl")
           n == Len(lines)
<1>1. n \in Nat /\ end \in Seq(Chars)
  BY EndedLine
<1>2. /\ more \in Seq(Line) /\ Len(more) = n + 1 /\ more[n + 1] = line
      /\ \A i \in 1..n : more[i] = lines[i]
  BY AppendProperties
<1>3. Ended(lines) \in Seq(Seq(Chars)) /\ Len(Ended(lines)) = n
  <2>1. \A i \in 1..n : Append(lines[i], "nl") \in Seq(Chars)
    BY EndedLine
  <2>2. Ended(lines) \in [1..n -> Seq(Chars)]
    BY <2>1 DEF Ended
  <2> QED BY <1>1, <2>2
<1> HIDE DEF more, end
<1>4. Ended(more) = Append(Ended(lines), end)
  <2> DEFINE a == Ended(more)
             e == Ended(lines)
             b == Append(e, end)
  <2>1. /\ b \in Seq(Seq(Chars)) /\ Len(b) = n + 1 /\ b[n + 1] = end
        /\ \A i \in 1..n : b[i] = e[i]
    <3>1. e \in Seq(Seq(Chars)) /\ Len(e) = n
      BY <1>3
    <3> HIDE DEF e
    <3> QED BY <1>1, <3>1, AppendProperties
  <2>2. a = [i \in 1..(n + 1) |-> Append(more[i], "nl")]
    BY <1>2 DEF Ended
  <2>3. \A i \in 1..(n + 1) : a[i] \in Seq(Chars)
    <3>1. \A i \in 1..(n + 1) : more[i] \in Line
      BY <1>2
    <3> QED BY <2>2, <3>1, EndedLine
  <2>4. a \in [1..(n + 1) -> Seq(Chars)]
    BY <2>2, <2>3
  <2>5. n + 1 \in Nat
    BY <1>1
  <2>6. a \in Seq(Seq(Chars)) /\ Len(a) = n + 1
    <3> HIDE DEF a, n
    <3> QED BY <2>4, <2>5
  <2>7. \A i \in 1..n : a[i] = e[i]
    <3>1. \A i \in 1..n : i \in 1..(n + 1)
      BY <1>1
    <3>2. \A i \in 1..n : e[i] = Append(lines[i], "nl")
      BY DEF Ended
    <3> QED BY <1>2, <2>2, <3>1, <3>2
  <2>8. a[n + 1] = end
    BY <1>1, <1>2, <2>2 DEF end
  <2> HIDE DEF a, b, e
  <2>9. \A i \in 1..(n + 1) : a[i] = b[i]
    <3>1. \A i \in 1..(n + 1) : i = n + 1 \/ i \in 1..n
      BY <1>1
    <3> QED BY <2>1, <2>7, <2>8, <3>1
  <2>10. a = b
    <3>1. Len(a) = Len(b) /\ \A i \in 1..Len(a) : a[i] = b[i]
      BY <2>1, <2>6, <2>9
    <3> QED BY <2>1, <2>6, <3>1, SeqEqual
  <2> QED BY <2>10 DEF a, b, e
<1>5. /\ FlattenSeq(Ended(lines)) \in Seq(Chars)
      /\ FlattenSeq(Append(Ended(lines), end)) = FlattenSeq(Ended(lines)) \o end
  <2> DEFINE e == Ended(lines)
  <2>1. e \in Seq(Seq(Chars))
    BY <1>3
  <2> HIDE DEF e
  <2>2. FlattenSeq(e) \in Seq(Chars) /\ FlattenSeq(Append(e, end)) = FlattenSeq(e) \o end
    BY <1>1, <2>1, FlattenAppend
  <2> QED BY <2>2 DEF e
<1> QED BY <1>4, <1>5 DEF Joined, more, end

\* A text is its lines with their newlines, and the rest.
CutsBack(t) ==
  LET c == Cut(t, NL) IN
  /\ c.lines \in Seq(Line) /\ c.rest \in Line
  /\ t = Joined(c.lines) \o c.rest
  /\ c.rest = <<>> <=> t = <<>> \/ Last(t) = "nl"

\* Lexeme after lexeme.
LEMMA CutBack ==
  ASSUME NEW text \in Seq(Chars)
  PROVE  CutsBack(text)
<1> DEFINE S == {t \in Seq(Chars) : CutsBack(t)}
<1>1. <<>> \in S
  <2>1. Cut(<<>>, NL) = NoLines
    BY CutEmpty
  <2>2. NoLines.lines = <<>> /\ NoLines.rest = <<>>
    BY DEF NoLines
  <2>3. <<>> \in Seq(Line) /\ <<>> \in Line /\ <<>> \o <<>> = <<>> /\ <<>> \in Seq(Chars)
    BY DEF Line
  <2>4. CutsBack(<<>>)
    BY <2>1, <2>2, <2>3, JoinedEmpty DEF CutsBack
  <2> QED BY <2>3, <2>4
<1>2. ASSUME NEW t \in Seq(Chars), NEW x \in Chars, t \in S PROVE Append(t, x) \in S
  <2> DEFINE c == Cut(t, NL)
             d == Cut(Append(t, x), NL)
             more == Append(t, x)
  <2>1. c.lines \in Seq(Line) /\ c.rest \in Line /\ t = Joined(c.lines) \o c.rest
    BY <1>2 DEF CutsBack
  <2>2. d = CutAt(c, x, NL)
    BY CutAppend
  <2>3. more \in Seq(Chars) /\ more # <<>> /\ Last(more) = x
    BY AppendProperties, FrontLastAppend
  <2>4. c.rest \in Seq(Chars) /\ Joined(c.lines) \in Seq(Chars)
    <3>1. <<>> \in Line
      BY DEF Line
    <3> QED BY <2>1, <3>1, EndedLine, JoinedAppend
  <2> DEFINE joined == Joined(c.lines)
             rest == c.rest
             lines == c.lines
  <2>5. more = joined \o Append(rest, x)
    <3>1. joined \in Seq(Chars) /\ rest \in Seq(Chars) /\ t = joined \o rest
      BY <2>1, <2>4
    <3> HIDE DEF joined, rest
    <3> QED BY <3>1, ConcatAppend
  <2>6. CASE x = "nl"
    <3>1. d.lines = Append(lines, rest) /\ d.rest = <<>>
      BY <2>2, <2>6 DEF CutAt, NL
    <3>2. lines \in Seq(Line) /\ rest \in Line
      BY <2>1
    <3> HIDE DEF c, d, lines, rest
    <3>3. Joined(Append(lines, rest)) = Joined(lines) \o Append(rest, "nl")
      BY <3>2, JoinedAppend
    <3>4. Append(lines, rest) \in Seq(Line) /\ <<>> \in Line
      BY <3>2, AppendProperties DEF Line
    <3>5. Joined(d.lines) = more
      <4> HIDE DEF more
      <4> QED BY <2>5, <2>6, <3>1, <3>3 DEF joined, lines
    <3>6. more \o <<>> = more
      BY <2>3, ConcatEmptySeq
    <3>7. d.lines \in Seq(Line) /\ d.rest \in Line
      BY <3>1, <3>4
    <3>8. CutsBack(more)
      <4> HIDE DEF more
      <4>1. Cut(more, NL) = d
        BY DEF d, more
      <4> QED BY <2>3, <2>6, <3>1, <3>5, <3>6, <3>7, <4>1 DEF CutsBack
    <3> QED BY <2>3, <3>8
  <2>7. CASE x # "nl"
    <3>1. d.lines = lines /\ d.rest = Append(rest, x)
      BY <2>2, <2>7 DEF CutAt, NL
    <3>2. lines \in Seq(Line) /\ rest \in Line
      BY <2>1
    <3> HIDE DEF c, d, lines, rest
    <3>3. Append(rest, x) \in Line /\ Append(rest, x) # <<>>
      <4>1. rest \in Seq(Lexemes \ {"nl"}) /\ x \in Lexemes \ {"nl"}
        BY <2>7, <3>2 DEF Line, Chars
      <4> QED BY <4>1, AppendProperties DEF Line
    <3>4. more = Joined(d.lines) \o d.rest
      <4> HIDE DEF more
      <4> QED BY <2>5, <3>1 DEF joined, lines
    <3>5. CutsBack(more)
      <4> HIDE DEF more
      <4>1. Cut(more, NL) = d
        BY DEF d, more
      <4> QED BY <2>3, <2>7, <3>1, <3>2, <3>3, <3>4, <4>1 DEF CutsBack
    <3> QED BY <2>3, <3>5
  <2> QED BY <2>6, <2>7
<1>3. Seq(Chars) \subseteq S
  <2> HIDE DEF S
  <2> QED BY <1>1, <1>2, AppendInduction
<1> QED BY <1>3

\* A line more, behind a text that ends in a newline.
LEMMA CutLine ==
  ASSUME NEW t \in Seq(Chars), Cut(t, NL).rest = <<>>, NEW line \in Line
  PROVE  /\ Cut(t \o Append(line, "nl"), NL).lines = Append(Cut(t, NL).lines, line)
         /\ Cut(t \o Append(line, "nl"), NL).rest = <<>>
<1> DEFINE c == Cut(t, NL)
           C == Lexemes \ {"nl"}
           S == {s \in Seq(C) : Cut(t \o s, NL).lines = c.lines /\ Cut(t \o s, NL).rest = s}
<1>1. <<>> \in S
  <2>1. t \o <<>> = t
    BY ConcatEmptySeq
  <2> QED BY <2>1
<1>2. ASSUME NEW s \in Seq(C), NEW x \in C, s \in S PROVE Append(s, x) \in S
  <2> DEFINE d == Cut(t \o s, NL)
             e == Cut(Append(t \o s, x), NL)
  <2>1. s \in Seq(Chars) /\ x \in Chars /\ x \notin NL
    <3>1. C \subseteq Chars
      BY DEF Chars
    <3> QED BY <3>1, SeqMonotonic DEF NL
  <2>2. t \o s \in Seq(Chars)
    BY <2>1, ConcatProperties
  <2>3. t \o Append(s, x) = Append(t \o s, x)
    BY <2>1, ConcatAppend
  <2>4. e = CutAt(d, x, NL)
    <3> DEFINE u == t \o s
    <3>1. u \in Seq(Chars) /\ x \in Chars
      BY <2>1, <2>2
    <3> HIDE DEF u
    <3>2. Cut(Append(u, x), NL) = CutAt(Cut(u, NL), x, NL)
      BY <3>1, CutAppend
    <3> QED BY <3>2 DEF u
  <2>5. d.lines = c.lines /\ d.rest = s
    BY <1>2
  <2>6. Append(s, x) \in Seq(C)
    BY AppendProperties
  <2> HIDE DEF d, c
  <2>7. e.lines = c.lines /\ e.rest = Append(s, x)
    <3> HIDE DEF e
    <3> QED BY <2>1, <2>4, <2>5 DEF CutAt
  <2> QED BY <2>3, <2>6, <2>7
<1>3. Seq(C) \subseteq S
  <2> HIDE DEF S
  <2> QED BY <1>1, <1>2, AppendInduction
<1> DEFINE d == Cut(t \o line, NL)
           e == Cut(Append(t \o line, "nl"), NL)
<1>4. d.lines = c.lines /\ d.rest = line
  <2>1. line \in S
    BY <1>3 DEF Line
  <2> QED BY <2>1
<1>5. line \in Seq(Chars) /\ "nl" \in Chars /\ t \o line \in Seq(Chars)
  <2>1. line \in Seq(Chars)
    BY EndedLine
  <2> QED BY <2>1, ConcatProperties DEF Chars
<1>6. t \o Append(line, "nl") = Append(t \o line, "nl")
  BY <1>5, ConcatAppend
<1>7. e = CutAt(d, "nl", NL)
  BY <1>5, CutAppend
<1>8. e.lines = Append(c.lines, line) /\ e.rest = <<>>
  <2> HIDE DEF d, c, e
  <2> QED BY <1>4, <1>7 DEF CutAt, NL
<1> QED BY <1>6, <1>8

\* The lines of joined lines are those lines.
LEMMA CutJoined ==
  ASSUME NEW lines \in Seq(Line)
  PROVE  Cut(Joined(lines), NL).lines = lines /\ Cut(Joined(lines), NL).rest = <<>>
<1> DEFINE S == {ls \in Seq(Line) : Cut(Joined(ls), NL).lines = ls /\ Cut(Joined(ls), NL).rest = <<>>}
<1>1. <<>> \in S
  <2>1. Cut(Joined(<<>>), NL) = NoLines
    BY CutEmpty, JoinedEmpty
  <2> QED BY <2>1 DEF NoLines
<1>2. ASSUME NEW ls \in Seq(Line), NEW line \in Line, ls \in S PROVE Append(ls, line) \in S
  <2> DEFINE t == Joined(ls)
  <2>1. t \in Seq(Chars) /\ Joined(Append(ls, line)) = t \o Append(line, "nl")
    BY JoinedAppend
  <2>2. Cut(t, NL).lines = ls /\ Cut(t, NL).rest = <<>>
    BY <1>2
  <2> HIDE DEF t
  <2>3. /\ Cut(t \o Append(line, "nl"), NL).lines = Append(ls, line)
        /\ Cut(t \o Append(line, "nl"), NL).rest = <<>>
    BY <2>1, <2>2, CutLine
  <2>4. Append(ls, line) \in Seq(Line)
    BY AppendProperties
  <2> QED BY <2>1, <2>3, <2>4
<1>3. Seq(Line) \subseteq S
  <2> HIDE DEF S
  <2> QED BY <1>1, <1>2, AppendInduction
<1> QED BY <1>3

-----------------------------------------------------------------------------
(* Segments.                                                               *)

Segmented == Seq(Seq(Chars))

\* A line more starts a segment or ends the last one.
Extends(segments, line) == ~(StartsHeader(line) \/ segments = <<>>)

\* It ends with the line and its newline in any case.
LEMMA AddLineIs ==
  ASSUME NEW ss \in Segmented, NEW line \in Line
  PROVE  /\ AddLine(ss, line) \in Segmented /\ AddLine(ss, line) # <<>>
         /\ FlattenSeq(AddLine(ss, line)) = FlattenSeq(ss) \o Append(line, "nl")
         /\ ~Extends(ss, line) => AddLine(ss, line) = Append(ss, Append(line, "nl"))
         /\ Extends(ss, line) =>
              AddLine(ss, line) = Append(Front(ss), Last(ss) \o Append(line, "nl"))
<1> DEFINE end == Append(line, "nl")
           more == AddLine(ss, line)
<1>1. end \in Seq(Chars) /\ ss \in Seq(Seq(Chars))
  BY EndedLine DEF Segmented
<1>2. CASE ~Extends(ss, line)
  <2>1. more = Append(ss, end)
    BY <1>2 DEF AddLine, Extends
  <2> HIDE DEF end, more
  <2>2. more \in Seq(Seq(Chars)) /\ more # <<>>
    BY <1>1, <2>1, AppendProperties
  <2>3. FlattenSeq(more) = FlattenSeq(ss) \o end
    BY <1>1, <2>1, FlattenAppend
  <2> QED BY <1>2, <2>1, <2>2, <2>3 DEF Segmented, end, more
<1>3. CASE Extends(ss, line)
  <2> DEFINE front == Front(ss)
             last == Last(ss)
             grown == last \o end
  <2>1. more = Append(front, grown) /\ ss # <<>>
    BY <1>3 DEF AddLine, Extends
  <2>2. front \in Seq(Seq(Chars)) /\ last \in Seq(Chars) /\ ss = Append(front, last)
    BY <1>1, <2>1, FrontLast
  <2> HIDE DEF end, more, front, last
  <2>3. grown \in Seq(Chars)
    BY <1>1, <2>2, ConcatProperties
  <2> DEFINE flat == FlattenSeq(front)
  <2>4. flat \in Seq(Chars) /\ FlattenSeq(ss) = flat \o last
    BY <2>2, FlattenAppend
  <2> HIDE DEF grown
  <2>5. FlattenSeq(more) = flat \o grown
    BY <2>1, <2>2, <2>3, FlattenAppend
  <2> HIDE DEF flat
  <2>6. flat \o grown = (flat \o last) \o end
    <3>1. flat \in Seq(Chars) /\ last \in Seq(Chars) /\ end \in Seq(Chars)
      BY <1>1, <2>2, <2>4
    <3>2. (flat \o last) \o end = flat \o (last \o end)
      BY ONLY <3>1, ConcatAssociative
    <3> QED BY <3>2 DEF grown
  <2>7. more \in Seq(Seq(Chars)) /\ more # <<>>
    BY <2>1, <2>2, <2>3, AppendProperties
  <2>8. FlattenSeq(more) = FlattenSeq(ss) \o end
    BY <2>4, <2>5, <2>6
  <2> QED BY <1>3, <2>1, <2>7, <2>8 DEF Segmented, end, more, front, last, grown
<1> QED BY <1>2, <1>3

\* Segments grow line after line.
LEMMA SegmentsLoop ==
  ASSUME NEW lines \in Seq(Line)
  PROVE  /\ SegmentsTo(lines, 0) = <<>>
         /\ \A i \in 1..Len(lines) : SegmentsTo(lines, i) = AddLine(SegmentsTo(lines, i - 1), lines[i])
         /\ \A i \in 0..Len(lines) : SegmentsTo(lines, i) \in Segmented
<1> DEFINE n == Len(lines)
           D == 0..n
           V == Segmented
           first == <<>>
           turn(v, i) == IF i = 0 THEN first ELSE AddLine(v, lines[i])
           step == [p \in V \X D |-> turn(p[1], p[2])]
           turns(f) == [i \in 0..n |-> IF i = 0 THEN first ELSE AddLine(f[i - 1], lines[i])]
           f == CHOOSE h : h = turns(h)
<1>1. n \in Nat /\ 0 \in D /\ \A i \in 1..n : i - 1 \in D /\ i \in D \ {0} /\ lines[i] \in Line
  OBVIOUS
<1>2. first \in V
  BY DEF Segmented
<1>3. \A v \in V : \A i \in 1..n : AddLine(v, lines[i]) \in V
  BY <1>1, AddLineIs
<1>4. step \in [V \X D -> V]
  <2>1. ASSUME NEW v \in V, NEW i \in D PROVE turn(v, i) \in V
    <3>1. i # 0 => i \in 1..n
      BY <1>1
    <3> HIDE DEF V, first
    <3> QED BY <1>2, <1>3, <3>1
  <2> HIDE DEF turn, V, D
  <2> QED BY <2>1
<1>5. PICK g \in [D -> V] : Loop(g, D, first, step)
  <2>1. D \in Counts
    BY <1>1, CountsAre
  <2> HIDE DEF step, D, V, first
  <2> QED BY <1>2, <1>4, <2>1, LoopExists
<1>6. ASSUME NEW i \in D \ {0} PROVE g[i] = AddLine(g[i - 1], lines[i])
  <2>1. i - 1 \in D
    BY <1>1
  <2>2. step[<<g[i - 1], i>>] = turn(g[i - 1], i)
    <3> HIDE DEF turn, V
    <3> QED BY <2>1
  <2>3. turn(g[i - 1], i) = AddLine(g[i - 1], lines[i])
    OBVIOUS
  <2> HIDE DEF step, V, D, turn, first
  <2> QED BY <1>5, <2>2, <2>3 DEF Loop
<1>7. g = turns(g)
  <2>1. g[0] = first
    BY <1>5 DEF Loop
  <2> HIDE DEF first, V
  <2> QED BY <1>6, <2>1
<1>8. f = turns(f)
  <2> HIDE DEF turns
  <2> QED BY <1>7
<1>9. \A k \in D : SegmentsTo(lines, k) = f[k]
  BY DEF SegmentsTo
<1> HIDE DEF f
<1>10. f[0] = first /\ \A i \in 1..n : f[i] = AddLine(f[i - 1], lines[i])
  <2> HIDE DEF first, V
  <2>1. \A i \in 1..n : i \in 0..n /\ i # 0
    BY <1>1
  <2> QED BY <1>1, <1>8, <2>1
<1> DEFINE S == {i \in D : f[i] \in V}
<1>11. 0 \in S
  <2> HIDE DEF first, V
  <2> QED BY <1>1, <1>2, <1>10
<1>12. \A i \in 1..n : i - 1 \in S => i \in S
  <2> HIDE DEF first, V
  <2> QED BY <1>1, <1>3, <1>10
<1>13. 0..n \subseteq S
  <2> HIDE DEF S
  <2> QED BY <1>1, <1>11, <1>12, BoundedInduction
<1>14. \A k \in 0..n : f[k] \in V
  BY <1>13
<1>15. \A i \in 1..n : i - 1 \in 0..n /\ i \in 0..n
  BY <1>1
<1> HIDE DEF V, first, n
<1> QED BY <1>1, <1>9, <1>10, <1>14, <1>15 DEF V, first, n

Segmentation(lines) == SegmentsTo(lines, Len(lines))

\* One line more.
LEMMA SegmentsAppend ==
  ASSUME NEW lines \in Seq(Line), NEW line \in Line
  PROVE  /\ Segmentation(lines) \in Segmented
         /\ Segmentation(Append(lines, line)) = AddLine(Segmentation(lines), line)
<1> DEFINE n == Len(lines)
           more == Append(lines, line)
           S == {k \in 0..n : SegmentsTo(more, k) = SegmentsTo(lines, k)}
<1>1. n \in Nat
  OBVIOUS
<1>2. /\ more \in Seq(Line) /\ Len(more) = n + 1 /\ more[n + 1] = line
      /\ \A i \in 1..n : more[i] = lines[i]
  BY AppendProperties
<1> HIDE DEF more
<1>3. 0 \in S
  BY <1>1, <1>2, SegmentsLoop
<1>4. ASSUME NEW i \in 1..n, i - 1 \in S PROVE i \in S
  <2>1. i \in 1..Len(more)
    BY <1>1, <1>2
  <2>2. /\ SegmentsTo(more, i) = AddLine(SegmentsTo(more, i - 1), more[i])
        /\ SegmentsTo(lines, i) = AddLine(SegmentsTo(lines, i - 1), lines[i])
    BY <1>2, <2>1, SegmentsLoop
  <2> QED BY <1>1, <1>2, <1>4, <2>2
<1>5. 0..n \subseteq S
  <2> HIDE DEF S
  <2> QED BY <1>1, <1>3, <1>4, BoundedInduction
<1>6. n \in 0..n
  BY <1>1
<1>7. SegmentsTo(more, n) = SegmentsTo(lines, n) /\ SegmentsTo(lines, n) \in Segmented
  BY <1>5, <1>6, SegmentsLoop
<1>8. SegmentsTo(more, n + 1) = AddLine(SegmentsTo(more, (n + 1) - 1), more[n + 1])
  <2>1. n + 1 \in 1..Len(more)
    BY <1>1, <1>2
  <2> QED BY <1>2, <2>1, SegmentsLoop
<1>9. (n + 1) - 1 = n
  BY <1>1
<1> QED BY <1>2, <1>7, <1>8, <1>9 DEF Segmentation, more

\* No lines make no segments.
LEMMA SegmentsEmpty == Segmentation(<<>>) = <<>>
<1>1. <<>> \in Seq(Line) /\ Len(<<>>) = 0
  OBVIOUS
<1> QED BY <1>1, SegmentsLoop DEF Segmentation

\* The segments are the lines again.
LEMMA SegmentsJoin ==
  ASSUME NEW lines \in Seq(Line)
  PROVE  FlattenSeq(Segmentation(lines)) = Joined(lines)
<1> DEFINE S == {ls \in Seq(Line) : FlattenSeq(Segmentation(ls)) = Joined(ls)}
<1>1. <<>> \in S
  BY SegmentsEmpty, JoinedEmpty, FlattenEmpty
<1>2. ASSUME NEW ls \in Seq(Line), NEW line \in Line, ls \in S PROVE Append(ls, line) \in S
  <2> DEFINE ss == Segmentation(ls)
             end == Append(line, "nl")
  <2>1. ss \in Segmented /\ Segmentation(Append(ls, line)) = AddLine(ss, line)
    BY SegmentsAppend
  <2>2. Joined(Append(ls, line)) = Joined(ls) \o end
    BY JoinedAppend
  <2>3. FlattenSeq(ss) = Joined(ls)
    BY <1>2
  <2> HIDE DEF ss
  <2>4. FlattenSeq(AddLine(ss, line)) = FlattenSeq(ss) \o end
    BY <2>1, AddLineIs
  <2>5. Append(ls, line) \in Seq(Line)
    BY AppendProperties
  <2> QED BY <2>1, <2>2, <2>3, <2>4, <2>5
<1>3. Seq(Line) \subseteq S
  <2> HIDE DEF S
  <2> QED BY <1>1, <1>2, AppendInduction
<1> QED BY <1>3

\* A text that ends in no newline is given one.
Closed(text) == IF text = <<>> \/ Last(text) = "nl" THEN text ELSE Append(text, "nl")

\* What std::getline gives is the lines of the text that was given one.
LEMMA AllLinesJoin ==
  ASSUME NEW text \in Seq(Chars)
  PROVE  AllLines(text) \in Seq(Line) /\ Joined(AllLines(text)) = Closed(text)
<1> DEFINE c == Cut(text, NL)
           lines == c.lines
           rest == c.rest
<1>1. /\ lines \in Seq(Line) /\ rest \in Line /\ text = Joined(lines) \o rest
      /\ rest = <<>> <=> text = <<>> \/ Last(text) = "nl"
  BY CutBack DEF CutsBack
<1>2. AllLines(text) = IF rest = <<>> THEN lines ELSE Append(lines, rest)
  BY DEF AllLines, NL
<1> HIDE DEF c, lines, rest
<1>3. /\ Joined(lines) \in Seq(Chars)
      /\ Joined(Append(lines, rest)) = Joined(lines) \o Append(rest, "nl")
  BY <1>1, JoinedAppend
<1>4. Append(lines, rest) \in Seq(Line) /\ rest \in Seq(Chars) /\ "nl" \in Chars
  BY <1>1, EndedLine, AppendProperties DEF Chars
<1>5. CASE rest = <<>>
  <2>1. text = Joined(lines)
    BY <1>1, <1>3, <1>5, ConcatEmptySeq
  <2> QED BY <1>1, <1>2, <1>5, <2>1 DEF Closed
<1>6. CASE rest # <<>>
  <2> DEFINE joined == Joined(lines)
  <2>1. joined \o Append(rest, "nl") = Append(joined \o rest, "nl")
    <3>1. joined \in Seq(Chars)
      BY <1>3
    <3> HIDE DEF joined
    <3> QED BY <1>4, <3>1, ConcatAppend
  <2>2. Closed(text) = Append(text, "nl")
    BY <1>1, <1>6 DEF Closed
  <2>3. AllLines(text) = Append(lines, rest)
    BY <1>2, <1>6
  <2> HIDE DEF joined
  <2>4. Joined(Append(lines, rest)) = joined \o Append(rest, "nl") /\ text = joined \o rest
    BY <1>1, <1>3 DEF joined
  <2> QED BY <1>4, <2>1, <2>2, <2>3, <2>4
<1> QED BY <1>5, <1>6

-----------------------------------------------------------------------------
(* Every segment decoded alone.                                            *)

\* A function that has one value more than a sequence.
LEMMA PointwiseAppend ==
  ASSUME NEW C, NEW s \in Seq(C), NEW e \in C, NEW f \in [1..(Len(s) + 1) -> C],
         \A i \in 1..Len(s) : f[i] = s[i], f[Len(s) + 1] = e
  PROVE  f = Append(s, e)
<1> DEFINE n == Len(s)
           t == Append(s, e)
<1>1. n \in Nat /\ n + 1 \in Nat
  OBVIOUS
<1>2. t \in Seq(C) /\ Len(t) = n + 1 /\ t[n + 1] = e /\ \A i \in 1..n : t[i] = s[i]
  BY AppendProperties
<1>3. f \in [1..(n + 1) -> C] /\ f[n + 1] = e /\ \A i \in 1..n : f[i] = s[i]
  OBVIOUS
<1> HIDE DEF n, t
<1>4. f \in Seq(C) /\ Len(f) = n + 1
  BY <1>1, <1>3
<1>5. \A i \in 1..(n + 1) : f[i] = t[i]
  <2>1. \A i \in 1..(n + 1) : i = n + 1 \/ i \in 1..n
    BY <1>1
  <2> QED BY <1>2, <1>3, <2>1
<1>6. f = t
  <2>1. Len(f) = Len(t) /\ \A i \in 1..Len(f) : f[i] = t[i]
    BY <1>2, <1>4, <1>5
  <2> QED BY <1>2, <1>4, <2>1, SeqEqual
<1> QED BY <1>6 DEF t

Renumbered(f) == [f EXCEPT !.sequence = 0]

\* One frame more.
LEMMA UnnumberedAppend ==
  ASSUME NEW fs \in Seq(Frames), NEW f \in Frames
  PROVE  /\ Unnumbered(fs) \in Seq(Frames) /\ Renumbered(f) \in Frames
         /\ Unnumbered(Append(fs, f)) = Append(Unnumbered(fs), Renumbered(f))
<1> DEFINE n == Len(fs)
           u == Unnumbered(fs)
           more == Append(fs, f)
           v == Unnumbered(more)
<1>1. \A g \in Frames : Renumbered(g) \in Frames
  BY DEF Frames, Renumbered
<1>2. n \in Nat /\ n + 1 \in Nat
  OBVIOUS
<1>3. /\ more \in Seq(Frames) /\ Len(more) = n + 1 /\ more[n + 1] = f
      /\ \A i \in 1..n : more[i] = fs[i]
  BY AppendProperties
<1>4. u = [i \in 1..n |-> Renumbered(fs[i])]
  BY DEF Unnumbered, Renumbered
<1>5. v = [i \in 1..(n + 1) |-> Renumbered(more[i])]
  BY <1>3 DEF Unnumbered, Renumbered
<1> HIDE DEF more, u, v
<1>6. \A i \in 1..(n + 1) : more[i] \in Frames /\ Renumbered(more[i]) \in Frames
  BY <1>1, <1>2, <1>3
<1>7. u \in Seq(Frames) /\ Len(u) = n
  <2>1. \A i \in 1..n : Renumbered(fs[i]) \in Frames
    BY <1>1
  <2>2. u \in [1..n -> Frames]
    BY <1>4, <2>1
  <2> QED BY <1>2, <2>2
<1>8. v \in [1..(n + 1) -> Frames]
  BY <1>5, <1>6
<1>9. v[n + 1] = Renumbered(f) /\ \A i \in 1..n : v[i] = u[i]
  <2>1. n + 1 \in 1..(n + 1) /\ \A i \in 1..n : i \in 1..(n + 1)
    BY <1>2
  <2> QED BY <1>3, <1>4, <1>5, <2>1
<1>10. v = Append(u, Renumbered(f))
  <2>1. Len(u) + 1 = n + 1 /\ \A i \in 1..Len(u) : v[i] = u[i]
    BY <1>7, <1>9
  <2>2. v \in [1..(Len(u) + 1) -> Frames] /\ v[Len(u) + 1] = Renumbered(f)
    BY <1>7, <1>8, <1>9
  <2> QED BY <1>1, <1>7, <2>1, <2>2, PointwiseAppend
<1> QED BY <1>1, <1>7, <1>10 DEF more, u, v

\* No frames have no numbers.
LEMMA UnnumberedEmpty == Unnumbered(<<>>) = <<>>
  BY DEF Unnumbered

Fresh == [source |-> DefaultSource, sequence |-> 0, out |-> <<>>]

\* A fresh decoder is one that has decoded nothing.
LEMMA FreshType == Fresh \in Decoders /\ DecodeLines(Fresh, <<>>) = Fresh
<1>1. Fresh \in Decoders
  <2>1. <<>> \in Seq(Frames)
    OBVIOUS
  <2> QED BY <2>1, SourceType DEF Fresh, Decoders
<1>2. <<>> \in Seq(Line)
  OBVIOUS
<1> QED BY <1>1, <1>2, SourceType, DecodeAppend

\* It is what decodes a text alone.
LEMMA DecodedAloneIs == \A t : DecodedAlone(t) = DecodeLines(Fresh, Cut(t, NL).lines).out
  BY DEF DecodedAlone, Fresh, NL

\* What it returns are frames.
LEMMA DecodedAloneType ==
  ASSUME NEW t \in Seq(Chars)
  PROVE  DecodedAlone(t) \in Seq(Frames)
<1>1. Cut(t, NL).lines \in Seq(Line)
  BY CutBack DEF CutsBack
<1>2. DecodeLines(Fresh, Cut(t, NL).lines) \in Decoders
  BY <1>1, FreshType, SourceType, DecodeAppend
<1> QED BY <1>2, DecodedAloneIs DEF Decoders

\* The frames of every segment.
Parts(ss) == [i \in 1..Len(ss) |-> Unnumbered(DecodedAlone(ss[i]))]

\* One segment more.
LEMMA PartsAppend ==
  ASSUME NEW ss \in Segmented, NEW s \in Seq(Chars)
  PROVE  /\ Parts(ss) \in Seq(Seq(Frames)) /\ Unnumbered(DecodedAlone(s)) \in Seq(Frames)
         /\ Parts(Append(ss, s)) = Append(Parts(ss), Unnumbered(DecodedAlone(s)))
<1> DEFINE n == Len(ss)
           more == Append(ss, s)
           part(t) == Unnumbered(DecodedAlone(t))
           u == Parts(ss)
           v == Parts(more)
<1>1. \A t \in Seq(Chars) : part(t) \in Seq(Frames)
  <2> SUFFICES ASSUME NEW t \in Seq(Chars) PROVE part(t) \in Seq(Frames)
    OBVIOUS
  <2>1. DecodedAlone(t) \in Seq(Frames)
    BY DecodedAloneType
  <2>2. \E f : f \in Frames
    <3>1. <<>> \in Line
      BY DEF Line
    <3>2. Frame(<<>>, <<>>, FALSE, FALSE, 0) \in Frames
      BY <3>1 DEF Frame, Frames
    <3> QED BY <3>2
  <2> QED BY <2>1, <2>2, UnnumberedAppend
<1>2. ss \in Seq(Seq(Chars)) /\ n \in Nat /\ n + 1 \in Nat
  BY DEF Segmented
<1>3. /\ more \in Seq(Seq(Chars)) /\ Len(more) = n + 1 /\ more[n + 1] = s
      /\ \A i \in 1..n : more[i] = ss[i]
  BY <1>2, AppendProperties
<1>4. u = [i \in 1..n |-> part(ss[i])]
  BY DEF Parts
<1>5. v = [i \in 1..(n + 1) |-> part(more[i])]
  BY <1>3 DEF Parts
<1> HIDE DEF more, u, v, part
<1>6. \A i \in 1..(n + 1) : more[i] \in Seq(Chars) /\ part(more[i]) \in Seq(Frames)
  BY <1>1, <1>2, <1>3
<1>7. u \in Seq(Seq(Frames)) /\ Len(u) = n
  <2>1. \A i \in 1..n : part(ss[i]) \in Seq(Frames)
    BY <1>1, <1>2
  <2>2. u \in [1..n -> Seq(Frames)]
    BY <1>4, <2>1
  <2>3. n \in Nat
    BY <1>2
  <2> HIDE DEF n
  <2> QED BY <2>2, <2>3
<1>8. v \in [1..(n + 1) -> Seq(Frames)]
  BY <1>5, <1>6
<1>9. v[n + 1] = part(s) /\ \A i \in 1..n : v[i] = u[i]
  <2>1. n + 1 \in 1..(n + 1) /\ \A i \in 1..n : i \in 1..(n + 1)
    BY <1>2
  <2> QED BY <1>3, <1>4, <1>5, <2>1
<1>10. v = Append(u, part(s))
  <2>1. Len(u) + 1 = n + 1 /\ \A i \in 1..Len(u) : v[i] = u[i]
    BY <1>7, <1>9
  <2>2. v \in [1..(Len(u) + 1) -> Seq(Frames)] /\ v[Len(u) + 1] = part(s)
    BY <1>7, <1>8, <1>9
  <2>3. part(s) \in Seq(Frames)
    BY <1>1
  <2> QED BY <1>7, <2>1, <2>2, <2>3, PointwiseAppend
<1> QED BY <1>1, <1>7, <1>10 DEF more, u, v, part

\* A frame does not depend on the name before it when its line is a header, and its
\* number is the only part of it that depends on what was decoded.
LEMMA RenumberedLine ==
  ASSUME NEW src, NEW other, NEW seq, NEW line
  PROVE  /\ Renumbered(LineFrame(src, seq, line)) = LineFrame(src, 0, line)
         /\ IsHeader(Chomp(line)) => /\ LineFrame(src, seq, line) = LineFrame(other, seq, line)
                                     /\ LineSource(src, line) = LineSource(other, line)
<1>1. \A a, b, c, d : Renumbered(Frame(a, b, c, d, seq)) = Frame(a, b, c, d, 0)
  BY DEF Renumbered, Frame
<1>2. CASE IsHeader(Chomp(line))
  BY <1>1, <1>2 DEF LineFrame, LineSource
<1>3. CASE ~IsHeader(Chomp(line))
  BY <1>1, <1>3 DEF LineFrame
<1> QED BY <1>2, <1>3

\* Every line that starts like a header is one.
Plain(lines) == \A i \in 1..Len(lines) : StartsHeader(lines[i]) => IsHeader(Chomp(lines[i]))

\* The segments of the lines give the frames of the lines; the last segment is whole
\* lines, and the name in force after it is the one in force after all of them.
SplitDecodes(lines) ==
  LET ss == Segmentation(lines)
      d  == DecodeLines(Fresh, lines)
  IN  /\ FlattenSeq(Parts(ss)) = Unnumbered(d.out)
      /\ ss = <<>> => d.source = DefaultSource
      /\ ss # <<>> => /\ Cut(Last(ss), NL).rest = <<>>
                      /\ DecodeLines(Fresh, Cut(Last(ss), NL).lines).source = d.source

\* Fewer lines are as plain.
LEMMA PlainAppend ==
  ASSUME NEW lines \in Seq(Line), NEW line \in Line, Plain(Append(lines, line))
  PROVE  Plain(lines) /\ (StartsHeader(line) => IsHeader(Chomp(line)))
<1> DEFINE n == Len(lines)
           more == Append(lines, line)
<1>1. n \in Nat /\ Len(more) = n + 1 /\ more[n + 1] = line /\ \A i \in 1..n : more[i] = lines[i]
  BY AppendProperties
<1>2. \A i \in 1..Len(more) : StartsHeader(more[i]) => IsHeader(Chomp(more[i]))
  BY DEF Plain
<1> HIDE DEF more
<1>3. n + 1 \in 1..Len(more) /\ \A i \in 1..n : i \in 1..Len(more)
  BY <1>1
<1> QED BY <1>1, <1>2, <1>3 DEF Plain

\* A decoder of its own after whole lines and one line more.
LEMMA AloneLine ==
  ASSUME NEW t \in Seq(Chars), Cut(t, NL).rest = <<>>, NEW line \in Line
  PROVE  LET d == DecodeLines(Fresh, Cut(t, NL).lines)
             e == DecodeLines(Fresh, Cut(t \o Append(line, "nl"), NL).lines)
         IN  /\ Cut(t \o Append(line, "nl"), NL).rest = <<>>
             /\ e.source = LineSource(d.source, line)
             /\ Unnumbered(d.out) \in Seq(Frames) /\ LineFrame(d.source, 0, line) \in Frames
             /\ Unnumbered(e.out) = Append(Unnumbered(d.out), LineFrame(d.source, 0, line))
<1> DEFINE lines == Cut(t, NL).lines
           u == t \o Append(line, "nl")
           d == DecodeLines(Fresh, lines)
           e == DecodeLines(Fresh, Cut(u, NL).lines)
           f == LineFrame(d.source, d.sequence, line)
<1>1. lines \in Seq(Line)
  BY CutBack DEF CutsBack
<1>2. Cut(u, NL).lines = Append(lines, line) /\ Cut(u, NL).rest = <<>>
  BY CutLine
<1> HIDE DEF lines, u
<1>3. d \in Decoders /\ e = DecodeLine(d, line)
  BY <1>1, <1>2, FreshType, DecodeAppend
<1> HIDE DEF d, e
<1>4. d.source \in Line /\ d.sequence \in Nat /\ d.out \in Seq(Frames)
  BY <1>3 DEF Decoders
<1>5. e.source = LineSource(d.source, line) /\ e.out = Append(d.out, f)
  BY <1>3, DecodeLineIs
<1>6. f \in Frames /\ LineFrame(d.source, 0, line) \in Frames
  BY <1>4, LineFrameType
<1>7. Renumbered(f) = LineFrame(d.source, 0, line)
  BY RenumberedLine
<1> HIDE DEF f
<1>8. /\ Unnumbered(d.out) \in Seq(Frames)
      /\ Unnumbered(Append(d.out, f)) = Append(Unnumbered(d.out), Renumbered(f))
  BY <1>4, <1>6, UnnumberedAppend
<1> QED BY <1>2, <1>5, <1>6, <1>7, <1>8 DEF d, e, lines, u

\* One line more, in a segment of its own or in the last one.
LEMMA SplitDecodesStep ==
  ASSUME NEW ls \in Seq(Line), NEW line \in Line, SplitDecodes(ls),
         StartsHeader(line) => IsHeader(Chomp(line))
  PROVE  SplitDecodes(Append(ls, line))
<1> DEFINE ss == Segmentation(ls)
           d == DecodeLines(Fresh, ls)
           more == Append(ls, line)
           new == Segmentation(more)
           e == DecodeLines(Fresh, more)
           end == Append(line, "nl")
           f == LineFrame(d.source, d.sequence, line)
           g == LineFrame(d.source, 0, line)
           flat == FlattenSeq(Parts(ss))
<1>1. ss \in Segmented /\ new = AddLine(ss, line) /\ more \in Seq(Line) /\ end \in Seq(Chars)
  BY SegmentsAppend, EndedLine, AppendProperties
<1>2. d \in Decoders /\ e = DecodeLine(d, line)
  BY FreshType, DecodeAppend
<1>3. /\ flat = Unnumbered(d.out)
      /\ ss = <<>> => d.source = DefaultSource
      /\ ss # <<>> => /\ Cut(Last(ss), NL).rest = <<>>
                      /\ DecodeLines(Fresh, Cut(Last(ss), NL).lines).source = d.source
  BY DEF SplitDecodes
<1> HIDE DEF ss, d, new, e, flat, end, more
<1>4. d.source \in Line /\ d.sequence \in Nat /\ d.out \in Seq(Frames)
  BY <1>2 DEF Decoders
<1>5. e.source = LineSource(d.source, line) /\ e.out = Append(d.out, f)
  BY <1>2, DecodeLineIs
<1>6. f \in Frames /\ g \in Frames /\ Renumbered(f) = g
  BY <1>4, LineFrameType, RenumberedLine
<1> HIDE DEF f, g
<1>7. Unnumbered(e.out) = Append(flat, g) /\ flat \in Seq(Frames)
  BY <1>3, <1>4, <1>5, <1>6, UnnumberedAppend
<1>8. new # <<>>
  BY <1>1, AddLineIs
<1>9. SUFFICES /\ FlattenSeq(Parts(new)) = Append(flat, g)
               /\ Cut(Last(new), NL).rest = <<>>
               /\ DecodeLines(Fresh, Cut(Last(new), NL).lines).source = e.source
  BY <1>7, <1>8 DEF SplitDecodes, new, e, more
<1>10. CASE ~Extends(ss, line)
  <2> DEFINE part == Unnumbered(DecodedAlone(end))
  <2>1. new = Append(ss, end)
    BY <1>1, <1>10, AddLineIs DEF end
  <2>2. Last(new) = end
    BY <1>1, <2>1, FrontLastAppend DEF Segmented
  <2>3. <<>> \in Seq(Chars) /\ Cut(<<>>, NL).lines = <<>> /\ Cut(<<>>, NL).rest = <<>>
    BY CutEmpty DEF NoLines
  <2>4. <<>> \o end = end
    BY <1>1, ConcatEmptySeq
  <2> DEFINE h == DecodeLines(Fresh, Cut(end, NL).lines)
  <2>5. /\ Cut(end, NL).rest = <<>>
        /\ h.source = LineSource(DefaultSource, line)
        /\ Unnumbered(h.out) = Append(<<>>, LineFrame(DefaultSource, 0, line))
    <3>1. Fresh.source = DefaultSource /\ Fresh.out = <<>>
      BY DEF Fresh
    <3>2. DecodeLines(Fresh, <<>>) = Fresh
      BY FreshType
    <3> DEFINE k == DecodeLines(Fresh, Cut(<<>>, NL).lines)
               l == DecodeLines(Fresh, Cut(<<>> \o Append(line, "nl"), NL).lines)
    <3>3. /\ Cut(<<>> \o Append(line, "nl"), NL).rest = <<>>
          /\ l.source = LineSource(k.source, line)
          /\ Unnumbered(l.out) = Append(Unnumbered(k.out), LineFrame(k.source, 0, line))
      BY <2>3, AloneLine
    <3>4. k = Fresh /\ l = h
      BY <2>3, <2>4, <3>2 DEF end
    <3> HIDE DEF k, l, h
    <3> QED BY <2>4, <3>1, <3>3, <3>4, UnnumberedEmpty DEF end
  <2>6. LineSource(DefaultSource, line) = e.source /\ LineFrame(DefaultSource, 0, line) = g
    <3>1. CASE StartsHeader(line)
      BY <1>5, <3>1, RenumberedLine DEF g
    <3>2. CASE ss = <<>>
      BY <1>3, <1>5, <3>2 DEF g
    <3> QED BY <1>10, <3>1, <3>2 DEF Extends
  <2>7. part = <<g>>
    <3>1. part = Unnumbered(h.out)
      BY DecodedAloneIs
    <3>2. Append(<<>>, g) = <<g>>
      OBVIOUS
    <3> HIDE DEF part, h
    <3> QED BY <2>5, <2>6, <3>1, <3>2
  <2>8. Parts(new) = Append(Parts(ss), part) /\ Parts(ss) \in Seq(Seq(Frames)) /\ part \in Seq(Frames)
    BY <1>1, <2>1, PartsAppend
  <2> HIDE DEF part, h
  <2>9. FlattenSeq(Parts(new)) = flat \o part
    BY <2>8, FlattenAppend DEF flat
  <2>10. flat \o <<g>> = Append(flat, g)
    BY <1>6, <1>7, AppendIsConcat
  <2> QED BY <2>2, <2>5, <2>6, <2>7, <2>9, <2>10 DEF h
<1>11. CASE Extends(ss, line)
  <2> DEFINE front == Front(ss)
             last == Last(ss)
             grown == last \o end
             h == DecodeLines(Fresh, Cut(last, NL).lines)
             k == DecodeLines(Fresh, Cut(grown, NL).lines)
  <2>1. new = Append(front, grown) /\ ss # <<>>
    BY <1>1, <1>11, AddLineIs DEF Extends, end
  <2>2. front \in Seq(Seq(Chars)) /\ last \in Seq(Chars) /\ ss = Append(front, last)
    BY <1>1, <2>1, FrontLast DEF Segmented
  <2>3. Cut(last, NL).rest = <<>> /\ h.source = d.source
    BY <1>3, <2>1
  <2> HIDE DEF front, last
  <2>4. /\ Cut(grown, NL).rest = <<>>
        /\ k.source = LineSource(h.source, line)
        /\ Unnumbered(h.out) \in Seq(Frames)
        /\ Unnumbered(k.out) = Append(Unnumbered(h.out), LineFrame(h.source, 0, line))
    BY <2>2, <2>3, AloneLine DEF end
  <2>5. grown \in Seq(Chars)
    BY <1>1, <2>2, ConcatProperties
  <2>6. Last(new) = grown
    <3> HIDE DEF grown
    <3> QED BY <2>1, <2>2, <2>5, FrontLastAppend
  <2> DEFINE a == Unnumbered(h.out)
             b == Unnumbered(k.out)
             parts == Parts(front)
             all == FlattenSeq(parts)
  <2>7. a = Unnumbered(DecodedAlone(last)) /\ b = Unnumbered(DecodedAlone(grown))
    BY DecodedAloneIs
  <2>8. b = Append(a, g) /\ a \in Seq(Frames)
    BY <2>3, <2>4 DEF g
  <2> HIDE DEF grown, h, k, a, b
  <2>9. Parts(ss) = Append(parts, a) /\ Parts(new) = Append(parts, b) /\ parts \in Seq(Seq(Frames))
    BY <2>1, <2>2, <2>5, <2>7, PartsAppend DEF Segmented
  <2> HIDE DEF parts
  <2>10. b \in Seq(Frames)
    BY <1>6, <2>8, AppendProperties
  <2>11. flat = all \o a /\ FlattenSeq(Parts(new)) = all \o b /\ all \in Seq(Frames)
    BY <2>8, <2>9, <2>10, FlattenAppend DEF flat
  <2> HIDE DEF all
  <2>12. all \o b = Append(all \o a, g)
    BY <1>6, <2>8, <2>11, ConcatAppend
  <2> QED BY <1>5, <2>3, <2>4, <2>6, <2>11, <2>12 DEF k
<1> QED BY <1>10, <1>11

\* Line after line.
LEMMA SplitDecodesAlways ==
  ASSUME NEW lines \in Seq(Line), Plain(lines)
  PROVE  SplitDecodes(lines)
<1> DEFINE S == {ls \in Seq(Line) : Plain(ls) => SplitDecodes(ls)}
<1>1. <<>> \in S
  <2>1. Segmentation(<<>>) = <<>> /\ DecodeLines(Fresh, <<>>) = Fresh
    BY SegmentsEmpty, FreshType
  <2>2. Parts(<<>>) = <<>>
    BY DEF Parts
  <2>3. Fresh.source = DefaultSource /\ Fresh.out = <<>>
    BY DEF Fresh
  <2>4. SplitDecodes(<<>>)
    BY <2>1, <2>2, <2>3, FlattenEmpty, UnnumberedEmpty DEF SplitDecodes
  <2>5. <<>> \in Seq(Line)
    OBVIOUS
  <2> QED BY <2>4, <2>5
<1>2. ASSUME NEW ls \in Seq(Line), NEW line \in Line, ls \in S PROVE Append(ls, line) \in S
  <2>1. Append(ls, line) \in Seq(Line)
    BY AppendProperties
  <2>2. ASSUME Plain(Append(ls, line)) PROVE SplitDecodes(Append(ls, line))
    <3>1. Plain(ls) /\ (StartsHeader(line) => IsHeader(Chomp(line)))
      BY <2>2, PlainAppend
    <3>2. SplitDecodes(ls)
      BY <1>2, <3>1
    <3> QED BY <3>1, <3>2, SplitDecodesStep
  <2> QED BY <2>1, <2>2
<1>3. Seq(Line) \subseteq S
  <2> HIDE DEF S
  <2> QED BY <1>1, <1>2, AppendInduction
<1> QED BY <1>3

\* Any text can be split and decoded in parts.
LEMMA DecodesInSegmentsAlways ==
  ASSUME NEW text \in Seq(Chars)
  PROVE  DecodesInSegments(text)
<1> DEFINE lines == AllLines(text)
           whole == Closed(text)
           ss == Segmentation(lines)
<1>1. lines \in Seq(Line) /\ Joined(lines) = whole
  BY AllLinesJoin
<1>2. Segments(text) = ss
  BY DEF Segments, Segmentation
<1> HIDE DEF lines, whole, ss
<1>3. FlattenSeq(ss) = whole
  BY <1>1, SegmentsJoin DEF ss
<1>4. Cut(whole, NL).lines = lines
  BY <1>1, CutJoined
<1>5. ASSUME Plain(lines) PROVE FlattenSeq(Parts(ss)) = Unnumbered(DecodedAlone(whole))
  <2>1. FlattenSeq(Parts(ss)) = Unnumbered(DecodeLines(Fresh, lines).out)
    BY <1>1, <1>5, SplitDecodesAlways DEF SplitDecodes, ss
  <2> QED BY <1>4, <2>1, DecodedAloneIs
<1>6. whole = IF text = <<>> \/ Last(text) = "nl" THEN text ELSE Append(text, "nl")
  BY DEF whole, Closed
<1> QED BY <1>2, <1>3, <1>4, <1>5, <1>6 DEF DecodesInSegments, Parts, Plain, NL


\* A lexeme more of the text, unless it is an end of input.
AddText(text, x) == IF x = "eof" THEN text ELSE Append(text, x)

\* Text stays text.
LEMMA AddTextType ==
  ASSUME NEW t \in Seq(Chars), NEW x \in Lexemes \cup {"eof"}
  PROVE  AddText(t, x) \in Seq(Chars)
<1>1. x # "eof" => x \in Chars
  BY DEF Chars
<1> QED BY <1>1, AppendProperties DEF AddText

\* The text of an input.
LEMMA TextLoop ==
  ASSUME NEW s \in Texts
  PROVE  /\ TextTo(s, 0) = <<>>
         /\ \A i \in 1..Len(s) : TextTo(s, i) = AddText(TextTo(s, i - 1), s[i])
         /\ \A i \in 0..Len(s) : TextTo(s, i) \in Seq(Chars)
<1> DEFINE n == Len(s)
           D == 0..n
           V == Seq(Chars)
           first == <<>>
           turn(v, i) == IF i = 0 THEN first ELSE AddText(v, s[i])
           step == [p \in V \X D |-> turn(p[1], p[2])]
           turns(f) == [i \in 0..n |-> IF i = 0 THEN first ELSE AddText(f[i - 1], s[i])]
           f == CHOOSE h : h = turns(h)
<1>1. n \in Nat /\ 0 \in D /\ \A i \in 1..n : i - 1 \in D /\ i \in D \ {0} /\ s[i] \in Lexemes \cup {"eof"}
  BY DEF Texts
<1>2. first \in V
  OBVIOUS
<1>3. \A v \in V : \A i \in 1..n : AddText(v, s[i]) \in V
  BY <1>1, AddTextType
<1>4. step \in [V \X D -> V]
  <2>1. ASSUME NEW v \in V, NEW i \in D PROVE turn(v, i) \in V
    <3>1. i # 0 => i \in 1..n
      BY <1>1
    <3> HIDE DEF V, first
    <3> QED BY <1>2, <1>3, <3>1
  <2> HIDE DEF turn, V, D
  <2> QED BY <2>1
<1>5. PICK g \in [D -> V] : Loop(g, D, first, step)
  <2>1. D \in Counts
    BY <1>1, CountsAre
  <2> HIDE DEF step, D, V, first
  <2> QED BY <1>2, <1>4, <2>1, LoopExists
<1>6. ASSUME NEW i \in D \ {0} PROVE g[i] = AddText(g[i - 1], s[i])
  <2>1. i - 1 \in D
    BY <1>1
  <2>2. step[<<g[i - 1], i>>] = turn(g[i - 1], i)
    <3> HIDE DEF turn, V
    <3> QED BY <2>1
  <2>3. turn(g[i - 1], i) = AddText(g[i - 1], s[i])
    OBVIOUS
  <2> HIDE DEF step, V, D, turn, first
  <2> QED BY <1>5, <2>2, <2>3 DEF Loop
<1>7. g = turns(g)
  <2>1. g[0] = first
    BY <1>5 DEF Loop
  <2> HIDE DEF first, V
  <2> QED BY <1>6, <2>1
<1>8. f = turns(f)
  <2> HIDE DEF turns
  <2> QED BY <1>7
<1>9. \A k \in D : TextTo(s, k) = f[k]
  BY DEF TextTo, AddText
<1> HIDE DEF f
<1>10. f[0] = first /\ \A i \in 1..n : f[i] = AddText(f[i - 1], s[i])
  <2> HIDE DEF first, V
  <2>1. \A i \in 1..n : i \in 0..n /\ i # 0
    BY <1>1
  <2> QED BY <1>1, <1>8, <2>1
<1> DEFINE S == {i \in D : f[i] \in V}
<1>11. 0 \in S
  <2> HIDE DEF first, V
  <2> QED BY <1>1, <1>2, <1>10
<1>12. \A i \in 1..n : i - 1 \in S => i \in S
  <2> HIDE DEF first, V
  <2> QED BY <1>1, <1>3, <1>10
<1>13. 0..n \subseteq S
  <2> HIDE DEF S
  <2> QED BY <1>1, <1>11, <1>12, BoundedInduction
<1>14. \A k \in 0..n : f[k] \in V
  BY <1>13
<1>15. \A i \in 1..n : i - 1 \in 0..n /\ i \in 0..n
  BY <1>1
<1> HIDE DEF V, first, n
<1> QED BY <1>1, <1>9, <1>10, <1>14, <1>15 DEF V, first, n

\* The segments of what was given are the text again, and each decodes alone.
THEOREM SegmentsDecodeAloneHolds == DecoderSpec => []SegmentsDecodeAlone
<1>1. ASSUME DecoderInv PROVE SegmentsDecodeAlone
  <2>1. input \in Texts /\ Len(input) \in 0..Len(input)
    BY <1>1 DEF DecoderInv, Texts
  <2>2. TextTo(input, Len(input)) \in Seq(Chars)
    BY <2>1, TextLoop
  <2> QED BY <2>2, DecodesInSegmentsAlways DEF SegmentsDecodeAlone
<1> QED BY <1>1, DecoderInvariant, PTL
=============================================================================

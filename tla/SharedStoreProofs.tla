--------------------------- MODULE SharedStoreProofs ---------------------------
(***************************************************************************)
(* What holds of a store file that any number of saves and a load have     *)
(* open at once, for every set of writers, every batches of events and any *)
(* cutting of the bytes into writes and reads.                             *)
(***************************************************************************)
EXTENDS SharedStore, StoreImageProofs

\* A writer sends the image of its events and has sent a part of it, nothing
\* before it opens the file.
Sending ==
  \A w \in Writers :
    /\ writer[w].image = Image(writer[w].events)
    /\ writer[w].at <= Len(Sent(w))
    /\ writer[w].phase = "ready" => writer[w].at = 0
    /\ writer[w].phase = "done" => writer[w].at = Len(Sent(w))

\* A file that the last writer opened alone is what that writer has sent.
LastAlone ==
  alone /\ disk # NoFile =>
    /\ Len(disk) = writer[last].at
    /\ \A i \in 1..Len(disk) : disk[i] = Sent(last)[i]
    /\ \A v \in Writers : writer[v].phase = "write" => v = last

\* A calm reader has read a part of it, one that has not opened the file nothing.
ReadCalmly ==
  /\ reader.phase = "ready" => Len(reader.bytes) = 0
  /\ calm =>
       /\ alone /\ disk # NoFile
       /\ Len(reader.bytes) <= writer[last].at
       /\ \A i \in 1..Len(reader.bytes) : reader.bytes[i] = Sent(last)[i]

\* w has opened the file, and so have only writers with the same events.
Agree(w) ==
  /\ writer[w].phase # "ready"
  /\ \A v \in Writers : writer[v].phase = "ready" \/ writer[v].events = writer[w].events

\* The byte at offset i is as w sends it, or a writer has yet to send it.
Due(w, i) ==
  \/ i <= Len(disk) /\ disk[i] = Sent(w)[i]
  \/ \E v \in Writers : writer[v].phase = "write" /\ writer[v].at < i

SavesConverge ==
  \A w \in Writers : Agree(w) =>
    /\ Len(disk) <= Len(Sent(w))
    /\ \A i \in 1..Len(Sent(w)) : Due(w, i)

Inv == TypeOK /\ Sending /\ BytesKeepOffset /\ LastAlone /\ ReadCalmly /\ SavesConverge

-----------------------------------------------------------------------------
(* The file after a write.                                                 *)

\* The bytes m to n of a file.
LEMMA Part ==
  ASSUME NEW f \in Seq(Byte), NEW m \in Nat \ {0}, NEW n \in Nat, n <= Len(f)
  PROVE  /\ SubSeq(f, m, n) \in Seq(Byte)
         /\ Len(SubSeq(f, m, n)) = IF m <= n THEN n - m + 1 ELSE 0
         /\ \A i \in 1..Len(SubSeq(f, m, n)) : SubSeq(f, m, n)[i] = f[m + i - 1]
<1>1. \A i \in m..n : f[i] \in Byte
  OBVIOUS
<1>2. /\ SubSeq(f, m, n) \in Seq(Byte)
      /\ Len(SubSeq(f, m, n)) = IF m <= n THEN n - m + 1 ELSE 0
      /\ \A i \in 1..(n - m + 1) : SubSeq(f, m, n)[i] = f[m + i - 1]
  BY <1>1, SubSeqProperties
<1> QED BY <1>2

\* Two pieces of a file, one behind the other.
LEMMA Joined ==
  ASSUME NEW f \in Seq(Byte), NEW g \in Seq(Byte)
  PROVE  /\ f \o g \in Seq(Byte)
         /\ Len(f \o g) = Len(f) + Len(g)
         /\ \A i \in 1..(Len(f) + Len(g)) :
              (f \o g)[i] = IF i <= Len(f) THEN f[i] ELSE g[i - Len(f)]
  BY ConcatProperties

\* A write at an offset changes the bytes from there on that it brings, and fills
\* the gap before them with holes.
LEMMA OverwrittenBytes ==
  ASSUME NEW f \in Seq(Byte), NEW at \in Nat, NEW b \in Seq(Byte)
  PROVE  LET o == Overwritten(f, at, b) IN
         /\ o \in Seq(Byte)
         /\ Len(o) = IF Len(f) > at + Len(b) THEN Len(f) ELSE at + Len(b)
         /\ \A i \in 1..Len(o) :
              o[i] = IF i <= at THEN IF i <= Len(f) THEN f[i] ELSE Hole
                     ELSE IF i <= at + Len(b) THEN b[i - at] ELSE f[i]
<1> DEFINE gap  == [i \in 1..(at - Len(f)) |-> Hole]
           all  == f \o gap
           head == SubSeq(all, 1, at)
           tail == SubSeq(all, at + Len(b) + 1, Len(all))
<1>1. gap \in Seq(Byte) /\ Len(gap) = IF at > Len(f) THEN at - Len(f) ELSE 0
  <2>1. CASE at > Len(f)
    <3>1. at - Len(f) \in Nat
      BY <2>1
    <3>2. gap \in [1..(at - Len(f)) -> Byte]
      BY SharedAssumption
    <3> HIDE DEF gap
    <3> QED BY <2>1, <3>1, <3>2
  <2>2. CASE ~(at > Len(f))
    <3>1. 1..(at - Len(f)) = 1..0
      BY <2>2
    <3>2. gap \in [1..0 -> Byte]
      BY <3>1, SharedAssumption
    <3> HIDE DEF gap
    <3> QED BY <2>2, <3>2
  <2> QED BY <2>1, <2>2
<1>2. /\ all \in Seq(Byte)
      /\ Len(all) = IF at > Len(f) THEN at ELSE Len(f)
      /\ \A i \in 1..Len(all) : all[i] = IF i <= Len(f) THEN f[i] ELSE Hole
  <2>1. \A i \in 1..(at - Len(f)) : gap[i] = Hole
    OBVIOUS
  <2> HIDE DEF gap
  <2>2. /\ all \in Seq(Byte) /\ Len(all) = Len(f) + Len(gap)
        /\ \A i \in 1..Len(all) : all[i] = IF i <= Len(f) THEN f[i] ELSE gap[i - Len(f)]
    <3>1. gap \in Seq(Byte)
      BY <1>1
    <3>2. /\ f \o gap \in Seq(Byte) /\ Len(f \o gap) = Len(f) + Len(gap)
          /\ \A i \in 1..(Len(f) + Len(gap)) :
               (f \o gap)[i] = IF i <= Len(f) THEN f[i] ELSE gap[i - Len(f)]
      BY <3>1, Joined
    <3> QED BY <3>2
  <2> HIDE DEF all
  <2>3. ASSUME NEW i \in 1..Len(all), i > Len(f)
        PROVE  gap[i - Len(f)] = Hole
    <3>1. i \in Nat /\ i <= Len(f) + Len(gap) /\ Len(f) \in Nat
      BY <2>2
    <3>2. at > Len(f) /\ Len(gap) = at - Len(f)
      BY <1>1, <2>3, <3>1
    <3>3. i - Len(f) \in 1..(at - Len(f))
      BY <2>3, <3>1, <3>2
    <3> QED BY <2>1, <3>3
  <2>4. \A i \in 1..Len(all) : all[i] = IF i <= Len(f) THEN f[i] ELSE Hole
    BY <2>2, <2>3
  <2>5. Len(all) = IF at > Len(f) THEN at ELSE Len(f)
    <3>1. Len(f) \in Nat
      OBVIOUS
    <3>2. CASE at > Len(f)
      BY <1>1, <2>2, <3>1, <3>2
    <3>3. CASE ~(at > Len(f))
      BY <1>1, <2>2, <3>1, <3>3
    <3> QED BY <3>2, <3>3
  <2> QED BY <2>2, <2>4, <2>5
<1> HIDE DEF gap, all
<1>3. /\ head \in Seq(Byte) /\ Len(head) = at
      /\ \A i \in 1..at : head[i] = all[i]
  BY <1>2, Part
<1>4. /\ tail \in Seq(Byte)
      /\ Len(tail) = IF Len(f) > at + Len(b) THEN Len(f) - at - Len(b) ELSE 0
      /\ \A i \in 1..Len(tail) : tail[i] = all[at + Len(b) + i]
  <2>1. CASE Len(f) > at + Len(b)
    <3>1. /\ at + Len(b) + 1 \in Nat \ {0} /\ Len(all) \in Nat /\ Len(all) = Len(f)
          /\ at + Len(b) + 1 <= Len(all)
      BY <1>2, <2>1
    <3>2. tail \in Seq(Byte) /\ Len(tail) = Len(all) - (at + Len(b) + 1) + 1
      BY <1>2, <3>1, Part
    <3>3. \A i \in 1..Len(tail) : tail[i] = all[(at + Len(b) + 1) + i - 1]
      BY <1>2, <3>1, Part
    <3> HIDE DEF tail
    <3>4. Len(tail) = Len(f) - at - Len(b)
      BY <3>1, <3>2
    <3>5. ASSUME NEW i \in 1..Len(tail)
          PROVE  tail[i] = all[at + Len(b) + i]
      <4>1. (at + Len(b) + 1) + i - 1 = at + Len(b) + i
        BY <3>1
      <4> QED BY <3>3, <4>1
    <3> QED BY <2>1, <3>2, <3>4, <3>5
  <2>2. CASE ~(Len(f) > at + Len(b))
    <3>1. at + Len(b) + 1 > Len(all)
      BY <1>2, <2>2
    <3>2. tail = <<>>
      BY <1>2, <3>1, SubSeqEmpty
    <3> HIDE DEF tail
    <3> QED BY <2>2, <3>2
  <2> QED BY <2>1, <2>2
<1> HIDE DEF head, tail
<1> DEFINE front == head \o b
           o     == front \o tail
           end   == at + Len(b)
<1> HIDE DEF end
<1>5. end = at + Len(b) /\ end \in Nat
  BY DEF end
<1>6. /\ front \in Seq(Byte) /\ Len(front) = end
      /\ \A i \in 1..end : front[i] = IF i <= at THEN head[i] ELSE b[i - at]
  BY <1>3, <1>5, Joined
<1>7. Overwritten(f, at, b) = o
  BY DEF Overwritten, head, tail, all, gap
<1>8. Len(tail) \in Nat /\ Len(tail) = IF Len(f) > end THEN Len(f) - end ELSE 0
  BY <1>4, <1>5
<1> HIDE DEF front
<1>9. /\ o \in Seq(Byte) /\ Len(o) = end + Len(tail)
      /\ \A i \in 1..Len(o) : o[i] = IF i <= end THEN front[i] ELSE tail[i - end]
  <2>1. front \in Seq(Byte) /\ tail \in Seq(Byte)
    BY <1>4, <1>6
  <2>2. /\ o \in Seq(Byte) /\ Len(o) = Len(front) + Len(tail)
        /\ \A i \in 1..(Len(front) + Len(tail)) :
             o[i] = IF i <= Len(front) THEN front[i] ELSE tail[i - Len(front)]
    BY <2>1, Joined
  <2>3. Len(front) = end
    BY <1>6
  <2> HIDE DEF o
  <2> QED BY <2>2, <2>3
<1> HIDE DEF o
<1>10. /\ Len(o) = IF Len(f) > end THEN Len(f) ELSE end
       /\ Len(o) > end => Len(f) > end
  <2>1. Len(o) = end + Len(tail)
    BY <1>9
  <2>2. Len(f) \in Nat
    OBVIOUS
  <2>3. CASE Len(f) > end
    BY <1>5, <1>8, <2>1, <2>2, <2>3
  <2>4. CASE ~(Len(f) > end)
    <3>1. Len(tail) = 0
      BY <1>8, <2>4
    <3>2. Len(o) = end
      BY <1>5, <2>1, <3>1
    <3> QED BY <1>5, <2>4, <3>2
  <2> QED BY <2>3, <2>4
<1>11. ASSUME NEW i \in 1..Len(o)
      PROVE  o[i] = IF i <= at THEN IF i <= Len(f) THEN f[i] ELSE Hole
                    ELSE IF i <= end THEN b[i - at] ELSE f[i]
  <2>1. CASE i <= at
    <3>1. o[i] = head[i] /\ head[i] = all[i] /\ i \in 1..Len(all)
      <4>1. i \in 1..at /\ i \in 1..end /\ i \in 1..Len(all)
        BY <1>2, <1>5, <2>1, <1>9
      <4> QED BY <1>3, <1>6, <1>9, <2>1, <4>1
    <3> QED BY <1>2, <2>1, <3>1
  <2>2. CASE i > at /\ i <= end
    BY <1>5, <1>6, <1>9, <2>2
  <2>3. CASE i > end
    <3>1. i - end \in 1..Len(tail) /\ i \in 1..Len(all) /\ i <= Len(f)
      <4>1. Len(f) > end
        BY <1>5, <1>10, <2>3
      <4> QED BY <1>2, <1>5, <1>8, <1>9, <2>3, <4>1
    <3>2. tail[i - end] = all[end + (i - end)]
      BY <1>4, <1>5, <3>1
    <3>3. end + (i - end) = i
      BY <1>5
    <3>4. o[i] = all[i]
      BY <1>5, <1>9, <2>3, <3>2, <3>3
    <3>5. ~(i <= end) /\ ~(i <= at)
      BY <1>5, <2>3
    <3> QED BY <1>2, <3>1, <3>4, <3>5
  <2> QED BY <1>5, <2>1, <2>2, <2>3
<1> QED BY <1>5, <1>7, <1>9, <1>10, <1>11

\* What a write of w leaves in the file, up to the offset n it comes to.
LEMMA WriteEffect ==
  ASSUME TypeOK, NEW w \in Writers, WriteSome(w)
  PROVE  /\ writer[w].phase = "write" /\ disk \in Seq(Byte) /\ disk # NoFile
         /\ writer[w].at \in Nat /\ Sent(w) \in Seq(Byte)
         /\ \E n \in Nat :
              /\ writer[w].at < n /\ n <= Len(Sent(w))
              /\ writer' = [writer EXCEPT ![w].at = n]
              /\ disk' \in Seq(Byte)
              /\ Len(disk') = IF Len(disk) > n THEN Len(disk) ELSE n
              /\ \A i \in 1..Len(disk') :
                   disk'[i] = IF i <= writer[w].at THEN IF i <= Len(disk) THEN disk[i] ELSE Hole
                              ELSE IF i <= n THEN Sent(w)[i] ELSE disk[i]
<1>1. /\ writer[w].phase = "write" /\ disk \in Seq(Byte) /\ disk # NoFile
      /\ writer[w].at \in Nat /\ Sent(w) \in Seq(Byte)
  BY DEF TypeOK, WriteSome, Sent
<1> PICK n \in (writer[w].at + 1)..Len(Sent(w)) :
       /\ disk' = Overwritten(disk, writer[w].at, SubSeq(Sent(w), writer[w].at + 1, n))
       /\ writer' = [writer EXCEPT ![w].at = n]
  BY DEF WriteSome
<1> DEFINE at == writer[w].at
           b  == SubSeq(Sent(w), at + 1, n)
<1>2. at \in Nat /\ n \in Nat /\ at < n /\ n <= Len(Sent(w)) /\ at + 1 \in Nat \ {0}
  BY <1>1
<1>3. /\ b \in Seq(Byte)
      /\ Len(b) = IF at + 1 <= n THEN n - (at + 1) + 1 ELSE 0
      /\ \A i \in 1..Len(b) : b[i] = Sent(w)[(at + 1) + i - 1]
  BY <1>1, <1>2, Part
<1>4. disk' = Overwritten(disk, at, b)
  OBVIOUS
<1>5. writer' = [writer EXCEPT ![w].at = n]
  OBVIOUS
<1>6. writer[w].at = at
  OBVIOUS
<1> HIDE DEF b, at
<1>7. Len(b) = n - at /\ at + Len(b) = n
  BY <1>2, <1>3
<1>8. /\ disk' \in Seq(Byte)
      /\ Len(disk') = IF Len(disk) > at + Len(b) THEN Len(disk) ELSE at + Len(b)
      /\ \A i \in 1..Len(disk') :
           disk'[i] = IF i <= at THEN IF i <= Len(disk) THEN disk[i] ELSE Hole
                      ELSE IF i <= at + Len(b) THEN b[i - at] ELSE disk[i]
  <2>1. disk \in Seq(Byte) /\ at \in Nat /\ b \in Seq(Byte)
    BY <1>1, <1>2, <1>3
  <2>2. LET o == Overwritten(disk, at, b) IN
        /\ o \in Seq(Byte)
        /\ Len(o) = IF Len(disk) > at + Len(b) THEN Len(disk) ELSE at + Len(b)
        /\ \A i \in 1..Len(o) :
             o[i] = IF i <= at THEN IF i <= Len(disk) THEN disk[i] ELSE Hole
                    ELSE IF i <= at + Len(b) THEN b[i - at] ELSE disk[i]
    BY <2>1, OverwrittenBytes
  <2> QED BY <1>4, <2>2
<1>9. ASSUME NEW i \in 1..Len(disk'), ~(i <= at), i <= n
      PROVE  b[i - at] = Sent(w)[i]
  <2>1. i - at \in 1..Len(b) /\ (at + 1) + (i - at) - 1 = i
    <3>1. i \in Nat /\ at < i
      BY <1>2, <1>9
    <3> QED BY <1>2, <1>7, <1>9, <3>1
  <2> QED BY <1>3, <2>1
<1>10. \A i \in 1..Len(disk') :
         disk'[i] = IF i <= at THEN IF i <= Len(disk) THEN disk[i] ELSE Hole
                    ELSE IF i <= n THEN Sent(w)[i] ELSE disk[i]
  BY <1>7, <1>8, <1>9
<1>11. Len(disk') = IF Len(disk) > n THEN Len(disk) ELSE n
  BY <1>7, <1>8
<1> QED BY <1>1, <1>2, <1>5, <1>6, <1>8, <1>10, <1>11

\* A buffer that the reader fills.
LEMMA ReadEffect ==
  ASSUME TypeOK, ReadSome
  PROVE  /\ disk \in Seq(Byte) /\ reader.bytes \in Seq(Byte)
         /\ reader' \in [phase: {"read"}, bytes: Seq(Byte)]
         /\ Len(reader.bytes) < Len(reader'.bytes) /\ Len(reader'.bytes) <= Len(disk)
         /\ \A i \in 1..Len(reader'.bytes) :
              reader'.bytes[i] = IF i <= Len(reader.bytes) THEN reader.bytes[i] ELSE disk[i]
<1>1. /\ disk \in Seq(Byte) /\ reader.bytes \in Seq(Byte)
      /\ reader \in [phase: {"ready", "read", "done"}, bytes: Seq(Byte)]
      /\ reader.phase = "read"
  BY DEF TypeOK, ReadSome
<1> PICK n \in (Len(reader.bytes) + 1)..Len(disk) :
       reader' = [reader EXCEPT !.bytes = @ \o SubSeq(disk, Len(@) + 1, n)]
  BY DEF ReadSome
<1> DEFINE old == reader.bytes
           b   == SubSeq(disk, Len(old) + 1, n)
<1>2. /\ Len(old) \in Nat /\ n \in Nat /\ Len(old) < n /\ n <= Len(disk)
      /\ Len(old) + 1 \in Nat \ {0}
  BY <1>1
<1>3. /\ b \in Seq(Byte)
      /\ Len(b) = IF Len(old) + 1 <= n THEN n - (Len(old) + 1) + 1 ELSE 0
      /\ \A i \in 1..Len(b) : b[i] = disk[(Len(old) + 1) + i - 1]
  BY <1>1, <1>2, Part
<1>4. reader' = [reader EXCEPT !.bytes = old \o b]
  OBVIOUS
<1> HIDE DEF b
<1>5. /\ old \o b \in Seq(Byte)
      /\ Len(old \o b) = Len(old) + Len(b)
      /\ \A i \in 1..(Len(old) + Len(b)) :
           (old \o b)[i] = IF i <= Len(old) THEN old[i] ELSE b[i - Len(old)]
  BY <1>1, <1>3, Joined
<1>6. Len(b) = n - Len(old) /\ Len(old) + Len(b) = n
  BY <1>2, <1>3
<1>7. reader' \in [phase: {"read"}, bytes: Seq(Byte)] /\ reader'.bytes = old \o b
  BY <1>1, <1>4, <1>5
<1> HIDE DEF old
<1>8. ASSUME NEW i \in 1..n, ~(i <= Len(old))
      PROVE  b[i - Len(old)] = disk[i]
  <2>1. i - Len(old) \in 1..Len(b)
    BY <1>2, <1>6, <1>8
  <2>2. (Len(old) + 1) + (i - Len(old)) - 1 = i
    BY <1>2
  <2>3. b[i - Len(old)] = disk[(Len(old) + 1) + (i - Len(old)) - 1]
    BY <1>3, <2>1
  <2> QED BY <2>2, <2>3
<1>9. Len(reader'.bytes) = n
  BY <1>5, <1>6, <1>7
<1>10. ASSUME NEW i \in 1..n
       PROVE  reader'.bytes[i] = IF i <= Len(old) THEN old[i] ELSE disk[i]
  <2>1. reader'.bytes[i] = IF i <= Len(old) THEN old[i] ELSE b[i - Len(old)]
    BY <1>5, <1>6, <1>7
  <2> QED BY <1>8, <2>1
<1>11. old = reader.bytes
  BY DEF old
<1>12. Len(old) < Len(reader'.bytes) /\ Len(reader'.bytes) <= Len(disk)
  BY <1>2, <1>9
<1> QED BY <1>1, <1>7, <1>9, <1>10, <1>11, <1>12

-----------------------------------------------------------------------------
(* The inductive invariant.                                                *)

\* Before any save has opened the file the invariant holds.
LEMMA InitInv == Init => Inv
<1> SUFFICES ASSUME Init PROVE Inv
  OBVIOUS
<1>1. ASSUME NEW w \in Writers
      PROVE  \E es \in Batches : writer[w] = WriterOf(es)
  BY DEF Init
<1>2. ASSUME NEW w \in Writers
      PROVE  /\ writer[w] \in [phase: {"ready", "write", "done"}, events: Batches,
                               image: Seq(Byte), at: Nat]
             /\ writer[w].phase = "ready" /\ writer[w].at = 0
             /\ writer[w].image = Image(writer[w].events)
  <2> PICK es \in Batches : writer[w] = WriterOf(es)
    BY <1>1
  <2>1. Image(es) \in Seq(Byte)
    BY SharedAssumption, ImageType
  <2> QED BY <2>1 DEF WriterOf
<1>3. writer \in [Writers -> [phase: {"ready", "write", "done"}, events: Batches,
                              image: Seq(Byte), at: Nat]]
  <2>1. writer = [w \in Writers |-> writer[w]]
    BY DEF Init
  <2> QED BY <1>2, <2>1
<1>4. TypeOK
  <2>1. <<>> \in Seq(Byte)
    BY EmptySeq
  <2>2. reader = [phase |-> "ready", bytes |-> <<>>]
    BY DEF Init
  <2>3. reader \in [phase: {"ready", "read", "done"}, bytes: Seq(Byte)]
    BY <2>1, <2>2
  <2>4. ~(reader.phase = "read" \/ \E w \in Writers : writer[w].phase # "ready")
    BY <1>2, <2>2
  <2>5. disk = NoFile /\ last \in Writers /\ alone = TRUE /\ shared = FALSE /\ calm = FALSE
    BY DEF Init
  <2> QED BY <1>3, <2>3, <2>4, <2>5 DEF TypeOK
<1>5. Sending
  BY <1>2, <1>3 DEF Sending, Sent
<1>6. BytesKeepOffset
  BY DEF Init, BytesKeepOffset
<1>7. LastAlone /\ ReadCalmly
  BY DEF Init, LastAlone, ReadCalmly
<1>8. SavesConverge
  BY <1>2 DEF SavesConverge, Agree
<1> QED BY <1>4, <1>5, <1>6, <1>7, <1>8 DEF Inv

\* save opens the file: it is empty, and w has everything to send.
LEMMA SaveOpenKeepsInv ==
  ASSUME Inv, NEW w \in Writers, SaveOpen(w)
  PROVE  Inv'
<1> USE DEF SaveOpen
<1>1. TypeOK /\ Sending /\ BytesKeepOffset
  BY DEF Inv
<1>2. /\ disk' = <<>> /\ Len(disk') = 0 /\ disk' \in Seq(Byte) /\ disk' # NoFile
  <2>1. disk' = <<>>
    OBVIOUS
  <2>2. <<>> \in Seq(Byte) /\ Len(<<>>) = 0
    BY EmptySeq
  <2>3. NoFile \notin Seq(Byte)
    BY SharedAssumption
  <2> QED BY <2>1, <2>2, <2>3
<1>3. /\ writer' \in [Writers -> [phase: {"ready", "write", "done"}, events: Batches,
                                  image: Seq(Byte), at: Nat]]
      /\ writer'[w].phase = "write" /\ writer[w].at = 0
      /\ \A v \in Writers :
           /\ v # w => writer'[v].phase = writer[v].phase
           /\ writer'[v].at = writer[v].at /\ writer'[v].image = writer[v].image
           /\ writer'[v].events = writer[v].events
  BY <1>1 DEF TypeOK, Sending
<1>4. TypeOK'
  <2>1. alone' \in BOOLEAN /\ shared' \in BOOLEAN /\ calm' \in BOOLEAN
    BY <1>1 DEF TypeOK
  <2> QED BY <1>1, <1>2, <1>3, <2>1 DEF TypeOK
<1>5. Sending'
  BY <1>1, <1>3 DEF Sending, Sent
<1>6. BytesKeepOffset'
  BY <1>1, <1>2, <1>3 DEF BytesKeepOffset, Written, Sent
<1>7. LastAlone'
  <2>1. ASSUME alone', NEW v \in Writers, writer'[v].phase = "write"
        PROVE  v = w
    BY <1>3, <2>1
  <2>2. last' = w /\ Len(disk') = writer'[last'].at /\ ~\E i \in 1..Len(disk') : TRUE
    BY <1>2, <1>3
  <2> QED BY <2>1, <2>2 DEF LastAlone
<1>8. ReadCalmly'
  BY DEF Inv, ReadCalmly
<1>9. SavesConverge'
  <2> SUFFICES ASSUME NEW u \in Writers, Agree(u)'
               PROVE  /\ Len(disk') <= Len(Sent(u)')
                      /\ \A i \in 1..Len(Sent(u)') : Due(u, i)'
    BY DEF SavesConverge
  <2>1. Sent(u)' \in Seq(Byte)
    BY <1>3 DEF Sent
  <2>2. ASSUME NEW i \in 1..Len(Sent(u)')
        PROVE  Due(u, i)'
    BY <1>3 DEF Due
  <2> QED BY <1>2, <2>1, <2>2
<1> QED BY <1>4, <1>5, <1>6, <1>7, <1>8, <1>9 DEF Inv

\* A part of the image goes out: the file changes at offsets that w has reached.
LEMMA WriteSomeKeepsInv ==
  ASSUME Inv, NEW w \in Writers, WriteSome(w)
  PROVE  Inv'
<1>1. TypeOK /\ Sending /\ BytesKeepOffset /\ LastAlone /\ ReadCalmly /\ SavesConverge
  BY DEF Inv
<1>2. /\ writer[w].phase = "write" /\ disk \in Seq(Byte) /\ disk # NoFile
      /\ writer[w].at \in Nat /\ Sent(w) \in Seq(Byte)
  BY <1>1, WriteEffect
<1> PICK n \in Nat :
      /\ writer[w].at < n /\ n <= Len(Sent(w))
      /\ writer' = [writer EXCEPT ![w].at = n]
      /\ disk' \in Seq(Byte)
      /\ Len(disk') = IF Len(disk) > n THEN Len(disk) ELSE n
      /\ \A i \in 1..Len(disk') :
           disk'[i] = IF i <= writer[w].at THEN IF i <= Len(disk) THEN disk[i] ELSE Hole
                      ELSE IF i <= n THEN Sent(w)[i] ELSE disk[i]
  BY <1>1, WriteEffect
<1>3. UNCHANGED <<reader, loaded, last, alone, shared, calm>>
  BY DEF WriteSome
<1>4. /\ writer' \in [Writers -> [phase: {"ready", "write", "done"}, events: Batches,
                                  image: Seq(Byte), at: Nat]]
      /\ writer'[w].at = n
      /\ \A v \in Writers :
           /\ writer'[v].phase = writer[v].phase /\ writer'[v].image = writer[v].image
           /\ writer'[v].events = writer[v].events
           /\ v # w => writer'[v].at = writer[v].at
  <2>1. writer \in [Writers -> [phase: {"ready", "write", "done"}, events: Batches,
                                image: Seq(Byte), at: Nat]]
    BY <1>1 DEF TypeOK
  <2>2. [writer[w] EXCEPT !.at = n] \in [phase: {"ready", "write", "done"}, events: Batches,
                                         image: Seq(Byte), at: Nat]
    BY <2>1
  <2>3. \A v \in Writers : writer'[v] = IF v = w THEN [writer[w] EXCEPT !.at = n] ELSE writer[v]
    BY <2>1
  <2>4. writer' \in [Writers -> [phase: {"ready", "write", "done"}, events: Batches,
                                 image: Seq(Byte), at: Nat]]
    BY <2>1, <2>2
  <2> QED BY <2>1, <2>3, <2>4
<1>5. \A v \in Writers : /\ writer[v].at \in Nat /\ writer'[v].at \in Nat
                         /\ writer[v].at <= writer'[v].at /\ Sent(v)' = Sent(v)
  BY <1>1, <1>2, <1>4 DEF TypeOK, Sent
<1>6. Len(disk) \in Nat /\ Len(disk') \in Nat /\ disk' # NoFile
  BY <1>2, SharedAssumption
<1>7. TypeOK'
  BY <1>1, <1>3, <1>4, <1>6 DEF TypeOK
<1>8. Sending'
  BY <1>1, <1>2, <1>4, <1>5 DEF Sending, Sent
<1>9. BytesKeepOffset'
  <2>1. \A v \in Writers, i \in Nat :
          i <= writer[v].at => i <= writer'[v].at /\ Sent(v)'[i] = Sent(v)[i]
    BY <1>5
  <2>2. ASSUME NEW i \in 1..Len(disk')
        PROVE  \E v \in Writers : i <= writer'[v].at /\ disk'[i] \in {Sent(v)'[i], Hole}
    <3>1. CASE i <= n
      <4>1. CASE i <= writer[w].at /\ i <= Len(disk)
        <5>1. i \in 1..Len(disk) /\ disk'[i] = disk[i]
          BY <2>2, <4>1
        <5>2. PICK v \in Writers : i <= writer[v].at /\ disk[i] \in {Sent(v)[i], Hole}
          BY <1>1, <1>2, <5>1 DEF BytesKeepOffset, Written
        <5>3. i <= writer'[v].at /\ Sent(v)'[i] = Sent(v)[i]
          BY <2>1, <2>2, <5>2
        <5> QED BY <5>1, <5>2, <5>3
      <4>2. CASE ~(i <= writer[w].at /\ i <= Len(disk))
        <5>1. disk'[i] \in {Sent(w)[i], Hole}
          BY <2>2, <3>1, <4>2
        <5> QED BY <1>4, <1>5, <3>1, <5>1
      <4> QED BY <4>1, <4>2
    <3>2. CASE ~(i <= n)
      <4>1. i \in 1..Len(disk) /\ disk'[i] = disk[i]
        BY <1>2, <1>6, <2>2, <3>2
      <4>2. PICK v \in Writers : i <= writer[v].at /\ disk[i] \in {Sent(v)[i], Hole}
        BY <1>1, <1>2, <4>1 DEF BytesKeepOffset, Written
      <4>3. i <= writer'[v].at /\ Sent(v)'[i] = Sent(v)[i]
        BY <2>1, <2>2, <4>2
      <4> QED BY <4>1, <4>2, <4>3
    <3> QED BY <3>1, <3>2
  <2>3. ASSUME NEW i \in 1..Len(reader.bytes)
        PROVE  \E v \in Writers : i <= writer'[v].at /\ reader.bytes[i] \in {Sent(v)'[i], Hole}
    <3>1. PICK v \in Writers : i <= writer[v].at /\ reader.bytes[i] \in {Sent(v)[i], Hole}
      BY <1>1 DEF BytesKeepOffset, Written
    <3>2. i <= writer'[v].at /\ Sent(v)'[i] = Sent(v)[i]
      BY <2>1, <2>3, <3>1
    <3> QED BY <3>1, <3>2
  <2>4. reader' = reader
    BY <1>3
  <2> QED BY <2>2, <2>3, <2>4 DEF BytesKeepOffset, Written
<1>10. LastAlone' /\ ReadCalmly'
  <2>1. CASE ~alone
    BY <1>1, <1>3, <2>1 DEF LastAlone, ReadCalmly
  <2>2. CASE alone
    <3>1. last = w /\ Len(disk) = writer[w].at
      BY <1>1, <1>2, <2>2 DEF LastAlone
    <3>2. Len(disk') = n
      BY <1>2, <3>1
    <3>3. ASSUME NEW i \in 1..n
          PROVE  disk'[i] = Sent(w)[i]
      BY <1>1, <1>2, <2>2, <3>1, <3>2 DEF LastAlone
    <3>4. LastAlone'
      BY <1>1, <1>2, <1>3, <1>4, <1>5, <2>2, <3>1, <3>2, <3>3 DEF LastAlone
    <3>5. ReadCalmly'
      <4>1. reader.bytes \in Seq(Byte)
        BY <1>1 DEF TypeOK
      <4> QED BY <1>1, <1>2, <1>3, <1>4, <1>5, <1>6, <3>1, <4>1 DEF ReadCalmly
    <3> QED BY <3>4, <3>5
  <2> QED BY <2>1, <2>2
<1>11. SavesConverge'
  <2> SUFFICES ASSUME NEW u \in Writers, Agree(u)'
               PROVE  /\ Len(disk') <= Len(Sent(u)')
                      /\ \A i \in 1..Len(Sent(u)') : Due(u, i)'
    BY DEF SavesConverge
  <2>1. Agree(u) /\ Sent(u) = Sent(w)
    <3>1. Agree(u)
      BY <1>4 DEF Agree
    <3>2. writer[w].events = writer[u].events
      BY <1>2, <3>1 DEF Agree
    <3> QED BY <1>1, <3>1, <3>2 DEF Sending, Sent
  <2>2. Len(disk) <= Len(Sent(w)) /\ \A i \in 1..Len(Sent(w)) : Due(u, i)
    BY <1>1, <2>1 DEF SavesConverge
  <2>3. ASSUME NEW i \in 1..Len(Sent(w))
        PROVE  Due(u, i)'
    <3>1. i \in Nat /\ i >= 1
      OBVIOUS
    <3>2. CASE writer[w].at < i /\ i <= n
      <4>1. i \in 1..Len(disk') /\ disk'[i] = Sent(w)[i]
        BY <1>2, <1>6, <3>1, <3>2
      <4> QED BY <1>5, <2>1, <4>1 DEF Due
    <3>3. CASE n < i
      <4>1. writer'[w].phase = "write" /\ writer'[w].at < i
        BY <1>2, <1>4, <3>3
      <4> QED BY <4>1 DEF Due
    <3>4. CASE i <= writer[w].at
      <4>1. CASE i <= Len(disk) /\ disk[i] = Sent(u)[i]
        <5>1. i \in 1..Len(disk') /\ disk'[i] = disk[i]
          BY <1>2, <1>6, <3>1, <3>4, <4>1
        <5> QED BY <1>5, <4>1, <5>1 DEF Due
      <4>2. CASE \E v \in Writers : writer[v].phase = "write" /\ writer[v].at < i
        <5> PICK v \in Writers : writer[v].phase = "write" /\ writer[v].at < i
          BY <4>2
        <5>1. v # w
          BY <1>2, <3>1, <3>4
        <5>2. writer'[v].phase = "write" /\ writer'[v].at < i
          BY <1>4, <5>1
        <5> QED BY <5>2 DEF Due
      <4> QED BY <2>2, <4>1, <4>2 DEF Due
    <3> QED BY <1>2, <3>1, <3>2, <3>3, <3>4
  <2>4. Len(disk') <= Len(Sent(w))
    BY <1>2, <1>6, <2>2
  <2> QED BY <1>5, <2>1, <2>3, <2>4
<1> QED BY <1>7, <1>8, <1>9, <1>10, <1>11 DEF Inv

\* save returns: w has sent everything.
LEMMA SaveReturnKeepsInv ==
  ASSUME Inv, NEW w \in Writers, SaveReturn(w)
  PROVE  Inv'
<1> USE DEF SaveReturn
<1>1. TypeOK /\ Sending /\ BytesKeepOffset /\ LastAlone /\ ReadCalmly /\ SavesConverge
  BY DEF Inv
<1>2. /\ writer' \in [Writers -> [phase: {"ready", "write", "done"}, events: Batches,
                                  image: Seq(Byte), at: Nat]]
      /\ writer[w].phase = "write" /\ writer'[w].phase = "done"
      /\ writer[w].at = Len(Sent(w))
      /\ \A v \in Writers :
           /\ v # w => writer'[v].phase = writer[v].phase
           /\ writer'[v].at = writer[v].at /\ writer'[v].image = writer[v].image
           /\ writer'[v].events = writer[v].events
  BY <1>1 DEF TypeOK
<1>3. TypeOK'
  BY <1>1, <1>2 DEF TypeOK
<1>4. Sending'
  BY <1>1, <1>2 DEF Sending, Sent
<1>5. BytesKeepOffset'
  BY <1>1, <1>2 DEF BytesKeepOffset, Written, Sent
<1>6. LastAlone'
  BY <1>1, <1>2 DEF LastAlone, TypeOK, Sent
<1>7. ReadCalmly'
  BY <1>1, <1>2 DEF ReadCalmly, TypeOK, Sent
<1>8. SavesConverge'
  <2> SUFFICES ASSUME NEW u \in Writers, Agree(u)'
               PROVE  /\ Len(disk') <= Len(Sent(u)')
                      /\ \A i \in 1..Len(Sent(u)') : Due(u, i)'
    BY DEF SavesConverge
  <2>1. Agree(u)
    BY <1>2 DEF Agree
  <2>2. Sent(u) = Sent(w) /\ Sent(u)' = Sent(u)
    <3>1. writer[w].events = writer[u].events
      BY <1>2, <2>1 DEF Agree
    <3> QED BY <1>1, <1>2, <3>1 DEF Sending, Sent
  <2>3. Len(disk) <= Len(Sent(u)) /\ \A i \in 1..Len(Sent(u)) : Due(u, i)
    BY <1>1, <2>1 DEF SavesConverge
  <2>4. ASSUME NEW i \in 1..Len(Sent(u))
        PROVE  Due(u, i)'
    <3>1. CASE i <= Len(disk) /\ disk[i] = Sent(u)[i]
      BY <2>2, <3>1 DEF Due
    <3>2. CASE \E v \in Writers : writer[v].phase = "write" /\ writer[v].at < i
      <4> PICK v \in Writers : writer[v].phase = "write" /\ writer[v].at < i
        BY <3>2
      <4>1. v # w
        BY <1>2, <2>2
      <4>2. writer'[v].phase = "write" /\ writer'[v].at < i
        BY <1>2, <4>1
      <4> QED BY <4>2 DEF Due
    <3> QED BY <2>3, <3>1, <3>2 DEF Due
  <2> QED BY <2>2, <2>3, <2>4
<1> QED BY <1>3, <1>4, <1>5, <1>6, <1>7, <1>8 DEF Inv

\* What only the reader does leaves the writers and the file as they are.
LEMMA ReaderKeepsWriters ==
  ASSUME Sending, LastAlone, SavesConverge, UNCHANGED <<disk, writer, last, alone, shared>>
  PROVE  Sending' /\ LastAlone' /\ SavesConverge'
<1>1. Sending'
  BY DEF Sending, Sent
<1>2. LastAlone'
  BY DEF LastAlone, Sent
<1>3. SavesConverge'
  BY DEF SavesConverge, Agree, Due, Sent
<1> QED BY <1>1, <1>2, <1>3

\* The steps of the reader.
LEMMA ReaderKeepsInv ==
  ASSUME Inv, LoadOpen \/ ReadSome \/ ReadEnd
  PROVE  Inv'
<1>1. TypeOK /\ Sending /\ BytesKeepOffset /\ LastAlone /\ ReadCalmly /\ SavesConverge
  BY DEF Inv
<1>2. UNCHANGED <<disk, writer, last, alone, shared>>
  BY DEF LoadOpen, ReadSome, ReadEnd
<1>3. Sending' /\ LastAlone' /\ SavesConverge'
  BY <1>1, <1>2, ReaderKeepsWriters
<1>4. CASE LoadOpen
  <2>1. reader'.bytes = reader.bytes /\ calm' \in BOOLEAN
        /\ reader' \in [phase: {"ready", "read", "done"}, bytes: Seq(Byte)]
        /\ (reader'.phase = "read" => disk # NoFile)
    BY <1>1, <1>4 DEF LoadOpen, TypeOK
  <2>2. TypeOK'
    BY <1>1, <1>2, <2>1 DEF TypeOK
  <2>3. BytesKeepOffset'
    BY <1>1, <1>2, <2>1 DEF BytesKeepOffset, Written, Sent
  <2>4. ReadCalmly'
    <3>1. /\ Len(reader'.bytes) = 0 /\ writer[last].at \in Nat
          /\ reader'.phase # "ready" /\ (calm' => disk # NoFile /\ alone)
      BY <1>1, <1>4, <2>1 DEF ReadCalmly, LoadOpen, TypeOK
    <3>2. ~\E i \in 1..Len(reader'.bytes) : TRUE
      BY <3>1
    <3> QED BY <1>2, <3>1, <3>2 DEF ReadCalmly
  <2> QED BY <1>3, <2>2, <2>3, <2>4 DEF Inv
<1>5. CASE ReadSome
  <2>1. /\ disk \in Seq(Byte) /\ reader.bytes \in Seq(Byte)
        /\ reader' \in [phase: {"read"}, bytes: Seq(Byte)]
        /\ Len(reader.bytes) < Len(reader'.bytes) /\ Len(reader'.bytes) <= Len(disk)
        /\ \A i \in 1..Len(reader'.bytes) :
             reader'.bytes[i] = IF i <= Len(reader.bytes) THEN reader.bytes[i] ELSE disk[i]
    BY <1>1, <1>5, ReadEffect
  <2>2. calm' = calm /\ disk # NoFile
    BY <1>1, <1>5 DEF ReadSome, TypeOK
  <2>3. TypeOK'
    BY <1>1, <1>2, <2>1, <2>2 DEF TypeOK
  <2>4. BytesKeepOffset'
    <3>1. ASSUME NEW i \in 1..Len(reader'.bytes)
          PROVE  \E v \in Writers : i <= writer[v].at /\ reader'.bytes[i] \in {Sent(v)[i], Hole}
      <4>1. CASE i <= Len(reader.bytes)
        <5>1. i \in 1..Len(reader.bytes) /\ reader'.bytes[i] = reader.bytes[i]
          BY <2>1, <4>1
        <5> QED BY <1>1, <5>1 DEF BytesKeepOffset, Written
      <4>2. CASE ~(i <= Len(reader.bytes))
        <5>1. i \in 1..Len(disk) /\ reader'.bytes[i] = disk[i]
          BY <2>1, <4>2
        <5> QED BY <1>1, <2>2, <5>1 DEF BytesKeepOffset, Written
      <4> QED BY <4>1, <4>2
    <3> QED BY <1>1, <1>2, <3>1 DEF BytesKeepOffset, Written, Sent
  <2>5. ReadCalmly'
    <3>0. reader'.phase # "ready"
      BY <2>1
    <3> SUFFICES ASSUME calm
                 PROVE  /\ alone /\ Len(reader'.bytes) <= writer[last].at
                        /\ \A i \in 1..Len(reader'.bytes) : reader'.bytes[i] = Sent(last)[i]
      BY <1>2, <2>2, <3>0 DEF ReadCalmly, Sent
    <3>1. /\ alone /\ Len(disk) = writer[last].at
          /\ \A i \in 1..Len(disk) : disk[i] = Sent(last)[i]
          /\ \A i \in 1..Len(reader.bytes) : reader.bytes[i] = Sent(last)[i]
      BY <1>1 DEF ReadCalmly, LastAlone
    <3>2. ASSUME NEW i \in 1..Len(reader'.bytes)
          PROVE  reader'.bytes[i] = Sent(last)[i]
      <4>1. i \in 1..Len(disk)
        BY <2>1
      <4> QED BY <2>1, <3>1, <4>1
    <3> QED BY <2>1, <3>1, <3>2
  <2> QED BY <1>3, <2>3, <2>4, <2>5 DEF Inv
<1>6. CASE ReadEnd
  <2>1. reader'.bytes = reader.bytes /\ calm' = calm /\ reader'.phase = "done"
        /\ reader' \in [phase: {"ready", "read", "done"}, bytes: Seq(Byte)]
    BY <1>1, <1>6 DEF ReadEnd, TypeOK
  <2>2. TypeOK'
    BY <1>1, <1>2, <2>1 DEF TypeOK
  <2>3. BytesKeepOffset'
    BY <1>1, <1>2, <2>1 DEF BytesKeepOffset, Written, Sent
  <2>4. ReadCalmly'
    BY <1>1, <1>2, <2>1 DEF ReadCalmly, Sent
  <2> QED BY <1>3, <2>2, <2>3, <2>4 DEF Inv
<1> QED BY <1>4, <1>5, <1>6

\* Whatever step a save or the load takes next keeps the invariant.
LEMMA NextKeepsInv == Inv /\ [Next]_vars => Inv'
<1> SUFFICES ASSUME Inv, [Next]_vars PROVE Inv'
  OBVIOUS
<1>1. CASE UNCHANGED vars
  BY <1>1 DEF Inv, vars, TypeOK, Sending, BytesKeepOffset, Written, LastAlone, ReadCalmly,
              SavesConverge, Agree, Due, Sent
<1>2. CASE \E w \in Writers : SaveOpen(w) \/ WriteSome(w) \/ SaveReturn(w)
  BY <1>2, SaveOpenKeepsInv, WriteSomeKeepsInv, SaveReturnKeepsInv
<1>3. CASE LoadOpen \/ ReadSome \/ ReadEnd
  BY <1>3, ReaderKeepsInv
<1> QED BY <1>1, <1>2, <1>3 DEF Next

\* The inductive invariant of the file that RecordStore::save and load share.
THEOREM InvHolds == Spec => []Inv
  BY InitInv, NextKeepsInv, PTL DEF Spec

-----------------------------------------------------------------------------
(* What follows.                                                           *)

\* Every process and the file keep their types, and a file that is open is there.
THEOREM TypeCorrect == Spec => []TypeOK
<1>1. Inv => TypeOK
  BY DEF Inv
<1> QED BY <1>1, InvHolds, PTL

\* However many saves and a load interleave, a byte in the file or in the reader
\* is one that some save has at that offset, or a hole.
THEOREM BytesKeepOffsetHolds == Spec => []BytesKeepOffset
<1>1. Inv => BytesKeepOffset
  BY DEF Inv
<1> QED BY <1>1, InvHolds, PTL

\* A load beside one growing save has read the beginning of what that save sends.
THEOREM CalmReadIsCutHolds == Spec => []CalmReadIsCut
<1>1. Inv => CalmReadIsCut
  <2> SUFFICES ASSUME Inv, calm PROVE IsPrefix(reader.bytes, Sent(last))
    BY DEF CalmReadIsCut
  <2>1. /\ reader.bytes \in Seq(Byte) /\ Sent(last) \in Seq(Byte)
        /\ writer[last].at \in Nat /\ writer[last].at <= Len(Sent(last))
    BY DEF Inv, TypeOK, Sending, Sent
  <2>2. /\ Len(reader.bytes) <= writer[last].at
        /\ \A i \in 1..Len(reader.bytes) : reader.bytes[i] = Sent(last)[i]
    BY DEF Inv, ReadCalmly
  <2>3. Len(reader.bytes) <= Len(Sent(last))
    BY <2>1, <2>2
  <2> DEFINE part == SubSeq(Sent(last), 1, Len(reader.bytes))
  <2>4. /\ part \in Seq(Byte) /\ Len(part) = Len(reader.bytes)
        /\ \A i \in 1..Len(part) : part[i] = Sent(last)[i]
    BY <2>1, <2>3, Part
  <2>5. reader.bytes = part
    <3> HIDE DEF part
    <3> QED BY <2>1, <2>2, <2>4, SeqEqual
  <2>6. SubSeq(reader.bytes, 1, Len(reader.bytes)) = reader.bytes
    BY <2>1, SubSeqFull
  <2> QED BY <2>3, <2>5, <2>6 DEF IsPrefix
<1> QED BY <1>1, InvHolds, PTL

\* Any number of saves of the same events converge: when all that began are done
\* the file is the image of those events.
THEOREM SameSavesAgreeHolds == Spec => []SameSavesAgree
<1>1. Inv => SameSavesAgree
  <2> SUFFICES ASSUME Inv, NEW w \in Writers, writer[w].phase = "done",
                      \A v \in Writers :
                        \/ writer[v].phase = "ready"
                        \/ writer[v].phase = "done" /\ writer[v].events = writer[w].events
               PROVE  disk = Sent(w)
    BY DEF SameSavesAgree
  <2>1. Agree(w) /\ ~\E v \in Writers : writer[v].phase = "write"
    BY DEF Agree
  <2>2. Len(disk) <= Len(Sent(w)) /\ \A i \in 1..Len(Sent(w)) : Due(w, i)
    BY <2>1 DEF Inv, SavesConverge
  <2>3. \A i \in 1..Len(Sent(w)) : i <= Len(disk) /\ disk[i] = Sent(w)[i]
    BY <2>1, <2>2 DEF Due
  <2>4. disk \in Seq(Byte) /\ Sent(w) \in Seq(Byte)
    BY DEF Inv, TypeOK, Sent
  <2>5. Len(disk) = Len(Sent(w))
    <3>1. CASE Len(Sent(w)) = 0
      BY <2>2, <2>4, <3>1
    <3>2. CASE Len(Sent(w)) # 0
      <4>1. Len(Sent(w)) \in 1..Len(Sent(w))
        BY <2>4, <3>2
      <4>2. Len(Sent(w)) <= Len(disk)
        BY <2>3, <4>1
      <4> QED BY <2>2, <2>4, <4>2
    <3> QED BY <3>1, <3>2
  <2>6. \A i \in 1..Len(disk) : disk[i] = Sent(w)[i]
    BY <2>3, <2>5
  <2> QED BY <2>4, <2>5, <2>6, SeqEqual
<1> QED BY <1>1, InvHolds, PTL

-----------------------------------------------------------------------------
(* What a load makes of the file, also of one that is written meanwhile.   *)

\* Some save has this byte at this offset, and has sent it.
Saved(byte, i) ==
  \E w \in Writers :
    writer[w].phase # "ready" /\ i <= writer[w].at /\ byte = Sent(w)[i]

\* When no save has opened the file while another one had it open there are no holes.
NoHoles ==
  ~shared =>
    /\ alone
    /\ disk # NoFile => \A i \in 1..Len(disk) : Saved(disk[i], i)
    /\ \A i \in 1..Len(reader.bytes) : Saved(reader.bytes[i], i)

\* A load that is done found no file, or has decoded what it read.
Decoded ==
  /\ disk # NoFile => \E w \in Writers : writer[w].phase # "ready"
  /\ reader.phase # "done" => loaded = [result |-> "none", events |-> <<>>]
  /\ reader.phase = "done" =>
       \/ loaded.result = "io_error" /\ ~calm
       \/ disk # NoFile /\ loaded = LoadBytes(reader.bytes)

LoadedInv == Inv /\ NoHoles /\ Decoded

\* A byte that a save has sent stays one.
LEMMA SavedStays ==
  ASSUME NEW byte, NEW i \in Nat, Saved(byte, i),
         \A v \in Writers :
           /\ writer[v].phase # "ready" => writer'[v].phase # "ready"
           /\ writer[v].at \in Nat /\ writer'[v].at \in Nat /\ writer[v].at <= writer'[v].at
           /\ writer'[v].image = writer[v].image
  PROVE  \E v \in Writers :
           writer'[v].phase # "ready" /\ i <= writer'[v].at /\ byte = Sent(v)'[i]
<1>1. PICK v \in Writers : /\ writer[v].phase # "ready" /\ i <= writer[v].at
                           /\ byte = Sent(v)[i]
  BY DEF Saved
<1>2. writer'[v].phase # "ready" /\ i <= writer'[v].at /\ byte = Sent(v)'[i]
  BY <1>1 DEF Sent
<1> QED BY <1>2

\* Before any save and the load.
LEMMA LoadedInit == Init => LoadedInv
<1> SUFFICES ASSUME Init PROVE LoadedInv
  OBVIOUS
<1>1. Len(reader.bytes) = 0 /\ disk = NoFile /\ alone = TRUE
      /\ reader.phase = "ready" /\ loaded = [result |-> "none", events |-> <<>>]
  BY DEF Init
<1>2. NoHoles
  BY <1>1 DEF NoHoles
<1>3. Decoded
  BY <1>1 DEF Decoded
<1> QED BY <1>2, <1>3, InitInv DEF LoadedInv

\* save opens the file.
LEMMA LoadedOpen ==
  ASSUME LoadedInv, NEW w \in Writers, SaveOpen(w)
  PROVE  NoHoles' /\ Decoded'
<1>1. TypeOK /\ NoHoles /\ Decoded
  BY DEF LoadedInv, Inv
<1>2. /\ disk' = <<>> /\ writer' = [writer EXCEPT ![w].phase = "write"]
      /\ shared' = (shared \/ ~alone') /\ calm' = FALSE /\ reader' = reader /\ loaded' = loaded
  BY DEF SaveOpen
<1>3. /\ Len(disk') = 0 /\ disk' # NoFile
  BY <1>2, EmptySeq, SharedAssumption
<1>4. /\ writer'[w].phase = "write"
      /\ \A v \in Writers :
           /\ writer[v].phase # "ready" => writer'[v].phase # "ready"
           /\ writer[v].at \in Nat /\ writer'[v].at \in Nat /\ writer[v].at <= writer'[v].at
           /\ writer'[v].image = writer[v].image
  BY <1>1, <1>2 DEF TypeOK
<1>5. NoHoles'
  <2>1. ASSUME ~shared' PROVE alone' /\ ~shared
    BY <1>2, <2>1
  <2>2. ASSUME ~shared, NEW i \in 1..Len(reader.bytes)
        PROVE  \E v \in Writers : /\ writer'[v].phase # "ready" /\ i <= writer'[v].at
                                  /\ reader.bytes[i] = Sent(v)'[i]
    <3>1. Saved(reader.bytes[i], i) /\ i \in Nat
      BY <1>1, <2>2 DEF NoHoles
    <3> QED BY <1>4, <3>1, SavedStays
  <2>3. \A i \in 1..Len(disk') : FALSE
    BY <1>3
  <2> QED BY <1>2, <2>1, <2>2, <2>3 DEF NoHoles, Saved
<1>6. Decoded'
  BY <1>1, <1>2, <1>3, <1>4 DEF Decoded
<1> QED BY <1>5, <1>6

\* A part of the image goes out. The only save that writes is the one that was the last
\* to open the file, and it stands at the end of what it has sent: no hole is left.
LEMMA LoadedWrite ==
  ASSUME LoadedInv, NEW w \in Writers, WriteSome(w)
  PROVE  NoHoles' /\ Decoded'
<1>1. TypeOK /\ Sending /\ LastAlone /\ NoHoles /\ Decoded
  BY DEF LoadedInv, Inv
<1>2. /\ writer[w].phase = "write" /\ disk \in Seq(Byte) /\ disk # NoFile
      /\ writer[w].at \in Nat /\ Sent(w) \in Seq(Byte)
  BY <1>1, WriteEffect
<1>3. PICK n \in Nat :
        /\ writer[w].at < n /\ n <= Len(Sent(w))
        /\ writer' = [writer EXCEPT ![w].at = n]
        /\ disk' \in Seq(Byte)
        /\ Len(disk') = IF Len(disk) > n THEN Len(disk) ELSE n
        /\ \A i \in 1..Len(disk') :
             disk'[i] = IF i <= writer[w].at THEN IF i <= Len(disk) THEN disk[i] ELSE Hole
                        ELSE IF i <= n THEN Sent(w)[i] ELSE disk[i]
  BY <1>1, WriteEffect
<1>4. UNCHANGED <<reader, loaded, last, alone, shared, calm>>
  BY DEF WriteSome
<1>5. /\ writer'[w].at = n /\ writer'[w].phase = "write" /\ Sent(w)' = Sent(w)
      /\ \A v \in Writers :
           /\ writer[v].phase # "ready" => writer'[v].phase # "ready"
           /\ writer[v].at \in Nat /\ writer'[v].at \in Nat /\ writer[v].at <= writer'[v].at
           /\ writer'[v].image = writer[v].image
  BY <1>1, <1>2, <1>3 DEF TypeOK, Sent
<1>6. disk' # NoFile
  BY <1>3, SharedAssumption
<1>7. NoHoles'
  <2>1. ASSUME ~shared PROVE alone /\ Len(disk) = writer[w].at /\ Len(disk') = n
    <3>1. alone /\ w = last
      BY <1>1, <1>2, <2>1 DEF NoHoles, LastAlone
    <3>2. Len(disk) = writer[w].at
      BY <1>1, <1>2, <3>1 DEF LastAlone
    <3> QED BY <1>2, <1>3, <3>1, <3>2
  <2>2. ASSUME ~shared, NEW i \in 1..Len(reader.bytes)
        PROVE  \E v \in Writers : /\ writer'[v].phase # "ready" /\ i <= writer'[v].at
                                  /\ reader.bytes[i] = Sent(v)'[i]
    <3>1. Saved(reader.bytes[i], i) /\ i \in Nat
      BY <1>1, <2>2 DEF NoHoles
    <3> QED BY <1>5, <3>1, SavedStays
  <2>3. ASSUME ~shared, NEW i \in 1..Len(disk')
        PROVE  \E v \in Writers : /\ writer'[v].phase # "ready" /\ i <= writer'[v].at
                                  /\ disk'[i] = Sent(v)'[i]
    <3>1. i \in Nat /\ i <= n /\ Len(disk) = writer[w].at /\ i >= 1
      BY <1>3, <2>1, <2>3
    <3>2. CASE i <= writer[w].at
      <4>1. disk'[i] = disk[i] /\ i \in 1..Len(disk)
        BY <1>2, <1>3, <2>3, <3>1, <3>2
      <4>2. Saved(disk[i], i)
        BY <1>1, <1>2, <2>3, <4>1 DEF NoHoles
      <4> QED BY <1>5, <3>1, <4>1, <4>2, SavedStays
    <3>3. CASE ~(i <= writer[w].at)
      <4>1. disk'[i] = Sent(w)[i]
        BY <1>3, <2>3, <3>1, <3>3
      <4> QED BY <1>5, <3>1, <4>1
    <3> QED BY <3>2, <3>3
  <2> QED BY <1>4, <1>6, <2>1, <2>2, <2>3 DEF NoHoles, Saved
<1>8. Decoded'
  BY <1>1, <1>2, <1>4, <1>5, <1>6 DEF Decoded
<1> QED BY <1>7, <1>8

\* save returns.
LEMMA LoadedReturn ==
  ASSUME LoadedInv, NEW w \in Writers, SaveReturn(w)
  PROVE  NoHoles' /\ Decoded'
<1>1. TypeOK /\ NoHoles /\ Decoded
  BY DEF LoadedInv, Inv
<1>2. /\ writer[w].phase = "write" /\ writer' = [writer EXCEPT ![w].phase = "done"]
      /\ UNCHANGED <<disk, reader, loaded, last, alone, shared, calm>>
  BY DEF SaveReturn
<1>3. /\ writer'[w].phase = "done"
      /\ \A v \in Writers :
           /\ writer[v].phase # "ready" => writer'[v].phase # "ready"
           /\ writer[v].at = writer'[v].at
           /\ writer'[v].image = writer[v].image
  BY <1>1, <1>2 DEF TypeOK
<1>4. NoHoles'
  BY <1>1, <1>2, <1>3 DEF NoHoles, Saved, Sent
<1>5. Decoded'
  BY <1>1, <1>2, <1>3 DEF Decoded
<1> QED BY <1>4, <1>5

\* The steps of the load.
LEMMA LoadedRead ==
  ASSUME LoadedInv, LoadOpen \/ ReadSome \/ ReadEnd
  PROVE  NoHoles' /\ Decoded'
<1>1. TypeOK /\ NoHoles /\ Decoded
  BY DEF LoadedInv, Inv
<1>2. UNCHANGED <<disk, writer, last, alone, shared>>
  BY DEF LoadOpen, ReadSome, ReadEnd
<1>3. reader \in [phase: {"ready", "read", "done"}, bytes: Seq(Byte)]
  BY <1>1 DEF TypeOK
<1>4. CASE LoadOpen
  <2>1. /\ reader'.bytes = reader.bytes /\ reader.phase = "ready"
        /\ loaded = [result |-> "none", events |-> <<>>]
        /\ calm' = (disk # NoFile /\ alone)
        /\ \/ /\ disk = NoFile /\ reader'.phase = "done"
              /\ loaded' = [loaded EXCEPT !.result = "io_error"]
           \/ disk # NoFile /\ reader'.phase = "read" /\ loaded' = loaded
    BY <1>1, <1>3, <1>4 DEF LoadOpen, Decoded
  <2>2. NoHoles'
    BY <1>1, <1>2, <2>1 DEF NoHoles, Saved, Sent
  <2>3. CASE disk = NoFile
    <3>1. loaded'.result = "io_error" /\ ~calm' /\ reader'.phase = "done"
      BY <2>1, <2>3
    <3> QED BY <1>1, <1>2, <2>2, <3>1 DEF Decoded
  <2>4. CASE disk # NoFile
    BY <1>1, <1>2, <2>1, <2>2, <2>4 DEF Decoded
  <2> QED BY <2>3, <2>4
<1>5. CASE ReadSome
  <2>1. /\ disk \in Seq(Byte) /\ reader.bytes \in Seq(Byte)
        /\ reader' \in [phase: {"read"}, bytes: Seq(Byte)]
        /\ Len(reader.bytes) < Len(reader'.bytes) /\ Len(reader'.bytes) <= Len(disk)
        /\ \A i \in 1..Len(reader'.bytes) :
             reader'.bytes[i] = IF i <= Len(reader.bytes) THEN reader.bytes[i] ELSE disk[i]
    BY <1>1, <1>5, ReadEffect
  <2>2. loaded' = loaded /\ reader.phase = "read" /\ disk # NoFile /\ reader'.phase = "read"
    BY <1>1, <1>5, <2>1 DEF ReadSome, TypeOK
  <2>3. ASSUME ~shared, NEW i \in 1..Len(reader'.bytes)
        PROVE  Saved(reader'.bytes[i], i)
    <3>1. CASE i <= Len(reader.bytes)
      <4>1. i \in 1..Len(reader.bytes) /\ reader'.bytes[i] = reader.bytes[i]
        BY <2>1, <3>1
      <4> QED BY <1>1, <2>3, <4>1 DEF NoHoles, Saved
    <3>2. CASE ~(i <= Len(reader.bytes))
      <4>1. i \in 1..Len(disk) /\ reader'.bytes[i] = disk[i]
        BY <2>1, <3>2
      <4> QED BY <1>1, <2>2, <2>3, <4>1 DEF NoHoles, Saved
    <3> QED BY <3>1, <3>2
  <2>4. NoHoles'
    BY <1>1, <1>2, <2>3 DEF NoHoles, Saved, Sent
  <2>5. Decoded'
    BY <1>1, <1>2, <2>2 DEF Decoded
  <2> QED BY <2>4, <2>5
<1>6. CASE ReadEnd
  <2>1. /\ reader.phase = "read" /\ reader'.bytes = reader.bytes /\ reader'.phase = "done"
        /\ loaded' = LoadBytes(reader.bytes) /\ calm' = calm
    BY <1>3, <1>6 DEF ReadEnd
  <2>2. disk # NoFile
    BY <1>1, <2>1 DEF TypeOK
  <2>3. NoHoles'
    BY <1>1, <1>2, <2>1 DEF NoHoles, Saved, Sent
  <2>4. loaded' = LoadBytes(reader'.bytes)
    BY <2>1
  <2>5. Decoded'
    BY <1>1, <1>2, <2>1, <2>2, <2>4 DEF Decoded
  <2> QED BY <2>3, <2>5
<1> QED BY <1>4, <1>5, <1>6

\* Every step keeps what is known of a load.
LEMMA LoadedNext == LoadedInv /\ [Next]_vars => LoadedInv'
<1> SUFFICES ASSUME LoadedInv, [Next]_vars PROVE LoadedInv'
  OBVIOUS
<1>1. Inv'
  BY NextKeepsInv DEF LoadedInv
<1>2. CASE UNCHANGED vars
  BY <1>1, <1>2 DEF LoadedInv, vars, NoHoles, Saved, Sent, Decoded
<1>3. CASE \E w \in Writers : SaveOpen(w) \/ WriteSome(w) \/ SaveReturn(w)
  BY <1>1, <1>3, LoadedOpen, LoadedWrite, LoadedReturn DEF LoadedInv
<1>4. CASE LoadOpen \/ ReadSome \/ ReadEnd
  BY <1>1, <1>4, LoadedRead DEF LoadedInv
<1> QED BY <1>2, <1>3, <1>4 DEF Next

\* The invariant of the load holds whatever the saves do.
THEOREM LoadedHolds == Spec => []LoadedInv
  BY LoadedInit, LoadedNext, PTL DEF Spec

\* A load of the beginning of an image gives the first of its events.
LEMMA CutLoadsFirst ==
  ASSUME NEW es \in Batches, NEW b, CutOf(b, es), Len(b) <= Len(Image(es))
  PROVE  LoadBytes(b).result # "io_error" /\ IsPrefix(LoadBytes(b).events, ReadBackAll(es))
<1>1. es \in Seq(Event) /\ Len(Image(es)) \in Word
  BY SharedAssumption, ImagesAssumption
<1>2. CASE LoadBytes(b) = [result |-> "storage_corrupt", events |-> <<>>]
  <2>1. 0 \in 0..Len(es) /\ First(es, 0) = <<>>
    BY <1>1, FirstStep
  <2>2. IsPrefix(<<>>, ReadBackAll(es))
    BY <1>1, <2>1, FirstIsPrefix
  <2> QED BY <1>2, <2>2
<1>3. ASSUME NEW k \in 0..Len(es),
             LoadBytes(b) = [result |-> ResultAfter(Len(b), es, k), events |-> First(es, k)]
      PROVE  LoadBytes(b).result # "io_error" /\ IsPrefix(LoadBytes(b).events, ReadBackAll(es))
  <2>1. ResultAfter(Len(b), es, k) # "io_error"
    BY DEF ResultAfter
  <2>2. IsPrefix(First(es, k), ReadBackAll(es))
    BY <1>1, FirstIsPrefix
  <2> QED BY <1>3, <2>1, <2>2
<1>4. \/ LoadBytes(b) = [result |-> "storage_corrupt", events |-> <<>>]
      \/ \E k \in 0..Len(es) :
           LoadBytes(b) = [result |-> ResultAfter(Len(b), es, k), events |-> First(es, k)]
  BY <1>1, CutReadBack
<1> QED BY <1>2, <1>3, <1>4

\* What load makes of a file that one save was writing alone, of any events, stopped and
\* read at any bytes: the first of its events, and all of them when all bytes were read.
THEOREM CalmLoadIsPrefixHolds == Spec => []CalmLoadIsPrefix
<1>1. LoadedInv => CalmLoadIsPrefix
  <2> SUFFICES ASSUME LoadedInv, reader.phase = "done", calm,
                      NEW es, es = writer[last].events, NEW b, b = reader.bytes
               PROVE  /\ loaded.result # "io_error"
                      /\ IsPrefix(loaded.events, ReadBackAll(es))
                      /\ Len(b) = Len(Sent(last)) =>
                           loaded = [result |-> "ok", events |-> ReadBackAll(es)]
    BY DEF CalmLoadIsPrefix
  <2>1. /\ b \in Seq(Byte) /\ es \in Batches /\ last \in Writers
        /\ Sent(last) = Image(es) /\ Sent(last) \in Seq(Byte)
        /\ writer[last].at \in Nat /\ writer[last].at <= Len(Sent(last))
    BY DEF LoadedInv, Inv, TypeOK, Sending, Sent
  <2>2. /\ Len(b) <= writer[last].at
        /\ \A i \in 1..Len(b) : b[i] = Sent(last)[i]
    BY DEF LoadedInv, Inv, ReadCalmly
  <2>3. loaded = LoadBytes(b)
    BY DEF LoadedInv, Decoded
  <2>4. es \in Seq(Event) /\ Len(Image(es)) \in Word /\ Image(es) \in Seq(Byte)
    BY <2>1, SharedAssumption, ImagesAssumption
  <2>5. CutOf(b, es) /\ Len(b) <= Len(Image(es))
    <3>1. Len(b) \in Nat /\ Len(b) <= Len(Image(es))
      BY <2>1, <2>2
    <3>2. ASSUME NEW i \in 1..Len(Image(es)), 0 + i <= Len(b) PROVE b[0 + i] = Image(es)[i]
      <4>1. i \in 1..Len(b) /\ 0 + i = i
        BY <3>1, <3>2
      <4> QED BY <2>1, <2>2, <4>1
    <3> QED BY <2>1, <3>1, <3>2 DEF CutOf, Begins
  <2>6. loaded.result # "io_error" /\ IsPrefix(loaded.events, ReadBackAll(es))
    BY <2>1, <2>3, <2>5, CutLoadsFirst
  <2>7. ASSUME Len(b) = Len(Sent(last))
        PROVE  loaded = [result |-> "ok", events |-> ReadBackAll(es)]
    <3>1. b = Image(es)
      BY <2>1, <2>2, <2>7, SeqEqual
    <3> QED BY <2>3, <2>4, <3>1, ImageReadBack
  <2> QED BY <2>6, <2>7
<1> QED BY <1>1, LoadedHolds, PTL

-----------------------------------------------------------------------------
(* The images of an index that grows.                                      *)

\* The image of the first of the events is the beginning of the image of all.
LEMMA ImagesAgree ==
  ASSUME NEW es \in Seq(Event), NEW fs \in Seq(Event), IsPrefix(es, fs)
  PROVE  Begins(Image(fs), 0, Image(es))
<1> DEFINE n == Len(es)
           S == {k \in Nat : k <= n => ImageTo(es, k) = ImageTo(fs, k)}
<1>1. n \in Nat /\ Len(fs) \in Nat /\ n <= Len(fs)
  BY DEF IsPrefix
<1>2. \A i \in 1..n : es[i] = fs[i]
  <2>1. SubSeq(fs, 1, n) = SubSeq(es, 1, n)
    BY DEF IsPrefix
  <2>2. \A i \in 1..n : SubSeq(fs, 1, n)[i] = fs[i]
    BY <1>1, SubSeqProperties
  <2>3. SubSeq(es, 1, n) = es
    BY SubSeqFull
  <2> QED BY <2>1, <2>2, <2>3
<1>3. 0 \in S
  BY ImageStep
<1>4. ASSUME NEW k \in Nat, k \in S PROVE k + 1 \in S
  <2> SUFFICES ASSUME k + 1 <= n PROVE ImageTo(es, k + 1) = ImageTo(fs, k + 1)
    OBVIOUS
  <2>1. k + 1 \in 1..n /\ k + 1 \in 1..Len(fs) /\ k <= n /\ (k + 1) - 1 = k
    BY <1>1
  <2>2. ImageTo(es, k) = ImageTo(fs, k)
    BY <1>4, <2>1
  <2>3. ImageTo(es, k + 1) = ImageTo(es, k) \o Pages[es[k + 1]]
    BY <2>1, ImageStep
  <2>4. ImageTo(fs, k + 1) = ImageTo(fs, k) \o Pages[fs[k + 1]]
    BY <2>1, ImageStep
  <2> QED BY <1>2, <2>1, <2>2, <2>3, <2>4
<1>5. n \in S
  <2> HIDE DEF S
  <2> QED BY <1>1, <1>3, <1>4, SetInduction
<1>6. Image(es) = ImageTo(fs, n)
  <2>1. ImageTo(es, n) = ImageTo(fs, n)
    BY <1>1, <1>5
  <2> HIDE DEF S
  <2> QED BY <2>1, ImageStep
<1>7. CutOf(Image(fs), fs)
  BY ImageType DEF CutOf, Begins
<1>8. n \in 0..Len(fs)
  BY <1>1
<1> QED BY <1>6, <1>7, <1>8, CutParts

\* Where the images of two such indexes both have a byte, it is the same.
LEMMA GrownImagesAgree ==
  ASSUME NEW es \in Seq(Event), NEW fs \in Seq(Event), IsPrefix(es, fs) \/ IsPrefix(fs, es),
         NEW i \in 1..Len(Image(es)), i <= Len(Image(fs))
  PROVE  Image(es)[i] = Image(fs)[i]
<1>1. Len(Image(es)) \in Nat /\ Len(Image(fs)) \in Nat /\ 0 + i = i /\ i \in 1..Len(Image(fs))
  BY ImageType
<1>2. CASE IsPrefix(es, fs)
  BY <1>1, <1>2, ImagesAgree DEF Begins
<1>3. CASE IsPrefix(fs, es)
  BY <1>1, <1>3, ImagesAgree DEF Begins
<1> QED BY <1>2, <1>3

\* When logs that grow are indexed by one run after the other, a load at any time, also of
\* a file that is truncated and written anew meanwhile, gives the first events of an
\* index: every byte it read was saved at its offset, and all the images agree there.
THEOREM GrowingStoreLoadsHolds == Spec => []GrowingStoreLoads
<1>1. LoadedInv => GrowingStoreLoads
  <2> DEFINE opened == {w \in Writers : writer[w].phase # "ready"}
             b      == reader.bytes
  <2> SUFFICES ASSUME LoadedInv, reader.phase = "done", loaded.result # "io_error", ~shared,
                      \A v, w \in opened : \/ IsPrefix(writer[v].events, writer[w].events)
                                           \/ IsPrefix(writer[w].events, writer[v].events)
               PROVE  \E w \in opened : IsPrefix(loaded.events, ReadBackAll(writer[w].events))
    BY DEF GrowingStoreLoads
  <2>1. b \in Seq(Byte) /\ Len(b) \in Nat
    BY DEF LoadedInv, Inv, TypeOK
  <2>2. loaded = LoadBytes(b) /\ \E w \in Writers : w \in opened
    BY DEF LoadedInv, Decoded
  <2>3. ASSUME NEW w \in Writers
        PROVE  /\ writer[w].events \in Batches /\ writer[w].events \in Seq(Event)
               /\ Sent(w) = Image(writer[w].events)
               /\ writer[w].at \in Nat /\ Len(Sent(w)) \in Nat /\ writer[w].at <= Len(Sent(w))
    <3>1. writer[w].events \in Batches /\ writer[w].events \in Seq(Event)
      BY SharedAssumption DEF LoadedInv, Inv, TypeOK
    <3>2. Sent(w) = Image(writer[w].events) /\ writer[w].at \in Nat
          /\ writer[w].at <= Len(Sent(w))
      BY DEF LoadedInv, Inv, TypeOK, Sending, Sent
    <3> QED BY <3>1, <3>2, ImageType
  <2>4. \A i \in 1..Len(b) : Saved(b[i], i)
    BY DEF LoadedInv, NoHoles
  <2>5. ASSUME NEW w \in opened, Len(b) <= writer[w].at
        PROVE  IsPrefix(loaded.events, ReadBackAll(writer[w].events))
    <3> DEFINE es == writer[w].events
    <3>1. es \in Batches /\ es \in Seq(Event) /\ Len(Image(es)) \in Nat /\ Len(b) <= Len(Image(es))
      BY <2>1, <2>3, <2>5
    <3>2. ASSUME NEW i \in 1..Len(b) PROVE b[i] = Image(es)[i]
      <4>1. PICK v \in opened : i <= writer[v].at /\ b[i] = Sent(v)[i]
        BY <2>4 DEF Saved
      <4>2. /\ writer[v].events \in Seq(Event) /\ Sent(v) = Image(writer[v].events)
            /\ i <= Len(Image(writer[v].events)) /\ i \in 1..Len(Image(es))
        BY <2>1, <2>3, <3>1, <4>1
      <4>3. IsPrefix(es, writer[v].events) \/ IsPrefix(writer[v].events, es)
        BY <2>5, <4>1
      <4>4. Image(es)[i] = Image(writer[v].events)[i]
        BY <3>1, <4>2, <4>3, GrownImagesAgree
      <4> QED BY <4>1, <4>2, <4>4
    <3>3. CutOf(b, es)
      <4> SUFFICES ASSUME NEW i \in 1..Len(Image(es)), 0 + i <= Len(b)
                   PROVE  b[0 + i] = Image(es)[i]
        BY <2>1 DEF CutOf, Begins
      <4>1. i \in 1..Len(b) /\ 0 + i = i
        BY <2>1, <3>1
      <4> QED BY <3>2, <4>1
    <3> QED BY <2>2, <3>1, <3>3, CutLoadsFirst
  <2>6. \E w \in opened : Len(b) <= writer[w].at
    <3>1. CASE Len(b) = 0
      BY <2>2, <2>3, <3>1
    <3>2. CASE Len(b) # 0
      <4>1. Len(b) \in 1..Len(b)
        BY <2>1, <3>2
      <4> QED BY <2>4, <4>1 DEF Saved
    <3> QED BY <3>1, <3>2
  <2> QED BY <2>5, <2>6
<1> QED BY <1>1, LoadedHolds, PTL
=============================================================================

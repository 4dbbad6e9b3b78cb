----------------------------- MODULE FunctionProofs -----------------------------
(***************************************************************************)
(* Theorems about the functions of MCFunctions: varints, store images with *)
(* a damaged byte, the calendar, stamps of time, rows and tables of CSV,   *)
(* entries of INI texts, members of JSON objects and redaction. An input   *)
(* of any symbols may be as long as MaxLength says; of that bound only the *)
(* theorem about damage uses anything, that its images are shorter than    *)
(* the word.                                                               *)
(***************************************************************************)
EXTENDS MCFunctions, StoreImageProofs

-----------------------------------------------------------------------------
(* Varints.                                                                *)

\* The text of a varint is bytes.
VarintText == kind = "varint" => text \in Seq(Byte)

LEMMA TextIsBytes == Spec => []VarintText
<1>1. Init => VarintText
  BY DEF Init, VarintText
<1>2. VarintText /\ [Next]_vars => VarintText'
  <2> SUFFICES ASSUME VarintText, [Next]_vars, kind' = "varint" PROVE text' \in Seq(Byte)
    BY DEF VarintText
  <2>1. CASE Grow
    <3>1. kind = "varint" /\ text \in Seq(Byte)
      BY <2>1 DEF Grow, VarintText
    <3>2. PICK symbol \in Alphabet[kind] : text' = Append(text, symbol)
      BY <2>1 DEF Grow
    <3>3. symbol \in Byte
      BY <3>1, <3>2 DEF Alphabet
    <3> QED BY <3>1, <3>2, <3>3
  <2>2. CASE NextDay
    BY <2>2 DEF NextDay
  <2>3. CASE UNCHANGED vars
    BY <2>3 DEF vars, VarintText
  <2> QED BY <2>1, <2>2, <2>3 DEF Next
<1> QED BY <1>1, <1>2, PTL DEF Spec

\* There is one length at most that a varint can have.
LEMMA LengthUnique ==
  ASSUME NEW bytes \in Seq(Byte), NEW m \in VarintLengths(bytes, 0),
         NEW n \in VarintLengths(bytes, 0)
  PROVE  m = n
<1>1. Groups \in Nat /\ Base \in Nat
  BY VarintAssumption
<1>2. \A k \in VarintLengths(bytes, 0) :
        /\ k \in 1..Groups /\ k \in 1..Len(bytes) /\ bytes[k] < Base
        /\ \A i \in 1..(k - 1) : bytes[i] >= Base
  <2> SUFFICES ASSUME NEW k \in VarintLengths(bytes, 0)
               PROVE  /\ k \in 1..Groups /\ k \in 1..Len(bytes) /\ bytes[k] < Base
                      /\ \A i \in 1..(k - 1) : bytes[i] >= Base
    OBVIOUS
  <2>1. /\ k \in 1..Groups /\ 0 + k <= Len(bytes) /\ bytes[0 + k] < Base
        /\ \A i \in 1..(k - 1) : bytes[0 + i] >= Base
    BY DEF VarintLengths
  <2>2. 0 + k = k /\ \A i \in 1..(k - 1) : 0 + i = i
    BY <1>1, <2>1
  <2> QED BY <1>1, <2>1, <2>2
<1>3. \A k \in 1..Len(bytes) : bytes[k] \in Nat
  BY <1>1 DEF Byte
<1>4. \A j, k \in VarintLengths(bytes, 0) : ~(j < k)
  <2> SUFFICES ASSUME NEW j \in VarintLengths(bytes, 0), NEW k \in VarintLengths(bytes, 0), j < k
               PROVE  FALSE
    OBVIOUS
  <2>1. j \in 1..(k - 1)
    BY <1>1, <1>2
  <2>2. bytes[j] < Base /\ bytes[j] >= Base /\ bytes[j] \in Nat
    BY <1>2, <1>3, <2>1
  <2> QED BY <1>1, <2>2
<1> QED BY <1>1, <1>2, <1>4

\* What is read of a varint: the bytes up to the first without continuation.
LEMMA DecodeRead ==
  ASSUME NEW bytes \in Seq(Byte), DecodeVarint(bytes, 0).ok
  PROVE  \E n \in VarintLengths(bytes, 0) :
           DecodeVarint(bytes, 0) = [ok |-> TRUE, value |-> DigitsValue(bytes, 0, n), pos |-> n]
<1>1. VarintLengths(bytes, 0) # {}
  BY DEF DecodeVarint
<1> DEFINE n == CHOOSE n \in VarintLengths(bytes, 0) : TRUE
<1>2. n \in VarintLengths(bytes, 0)
  BY <1>1
<1>3. DecodeVarint(bytes, 0) = [ok |-> TRUE, value |-> DigitsValue(bytes, 0, n), pos |-> 0 + n]
  BY <1>1 DEF DecodeVarint
<1> HIDE DEF n
<1>4. 0 + n = n
  BY <1>2, VarintAssumption DEF VarintLengths
<1> QED BY <1>2, <1>3, <1>4

\* The bytes of a varint as a sequence of their own.
LEMMA VarintBytes ==
  ASSUME NEW bytes \in Seq(Byte), NEW n \in VarintLengths(bytes, 0)
  PROVE  LET e == SubSeq(bytes, 1, n)
         IN  /\ n \in 1..Groups /\ n \in 1..Len(bytes)
             /\ e \in Seq(Byte) /\ Len(e) = n /\ \A i \in 1..n : e[i] = bytes[i]
             /\ e[n] < Base /\ \A i \in 1..(n - 1) : e[i] >= Base
<1> DEFINE e == SubSeq(bytes, 1, n)
<1>1. Groups \in Nat /\ Len(bytes) \in Nat
  BY VarintAssumption
<1>2. /\ n \in 1..Groups /\ 0 + n <= Len(bytes) /\ bytes[0 + n] < Base
      /\ \A i \in 1..(n - 1) : bytes[0 + i] >= Base
  BY DEF VarintLengths
<1>3. n \in 1..Len(bytes) /\ 0 + n = n /\ \A i \in 1..n : 0 + i = i /\ 1 + i - 1 = i
  BY <1>1, <1>2
<1>4. e \in Seq(Byte) /\ Len(e) = n /\ \A i \in 1..n : e[i] = bytes[i]
  BY <1>1, <1>3, SubSeqProperties
<1> HIDE DEF e
<1>5. \A i \in 1..(n - 1) : i \in 1..n
  BY <1>1, <1>2
<1> QED BY <1>2, <1>3, <1>4, <1>5 DEF e

\* decode_varint does not look past the varint it reads.
LEMMA DecodeExtends ==
  ASSUME NEW bytes \in Seq(Byte), NEW more \in Seq(Byte), Len(bytes) <= Len(more),
         \A i \in 1..Len(bytes) : more[i] = bytes[i], DecodeVarint(bytes, 0).ok
  PROVE  DecodeVarint(more, 0) = DecodeVarint(bytes, 0)
<1>1. PICK n \in VarintLengths(bytes, 0) :
        DecodeVarint(bytes, 0) = [ok |-> TRUE, value |-> DigitsValue(bytes, 0, n), pos |-> n]
  BY DecodeRead
<1> DEFINE e == SubSeq(bytes, 1, n)
<1>2. /\ n \in 1..Groups /\ n \in 1..Len(bytes)
      /\ e \in Seq(Byte) /\ Len(e) = n /\ \A i \in 1..n : e[i] = bytes[i]
      /\ e[n] < Base /\ \A i \in 1..(n - 1) : e[i] >= Base
  BY VarintBytes
<1> HIDE DEF e
<1>3. Groups \in Nat /\ Len(bytes) \in Nat /\ Len(more) \in Nat
  BY VarintAssumption
<1>4. /\ n \in 1..Len(more)
      /\ \A i \in 1..n : i \in 1..Len(bytes) /\ 0 + i = i
      /\ \A i \in 1..(n - 1) : i \in 1..n
  BY <1>2, <1>3
<1>5. \A i \in 1..n : bytes[0 + i] = e[i] /\ more[0 + i] = e[i]
  BY <1>2, <1>4
<1>6. n \in VarintLengths(more, 0)
  <2>1. 0 + n <= Len(more) /\ n \in 1..n
    BY <1>2, <1>3, <1>4
  <2> QED BY <1>2, <1>4, <1>5, <2>1 DEF VarintLengths
<1>7. DecodeVarint(more, 0).ok
  BY <1>6 DEF DecodeVarint
<1>8. PICK m \in VarintLengths(more, 0) :
        DecodeVarint(more, 0) = [ok |-> TRUE, value |-> DigitsValue(more, 0, m), pos |-> m]
  BY <1>7, DecodeRead
<1>9. m = n
  BY <1>6, LengthUnique
<1>10. DigitsSum(more, 0, n) = DigitsSum(bytes, 0, n)
  <2>1. PICK f \in [0..n -> Nat] : Weighs(f, e) /\ DigitsSum(more, 0, n) = f[n]
    BY <1>2, <1>5, DigitsWeigh
  <2>2. PICK g \in [0..n -> Nat] : Weighs(g, e) /\ DigitsSum(bytes, 0, n) = g[n]
    BY <1>2, <1>5, DigitsWeigh
  <2>3. n \in 0..Len(e)
    BY <1>2
  <2> QED BY <1>2, <2>1, <2>2, <2>3, WeightUnique
<1> QED BY <1>1, <1>8, <1>9, <1>10 DEF DigitsValue

\* encode_varint writes, for every number that bytes hold within the width of a word
\* and without an idle highest digit, these bytes: with DecodeWhole, the other way
\* round, there is one such encoding of each number.
THEOREM EncodeInvertsDecodeHolds == Spec => []EncodeInvertsDecode
<1>1. VarintText => EncodeInvertsDecode
  <2> SUFFICES ASSUME text \in Seq(Byte), Decoded.ok,
                      DigitsSum(text, 0, Decoded.pos) \in Word,
                      Decoded.pos = 1 \/ text[Decoded.pos] # 0
               PROVE  EncodeVarint(Decoded.value) = SubSeq(text, 1, Decoded.pos)
    BY DEF VarintText, EncodeInvertsDecode
  <2>1. PICK n \in VarintLengths(text, 0) :
          Decoded = [ok |-> TRUE, value |-> DigitsValue(text, 0, n), pos |-> n]
    BY DecodeRead DEF Decoded
  <2> DEFINE e == SubSeq(text, 1, n)
  <2>2. /\ n \in 1..Groups /\ n \in 1..Len(text)
        /\ e \in Seq(Byte) /\ Len(e) = n /\ \A i \in 1..n : e[i] = text[i]
        /\ e[n] < Base /\ \A i \in 1..(n - 1) : e[i] >= Base
    BY VarintBytes
  <2>3. Decoded.pos = n /\ Decoded.value = DigitsValue(text, 0, n)
    BY <2>1
  <2>4. EncodeVarint(Decoded.value) = e
    <3> HIDE DEF e
    <3>1. \A i \in 1..n : text[0 + i] = e[i]
      <4>1. \A i \in 1..n : 0 + i = i
        BY <2>2, VarintAssumption
      <4> QED BY <2>2, <4>1
    <3>2. PICK s \in [0..n -> Nat] : Weighs(s, e) /\ DigitsSum(text, 0, n) = s[n]
      <4>1. e \in Seq(Byte) /\ Len(e) = n
        BY <2>2
      <4> QED BY <3>1, <4>1, DigitsWeigh
    <3>3. n # 0 /\ n \in 1..n
      BY <2>2, VarintAssumption
    <3>4. Whole(e)
      BY <2>2, <2>3, <3>3 DEF Whole
    <3>5. EncodeVarint(s[n]) = e
      BY <2>2, <3>2, <3>4, WholeIsEncoded
    <3>6. DigitsValue(text, 0, n) = s[n]
      <4>1. s[n] \in Word /\ s[n] \in Nat /\ s[n] <= s[n]
        <5>1. s[n] \in Word
          BY <2>3, <3>2
        <5> QED BY <5>1, VarintAssumption DEF Word
      <4>2. s[n] % WordSize = s[n]
        BY <4>1, WordBelow
      <4> QED BY <3>2, <4>2 DEF DigitsValue
    <3> QED BY <2>3, <3>5, <3>6
  <2> QED BY <2>3, <2>4
<1> QED BY <1>1, TextIsBytes, PTL

\* decode_varint refuses every proper beginning of every varint.
THEOREM CutVarintRefusedHolds == Spec => []CutVarintRefused
<1>1. VarintText => CutVarintRefused
  <2> SUFFICES ASSUME text \in Seq(Byte), Decoded.ok, NEW v \in Word,
                      IsStrictPrefix(text, EncodeVarint(v))
               PROVE  FALSE
    BY DEF VarintText, CutVarintRefused
  <2> DEFINE e == EncodeVarint(v)
  <2>1. e \in Seq(Byte)
    BY WordLength, EncodeStep
  <2>2. IsStrictPrefix(text, e)
    OBVIOUS
  <2>3. Begins(text, 0, e) /\ ~(0 + Len(e) <= Len(text))
    <3> HIDE DEF e
    <3> DEFINE n == Len(text)
    <3>1. n \in Nat /\ Len(e) \in Nat /\ n <= Len(e) /\ text # e
          /\ SubSeq(text, 1, n) = SubSeq(e, 1, n)
      BY <2>1, <2>2 DEF IsStrictPrefix, IsPrefix
    <3>2. \A i \in 1..n : text[i] = e[i]
      <4> SUFFICES ASSUME NEW i \in 1..n PROVE text[i] = e[i]
        OBVIOUS
      <4>1. i \in 1..n - 1 + 1 /\ 1 + i - 1 = i /\ \A j \in 1..n : j \in 1..Len(e)
        BY <3>1
      <4>2. SubSeq(text, 1, n)[i] = text[i] /\ SubSeq(e, 1, n)[i] = e[i]
        BY <2>1, <3>1, <4>1, SubSeqProperties
      <4> QED BY <3>1, <4>2
    <3>3. ~(Len(e) <= n)
      <4> SUFFICES ASSUME Len(e) <= n PROVE FALSE
        OBVIOUS
      <4>1. Len(e) = Len(text)
        BY <3>1
      <4>2. \A i \in 1..Len(e) : text[i] = e[i]
        BY <3>2, <4>1
      <4>3. text = e
        BY <2>1, <4>1, <4>2
      <4> QED BY <3>1, <4>3
    <3>4. ASSUME NEW i \in 1..Len(e), 0 + i <= Len(text) PROVE text[0 + i] = e[i]
      <4>1. i \in 1..n /\ 0 + i = i
        BY <3>1, <3>4
      <4> QED BY <3>2, <4>1
    <3> QED BY <3>1, <3>3, <3>4 DEF Begins
  <2>4. ~DecodeVarint(text, 0).ok
    BY <2>3, DecodeCut
  <2> QED BY <2>4 DEF Decoded
<1> QED BY <1>1, TextIsBytes, PTL

\* What decode_varint has accepted it accepts with any bytes behind it, and reads the same.
THEOREM DecodingIsFinalHolds == Spec => DecodingIsFinal
<1>1. VarintText /\ VarintText' /\ [Next]_vars
        => [kind = "varint" /\ Decoded.ok => DecodeVarint(text', 0) = Decoded]_vars
  <2> SUFFICES ASSUME VarintText, VarintText', Next, kind = "varint", Decoded.ok
               PROVE  DecodeVarint(text', 0) = Decoded
    OBVIOUS
  <2>1. Grow
    BY DEF Next, NextDay
  <2>2. text \in Seq(Byte) /\ text' \in Seq(Byte)
    BY <2>1 DEF VarintText, Grow
  <2>3. PICK symbol \in Alphabet[kind] : text' = Append(text, symbol)
    BY <2>1 DEF Grow
  <2>4. Len(text) <= Len(text') /\ \A i \in 1..Len(text) : text'[i] = text[i]
    BY <2>2, <2>3
  <2> QED BY <2>2, <2>4, DecodeExtends DEF Decoded
<1> QED BY <1>1, TextIsBytes, PTL DEF Spec, DecodingIsFinal

-----------------------------------------------------------------------------
(* Damaged images.                                                         *)

\* The text of an image to be damaged is its events, as many as the bound allows.
DamageText == kind = "damage" => \E n \in 0..MaxLength["damage"] : text \in [1..n -> MCEvents]

LEMMA TextIsEvents == Spec => []DamageText
<1>1. Init => DamageText
  <2> SUFFICES ASSUME Init PROVE \E n \in 0..MaxLength["damage"] : text \in [1..n -> MCEvents]
    BY DEF DamageText
  <2>1. 0 \in 0..MaxLength["damage"]
    BY DEF MaxLength
  <2>2. text \in [1..0 -> MCEvents]
    BY DEF Init
  <2> QED BY <2>1, <2>2
<1>2. DamageText /\ [Next]_vars => DamageText'
  <2> SUFFICES ASSUME DamageText, [Next]_vars, kind' = "damage"
               PROVE  \E n \in 0..MaxLength["damage"] : text' \in [1..n -> MCEvents]
    BY DEF DamageText
  <2>1. CASE Grow
    <3>1. kind = "damage" /\ Len(text) < MaxLength["damage"]
      BY <2>1 DEF Grow
    <3>2. PICK n \in 0..MaxLength["damage"] : text \in [1..n -> MCEvents]
      BY <3>1 DEF DamageText
    <3>3. PICK symbol \in Alphabet[kind] : text' = Append(text, symbol)
      BY <2>1 DEF Grow
    <3>4. symbol \in MCEvents
      BY <3>1, <3>3 DEF Alphabet
    <3>5. n \in Nat /\ MaxLength["damage"] \in Nat
      BY <3>2 DEF MaxLength
    <3>6. text \in Seq(MCEvents) /\ Len(text) = n
      BY <3>2, <3>5
    <3>7. n + 1 \in 0..MaxLength["damage"]
      BY <3>1, <3>5, <3>6
    <3>8. text' \in Seq(MCEvents) /\ Len(text') = n + 1
      BY <3>3, <3>4, <3>6, AppendProperties
    <3>9. text' \in [1..(n + 1) -> MCEvents]
      BY <3>8, LenProperties
    <3> QED BY <3>7, <3>9
  <2>2. CASE NextDay
    BY <2>2 DEF NextDay
  <2>3. CASE UNCHANGED vars
    BY <2>3 DEF vars, DamageText
  <2> QED BY <2>1, <2>2, <2>3 DEF Next
<1> QED BY <1>1, <1>2, PTL DEF Spec

\* What a sequence begins with.
LEMMA BeginsWith ==
  ASSUME NEW S, NEW s \in Seq(S), NEW t \in Seq(S), Len(s) <= Len(t),
         \A i \in 1..Len(s) : s[i] = t[i]
  PROVE  IsPrefix(s, t)
<1> DEFINE n == Len(s)
           u == SubSeq(t, 1, n)
<1>1. n \in Nat /\ \A i \in 1..n : t[i] \in S
  OBVIOUS
<1>2. u \in Seq(S) /\ Len(u) = n /\ \A i \in 1..n : u[i] = t[i]
  BY <1>1, SubSeqProperties
<1> HIDE DEF u
<1>3. s = u
  BY <1>2, SeqEqual
<1>4. SubSeq(s, 1, n) = s
  BY SubSeqFull
<1> QED BY <1>3, <1>4 DEF IsPrefix, u

\* What is the end of a sequence.
LEMMA EndsWith ==
  ASSUME NEW S, NEW s \in Seq(S), NEW t \in Seq(S), NEW m \in Nat, Len(t) = m + Len(s),
         \A i \in 1..Len(s) : s[i] = t[m + i]
  PROVE  IsSuffix(s, t)
<1> DEFINE n == Len(s)
           w == Len(t)
           p == Reverse(s)
           q == Reverse(t)
<1>1. n \in Nat /\ w \in Nat /\ w = m + n
  OBVIOUS
<1>2. p \in Seq(S) /\ Len(p) = n /\ \A i \in 1..n : p[i] = s[(n - i) + 1]
  <2>1. p = [i \in 1..n |-> s[(n - i) + 1]]
    BY DEF Reverse
  <2>2. \A i \in 1..n : (n - i) + 1 \in 1..n
    BY <1>1
  <2>3. \A i \in 1..n : s[(n - i) + 1] \in S
    BY <2>2
  <2> HIDE DEF p, n
  <2>4. p \in [1..n -> S]
    BY <2>1, <2>3
  <2> QED BY <1>1, <2>1, <2>4
<1>3. q \in Seq(S) /\ Len(q) = w /\ \A i \in 1..w : q[i] = t[(w - i) + 1]
  <2>1. q = [i \in 1..w |-> t[(w - i) + 1]]
    BY DEF Reverse
  <2>2. \A i \in 1..w : (w - i) + 1 \in 1..w
    BY <1>1
  <2>3. \A i \in 1..w : t[(w - i) + 1] \in S
    BY <2>2
  <2> HIDE DEF q, w
  <2>4. q \in [1..w -> S]
    BY <2>1, <2>3
  <2> QED BY <1>1, <2>1, <2>4
<1> HIDE DEF p, q
<1>4. ASSUME NEW i \in 1..n PROVE p[i] = q[i]
  <2>1. i \in 1..w /\ (n - i) + 1 \in 1..n /\ m + ((n - i) + 1) = (w - i) + 1
    BY <1>1
  <2>2. s[(n - i) + 1] = t[m + ((n - i) + 1)]
    BY <2>1
  <2> QED BY <1>2, <1>3, <2>1, <2>2
<1>5. IsPrefix(p, q)
  <2>1. Len(p) <= Len(q) /\ \A i \in 1..Len(p) : p[i] = q[i]
    BY <1>1, <1>2, <1>3, <1>4
  <2> QED BY <1>2, <1>3, <2>1, BeginsWith
<1> QED BY <1>5 DEF IsSuffix, p, q

\* Each record of a run's images damaged at any of its bytes: load succeeds with the other
\* records, or leaves where the damaged one throws.
THEOREM DamageStaysInRecordHolds == Spec => []DamageStaysInRecord
<1>1. DamageText => DamageStaysInRecord
  <2> SUFFICES ASSUME DamageText, kind = "damage", NEW k \in 1..Len(text),
                      NEW i \in PageAt(k) + Len(EncodeVarint(Len(SerializeEvent(text[k])))) + 1 ..
                                PageAt(k) + Len(EncodeVarint(Len(SerializeEvent(text[k]))))
                                  + Len(SerializeEvent(text[k])) + ChecksumSize,
                      NEW byte \in Byte
               PROVE  LET record == SerializeEvent(text[k])
                          start  == PageAt(k) + Len(EncodeVarint(Len(record)))
                          end    == start + Len(record)
                          before == ReadBackAll(SubSeq(text, 1, k - 1))
                          behind == ReadBackAll(SubSeq(text, k + 1, Len(text)))
                          loaded == LoadBytes([Image(text) EXCEPT ![i] = byte])
                          throws == /\ i <= end
                                    /\ DeserializeEvent([record EXCEPT ![i - start] = byte]).thrown
                      IN  IF throws THEN loaded = [result |-> "length_error", events |-> before]
                          ELSE /\ IsLoadAround(loaded, before, behind)
                               /\ i > end => loaded.events = ReadBackAll(text)
    BY DEF DamageStaysInRecord
  <2>1. text \in Seq(Event) /\ Len(text) \in Nat /\ Len(Image(text)) \in Word
    <3>1. PICK n \in 0..MaxLength["damage"] : text \in [1..n -> MCEvents]
      BY DEF DamageText
    <3>2. n \in Nat /\ Len(Image(text)) \in Word
      BY <3>1, FunctionsAssumption DEF MaxLength
    <3>3. text \in [1..n -> Event]
      BY <3>1, FunctionsAssumption
    <3> QED BY <3>2, <3>3
  <2> DEFINE e  == text[k]
             at == End(text, k - 1)
             l  == LengthBytes(e)
             r  == SerializeEvent(e)
  <2>2. /\ e \in Event /\ at \in Nat /\ End(text, k) = at + Len(Pages[e])
        /\ Len(Pages[e]) = Len(l) + Len(r) + ChecksumSize
        /\ Len(l) \in Nat /\ Len(r) \in Nat /\ ChecksumSize \in Nat
        /\ End(text, k) <= Len(Image(text)) /\ Len(Image(text)) \in Nat
    BY <2>1, ImageStands, PageParts, ImageType, ImageAssumption
  <2>3. PageAt(k) = at
    <3>1. k - 1 \in 0..Len(text)
      BY <2>1
    <3> QED BY <2>1, <3>1, ImageOfFirst DEF PageAt
  <2>4. i \in (at + Len(l) + 1)..(at + Len(l) + Len(r) + ChecksumSize)
    BY <2>3 DEF LengthBytes
  <2> HIDE DEF at, l, r
  <2>5. i \in 1..Len(Image(text)) /\ at + Len(l) < i /\ i <= End(text, k)
    <3>1. i \in Int /\ at + Len(l) < i /\ i <= at + Len(l) + Len(r) + ChecksumSize
      BY <2>2, <2>4
    <3>2. i <= End(text, k) /\ 1 <= i
      BY <2>2, <3>1
    <3> QED BY <2>2, <3>1, <3>2
  <2> DEFINE before == ReadBackAll(SubSeq(text, 1, k - 1))
             behind == ReadBackAll(SubSeq(text, k + 1, Len(text)))
             loaded == LoadBytes([Image(text) EXCEPT ![i] = byte])
             start  == at + Len(l)
             throws == i <= start + Len(r) /\ DeserializeEvent([r EXCEPT ![i - start] = byte]).thrown
  <2>6. /\ before \in Seq(Event) /\ Len(before) = k - 1
        /\ behind \in Seq(Event) /\ Len(behind) = Len(text) - k
        /\ throws => loaded = [result |-> "length_error", events |-> before]
        /\ ~throws => /\ loaded.result = "ok"
                      /\ \/ loaded.events = before \o behind
                         \/ \E x : loaded.events = Append(before, x) \o behind
        /\ ~(i <= start + Len(r)) => loaded.events = ReadBackAll(text)
    BY <2>1, <2>5, DamageReadBack DEF at, l, r, e
  <2>10. PageAt(k) + Len(EncodeVarint(Len(SerializeEvent(text[k])))) = start
         /\ SerializeEvent(text[k]) = r
    BY <2>3 DEF r, l, LengthBytes
  <2>11. i \in Int /\ start + Len(r) \in Int
    BY <2>2, <2>5
  <2>12. CASE throws
    <3> HIDE DEF before, behind, loaded, start
    <3> QED BY <2>6, <2>10, <2>12 DEF before, loaded
  <2>13. SUFFICES ASSUME ~throws
                  PROVE  /\ loaded.result = "ok"
                         /\ Len(loaded.events) \in {Len(text) - 1, Len(text)}
                         /\ IsPrefix(before, loaded.events) /\ IsSuffix(behind, loaded.events)
                         /\ i > start + Len(r) => loaded.events = ReadBackAll(text)
    <3>1. ASSUME Len(loaded.events) \in {Len(text) - 1, Len(text)}
          PROVE  Len(loaded.events) - Len(before) - Len(behind) \in {0, 1}
      <4> HIDE DEF before, behind, loaded
      <4>1. k \in Int /\ Len(text) \in Int /\ Len(before) = k - 1 /\ Len(behind) = Len(text) - k
        BY <2>1, <2>6
      <4> QED BY <3>1, <4>1
    <3> HIDE DEF start
    <3> QED BY <2>10, <2>12, <3>1 DEF IsLoadAround
  <2>14. i > start + Len(r) => loaded.events = ReadBackAll(text)
    <3> HIDE DEF loaded, start
    <3> QED BY <2>6, <2>11
  <2> HIDE DEF before, behind, loaded, throws
  <2>7. ASSUME NEW mid, NEW V, Event \subseteq V, mid \in Seq(V),
               k - 1 <= Len(mid), \A j \in 1..(k - 1) : mid[j] = before[j],
               loaded.events = mid \o behind
        PROVE  /\ Len(loaded.events) = Len(mid) + (Len(text) - k)
               /\ IsPrefix(before, loaded.events) /\ IsSuffix(behind, loaded.events)
    <3> DEFINE all == loaded.events
    <3>1. before \in Seq(V) /\ behind \in Seq(V)
      BY <2>6, <2>7, SeqMonotonic
    <3>2. /\ all \in Seq(V) /\ Len(all) = Len(mid) + Len(behind)
          /\ \A j \in 1..Len(mid) + Len(behind) :
               all[j] = IF j <= Len(mid) THEN mid[j] ELSE behind[j - Len(mid)]
      BY <2>7, <3>1, ConcatProperties
    <3> HIDE DEF all
    <3>3. Len(mid) \in Nat /\ Len(behind) \in Nat /\ k - 1 \in Nat
      BY <2>1, <2>7, <3>1
    <3>4. IsPrefix(before, all)
      <4>1. Len(before) <= Len(all)
        BY <2>6, <2>7, <3>2, <3>3
      <4>2. ASSUME NEW j \in 1..Len(before) PROVE before[j] = all[j]
        <5>1. j \in 1..(k - 1) /\ j \in 1..Len(mid) + Len(behind) /\ j <= Len(mid)
          BY <2>6, <2>7, <3>3
        <5> QED BY <2>7, <3>2, <5>1
      <4> QED BY <3>1, <3>2, <4>1, <4>2, BeginsWith
    <3>5. IsSuffix(behind, all)
      <4>1. ASSUME NEW j \in 1..Len(behind) PROVE behind[j] = all[Len(mid) + j]
        <5>1. Len(mid) + j \in 1..Len(mid) + Len(behind) /\ ~(Len(mid) + j <= Len(mid))
              /\ (Len(mid) + j) - Len(mid) = j
          BY <3>3
        <5> QED BY <3>2, <5>1
      <4> QED BY <3>1, <3>2, <3>3, <4>1, EndsWith
    <3> QED BY <2>6, <3>2, <3>4, <3>5 DEF all
  <2>8. ASSUME loaded.events = before \o behind
        PROVE  /\ Len(loaded.events) \in {Len(text) - 1, Len(text)}
               /\ IsPrefix(before, loaded.events) /\ IsSuffix(behind, loaded.events)
    <3>1. k - 1 <= Len(before)
      BY <2>1, <2>6
    <3>2. /\ Len(loaded.events) = Len(before) + (Len(text) - k)
          /\ IsPrefix(before, loaded.events) /\ IsSuffix(behind, loaded.events)
      BY <2>6, <2>7, <2>8, <3>1
    <3>3. Len(loaded.events) = Len(text) - 1
      BY <2>1, <2>6, <3>2
    <3> QED BY <3>2, <3>3
  <2>9. ASSUME NEW x, loaded.events = Append(before, x) \o behind
        PROVE  /\ Len(loaded.events) = Len(text)
               /\ IsPrefix(before, loaded.events) /\ IsSuffix(behind, loaded.events)
    <3> DEFINE V    == Event \cup {x}
               some == Append(before, x)
    <3>1. Event \subseteq V /\ x \in V
      OBVIOUS
    <3> HIDE DEF V
    <3>2. before \in Seq(V)
      BY <2>6, <3>1, SeqMonotonic
    <3>3. /\ some \in Seq(V) /\ Len(some) = Len(before) + 1
          /\ \A j \in 1..Len(before) : some[j] = before[j]
      BY <3>1, <3>2, AppendProperties
    <3>4. Len(some) = k
      BY <2>1, <2>6, <3>3
    <3>5. loaded.events = some \o behind
      BY <2>9
    <3> HIDE DEF some
    <3>6. k - 1 <= Len(some)
      BY <2>1, <3>4
    <3>7. /\ Len(loaded.events) = Len(some) + (Len(text) - k)
          /\ IsPrefix(before, loaded.events) /\ IsSuffix(behind, loaded.events)
      BY <2>6, <2>7, <3>1, <3>3, <3>5, <3>6
    <3>8. Len(loaded.events) = Len(text)
      BY <2>1, <3>4, <3>7
    <3> QED BY <3>7, <3>8
  <2> QED BY <2>6, <2>8, <2>9, <2>13, <2>14
<1> QED BY <1>1, TextIsEvents, PTL

-----------------------------------------------------------------------------
(* Days after each other.                                                  *)

LEMMA YearStartType == ASSUME NEW y \in Int PROVE YearStart(y) \in Int
BY DEF YearStart

\* The months of a year lie end to end: 153 days in five of them, counted from March.
LEMMA MonthEnds ==
  ASSUME NEW y \in Int, NEW m \in (1..11) \ {2}
  PROVE  DayOfYear(m, MonthLength(y, m)) + 1 = DayOfYear(m + 1, 1)
BY SMTT(60) DEF DayOfYear, MonthIndex, MonthLength

\* February is the end of the shifted year, and has its leap day when the year has one.
LEMMA FebruaryEnds ==
  ASSUME NEW y \in Int
  PROVE  YearStart(y - 1) + DayOfYear(2, MonthLength(y, 2)) + 1 = YearStart(y) + DayOfYear(3, 1)
BY SMTT(60) DEF YearStart, DayOfYear, MonthIndex, MonthLength, Leap

\* The date after a valid date has the day number after its own.
THEOREM DaysCount ==
  ASSUME NEW date, ValidDate(date)
  PROVE  DaysFromCivil(NextDate(date)) = DaysFromCivil(date) + 1
<1> DEFINE y == date.year
           m == date.month
           d == date.day
           L == MonthLength(y, m)
<1>1. date \in [year: Int, month: 1..12, day: 1..31] /\ d <= L
  BY DEF ValidDate
<1>2. y \in Int /\ m \in 1..12 /\ d \in 1..31 /\ L \in 28..31
  BY <1>1 DEF MonthLength
<1>3. MarchYear(y, m) \in Int /\ YearStart(MarchYear(y, m)) \in Int
  BY <1>2, YearStartType DEF MarchYear
<1>4. CASE d < L
  <2>1. /\ NextDate(date).year = y /\ NextDate(date).month = m
        /\ NextDate(date).day = d + 1
    BY <1>1, <1>4 DEF NextDate
  <2>2. DayOfYear(m, d + 1) = DayOfYear(m, d) + 1 /\ DayOfYear(m, d) \in Int
    BY <1>2 DEF DayOfYear, MonthIndex
  <2> QED BY <1>3, <2>1, <2>2 DEF DaysFromCivil
<1>5. CASE ~(d < L) /\ m = 12
  <2>1. /\ NextDate(date).year = y + 1 /\ NextDate(date).month = 1
        /\ NextDate(date).day = 1
    BY <1>5 DEF NextDate
  <2>2. d = 31
    BY <1>1, <1>2, <1>5 DEF MonthLength
  <2>3. MarchYear(y + 1, 1) = y /\ MarchYear(y, m) = y
    BY <1>2, <1>5 DEF MarchYear
  <2>4. DayOfYear(1, 1) = DayOfYear(12, 31) + 1 /\ DayOfYear(12, 31) \in Int
    BY DEF DayOfYear, MonthIndex
  <2> QED BY <1>3, <1>5, <2>1, <2>2, <2>3, <2>4 DEF DaysFromCivil
<1>6. CASE ~(d < L) /\ m # 12
  <2>1. /\ NextDate(date).year = y /\ NextDate(date).month = m + 1
        /\ NextDate(date).day = 1
    BY <1>1, <1>2, <1>6 DEF NextDate
  <2>2. d = L
    BY <1>1, <1>2, <1>6
  <2>3. CASE m = 2
    <3>1. MarchYear(y, 3) = y /\ MarchYear(y, m) = y - 1
      BY <1>2, <2>3 DEF MarchYear
    <3>2. YearStart(y - 1) + DayOfYear(2, L) + 1 = YearStart(y) + DayOfYear(3, 1)
      BY <1>2, <2>3, FebruaryEnds
    <3> QED BY <2>1, <2>2, <2>3, <3>1, <3>2 DEF DaysFromCivil
  <2>4. CASE m # 2
    <3>1. MarchYear(y, m + 1) = MarchYear(y, m)
      BY <1>2, <1>6, <2>4 DEF MarchYear
    <3>2. DayOfYear(m, L) + 1 = DayOfYear(m + 1, 1) /\ DayOfYear(m, L) \in Int
      <4>1. DayOfYear(m, L) + 1 = DayOfYear(m + 1, 1)
        BY <1>2, <1>6, <2>4, MonthEnds
      <4> QED BY <1>2, <4>1 DEF DayOfYear, MonthIndex
    <3> QED BY <1>3, <2>1, <2>2, <3>1, <3>2 DEF DaysFromCivil
  <2> QED BY <2>3, <2>4
<1> QED BY <1>4, <1>5, <1>6

-----------------------------------------------------------------------------
(* civil_from_days gives the date with the day number it was given.        *)

\* The year within an era, and the day within that year. The first of them is 100 c + k,
\* with the century c of the day, the leap days l that the first guess of the year
\* counts in it, and the year k of the century with its day t.
LEMMA EraYear ==
  ASSUME NEW doe \in Nat, doe < 146097
  PROVE  /\ YearOfEra(doe) \in Nat /\ YearOfEra(doe) < 400
         /\ DayOfEraYear(doe) \in Nat /\ DayOfEraYear(doe) < 366
         /\ DayOfEraYear(doe) = 365 => Leap(YearOfEra(doe) + 1)
<1>1. CASE doe = 146096
  BY <1>1, SMT DEF YearOfEra, DayOfEraYear, Leap
<1>2. CASE doe # 146096
  <2> DEFINE c == doe \div 36524
             r == doe - 36524 * c
             l == (24 * c + r) \div 1460
             s == 24 * c + r - 1460 * l
             k == (r - l) \div 365
             t == r - l - 365 * k
             q == k \div 4
  <2>1. doe < 146096 /\ doe \div 146096 = 0
    BY <1>2, SMT
  <2>2. c \in Nat /\ c <= 3 /\ r \in Nat /\ r < 36524
    BY <2>1, SMT
  <2>3. doe = 36524 * c + r /\ doe \div 36524 = c
    BY SMT
  <2> HIDE DEF c, r
  <2>4. l \in Nat /\ l <= 25 /\ s \in Nat /\ s < 1460
    BY <2>2, SMT
  <2>5. 24 * c + r = 1460 * l + s
    BY <2>2, <2>4, SMT
  <2> HIDE DEF l, s
  <2>6. r - l \in Nat /\ r - l < 36500
    BY <2>2, <2>4, <2>5, SMT
  <2>7. k \in Nat /\ k <= 99 /\ t \in Nat /\ t <= 364
    BY <2>6, SMT
  <2>8. r - l = 365 * k + t
    BY <2>2, <2>4, <2>7, SMT
  <2> HIDE DEF k, t
  <2>9. q \in Nat /\ 4 * q <= k /\ k < 4 * q + 4
    BY <2>7, SMT
  <2> HIDE DEF q
  <2>10. doe = 1460 * (25 * c + l) + s
    BY <2>2, <2>3, <2>4, <2>5, SMT
  <2>11. doe \div 1460 = 25 * c + l
    BY <2>2, <2>4, <2>10, SMT
  <2>12. YearOfEra(doe) = 100 * c + k
    <3>1. doe - doe \div 1460 + doe \div 36524 - doe \div 146096 = 365 * (100 * c + k) + t
      BY <2>1, <2>2, <2>3, <2>4, <2>7, <2>8, <2>11, SMT
    <3>2. (365 * (100 * c + k) + t) \div 365 = 100 * c + k
      BY <2>2, <2>7, SMT
    <3> QED BY <3>1, <3>2 DEF YearOfEra
  <2>13. (100 * c + k) \div 4 = 25 * c + q /\ (100 * c + k) \div 100 = c
    BY <2>2, <2>7, <2>9, SMT
  <2>14. DayOfEraYear(doe) = t + l - q
    BY <2>2, <2>3, <2>4, <2>7, <2>8, <2>9, <2>12, <2>13, SMT DEF DayOfEraYear
  <2>15. l = q \/ l = q + 1
    BY <2>2, <2>3, <2>4, <2>7, <2>8, <2>9, <2>10, SMT
  <2>16. ASSUME t + l - q = 365 PROVE Leap(100 * c + k + 1)
    <3>1. t = 364 /\ l = q + 1
      BY <2>4, <2>7, <2>9, <2>15, <2>16, SMT
    <3>2. k = 4 * q + 3 /\ k # 99
      BY <2>2, <2>3, <2>4, <2>5, <2>7, <2>8, <2>9, <3>1, SMT
    <3>3. (100 * c + k + 1) % 4 = 0 /\ (100 * c + k + 1) % 100 # 0
      BY <2>2, <2>7, <2>9, <3>2, SMT
    <3> QED BY <3>3 DEF Leap
  <2> QED BY <2>2, <2>4, <2>7, <2>9, <2>12, <2>14, <2>15, <2>16, SMT
<1> QED BY <1>1, <1>2

\* The day number of the date of a day number is that number (civil_from_days against
\* days_from_civil), for every day, before the year 0 too.
THEOREM DaysInvert ==
  ASSUME NEW days \in Int
  PROVE  DaysFromCivil(CivilFromDays(days)) = days
<1> DEFINE z   == days + 719468
           era == z \div 146097
           doe == z - era * 146097
           yoe == YearOfEra(doe)
           doy == DayOfEraYear(doe)
           mp  == (5 * doy + 2) \div 153
           m   == IF mp < 10 THEN mp + 3 ELSE mp - 9
           c   == CivilFromDays(days)
<1>1. era \in Int /\ doe \in Nat /\ doe < 146097
  BY SMT
<1>2. yoe \in Nat /\ yoe < 400 /\ doy \in Nat /\ doy < 366
  BY <1>1, EraYear
<1>3. /\ c.year = yoe + era * 400 + (IF m <= 2 THEN 1 ELSE 0)
      /\ c.month = m
      /\ c.day = doy - (153 * mp + 2) \div 5 + 1
  BY DEF CivilFromDays
<1>4. days = doe + era * 146097 - 719468
  BY <1>1, SMT
<1>5. doe = doy + 365 * yoe + yoe \div 4 - yoe \div 100
  <2> HIDE DEF doe
  <2> QED BY <1>1, <1>2, SMT DEF DayOfEraYear
<1> HIDE DEF era, doe, yoe, doy
<1>6. mp \in Nat /\ mp <= 11 /\ m \in Nat /\ MonthIndex(m) = mp
  BY <1>2, SMT DEF MonthIndex
<1> HIDE DEF mp, m, c
<1>7. DayOfYear(c.month, c.day) = doy
  BY <1>2, <1>3, <1>6, SMT DEF DayOfYear
<1>8. MarchYear(c.year, c.month) = yoe + era * 400
  BY <1>1, <1>2, <1>3, <1>6, SMT DEF MarchYear
<1>9. (yoe + era * 400) \div 400 = era
  BY <1>1, <1>2, SMT
<1>10. YearStart(yoe + era * 400)
         = era * 146097 + yoe * 365 + yoe \div 4 - yoe \div 100 - 719468
  BY <1>1, <1>2, <1>9, SMT DEF YearStart
<1>11. DaysFromCivil(c) = days
  BY <1>1, <1>2, <1>4, <1>5, <1>7, <1>8, <1>10, SMT DEF DaysFromCivil
<1> QED BY <1>11 DEF c

\* The calendar goes round in 400 years.
LEMMA LeapEra ==
  ASSUME NEW y \in Int, NEW era \in Int
  PROVE  Leap(y + era * 400) <=> Leap(y)
BY SMT DEF Leap

\* A date of civil_from_days is one of the calendar: its last day of February is that of
\* its year.
LEMMA CivilIsValid ==
  ASSUME NEW days \in Int
  PROVE  ValidDate(CivilFromDays(days))
<1> DEFINE z   == days + 719468
           era == z \div 146097
           doe == z - era * 146097
           yoe == YearOfEra(doe)
           doy == DayOfEraYear(doe)
           mp  == (5 * doy + 2) \div 153
           m   == IF mp < 10 THEN mp + 3 ELSE mp - 9
           y   == yoe + era * 400 + (IF m <= 2 THEN 1 ELSE 0)
           d   == doy - (153 * mp + 2) \div 5 + 1
<1>1. era \in Int /\ doe \in Nat /\ doe < 146097
  BY SMT
<1>2. /\ yoe \in Nat /\ doy \in Nat /\ doy < 366
      /\ doy = 365 => Leap(yoe + 1)
  BY <1>1, EraYear
<1>3. CivilFromDays(days) = [year |-> y, month |-> m, day |-> d]
  BY DEF CivilFromDays
<1> HIDE DEF era, doe, yoe, doy
<1>4. mp \in 0..11 /\ (mp = 11 => doy >= 337) /\ (doy = 365 => mp = 11)
  BY <1>2, SMT
<1>5. m \in 1..12 /\ (m = 2 <=> mp = 11)
  BY <1>4
<1>6. y \in Int /\ (m = 2 => y = yoe + 1 + era * 400)
  BY <1>1, <1>2, <1>5, SMT
<1>7. d \in 1..31 /\ (m \in {4, 6, 9, 11} => d <= 30) /\ (m = 2 => d <= 29)
      /\ (m = 2 /\ d = 29 => doy = 365)
  BY <1>2, <1>4, SMTT(30)
<1>8. d <= MonthLength(y, m)
  <2> HIDE DEF d, m, y
  <2>1. ASSUME m = 2, d = 29 PROVE Leap(y)
    <3>1. Leap(yoe + 1) /\ yoe + 1 \in Int
      BY <1>2, <1>7, <2>1
    <3>2. Leap(yoe + 1 + era * 400)
      BY <1>1, <3>1, LeapEra
    <3> QED BY <1>6, <2>1, <3>2
  <2> QED BY <1>5, <1>7, <2>1 DEF MonthLength
<1> HIDE DEF d, m, y
<1> QED BY <1>3, <1>5, <1>6, <1>7, <1>8 DEF ValidDate

\* The date after a date of the calendar is one.
LEMMA NextIsValid ==
  ASSUME NEW date, ValidDate(date)
  PROVE  ValidDate(NextDate(date))
<1>1. /\ date \in [year: Int, month: 1..12, day: 1..31]
      /\ date.day <= MonthLength(date.year, date.month)
  BY DEF ValidDate
<1>2. \A y \in Int, m \in 1..12 : MonthLength(y, m) \in 28..31
  BY DEF MonthLength
<1>3. CASE date.day < MonthLength(date.year, date.month)
  <2>1. NextDate(date) = [date EXCEPT !.day = @ + 1]
    BY <1>3 DEF NextDate
  <2>2. /\ NextDate(date) \in [year: Int, month: 1..12, day: 1..31]
        /\ NextDate(date).day <= MonthLength(NextDate(date).year, NextDate(date).month)
    BY <1>1, <1>2, <1>3, <2>1
  <2> QED BY <2>2 DEF ValidDate
<1>4. CASE ~(date.day < MonthLength(date.year, date.month)) /\ date.month < 12
  <2>1. NextDate(date) = [year |-> date.year, month |-> date.month + 1, day |-> 1]
    BY <1>1, <1>4 DEF NextDate
  <2>2. /\ NextDate(date) \in [year: Int, month: 1..12, day: 1..31]
        /\ NextDate(date).day = 1
        /\ NextDate(date).year \in Int /\ NextDate(date).month \in 1..12
    BY <1>1, <1>4, <2>1
  <2>3. 1 <= MonthLength(NextDate(date).year, NextDate(date).month)
    BY <1>2, <2>2
  <2> QED BY <2>2, <2>3 DEF ValidDate
<1>5. CASE ~(date.day < MonthLength(date.year, date.month)) /\ ~(date.month < 12)
  <2>1. NextDate(date) = [year |-> date.year + 1, month |-> 1, day |-> 1]
    BY <1>5 DEF NextDate
  <2>2. /\ NextDate(date) \in [year: Int, month: 1..12, day: 1..31]
        /\ NextDate(date).day = 1
        /\ NextDate(date).year \in Int /\ NextDate(date).month \in 1..12
    BY <1>1, <2>1
  <2>3. 1 <= MonthLength(NextDate(date).year, NextDate(date).month)
    BY <1>2, <2>2
  <2> QED BY <2>2, <2>3 DEF ValidDate
<1> QED BY <1>3, <1>4, <1>5

\* The number of the first day of a year that begins in March, without the cycle.
FirstDay(x) == 365 * x + x \div 4 - x \div 100 + x \div 400 - 719468

LEMMA YearStartIs ==
  ASSUME NEW x \in Int
  PROVE  YearStart(x) = FirstDay(x)
<1> DEFINE era == x \div 400
           yoe == x - era * 400
<1>1. era \in Int /\ yoe \in 0..399 /\ x = 400 * era + yoe
  BY SMT
<1>2. YearStart(x) = era * 146097 + yoe * 365 + yoe \div 4 - yoe \div 100 - 719468
  BY DEF YearStart
<1>3. era = x \div 400
  BY Zenon
<1> HIDE DEF era, yoe
<1>4. x \div 4 = 100 * era + yoe \div 4 /\ x \div 100 = 4 * era + yoe \div 100
  BY <1>1, SMT
<1> QED BY <1>1, <1>2, <1>3, <1>4, SMT DEF FirstDay

\* A year that begins in March has 365 days, or 366 when it ends in a leap year; a later
\* year begins after them.
LEMMA YearsApart ==
  ASSUME NEW y \in Int, NEW later \in Int, y < later
  PROVE  /\ YearStart(y) \in Int /\ YearStart(later) \in Int
         /\ YearStart(y) + 365 <= YearStart(later)
         /\ Leap(y + 1) => YearStart(y) + 366 <= YearStart(later)
<1> DEFINE n == y + 1
<1>1. n \in Int /\ n = y + 1 /\ n <= later
  OBVIOUS
<1> HIDE DEF n
<1>2. /\ n % 4 = 0 => y \div 4 + 1 = n \div 4
      /\ n % 4 # 0 => y \div 4 = n \div 4
  BY <1>1, SMT
<1>3. /\ n % 100 = 0 => y \div 100 + 1 = n \div 100
      /\ n % 100 # 0 => y \div 100 = n \div 100
  BY <1>1, SMT
<1>4. /\ n % 400 = 0 => y \div 400 + 1 = n \div 400
      /\ n % 400 # 0 => y \div 400 = n \div 400
  BY <1>1, SMT
<1>5. (n % 400 = 0 => n % 100 = 0) /\ (n % 100 = 0 => n % 4 = 0)
  BY <1>1, SMT
<1>6. /\ YearStart(y) + 365 <= YearStart(n)
      /\ Leap(n) => YearStart(y) + 366 <= YearStart(n)
  <2>1. YearStart(y) = FirstDay(y) /\ YearStart(n) = FirstDay(n)
    BY <1>1, YearStartIs
  <2>2. CASE n % 4 # 0
    BY <1>1, <1>2, <1>3, <1>4, <1>5, <2>1, <2>2, SMT DEF Leap, FirstDay
  <2>3. CASE n % 4 = 0 /\ n % 100 # 0
    BY <1>1, <1>2, <1>3, <1>4, <1>5, <2>1, <2>3, SMT DEF Leap, FirstDay
  <2>4. CASE n % 100 = 0 /\ n % 400 # 0
    BY <1>1, <1>2, <1>3, <1>4, <1>5, <2>1, <2>4, SMT DEF Leap, FirstDay
  <2>5. CASE n % 400 = 0
    BY <1>1, <1>2, <1>3, <1>4, <1>5, <2>1, <2>5, SMT DEF Leap, FirstDay
  <2> QED BY <1>5, <2>2, <2>3, <2>4, <2>5
<1>7. YearStart(n) <= YearStart(later)
  <2>1. n \div 4 <= later \div 4 /\ n \div 400 <= later \div 400
    BY <1>1, SMT
  <2>2. later \div 100 - n \div 100 <= 365 * (later - n)
    BY <1>1, SMT
  <2>3. YearStart(later) = FirstDay(later) /\ YearStart(n) = FirstDay(n)
    BY <1>1, YearStartIs
  <2> QED BY <1>1, <2>1, <2>2, <2>3, SMT DEF FirstDay
<1>8. YearStart(y) \in Int /\ YearStart(n) \in Int /\ YearStart(later) \in Int
  BY <1>1, YearStartType
<1> QED BY <1>1, <1>6, <1>7, <1>8

\* The month, counted from March, and the day of a day of the year.
MonthOf(doy) == (5 * doy + 2) \div 153
DayOf(doy) == doy - (153 * MonthOf(doy) + 2) \div 5 + 1

\* They are those the day of the year was made of; its last one is that of a leap year.
LEMMA DayOfYearIs ==
  ASSUME NEW date, ValidDate(date)
  PROVE  LET doy == DayOfYear(date.month, date.day)
         IN  /\ doy \in 0..365 /\ (doy = 365 => date.month = 2 /\ Leap(date.year))
             /\ MonthIndex(date.month) = MonthOf(doy) /\ date.day = DayOf(doy)
<1> DEFINE y   == date.year
           m   == date.month
           d   == date.day
           doy == DayOfYear(m, d)
           mp  == (5 * doy + 2) \div 153
<1>6. y \in Int /\ m \in 1..12 /\ d \in 1..31 /\ d <= MonthLength(y, m)
  BY DEF ValidDate
<1> HIDE DEF y, m, d
<1>1. /\ m \in 1..12 /\ MonthIndex(m) \in 0..11 /\ (MonthIndex(m) = 11 <=> m = 2)
      /\ m = MonthIndex(m) + 3 \/ m = MonthIndex(m) - 9
  BY <1>6 DEF MonthIndex
<1>2. d \in 1..31 /\ (m \in {4, 6, 9, 11} => d <= 30) /\ (m = 2 => d <= 29)
      /\ (m = 2 /\ d = 29 => Leap(y))
  BY <1>6 DEF MonthLength
<1>3. doy = (153 * MonthIndex(m) + 2) \div 5 + d - 1
  BY DEF DayOfYear
<1> DEFINE k == MonthIndex(m)
<1>4. k \in 0..11 /\ doy = (153 * k + 2) \div 5 + d - 1 /\ (k = 11 <=> m = 2)
      /\ (k \in {1, 3, 6, 8} => d <= 30) /\ (k = 11 => d <= 29)
  BY <1>1, <1>2, <1>3
<1> HIDE DEF doy, k
<1>5. /\ doy \in 0..365 /\ (doy = 365 => k = 11 /\ d = 29)
      /\ mp = k /\ d = doy - (153 * mp + 2) \div 5 + 1
  BY <1>2, <1>4, SMTT(60)
<1> QED BY <1>2, <1>4, <1>5 DEF doy, k, MonthOf, DayOf, y, m, d

\* Two dates of the calendar have two numbers.
THEOREM DatesApart ==
  ASSUME NEW date, NEW other, ValidDate(date), ValidDate(other),
         DaysFromCivil(date) = DaysFromCivil(other)
  PROVE  date = other
<1> DEFINE y1 == date.year
           m1 == date.month
           d1 == date.day
           a1 == MarchYear(y1, m1)
           n1 == DayOfYear(m1, d1)
           y2 == other.year
           m2 == other.month
           d2 == other.day
           a2 == MarchYear(y2, m2)
           n2 == DayOfYear(m2, d2)
<1>1. /\ date = [year |-> y1, month |-> m1, day |-> d1]
      /\ y1 \in Int /\ m1 \in 1..12 /\ d1 \in 1..31 /\ d1 <= MonthLength(y1, m1)
  BY DEF ValidDate
<1>2. /\ other = [year |-> y2, month |-> m2, day |-> d2]
      /\ y2 \in Int /\ m2 \in 1..12 /\ d2 \in 1..31 /\ d2 <= MonthLength(y2, m2)
  BY DEF ValidDate
<1>3. YearStart(a1) + n1 = YearStart(a2) + n2
  BY DEF DaysFromCivil
<1> HIDE DEF y1, m1, d1, y2, m2, d2
<1>4. /\ n1 \in 0..365 /\ (n1 = 365 => m1 = 2 /\ Leap(y1))
      /\ MonthIndex(m1) = MonthOf(n1) /\ d1 = DayOf(n1)
  BY DayOfYearIs DEF y1, m1, d1
<1>5. /\ n2 \in 0..365 /\ (n2 = 365 => m2 = 2 /\ Leap(y2))
      /\ MonthIndex(m2) = MonthOf(n2) /\ d2 = DayOf(n2)
  BY DayOfYearIs DEF y2, m2, d2
<1>6. a1 \in Int /\ (m1 = 2 => y1 = a1 + 1) /\ a2 \in Int /\ (m2 = 2 => y2 = a2 + 1)
  BY <1>1, <1>2 DEF MarchYear
<1>7. ~(a1 < a2)
  <2>1. SUFFICES ASSUME a1 < a2 PROVE FALSE
    OBVIOUS
  <2> HIDE DEF a1, a2, n1, n2
  <2>2. /\ YearStart(a1) \in Int /\ YearStart(a2) \in Int
        /\ YearStart(a1) + 365 <= YearStart(a2)
        /\ Leap(a1 + 1) => YearStart(a1) + 366 <= YearStart(a2)
    BY <1>6, <2>1, YearsApart
  <2> QED BY <1>3, <1>4, <1>5, <1>6, <2>2
<1>8. ~(a2 < a1)
  <2>1. SUFFICES ASSUME a2 < a1 PROVE FALSE
    OBVIOUS
  <2> HIDE DEF a1, a2, n1, n2
  <2>2. /\ YearStart(a2) \in Int /\ YearStart(a1) \in Int
        /\ YearStart(a2) + 365 <= YearStart(a1)
        /\ Leap(a2 + 1) => YearStart(a2) + 366 <= YearStart(a1)
    BY <1>6, <2>1, YearsApart
  <2> QED BY <1>3, <1>4, <1>5, <1>6, <2>2
<1>9. a1 = a2 /\ n1 = n2
  <2>1. a1 = a2
    <3> HIDE DEF a1, a2
    <3> QED BY <1>6, <1>7, <1>8
  <2>2. YearStart(a1) \in Int
    BY <1>6, YearStartType
  <2> HIDE DEF a1, a2, n1, n2
  <2> QED BY <1>3, <1>4, <1>5, <2>1, <2>2
<1>10. m1 = m2 /\ d1 = d2
  <2>1. MonthIndex(m1) = MonthIndex(m2) /\ d1 = d2
    BY <1>4, <1>5, <1>9
  <2> QED BY <1>1, <1>2, <2>1 DEF MonthIndex
<1>11. y1 = y2
  BY <1>1, <1>2, <1>9, <1>10 DEF MarchYear
<1> QED BY <1>1, <1>2, <1>10, <1>11

\* Every date of the calendar comes back from its number (days_from_civil, then
\* civil_from_days).
THEOREM DatesInvert ==
  ASSUME NEW date, ValidDate(date)
  PROVE  CivilFromDays(DaysFromCivil(date)) = date
<1> DEFINE days == DaysFromCivil(date)
           back == CivilFromDays(days)
<1>1. days \in Int
  <2>1. date.year \in Int /\ date.month \in 1..12 /\ date.day \in 1..31
    BY DEF ValidDate
  <2>2. MarchYear(date.year, date.month) \in Int /\ DayOfYear(date.month, date.day) \in Int
    BY <2>1 DEF MarchYear, DayOfYear, MonthIndex
  <2> QED BY <2>2, YearStartType DEF DaysFromCivil
<1> HIDE DEF days
<1>2. ValidDate(back) /\ DaysFromCivil(back) = days
  BY <1>1, CivilIsValid, DaysInvert
<1>3. back = date
  <2> HIDE DEF back
  <2> QED BY <1>2, DatesApart DEF days
<1> QED BY <1>3 DEF back, days

\* civil_from_days goes through the calendar, one date after the other, from any day on.
THEOREM CivilFollows ==
  ASSUME NEW days \in Int
  PROVE  CivilFromDays(days + 1) = NextDate(CivilFromDays(days))
<1> DEFINE c == CivilFromDays(days)
           n == CivilFromDays(days + 1)
<1>1. ValidDate(c) /\ DaysFromCivil(c) = days
  BY CivilIsValid, DaysInvert
<1>2. ValidDate(n) /\ DaysFromCivil(n) = days + 1
  BY CivilIsValid, DaysInvert
<1> HIDE DEF c, n
<1>3. ValidDate(NextDate(c)) /\ DaysFromCivil(NextDate(c)) = days + 1
  BY <1>1, NextIsValid, DaysCount
<1>4. n = NextDate(c)
  BY <1>2, <1>3, DatesApart
<1> QED BY <1>4 DEF c, n

\* The days of the windows are numbers.
DayType == day \in Int

LEMMA DayIsInt == Spec => []DayType
<1>1. Init => DayType
  BY FunctionsAssumption DEF Init, DayType
<1>2. DayType /\ [Next]_vars => DayType'
  BY DEF DayType, Next, Grow, NextDay, vars
<1> QED BY <1>1, <1>2, PTL DEF Spec

\* So do the dates of the days that follow each other in a run.
THEOREM CivilDatesFollowHolds == Spec => CivilDatesFollow
<1>1. DayType /\ [Next]_vars
        => [kind = "day" => CivilFromDays(day') = NextDate(CivilFromDays(day))]_vars
  <2> SUFFICES ASSUME DayType, Next, kind = "day"
               PROVE  CivilFromDays(day') = NextDate(CivilFromDays(day))
    OBVIOUS
  <2>1. day' = day + 1 /\ day \in Int
    BY DEF Next, Grow, NextDay, DayType
  <2> QED BY <2>1, CivilFollows
<1> QED BY <1>1, DayIsInt, PTL DEF Spec, CivilDatesFollow

-----------------------------------------------------------------------------
(* Stamps and the clock.                                                   *)

\* Division of any number with a rest, and what the rest and the quotient have to be.
LEMMA Rounds ==
  ASSUME NEW n \in Int, NEW d \in Nat \ {0}
  PROVE  n \div d \in Int /\ n % d \in 0..(d - 1) /\ n = d * (n \div d) + (n % d)
OBVIOUS

LEMMA RestUnique ==
  ASSUME NEW q \in Int, NEW d \in Nat \ {0}, NEW r \in 0..(d - 1)
  PROVE  (d * q + r) \div d = q /\ (d * q + r) % d = r
OBVIOUS

\* The numbers of a stamp are those of its second: days, and seconds of the day.
LEMMA StampSeconds ==
  ASSUME NEW t \in Int, NEW zone
  PROVE  LET stamp == Stamp(t, zone)
         IN  DaysFromCivil(stamp.date) * DaySeconds + SecondOfDay(stamp) = t
<1> DEFINE rest == t % DaySeconds
           past == rest % HourSeconds
<1>1. /\ DaySeconds \in Nat \ {0} /\ HourSeconds \in Nat \ {0} /\ MinuteSeconds \in Nat \ {0}
      /\ HourSeconds % MinuteSeconds = 0
  BY TimeAssumption
<1>2. t \div DaySeconds \in Int /\ rest \in Nat /\ t = DaySeconds * (t \div DaySeconds) + rest
  BY <1>1, Rounds
<1> HIDE DEF rest
<1>3. rest \div HourSeconds \in Nat /\ past \in Nat
      /\ rest = HourSeconds * (rest \div HourSeconds) + past
  BY <1>1, <1>2, Division
<1> HIDE DEF past
<1>4. /\ past \div MinuteSeconds \in Nat /\ past % MinuteSeconds \in 0..(MinuteSeconds - 1)
      /\ past = MinuteSeconds * (past \div MinuteSeconds) + (past % MinuteSeconds)
  BY <1>1, <1>3, Division
<1>5. rest % MinuteSeconds = past % MinuteSeconds
  <2> DEFINE e == HourSeconds \div MinuteSeconds
             h == rest \div HourSeconds
             m == past \div MinuteSeconds
             s == past % MinuteSeconds
  <2>1. e \in Nat /\ HourSeconds = MinuteSeconds * e
    BY <1>1, Division
  <2>2. h \in Nat /\ m \in Nat /\ s \in 0..(MinuteSeconds - 1)
        /\ rest = HourSeconds * h + (MinuteSeconds * m + s)
    BY <1>3, <1>4
  <2> HIDE DEF e, h, m, s
  <2>3. e * h + m \in Nat
    BY <2>1, <2>2
  <2>4. rest = MinuteSeconds * (e * h + m) + s
    BY <1>1, <2>1, <2>2, SMTT(30)
  <2>5. (MinuteSeconds * (e * h + m) + s) % MinuteSeconds = s
    BY <1>1, <2>2, <2>3, DivisionUnique
  <2> QED BY <2>4, <2>5 DEF s
<1>6. DaysFromCivil(CivilFromDays(t \div DaySeconds)) = t \div DaySeconds
  BY <1>2, DaysInvert
<1> DEFINE st == Stamp(t, zone)
<1>7. st.date = CivilFromDays(t \div DaySeconds) /\ st.hour = rest \div HourSeconds
      /\ st.minute = past \div MinuteSeconds /\ st.second = past % MinuteSeconds
  BY <1>5 DEF Stamp, rest, past
<1> HIDE DEF st
<1>8. SecondOfDay(st) = rest
  <2> DEFINE h == rest \div HourSeconds
             m == past \div MinuteSeconds
             s == past % MinuteSeconds
  <2>1. h \in Nat /\ m \in Nat /\ s \in Nat
        /\ rest = HourSeconds * h + past /\ past = MinuteSeconds * m + s
    BY <1>1, <1>3, <1>4
  <2>2. SecondOfDay(st) = h * HourSeconds + m * MinuteSeconds + s
    BY <1>7 DEF SecondOfDay
  <2> HIDE DEF h, m, s
  <2> QED BY <1>1, <2>1, <2>2, SMTT(30)
<1>9. DaysFromCivil(st.date) * DaySeconds + SecondOfDay(st) = t
  BY <1>1, <1>2, <1>6, <1>7, <1>8
<1> QED BY <1>9 DEF st

\* A stamp tells its second.
LEMMA StampUnique ==
  ASSUME NEW t \in Int, NEW u \in Int, NEW zone, Stamp(t, zone) = Stamp(u, zone)
  PROVE  t = u
BY StampSeconds

\* A count of ticks is put into the range of the clock by whole turns.
Half == TickRange \div 2

LEMMA WrapTurns ==
  ASSUME NEW x \in Int
  PROVE  /\ Wrap(x) \in Int /\ -Half <= Wrap(x) /\ Wrap(x) < Half
         /\ \E k \in Int : x = TickRange * k + Wrap(x)
         /\ -Half <= x /\ x < Half => Wrap(x) = x
<1>1. TickRange \in Nat \ {0} /\ Half \in Nat /\ TickRange = 2 * Half
  BY TimeAssumption DEF Half
<1> DEFINE k == (x + Half) \div TickRange
           r == (x + Half) % TickRange
<1>2. k \in Int /\ r \in 0..(TickRange - 1) /\ x + Half = TickRange * k + r
  <2> DEFINE n == x + Half
  <2>1. n \in Int
    BY <1>1
  <2> HIDE DEF n
  <2>2. n \div TickRange \in Int /\ n % TickRange \in 0..(TickRange - 1)
        /\ n = TickRange * (n \div TickRange) + (n % TickRange)
    BY <1>1, <2>1, Rounds
  <2> QED BY <2>2 DEF n
<1>3. Wrap(x) = r - Half
  BY DEF Wrap, Half
<1>4. -Half <= x /\ x < Half => r = x + Half
  <2> SUFFICES ASSUME -Half <= x, x < Half PROVE r = x + Half
    OBVIOUS
  <2>1. x + Half \in 0..(TickRange - 1)
    BY <1>1
  <2>2. (TickRange * 0 + (x + Half)) % TickRange = x + Half
    BY <1>1, <2>1, RestUnique
  <2>3. TickRange * 0 + (x + Half) = x + Half
    BY <1>1
  <2> QED BY <2>2, <2>3
<1> HIDE DEF k, r
<1>5. x = TickRange * k + Wrap(x)
  BY <1>1, <1>2, <1>3
<1>6. Wrap(x) \in Int /\ -Half <= Wrap(x) /\ Wrap(x) < Half
  BY <1>1, <1>2, <1>3
<1>7. -Half <= x /\ x < Half => Wrap(x) = x
  BY <1>1, <1>3, <1>4
<1> QED BY <1>2, <1>5, <1>6, <1>7

\* Whole turns between do not show.
LEMMA WrapTwice ==
  ASSUME NEW x \in Int, NEW y \in Int
  PROVE  Wrap(Wrap(x) - y) = Wrap(x - y)
<1>1. TickRange \in Nat \ {0} /\ Half \in Nat
  BY TimeAssumption DEF Half
<1>2. PICK k \in Int : x = TickRange * k + Wrap(x)
  BY WrapTurns
<1> DEFINE w == Wrap(x)
           n == w - y + Half
           q == n \div TickRange
           r == n % TickRange
<1>3. w \in Int
  BY WrapTurns
<1> HIDE DEF w
<1>4. q \in Int /\ r \in 0..(TickRange - 1) /\ n = TickRange * q + r
  BY <1>1, <1>3, Rounds
<1> HIDE DEF q
<1>5. x - y + Half = TickRange * (q + k) + r
  <2>1. x = TickRange * k + w
    BY <1>2 DEF w
  <2> HIDE DEF r
  <2> QED BY <1>1, <1>3, <1>4, <2>1, SMTT(30)
<1>6. (TickRange * (q + k) + r) % TickRange = r
  <2>1. q + k \in Int
    BY <1>4
  <2> HIDE DEF r
  <2> QED BY <1>1, <1>4, <2>1, RestUnique
<1>7. Wrap(w - y) = Wrap(x - y)
  BY <1>5, <1>6 DEF Wrap, Half
<1> QED BY <1>7 DEF w

\* The seconds of a count of ticks are rounded towards zero: they are the second
\* the ticks were made from, or those of fewer ticks than these.
LEMMA TicksSeconds ==
  ASSUME NEW s \in Int, NEW w \in Int, UnixSeconds(w) = s, -Half <= w, w < Half
  PROVE  InClock(s)
<1>1. SecondTicks \in Nat \ {0} /\ Half \in Nat /\ TickRange \in Nat \ {0} /\ TickRange = 2 * Half
  BY TimeAssumption DEF Half
<1>2. CASE w >= 0
  <2>1. s \in Nat /\ w = SecondTicks * s + (w % SecondTicks) /\ w % SecondTicks \in Nat
    <3>1. w \in Nat /\ s = w \div SecondTicks
      BY <1>2 DEF UnixSeconds
    <3>2. /\ w \div SecondTicks \in Nat /\ w % SecondTicks \in 0..(SecondTicks - 1)
          /\ w = SecondTicks * (w \div SecondTicks) + (w % SecondTicks)
      BY <1>1, <3>1, Division
    <3> QED BY <1>1, <3>1, <3>2
  <2>2. 0 <= s * SecondTicks /\ s * SecondTicks <= w
    BY <1>1, <2>1
  <2>3. s * SecondTicks \in Int
    BY <1>1
  <2> QED BY <1>1, <2>2, <2>3 DEF InClock, Half
<1>3. CASE w < 0
  <2> DEFINE v == -w
  <2>1. v \in Nat
    BY <1>3
  <2>2. s = -(v \div SecondTicks)
    BY <1>3 DEF UnixSeconds
  <2> HIDE DEF v
  <2>3. v \div SecondTicks \in Nat /\ v % SecondTicks \in Nat
        /\ v = SecondTicks * (v \div SecondTicks) + (v % SecondTicks)
    BY <1>1, <2>1, Division
  <2>4. PICK q \in Nat : s = -q /\ SecondTicks * q <= v
    BY <1>1, <2>1, <2>2, <2>3
  <2>5. SecondTicks * q \in Nat /\ s * SecondTicks = -(SecondTicks * q)
    BY <1>1, <2>4
  <2>6. v <= Half
    BY <1>1 DEF v
  <2> QED BY <1>1, <2>1, <2>4, <2>5, <2>6, <1>3 DEF InClock, Half
<1> QED BY <1>2, <1>3

LEMMA SecondsTicks ==
  ASSUME NEW s \in Int
  PROVE  UnixSeconds(s * SecondTicks) = s
<1>1. SecondTicks \in Nat \ {0}
  BY TimeAssumption
<1>2. CASE s >= 0
  <2>1. (SecondTicks * s + 0) \div SecondTicks = s
    BY <1>1, <1>2, DivisionUnique
  <2>2. s * SecondTicks = SecondTicks * s + 0 /\ s * SecondTicks >= 0
    BY <1>1, <1>2
  <2> QED BY <2>1, <2>2 DEF UnixSeconds
<1>3. CASE s < 0
  <2>1. (SecondTicks * (-s) + 0) \div SecondTicks = -s
    BY <1>1, <1>3, DivisionUnique
  <2>2. -(s * SecondTicks) = SecondTicks * (-s) + 0 /\ ~(s * SecondTicks >= 0)
    BY <1>1, <1>3
  <2> QED BY <1>3, <2>1, <2>2 DEF UnixSeconds
<1> QED BY <1>2, <1>3

\* What parse_rfc3339 makes of a stamp: the ticks of its second in UTC, put into range.
LEMMA StampTicks ==
  ASSUME NEW s \in Int, NEW zone, ZoneOffset(zone) \in Int
  PROVE  ParseRfc3339(Stamp(s + ZoneOffset(zone), zone)) = Wrap(s * SecondTicks)
<1> DEFINE o == ZoneOffset(zone)
           t == s + o
           st == Stamp(t, zone)
<1>1. SecondTicks \in Nat
  BY TimeAssumption
<1>2. o \in Int /\ t \in Int
  OBVIOUS
<1>3. st.zone = zone
  BY DEF Stamp
<1>4. DaysFromCivil(st.date) * DaySeconds + SecondOfDay(st) = t
  <2> HIDE DEF t
  <2> QED BY <1>2, StampSeconds
<1>5. ParseRfc3339(st) = Wrap(Wrap(t * SecondTicks) - o * SecondTicks)
  <2> HIDE DEF t, st
  <2> QED BY <1>3, <1>4 DEF ParseRfc3339, FromUnixSeconds, o
<1>6. t * SecondTicks \in Int /\ o * SecondTicks \in Int
      /\ t * SecondTicks - o * SecondTicks = s * SecondTicks
  <2> HIDE DEF o
  <2> QED BY <1>1, <1>2
<1>7. Wrap(Wrap(t * SecondTicks) - o * SecondTicks) = Wrap(t * SecondTicks - o * SecondTicks)
  <2> HIDE DEF t, o
  <2> QED BY <1>6, WrapTwice
<1>8. ParseRfc3339(st) = Wrap(s * SecondTicks)
  BY <1>5, <1>6, <1>7
<1> QED BY <1>8

\* A stamp is read as its second, and written again as it is in UTC, if and only if the
\* clock counts that far (parse_rfc3339, format_rfc3339).
THEOREM StampReadBack ==
  ASSUME NEW s \in Int, NEW zone, ZoneOffset(zone) \in Int
  PROVE  LET time == ParseRfc3339(Stamp(s + ZoneOffset(zone), zone))
         IN  /\ InClock(s) <=> UnixSeconds(time) = s
             /\ InClock(s) <=> FormatRfc3339(time) = Stamp(s, Utc)
<1> DEFINE x == s * SecondTicks
           time == Wrap(x)
<1>1. TickRange \in Nat \ {0} /\ SecondTicks \in Nat \ {0} /\ x \in Int /\ Half \in Nat
  BY TimeAssumption DEF Half
<1>2. time \in Int /\ -Half <= time /\ time < Half /\ (-Half <= x /\ x < Half => time = x)
  <2> HIDE DEF x
  <2> QED BY <1>1, WrapTurns
<1>3. InClock(s) => UnixSeconds(time) = s
  <2> SUFFICES ASSUME InClock(s) PROVE UnixSeconds(time) = s
    OBVIOUS
  <2>1. time = x
    BY <1>2 DEF InClock, Half
  <2> QED BY <2>1, SecondsTicks
<1> HIDE DEF time
<1>4. UnixSeconds(time) = s => InClock(s)
  BY <1>2, TicksSeconds
<1>5. UnixSeconds(time) \in Int
  BY <1>1, <1>2, Rounds DEF UnixSeconds
<1>6. FormatRfc3339(time) = Stamp(UnixSeconds(time), Utc)
  BY DEF FormatRfc3339, Stamp
<1>7. FormatRfc3339(time) = Stamp(s, Utc) <=> UnixSeconds(time) = s
  BY <1>5, <1>6, StampUnique
<1>8. ParseRfc3339(Stamp(s + ZoneOffset(zone), zone)) = time
  BY StampTicks DEF time
<1> QED BY <1>3, <1>4, <1>7, <1>8

\* In a run, every second of every day, in each of the zones.
THEOREM StampsReadBackHolds == Spec => []StampsReadBack
<1>1. DayType => StampsReadBack
  <2> SUFFICES ASSUME DayType, NEW seconds \in SecondsOf(day), NEW zone \in Zones
               PROVE  LET time == ParseRfc3339(Stamp(seconds + ZoneOffset(zone), zone))
                      IN  /\ InClock(seconds) <=> UnixSeconds(time) = seconds
                          /\ InClock(seconds) <=> FormatRfc3339(time) = Stamp(seconds, Utc)
    BY DEF StampsReadBack
  <2>1. HourSeconds \in Nat /\ MinuteSeconds \in Nat /\ DaySeconds \in Nat
    BY TimeAssumption
  <2>2. seconds \in Int
    BY <2>1 DEF SecondsOf, DayType
  <2>3. zone.sign \in {-1, 1} /\ zone.hour \in {0, 1} /\ zone.minute \in {0, 1}
    BY DEF Zones, Utc
  <2>4. ZoneOffset(zone) \in Int
    BY <2>1, <2>3 DEF ZoneOffset
  <2> QED BY <2>2, <2>4, StampReadBack
<1> QED BY <1>1, DayIsInt, PTL

-----------------------------------------------------------------------------
(* CSV rows.                                                               *)

\* What the reader of a record may know.
CsvState(C) == [cells : Seq(Seq(C)), cell : Seq(C), quoted : BOOLEAN, skip : BOOLEAN]

\* The reader of a record, character after character.
LEMMA CsvLoop ==
  ASSUME NEW C, Quote \in C, NEW line \in Seq(C)
  PROVE  /\ CsvAfter(line, 0) = CsvStart
         /\ \A i \in 1..Len(line) : CsvAfter(line, i) = CsvTurn(line, CsvAfter(line, i - 1), i)
         /\ \A i \in 0..Len(line) : CsvAfter(line, i) \in CsvState(C)
<1> DEFINE n == Len(line)
           D == 0..n
           V == CsvState(C)
           first == CsvStart
           turn(v, i) == IF i = 0 THEN first ELSE CsvTurn(line, v, i)
           step == [p \in V \X D |-> turn(p[1], p[2])]
           turns(f) == [i \in 0..n |-> IF i = 0 THEN first ELSE CsvTurn(line, f[i - 1], i)]
           f == CHOOSE h : h = turns(h)
<1>1. n \in Nat /\ 0 \in D /\ \A i \in 1..n : i - 1 \in D /\ i \in D \ {0} /\ line[i] \in C
  OBVIOUS
<1>2. first \in V
  BY DEF CsvState, CsvStart
<1>3. \A v \in V : \A i \in 1..n : CsvTurn(line, v, i) \in V
  <2> SUFFICES ASSUME NEW v \in V, NEW i \in 1..n PROVE CsvTurn(line, v, i) \in V
    OBVIOUS
  <2>1. line[i] \in C /\ v.cell \in Seq(C) /\ v.cells \in Seq(Seq(C))
    BY DEF CsvState
  <2>2. Append(v.cell, Quote) \in Seq(C) /\ Append(v.cell, line[i]) \in Seq(C)
    BY <2>1, AppendProperties
  <2>3. Append(v.cells, v.cell) \in Seq(Seq(C)) /\ <<>> \in Seq(C)
    BY <2>1, AppendProperties
  <2> QED BY <2>1, <2>2, <2>3 DEF CsvTurn, CsvState
<1>4. step \in [V \X D -> V]
  <2>1. ASSUME NEW v \in V, NEW i \in D PROVE turn(v, i) \in V
    <3>1. i # 0 => i \in 1..n
      BY <1>1
    <3> HIDE DEF V, first
    <3> QED BY <1>2, <1>3, <3>1
  <2> HIDE DEF turn, V, D
  <2> QED BY <2>1
<1>5. PICK g \in [D -> V] : Loop(g, D, first, step)
  <2>1. D \in Counts
    BY <1>1, CountsAre
  <2> HIDE DEF step, D, V, first
  <2> QED BY <1>2, <1>4, <2>1, LoopExists
<1>6. ASSUME NEW i \in D \ {0} PROVE g[i] = CsvTurn(line, g[i - 1], i)
  <2>1. i - 1 \in D
    BY <1>1
  <2>2. step[<<g[i - 1], i>>] = turn(g[i - 1], i)
    <3> HIDE DEF turn, V
    <3> QED BY <2>1
  <2>3. turn(g[i - 1], i) = CsvTurn(line, g[i - 1], i)
    OBVIOUS
  <2> HIDE DEF step, V, D, turn, first
  <2> QED BY <1>5, <2>2, <2>3 DEF Loop
<1>7. g = turns(g)
  <2>1. g[0] = first
    BY <1>5 DEF Loop
  <2> HIDE DEF first, V
  <2> QED BY <1>6, <2>1
<1>8. f = turns(f)
  <2> HIDE DEF turns
  <2> QED BY <1>7
<1>9. \A k \in D : CsvAfter(line, k) = f[k]
  BY DEF CsvAfter
<1> HIDE DEF f
<1>10. f[0] = first /\ \A i \in 1..n : f[i] = CsvTurn(line, f[i - 1], i)
  <2> HIDE DEF first, V
  <2>1. \A i \in 1..n : i \in 0..n /\ i # 0
    BY <1>1
  <2> QED BY <1>1, <1>8, <2>1
<1> DEFINE S == {i \in D : f[i] \in V}
<1>11. 0 \in S
  <2> HIDE DEF first, V
  <2> QED BY <1>1, <1>2, <1>10
<1>12. \A i \in 1..n : i - 1 \in S => i \in S
  <2> HIDE DEF first, V
  <2> QED BY <1>1, <1>3, <1>10
<1>13. 0..n \subseteq S
  <2> HIDE DEF S
  <2> QED BY <1>1, <1>11, <1>12, BoundedInduction
<1>14. \A k \in 0..n : f[k] \in V
  BY <1>13
<1>15. \A i \in 1..n : i - 1 \in 0..n /\ i \in 0..n
  BY <1>1
<1> HIDE DEF V, first, n
<1> QED BY <1>1, <1>9, <1>10, <1>14, <1>15 DEF V, first, n

\* Between two characters: the cells behind which cell c is read, outside of quotes.
Outside(cells, c) == [cells |-> cells, cell |-> c, quoted |-> FALSE, skip |-> FALSE]

\* Within quotes.
Within(cells, c) == [cells |-> cells, cell |-> c, quoted |-> TRUE, skip |-> FALSE]

\* Outside of quotes a character is another one of the cell,
LEMMA CharacterOutside ==
  ASSUME NEW C, Quote \in C, NEW line \in Seq(C), NEW i \in 1..Len(line),
         NEW cells, NEW c, CsvAfter(line, i - 1) = Outside(cells, c), line[i] # Quote, line[i] # Comma
  PROVE  CsvAfter(line, i) = Outside(cells, Append(c, line[i]))
<1> DEFINE st == CsvAfter(line, i - 1)
<1>1. /\ st = [cells |-> cells, cell |-> c, quoted |-> FALSE, skip |-> FALSE]
      /\ Comma # Quote
  BY DEF Outside, Comma, Quote
<1>2. CsvAfter(line, i) = CsvTurn(line, st, i)
  BY CsvLoop
<1> HIDE DEF st
<1> QED BY <1>1, <1>2 DEF CsvTurn, Outside

\* or a quote that opens,
LEMMA QuoteOpens ==
  ASSUME NEW C, Quote \in C, NEW line \in Seq(C), NEW i \in 1..Len(line),
         NEW cells, NEW c, CsvAfter(line, i - 1) = Outside(cells, c), line[i] = Quote
  PROVE  CsvAfter(line, i) = Within(cells, c)
<1> DEFINE st == CsvAfter(line, i - 1)
<1>1. /\ st = [cells |-> cells, cell |-> c, quoted |-> FALSE, skip |-> FALSE]
      /\ Comma # Quote
  BY DEF Outside, Comma, Quote
<1>2. CsvAfter(line, i) = CsvTurn(line, st, i)
  BY CsvLoop
<1> HIDE DEF st
<1> QED BY <1>1, <1>2 DEF CsvTurn, Outside, Within

\* or a comma that ends the cell.
LEMMA CommaEnds ==
  ASSUME NEW C, Quote \in C, NEW line \in Seq(C), NEW i \in 1..Len(line),
         NEW cells, NEW c, CsvAfter(line, i - 1) = Outside(cells, c), line[i] = Comma
  PROVE  CsvAfter(line, i) = Outside(Append(cells, c), <<>>)
<1> DEFINE st == CsvAfter(line, i - 1)
<1>1. /\ st = [cells |-> cells, cell |-> c, quoted |-> FALSE, skip |-> FALSE]
      /\ Comma # Quote
  BY DEF Outside, Comma, Quote
<1>2. CsvAfter(line, i) = CsvTurn(line, st, i)
  BY CsvLoop
<1> HIDE DEF st
<1> QED BY <1>1, <1>2 DEF CsvTurn, Outside

\* Within quotes it is another one of the cell, or a quote that closes, or the first
\* one of a doubled quote, which takes the second with it.
LEMMA CharacterWithin ==
  ASSUME NEW C, Quote \in C, NEW line \in Seq(C), NEW i \in 1..Len(line),
         NEW cells, NEW c, CsvAfter(line, i - 1) = Within(cells, c)
  PROVE  /\ line[i] # Quote => CsvAfter(line, i) = Within(cells, Append(c, line[i]))
         /\ line[i] = Quote /\ (i < Len(line) => line[i + 1] # Quote) =>
              CsvAfter(line, i) = Outside(cells, c)
         /\ line[i] = Quote /\ i < Len(line) /\ line[i + 1] = Quote =>
              CsvAfter(line, i + 1) = Within(cells, Append(c, Quote))
<1> DEFINE st == CsvAfter(line, i - 1)
           next == CsvAfter(line, i)
<1>1. st = [cells |-> cells, cell |-> c, quoted |-> TRUE, skip |-> FALSE]
  BY DEF Within
<1>2. \A k \in 1..Len(line) : CsvAfter(line, k) = CsvTurn(line, CsvAfter(line, k - 1), k)
  BY CsvLoop
<1>3. next = CsvTurn(line, st, i)
  BY <1>2
<1> HIDE DEF st
<1>4. line[i] # Quote => next = Within(cells, Append(c, line[i]))
  BY <1>1, <1>3 DEF CsvTurn, Within
<1>5. line[i] = Quote /\ (i < Len(line) => line[i + 1] # Quote) => next = Outside(cells, c)
  BY <1>1, <1>3 DEF CsvTurn, Outside
<1>6. ASSUME line[i] = Quote, i < Len(line), line[i + 1] = Quote
      PROVE  CsvAfter(line, i + 1) = Within(cells, Append(c, Quote))
  <2>1. next = [cells |-> cells, cell |-> Append(c, Quote), quoted |-> TRUE, skip |-> TRUE]
    BY <1>1, <1>3, <1>6 DEF CsvTurn
  <2>2. i + 1 \in 1..Len(line) /\ (i + 1) - 1 = i
    BY <1>6
  <2>3. CsvAfter(line, i + 1) = CsvTurn(line, next, i + 1)
    BY <1>2, <2>2
  <2> HIDE DEF next
  <2> QED BY <2>1, <2>3 DEF CsvTurn, Within
<1> QED BY <1>4, <1>5, <1>6

\* A cell without commas and quotes is read as it is.
LEMMA PlainCell ==
  ASSUME NEW C, Quote \in C, NEW line \in Seq(C), NEW p \in Nat,
         NEW c \in Seq(C), \A i \in 1..Len(c) : c[i] \notin {Comma, Quote}, Follows(line, p, c),
         NEW cells, CsvAfter(line, p) = Outside(cells, <<>>)
  PROVE  CsvAfter(line, p + Len(c)) = Outside(cells, c)
<1> DEFINE n == Len(c)
           part(k) == Outside(cells, SubSeq(c, 1, k))
           S == {k \in 0..n : CsvAfter(line, p + k) = part(k)}
<1>0. n \in Nat
  OBVIOUS
<1>1. part(0) = Outside(cells, <<>>) /\ part(n) = Outside(cells, c)
  <2>1. SubSeq(c, 1, 0) = <<>> /\ SubSeq(c, 1, n) = c
    BY Beginnings
  <2> QED BY <2>1, Zenon
<1>2. 0 \in S
  <2>1. p + 0 = p /\ 0 \in 0..n
    BY <1>0
  <2> HIDE DEF part
  <2> QED BY <1>1, <2>1
<1>3. ASSUME NEW k \in 1..n, k - 1 \in S PROVE k \in S
  <2> DEFINE i == p + k
             before == SubSeq(c, 1, k - 1)
  <2>1. i \in 1..Len(line) /\ i - 1 = p + (k - 1) /\ line[i] = c[k] /\ k \in 0..n
    BY <1>0 DEF Follows
  <2>2. CsvAfter(line, i - 1) = Outside(cells, before)
    BY <1>3, <2>1
  <2>3. SubSeq(c, 1, k) = Append(before, c[k])
    BY Beginnings
  <2>4. line[i] # Quote /\ line[i] # Comma
    BY <2>1
  <2>5. CsvAfter(line, i) = Outside(cells, Append(before, line[i]))
    <3>1. i \in 1..Len(line) /\ Quote \in C /\ line \in Seq(C)
      BY <2>1
    <3> HIDE DEF i, before
    <3> QED BY <2>2, <2>4, <3>1, CharacterOutside
  <2>6. CsvAfter(line, p + k) = part(k)
    <3> HIDE DEF before
    <3> QED BY <2>1, <2>3, <2>5
  <2> HIDE DEF part
  <2> QED BY <2>1, <2>6
<1>4. 0..n \subseteq S
  <2> HIDE DEF S
  <2> QED BY <1>0, <1>2, <1>3, BoundedInduction
<1>5. n \in S
  <2> HIDE DEF S
  <2> QED BY <1>0, <1>4
<1> HIDE DEF part
<1> QED BY <1>1, <1>5

\* Doubled quotes are of the same characters.
LEMMA DoubledType ==
  ASSUME NEW C, Quote \in C, NEW c \in Seq(C)
  PROVE  CsvDoubled(c) \in Seq(C)
<1> DEFINE n == Len(c)
           seqs == [i \in 1..n |-> IF c[i] = Quote THEN <<Quote, Quote>> ELSE <<c[i]>>]
<1>1. seqs \in Seq(Seq(C))
  <2>1. \A i \in 1..n : c[i] \in C /\ seqs[i] \in Seq(C)
    OBVIOUS
  <2>2. n \in Nat
    OBVIOUS
  <2> QED BY <2>1, <2>2
<1>2. CsvDoubled(c) = FlattenSeq(seqs)
  BY DEF CsvDoubled
<1> HIDE DEF seqs
<1>3. PICK g : Flattens(g, seqs, C)
  BY <1>1, FlattenLoop
<1> QED BY <1>1, <1>2, <1>3, FlattenAt

\* The text of a cell within quotes is read with every doubled quote as one.
LEMMA DoubledCell ==
  ASSUME NEW C, Quote \in C, NEW line \in Seq(C), NEW p \in Nat,
         NEW c \in Seq(C), Follows(line, p, CsvDoubled(c)),
         NEW cells, CsvAfter(line, p) = Within(cells, <<>>)
  PROVE  CsvAfter(line, p + Len(CsvDoubled(c))) = Within(cells, c)
<1> DEFINE n == Len(c)
           seqs == [i \in 1..n |-> IF c[i] = Quote THEN <<Quote, Quote>> ELSE <<c[i]>>]
           part(k) == Within(cells, SubSeq(c, 1, k))
<1>0. n \in Nat
  OBVIOUS
<1>1. part(0) = Within(cells, <<>>) /\ part(n) = Within(cells, c)
  <2>1. SubSeq(c, 1, 0) = <<>> /\ SubSeq(c, 1, n) = c
    BY Beginnings
  <2> QED BY <2>1, Zenon
<1>2. seqs \in Seq(Seq(C)) /\ Len(seqs) = n
  <2>1. \A i \in 1..n : c[i] \in C /\ seqs[i] \in Seq(C)
    OBVIOUS
  <2> QED BY <1>0, <2>1
<1>3. CsvDoubled(c) = FlattenSeq(seqs)
  BY DEF CsvDoubled
<1>4. \A i \in 1..n : /\ c[i] = Quote => seqs[i] = <<Quote, Quote>>
                      /\ c[i] # Quote => seqs[i] = <<c[i]>>
  OBVIOUS
<1> HIDE DEF seqs
<1>5. PICK g : Flattens(g, seqs, C)
  BY <1>2, FlattenLoop
<1> DEFINE flat == FlattenSeq(seqs)
           S == {k \in 0..n : CsvAfter(line, p + Len(g[k])) = part(k)}
<1>6. g[0] = <<>> /\ g[n] = flat
  BY <1>0, <1>2, <1>5 DEF Flattens
<1>7. /\ flat \in Seq(C)
      /\ \A i \in 1..n :
           /\ Len(g[i - 1]) \in Nat /\ Len(g[i]) = Len(g[i - 1]) + Len(seqs[i])
           /\ Follows(flat, Len(g[i - 1]), seqs[i])
  BY <1>2, <1>5, FlattenAt
<1>8. Follows(line, p, flat)
  BY <1>3
<1> HIDE DEF flat
<1>9. 0 \in S
  <2>1. p + Len(g[0]) = p /\ 0 \in 0..n
    BY <1>0, <1>6
  <2> HIDE DEF part
  <2> QED BY <1>1, <2>1
<1>10. ASSUME NEW k \in 1..n, k - 1 \in S PROVE k \in S
  <2> DEFINE q == p + Len(g[k - 1])
             before == SubSeq(c, 1, k - 1)
             r == seqs[k]
  <2>1. q \in Nat /\ p + Len(g[k]) = q + Len(r) /\ r \in Seq(C) /\ k \in 0..n
    <3>1. Len(g[k - 1]) \in Nat /\ Len(g[k]) = Len(g[k - 1]) + Len(seqs[k])
      BY <1>7
    <3>4. seqs[k] \in Seq(C)
      BY <1>2
    <3>2. Len(seqs[k]) \in Nat
      BY <3>4
    <3>5. k \in 0..n
      BY <1>0
    <3> DEFINE l == Len(g[k - 1])
               m == Len(g[k])
               d == Len(r)
    <3>6. l \in Nat /\ d \in Nat /\ m = l + d
      BY <3>1, <3>2
    <3>7. q \in Nat /\ p + Len(g[k]) = q + Len(r)
      <4>1. q = p + l
        OBVIOUS
      <4> HIDE DEF l, m, d, q
      <4>2. q \in Nat /\ p + m = q + d
        BY <3>6, <4>1
      <4> QED BY <4>2 DEF m, d
    <3> QED BY <3>4, <3>5, <3>7
  <2>2. CsvAfter(line, q) = Within(cells, before)
    BY <1>10
  <2>3. part(k) = Within(cells, Append(before, c[k]))
    <3>1. SubSeq(c, 1, k) = Append(before, c[k])
      BY Beginnings
    <3> QED BY <3>1
  <2>4. Follows(line, q, r)
    <3>1. Len(g[k - 1]) \in Nat /\ Follows(flat, Len(g[k - 1]), r)
      BY <1>7
    <3> HIDE DEF r
    <3> QED BY <1>7, <1>8, <2>1, <3>1, FollowsThrough
  <2>5. CsvAfter(line, q + Len(r)) = Within(cells, Append(before, c[k]))
    <3> DEFINE i == q + 1
    <3>1. i - 1 = q /\ i \in Nat
      BY <2>1
    <3> HIDE DEF before
    <3>2. CASE c[k] = Quote
      <4>1. r = <<Quote, Quote>>
        BY <1>4, <3>2
      <4> HIDE DEF r, q
      <4>2. Len(r) = 2 /\ r[1] = Quote /\ r[2] = Quote
        BY <4>1
      <4>3. line[q + 1] = Quote /\ line[q + 2] = Quote /\ q + 2 <= Len(line)
        BY <2>4, <4>2 DEF Follows
      <4>4. i \in 1..Len(line) /\ i < Len(line) /\ i + 1 = q + 2 /\ line[i] = Quote
        BY <2>1, <4>3
      <4> HIDE DEF i
      <4>5. CsvAfter(line, i + 1) = Within(cells, Append(before, Quote))
        BY <2>2, <3>1, <4>3, <4>4, CharacterWithin
      <4> QED BY <3>2, <4>2, <4>4, <4>5
    <3>3. CASE c[k] # Quote
      <4>1. r = <<c[k]>>
        BY <1>4, <3>3
      <4> HIDE DEF r, q
      <4>2. Len(r) = 1 /\ r[1] = c[k]
        BY <4>1
      <4>3. line[i] = c[k] /\ i \in 1..Len(line)
        BY <2>1, <2>4, <4>2 DEF Follows
      <4>4. line[i] # Quote
        BY <3>3, <4>3
      <4>5. CsvAfter(line, i) = Within(cells, Append(before, line[i]))
        <5> HIDE DEF i
        <5> QED BY <2>2, <3>1, <4>3, <4>4, CharacterWithin
      <4> QED BY <4>2, <4>3, <4>5
    <3> QED BY <3>2, <3>3
  <2> HIDE DEF part, q, r
  <2>6. CsvAfter(line, p + Len(g[k])) = part(k)
    BY <2>1, <2>3, <2>5
  <2> QED BY <2>1, <2>6
<1>11. n \in S
  <2>1. 0..n \subseteq S
    <3> HIDE DEF S
    <3> QED BY <1>0, <1>9, <1>10, BoundedInduction
  <2> HIDE DEF S
  <2> QED BY <1>0, <2>1
<1> HIDE DEF part
<1> QED BY <1>1, <1>3, <1>6, <1>11 DEF flat

\* So is every cell, as it is written, if no quote follows.
LEMMA EscapedCell ==
  ASSUME NEW C, Quote \in C, NEW line \in Seq(C), NEW p \in Nat,
         NEW c \in Seq(C), Follows(line, p, CsvEscape(c)),
         p + Len(CsvEscape(c)) < Len(line) => line[p + Len(CsvEscape(c)) + 1] # Quote,
         NEW cells, CsvAfter(line, p) = Outside(cells, <<>>)
  PROVE  CsvAfter(line, p + Len(CsvEscape(c))) = Outside(cells, c)
<1>1. CASE {Comma, Quote, Newline, Return} \cap ToSet(c) = {}
  <2>1. CsvEscape(c) = c
    BY <1>1 DEF CsvEscape
  <2>2. \A i \in 1..Len(c) : c[i] # Comma /\ c[i] # Quote
    <3> SUFFICES ASSUME NEW i \in 1..Len(c) PROVE c[i] # Comma /\ c[i] # Quote
      OBVIOUS
    <3>1. c[i] \in ToSet(c)
      BY DEF ToSet
    <3> QED BY <1>1, <3>1
  <2> QED BY <2>1, <2>2, PlainCell
<1>2. CASE {Comma, Quote, Newline, Return} \cap ToSet(c) # {}
  <2> DEFINE e == CsvEscape(c)
             d == CsvDoubled(c)
             open == <<Quote>>
             front == open \o d
  <2>1. e = front \o open
    BY <1>2 DEF CsvEscape
  <2>2. d \in Seq(C)
    BY DoubledType
  <2> HIDE DEF e, d
  <2>3. open \in Seq(C) /\ Len(open) = 1 /\ open[1] = Quote
    OBVIOUS
  <2> HIDE DEF open
  <2>4. /\ front \in Seq(C) /\ Len(front) = 1 + Len(d) /\ Len(d) \in Nat
        /\ Follows(front, 0, open) /\ Follows(front, 1, d)
    <3>1. front \in Seq(C) /\ Len(front) = Len(open) + Len(d)
      BY <2>2, <2>3, ConcatProperties
    <3>2. Len(d) \in Nat
      BY <2>2
    <3>3. Follows(front, 0, open) /\ Follows(front, Len(open), d)
      BY <2>2, <2>3, FollowsConcat
    <3> HIDE DEF front
    <3> QED BY <2>3, <3>1, <3>2, <3>3
  <2> HIDE DEF front
  <2>5. /\ e \in Seq(C) /\ Len(e) = Len(d) + 2
        /\ Follows(e, 0, front) /\ Follows(e, Len(front), open)
    <3>1. e \in Seq(C) /\ Len(e) = Len(front) + Len(open)
      BY <2>1, <2>3, <2>4, ConcatProperties
    <3>2. Len(e) = Len(d) + 2
      BY <2>3, <2>4, <3>1
    <3> QED BY <2>1, <2>3, <2>4, <3>1, <3>2, FollowsConcat
  <2>6. Follows(line, p, e)
    BY DEF e
  <2>7. Follows(line, p, front)
    <3>1. p + 0 = p /\ 0 \in Nat
      OBVIOUS
    <3>2. Follows(line, p + 0, front)
      BY <2>4, <2>5, <2>6, <3>1, FollowsThrough
    <3> QED BY <3>1, <3>2
  <2>8. Follows(line, p, open)
    <3>1. p + 0 = p /\ 0 \in Nat
      OBVIOUS
    <3>2. Follows(line, p + 0, open)
      BY <2>3, <2>4, <2>7, <3>1, FollowsThrough
    <3> QED BY <3>1, <3>2
  <2>9. Follows(line, p + 1, d)
    BY <2>2, <2>4, <2>7, FollowsThrough
  <2>10. Follows(line, p + Len(front), open)
    <3>1. Len(front) \in Nat
      BY <2>4
    <3> QED BY <2>3, <2>5, <2>6, <3>1, FollowsThrough
  <2> DEFINE i == p + 1
             j == i + Len(d) + 1
  <2>11. /\ i \in 1..Len(line) /\ line[i] = Quote /\ i - 1 = p /\ i \in Nat
    BY <2>3, <2>8 DEF Follows
  <2>12. /\ j \in 1..Len(line) /\ line[j] = Quote /\ j - 1 = i + Len(d)
         /\ p + Len(e) = j /\ j + 1 = p + Len(e) + 1
    <3>1. p + Len(front) + 1 <= Len(line) /\ line[p + Len(front) + 1] = Quote
      BY <2>3, <2>10 DEF Follows
    <3>2. p + Len(front) + 1 = j
      BY <2>4
    <3> QED BY <2>4, <2>5, <3>1, <3>2
  <2>13. j < Len(line) => line[j + 1] # Quote
    <3>1. p + Len(e) < Len(line) => line[p + Len(e) + 1] # Quote
      BY DEF e
    <3> QED BY <2>12, <3>1
  <2>14. Follows(line, i, CsvDoubled(c))
    BY <2>9 DEF d
  <2> HIDE DEF i, j
  <2>15. CsvAfter(line, i - 1) = Outside(cells, <<>>)
    BY <2>11
  <2>16. CsvAfter(line, i) = Within(cells, <<>>)
    BY <2>11, <2>15, QuoteOpens
  <2>17. CsvAfter(line, i + Len(CsvDoubled(c))) = Within(cells, c)
    BY <2>11, <2>14, <2>16, DoubledCell
  <2>18. CsvAfter(line, j - 1) = Within(cells, c)
    BY <2>12, <2>17 DEF d
  <2>19. CsvAfter(line, j) = Outside(cells, c)
    BY <2>12, <2>13, <2>18, CharacterWithin
  <2> QED BY <2>12, <2>19 DEF e
<1> QED BY <1>1, <1>2

\* What is written for a cell is of the same characters.
LEMMA EscapeType ==
  ASSUME NEW C, Quote \in C, NEW c \in Seq(C)
  PROVE  CsvEscape(c) \in Seq(C)
<1> DEFINE d == CsvDoubled(c)
<1>1. d \in Seq(C) /\ <<Quote>> \in Seq(C)
  BY DoubledType
<1> HIDE DEF d
<1>2. (<<Quote>> \o d) \o <<Quote>> \in Seq(C)
  BY <1>1, ConcatProperties
<1> QED BY <1>2 DEF CsvEscape, d

\* A row of one cell or more is read as the cells it was written from, whatever
\* characters are in them.
THEOREM CsvRowRead ==
  ASSUME NEW C, Quote \in C, Comma \in C, NEW cells \in Seq(Seq(C)), cells # <<>>
  PROVE  ParseCsvRecord(CsvRow(cells)) = cells
<1> DEFINE n == Len(cells)
           mark(i) == IF i = 1 THEN <<>> ELSE <<Comma>>
           pieces == [i \in 1..n |-> mark(i) \o CsvEscape(cells[i])]
           row == FlattenSeq(pieces)
<1>1. n \in Nat \ {0} /\ \A i \in 1..n : cells[i] \in Seq(C) /\ mark(i) \in Seq(C)
  OBVIOUS
<1>2. CsvRow(cells) = row
  BY DEF CsvRow
<1>3. /\ pieces \in Seq(Seq(C)) /\ Len(pieces) = n
      /\ \A i \in 1..n : pieces[i] = mark(i) \o CsvEscape(cells[i])
  <2>1. ASSUME NEW i \in 1..n PROVE mark(i) \o CsvEscape(cells[i]) \in Seq(C)
    <3>1. mark(i) \in Seq(C) /\ CsvEscape(cells[i]) \in Seq(C)
      BY <1>1, EscapeType
    <3> HIDE DEF mark
    <3> QED BY <3>1, ConcatProperties
  <2>2. n \in Nat
    BY <1>1
  <2> HIDE DEF n, mark
  <2> QED BY <2>1, <2>2
<1> HIDE DEF pieces
<1>4. PICK g : Flattens(g, pieces, C)
  BY <1>3, FlattenLoop
<1>5. g[0] = <<>> /\ g[n] = row
  BY <1>3, <1>4 DEF Flattens
<1>6. /\ row \in Seq(C)
      /\ \A i \in 1..n :
           /\ Len(g[i - 1]) \in Nat /\ Len(g[i]) = Len(g[i - 1]) + Len(pieces[i])
           /\ Follows(row, Len(g[i - 1]), pieces[i])
  BY <1>3, <1>4, FlattenAt
<1> HIDE DEF row
<1> DEFINE before(i) == SubSeq(cells, 1, i - 1)
           S == {i \in 0..n : i # 0 => CsvAfter(row, Len(g[i])) = Outside(before(i), cells[i])}
<1>7. 0 \in S
  BY <1>1
<1>8. ASSUME NEW i \in 1..n, i - 1 \in S PROVE i \in S
  <2> DEFINE p == Len(g[i - 1])
             c == cells[i]
             e == CsvEscape(c)
             q == p + Len(mark(i))
  <2>1. p \in Nat /\ Len(g[i]) = p + Len(pieces[i]) /\ Follows(row, p, pieces[i])
    BY <1>6
  <2>2. /\ mark(i) \in Seq(C) /\ c \in Seq(C) /\ e \in Seq(C)
        /\ pieces[i] = mark(i) \o e /\ pieces[i] \in Seq(C)
    <3>1. c \in Seq(C) /\ e \in Seq(C)
      BY <1>1, EscapeType
    <3>2. pieces[i] \in Seq(C)
      BY <1>3
    <3> QED BY <1>1, <1>3, <3>1, <3>2
  <2> HIDE DEF p
  <2>3. /\ Len(pieces[i]) = Len(mark(i)) + Len(e) /\ Len(mark(i)) \in Nat /\ Len(e) \in Nat
        /\ Follows(pieces[i], 0, mark(i)) /\ Follows(pieces[i], Len(mark(i)), e)
    <3> HIDE DEF mark, e
    <3> QED BY <2>2, FollowsConcat, ConcatProperties
  <2>4. /\ q \in Nat /\ Len(g[i]) = q + Len(e)
        /\ Follows(row, p, mark(i)) /\ Follows(row, q, e)
    <3> HIDE DEF mark, e
    <3>1. p + 0 = p /\ 0 \in Nat
      BY <2>1
    <3>2. Follows(row, p + 0, mark(i))
      BY <1>6, <2>1, <2>2, <2>3, <3>1, FollowsThrough
    <3>3. Follows(row, q, e)
      BY <1>6, <2>1, <2>2, <2>3, FollowsThrough
    <3>4. q \in Nat /\ Len(g[i]) = q + Len(e)
      BY <2>1, <2>3
    <3> QED BY <3>1, <3>2, <3>3, <3>4
  <2>5. CsvAfter(row, q) = Outside(before(i), <<>>)
    <3>1. CASE i = 1
      <4>1. p = 0
        <5>1. g[i - 1] = <<>>
          BY <1>5, <3>1
        <5> QED BY <5>1 DEF p
      <4>2. q = 0
        BY <3>1, <4>1
      <4>3. before(i) = <<>>
        BY <3>1, Beginnings
      <4>4. CsvAfter(row, 0) = CsvStart
        BY <1>6, CsvLoop
      <4> HIDE DEF before
      <4> QED BY <4>2, <4>3, <4>4 DEF CsvStart, Outside
    <3>2. CASE i # 1
      <4> DEFINE last == cells[i - 1]
      <4>1. mark(i) = <<Comma>>
        BY <3>2
      <4>2. Len(mark(i)) = 1 /\ mark(i)[1] = Comma
        BY <4>1
      <4>3. q = p + 1 /\ q - 1 = p /\ q \in 1..Len(row) /\ row[q] = Comma
        <5>1. p + 1 <= Len(row) /\ row[p + 1] = Comma
          BY <2>4, <4>2 DEF Follows
        <5> QED BY <1>6, <2>1, <4>2, <5>1
      <4>4. CsvAfter(row, p) = Outside(before(i - 1), last)
        <5>1. i - 1 # 0
          BY <3>2
        <5> HIDE DEF before, last
        <5> QED BY <1>8, <5>1 DEF p, last
      <4>5. before(i) = Append(before(i - 1), last)
        <5>1. i - 1 \in 1..Len(cells)
          BY <3>2
        <5> QED BY <5>1, Beginnings
      <4> HIDE DEF before, last, q, mark
      <4>6. CsvAfter(row, q - 1) = Outside(before(i - 1), last)
        BY <4>3, <4>4
      <4>7. CsvAfter(row, q) = Outside(Append(before(i - 1), last), <<>>)
        BY <1>6, <4>3, <4>6, CommaEnds
      <4> QED BY <4>5, <4>7
    <3> QED BY <3>1, <3>2
  <2>6. q + Len(e) < Len(row) => row[q + Len(e) + 1] # Quote
    <3>1. CASE i = n
      <4>1. q + Len(e) = Len(row)
        BY <1>5, <2>4, <3>1
      <4> HIDE DEF q, e
      <4> QED BY <1>6, <4>1
    <3>2. CASE i # n
      <4> DEFINE k == i + 1
      <4>1. k \in 1..n /\ k - 1 = i /\ k # 1
        BY <1>1, <3>2
      <4>2. Len(g[i]) \in Nat /\ Follows(row, Len(g[i]), pieces[k])
        <5>1. Len(g[k - 1]) \in Nat /\ Follows(row, Len(g[k - 1]), pieces[k])
          BY <1>6, <4>1
        <5> QED BY <4>1, <5>1
      <4> HIDE DEF k
      <4>3. mark(k) = <<Comma>> /\ pieces[k] = mark(k) \o CsvEscape(cells[k])
        BY <1>3, <4>1
      <4>4. CsvEscape(cells[k]) \in Seq(C)
        BY <1>1, <4>1, EscapeType
      <4>5. Len(pieces[k]) >= 1 /\ pieces[k][1] = Comma
        <5>1. <<Comma>> \in Seq(C)
          OBVIOUS
        <5>2. Len(<<Comma>>) = 1 /\ <<Comma>>[1] = Comma
          OBVIOUS
        <5>3. pieces[k] = <<Comma>> \o CsvEscape(cells[k])
          BY <4>3
        <5>4. Len(pieces[k]) = 1 + Len(CsvEscape(cells[k])) /\ pieces[k][1] = <<Comma>>[1]
          BY <4>4, <5>1, <5>2, <5>3, ConcatProperties
        <5>5. Len(CsvEscape(cells[k])) \in Nat
          BY <4>4
        <5> QED BY <5>2, <5>4, <5>5
      <4>6. row[Len(g[i]) + 1] = Comma
        <5>1. pieces[k] \in Seq(C)
          BY <1>3, <4>1
        <5>2. Len(pieces[k]) \in Nat
          BY <5>1
        <5>3. 1 \in 1..Len(pieces[k])
          BY <4>5, <5>2
        <5> QED BY <4>2, <4>5, <5>3 DEF Follows
      <4>7. Len(g[i]) = q + Len(e)
        BY <2>4
      <4>8. Comma # Quote
        BY DEF Comma, Quote
      <4> HIDE DEF q, e
      <4> QED BY <4>6, <4>7, <4>8
    <3> QED BY <3>1, <3>2
  <2>7. CsvAfter(row, q + Len(e)) = Outside(before(i), c)
    <3>1. Follows(row, q, CsvEscape(c)) /\ q \in Nat /\ c \in Seq(C)
      BY <2>2, <2>4
    <3>2. q + Len(CsvEscape(c)) < Len(row) => row[q + Len(CsvEscape(c)) + 1] # Quote
      BY <2>6
    <3>3. row \in Seq(C)
      BY <1>6
    <3> HIDE DEF q, before, c
    <3>4. CsvAfter(row, q + Len(CsvEscape(c))) = Outside(before(i), c)
      BY <2>5, <3>1, <3>2, <3>3, EscapedCell
    <3> QED BY <3>4
  <2> HIDE DEF q, e, before
  <2>8. i \in 0..n
    BY <1>1
  <2>9. CsvAfter(row, Len(g[i])) = Outside(before(i), cells[i])
    BY <2>4, <2>7
  <2> QED BY <2>8, <2>9
<1>9. n \in S
  <2>1. 0..n \subseteq S
    <3> HIDE DEF S
    <3>1. n \in Nat
      BY <1>1
    <3> QED BY <1>7, <1>8, <3>1, BoundedInduction
  <2>2. n \in 0..n
    BY <1>1
  <2> HIDE DEF S
  <2> QED BY <2>1, <2>2
<1>10. CsvAfter(row, Len(row)) = Outside(before(n), cells[n])
  <2> HIDE DEF before
  <2> QED BY <1>1, <1>5, <1>9
<1>11. Append(before(n), cells[n]) = cells
  <2>1. n \in 1..n
    BY <1>1
  <2> QED BY <2>1, Beginnings
<1> HIDE DEF before, n
<1>12. ParseCsvRecord(row) = Append(before(n), cells[n])
  BY <1>10 DEF ParseCsvRecord, Outside
<1> QED BY <1>2, <1>11, <1>12

-----------------------------------------------------------------------------
(* The parts of a text.                                                    *)

\* The text of cells is of the symbols of its alphabet.
CsvTextType == kind = "csv" => text \in Seq(Alphabet["csv"])

\* That holds throughout.
LEMMA TextIsCsv == Spec => []CsvTextType
<1>1. Init => CsvTextType
  BY DEF Init, CsvTextType
<1>2. CsvTextType /\ [Next]_vars => CsvTextType'
  <2> SUFFICES ASSUME CsvTextType, [Next]_vars, kind' = "csv" PROVE text' \in Seq(Alphabet["csv"])
    BY DEF CsvTextType
  <2>1. CASE Grow
    <3>1. kind = "csv" /\ text \in Seq(Alphabet["csv"])
      BY <2>1 DEF Grow, CsvTextType
    <3>2. PICK symbol \in Alphabet[kind] : text' = Append(text, symbol)
      BY <2>1 DEF Grow
    <3>3. symbol \in Alphabet["csv"]
      BY <3>1, <3>2
    <3> QED BY <3>1, <3>2, <3>3, AppendProperties
  <2>2. CASE NextDay
    BY <2>2 DEF NextDay
  <2>3. CASE UNCHANGED vars
    BY <2>3 DEF vars, CsvTextType
  <2> QED BY <2>1, <2>2, <2>3 DEF Next
<1> QED BY <1>1, <1>2, PTL DEF Spec

\* Parts, one at least.
SomeParts(C) == {ps \in Seq(Seq(C)) : ps # <<>>}

\* The parts, symbol after symbol.
LEMMA PartsLoop ==
  ASSUME NEW C, text \in Seq(C)
  PROVE  /\ PartsTo(0) = <<<<>>>>
         /\ \A i \in 1..Len(text) : PartsTo(i) = AddSymbol(PartsTo(i - 1), text[i])
         /\ \A i \in 0..Len(text) : PartsTo(i) \in SomeParts(C)
<1> DEFINE n == Len(text)
           D == 0..n
           V == SomeParts(C)
           first == <<<<>>>>
           turn(v, i) == IF i = 0 THEN first ELSE AddSymbol(v, text[i])
           step == [p \in V \X D |-> turn(p[1], p[2])]
           turns(f) == [i \in 0..n |-> IF i = 0 THEN first ELSE AddSymbol(f[i - 1], text[i])]
           f == CHOOSE h : h = turns(h)
<1>1. n \in Nat /\ 0 \in D /\ \A i \in 1..n : i - 1 \in D /\ i \in D \ {0} /\ text[i] \in C
  OBVIOUS
<1>2. first \in V
  BY DEF SomeParts
<1>3. \A v \in V : \A i \in 1..n : AddSymbol(v, text[i]) \in V
  <2> SUFFICES ASSUME NEW v \in V, NEW i \in 1..n PROVE AddSymbol(v, text[i]) \in V
    OBVIOUS
  <2> DEFINE x == text[i]
  <2>1. x \in C /\ v \in Seq(Seq(C)) /\ v # <<>>
    BY DEF SomeParts
  <2>2. Append(v, <<>>) \in Seq(Seq(C)) /\ Append(v, <<>>) # <<>>
    BY <2>1, AppendProperties
  <2>3. [v EXCEPT ![Len(v)] = Append(@, x)] \in SomeParts(C)
    <3> DEFINE m == Len(v)
               w == [v EXCEPT ![m] = Append(@, x)]
    <3>1. m \in Nat \ {0} /\ v \in [1..m -> Seq(C)]
      BY <2>1
    <3>2. Append(v[m], x) \in Seq(C)
      BY <2>1, <3>1, AppendProperties
    <3> HIDE DEF m
    <3>3. w \in [1..m -> Seq(C)]
      BY <3>1, <3>2
    <3>4. w \in Seq(Seq(C)) /\ Len(w) = m
      BY <3>1, <3>3
    <3> QED BY <3>1, <3>4 DEF SomeParts, m
  <2> QED BY <2>2, <2>3 DEF AddSymbol, SomeParts
<1>4. step \in [V \X D -> V]
  <2>1. ASSUME NEW v \in V, NEW i \in D PROVE turn(v, i) \in V
    <3>1. i # 0 => i \in 1..n
      BY <1>1
    <3> HIDE DEF V, first
    <3> QED BY <1>2, <1>3, <3>1
  <2> HIDE DEF turn, V, D
  <2> QED BY <2>1
<1>5. PICK g \in [D -> V] : Loop(g, D, first, step)
  <2>1. D \in Counts
    BY <1>1, CountsAre
  <2> HIDE DEF step, D, V, first
  <2> QED BY <1>2, <1>4, <2>1, LoopExists
<1>6. ASSUME NEW i \in D \ {0} PROVE g[i] = AddSymbol(g[i - 1], text[i])
  <2>1. i - 1 \in D
    BY <1>1
  <2>2. step[<<g[i - 1], i>>] = turn(g[i - 1], i)
    <3> HIDE DEF turn, V
    <3> QED BY <2>1
  <2>3. turn(g[i - 1], i) = AddSymbol(g[i - 1], text[i])
    OBVIOUS
  <2> HIDE DEF step, V, D, turn, first
  <2> QED BY <1>5, <2>2, <2>3 DEF Loop
<1>7. g = turns(g)
  <2>1. g[0] = first
    BY <1>5 DEF Loop
  <2> HIDE DEF first, V
  <2> QED BY <1>6, <2>1
<1>8. f = turns(f)
  <2> HIDE DEF turns
  <2> QED BY <1>7
<1>9. \A k \in D : PartsTo(k) = f[k]
  BY DEF PartsTo
<1> HIDE DEF f
<1>10. f[0] = first /\ \A i \in 1..n : f[i] = AddSymbol(f[i - 1], text[i])
  <2> HIDE DEF first, V
  <2>1. \A i \in 1..n : i \in 0..n /\ i # 0
    BY <1>1
  <2> QED BY <1>1, <1>8, <2>1
<1> DEFINE S == {i \in D : f[i] \in V}
<1>11. 0 \in S
  <2> HIDE DEF first, V
  <2> QED BY <1>1, <1>2, <1>10
<1>12. \A i \in 1..n : i - 1 \in S => i \in S
  <2> HIDE DEF first, V
  <2> QED BY <1>1, <1>3, <1>10
<1>13. 0..n \subseteq S
  <2> HIDE DEF S
  <2> QED BY <1>1, <1>11, <1>12, BoundedInduction
<1>14. \A k \in 0..n : f[k] \in V
  BY <1>13
<1>15. \A i \in 1..n : i - 1 \in 0..n /\ i \in 0..n
  BY <1>1
<1> HIDE DEF V, first, n
<1> QED BY <1>1, <1>9, <1>10, <1>14, <1>15 DEF V, first, n

\* A row of cells is read back as it was written.
THEOREM CsvRowReadBackHolds == Spec => []CsvRowReadBack
<1>1. CsvTextType => CsvRowReadBack
  <2> SUFFICES ASSUME text \in Seq(Alphabet["csv"]) PROVE ParseCsvRecord(CsvRow(Parts)) = Parts
    BY DEF CsvTextType, CsvRowReadBack
  <2> DEFINE C == Alphabet["csv"]
  <2>1. Quote \in C /\ Comma \in C
    BY DEF Alphabet
  <2> HIDE DEF C
  <2>2. Len(text) \in 0..Len(text) /\ text \in Seq(C)
    BY DEF C
  <2>3. Parts \in SomeParts(C)
    BY <2>2, PartsLoop DEF Parts
  <2> QED BY <2>1, <2>3, CsvRowRead DEF SomeParts
<1> QED BY <1>1, TextIsCsv, PTL

-----------------------------------------------------------------------------
(* Tables of CSV.                                                          *)

\* Where a text has a character that is no blank, trimming leaves something.
LEMMA TrimmedSome ==
  ASSUME NEW C, NEW s \in Seq(C), NEW k \in 1..Len(s), s[k] \notin Blanks
  PROVE  Trimmed(s) # <<>>
<1> DEFINE n == Len(s)
           S == {i \in 1..n : s[i] \notin Blanks}
<1>1. n \in Nat /\ S \subseteq 0..n /\ S \subseteq Nat /\ k \in S
  OBVIOUS
<1>2. Trimmed(s) = SubSeq(s, Min(S), Max(S))
  BY <1>1 DEF Trimmed
<1>3. S \subseteq 1..n
  OBVIOUS
<1> HIDE DEF S
<1>4. Min(S) \in S /\ Min(S) <= k
  BY <1>1, LeastIs
<1>5. Max(S) \in S /\ k <= Max(S)
  BY <1>1, GreatestIs
<1> DEFINE x == Min(S)
           y == Max(S)
<1>6. x \in 1..n /\ y \in 1..n /\ x <= y
  <2>1. x \in 1..n /\ y \in 1..n
    BY <1>3, <1>4, <1>5
  <2>2. x <= k /\ k <= y
    BY <1>4, <1>5
  <2> HIDE DEF x, y
  <2> QED BY <2>1, <2>2
<1> HIDE DEF x, y
<1>7. Len(SubSeq(s, x, y)) = y - x + 1
  BY <1>6
<1>8. SubSeq(s, x, y) # <<>>
  BY <1>6, <1>7
<1> QED BY <1>2, <1>8 DEF x, y

\* The lines, character after character.
LEMMA LinesLoop ==
  ASSUME NEW C, NEW s \in Seq(C)
  PROVE  /\ LinesTo(s, 0) = <<<<>>>>
         /\ \A i \in 1..Len(s) : LinesTo(s, i) = AddCharacter(LinesTo(s, i - 1), s[i])
         /\ \A i \in 0..Len(s) : LinesTo(s, i) \in SomeParts(C)
<1> DEFINE n == Len(s)
           D == 0..n
           V == SomeParts(C)
           first == <<<<>>>>
           turn(v, i) == IF i = 0 THEN first ELSE AddCharacter(v, s[i])
           step == [p \in V \X D |-> turn(p[1], p[2])]
           turns(f) == [i \in 0..n |-> IF i = 0 THEN first ELSE AddCharacter(f[i - 1], s[i])]
           f == CHOOSE h : h = turns(h)
<1>1. n \in Nat /\ 0 \in D /\ \A i \in 1..n : i - 1 \in D /\ i \in D \ {0} /\ s[i] \in C
  OBVIOUS
<1>2. first \in V
  BY DEF SomeParts
<1>3. \A v \in V : \A i \in 1..n : AddCharacter(v, s[i]) \in V
  <2> SUFFICES ASSUME NEW v \in V, NEW i \in 1..n PROVE AddCharacter(v, s[i]) \in V
    OBVIOUS
  <2> DEFINE x == s[i]
  <2>1. x \in C /\ v \in Seq(Seq(C)) /\ v # <<>>
    BY DEF SomeParts
  <2>2. Append(v, <<>>) \in Seq(Seq(C)) /\ Append(v, <<>>) # <<>>
    BY <2>1, AppendProperties
  <2>3. [v EXCEPT ![Len(v)] = Append(@, x)] \in SomeParts(C)
    <3> DEFINE m == Len(v)
               w == [v EXCEPT ![m] = Append(@, x)]
    <3>1. m \in Nat \ {0} /\ v \in [1..m -> Seq(C)]
      BY <2>1
    <3>2. Append(v[m], x) \in Seq(C)
      BY <2>1, <3>1, AppendProperties
    <3> HIDE DEF m
    <3>3. w \in [1..m -> Seq(C)]
      BY <3>1, <3>2
    <3>4. w \in Seq(Seq(C)) /\ Len(w) = m
      BY <3>1, <3>3
    <3> QED BY <3>1, <3>4 DEF SomeParts, m
  <2> QED BY <2>2, <2>3 DEF AddCharacter, SomeParts
<1>4. step \in [V \X D -> V]
  <2>1. ASSUME NEW v \in V, NEW i \in D PROVE turn(v, i) \in V
    <3>1. i # 0 => i \in 1..n
      BY <1>1
    <3> HIDE DEF V, first
    <3> QED BY <1>2, <1>3, <3>1
  <2> HIDE DEF turn, V, D
  <2> QED BY <2>1
<1>5. PICK g \in [D -> V] : Loop(g, D, first, step)
  <2>1. D \in Counts
    BY <1>1, CountsAre
  <2> HIDE DEF step, D, V, first
  <2> QED BY <1>2, <1>4, <2>1, LoopExists
<1>6. ASSUME NEW i \in D \ {0} PROVE g[i] = AddCharacter(g[i - 1], s[i])
  <2>1. i - 1 \in D
    BY <1>1
  <2>2. step[<<g[i - 1], i>>] = turn(g[i - 1], i)
    <3> HIDE DEF turn, V
    <3> QED BY <2>1
  <2>3. turn(g[i - 1], i) = AddCharacter(g[i - 1], s[i])
    OBVIOUS
  <2> HIDE DEF step, V, D, turn, first
  <2> QED BY <1>5, <2>2, <2>3 DEF Loop
<1>7. g = turns(g)
  <2>1. g[0] = first
    BY <1>5 DEF Loop
  <2> HIDE DEF first, V
  <2> QED BY <1>6, <2>1
<1>8. f = turns(f)
  <2> HIDE DEF turns
  <2> QED BY <1>7
<1>9. \A k \in D : LinesTo(s, k) = f[k]
  BY DEF LinesTo
<1> HIDE DEF f
<1>10. f[0] = first /\ \A i \in 1..n : f[i] = AddCharacter(f[i - 1], s[i])
  <2> HIDE DEF first, V
  <2>1. \A i \in 1..n : i \in 0..n /\ i # 0
    BY <1>1
  <2> QED BY <1>1, <1>8, <2>1
<1> DEFINE S == {i \in D : f[i] \in V}
<1>11. 0 \in S
  <2> HIDE DEF first, V
  <2> QED BY <1>1, <1>2, <1>10
<1>12. \A i \in 1..n : i - 1 \in S => i \in S
  <2> HIDE DEF first, V
  <2> QED BY <1>1, <1>3, <1>10
<1>13. 0..n \subseteq S
  <2> HIDE DEF S
  <2> QED BY <1>1, <1>11, <1>12, BoundedInduction
<1>14. \A k \in 0..n : f[k] \in V
  BY <1>13
<1>15. \A i \in 1..n : i - 1 \in 0..n /\ i \in 0..n
  BY <1>1
<1> HIDE DEF V, first, n
<1> QED BY <1>1, <1>9, <1>10, <1>14, <1>15 DEF V, first, n

\* A character that is no newline is another one of the line that is read,
LEMMA CharacterInLine ==
  ASSUME NEW C, NEW s \in Seq(C), NEW i \in 1..Len(s), s[i] # Newline,
         NEW done \in Seq(Seq(C)), NEW l \in Seq(C), LinesTo(s, i - 1) = Append(done, l)
  PROVE  LinesTo(s, i) = Append(done, Append(l, s[i]))
<1> DEFINE c == s[i]
           W == Seq(C)
           old == Append(done, l)
           n == Len(done)
           more == Append(l, c)
           new == [old EXCEPT ![Len(old)] = Append(@, c)]
<1>1. LinesTo(s, i) = AddCharacter(old, c)
  BY LinesLoop
<1>2. AddCharacter(old, c) = new
  BY DEF AddCharacter
<1>3. c \in C /\ more \in W
  BY AppendProperties
<1>4. done \in Seq(W) /\ l \in W
  OBVIOUS
<1> HIDE DEF W, c, more
<1>5. /\ old \in Seq(W) /\ Len(old) = n + 1 /\ n \in Nat /\ old[n + 1] = l
      /\ \A k \in 1..n : old[k] = done[k]
  BY <1>4, AppendProperties
<1>6. /\ Append(done, more) \in Seq(W) /\ Len(Append(done, more)) = n + 1
      /\ Append(done, more)[n + 1] = more /\ \A k \in 1..n : Append(done, more)[k] = done[k]
  BY <1>3, <1>4, AppendProperties
<1> HIDE DEF old, n
<1>7. old \in [1..(n + 1) -> W]
  BY <1>5
<1>8. new = [old EXCEPT ![n + 1] = more]
  BY <1>5 DEF more
<1>9. new \in [1..(n + 1) -> W] /\ new[n + 1] = more /\ \A k \in 1..n : new[k] = old[k]
  <2> HIDE DEF new
  <2> QED BY <1>3, <1>5, <1>7, <1>8
<1> HIDE DEF new
<1>10. new \in Seq(W) /\ Len(new) = n + 1
  BY <1>5, <1>9
<1>11. new = Append(done, more)
  <2> DEFINE longer == Append(done, more)
  <2>1. \A k \in 1..(n + 1) : k = n + 1 \/ k \in 1..n
    BY <1>5
  <2>2. longer \in Seq(W) /\ Len(longer) = Len(new) /\ Len(new) = n + 1
    BY <1>6, <1>10
  <2>3. \A k \in 1..Len(new) : new[k] = longer[k]
    BY <1>5, <1>6, <1>9, <2>1, <2>2
  <2> HIDE DEF longer
  <2>4. new = longer
    BY <1>10, <2>2, <2>3, SeqEqual
  <2> QED BY <2>4 DEF longer
<1> QED BY <1>1, <1>2, <1>11 DEF more, c

\* Behind a newline another line begins.
Fresh(done) == Append(done, <<>>)

\* and a line without newlines is read as it is.
LEMMA PlainLine ==
  ASSUME NEW C, NEW s \in Seq(C), NEW p \in Nat,
         NEW l \in Seq(C), \A i \in 1..Len(l) : l[i] # Newline, Follows(s, p, l),
         NEW done \in Seq(Seq(C)), LinesTo(s, p) = Fresh(done)
  PROVE  LinesTo(s, p + Len(l)) = Append(done, l)
<1> DEFINE n == Len(l)
           part(k) == Append(done, SubSeq(l, 1, k))
           S == {k \in 0..n : LinesTo(s, p + k) = part(k)}
<1>0. n \in Nat
  OBVIOUS
<1>1. part(0) = Append(done, <<>>) /\ part(n) = Append(done, l)
  <2>1. SubSeq(l, 1, 0) = <<>> /\ SubSeq(l, 1, n) = l
    BY Beginnings
  <2> QED BY <2>1, Zenon
<1>2. 0 \in S
  <2>1. p + 0 = p /\ 0 \in 0..n
    BY <1>0
  <2> HIDE DEF part
  <2> QED BY <1>1, <2>1 DEF Fresh
<1>3. ASSUME NEW k \in 1..n, k - 1 \in S PROVE k \in S
  <2> DEFINE i == p + k
             before == SubSeq(l, 1, k - 1)
  <2>1. i \in 1..Len(s) /\ i - 1 = p + (k - 1) /\ s[i] = l[k] /\ k \in 0..n
    BY <1>0 DEF Follows
  <2>2. LinesTo(s, i - 1) = Append(done, before)
    BY <1>3, <2>1
  <2>3. SubSeq(l, 1, k) = Append(before, l[k])
    BY Beginnings
  <2>4. s[i] # Newline
    BY <2>1
  <2>5. before \in Seq(C)
    <3>1. k - 1 \in 0..n /\ \A j \in 1..(k - 1) : l[j] \in C
      BY <1>0
    <3> QED BY <3>1, SubSeqProperties
  <2>6. LinesTo(s, i) = Append(done, Append(before, s[i]))
    <3> HIDE DEF i, before
    <3> QED BY <2>1, <2>2, <2>4, <2>5, CharacterInLine
  <2>7. LinesTo(s, p + k) = part(k)
    <3> HIDE DEF before
    <3> QED BY <2>1, <2>3, <2>6
  <2> HIDE DEF part
  <2> QED BY <2>1, <2>7
<1>4. 0..n \subseteq S
  <2> HIDE DEF S
  <2> QED BY <1>0, <1>2, <1>3, BoundedInduction
<1>5. n \in S
  <2>1. n \in 0..n
    BY <1>0
  <2> HIDE DEF S
  <2> QED BY <1>4, <2>1
<1> HIDE DEF part
<1> QED BY <1>1, <1>5

\* Lines without newlines are read as they were written.
LEMMA LinesRead ==
  ASSUME NEW C, NEW lines \in Seq(Seq(C)), Newline \notin C
  PROVE  TextLines(TextOf(lines)) = lines
<1> DEFINE n == Len(lines)
           D == C \cup {Newline}
           end == <<Newline>>
           pieces == [i \in 1..n |-> lines[i] \o end]
           all == FlattenSeq(pieces)
<1>1. n \in Nat /\ \A i \in 1..n : lines[i] \in Seq(C) /\ lines[i] \in Seq(D)
  <2>1. \A i \in 1..n : lines[i] \in Seq(C)
    OBVIOUS
  <2>2. ASSUME NEW l \in Seq(C) PROVE l \in Seq(D)
    OBVIOUS
  <2> QED BY <2>1, <2>2
<1>2. end \in Seq(D) /\ Len(end) = 1 /\ end[1] = Newline
  OBVIOUS
<1> HIDE DEF end
<1>3. /\ pieces \in Seq(Seq(D)) /\ Len(pieces) = n
      /\ \A i \in 1..n : pieces[i] = lines[i] \o end
  <2>1. ASSUME NEW i \in 1..n PROVE lines[i] \o end \in Seq(D)
    <3> HIDE DEF n, D
    <3> QED BY <1>1, <1>2, ConcatProperties
  <2> HIDE DEF n, D
  <2> QED BY <1>1, <2>1
<1>4. TextOf(lines) = all
  BY DEF TextOf, end
<1> HIDE DEF pieces
<1>5. PICK g : Flattens(g, pieces, D)
  BY <1>3, FlattenLoop
<1>6. g[0] = <<>> /\ g[n] = all
  BY <1>3, <1>5 DEF Flattens
<1>7. /\ all \in Seq(D)
      /\ \A i \in 1..n :
           /\ Len(g[i - 1]) \in Nat /\ Len(g[i]) = Len(g[i - 1]) + Len(pieces[i])
           /\ Follows(all, Len(g[i - 1]), pieces[i])
  BY <1>3, <1>5, FlattenAt
<1> HIDE DEF all
<1> DEFINE before(i) == SubSeq(lines, 1, i)
           S == {i \in 0..n : LinesTo(all, Len(g[i])) = Append(before(i), <<>>)}
<1>8. /\ lines \in Seq(Seq(D)) /\ before(0) = <<>> /\ before(n) = lines
      /\ \A i \in 0..n : before(i) \in Seq(Seq(D))
      /\ \A i \in 1..n : before(i) = Append(before(i - 1), lines[i])
  <2>1. lines \in Seq(Seq(D))
    <3> DEFINE W == Seq(D)
    <3>1. lines \in [1..n -> W]
      <4>1. \A i \in 1..n : lines[i] \in W
        BY <1>1
      <4>2. lines = [i \in 1..n |-> lines[i]]
        OBVIOUS
      <4> HIDE DEF W, n
      <4> QED BY <4>1, <4>2
    <3> HIDE DEF W, n
    <3>2. lines \in Seq(W)
      BY <1>1, <3>1
    <3> QED BY <3>2 DEF W
  <2> DEFINE W == Seq(D)
  <2>2. lines \in Seq(W)
    BY <2>1
  <2> HIDE DEF W
  <2>3. /\ before(0) = <<>> /\ before(n) = lines
        /\ \A i \in 0..n : before(i) \in Seq(W)
        /\ \A i \in 1..n : before(i) = Append(before(i - 1), lines[i])
    BY <2>2, Beginnings
  <2> HIDE DEF before
  <2> QED BY <2>1, <2>3 DEF W
<1> HIDE DEF before, n, D
<1>9. 0 \in S
  <2>1. LinesTo(all, 0) = <<<<>>>>
    BY <1>7, LinesLoop
  <2>2. Len(g[0]) = 0 /\ 0 \in 0..n /\ Append(<<>>, <<>>) = <<<<>>>>
    BY <1>1, <1>6
  <2>3. Append(before(0), <<>>) = <<<<>>>>
    BY <1>8, <2>2
  <2> QED BY <2>1, <2>2, <2>3
<1>10. ASSUME NEW i \in 1..n, i - 1 \in S PROVE i \in S
  <2> DEFINE p == Len(g[i - 1])
             l == lines[i]
             q == p + Len(l)
             old == before(i - 1)
  <2>1. /\ p \in Nat /\ Len(g[i]) = p + Len(pieces[i]) /\ Follows(all, p, pieces[i])
        /\ i \in 0..n /\ i - 1 \in 0..n
    <3>1. /\ p \in Nat /\ Len(g[i]) = p + Len(pieces[i]) /\ Follows(all, p, pieces[i])
      BY <1>7
    <3>2. i \in 0..n /\ i - 1 \in 0..n
      BY <1>1
    <3> QED BY <3>1, <3>2
  <2>2. /\ l \in Seq(D) /\ pieces[i] = l \o end /\ pieces[i] \in Seq(D) /\ old \in Seq(Seq(D))
        /\ before(i) = Append(old, l)
    <3>1. i \in 0..n /\ i - 1 \in 0..n
      BY <2>1
    <3>2. l \in Seq(D)
      BY <1>1
    <3>3. pieces[i] = l \o end /\ pieces[i] \in Seq(D)
      BY <1>3
    <3>4. old \in Seq(Seq(D)) /\ before(i) = Append(old, l)
      BY <1>8, <3>1
    <3> QED BY <3>2, <3>3, <3>4
  <2>3. \A k \in 1..Len(l) : l[k] # Newline
    <3>1. l \in Seq(C)
      BY <1>1
    <3> HIDE DEF l
    <3>2. \A k \in 1..Len(l) : l[k] \in C
      BY <3>1
    <3> QED BY <3>2
  <2>4. LinesTo(all, p) = Fresh(old)
    BY <1>10 DEF Fresh
  <2> HIDE DEF p, l, old
  <2>5. /\ Len(pieces[i]) = Len(l) + Len(end) /\ Len(l) \in Nat
        /\ Follows(pieces[i], 0, l) /\ Follows(pieces[i], Len(l), end)
    <3> DEFINE both == l \o end
    <3>1. l \in Seq(D) /\ end \in Seq(D)
      BY <1>2, <2>2
    <3>2. Len(both) = Len(l) + Len(end) /\ Len(l) \in Nat
      BY <3>1, ConcatProperties
    <3>3. Follows(both, 0, l) /\ Follows(both, Len(l), end)
      BY <3>1, FollowsConcat
    <3>4. pieces[i] = both
      BY <2>2
    <3> HIDE DEF both
    <3> QED BY <3>2, <3>3, <3>4
  <2>6. Follows(all, p, l) /\ Follows(all, q, end)
    <3>1. p + 0 = p /\ 0 \in Nat
      BY <2>1
    <3>2. Follows(all, p + 0, l)
      BY <1>7, <2>1, <2>2, <2>5, <3>1, FollowsThrough
    <3>3. Follows(all, q, end)
      BY <1>2, <1>7, <2>1, <2>2, <2>5, FollowsThrough
    <3> QED BY <3>1, <3>2, <3>3
  <2>7. q \in Nat /\ Len(g[i]) = q + 1
    BY <1>2, <2>1, <2>5
  <2>8. LinesTo(all, q) = Append(old, l)
    <3>1. all \in Seq(D) /\ p \in Nat /\ l \in Seq(D) /\ old \in Seq(Seq(D))
      BY <1>7, <2>1, <2>2
    <3>2. Follows(all, p, l)
      BY <2>6
    <3>3. LinesTo(all, p + Len(l)) = Append(old, l)
      BY <2>3, <2>4, <3>1, <3>2, PlainLine
    <3> QED BY <3>3
  <2> HIDE DEF q
  <2>9. q + 1 \in 1..Len(all) /\ (q + 1) - 1 = q /\ all[q + 1] = Newline
    <3>1. q + 1 <= Len(all) /\ all[q + 1] = Newline
      BY <1>2, <2>6 DEF Follows
    <3>2. Len(all) \in Nat
      BY <1>7
    <3> QED BY <2>7, <3>1, <3>2
  <2>10. LinesTo(all, q + 1) = Append(Append(old, l), <<>>)
    <3>1. LinesTo(all, q + 1) = AddCharacter(LinesTo(all, (q + 1) - 1), all[q + 1])
      <4> HIDE DEF D
      <4> QED BY <1>7, <2>9, LinesLoop
    <3>2. LinesTo(all, q + 1) = AddCharacter(Append(old, l), Newline)
      BY <2>8, <2>9, <3>1
    <3> QED BY <3>2 DEF AddCharacter
  <2>11. LinesTo(all, Len(g[i])) = Append(before(i), <<>>)
    BY <2>2, <2>7, <2>10, Zenon
  <2> QED BY <2>1, <2>11
<1>11. n \in S
  <2>1. 0..n \subseteq S
    <3> HIDE DEF S
    <3> QED BY <1>1, <1>9, <1>10, BoundedInduction
  <2>2. n \in 0..n
    BY <1>1
  <2> HIDE DEF S
  <2> QED BY <2>1, <2>2
<1> DEFINE last == LinesTo(all, Len(all))
<1>12. last = Append(lines, <<>>)
  BY <1>6, <1>8, <1>11
<1>13. TextLines(all) = IF Last(last) = <<>> THEN Front(last) ELSE last
  BY DEF TextLines
<1> HIDE DEF last
<1>14. Last(last) = <<>> /\ Front(last) = lines
  <2> DEFINE W == Seq(D)
  <2>1. lines \in Seq(W) /\ <<>> \in W
    BY <1>8
  <2> HIDE DEF W
  <2> QED BY <1>12, <2>1, FrontLastAppend
<1> QED BY <1>4, <1>13, <1>14, Zenon

\* What is written for a row is of the same characters, commas and quotes, and it has a
\* comma if there are two cells.
LEMMA RowType ==
  ASSUME NEW C, Quote \in C, Comma \in C, NEW cells \in Seq(Seq(C))
  PROVE  /\ CsvRow(cells) \in Seq(C)
         /\ Len(cells) >= 2 => \E k \in 1..Len(CsvRow(cells)) : CsvRow(cells)[k] = Comma
<1> DEFINE n == Len(cells)
           mark(i) == IF i = 1 THEN <<>> ELSE <<Comma>>
           pieces == [i \in 1..n |-> mark(i) \o CsvEscape(cells[i])]
           row == FlattenSeq(pieces)
<1>1. n \in Nat /\ \A i \in 1..n : cells[i] \in Seq(C) /\ mark(i) \in Seq(C)
  OBVIOUS
<1>2. CsvRow(cells) = row
  BY DEF CsvRow
<1>3. /\ pieces \in Seq(Seq(C)) /\ Len(pieces) = n
      /\ \A i \in 1..n : pieces[i] = mark(i) \o CsvEscape(cells[i])
  <2>1. ASSUME NEW i \in 1..n PROVE mark(i) \o CsvEscape(cells[i]) \in Seq(C)
    <3>1. mark(i) \in Seq(C) /\ CsvEscape(cells[i]) \in Seq(C)
      BY <1>1, EscapeType
    <3> HIDE DEF mark
    <3> QED BY <3>1, ConcatProperties
  <2>2. n \in Nat
    BY <1>1
  <2> HIDE DEF n, mark
  <2> QED BY <2>1, <2>2
<1> HIDE DEF pieces
<1>4. PICK g : Flattens(g, pieces, C)
  BY <1>3, FlattenLoop
<1>6. /\ row \in Seq(C)
      /\ \A i \in 1..n :
           /\ Len(g[i - 1]) \in Nat /\ Len(g[i]) = Len(g[i - 1]) + Len(pieces[i])
           /\ Follows(row, Len(g[i - 1]), pieces[i])
  BY <1>3, <1>4, FlattenAt
<1> HIDE DEF row
<1>7. ASSUME n >= 2 PROVE \E k \in 1..Len(row) : row[k] = Comma
  <2> DEFINE p == Len(g[1])
             second == CsvEscape(cells[2])
  <2>1. 2 \in 1..n /\ 2 - 1 = 1
    BY <1>1, <1>7
  <2>2. p \in Nat /\ Follows(row, p, pieces[2])
    <3>1. Len(g[2 - 1]) \in Nat /\ Follows(row, Len(g[2 - 1]), pieces[2])
      BY <1>6, <2>1
    <3> QED BY <2>1, <3>1
  <2>3. pieces[2] = <<Comma>> \o second
    BY <1>3, <2>1
  <2>4. second \in Seq(C) /\ <<Comma>> \in Seq(C)
    BY <1>1, <2>1, EscapeType
  <2> HIDE DEF second, p
  <2>5. Len(<<Comma>>) = 1 /\ <<Comma>>[1] = Comma
    OBVIOUS
  <2>6. Len(pieces[2]) = 1 + Len(second) /\ pieces[2][1] = <<Comma>>[1]
    BY <2>3, <2>4, <2>5, ConcatProperties
  <2>7. Len(second) \in Nat
    BY <2>4
  <2>8. 1 \in 1..Len(pieces[2]) /\ pieces[2][1] = Comma /\ Len(pieces[2]) \in Nat
    BY <2>5, <2>6, <2>7
  <2>9. p + Len(pieces[2]) <= Len(row) /\ row[p + 1] = Comma /\ Len(row) \in Nat
    BY <1>6, <2>2, <2>8 DEF Follows
  <2>10. p + 1 \in 1..Len(row)
    BY <2>2, <2>8, <2>9
  <2> QED BY <2>9, <2>10
<1> QED BY <1>2, <1>6, <1>7, Zenon DEF n

\* What a line makes of the events so far, and the events there may be.
NextEvents(header, lines, es, i) ==
  IF Trimmed(lines[i]) = <<>> THEN es ELSE Append(es, RecordEvent(lines[i], Len(es), header))
SomeEvents(header, lines) ==
  {RecordEvent(lines[i], o, header) : i \in 1..Len(lines), o \in Nat}

\* The events, line after line.
LEMMA EventsLoop ==
  ASSUME NEW C, NEW header, NEW lines \in Seq(C)
  PROVE  /\ EventsTo(header, lines, 0) = <<>>
         /\ \A i \in 1..Len(lines) :
              EventsTo(header, lines, i) = NextEvents(header, lines, EventsTo(header, lines, i - 1), i)
<1> DEFINE n == Len(lines)
           D == 0..n
           V == Seq(SomeEvents(header, lines))
           first == <<>>
           turn(v, i) == IF i = 0 THEN first ELSE NextEvents(header, lines, v, i)
           step == [p \in V \X D |-> turn(p[1], p[2])]
           turns(f) == [i \in 0..n |-> IF i = 0 THEN first ELSE NextEvents(header, lines, f[i - 1], i)]
           f == CHOOSE h : h = turns(h)
<1>1. n \in Nat /\ 0 \in D /\ \A i \in 1..n : i - 1 \in D /\ i \in D \ {0}
  OBVIOUS
<1>2. first \in V
  OBVIOUS
<1>3. \A v \in V : \A i \in 1..n : NextEvents(header, lines, v, i) \in V
  <2> SUFFICES ASSUME NEW v \in V, NEW i \in 1..n PROVE NextEvents(header, lines, v, i) \in V
    OBVIOUS
  <2>1. Len(v) \in Nat
    OBVIOUS
  <2>2. RecordEvent(lines[i], Len(v), header) \in SomeEvents(header, lines)
    BY <2>1 DEF SomeEvents
  <2>3. Append(v, RecordEvent(lines[i], Len(v), header)) \in V
    BY <2>2, AppendProperties
  <2> QED BY <2>3 DEF NextEvents
<1>4. step \in [V \X D -> V]
  <2>1. ASSUME NEW v \in V, NEW i \in D PROVE turn(v, i) \in V
    <3>1. i # 0 => i \in 1..n
      BY <1>1
    <3> HIDE DEF V, first
    <3> QED BY <1>2, <1>3, <3>1
  <2> HIDE DEF turn, V, D
  <2> QED BY <2>1
<1>5. PICK g \in [D -> V] : Loop(g, D, first, step)
  <2>1. D \in Counts
    BY <1>1, CountsAre
  <2> HIDE DEF step, D, V, first
  <2> QED BY <1>2, <1>4, <2>1, LoopExists
<1>6. ASSUME NEW i \in D \ {0} PROVE g[i] = NextEvents(header, lines, g[i - 1], i)
  <2>1. i - 1 \in D
    BY <1>1
  <2>2. step[<<g[i - 1], i>>] = turn(g[i - 1], i)
    <3> HIDE DEF turn, V
    <3> QED BY <2>1
  <2>3. turn(g[i - 1], i) = NextEvents(header, lines, g[i - 1], i)
    OBVIOUS
  <2> HIDE DEF step, V, D, turn, first
  <2> QED BY <1>5, <2>2, <2>3 DEF Loop
<1>7. g = turns(g)
  <2>1. g[0] = first
    BY <1>5 DEF Loop
  <2> HIDE DEF first, V
  <2> QED BY <1>6, <2>1
<1>8. f = turns(f)
  <2> HIDE DEF turns
  <2> QED BY <1>7
<1>9. \A k \in D : EventsTo(header, lines, k) = f[k]
  BY DEF EventsTo, NextEvents
<1> HIDE DEF f
<1>10. f[0] = first /\ \A i \in 1..n : f[i] = NextEvents(header, lines, f[i - 1], i)
  <2> HIDE DEF first, V
  <2>1. \A i \in 1..n : i \in 0..n /\ i # 0
    BY <1>1
  <2> QED BY <1>1, <1>8, <2>1
<1> DEFINE S == {i \in D : f[i] \in V}
<1>11. 0 \in S
  <2> HIDE DEF first, V
  <2> QED BY <1>1, <1>2, <1>10
<1>12. \A i \in 1..n : i - 1 \in S => i \in S
  <2> HIDE DEF first, V
  <2> QED BY <1>1, <1>3, <1>10
<1>13. 0..n \subseteq S
  <2> HIDE DEF S
  <2> QED BY <1>1, <1>11, <1>12, BoundedInduction
<1>14. \A k \in 0..n : f[k] \in V
  BY <1>13
<1>15. \A i \in 1..n : i - 1 \in 0..n /\ i \in 0..n
  BY <1>1
<1> HIDE DEF V, first, n
<1> QED BY <1>1, <1>9, <1>10, <1>14, <1>15 DEF V, first, n

\* The events that the cells of a record can make, and what a cell makes of one.
CellEvents(line, ordinal, names, C) ==
  [id : {<<line, ordinal>>}, kind : {<<"csv">>}, timestamp : {Epoch}, ordinal : {ordinal},
   members : [Members -> Seq(C)], fields : UNION {[some -> Seq(C)] : some \in SUBSET names}]

\* A field that is set leaves an event one of them.
LEMMA SetFieldType ==
  ASSUME NEW C, NEW line, NEW ordinal, NEW names, NEW name \in names, NEW value \in Seq(C),
         NEW e \in CellEvents(line, ordinal, names, C)
  PROVE  SetField(e, name, value) \in CellEvents(line, ordinal, names, C)
<1> DEFINE M == [Members -> Seq(C)]
           F == UNION {[some -> Seq(C)] : some \in SUBSET names}
           new == [k \in (DOMAIN e.fields) \cup {name} |-> IF k = name THEN value ELSE e.fields[k]]
<1>1. e.members \in M /\ e.fields \in F
  BY DEF CellEvents
<1>2. PICK some \in SUBSET names : e.fields \in [some -> Seq(C)]
  BY <1>1
<1>3. new \in [some \cup {name} -> Seq(C)] /\ some \cup {name} \in SUBSET names
  BY <1>2
<1>4. new \in F
  BY <1>3
<1>5. name \in Members => [e.members EXCEPT ![name] = value] \in M
  BY <1>1
<1>6. CASE name = <<>>
  BY <1>6 DEF SetField
<1>7. CASE name # <<>> /\ name \in Members
  <2>1. SetField(e, name, value) = [e EXCEPT !.members = [e.members EXCEPT ![name] = value]]
    BY <1>7 DEF SetField, CellEvents
  <2> QED BY <1>5, <1>7, <2>1 DEF CellEvents
<1>8. CASE name # <<>> /\ name \notin Members
  <2>1. SetField(e, name, value) = [e EXCEPT !.fields = new]
    BY <1>8 DEF SetField
  <2> HIDE DEF new
  <2> QED BY <1>4, <2>1 DEF CellEvents
<1> QED BY <1>6, <1>7, <1>8

\* The names of a header.
ColumnNames(header) == {header[i] : i \in 1..Len(header)}

\* The event of a record, cell after cell.
LEMMA CellsLoop ==
  ASSUME NEW C, NEW line, NEW ordinal, NEW header \in Seq(Seq(C)), NEW cells \in Seq(Seq(C)),
         Len(cells) = Len(header)
  PROVE  /\ WithCells(line, ordinal, header, cells, 0) = NewEvent(<<"csv">>, line, ordinal)
         /\ \A i \in 1..Len(header) :
              WithCells(line, ordinal, header, cells, i) =
                SetField(WithCells(line, ordinal, header, cells, i - 1), header[i], cells[i])
         /\ \A i \in 0..Len(header) :
              WithCells(line, ordinal, header, cells, i) \in CellEvents(line, ordinal, ColumnNames(header), C)
<1> DEFINE n == Len(header)
           names == ColumnNames(header)
           D == 0..n
           V == CellEvents(line, ordinal, names, C)
           first == NewEvent(<<"csv">>, line, ordinal)
           turn(v, i) == IF i = 0 THEN first ELSE SetField(v, header[i], cells[i])
           step == [p \in V \X D |-> turn(p[1], p[2])]
           turns(f) == [i \in 0..n |-> IF i = 0 THEN first ELSE SetField(f[i - 1], header[i], cells[i])]
           f == CHOOSE h : h = turns(h)
<1>1. /\ n \in Nat /\ 0 \in D
      /\ \A i \in 1..n : i - 1 \in D /\ i \in D \ {0} /\ header[i] \in names /\ cells[i] \in Seq(C)
  <2>1. \A i \in 1..n : cells[i] \in Seq(C)
    OBVIOUS
  <2>2. \A i \in 1..n : header[i] \in names
    BY DEF ColumnNames
  <2> QED BY <2>1, <2>2
<1> HIDE DEF names
<1>2. first \in V
  <2>1. [name \in {} |-> <<>>] \in [{} -> Seq(C)] /\ {} \in SUBSET names
    OBVIOUS
  <2>2. [name \in {} |-> <<>>] \in UNION {[some -> Seq(C)] : some \in SUBSET names}
    BY <2>1
  <2>3. [name \in Members |-> <<>>] \in [Members -> Seq(C)]
    OBVIOUS
  <2> QED BY <2>2, <2>3 DEF NewEvent, CellEvents
<1>3. \A v \in V : \A i \in 1..n : SetField(v, header[i], cells[i]) \in V
  <2> SUFFICES ASSUME NEW v \in V, NEW i \in 1..n PROVE SetField(v, header[i], cells[i]) \in V
    OBVIOUS
  <2>1. header[i] \in names /\ cells[i] \in Seq(C)
    BY <1>1
  <2> QED BY <2>1, SetFieldType
<1>0. Min({Len(header), Len(cells)}) = n
  <2>1. {Len(header), Len(cells)} = {n}
    OBVIOUS
  <2>2. {n} \subseteq Nat /\ {n} # {}
    BY <1>1
  <2> HIDE DEF n
  <2>3. Min({n}) = n
    BY <2>2, LeastIs
  <2> QED BY <2>1, <2>3
<1>4. step \in [V \X D -> V]
  <2>1. ASSUME NEW v \in V, NEW i \in D PROVE turn(v, i) \in V
    <3>1. i # 0 => i \in 1..n
      BY <1>1
    <3> HIDE DEF V, first
    <3> QED BY <1>2, <1>3, <3>1
  <2> HIDE DEF turn, V, D
  <2> QED BY <2>1
<1>5. PICK g \in [D -> V] : Loop(g, D, first, step)
  <2>1. D \in Counts
    BY <1>1, CountsAre
  <2> HIDE DEF step, D, V, first
  <2> QED BY <1>2, <1>4, <2>1, LoopExists
<1>6. ASSUME NEW i \in D \ {0} PROVE g[i] = SetField(g[i - 1], header[i], cells[i])
  <2>1. i - 1 \in D
    BY <1>1
  <2>2. step[<<g[i - 1], i>>] = turn(g[i - 1], i)
    <3> HIDE DEF turn, V
    <3> QED BY <2>1
  <2>3. turn(g[i - 1], i) = SetField(g[i - 1], header[i], cells[i])
    OBVIOUS
  <2> HIDE DEF step, V, D, turn, first
  <2> QED BY <1>5, <2>2, <2>3 DEF Loop
<1>7. g = turns(g)
  <2>1. g[0] = first
    BY <1>5 DEF Loop
  <2> HIDE DEF first, V
  <2> QED BY <1>6, <2>1
<1>8. f = turns(f)
  <2> HIDE DEF turns
  <2> QED BY <1>7
<1>9. \A k \in D : WithCells(line, ordinal, header, cells, k) = f[k]
  BY <1>0, Zenon DEF WithCells
<1> HIDE DEF f
<1>10. f[0] = first /\ \A i \in 1..n : f[i] = SetField(f[i - 1], header[i], cells[i])
  <2> HIDE DEF first, V
  <2>1. \A i \in 1..n : i \in 0..n /\ i # 0
    BY <1>1
  <2> QED BY <1>1, <1>8, <2>1
<1> DEFINE S == {i \in D : f[i] \in V}
<1>11. 0 \in S
  <2> HIDE DEF first, V
  <2> QED BY <1>1, <1>2, <1>10
<1>12. \A i \in 1..n : i - 1 \in S => i \in S
  <2> HIDE DEF first, V
  <2> QED BY <1>1, <1>3, <1>10
<1>13. 0..n \subseteq S
  <2> HIDE DEF S
  <2> QED BY <1>1, <1>11, <1>12, BoundedInduction
<1>14. \A k \in 0..n : f[k] \in V
  BY <1>13
<1>15. \A i \in 1..n : i - 1 \in 0..n /\ i \in 0..n
  BY <1>1
<1> HIDE DEF V, first, n
<1> QED BY <1>1, <1>9, <1>10, <1>14, <1>15 DEF V, first, n, names

\* The event has the value under the name.
Has(e, name, value) ==
  IF name \in Members THEN e.members[name] = value
  ELSE name \in DOMAIN e.fields /\ e.fields[name] = value

\* A field that is set has its value, and the others keep theirs.
LEMMA SetFieldHas ==
  ASSUME NEW C, NEW line, NEW ordinal, NEW names, NEW name, name # <<>>, NEW value,
         NEW e \in CellEvents(line, ordinal, names, C)
  PROVE  /\ Has(SetField(e, name, value), name, value)
         /\ \A other, old : other # name /\ Has(e, other, old) => Has(SetField(e, name, value), other, old)
<1> DEFINE new == [k \in (DOMAIN e.fields) \cup {name} |-> IF k = name THEN value ELSE e.fields[k]]
           members == [e.members EXCEPT ![name] = value]
           set == SetField(e, name, value)
<1>1. DOMAIN e.members = Members
  BY DEF CellEvents
<1>2. CASE name \in Members
  <2>1. set = [e EXCEPT !.members = members]
    BY <1>2 DEF SetField, CellEvents
  <2>2. set.members = members /\ set.fields = e.fields
    BY <2>1 DEF CellEvents
  <2>3. members[name] = value /\ \A k \in Members : k # name => members[k] = e.members[k]
    BY <1>1, <1>2
  <2> HIDE DEF members, set
  <2>4. Has(set, name, value)
    BY <1>2, <2>2, <2>3 DEF Has
  <2>5. ASSUME NEW other, NEW old, other # name, Has(e, other, old) PROVE Has(set, other, old)
    BY <2>2, <2>3, <2>5 DEF Has
  <2> QED BY <2>4, <2>5 DEF set
<1>3. CASE name \notin Members
  <2>1. set = [e EXCEPT !.fields = new]
    BY <1>3 DEF SetField
  <2>2. set.fields = new /\ set.members = e.members
    BY <2>1 DEF CellEvents
  <2>3. /\ name \in DOMAIN new /\ new[name] = value
        /\ \A k \in DOMAIN e.fields : k # name => k \in DOMAIN new /\ new[k] = e.fields[k]
    OBVIOUS
  <2> HIDE DEF new, set
  <2>4. Has(set, name, value)
    BY <1>3, <2>2, <2>3 DEF Has
  <2>5. ASSUME NEW other, NEW old, other # name, Has(e, other, old) PROVE Has(set, other, old)
    BY <2>2, <2>3, <2>5 DEF Has
  <2> QED BY <2>4, <2>5 DEF set
<1> QED BY <1>2, <1>3

\* The names whose fields are the event's own, and none.
OwnNames == {Timestamp, <<"time">>, <<"kind">>, <<"id">>, <<>>}

\* Columns with names that are all different and none of those.
ProperNames(header) ==
  /\ \A i, j \in 1..Len(header) : i # j => header[i] # header[j]
  /\ \A i \in 1..Len(header) : header[i] \notin OwnNames

\* An event of an ordinal that answers with cells under the names of a header.
Answers(e, ordinal, header, cells) ==
  /\ e.ordinal = ordinal
  /\ \A c \in 1..Len(header) : Field(e, header[c]) = cells[c]

\* A record whose cells are as many as the proper names of the header makes the event of
\* its line and ordinal that answers with the cells under the names (parse_csv_events).
THEOREM RecordRead ==
  ASSUME NEW C, NEW line, NEW ordinal, NEW header \in Seq(Seq(C)),
         ParseCsvRecord(line) \in Seq(Seq(C)), Len(ParseCsvRecord(line)) = Len(header),
         ProperNames(header)
  PROVE  Answers(RecordEvent(line, ordinal, header), ordinal, header, ParseCsvRecord(line))
<1> DEFINE n == Len(header)
           cells == ParseCsvRecord(line)
           names == ColumnNames(header)
           made(i) == WithCells(line, ordinal, header, cells, i)
           E == CellEvents(line, ordinal, names, C)
           S == {i \in 0..n : \A c \in 1..i : Has(made(i), header[c], cells[c])}
<1>1. n \in Nat
  OBVIOUS
<1> HIDE DEF cells
<1>2. /\ \A i \in 1..n : made(i) = SetField(made(i - 1), header[i], cells[i])
      /\ \A i \in 0..n : made(i) \in E
  <2>1. cells \in Seq(Seq(C))
    BY DEF cells
  <2>2. Len(cells) = Len(header)
    BY DEF cells
  <2>3. /\ WithCells(line, ordinal, header, cells, 0) = NewEvent(<<"csv">>, line, ordinal)
        /\ \A i \in 1..Len(header) :
             WithCells(line, ordinal, header, cells, i) =
               SetField(WithCells(line, ordinal, header, cells, i - 1), header[i], cells[i])
        /\ \A i \in 0..Len(header) :
             WithCells(line, ordinal, header, cells, i) \in CellEvents(line, ordinal, ColumnNames(header), C)
    BY <2>1, <2>2, CellsLoop
  <2> QED BY <2>3
<1> HIDE DEF made, n
<1>3. 0 \in S
  BY <1>1
<1>4. ASSUME NEW i \in 1..n, i - 1 \in S PROVE i \in S
  <2>1. i - 1 \in 0..n /\ i \in 0..n
    BY <1>1
  <2>2. made(i - 1) \in E /\ header[i] # <<>>
    BY <1>2, <2>1 DEF n, ProperNames, OwnNames
  <2>3. /\ Has(made(i), header[i], cells[i])
        /\ \A other, old : other # header[i] /\ Has(made(i - 1), other, old) => Has(made(i), other, old)
    <3>1. made(i) = SetField(made(i - 1), header[i], cells[i])
      BY <1>2
    <3> HIDE DEF names
    <3>2. /\ Has(SetField(made(i - 1), header[i], cells[i]), header[i], cells[i])
          /\ \A other, old : other # header[i] /\ Has(made(i - 1), other, old) =>
               Has(SetField(made(i - 1), header[i], cells[i]), other, old)
      BY <2>2, SetFieldHas
    <3> QED BY <3>1, <3>2, Zenon
  <2>4. ASSUME NEW c \in 1..i PROVE Has(made(i), header[c], cells[c])
    <3>1. CASE c = i
      BY <2>3, <3>1
    <3>2. CASE c # i
      <4>1. c \in 1..(i - 1) /\ c \in 1..n
        BY <1>1, <3>2
      <4>2. header[c] # header[i]
        BY <3>2, <4>1 DEF n, ProperNames
      <4>3. Has(made(i - 1), header[c], cells[c])
        BY <1>4, <4>1
      <4> QED BY <2>3, <4>2, <4>3
    <3> QED BY <3>1, <3>2
  <2> QED BY <2>1, <2>4
<1>5. n \in S
  <2>1. 0..n \subseteq S
    <3> HIDE DEF S
    <3> QED BY <1>1, <1>3, <1>4, BoundedInduction
  <2>2. n \in 0..n
    BY <1>1
  <2> HIDE DEF S
  <2> QED BY <2>1, <2>2
<1> DEFINE e == made(n)
<1>6. e \in E /\ \A c \in 1..n : Has(e, header[c], cells[c])
  BY <1>1, <1>2, <1>5
<1>7. Min({Len(header), Len(cells)}) = n
  <2>1. {Len(header), Len(cells)} = {n}
    BY DEF n, cells
  <2>2. Min({n}) \in {n}
    <3>1. {n} \subseteq Nat /\ {n} # {}
      BY <1>1
    <3> QED BY <3>1, LeastIs
  <2> QED BY <2>1, <2>2
<1> HIDE DEF e, E
<1>8. RecordEvent(line, ordinal, header) = e
  <2>1. e.timestamp = Epoch /\ [e EXCEPT !.timestamp = Epoch] = e
    BY <1>6 DEF E, CellEvents
  <2>2. Field(e, Timestamp) = Epoch
    BY <2>1 DEF Field
  <2>3. e = WithCells(line, ordinal, header, cells, Min({Len(header), Len(cells)}))
    BY <1>7 DEF e, made
  <2> QED BY <2>1, <2>2, <2>3, Zenon DEF RecordEvent, cells
<1>9. e.ordinal = ordinal
  BY <1>6 DEF E, CellEvents
<1>10. ASSUME NEW c \in 1..n PROVE Field(e, header[c]) = cells[c]
  <2>1. header[c] \notin OwnNames /\ Has(e, header[c], cells[c])
    BY <1>6 DEF n, ProperNames
  <2> QED BY <2>1 DEF Field, Has, OwnNames
<1>11. e.ordinal = ordinal /\ \A c \in 1..Len(header) : Field(e, header[c]) = cells[c]
  BY <1>9, <1>10 DEF n
<1> QED BY <1>8, <1>11, Zenon DEF Answers, cells

\* The lines of a table: its rows, with blank lines between them.
LEMMA RowLinesAre ==
  ASSUME NEW C, Quote \in C, Comma \in C, Blank \in C, NEW table \in Seq(Seq(Seq(C)))
  PROVE  /\ RowLines(table) \in Seq(Seq(C)) /\ Len(RowLines(table)) = 2 * Len(table)
         /\ \A k \in 1..Len(table) :
              RowLines(table)[2 * k - 1] = CsvRow(table[k]) /\ RowLines(table)[2 * k] = <<Blank>>
<1> DEFINE m == Len(table)
           W == Seq(C)
           row(k) == CsvRow(table[k])
           blank == <<Blank>>
           line(i) == IF i % 2 = 1 THEN row((i + 1) \div 2) ELSE blank
           lines == [i \in 1..(2 * m) |-> line(i)]
<1>1. m \in Nat /\ 2 * m \in Nat
  OBVIOUS
<1>2. \A k \in 1..m : row(k) \in W
  <2> TAKE k \in 1..m
  <2>1. table[k] \in Seq(Seq(C))
    OBVIOUS
  <2> QED BY <2>1, RowType
<1>3. blank \in W
  OBVIOUS
<1>4. RowLines(table) = lines
  BY DEF RowLines
<1> HIDE DEF row, blank, W, m
<1>5. \A i \in 1..(2 * m) : line(i) \in W
  <2> TAKE i \in 1..(2 * m)
  <2>1. i % 2 = 1 => (i + 1) \div 2 \in 1..m
    BY <1>1
  <2> QED BY <1>2, <1>3, <2>1
<1>6. ASSUME NEW k \in 1..m PROVE line(2 * k - 1) = row(k) /\ line(2 * k) = blank
  <2>1. (2 * k - 1) % 2 = 1 /\ (2 * k) % 2 = 0 /\ ((2 * k - 1) + 1) \div 2 = k
    BY <1>1
  <2> QED BY <2>1
<1>7. \A k \in 1..m : 2 * k - 1 \in 1..(2 * m) /\ 2 * k \in 1..(2 * m)
  BY <1>1
<1> HIDE DEF line
<1>8. lines \in Seq(W) /\ Len(lines) = 2 * m /\ \A i \in 1..(2 * m) : lines[i] = line(i)
  BY <1>1, <1>5
<1> HIDE DEF lines
<1>9. \A k \in 1..m : lines[2 * k - 1] = row(k) /\ lines[2 * k] = blank
  <2> TAKE k \in 1..m
  <2>1. lines[2 * k - 1] = line(2 * k - 1) /\ lines[2 * k] = line(2 * k)
    BY <1>7, <1>8
  <2> QED BY <1>6, <2>1
<1> QED BY <1>4, <1>8, <1>9, Zenon DEF W, m, row, blank

\* A table under a header, of rows of two cells or more, is read as one event for each
\* row, with the line of the row and numbered on over the blank lines between.
THEOREM TableRead ==
  ASSUME NEW C, Quote \in C, Comma \in C, Blank \in C, Newline \notin C,
         NEW table \in Seq(Seq(Seq(C))), table # <<>>, table[1] # <<>>,
         \A k \in 2..Len(table) : Len(table[k]) >= 2
  PROVE  ParseCsvEvents(CsvText(table)) =
           [k \in 1..(Len(table) - 1) |-> RecordEvent(CsvRow(table[k + 1]), k - 1, table[1])]
<1> DEFINE m == Len(table)
           lines == RowLines(table)
           rest == Tail(lines)
           header == table[1]
           event(k) == RecordEvent(CsvRow(table[k + 1]), k - 1, header)
           E(k) == [i \in 1..k |-> event(i)]
           S == {k \in 0..(m - 1) : EventsTo(header, rest, 2 * k) = E(k)}
<1>1. m \in Nat \ {0}
  OBVIOUS
<1>2. \A k \in 1..m : table[k] \in Seq(Seq(C))
  OBVIOUS
<1>3. /\ lines \in Seq(Seq(C)) /\ Len(lines) = 2 * m
      /\ \A k \in 1..m : lines[2 * k - 1] = CsvRow(table[k]) /\ lines[2 * k] = <<Blank>>
  BY RowLinesAre
<1>4. TextLines(CsvText(table)) = lines
  <2>1. lines \in Seq(Seq(C))
    BY <1>3
  <2> HIDE DEF lines
  <2>2. TextLines(TextOf(lines)) = lines
    BY <2>1, LinesRead
  <2> QED BY <2>2 DEF CsvText, lines
<1> HIDE DEF m, lines
<1>5. lines # <<>> /\ lines[1] = CsvRow(header)
  <2>1. 1 \in 1..m /\ 2 * 1 - 1 = 1 /\ Len(lines) >= 1
    BY <1>1, <1>3
  <2> QED BY <1>3, <2>1
<1>6. /\ rest \in Seq(Seq(C)) /\ Len(rest) = 2 * m - 1
      /\ \A i \in 1..(2 * m - 1) : rest[i] = lines[i + 1]
  <2> DEFINE W == Seq(C)
  <2>1. lines \in Seq(W) /\ lines # <<>>
    BY <1>3, <1>5
  <2> HIDE DEF W
  <2>2. rest \in Seq(W) /\ Len(rest) = Len(lines) - 1
    BY <2>1
  <2>3. \A i \in 1..(Len(lines) - 1) : rest[i] = lines[i + 1]
    BY <2>1
  <2>4. Len(lines) - 1 = 2 * m - 1
    BY <1>3
  <2> QED BY <2>2, <2>3, <2>4 DEF W
<1>7. ParseCsvRecord(CsvRow(header)) = header
  <2>1. header \in Seq(Seq(C)) /\ header # <<>>
    BY <1>1, <1>2
  <2> HIDE DEF header
  <2> QED BY <2>1, CsvRowRead
<1> HIDE DEF rest, header
<1>8. ParseCsvEvents(CsvText(table)) = EventsTo(header, rest, 2 * m - 1)
  <2>1. Len(lines) - 1 = 2 * m - 1
    BY <1>3
  <2> QED BY <1>4, <1>5, <1>7, <2>1, Zenon DEF ParseCsvEvents, rest
<1>9. /\ EventsTo(header, rest, 0) = <<>>
      /\ \A i \in 1..(2 * m - 1) :
           EventsTo(header, rest, i) = NextEvents(header, rest, EventsTo(header, rest, i - 1), i)
  <2>1. rest \in Seq(Seq(C)) /\ Len(rest) = 2 * m - 1
    BY <1>6
  <2> DEFINE W == Seq(C)
  <2>2. rest \in Seq(W)
    BY <2>1
  <2> HIDE DEF W
  <2>3. /\ EventsTo(header, rest, 0) = <<>>
        /\ \A i \in 1..Len(rest) :
             EventsTo(header, rest, i) = NextEvents(header, rest, EventsTo(header, rest, i - 1), i)
    BY <2>2, EventsLoop
  <2> QED BY <2>1, <2>3
\* The blank line of row k, and the row behind it.
<1>10. ASSUME NEW k \in 1..m
       PROVE  EventsTo(header, rest, 2 * k - 1) = EventsTo(header, rest, 2 * k - 2)
  <2> DEFINE i == 2 * k - 1
  <2>1. i \in 1..(2 * m - 1) /\ i + 1 = 2 * k /\ i - 1 = 2 * k - 2
    BY <1>1
  <2> HIDE DEF i
  <2>2. rest[i] = <<Blank>>
    BY <1>3, <1>6, <2>1
  <2>3. Trimmed(<<Blank>>) = <<>>
    <3>1. {j \in 1..Len(<<Blank>>) : <<Blank>>[j] \notin Blanks} = {}
      BY DEF Blanks
    <3> QED BY <3>1 DEF Trimmed
  <2>4. EventsTo(header, rest, i) = NextEvents(header, rest, EventsTo(header, rest, i - 1), i)
    BY <1>9, <2>1
  <2>5. EventsTo(header, rest, i) = EventsTo(header, rest, i - 1)
    BY <2>2, <2>3, <2>4 DEF NextEvents
  <2> QED BY <2>1, <2>5 DEF i
<1>11. ASSUME NEW k \in 1..(m - 1)
       PROVE  /\ Trimmed(rest[2 * k]) # <<>> /\ rest[2 * k] = CsvRow(table[k + 1])
  <2>1. 2 * k \in 1..(2 * m - 1) /\ k + 1 \in 2..m /\ k + 1 \in 1..m /\ 2 * k + 1 = 2 * (k + 1) - 1
    BY <1>1
  <2>2. rest[2 * k] = CsvRow(table[k + 1])
    <3>1. rest[2 * k] = lines[2 * k + 1]
      BY <1>6, <2>1
    <3>2. lines[2 * (k + 1) - 1] = CsvRow(table[k + 1])
      BY <1>3, <2>1
    <3> QED BY <2>1, <3>1, <3>2
  <2> DEFINE cells == table[k + 1]
             row == CsvRow(cells)
  <2>3. cells \in Seq(Seq(C)) /\ Len(cells) >= 2
    BY <1>2, <2>1 DEF m
  <2> HIDE DEF cells
  <2>4. row \in Seq(C) /\ \E j \in 1..Len(row) : row[j] = Comma
    BY <2>3, RowType
  <2>5. PICK j \in 1..Len(row) : row[j] = Comma
    BY <2>4
  <2>6. Comma \notin Blanks
    <3>1. Comma # Blank
      BY Zenon DEF Comma, Blank
    <3>2. Comma # Return
      BY DEF Comma, Return
    <3> QED BY <3>1, <3>2 DEF Blanks
  <2> HIDE DEF row
  <2>7. Trimmed(row) # <<>>
    BY <2>4, <2>5, <2>6, TrimmedSome
  <2> QED BY <2>2, <2>7 DEF row, cells
<1>12. 0 \in S
  <2>1. E(0) = <<>>
    OBVIOUS
  <2>2. 2 * 0 = 0 /\ 0 \in 0..(m - 1)
    BY <1>1
  <2> QED BY <1>9, <2>1, <2>2
<1>13. ASSUME NEW k \in 1..(m - 1), k - 1 \in S PROVE k \in S
  <2> DEFINE i == 2 * k
  <2>1. /\ i \in 1..(2 * m - 1) /\ i - 1 = 2 * k - 1 /\ 2 * (k - 1) = 2 * k - 2 /\ k \in 1..m
        /\ k \in 0..(m - 1)
    BY <1>1
  <2>2. EventsTo(header, rest, 2 * k - 2) = E(k - 1)
    BY <1>13, <2>1
  <2>3. EventsTo(header, rest, i - 1) = E(k - 1)
    BY <1>10, <2>1, <2>2
  <2>4. EventsTo(header, rest, i) = NextEvents(header, rest, E(k - 1), i)
    BY <1>9, <2>1, <2>3
  <2> HIDE DEF event
  <2> DEFINE X == {event(j) : j \in 1..k}
  <2>5. \A j \in 1..k : event(j) \in X
    OBVIOUS
  <2> HIDE DEF X
  <2>6. E(k - 1) \in Seq(X) /\ Len(E(k - 1)) = k - 1
    <3>1. k - 1 \in Nat /\ \A j \in 1..(k - 1) : j \in 1..k
      BY <1>1
    <3>2. \A j \in 1..(k - 1) : event(j) \in X
      BY <2>5, <3>1
    <3> QED BY <3>1, <3>2
  <2>7. Append(E(k - 1), event(k)) = E(k)
    <3>1. k \in Nat /\ k - 1 \in Nat /\ k \in 1..k
      BY <1>1
    <3>2. E(k - 1) \in Seq(X) /\ event(k) \in X
      BY <2>5, <2>6, <3>1
    <3>3. E(k) \in Seq(X) /\ Len(E(k)) = k /\ \A j \in 1..k : E(k)[j] = event(j)
      BY <2>5, <3>1
    <3>4. \A j \in 1..(k - 1) : E(k - 1)[j] = event(j)
      BY <3>1
    <3> DEFINE old == E(k - 1)
               new == E(k)
    <3> HIDE DEF E, old, new
    <3>5. old \in Seq(X) /\ Len(old) = k - 1 /\ \A j \in 1..(k - 1) : old[j] = event(j)
      BY <2>6, <3>2, <3>4 DEF old
    <3>6. new \in Seq(X) /\ Len(new) = k /\ \A j \in 1..k : new[j] = event(j)
      BY <3>3 DEF new
    <3>7. /\ Append(old, event(k)) \in Seq(X) /\ Len(Append(old, event(k))) = k
          /\ Append(old, event(k))[k] = event(k)
          /\ \A j \in 1..(k - 1) : Append(old, event(k))[j] = old[j]
      BY <3>1, <3>2, <3>5, AppendProperties
    <3>8. \A j \in 1..k : Append(old, event(k))[j] = new[j]
      <4> TAKE j \in 1..k
      <4>1. CASE j = k
        BY <3>1, <3>6, <3>7, <4>1
      <4>2. CASE j \in 1..(k - 1)
        BY <3>5, <3>6, <3>7, <4>2
      <4>3. j = k \/ j \in 1..(k - 1)
        BY <3>1
      <4> QED BY <4>1, <4>2, <4>3, Zenon
    <3>9. Append(old, event(k)) = new
      BY <3>6, <3>7, <3>8, SeqEqual
    <3> QED BY <3>9 DEF old, new
  <2>8. NextEvents(header, rest, E(k - 1), i) = Append(E(k - 1), event(k))
    <3>1. Trimmed(rest[i]) # <<>> /\ rest[i] = CsvRow(table[k + 1])
      BY <1>11
    <3>2. NextEvents(header, rest, E(k - 1), i) =
            Append(E(k - 1), RecordEvent(rest[i], Len(E(k - 1)), header))
      BY <3>1, Zenon DEF NextEvents
    <3> HIDE DEF E
    <3>3. RecordEvent(rest[i], Len(E(k - 1)), header) = event(k)
      BY <2>6, <3>1, Zenon DEF event
    <3> QED BY <3>2, <3>3, Zenon
  <2> HIDE DEF E
  <2>9. EventsTo(header, rest, 2 * k) = E(k)
    BY <2>4, <2>7, <2>8, Zenon DEF i
  <2> QED BY <2>1, <2>9
<1>14. m - 1 \in S
  <2> HIDE DEF S
  <2>1. m - 1 \in Nat
    BY <1>1
  <2>2. 0..(m - 1) \subseteq S
    BY <1>12, <1>13, <2>1, BoundedInduction
  <2>3. m - 1 \in 0..(m - 1)
    BY <2>1
  <2> QED BY <2>2, <2>3
<1>15. EventsTo(header, rest, 2 * m - 1) = E(m - 1)
  <2> HIDE DEF E
  <2>1. m \in 1..m /\ 2 * (m - 1) = 2 * m - 2
    BY <1>1
  <2>2. EventsTo(header, rest, 2 * (m - 1)) = E(m - 1)
    BY <1>14
  <2> QED BY <1>10, <2>1, <2>2
<1> QED BY <1>8, <1>15, Zenon DEF m, header

\* A written row is the record of its cells again, under names that are all different
\* and no own names of events.
LEMMA RowEvent ==
  ASSUME NEW C, Quote \in C, Comma \in C, NEW ordinal, NEW header \in Seq(Seq(C)),
         NEW row \in Seq(Seq(C)), row # <<>>, Len(row) = Len(header), ProperNames(header)
  PROVE  Answers(RecordEvent(CsvRow(row), ordinal, header), ordinal, header, row)
<1> DEFINE line == CsvRow(row)
<1>1. ParseCsvRecord(line) = row
  BY CsvRowRead
<1> HIDE DEF line
<1>2. ParseCsvRecord(line) \in Seq(Seq(C)) /\ Len(ParseCsvRecord(line)) = Len(header)
  BY <1>1, Zenon
<1>3. Answers(RecordEvent(line, ordinal, header), ordinal, header, ParseCsvRecord(line))
  BY <1>2, RecordRead
<1>4. Answers(RecordEvent(line, ordinal, header), ordinal, header, row)
  BY <1>1, <1>3, Zenon
<1> QED BY <1>4, Zenon DEF line

\* A table that is written row by row, with blank lines between, is read back: an event
\* for each row, numbered from 0, that answers with the row's cells under the names of
\* the header (to_csv_row, parse_csv_events), for tables of any size, whatever commas,
\* quotes and blanks the cells hold.
THEOREM TableReadBack ==
  ASSUME NEW C, Quote \in C, Comma \in C, Blank \in C, Newline \notin C,
         NEW table \in Seq(Seq(Seq(C))), table # <<>>, Len(table[1]) >= 2,
         ProperNames(table[1]), \A k \in 2..Len(table) : Len(table[k]) = Len(table[1])
  PROVE  /\ Len(ParseCsvEvents(CsvText(table))) = Len(table) - 1
         /\ \A k \in 1..(Len(table) - 1) :
              Answers(ParseCsvEvents(CsvText(table))[k], k - 1, table[1], table[k + 1])
<1> DEFINE m == Len(table)
           header == table[1]
           event(k) == RecordEvent(CsvRow(table[k + 1]), k - 1, header)
           events == ParseCsvEvents(CsvText(table))
<1>1. m \in Nat \ {0}
  OBVIOUS
<1>2. \A k \in 1..m : table[k] \in Seq(Seq(C))
  OBVIOUS
<1>3. header \in Seq(Seq(C)) /\ header # <<>> /\ Len(header) \in Nat
  <2>1. header \in Seq(Seq(C))
    BY <1>1, <1>2
  <2> HIDE DEF header
  <2>2. Len(header) >= 2
    BY DEF header
  <2> QED BY <2>1, <2>2
<1>4. \A k \in 2..Len(table) : Len(table[k]) >= 2
  BY Zenon
<1>5. events = [k \in 1..(m - 1) |-> event(k)]
  BY <1>3, <1>4, TableRead
<1>6. ASSUME NEW k \in 1..(m - 1) PROVE Answers(event(k), k - 1, header, table[k + 1])
  <2> DEFINE row == table[k + 1]
             ordinal == k - 1
  <2>1. k + 1 \in 2..m /\ k + 1 \in 1..m
    BY <1>1
  <2>2. row \in Seq(Seq(C)) /\ Len(row) = Len(header)
    BY <1>2, <2>1
  <2> HIDE DEF row, header, ordinal
  <2>3. row # <<>>
    BY <1>3, <2>2
  <2>4. ProperNames(header)
    BY Zenon DEF header
  <2>5. Answers(RecordEvent(CsvRow(row), ordinal, header), ordinal, header, row)
    BY <1>3, <2>2, <2>3, <2>4, RowEvent
  <2> QED BY <2>5, Zenon DEF row, ordinal
<1> HIDE DEF event, events, header
<1>7. Len(events) = m - 1 /\ \A k \in 1..(m - 1) : events[k] = event(k)
  BY <1>1, <1>5
<1>8. \A k \in 1..(m - 1) : Answers(events[k], k - 1, header, table[k + 1])
  BY <1>6, <1>7, Zenon
<1> QED BY <1>7, <1>8, Zenon DEF events, header

\* The table of two columns and two rows that the property is about.
LEMMA SmallTable ==
  ASSUME NEW C, Quote \in C, Comma \in C, Blank \in C, Newline \notin C,
         NEW x \in Seq(C), NEW y \in Seq(C), NEW u \in Seq(C), NEW v \in Seq(C),
         u # v, u \notin OwnNames, v \notin OwnNames
  PROVE  LET columns == <<u, v>>
             rows    == <<<<x, y>>, <<y, x>>>>
             events  == ParseCsvEvents(CsvText(<<columns>> \o rows))
         IN  /\ Len(events) = Len(rows)
             /\ \A i \in 1..Len(rows) :
                  /\ events[i].ordinal = i - 1
                  /\ \A c \in 1..2 : Field(events[i], columns[c]) = rows[i][c]
<1> DEFINE W == Seq(C)
           columns == <<u, v>>
           rows == <<<<x, y>>, <<y, x>>>>
           table == <<columns>> \o rows
           events == ParseCsvEvents(CsvText(table))
<1>1. x \in W /\ y \in W /\ u \in W /\ v \in W
  OBVIOUS
<1> HIDE DEF W
<1>2. /\ columns \in Seq(W) /\ <<x, y>> \in Seq(W) /\ <<y, x>> \in Seq(W)
      /\ Len(columns) = 2 /\ Len(<<x, y>>) = 2 /\ Len(<<y, x>>) = 2
  BY <1>1
<1>3. columns[1] = u /\ columns[2] = v
  OBVIOUS
<1> DEFINE R == Seq(W)
           row == <<x, y>>
           back == <<y, x>>
<1> HIDE DEF R, row, back, columns
<1>4. columns \in R /\ row \in R /\ back \in R
  BY <1>2 DEF R, row, back
<1>5. rows = <<row, back>>
  BY DEF row, back
<1> HIDE DEF rows
<1>6. Len(rows) = 2 /\ rows[1] = row /\ rows[2] = back /\ rows \in Seq(R)
  BY <1>4, <1>5
<1>7. /\ table \in Seq(R) /\ Len(table) = 3
      /\ table[1] = columns /\ table[2] = row /\ table[3] = back
  BY <1>4, <1>5
<1> HIDE DEF table
<1>8. table \in Seq(Seq(Seq(C)))
  BY <1>7, Zenon DEF R, W
<1>9. table # <<>>
  <2>1. Len(table) = 3
    BY <1>7
  <2>2. Len(<<>>) # 3
    OBVIOUS
  <2> QED BY <2>1, <2>2, Zenon
<1>10. Len(table[1]) = 2 /\ Len(table[2]) = 2 /\ Len(table[3]) = 2
  BY <1>2, <1>7, Zenon DEF row, back
<1>11. \A k \in 2..Len(table) : Len(table[k]) = Len(table[1])
  <2>1. \A k \in 2..Len(table) : k = 2 \/ k = 3
    BY <1>7
  <2> QED BY <1>10, <2>1, Zenon
<1>12. \A i \in 1..Len(table[1]) : i = 1 \/ i = 2
  BY <1>10
<1>13. table[1][1] = u /\ table[1][2] = v
  BY <1>3, <1>7, Zenon
<1>14. ProperNames(table[1])
  <2>1. \A i, j \in 1..Len(table[1]) : i # j => table[1][i] # table[1][j]
    BY <1>12, <1>13, Zenon
  <2>2. \A i \in 1..Len(table[1]) : table[1][i] \notin OwnNames
    BY <1>12, <1>13, Zenon
  <2> QED BY <2>1, <2>2, Zenon DEF ProperNames
<1>15. /\ Len(events) = Len(table) - 1
       /\ \A k \in 1..(Len(table) - 1) : Answers(events[k], k - 1, table[1], table[k + 1])
  <2>1. Len(table[1]) >= 2
    BY <1>10
  <2> QED BY <1>8, <1>9, <1>11, <1>14, <2>1, TableReadBack
<1> HIDE DEF events
<1>16. Len(events) = 2 /\ 1..(Len(table) - 1) = 1..2 /\ 1..Len(table[1]) = 1..2
  BY <1>7, <1>10, <1>15
<1>17. ASSUME NEW i \in 1..2 PROVE rows[i] = table[i + 1]
  BY <1>6, <1>7
<1>18. \A i \in 1..Len(rows) :
         /\ events[i].ordinal = i - 1
         /\ \A c \in 1..2 : Field(events[i], columns[c]) = rows[i][c]
  <2> TAKE i \in 1..Len(rows)
  <2>1. i \in 1..2 /\ i \in 1..(Len(table) - 1)
    BY <1>6, <1>7
  <2>2. rows[i] = table[i + 1]
    BY <1>17, <2>1
  <2>3. /\ events[i].ordinal = i - 1
        /\ \A c \in 1..2 : Field(events[i], table[1][c]) = table[i + 1][c]
    BY <1>15, <1>16, <2>1, Zenon DEF Answers
  <2> QED BY <1>7, <2>2, <2>3, Zenon
<1>19. Len(events) = Len(rows)
  BY <1>6, <1>16
<1> QED BY <1>18, <1>19, Zenon DEF events, table, rows, columns

\* The rows of a table are read back as events with their cells, for inputs of any length
\* (to_csv_row, parse_csv_events).
THEOREM CsvEventsReadBackHolds == Spec => []CsvEventsReadBack
<1>1. CsvTextType => CsvEventsReadBack
  <2> DEFINE u == <<"host">>
             v == <<"status">>
             columns == <<u, v>>
             rows    == <<<<Parts[1], Last(Parts)>>, <<Last(Parts), Parts[1]>>>>
             events  == ParseCsvEvents(CsvText(<<columns>> \o rows))
  <2> SUFFICES ASSUME text \in Seq(Alphabet["csv"]), Newline \notin ToSet(text)
               PROVE  /\ Len(events) = Len(rows)
                      /\ \A i \in 1..Len(rows) :
                           /\ events[i].ordinal = i - 1
                           /\ \A c \in 1..2 : Field(events[i], columns[c]) = rows[i][c]
    BY Zenon DEF CsvTextType, CsvEventsReadBack
  <2> DEFINE C == (Alphabet["csv"] \ {Newline}) \cup {"host", "status"}
  <2>1. Quote \in C /\ Comma \in C /\ Blank \in C
    <3>1. {Quote, Comma, Blank} \subseteq Alphabet["csv"]
      BY DEF Alphabet
    <3>2. Quote # Newline /\ Comma # Newline
      BY DEF Quote, Comma, Newline
    <3>3. Blank # Newline
      BY Zenon DEF Blank, Newline
    <3> QED BY <3>1, <3>2, <3>3
  <2>2. Newline \notin C
    BY DEF Newline
  <2>3. u \in Seq(C) /\ v \in Seq(C) /\ u # v
    OBVIOUS
  <2>4. u \notin OwnNames /\ v \notin OwnNames
    BY DEF OwnNames, Timestamp
  <2>5. text \in Seq(C)
    <3>1. \A i \in 1..Len(text) : text[i] \in Alphabet["csv"] /\ text[i] # Newline
      BY DEF ToSet
    <3>2. \A i \in 1..Len(text) : text[i] \in C
      BY <3>1
    <3> QED BY <3>2
  <2> HIDE DEF C, u, v
  <2>6. Parts \in SomeParts(C)
    <3>1. Len(text) \in 0..Len(text)
      BY <2>5
    <3> QED BY <2>5, <3>1, PartsLoop DEF Parts
  <2> DEFINE W == Seq(C)
  <2>7. Parts \in Seq(W) /\ Parts # <<>>
    BY <2>6 DEF SomeParts
  <2> HIDE DEF W
  <2>8. Parts[1] \in W /\ Last(Parts) \in W
    BY <2>7 DEF Last
  <2>9. Parts[1] \in Seq(C) /\ Last(Parts) \in Seq(C)
    BY <2>8 DEF W
  <2> QED BY <2>1, <2>2, <2>3, <2>4, <2>9, SmallTable
<1> QED BY <1>1, TextIsCsv, PTL

-----------------------------------------------------------------------------
(* Entries of INI texts.                                                   *)

\* What is from p to q in s begins and ends with no blank, and nothing but blanks is
\* outside.
Spans(s, p, q) ==
  /\ p \in 1..Len(s) /\ q \in p..Len(s) /\ s[p] \notin Blanks /\ s[q] \notin Blanks
  /\ \A j \in 1..Len(s) : j < p \/ j > q => s[j] \in Blanks

\* A sequence of blanks.
AllBlank(s) == \A j \in 1..Len(s) : s[j] \in Blanks

\* Trimming a text leaves what it spans, or nothing of blanks.
LEMMA TrimmedSpan ==
  ASSUME NEW C, NEW s \in Seq(C)
  PROVE  /\ \A p, q : Spans(s, p, q) => Trimmed(s) = SubSeq(s, p, q)
         /\ AllBlank(s) => Trimmed(s) = <<>>
         /\ ~AllBlank(s) => \E p, q : Spans(s, p, q)
<1> DEFINE n == Len(s)
           S == {i \in 1..n : s[i] \notin Blanks}
<1>1. n \in Nat /\ S \subseteq 0..n /\ S \subseteq Nat /\ S \subseteq 1..n
  OBVIOUS
<1>2. Trimmed(s) = IF S = {} THEN <<>> ELSE SubSeq(s, Min(S), Max(S))
  BY DEF Trimmed
<1>3. \A i : i \in S <=> i \in 1..n /\ s[i] \notin Blanks
  OBVIOUS
<1> HIDE DEF S
<1>4. S # {} => /\ Min(S) \in S /\ \A m \in S : Min(S) <= m
                /\ Max(S) \in S /\ \A m \in S : m <= Max(S)
  BY <1>1, LeastIs, GreatestIs
<1>5. ASSUME NEW p, NEW q, Spans(s, p, q) PROVE Trimmed(s) = SubSeq(s, p, q)
  <2>1. p \in S /\ q \in S /\ p \in Nat /\ q \in Nat
    BY <1>1, <1>3, <1>5 DEF Spans
  <2>2. \A m \in S : p <= m /\ m <= q
    BY <1>1, <1>3, <1>5 DEF Spans
  <2>3. Min(S) = p /\ Max(S) = q
    <3>1. Min(S) \in Nat /\ Max(S) \in Nat
      BY <1>1, <1>4, <2>1
    <3> QED BY <1>4, <2>1, <2>2, <3>1
  <2> QED BY <1>2, <2>1, <2>3
<1>6. AllBlank(s) => Trimmed(s) = <<>>
  <2> SUFFICES ASSUME AllBlank(s) PROVE S = {}
    BY <1>2
  <2> QED BY <1>3 DEF AllBlank
<1>7. ASSUME ~AllBlank(s) PROVE \E p, q : Spans(s, p, q)
  <2>1. S # {}
    BY <1>3, <1>7 DEF AllBlank
  <2> DEFINE p == Min(S)
             q == Max(S)
  <2>2. p \in 1..n /\ q \in 1..n /\ p <= q /\ s[p] \notin Blanks /\ s[q] \notin Blanks
    BY <1>1, <1>3, <1>4, <2>1
  <2>3. \A j \in 1..n : j < p \/ j > q => s[j] \in Blanks
    <3> TAKE j \in 1..n
    <3>1. s[j] \notin Blanks => p <= j /\ j <= q
      BY <1>3, <1>4, <2>1
    <3> HIDE DEF p, q
    <3> QED BY <2>2, <3>1
  <2> HIDE DEF p, q
  <2>4. Spans(s, p, q)
    BY <1>1, <2>2, <2>3 DEF Spans
  <2> QED BY <2>4
<1> QED BY <1>5, <1>6, <1>7

\* A part of a sequence.
LEMMA PartIs ==
  ASSUME NEW C, NEW s \in Seq(C), NEW p \in 1..(Len(s) + 1), NEW q \in (p - 1)..Len(s)
  PROVE  /\ SubSeq(s, p, q) \in Seq(C) /\ Len(SubSeq(s, p, q)) = q - p + 1
         /\ \A i \in 1..(q - p + 1) : SubSeq(s, p, q)[i] = s[p + i - 1]
<1>1. Len(s) \in Nat /\ p \in Int /\ q \in Int /\ \A i \in p..q : s[i] \in C
  OBVIOUS
<1>2. /\ SubSeq(s, p, q) \in Seq(C) /\ Len(SubSeq(s, p, q)) = IF p <= q THEN q - p + 1 ELSE 0
      /\ \A i \in 1..q - p + 1 : SubSeq(s, p, q)[i] = s[p + i - 1]
  BY <1>1, SubSeqProperties
<1> QED BY <1>1, <1>2

\* A text that two parts of texts have in common, each being all that its text spans.
LEMMA SameSpan ==
  ASSUME NEW C, NEW s \in Seq(C), NEW t \in Seq(C), NEW p, NEW q, NEW u, NEW v,
         Spans(s, p, q), Spans(t, u, v), q - p = v - u,
         \A i \in 0..(q - p) : s[p + i] = t[u + i]
  PROVE  Trimmed(s) = Trimmed(t)
<1> DEFINE a1 == SubSeq(s, p, q)
           a2 == SubSeq(t, u, v)
<1>1. /\ Len(s) \in Nat /\ Len(t) \in Nat
      /\ p \in 1..(Len(s) + 1) /\ q \in (p - 1)..Len(s) /\ u \in 1..(Len(t) + 1) /\ v \in (u - 1)..Len(t)
  BY DEF Spans
<1>2. /\ a1 \in Seq(C) /\ Len(a1) = q - p + 1 /\ \A i \in 1..(q - p + 1) : a1[i] = s[p + i - 1]
  BY <1>1, PartIs
<1>3. /\ a2 \in Seq(C) /\ Len(a2) = v - u + 1 /\ \A i \in 1..(v - u + 1) : a2[i] = t[u + i - 1]
  BY <1>1, PartIs
<1>4. Trimmed(s) = a1 /\ Trimmed(t) = a2
  BY TrimmedSpan
<1> HIDE DEF a1, a2
<1>5. \A i \in 1..Len(a1) : a1[i] = a2[i]
  <2> TAKE i \in 1..Len(a1)
  <2>1. i - 1 \in 0..(q - p) /\ p + (i - 1) = p + i - 1 /\ u + (i - 1) = u + i - 1
    BY <1>1, <1>2
  <2>2. s[p + (i - 1)] = t[u + (i - 1)]
    BY <2>1
  <2> QED BY <1>1, <1>2, <1>3, <2>1, <2>2
<1>6. Len(a1) = Len(a2)
  BY <1>1, <1>2, <1>3
<1>7. a1 = a2
  BY <1>2, <1>3, <1>5, <1>6, SeqEqual
<1> QED BY <1>4, <1>7

\* An event of an entry of a section.
Entry(e, ordinal, section, key, value) ==
  /\ e.ordinal = ordinal /\ e.members[<<"service">>] = section
  /\ e.fields[<<"key">>] = key /\ e.fields[<<"value">>] = value

\* What parse_ini_events makes of a line with an equals sign.
LEMMA IniEventIs ==
  ASSUME NEW line, NEW t, NEW eq, NEW ordinal, NEW section
  PROVE  Entry(IniEvent(line, t, eq, ordinal, section), ordinal, section,
               Trimmed(SubSeq(t, 1, eq - 1)), Trimmed(SubSeq(t, eq + 1, Len(t))))
<1> DEFINE key == Trimmed(SubSeq(t, 1, eq - 1))
           value == Trimmed(SubSeq(t, eq + 1, Len(t)))
           fields == [n \in {<<"key">>, <<"value">>} |-> IF n = <<"key">> THEN key ELSE value]
           new == NewEvent(<<"ini">>, line, ordinal)
           named == [new EXCEPT !.fields = fields]
           service == [named.members EXCEPT ![<<"service">>] = section]
           placed == SetField(named, <<"service">>, section)
           said == section \o <<".">> \o key \o <<"=">> \o value
           e == SetField(placed, <<"message">>, said)
<1>1. IniEvent(line, t, eq, ordinal, section) = e
  BY DEF IniEvent
<1> HIDE DEF key, value, said
<1>2. fields[<<"key">>] = key /\ fields[<<"value">>] = value
  <2>1. <<"key">> # <<"value">>
    OBVIOUS
  <2> QED BY <2>1
<1> HIDE DEF fields
<1>3. /\ DOMAIN named.members = Members /\ named.fields = fields /\ named.ordinal = ordinal
      /\ DOMAIN named = {"id", "kind", "timestamp", "ordinal", "members", "fields"}
  BY DEF NewEvent
<1>4. <<"service">> \in Members /\ <<"message">> \in Members /\ <<"service">> # <<"message">>
      /\ <<"service">> # <<>> /\ <<"message">> # <<>>
  BY DEF Members
<1> HIDE DEF named
<1>5. placed = [named EXCEPT !.members[<<"service">>] = section]
  BY <1>4, Zenon DEF SetField
<1> HIDE DEF placed
<1>6. e = [placed EXCEPT !.members[<<"message">>] = said]
  BY <1>4, Zenon DEF SetField
<1> HIDE DEF e
<1>7. /\ DOMAIN placed.members = Members /\ placed.fields = fields /\ placed.ordinal = ordinal
      /\ DOMAIN placed = {"id", "kind", "timestamp", "ordinal", "members", "fields"}
      /\ placed.members[<<"service">>] = section
  BY <1>3, <1>4, <1>5
<1>8. e.fields = fields /\ e.ordinal = ordinal /\ e.members[<<"service">>] = section
  BY <1>4, <1>6, <1>7
<1>9. Entry(e, ordinal, section, key, value)
  BY <1>2, <1>8 DEF Entry
<1> QED BY <1>1, <1>9 DEF key, value

\* Where the first equals sign is.
LEMMA EqualsAtIs ==
  ASSUME NEW C, NEW t \in Seq(C)
  PROVE  /\ (\A j \in 1..Len(t) : t[j] # "=") => EqualsAt(t) = 0
         /\ \A p \in 1..Len(t) : t[p] = "=" /\ (\A j \in 1..(p - 1) : t[j] # "=") => EqualsAt(t) = p
<1> DEFINE at == {i \in 1..Len(t) : t[i] = "="}
<1>1. EqualsAt(t) = IF at = {} THEN 0 ELSE Min(at)
  BY DEF EqualsAt
<1>2. Len(t) \in Nat /\ at \subseteq Nat /\ \A i : i \in at <=> i \in 1..Len(t) /\ t[i] = "="
  OBVIOUS
<1> HIDE DEF at
<1>3. (\A j \in 1..Len(t) : t[j] # "=") => EqualsAt(t) = 0
  BY <1>1, <1>2
<1>4. ASSUME NEW p \in 1..Len(t), t[p] = "=", \A j \in 1..(p - 1) : t[j] # "="
      PROVE  EqualsAt(t) = p
  <2>1. p \in at /\ at # {}
    BY <1>2, <1>4
  <2>2. Min(at) \in at /\ Min(at) <= p
    BY <1>2, <2>1, LeastIs
  <2>3. Min(at) \in 1..Len(t) /\ t[Min(at)] = "="
    BY <1>2, <2>2
  <2>4. ~(Min(at) \in 1..(p - 1))
    BY <1>4, <2>3
  <2>5. Min(at) = p
    BY <1>2, <2>2, <2>3, <2>4
  <2> QED BY <1>1, <2>1, <2>5
<1> QED BY <1>3, <1>4

\* Parts of a text with a mark in it: what is before the mark and behind it.
LEMMA Sides ==
  ASSUME NEW C, NEW left \in Seq(C), NEW right \in Seq(C), NEW mark \in C
  PROVE  LET line == left \o <<mark>> \o right
             n    == Len(left)
         IN  /\ line \in Seq(C) /\ Len(line) = n + 1 + Len(right) /\ line[n + 1] = mark
             /\ \A j \in 1..n : line[j] = left[j]
             /\ \A j \in 1..Len(right) : line[n + 1 + j] = right[j]
<1> DEFINE n == Len(left)
           some == left \o <<mark>>
           line == some \o right
<1>1. n \in Nat /\ Len(right) \in Nat
  OBVIOUS
<1>2. /\ some \in Seq(C) /\ Len(some) = n + 1 /\ some[n + 1] = mark
      /\ \A j \in 1..n : some[j] = left[j]
  <2>1. <<mark>> \in Seq(C) /\ Len(<<mark>>) = 1 /\ <<mark>>[1] = mark
    OBVIOUS
  <2> DEFINE end == <<mark>>
  <2> HIDE DEF end
  <2>2. end \in Seq(C) /\ Len(end) = 1 /\ end[1] = mark
    BY <2>1 DEF end
  <2>3. /\ left \o end \in Seq(C) /\ Len(left \o end) = Len(left) + Len(end)
        /\ \A i \in 1..Len(left) + Len(end) :
             (left \o end)[i] = IF i <= Len(left) THEN left[i] ELSE end[i - Len(left)]
    BY <2>2, ConcatProperties
  <2>4. (left \o end)[n + 1] = mark
    BY <1>1, <2>2, <2>3
  <2>5. \A j \in 1..n : (left \o end)[j] = left[j]
    BY <1>1, <2>2, <2>3
  <2> QED BY <2>2, <2>3, <2>4, <2>5 DEF end
<1> HIDE DEF some
<1>3. /\ line \in Seq(C) /\ Len(line) = Len(some) + Len(right)
      /\ \A i \in 1..Len(some) + Len(right) :
           line[i] = IF i <= Len(some) THEN some[i] ELSE right[i - Len(some)]
  BY <1>2, ConcatProperties
<1> HIDE DEF line
<1>4. Len(line) = n + 1 + Len(right) /\ line[n + 1] = mark /\ \A j \in 1..n : line[j] = left[j]
  BY <1>1, <1>2, <1>3
<1>5. \A j \in 1..Len(right) : line[n + 1 + j] = right[j]
  <2> TAKE j \in 1..Len(right)
  <2>1. n + 1 + j \in 1..Len(some) + Len(right) /\ ~(n + 1 + j <= Len(some)) /\ (n + 1 + j) - Len(some) = j
    BY <1>1, <1>2
  <2> QED BY <1>3, <2>1
<1> QED BY <1>3, <1>4, <1>5 DEF line, some

\* A key and a value between which an equals sign makes an entry of a line.
Entries(key, value) ==
  /\ key # <<>> => key[1] \notin CommentMarks
  /\ ~(key # <<>> /\ key[1] = "[" /\ value # <<>> /\ Last(value) = "]")

\* There is no equals sign in a text.
NoEquals(s) == \A j \in 1..Len(s) : s[j] # "="

\* A line with an equals sign, no comment or header, is an entry of what is before the
\* first one and behind it, without the blanks around them (parse_ini_events).
THEOREM EntryTurn ==
  ASSUME NEW C, NEW left \in Seq(C), NEW right \in Seq(C), "=" \in C,
         \A j \in 1..Len(left) : left[j] # "=", "=" \notin Blanks, "=" \notin CommentMarks,
         Entries(Trimmed(left), Trimmed(right)), NEW st
  PROVE  \E e : /\ IniTurn(st, left \o <<"=">> \o right) = [st EXCEPT !.events = Append(@, e)]
                /\ Entry(e, Len(st.events), st.section, Trimmed(left), Trimmed(right))
<1> DEFINE n == Len(left)
           line == left \o <<"=">> \o right
           key == Trimmed(left)
           value == Trimmed(right)
<1>1. n \in Nat /\ Len(right) \in Nat
  OBVIOUS
<1>2. /\ line \in Seq(C) /\ Len(line) = n + 1 + Len(right) /\ line[n + 1] = "="
      /\ \A j \in 1..n : line[j] = left[j]
      /\ \A j \in 1..Len(right) : line[n + 1 + j] = right[j]
  BY Sides
<1> HIDE DEF line
<1>3. PICK p, q : Spans(line, p, q)
  <2>1. n + 1 \in 1..Len(line) /\ line[n + 1] \notin Blanks
    BY <1>1, <1>2
  <2>2. ~AllBlank(line)
    BY <2>1 DEF AllBlank
  <2> QED BY <1>2, <2>2, TrimmedSpan
<1>4. p \in 1..(n + 1) /\ q \in (n + 1)..Len(line) /\ p \in Nat /\ q \in Nat
  <2>1. n + 1 \in 1..Len(line) /\ line[n + 1] \notin Blanks
    BY <1>1, <1>2
  <2> QED BY <1>1, <1>2, <1>3, <2>1 DEF Spans
<1> DEFINE t == SubSeq(line, p, q)
           eq == n + 2 - p
           before == SubSeq(t, 1, eq - 1)
           behind == SubSeq(t, eq + 1, Len(t))
<1>5. Trimmed(line) = t
  BY <1>2, <1>3, TrimmedSpan
<1>6. t \in Seq(C) /\ Len(t) = q - p + 1 /\ \A i \in 1..(q - p + 1) : t[i] = line[p + i - 1]
  BY <1>1, <1>2, <1>4, PartIs
<1> HIDE DEF t
<1>7. EqualsAt(t) = eq
  <2>1. eq \in 1..Len(t) /\ p + eq - 1 = n + 1
    BY <1>1, <1>4, <1>6
  <2>2. t[eq] = "="
    BY <1>2, <1>6, <2>1
  <2>3. \A j \in 1..(eq - 1) : t[j] # "="
    <3> TAKE j \in 1..(eq - 1)
    <3>1. j \in 1..(q - p + 1) /\ p + j - 1 \in 1..n
      BY <1>1, <1>4
    <3>2. t[j] = line[p + j - 1] /\ line[p + j - 1] = left[p + j - 1]
      BY <1>2, <1>6, <3>1
    <3> QED BY <3>1, <3>2
  <2> HIDE DEF eq
  <2> QED BY <1>6, <2>1, <2>2, <2>3, EqualsAtIs
<1>8. /\ before \in Seq(C) /\ Len(before) = n + 1 - p
      /\ \A i \in 1..(n + 1 - p) : before[i] = left[p + i - 1]
  <2>1. 1 \in 1..(Len(t) + 1) /\ eq - 1 \in (1 - 1)..Len(t) /\ (eq - 1) - 1 + 1 = n + 1 - p
    BY <1>1, <1>4, <1>6
  <2>2. /\ before \in Seq(C) /\ Len(before) = (eq - 1) - 1 + 1
        /\ \A i \in 1..((eq - 1) - 1 + 1) : before[i] = t[1 + i - 1]
    <3> HIDE DEF eq
    <3> QED BY <1>6, <2>1, PartIs
  <2>3. ASSUME NEW i \in 1..(n + 1 - p) PROVE before[i] = left[p + i - 1]
    <3>1. i \in 1..(q - p + 1) /\ p + i - 1 \in 1..n /\ 1 + i - 1 = i
      BY <1>1, <1>4
    <3>2. before[i] = t[i]
      BY <2>1, <2>2, <3>1
    <3>3. t[i] = line[p + i - 1] /\ line[p + i - 1] = left[p + i - 1]
      BY <1>2, <1>6, <3>1
    <3> QED BY <3>2, <3>3
  <2> HIDE DEF before
  <2> QED BY <2>1, <2>2, <2>3
<1>9. /\ behind \in Seq(C) /\ Len(behind) = q - (n + 1)
      /\ \A i \in 1..(q - (n + 1)) : behind[i] = right[i]
  <2>1. eq + 1 \in 1..(Len(t) + 1) /\ Len(t) \in ((eq + 1) - 1)..Len(t) /\ Len(t) - (eq + 1) + 1 = q - (n + 1)
    BY <1>1, <1>4, <1>6
  <2>2. /\ behind \in Seq(C) /\ Len(behind) = Len(t) - (eq + 1) + 1
        /\ \A i \in 1..(Len(t) - (eq + 1) + 1) : behind[i] = t[(eq + 1) + i - 1]
    <3> DEFINE u == eq + 1
               m == Len(t)
    <3>1. t \in Seq(C) /\ u \in 1..(Len(t) + 1) /\ m \in (u - 1)..Len(t)
      BY <1>6, <2>1
    <3> HIDE DEF u, m
    <3>2. /\ SubSeq(t, u, m) \in Seq(C) /\ Len(SubSeq(t, u, m)) = m - u + 1
          /\ \A i \in 1..(m - u + 1) : SubSeq(t, u, m)[i] = t[u + i - 1]
      BY <3>1, PartIs
    <3> QED BY <3>2 DEF u, m
  <2>3. ASSUME NEW i \in 1..(q - (n + 1)) PROVE behind[i] = right[i]
    <3> DEFINE k == (eq + 1) + i - 1
    <3>1. k \in 1..(q - p + 1) /\ p + k - 1 = n + 1 + i /\ i \in 1..Len(right)
      BY <1>1, <1>2, <1>4
    <3>2. behind[i] = t[k]
      BY <2>1, <2>2
    <3> HIDE DEF k
    <3>3. t[k] = line[n + 1 + i] /\ line[n + 1 + i] = right[i]
      BY <1>2, <1>6, <3>1
    <3> QED BY <3>2, <3>3
  <2> HIDE DEF behind
  <2> QED BY <2>1, <2>2, <2>3
<1> HIDE DEF before, behind, eq
\* The key.
<1>10. /\ Trimmed(before) = key /\ (key = <<>> => p = n + 1)
       /\ (key # <<>> => p \in 1..n /\ key[1] = left[p])
  <2>1. CASE AllBlank(left)
    <3>1. p = n + 1
      <4>1. p \in 1..n => line[p] = left[p] /\ left[p] \in Blanks
        BY <1>2, <2>1 DEF AllBlank
      <4>2. line[p] \notin Blanks
        BY <1>3 DEF Spans
      <4> QED BY <1>1, <1>4, <4>1, <4>2
    <3>2. AllBlank(before)
      BY <1>1, <1>8, <3>1 DEF AllBlank
    <3>3. Trimmed(before) = <<>> /\ key = <<>>
      BY <1>8, <2>1, <3>2, TrimmedSpan
    <3> QED BY <3>1, <3>3
  <2>2. CASE ~AllBlank(left)
    <3>1. PICK u, v : Spans(left, u, v)
      BY <2>2, TrimmedSpan
    <3>2. u \in 1..n /\ v \in u..n
      BY <3>1 DEF Spans
    <3>3. p = u
      <4>1. line[u] = left[u] /\ left[u] \notin Blanks /\ u \in 1..Len(line)
        BY <1>1, <1>2, <3>1, <3>2 DEF Spans
      <4>2. p <= u
        BY <1>3, <1>4, <3>2, <4>1 DEF Spans
      <4>3. p \in 1..n
        BY <1>1, <1>4, <3>2, <4>2
      <4>4. left[p] \notin Blanks
        BY <1>2, <1>3, <4>3 DEF Spans
      <4>5. ~(p < u)
        BY <3>1, <4>3, <4>4 DEF Spans
      <4> QED BY <1>4, <3>2, <4>2, <4>5
    <3>4. Spans(before, 1, v - p + 1)
      <4> DEFINE w == v - p + 1
      <4>1. w \in 1..Len(before) /\ p + 1 - 1 = p /\ p + w - 1 = v /\ 1 \in 1..Len(before)
        BY <1>1, <1>4, <1>8, <3>2, <3>3
      <4>2. before[1] = left[p] /\ before[w] = left[v]
        <5>1. before[1] = left[p + 1 - 1]
          BY <1>8, <4>1
        <5>2. before[w] = left[p + w - 1]
          BY <1>8, <4>1
        <5> QED BY <4>1, <5>1, <5>2
      <4>3. \A j \in 1..Len(before) : j < 1 \/ j > w => before[j] \in Blanks
        <5> TAKE j \in 1..Len(before)
        <5>1. p + j - 1 \in 1..n /\ (j > w => p + j - 1 > v) /\ ~(j < 1)
          BY <1>1, <1>4, <1>8, <3>2, <3>3
        <5>2. before[j] = left[p + j - 1]
          BY <1>8
        <5>3. p + j - 1 > v => left[p + j - 1] \in Blanks
          BY <3>1, <5>1 DEF Spans
        <5> QED BY <5>1, <5>2, <5>3
      <4>4. left[p] \notin Blanks /\ left[v] \notin Blanks
        BY <3>1, <3>3 DEF Spans
      <4> QED BY <4>1, <4>2, <4>3, <4>4 DEF Spans
    <3>5. Trimmed(before) = key
      <4> DEFINE w == v - p + 1
      <4>1. w - 1 = v - u
        BY <1>4, <3>2, <3>3
      <4>2. ASSUME NEW i \in 0..(w - 1) PROVE before[1 + i] = left[u + i]
        <5>1. 1 + i \in 1..(n + 1 - p) /\ p + (1 + i) - 1 = u + i
          BY <1>4, <3>2, <3>3
        <5> QED BY <1>8, <5>1
      <4> HIDE DEF w
      <4>3. Spans(before, 1, w)
        BY <3>4 DEF w
      <4> QED BY <1>8, <3>1, <4>1, <4>2, <4>3, SameSpan
    <3>6. key # <<>> /\ key[1] = left[p]
      <4>1. key = SubSeq(left, p, v)
        BY <3>1, <3>3, TrimmedSpan
      <4>2. /\ Len(SubSeq(left, p, v)) = v - p + 1
            /\ \A i \in 1..(v - p + 1) : SubSeq(left, p, v)[i] = left[p + i - 1]
        BY <1>1, <3>2, <3>3, PartIs
      <4>3. 1 \in 1..(v - p + 1) /\ p + 1 - 1 = p
        BY <1>1, <1>4, <3>2, <3>3
      <4>4. SubSeq(left, p, v)[1] = left[p] /\ Len(SubSeq(left, p, v)) # 0
        <5> DEFINE part == SubSeq(left, p, v)
                   w == v - p + 1
        <5>1. w \in Nat /\ w # 0
          BY <1>1, <1>4, <3>2, <3>3
        <5> HIDE DEF part, w
        <5>2. Len(part) = w /\ \A i \in 1..w : part[i] = left[p + i - 1]
          BY <4>2 DEF part, w
        <5>3. part[1] = left[p + 1 - 1]
          BY <5>1, <5>2
        <5>4. part[1] = left[p]
          BY <4>3, <5>3
        <5>5. Len(part) # 0
          BY <5>1, <5>2
        <5> QED BY <5>4, <5>5 DEF part
      <4>5. Len(<<>>) = 0
        OBVIOUS
      <4> QED BY <4>1, <4>4, <4>5, Zenon
    <3> QED BY <3>2, <3>3, <3>5, <3>6
  <2> QED BY <2>1, <2>2
\* The value.
<1>11. /\ Trimmed(behind) = value /\ (value = <<>> => q = n + 1)
       /\ (value # <<>> => q - (n + 1) \in 1..Len(right) /\ Last(value) = right[q - (n + 1)])
  <2>1. CASE AllBlank(right)
    <3>1. q = n + 1
      <4> DEFINE k == q - (n + 1)
      <4>1. k \in 1..Len(right) => line[n + 1 + k] = right[k] /\ right[k] \in Blanks
        BY <1>2, <2>1 DEF AllBlank
      <4>2. line[q] \notin Blanks
        BY <1>3 DEF Spans
      <4>3. n + 1 + k = q /\ (q # n + 1 => k \in 1..Len(right))
        BY <1>1, <1>2, <1>4
      <4> QED BY <4>1, <4>2, <4>3
    <3>2. AllBlank(behind)
      BY <1>1, <1>9, <3>1 DEF AllBlank
    <3>3. Trimmed(behind) = <<>> /\ value = <<>>
      BY <1>9, <2>1, <3>2, TrimmedSpan
    <3> QED BY <3>1, <3>3
  <2>2. CASE ~AllBlank(right)
    <3>1. PICK u, v : Spans(right, u, v)
      BY <2>2, TrimmedSpan
    <3>2. v \in 1..Len(right) /\ u \in 1..v
      BY <1>1, <3>1 DEF Spans
    <3>3. q = n + 1 + v
      <4>1. line[n + 1 + v] = right[v] /\ right[v] \notin Blanks /\ n + 1 + v \in 1..Len(line)
        BY <1>1, <1>2, <3>1, <3>2 DEF Spans
      <4>2. n + 1 + v <= q
        BY <1>3, <1>4, <3>2, <4>1 DEF Spans
      <4> DEFINE k == q - (n + 1)
      <4>3. k \in 1..Len(right) /\ n + 1 + k = q
        BY <1>1, <1>2, <1>4, <3>2, <4>2
      <4>4. right[k] \notin Blanks
        <5>1. line[q] \notin Blanks
          BY <1>3 DEF Spans
        <5>2. line[n + 1 + k] = right[k]
          BY <1>2, <4>3
        <5> QED BY <4>3, <5>1, <5>2
      <4> HIDE DEF k
      <4>5. ~(k > v)
        BY <3>1, <4>3, <4>4 DEF Spans
      <4> QED BY <1>1, <3>2, <4>2, <4>3, <4>5
    <3>4. q - (n + 1) = v
      BY <1>1, <3>2, <3>3
    <3>5. Spans(behind, u, v)
      <4>1. Len(behind) = v /\ u \in 1..Len(behind) /\ v \in u..Len(behind)
        BY <1>9, <3>2, <3>4
      <4>2. \A j \in 1..v : behind[j] = right[j] /\ j \in 1..Len(right)
        BY <1>1, <1>9, <3>2, <3>4
      <4>3. behind[u] \notin Blanks /\ behind[v] \notin Blanks
        BY <3>1, <3>2, <4>2 DEF Spans
      <4>4. \A j \in 1..Len(behind) : j < u \/ j > v => behind[j] \in Blanks
        BY <3>1, <3>2, <4>1, <4>2 DEF Spans
      <4> QED BY <4>1, <4>3, <4>4 DEF Spans
    <3>6. Trimmed(behind) = value
      <4>1. ASSUME NEW i \in 0..(v - u) PROVE behind[u + i] = right[u + i]
        <5>1. u + i \in 1..(q - (n + 1))
          BY <3>2, <3>4
        <5> QED BY <1>9, <5>1
      <4> QED BY <1>9, <3>1, <3>5, <4>1, SameSpan
    <3>7. value # <<>> /\ Last(value) = right[v]
      <4>1. value = SubSeq(right, u, v)
        BY <3>1, TrimmedSpan
      <4>2. /\ Len(SubSeq(right, u, v)) = v - u + 1
            /\ \A i \in 1..(v - u + 1) : SubSeq(right, u, v)[i] = right[u + i - 1]
        BY <1>1, <3>2, PartIs
      <4>3. v - u + 1 \in 1..(v - u + 1) /\ u + (v - u + 1) - 1 = v
        BY <1>1, <3>2
      <4>4. SubSeq(right, u, v)[v - u + 1] = right[v] /\ Len(SubSeq(right, u, v)) # 0
        <5> DEFINE part == SubSeq(right, u, v)
                   w == v - u + 1
        <5>1. w \in Nat /\ w # 0 /\ u + w - 1 = v
          BY <1>1, <3>2
        <5> HIDE DEF part, w
        <5>2. Len(part) = w /\ \A i \in 1..w : part[i] = right[u + i - 1]
          BY <4>2 DEF part, w
        <5>3. part[w] = right[u + w - 1]
          BY <5>1, <5>2
        <5>4. part[w] = right[v]
          BY <5>1, <5>3
        <5>5. Len(part) # 0
          BY <5>1, <5>2
        <5> QED BY <5>4, <5>5 DEF part, w
      <4>5. Len(<<>>) = 0
        OBVIOUS
      <4>6. Last(SubSeq(right, u, v)) = right[v]
        BY <4>2, <4>4, Zenon DEF Last
      <4> QED BY <4>1, <4>4, <4>5, <4>6, Zenon
    <3> QED BY <3>2, <3>4, <3>6, <3>7
  <2> QED BY <2>1, <2>2
\* The turn.
<1>12. /\ t # <<>> /\ t[1] = line[p] /\ Last(t) = line[q]
  <2>1. 1 \in 1..(q - p + 1) /\ p + 1 - 1 = p /\ q - p + 1 \in 1..(q - p + 1) /\ p + (q - p + 1) - 1 = q
    BY <1>1, <1>4
  <2>2. t[1] = line[p] /\ t[q - p + 1] = line[q]
    BY <1>6, <2>1
  <2>3. Len(t) # 0 /\ Len(<<>>) = 0
    BY <1>6, <2>1
  <2>4. t # <<>>
    BY <2>3, Zenon
  <2>5. Last(t) = t[q - p + 1]
    BY <1>6, Zenon DEF Last
  <2> QED BY <2>2, <2>4, <2>5
<1>13. t[1] \notin CommentMarks
  <2>1. CASE key = <<>>
    BY <1>2, <1>10, <1>12, <2>1
  <2>2. CASE key # <<>>
    <3>1. t[1] = key[1]
      BY <1>2, <1>10, <1>12, <2>2
    <3> QED BY <2>2, <3>1, Zenon DEF Entries
  <2> QED BY <2>1, <2>2
<1>14. ~(t[1] = "[" /\ Last(t) = "]")
  <2>1. CASE key = <<>>
    <3>1. t[1] = "="
      BY <1>2, <1>10, <1>12, <2>1
    <3> QED BY <3>1
  <2>2. CASE value = <<>>
    <3>1. Last(t) = "="
      BY <1>2, <1>11, <1>12, <2>2
    <3> QED BY <3>1
  <2>3. CASE key # <<>> /\ value # <<>>
    <3>1. t[1] = key[1]
      BY <1>2, <1>10, <1>12, <2>3
    <3>2. Last(t) = Last(value)
      <4> DEFINE k == q - (n + 1)
      <4>1. k \in 1..Len(right) /\ Last(value) = right[k]
        BY <1>11, <2>3
      <4>2. n + 1 + k = q
        BY <1>1, <1>4
      <4> HIDE DEF k
      <4>3. line[q] = right[k]
        BY <1>2, <4>1, <4>2
      <4> QED BY <1>12, <4>1, <4>3
    <3> QED BY <2>3, <3>1, <3>2, Zenon DEF Entries
  <2> QED BY <2>1, <2>2, <2>3
<1>15. eq # 0
  BY <1>1, <1>4 DEF eq
<1> DEFINE e == IniEvent(line, t, eq, Len(st.events), st.section)
<1>16. IniTurn(st, line) = [st EXCEPT !.events = Append(@, e)]
  BY <1>5, <1>7, <1>12, <1>13, <1>14, <1>15, Zenon DEF IniTurn
<1>17. Entry(e, Len(st.events), st.section, key, value)
  <2>1. Entry(e, Len(st.events), st.section, Trimmed(before), Trimmed(behind))
    BY IniEventIs DEF before, behind
  <2> QED BY <1>10, <1>11, <2>1, Zenon
<1> HIDE DEF e
<1> QED BY <1>16, <1>17 DEF line

\* Blanks around a text make no difference when it is trimmed.
LEMMA Padded ==
  ASSUME NEW C, NEW l \in Seq(C), NEW s \in Seq(C), NEW r \in Seq(C), AllBlank(l), AllBlank(r)
  PROVE  Trimmed(l \o s \o r) = Trimmed(s)
<1> DEFINE n == Len(l)
           m == Len(s)
           some == l \o s
           all == some \o r
<1>1. n \in Nat /\ m \in Nat /\ Len(r) \in Nat
  OBVIOUS
<1>2. /\ some \in Seq(C) /\ Len(some) = n + m
      /\ \A j \in 1..(n + m) : some[j] = IF j <= n THEN l[j] ELSE s[j - n]
  BY ConcatProperties
<1> HIDE DEF some
<1>3. /\ all \in Seq(C) /\ Len(all) = Len(some) + Len(r)
      /\ \A j \in 1..Len(some) + Len(r) :
           all[j] = IF j <= Len(some) THEN some[j] ELSE r[j - Len(some)]
  <2>1. some \in Seq(C)
    BY <1>2
  <2> QED BY <2>1, ConcatProperties
<1> HIDE DEF all
<1>4. Len(all) = n + m + Len(r)
  BY <1>2, <1>3
<1>5. \A j \in 1..Len(all) : j <= n \/ j > n + m => all[j] \in Blanks
  <2> TAKE j \in 1..Len(all)
  <2>1. CASE j <= n
    <3>1. j \in 1..n /\ j \in 1..(n + m) /\ j \in 1..Len(some) + Len(r) /\ j <= Len(some)
      BY <1>1, <1>2, <1>4, <2>1
    <3>2. all[j] = some[j]
      BY <1>3, <3>1
    <3>3. some[j] = l[j]
      BY <1>2, <2>1, <3>1
    <3> QED BY <3>1, <3>2, <3>3 DEF AllBlank
  <2>2. CASE j > n + m
    <3>1. j - (n + m) \in 1..Len(r) /\ all[j] = r[j - (n + m)]
      BY <1>1, <1>2, <1>3, <1>4, <2>2
    <3> QED BY <3>1 DEF AllBlank
  <2> QED BY <2>1, <2>2
<1>6. \A j \in 1..m : n + j \in 1..Len(all) /\ all[n + j] = s[j]
  <2> TAKE j \in 1..m
  <2>1. n + j \in 1..Len(some) /\ ~(n + j <= n) /\ (n + j) - n = j /\ n + j <= Len(some)
    BY <1>1, <1>2
  <2>2. some[n + j] = s[j]
    BY <1>2, <2>1
  <2>3. n + j \in 1..Len(some) + Len(r)
    BY <1>1, <2>1
  <2> QED BY <1>3, <2>1, <2>2, <2>3
<1>7. CASE AllBlank(s)
  <2>1. AllBlank(all)
    <3> SUFFICES ASSUME NEW j \in 1..Len(all) PROVE all[j] \in Blanks
      BY DEF AllBlank
    <3>1. CASE j <= n \/ j > n + m
      BY <1>5, <3>1
    <3>2. CASE ~(j <= n \/ j > n + m)
      <4> DEFINE k == j - n
      <4>1. k \in 1..m /\ n + k = j
        BY <1>1, <1>4, <3>2
      <4> HIDE DEF k
      <4> QED BY <1>6, <1>7, <4>1 DEF AllBlank
    <3> QED BY <3>1, <3>2
  <2> QED BY <1>3, <1>7, <2>1, TrimmedSpan DEF all, some
<1>8. CASE ~AllBlank(s)
  <2>1. PICK u, v : Spans(s, u, v)
    BY <1>8, TrimmedSpan
  <2>2. u \in 1..m /\ v \in u..m
    BY <2>1 DEF Spans
  <2>3. Spans(all, n + u, n + v)
    <3>1. n + u \in 1..Len(all) /\ n + v \in (n + u)..Len(all)
      BY <1>1, <1>4, <2>2
    <3>2. all[n + u] = s[u] /\ all[n + v] = s[v]
      BY <1>1, <1>6, <2>2
    <3>3. \A j \in 1..Len(all) : j < n + u \/ j > n + v => all[j] \in Blanks
      <4> TAKE j \in 1..Len(all)
      <4>1. CASE j <= n \/ j > n + m
        BY <1>5, <4>1
      <4>2. CASE ~(j <= n \/ j > n + m)
        <5> DEFINE k == j - n
        <5>1. k \in 1..m /\ n + k = j /\ (j < n + u => k < u) /\ (j > n + v => k > v)
          BY <1>1, <1>4, <2>2, <4>2
        <5> HIDE DEF k
        <5>2. k < u \/ k > v => s[k] \in Blanks
          BY <2>1, <5>1 DEF Spans
        <5> QED BY <1>6, <5>1, <5>2
      <4> QED BY <4>1, <4>2
    <3> QED BY <2>1, <3>1, <3>2, <3>3 DEF Spans
  <2>4. ASSUME NEW i \in 0..(v - u) PROVE s[u + i] = all[(n + u) + i]
    <3>1. u + i \in 1..m /\ n + (u + i) = (n + u) + i
      BY <1>1, <2>2
    <3>2. all[n + (u + i)] = s[u + i]
      BY <1>6, <3>1
    <3> QED BY <3>1, <3>2
  <2>5. (n + v) - (n + u) = v - u
    BY <1>1, <2>2
  <2> DEFINE u1 == n + u
             v1 == n + v
  <2> HIDE DEF u1, v1
  <2>6. /\ Spans(all, u1, v1) /\ v - u = v1 - u1 /\ \A i \in 0..(v - u) : s[u + i] = all[u1 + i]
    BY <2>3, <2>4, <2>5 DEF u1, v1
  <2>7. Trimmed(s) = Trimmed(all)
    BY <1>3, <2>1, <2>6, SameSpan
  <2> QED BY <2>7 DEF all, some
<1> QED BY <1>7, <1>8

\* A line of a section's header.
HeaderLine(line, section) ==
  /\ Len(line) >= Len(section) + 2 /\ line[1] = "[" /\ line[Len(section) + 2] = "]"
  /\ \A j \in 1..Len(section) : line[1 + j] = section[j]
  /\ \A j \in 1..Len(line) : j > Len(section) + 2 => line[j] \in Blanks

\* A section's name in brackets, with blanks behind at most, is a header.
LEMMA HeaderLines ==
  ASSUME NEW C, NEW section \in Seq(C), "[" \in C, NEW end \in Seq(C), Len(end) >= 1, end[1] = "]",
         \A j \in 1..Len(end) : j > 1 => end[j] \in Blanks
  PROVE  HeaderLine(<<"[">> \o section \o end, section) /\ <<"[">> \o section \o end \in Seq(C)
<1> DEFINE n == Len(section)
           begin == <<"[">>
           some == begin \o section
           line == some \o end
<1>1. n \in Nat /\ Len(end) \in Nat /\ begin \in Seq(C) /\ Len(begin) = 1 /\ begin[1] = "["
  OBVIOUS
<1> HIDE DEF begin
<1>2. /\ some \in Seq(C) /\ Len(some) = Len(begin) + n
      /\ \A j \in 1..Len(begin) + n : some[j] = IF j <= Len(begin) THEN begin[j] ELSE section[j - Len(begin)]
  BY <1>1, ConcatProperties
<1> HIDE DEF some
<1>3. /\ line \in Seq(C) /\ Len(line) = Len(some) + Len(end)
      /\ \A j \in 1..Len(some) + Len(end) :
           line[j] = IF j <= Len(some) THEN some[j] ELSE end[j - Len(some)]
  BY <1>2, ConcatProperties
<1> HIDE DEF line
<1>4. Len(line) >= n + 2 /\ line[1] = "[" /\ line[n + 2] = "]"
  BY <1>1, <1>2, <1>3
<1>5. ASSUME NEW j \in 1..n PROVE line[1 + j] = section[j]
  <2>1. 1 + j \in 1..Len(some) /\ ~(1 + j <= Len(begin)) /\ (1 + j) - Len(begin) = j
    BY <1>1, <1>2
  <2> QED BY <1>1, <1>2, <1>3, <2>1
<1>6. ASSUME NEW j \in 1..Len(line), j > n + 2 PROVE line[j] \in Blanks
  <2>1. ~(j <= Len(some)) /\ j - Len(some) \in 1..Len(end) /\ j - Len(some) > 1
    BY <1>1, <1>2, <1>3, <1>6
  <2>2. line[j] = end[j - Len(some)]
    BY <1>3, <2>1
  <2> QED BY <2>1, <2>2
<1>7. HeaderLine(line, section)
  BY <1>4, <1>5, <1>6 DEF HeaderLine
<1> QED BY <1>3, <1>7 DEF line, some, begin

\* A header begins its section (parse_ini_events).
LEMMA HeaderTurn ==
  ASSUME NEW C, NEW section \in Seq(C), NEW line \in Seq(C), HeaderLine(line, section),
         "[" \notin Blanks, "]" \notin Blanks, "[" \notin CommentMarks, NEW st
  PROVE  IniTurn(st, line) = [st EXCEPT !.section = section]
<1> DEFINE n == Len(section)
           q == n + 2
           t == SubSeq(line, 1, q)
           name == SubSeq(t, 2, Len(t) - 1)
<1>1. n \in Nat /\ Len(line) \in Nat /\ n + 2 <= Len(line)
  BY DEF HeaderLine
<1>2. Spans(line, 1, q)
  <2>1. 1 \in 1..Len(line) /\ q \in 1..Len(line)
    BY <1>1
  <2>2. line[1] \notin Blanks /\ line[q] \notin Blanks
    BY DEF HeaderLine
  <2>3. \A j \in 1..Len(line) : j < 1 \/ j > q => line[j] \in Blanks
    BY DEF HeaderLine
  <2> QED BY <2>1, <2>2, <2>3 DEF Spans
<1>3. Trimmed(line) = t
  BY <1>2, TrimmedSpan
<1>4. t \in Seq(C) /\ Len(t) = n + 2 /\ \A i \in 1..(n + 2) : t[i] = line[i]
  <2>1. 1 \in 1..(Len(line) + 1) /\ q \in (1 - 1)..Len(line) /\ q - 1 + 1 = n + 2
    BY <1>1
  <2>2. t \in Seq(C) /\ Len(t) = q - 1 + 1 /\ \A i \in 1..(q - 1 + 1) : t[i] = line[1 + i - 1]
    <3> HIDE DEF q
    <3> QED BY <2>1, PartIs
  <2> HIDE DEF t
  <2>3. \A i \in 1..(n + 2) : 1 + i - 1 = i
    BY <1>1
  <2> QED BY <2>1, <2>2, <2>3
<1> HIDE DEF t
<1>5. t[1] = "[" /\ Last(t) = "]" /\ t # <<>>
  <2>1. 1 \in 1..(n + 2) /\ n + 2 \in 1..(n + 2)
    BY <1>1
  <2>2. t[1] = "[" /\ t[n + 2] = "]"
    BY <1>4, <2>1 DEF HeaderLine
  <2>3. Last(t) = t[n + 2]
    BY <1>4, Zenon DEF Last
  <2>4. Len(t) # 0 /\ Len(<<>>) = 0
    BY <1>1, <1>4
  <2>5. t # <<>>
    BY <2>4, Zenon
  <2> QED BY <2>2, <2>3, <2>5
<1>6. name = section
  <2>1. 2 \in 1..(Len(t) + 1) /\ Len(t) - 1 \in (2 - 1)..Len(t) /\ (Len(t) - 1) - 2 + 1 = n
    BY <1>1, <1>4
  <2> DEFINE v == Len(t) - 1
  <2> HIDE DEF v
  <2>2. /\ SubSeq(t, 2, v) \in Seq(C) /\ Len(SubSeq(t, 2, v)) = v - 2 + 1
        /\ \A i \in 1..(v - 2 + 1) : SubSeq(t, 2, v)[i] = t[2 + i - 1]
    BY <1>4, <2>1, PartIs DEF v
  <2>3. name \in Seq(C) /\ Len(name) = n /\ \A i \in 1..n : name[i] = t[2 + i - 1]
    BY <2>1, <2>2 DEF v
  <2> HIDE DEF name
  <2>4. \A i \in 1..Len(name) : name[i] = section[i]
    <3> TAKE i \in 1..Len(name)
    <3>1. i \in 1..n /\ 2 + i - 1 = 1 + i /\ 1 + i \in 1..(n + 2)
      BY <1>1, <2>3
    <3>2. t[1 + i] = line[1 + i] /\ line[1 + i] = section[i]
      BY <1>4, <3>1 DEF HeaderLine
    <3> QED BY <2>3, <3>1, <3>2
  <2> QED BY <2>3, <2>4, SeqEqual
<1>7. t[1] \notin CommentMarks
  BY <1>5
<1> QED BY <1>3, <1>5, <1>6, <1>7, Zenon DEF IniTurn, name

\* A line that begins with the mark of a comment changes nothing (parse_ini_events), nor
\* does one that has no equals sign and is no header.
LEMMA OtherTurn ==
  ASSUME NEW C, NEW line \in Seq(C), Len(line) >= 1, line[1] \notin Blanks, NEW st,
         \/ line[1] \in CommentMarks
         \/ line[1] # "[" /\ \A j \in 1..Len(line) : line[j] # "="
  PROVE  IniTurn(st, line) = st
<1>1. Len(line) \in Nat /\ 1 \in 1..Len(line)
  OBVIOUS
<1>2. PICK p, q : Spans(line, p, q)
  <2>1. ~AllBlank(line)
    BY <1>1 DEF AllBlank
  <2> QED BY <2>1, TrimmedSpan
<1>3. p = 1 /\ q \in 1..Len(line)
  BY <1>1, <1>2 DEF Spans
<1> DEFINE t == SubSeq(line, 1, q)
<1>4. Trimmed(line) = t
  BY <1>2, <1>3, TrimmedSpan
<1>5. t \in Seq(C) /\ Len(t) = q /\ \A i \in 1..q : t[i] = line[i]
  <2>1. 1 \in 1..(Len(line) + 1) /\ q \in (1 - 1)..Len(line) /\ q - 1 + 1 = q
    BY <1>1, <1>3
  <2>2. t \in Seq(C) /\ Len(t) = q - 1 + 1 /\ \A i \in 1..(q - 1 + 1) : t[i] = line[1 + i - 1]
    BY <2>1, PartIs
  <2> HIDE DEF t
  <2>3. \A i \in 1..q : 1 + i - 1 = i
    BY <1>3
  <2> QED BY <2>1, <2>2, <2>3
<1> HIDE DEF t
<1>6. t[1] = line[1]
  BY <1>3, <1>5
<1>7. CASE line[1] \in CommentMarks
  BY <1>4, <1>6, <1>7, Zenon DEF IniTurn
<1>8. CASE line[1] # "[" /\ \A j \in 1..Len(line) : line[j] # "="
  <2>1. \A j \in 1..Len(t) : t[j] # "="
    BY <1>1, <1>3, <1>5, <1>8
  <2>2. EqualsAt(t) = 0
    BY <1>5, <2>1, EqualsAtIs
  <2>3. t[1] # "["
    BY <1>6, <1>8
  <2> QED BY <1>4, <2>2, <2>3, Zenon DEF IniTurn
<1> QED BY <1>7, <1>8

\* The sections there may be after some of the lines, and the events.
SomeSections(lines) ==
  {<<>>} \cup {SubSeq(Trimmed(lines[i]), 2, Len(Trimmed(lines[i])) - 1) : i \in 1..Len(lines)}
SomeEntries(lines) ==
  {IniEvent(lines[i], Trimmed(lines[i]), EqualsAt(Trimmed(lines[i])), ordinal, section) :
     i \in 1..Len(lines), ordinal \in Nat, section \in SomeSections(lines)}

\* The loop of parse_ini_events, line after line.
LEMMA IniLoop ==
  ASSUME NEW C, NEW lines \in Seq(C)
  PROVE  /\ IniAfter(lines, 0) = IniStart
         /\ \A i \in 1..Len(lines) : IniAfter(lines, i) = IniTurn(IniAfter(lines, i - 1), lines[i])
<1> DEFINE n == Len(lines)
           D == 0..n
           Q == SomeSections(lines)
           E == SomeEntries(lines)
           V == [section : Q, events : Seq(E)]
           first == IniStart
           turn(v, i) == IF i = 0 THEN first ELSE IniTurn(v, lines[i])
           step == [p \in V \X D |-> turn(p[1], p[2])]
           turns(f) == [i \in 0..n |-> IF i = 0 THEN first ELSE IniTurn(f[i - 1], lines[i])]
           f == CHOOSE h : h = turns(h)
<1>1. n \in Nat /\ 0 \in D /\ \A i \in 1..n : i - 1 \in D /\ i \in D \ {0}
  OBVIOUS
<1>2. first \in V
  <2>1. <<>> \in Q
    BY DEF SomeSections
  <2> HIDE DEF Q, E
  <2> QED BY <2>1 DEF IniStart
<1>3. \A v \in V : \A i \in 1..n : IniTurn(v, lines[i]) \in V
  <2> SUFFICES ASSUME NEW v \in V, NEW i \in 1..n PROVE IniTurn(v, lines[i]) \in V
    OBVIOUS
  <2> DEFINE t == Trimmed(lines[i])
             name == SubSeq(t, 2, Len(t) - 1)
             e == IniEvent(lines[i], t, EqualsAt(t), Len(v.events), v.section)
  <2>1. v.section \in Q /\ v.events \in Seq(E) /\ Len(v.events) \in Nat
    OBVIOUS
  <2>2. name \in Q
    BY DEF SomeSections
  <2>3. e \in E
    BY <2>1 DEF SomeEntries
  <2> HIDE DEF name, e, Q, E
  <2>4. Append(v.events, e) \in Seq(E)
    BY <2>1, <2>3, AppendProperties
  <2>5. [v EXCEPT !.section = name] \in V /\ [v EXCEPT !.events = Append(@, e)] \in V
    BY <2>2, <2>4
  <2>6. \/ IniTurn(v, lines[i]) = v
        \/ IniTurn(v, lines[i]) = [v EXCEPT !.section = name]
        \/ IniTurn(v, lines[i]) = [v EXCEPT !.events = Append(@, e)]
    BY Zenon DEF IniTurn, name, e
  <2> HIDE DEF V
  <2> QED BY <2>5, <2>6
<1> HIDE DEF Q, E
<1>4. step \in [V \X D -> V]
  <2>1. ASSUME NEW v \in V, NEW i \in D PROVE turn(v, i) \in V
    <3>1. i # 0 => i \in 1..n
      BY <1>1
    <3> HIDE DEF V, first
    <3> QED BY <1>2, <1>3, <3>1
  <2> HIDE DEF turn, V, D
  <2> QED BY <2>1
<1>5. PICK g \in [D -> V] : Loop(g, D, first, step)
  <2>1. D \in Counts
    BY <1>1, CountsAre
  <2> HIDE DEF step, D, V, first
  <2> QED BY <1>2, <1>4, <2>1, LoopExists
<1>6. ASSUME NEW i \in D \ {0} PROVE g[i] = IniTurn(g[i - 1], lines[i])
  <2>1. i - 1 \in D
    BY <1>1
  <2>2. step[<<g[i - 1], i>>] = turn(g[i - 1], i)
    <3> HIDE DEF turn, V
    <3> QED BY <2>1
  <2>3. turn(g[i - 1], i) = IniTurn(g[i - 1], lines[i])
    OBVIOUS
  <2> HIDE DEF step, V, D, turn, first
  <2> QED BY <1>5, <2>2, <2>3 DEF Loop
<1>7. g = turns(g)
  <2>1. g[0] = first
    BY <1>5 DEF Loop
  <2> HIDE DEF first, V
  <2> QED BY <1>6, <2>1
<1>8. f = turns(f)
  <2> HIDE DEF turns
  <2> QED BY <1>7
<1>9. \A k \in D : IniAfter(lines, k) = f[k]
  BY DEF IniAfter
<1> HIDE DEF f
<1>10. f[0] = first /\ \A i \in 1..n : f[i] = IniTurn(f[i - 1], lines[i])
  <2> HIDE DEF first, V
  <2>1. \A i \in 1..n : i \in 0..n /\ i # 0
    BY <1>1
  <2> QED BY <1>1, <1>8, <2>1
<1>11. \A i \in 1..n : i - 1 \in 0..n /\ i \in 0..n
  BY <1>1
<1> HIDE DEF V, first, n
<1> QED BY <1>1, <1>9, <1>10, <1>11 DEF first, n

\* The marks of the format are no blanks, and only one of them begins a comment.
Marks ==
  /\ "=" \notin Blanks /\ "[" \notin Blanks /\ "]" \notin Blanks /\ "#" \notin Blanks /\ "x" \notin Blanks
  /\ "=" \notin CommentMarks /\ "[" \notin CommentMarks /\ "#" \in CommentMarks

LEMMA MarksHold == Marks
<1>1. "=" # Blank /\ "[" # Blank /\ "]" # Blank /\ "#" # Blank /\ "x" # Blank
  BY Zenon DEF Blank
<1>2. "=" # Return /\ "[" # Return /\ "]" # Return /\ "#" # Return /\ "x" # Return
  BY DEF Return
<1>3. "=" \notin CommentMarks /\ "[" \notin CommentMarks /\ "#" \in CommentMarks
  BY Zenon DEF CommentMarks
<1> QED BY <1>1, <1>2, <1>3 DEF Marks, Blanks

\* One text after another.
Joined(s, t) == s \o t

LEMMA JoinedIs ==
  ASSUME NEW C
  PROVE  \A s, t, u \in Seq(C) :
           Joined(Joined(s, t), u) = Joined(s, Joined(t, u)) /\ Joined(s, t) \in Seq(C)
<1> TAKE s \in Seq(C), t \in Seq(C), u \in Seq(C)
<1>1. (s \o t) \o u = s \o (t \o u)
  BY ConcatAssociative
<1>2. s \o t \in Seq(C)
  OBVIOUS
<1> QED BY <1>1, <1>2 DEF Joined

\* Five texts after each other.
LEMMA Regrouped ==
  ASSUME NEW C, NEW s \in Seq(C), NEW t \in Seq(C), NEW u \in Seq(C), NEW v \in Seq(C), NEW w \in Seq(C)
  PROVE  Joined(Joined(s, Joined(Joined(t, u), v)), w) = Joined(Joined(Joined(s, t), u), Joined(v, w))
<1>1. Joined(t, u) \in Seq(C) /\ Joined(s, t) \in Seq(C) /\ Joined(Joined(s, t), u) \in Seq(C)
  BY JoinedIs
<1>2. Joined(Joined(s, Joined(t, u)), v) = Joined(s, Joined(Joined(t, u), v))
  BY <1>1, JoinedIs
<1>3. Joined(Joined(s, t), u) = Joined(s, Joined(t, u))
  BY JoinedIs
<1>4. Joined(Joined(Joined(Joined(s, t), u), v), w) = Joined(Joined(Joined(s, t), u), Joined(v, w))
  BY <1>1, JoinedIs
<1> QED BY <1>2, <1>3, <1>4, Zenon

\* The parts of the text that IniEntriesReadBack writes, line by line.
EntryLines(section, key, value) ==
  <<<<"[">> \o section \o <<"]">>, <<"#", "=">> \o value,
    <<Blank>> \o key \o <<Blank, "=", Blank>> \o value, <<"x">>,
    <<"[">> \o value \o <<"]", Blank>>, key \o <<"=">>>>

\* What the lines do: the first and the fifth begin sections, the third and the sixth are
\* entries, and the others change nothing.
LinesTurn(lines, st, section, key, value) ==
  /\ IniTurn(st, lines[1]) = [st EXCEPT !.section = section]
  /\ IniTurn(st, lines[2]) = st
  /\ \E e : /\ IniTurn(st, lines[3]) = [st EXCEPT !.events = Append(@, e)]
            /\ Entry(e, Len(st.events), st.section, key, value)
  /\ IniTurn(st, lines[4]) = st
  /\ IniTurn(st, lines[5]) = [st EXCEPT !.section = value]
  /\ \E e : /\ IniTurn(st, lines[6]) = [st EXCEPT !.events = Append(@, e)]
            /\ Entry(e, Len(st.events), st.section, key, <<>>)

LEMMA EntryLinesTurn ==
  ASSUME NEW C, {"=", "[", "]", "#", "x", Blank} \subseteq C,
         NEW section \in Seq(C), NEW key \in Seq(C), NEW value \in Seq(C),
         Trimmed(key) = key, Trimmed(value) = value, NoEquals(key), Entries(key, value), NEW st
  PROVE  /\ EntryLines(section, key, value) \in Seq(Seq(C))
         /\ Len(EntryLines(section, key, value)) = 6
         /\ LinesTurn(EntryLines(section, key, value), st, section, key, value)
<1> DEFINE W == Seq(C)
           l1 == <<"[">> \o section \o <<"]">>
           l2 == <<"#", "=">> \o value
           l3 == <<Blank>> \o key \o <<Blank, "=", Blank>> \o value
           l4 == <<"x">>
           l5 == <<"[">> \o value \o <<"]", Blank>>
           l6 == key \o <<"=">>
           lines == EntryLines(section, key, value)
<1>0. /\ "=" \in C /\ "[" \in C /\ "]" \in C /\ "#" \in C /\ "x" \in C /\ Blank \in C
      /\ Blank \in Blanks
  BY DEF Blanks
<1>1. l1 \in W /\ IniTurn(st, l1) = [st EXCEPT !.section = section]
  <2> DEFINE end == <<"]">>
  <2>1. end \in Seq(C) /\ Len(end) >= 1 /\ end[1] = "]" /\ \A j \in 1..Len(end) : j > 1 => end[j] \in Blanks
    BY <1>0
  <2> HIDE DEF end
  <2>2. HeaderLine(<<"[">> \o section \o end, section) /\ <<"[">> \o section \o end \in Seq(C)
    BY <1>0, <2>1, HeaderLines
  <2>3. HeaderLine(l1, section) /\ l1 \in Seq(C)
    BY <2>2 DEF end
  <2> HIDE DEF l1
  <2>4. "[" \notin Blanks /\ "]" \notin Blanks /\ "[" \notin CommentMarks
    BY MarksHold DEF Marks
  <2> QED BY <2>3, <2>4, HeaderTurn
<1>2. l5 \in W /\ IniTurn(st, l5) = [st EXCEPT !.section = value]
  <2> DEFINE end == <<"]", Blank>>
  <2>1. end \in Seq(C) /\ Len(end) >= 1 /\ end[1] = "]" /\ \A j \in 1..Len(end) : j > 1 => end[j] \in Blanks
    BY <1>0
  <2> HIDE DEF end
  <2>2. HeaderLine(<<"[">> \o value \o end, value) /\ <<"[">> \o value \o end \in Seq(C)
    BY <1>0, <2>1, HeaderLines
  <2>3. HeaderLine(l5, value) /\ l5 \in Seq(C)
    BY <2>2 DEF end
  <2> HIDE DEF l5
  <2>4. "[" \notin Blanks /\ "]" \notin Blanks /\ "[" \notin CommentMarks
    BY MarksHold DEF Marks
  <2> QED BY <2>3, <2>4, HeaderTurn
<1>3. l2 \in W /\ IniTurn(st, l2) = st
  <2> DEFINE begin == <<"#", "=">>
  <2>1. begin \in Seq(C) /\ Len(begin) = 2 /\ begin[1] = "#"
    BY <1>0
  <2> HIDE DEF begin
  <2>2. /\ begin \o value \in Seq(C) /\ Len(begin \o value) = Len(begin) + Len(value)
        /\ \A i \in 1..Len(begin) + Len(value) :
             (begin \o value)[i] = IF i <= Len(begin) THEN begin[i] ELSE value[i - Len(begin)]
    BY <2>1, ConcatProperties
  <2>3. l2 \in Seq(C) /\ Len(l2) >= 1 /\ l2[1] = "#"
    BY <2>1, <2>2 DEF begin
  <2> HIDE DEF l2
  <2>4. l2[1] \notin Blanks /\ l2[1] \in CommentMarks
    BY <2>3, MarksHold, Zenon DEF Marks
  <2> QED BY <2>3, <2>4, OtherTurn
<1>4. l4 \in W /\ IniTurn(st, l4) = st
  <2>1. l4 \in Seq(C) /\ Len(l4) = 1 /\ l4[1] = "x"
    BY <1>0
  <2> HIDE DEF l4
  <2>2. l4[1] \notin Blanks
    BY <2>1, MarksHold, Zenon DEF Marks
  <2>3. l4[1] # "[" /\ \A j \in 1..Len(l4) : l4[j] # "="
    BY <2>1
  <2>4. Len(l4) >= 1
    BY <2>1
  <2> QED BY <2>1, <2>2, <2>3, <2>4, OtherTurn
<1>5. /\ l3 \in W
      /\ \E e : /\ IniTurn(st, l3) = [st EXCEPT !.events = Append(@, e)]
                /\ Entry(e, Len(st.events), st.section, key, value)
  <2> DEFINE blank == <<Blank>>
             eq == <<"=">>
             none == <<>>
             left == blank \o key \o blank
             right == blank \o value
             middle == <<Blank, "=", Blank>>
  <2>1. blank \in Seq(C) /\ eq \in Seq(C) /\ none \in Seq(C) /\ AllBlank(blank) /\ AllBlank(none)
        /\ middle \in Seq(C)
    BY <1>0 DEF AllBlank
  <2>0. middle = (blank \o eq) \o blank
    OBVIOUS
  <2>2. Len(blank) = 1 /\ blank[1] = Blank
    OBVIOUS
  <2> HIDE DEF blank, eq, none, middle
  <2>3. left \in Seq(C) /\ right \in Seq(C) /\ blank \o key \in Seq(C)
    BY <2>1
  <2>4. Trimmed(left) = key
    BY <2>1, Padded
  <2>5. Trimmed(right) = value
    <3>1. right \o none = right
      BY <2>3, ConcatEmptySeq DEF none
    <3>2. Trimmed(blank \o value \o none) = Trimmed(value)
      BY <2>1, Padded
    <3> QED BY <3>1, <3>2
  <2>6. \A j \in 1..Len(left) : left[j] # "="
    <3> DEFINE some == blank \o key
    <3>1. /\ some \in Seq(C) /\ Len(some) = 1 + Len(key)
          /\ \A i \in 1..(1 + Len(key)) : some[i] = IF i <= 1 THEN blank[i] ELSE key[i - 1]
      <4>1. /\ some \in Seq(C) /\ Len(some) = Len(blank) + Len(key)
            /\ \A i \in 1..Len(blank) + Len(key) :
                 some[i] = IF i <= Len(blank) THEN blank[i] ELSE key[i - Len(blank)]
        BY <2>1, ConcatProperties
      <4> HIDE DEF some
      <4> QED BY <2>2, <4>1
    <3> HIDE DEF some
    <3>2. some \in Seq(C)
      BY <3>1
    <3>3. /\ Len(some \o blank) = Len(some) + Len(blank)
          /\ \A i \in 1..Len(some) + Len(blank) :
               (some \o blank)[i] = IF i <= Len(some) THEN some[i] ELSE blank[i - Len(some)]
      BY <2>1, <3>2, ConcatProperties
    <3>4. Blank # "="
      BY <1>0, MarksHold DEF Marks
    <3> DEFINE all == some \o blank
    <3> HIDE DEF all
    <3>5. \A j \in 1..Len(all) : all[j] # "="
      <4> TAKE j \in 1..Len(all)
      <4>1. Len(key) \in Nat /\ Len(some) = 1 + Len(key) /\ Len(all) = Len(key) + 2
        BY <2>2, <3>1, <3>3 DEF all
      <4>2. CASE j = 1
        <5>1. all[j] = some[1] /\ some[1] = blank[1]
          BY <2>2, <3>1, <3>3, <4>1, <4>2 DEF all
        <5> QED BY <2>2, <3>4, <5>1
      <4>3. CASE j \in 2..(1 + Len(key))
        <5>1. j - 1 \in 1..Len(key) /\ j \in 1..(1 + Len(key)) /\ ~(j <= 1)
          BY <4>1, <4>3
        <5>2. all[j] = some[j]
          BY <2>2, <3>3, <4>1, <5>1 DEF all
        <5>3. some[j] = key[j - 1]
          BY <3>1, <5>1
        <5> QED BY <5>1, <5>2, <5>3 DEF NoEquals
      <4>4. CASE j = Len(key) + 2
        <5>1. j - Len(some) = 1 /\ ~(j <= Len(some)) /\ j \in 1..Len(some) + Len(blank)
          BY <2>2, <4>1, <4>4
        <5>2. all[j] = blank[1]
          BY <3>3, <5>1 DEF all
        <5> QED BY <2>2, <3>4, <5>2
      <4> QED BY <4>1, <4>2, <4>3, <4>4
    <3> QED BY <3>5 DEF all, some
  <2>7. l3 = left \o eq \o right
    <3> DEFINE some == blank \o key
    <3>1. some \in Seq(C)
      BY <2>3
    <3> HIDE DEF some
    <3>2. blank \in Seq(C) /\ eq \in Seq(C)
      BY <2>1
    <3>3. (some \o ((blank \o eq) \o blank)) \o value = ((some \o blank) \o eq) \o (blank \o value)
      <4>1. Joined(Joined(some, Joined(Joined(blank, eq), blank)), value) =
              Joined(Joined(Joined(some, blank), eq), Joined(blank, value))
        BY <3>1, <3>2, Regrouped
      <4> QED BY <4>1, Zenon DEF Joined
    <3>4. l3 = (some \o middle) \o value
      BY Zenon DEF some, blank, middle
    <3> QED BY <2>0, <3>3, <3>4, Zenon DEF some
  <2> HIDE DEF l3, left, right
  <2>8. "=" \notin Blanks /\ "=" \notin CommentMarks
    BY MarksHold DEF Marks
  <2>9. Entries(Trimmed(left), Trimmed(right))
    BY <2>4, <2>5
  <2>10. \E e : /\ IniTurn(st, left \o <<"=">> \o right) = [st EXCEPT !.events = Append(@, e)]
                /\ Entry(e, Len(st.events), st.section, Trimmed(left), Trimmed(right))
    BY <1>0, <2>3, <2>6, <2>8, <2>9, EntryTurn
  <2>11. l3 = left \o <<"=">> \o right
    BY <2>7 DEF eq
  <2>12. l3 \in Seq(C)
    BY <2>1, <2>3, <2>7
  <2> QED BY <2>4, <2>5, <2>10, <2>11, <2>12, Zenon
<1>6. /\ l6 \in W
      /\ \E e : /\ IniTurn(st, l6) = [st EXCEPT !.events = Append(@, e)]
                /\ Entry(e, Len(st.events), st.section, key, <<>>)
  <2> DEFINE none == <<>>
  <2>1. none \in Seq(C) /\ Trimmed(none) = none
    <3>1. none \in Seq(C) /\ AllBlank(none)
      BY DEF AllBlank
    <3> QED BY <3>1, TrimmedSpan
  <2>2. l6 \in Seq(C) /\ l6 \o none = l6
    <3>1. l6 \in Seq(C)
      BY <1>0
    <3> QED BY <3>1, ConcatEmptySeq
  <2>3. Entries(key, none)
    BY DEF Entries
  <2> HIDE DEF none, l6
  <2>4. "=" \notin Blanks /\ "=" \notin CommentMarks
    BY MarksHold DEF Marks
  <2>5. Entries(Trimmed(key), Trimmed(none))
    BY <2>1, <2>3
  <2>6. \E e : /\ IniTurn(st, key \o <<"=">> \o none) = [st EXCEPT !.events = Append(@, e)]
               /\ Entry(e, Len(st.events), st.section, Trimmed(key), Trimmed(none))
    BY <1>0, <2>1, <2>4, <2>5, EntryTurn DEF NoEquals
  <2>7. key \o <<"=">> \o none = l6
    BY <2>2 DEF l6
  <2> QED BY <2>1, <2>2, <2>6, <2>7, Zenon DEF none
<1>7. lines = <<l1, l2, l3, l4, l5, l6>>
  BY Zenon DEF EntryLines
<1> HIDE DEF l1, l2, l3, l4, l5, l6, lines, W
<1>8. /\ lines \in Seq(W) /\ Len(lines) = 6 /\ lines[1] = l1 /\ lines[2] = l2 /\ lines[3] = l3
      /\ lines[4] = l4 /\ lines[5] = l5 /\ lines[6] = l6
  <2>1. l1 \in W /\ l2 \in W /\ l3 \in W /\ l4 \in W /\ l5 \in W /\ l6 \in W
    BY <1>1, <1>2, <1>3, <1>4, <1>5, <1>6
  <2> QED BY <1>7, <2>1
<1>9. LinesTurn(lines, st, section, key, value)
  BY <1>1, <1>2, <1>3, <1>4, <1>5, <1>6, <1>8, Zenon DEF LinesTurn
<1> QED BY <1>8, <1>9, Zenon DEF W, lines

\* The text of an INI input is symbols of its alphabet.
IniTextType == kind = "ini" => text \in Seq(Alphabet["ini"])

\* That holds throughout.
LEMMA TextIsIni == Spec => []IniTextType
<1>1. Init => IniTextType
  BY DEF Init, IniTextType
<1>2. IniTextType /\ [Next]_vars => IniTextType'
  <2> SUFFICES ASSUME IniTextType, [Next]_vars, kind' = "ini" PROVE text' \in Seq(Alphabet["ini"])
    BY DEF IniTextType
  <2>1. CASE Grow
    <3>1. kind = "ini" /\ text \in Seq(Alphabet["ini"])
      BY <2>1 DEF Grow, IniTextType
    <3>2. PICK symbol \in Alphabet[kind] : text' = Append(text, symbol)
      BY <2>1 DEF Grow
    <3>3. symbol \in Alphabet["ini"]
      BY <3>1, <3>2
    <3> QED BY <3>1, <3>2, <3>3, AppendProperties
  <2>2. CASE NextDay
    BY <2>2 DEF NextDay
  <2>3. CASE UNCHANGED vars
    BY <2>3 DEF vars, IniTextType
  <2> QED BY <2>1, <2>2, <2>3 DEF Next
<1> QED BY <1>1, <1>2, PTL DEF Spec

\* Two entries, under a header each, with a comment and a line without a value between, are
\* read back with their keys, values and sections, for texts of any length and characters
\* without newlines (parse_ini_events).
THEOREM EntriesRead ==
  ASSUME NEW C, {"=", "[", "]", "#", "x", Blank} \subseteq C, Newline \notin C,
         NEW section \in Seq(C), NEW key \in Seq(C), NEW value \in Seq(C),
         Trimmed(key) = key, Trimmed(value) = value, NoEquals(key),
         Entries(key, value)
  PROVE  LET events == ParseIniEvents(TextOf(EntryLines(section, key, value)))
         IN  /\ Len(events) = 2
             /\ Entry(events[1], 0, section, key, value) /\ Entry(events[2], 1, value, key, <<>>)
<1> DEFINE lines == EntryLines(section, key, value)
           st(n) == IniAfter(lines, n)
<1>1. \A s : lines \in Seq(Seq(C)) /\ Len(lines) = 6 /\ LinesTurn(lines, s, section, key, value)
  <2> TAKE s
  <2> QED BY EntryLinesTurn
<1> HIDE DEF lines
<1>2. lines \in Seq(Seq(C)) /\ Len(lines) = 6
  BY <1>1
<1>3. ParseIniEvents(TextOf(lines)) = st(6).events
  <2>1. TextLines(TextOf(lines)) = lines
    BY <1>2, LinesRead
  <2> QED BY <1>2, <2>1, Zenon DEF ParseIniEvents
<1>4. st(0) = IniStart /\ \A i \in 1..6 : st(i) = IniTurn(st(i - 1), lines[i])
  <2> DEFINE W == Seq(C)
  <2>1. lines \in Seq(W)
    BY <1>2
  <2> HIDE DEF W
  <2>2. /\ IniAfter(lines, 0) = IniStart
        /\ \A i \in 1..Len(lines) : IniAfter(lines, i) = IniTurn(IniAfter(lines, i - 1), lines[i])
    BY <2>1, IniLoop
  <2> QED BY <1>2, <2>2
<1> HIDE DEF st
<1>5. /\ st(1) = IniTurn(st(0), lines[1]) /\ st(2) = IniTurn(st(1), lines[2])
      /\ st(3) = IniTurn(st(2), lines[3]) /\ st(4) = IniTurn(st(3), lines[4])
      /\ st(5) = IniTurn(st(4), lines[5]) /\ st(6) = IniTurn(st(5), lines[6])
  <2>1. \A i \in 1..6 : st(i) = IniTurn(st(i - 1), lines[i])
    BY <1>4
  <2>2. /\ st(1) = IniTurn(st(1 - 1), lines[1]) /\ st(2) = IniTurn(st(2 - 1), lines[2])
        /\ st(3) = IniTurn(st(3 - 1), lines[3]) /\ st(4) = IniTurn(st(4 - 1), lines[4])
        /\ st(5) = IniTurn(st(5 - 1), lines[5]) /\ st(6) = IniTurn(st(6 - 1), lines[6])
    BY <2>1
  <2> QED BY <2>2
<1>6. st(2) = [section |-> section, events |-> <<>>]
  <2>1. st(1) = [st(0) EXCEPT !.section = section] /\ st(2) = st(1)
    BY <1>1, <1>5, Zenon DEF LinesTurn
  <2> QED BY <1>4, <2>1 DEF IniStart
<1>7. PICK e : /\ IniTurn(st(2), lines[3]) = [st(2) EXCEPT !.events = Append(@, e)]
               /\ Entry(e, Len(st(2).events), st(2).section, key, value)
  BY <1>1, Zenon DEF LinesTurn
<1>8. st(4) = [section |-> section, events |-> <<e>>] /\ Entry(e, 0, section, key, value)
  <2>1. st(4) = st(3) /\ st(3) = [st(2) EXCEPT !.events = Append(@, e)]
    BY <1>1, <1>5, <1>7, Zenon DEF LinesTurn
  <2>2. Append(<<>>, e) = <<e>>
    OBVIOUS
  <2>3. st(2).events = <<>> /\ st(2).section = section
    BY <1>6
  <2>4. Len(st(2).events) = 0
    BY <2>3
  <2> QED BY <1>6, <1>7, <2>1, <2>2, <2>3, <2>4
<1>9. st(5) = [section |-> value, events |-> <<e>>]
  <2>1. st(5) = [st(4) EXCEPT !.section = value]
    BY <1>1, <1>5, Zenon DEF LinesTurn
  <2> DEFINE one == <<e>>
  <2>2. st(4) = [section |-> section, events |-> one]
    BY <1>8
  <2> HIDE DEF one
  <2>3. st(5) = [section |-> value, events |-> one]
    BY <2>1, <2>2
  <2> QED BY <2>3 DEF one
<1>10. PICK d : /\ IniTurn(st(5), lines[6]) = [st(5) EXCEPT !.events = Append(@, d)]
                /\ Entry(d, Len(st(5).events), st(5).section, key, <<>>)
  BY <1>1, Zenon DEF LinesTurn
<1>11. st(6).events = <<e, d>> /\ Entry(d, 1, value, key, <<>>)
  <2>1. st(6) = [st(5) EXCEPT !.events = Append(@, d)]
    BY <1>5, <1>10, Zenon
  <2>2. Append(<<e>>, d) = <<e, d>> /\ Len(<<e>>) = 1
    <3> DEFINE X == {e, d}
    <3>1. e \in X /\ d \in X
      OBVIOUS
    <3> HIDE DEF X
    <3>2. <<e>> \in Seq(X) /\ Len(<<e>>) = 1 /\ <<e>>[1] = e
      BY <3>1
    <3>3. <<e, d>> \in Seq(X) /\ Len(<<e, d>>) = 2 /\ <<e, d>>[1] = e /\ <<e, d>>[2] = d
      BY <3>1
    <3> DEFINE one == <<e>>
               two == <<e, d>>
               more == Append(one, d)
    <3> HIDE DEF one, two
    <3>4. one \in Seq(X) /\ Len(one) = 1 /\ one[1] = e
      BY <3>2 DEF one
    <3>5. two \in Seq(X) /\ Len(two) = 2 /\ two[1] = e /\ two[2] = d
      BY <3>3 DEF two
    <3>6. more \in Seq(X) /\ Len(more) = 2 /\ more[1] = e /\ more[2] = d
      <4>1. one \in Seq(X)
        BY <3>4
      <4>2. /\ Append(one, d) \in Seq(X) /\ Len(Append(one, d)) = Len(one) + 1
            /\ \A i \in 1..Len(one) : Append(one, d)[i] = one[i]
            /\ Append(one, d)[Len(one) + 1] = d
        BY <3>1, <4>1, AppendProperties
      <4> HIDE DEF more
      <4>3. /\ more \in Seq(X) /\ Len(more) = Len(one) + 1 /\ more[Len(one) + 1] = d
            /\ \A i \in 1..Len(one) : more[i] = one[i]
        BY <4>2 DEF more
      <4> QED BY <3>4, <4>3
    <3> HIDE DEF more
    <3>7. \A i \in 1..Len(more) : more[i] = two[i]
      BY <3>5, <3>6
    <3>8. more = two
      BY <3>5, <3>6, <3>7, SeqEqual
    <3> QED BY <3>4, <3>8 DEF more, one, two
  <2>3. st(5).events = <<e>> /\ st(5).section = value
    BY <1>9
  <2>4. st(6).events = <<e, d>>
    BY <1>9, <2>1, <2>2, <2>3
  <2>5. Entry(d, Len(<<e>>), value, key, <<>>)
    BY <1>10, <2>3, Zenon
  <2> QED BY <2>2, <2>4, <2>5
<1> DEFINE events == ParseIniEvents(TextOf(lines))
<1>12. events = <<e, d>>
  BY <1>3, <1>11, Zenon
<1>13. Len(<<e, d>>) = 2 /\ <<e, d>>[1] = e /\ <<e, d>>[2] = d
  OBVIOUS
<1>14. Len(events) = 2 /\ Entry(events[1], 0, section, key, value) /\ Entry(events[2], 1, value, key, <<>>)
  BY <1>8, <1>11, <1>12, <1>13, Zenon
<1> QED BY <1>14 DEF lines

\* Entries are read back with their keys, values and sections, for inputs of any length
\* (parse_ini_events).
THEOREM IniEntriesReadBackHolds == Spec => []IniEntriesReadBack
<1>1. IniTextType => IniEntriesReadBack
  <2> DEFINE key     == Parts[1]
             value   == Last(Parts)
             section == Parts[(Len(Parts) + 1) \div 2]
             events  == ParseIniEvents(TextOf(EntryLines(section, key, value)))
             read    == [i \in 1..Len(events) |->
                          <<events[i].members[<<"service">>], events[i].fields[<<"key">>],
                            events[i].fields[<<"value">>], events[i].ordinal>>]
             C == Alphabet["ini"]
  <2>1. SUFFICES ASSUME text \in Seq(C), Plain(key, value)
                 PROVE  read = <<<<section, key, value, 0>>, <<value, key, <<>>, 1>>>>
    BY Zenon DEF IniTextType, IniEntriesReadBack, EntryLines
  <2>2. {"=", "[", "]", "#", "x", Blank} \subseteq C
    BY DEF Alphabet
  <2>3. Newline \notin C
    <3>1. Newline # Blank
      BY Zenon DEF Newline, Blank
    <3>2. C = {"x", Blank, "[", "]", "=", "#", "|"}
      BY DEF Alphabet
    <3>3. Newline \notin {"x", "[", "]", "=", "#", "|"}
      BY DEF Newline
    <3> QED BY <3>1, <3>2, <3>3
  <2>4. \A c \in C : c # "#" => c \notin CommentMarks
    <3>1. C = {"x", Blank, "[", "]", "=", "#", "|"}
      BY DEF Alphabet
    <3>2. /\ "x" \notin CommentMarks /\ "[" \notin CommentMarks /\ "]" \notin CommentMarks
          /\ "=" \notin CommentMarks /\ "|" \notin CommentMarks
      BY Zenon DEF CommentMarks
    <3>3. Blank \notin CommentMarks
      BY Zenon DEF CommentMarks, Blank
    <3> QED BY <3>1, <3>2, <3>3
  <2> HIDE DEF C
  <2>5. Parts \in SomeParts(C)
    <3>1. Len(text) \in 0..Len(text) /\ text \in Seq(C)
      BY <2>1
    <3> QED BY <3>1, PartsLoop DEF Parts
  <2>6. key \in Seq(C) /\ value \in Seq(C) /\ section \in Seq(C)
    <3> DEFINE W == Seq(C)
               n == Len(Parts)
    <3>1. Parts \in Seq(W) /\ Parts # <<>>
      BY <2>5 DEF SomeParts
    <3> HIDE DEF W
    <3>2. n \in Nat \ {0} /\ \A i \in 1..n : Parts[i] \in W
      BY <3>1
    <3>3. 1 \in 1..n /\ n \in 1..n /\ (n + 1) \div 2 \in 1..n
      BY <3>2
    <3> QED BY <3>2, <3>3 DEF W, Last
  <2> HIDE DEF key, value, section
  <2>7. Trimmed(key) = key /\ Trimmed(value) = value
    BY <2>1, Zenon DEF Plain
  <2>8. NoEquals(key)
    <3>1. \A j \in 1..Len(key) : key[j] \in ToSet(key)
      BY <2>6 DEF ToSet
    <3>2. "=" \notin ToSet(key)
      BY <2>1, Zenon DEF Plain
    <3> QED BY <3>1, <3>2 DEF NoEquals
  <2>9. Entries(key, value)
    <3>1. key # <<>> => key[1] \in C
      BY <2>6
    <3> QED BY <2>1, <2>4, <3>1, Zenon DEF Plain, Entries
  <2>10. /\ Len(events) = 2
         /\ Entry(events[1], 0, section, key, value) /\ Entry(events[2], 1, value, key, <<>>)
    BY <2>2, <2>3, <2>6, <2>7, <2>8, <2>9, EntriesRead
  <2> HIDE DEF events
  <2>11. read = <<read[1], read[2]>>
    BY <2>10
  <2>12. read[1] = <<section, key, value, 0>> /\ read[2] = <<value, key, <<>>, 1>>
    <3>1. 1 \in 1..Len(events) /\ 2 \in 1..Len(events)
      BY <2>10
    <3> QED BY <2>10, <3>1, Zenon DEF Entry
  <2> HIDE DEF read
  <2> QED BY <2>11, <2>12, Zenon
<1> QED BY <1>1, TextIsIni, PTL

-----------------------------------------------------------------------------
(* Members of JSON objects.                                                *)

\* Skipping stops at the first character that is not to be skipped, or at the end.
LEMMA SkipIs ==
  ASSUME NEW C, NEW s \in Seq(C), NEW i \in Nat, NEW chars
  PROVE  /\ i >= Len(s) => SkipAll(s, i, chars) = i
         /\ i < Len(s) => /\ SkipAll(s, i, chars) \in i..Len(s)
                          /\ \A j \in i..Len(s) : j = Len(s) \/ s[j + 1] \notin chars =>
                               SkipAll(s, i, chars) <= j
                          /\ SkipAll(s, i, chars) = Len(s) \/ s[SkipAll(s, i, chars) + 1] \notin chars
<1> DEFINE n == Len(s)
           S == {j \in i..n : j = n \/ s[j + 1] \notin chars}
           e == SkipAll(s, i, chars)
<1>1. n \in Nat
  OBVIOUS
<1>2. CASE i >= n
  BY <1>1, <1>2 DEF SkipAll
<1>3. CASE ~(i >= n)
  <2>1. e = Min(S)
    BY <1>3 DEF SkipAll
  <2>2. S \subseteq Nat /\ n \in S
    BY <1>1, <1>3
  <2>3. e \in S /\ \A m \in S : e <= m
    <3> HIDE DEF S, e
    <3> QED BY <2>1, <2>2, LeastIs
  <2> HIDE DEF e
  <2>4. e \in i..n /\ (e = n \/ s[e + 1] \notin chars)
    BY <2>3
  <2>5. \A j \in i..n : j = n \/ s[j + 1] \notin chars => e <= j
    BY <2>3
  <2> QED BY <1>3, <2>4, <2>5 DEF e
<1> QED BY <1>2, <1>3

\* Searching stops at the first character that is searched for, or at the end.
LEMMA FindIs ==
  ASSUME NEW C, NEW s \in Seq(C), NEW i \in Nat, NEW chars
  PROVE  /\ i >= Len(s) => FindAny(s, i, chars) = i
         /\ i < Len(s) => /\ FindAny(s, i, chars) \in i..Len(s)
                          /\ \A j \in i..Len(s) : j = Len(s) \/ s[j + 1] \in chars =>
                               FindAny(s, i, chars) <= j
                          /\ FindAny(s, i, chars) = Len(s) \/ s[FindAny(s, i, chars) + 1] \in chars
<1> DEFINE n == Len(s)
           S == {j \in i..n : j = n \/ s[j + 1] \in chars}
           e == FindAny(s, i, chars)
<1>1. n \in Nat
  OBVIOUS
<1>2. CASE i >= n
  BY <1>1, <1>2 DEF FindAny
<1>3. CASE ~(i >= n)
  <2>1. e = Min(S)
    BY <1>3 DEF FindAny
  <2>2. S \subseteq Nat /\ n \in S
    BY <1>1, <1>3
  <2>3. e \in S /\ \A m \in S : e <= m
    <3> HIDE DEF S, e
    <3> QED BY <2>1, <2>2, LeastIs
  <2> HIDE DEF e
  <2>4. e \in i..n /\ (e = n \/ s[e + 1] \in chars)
    BY <2>3
  <2>5. \A j \in i..n : j = n \/ s[j + 1] \in chars => e <= j
    BY <2>3
  <2> QED BY <1>3, <2>4, <2>5 DEF e
<1> QED BY <1>2, <1>3

\* Where the closing quote is sought next after position j.
Behind(s, j) == IF s[j + 1] = "bs" /\ j + 1 < Len(s) THEN j + 2 ELSE j + 1

\* The closing quote from a position on, by that from the next one on.
LEMMA ClosingQuoteIs ==
  ASSUME NEW C, NEW s \in Seq(C)
  PROVE  \A j \in 0..Len(s) :
           /\ ClosingQuote(s, j) \in j..Len(s)
           /\ j = Len(s) \/ s[j + 1] = "quote" => ClosingQuote(s, j) = j
           /\ j # Len(s) /\ s[j + 1] # "quote" =>
                ClosingQuote(s, j) = ClosingQuote(s, Behind(s, j))
<1> DEFINE n == Len(s)
           D == 0..n
           Stop == {j \in D : j = n \/ s[j + 1] = "quote"}
           prev == [j \in D |-> IF j \in Stop THEN j ELSE Behind(s, j)]
           rank == [j \in D |-> n - j]
           base == [j \in D |-> j]
           step == [p \in D \X D |-> p[1]]
           turns(f) == [j \in D |-> IF j = n \/ s[j + 1] = "quote" THEN j
                                    ELSE IF s[j + 1] = "bs" /\ j + 1 < n THEN f[j + 2]
                                    ELSE f[j + 1]]
           f == CHOOSE h : h = turns(h)
<1>1. n \in Nat
  OBVIOUS
<1>2. ASSUME NEW j \in D, j \notin Stop PROVE Behind(s, j) \in D /\ Behind(s, j) > j
  BY <1>1, <1>2 DEF Behind
<1>3. prev \in [D -> D] /\ rank \in [D -> Nat] /\ base \in [D -> D] /\ step \in [D \X D -> D]
  <2>1. rank \in [D -> Nat]
    BY <1>1
  <2>2. base \in [D -> D] /\ step \in [D \X D -> D]
    <3> HIDE DEF D
    <3> QED OBVIOUS
  <2>3. prev \in [D -> D]
    <3> HIDE DEF D, Stop
    <3> QED BY <1>2
  <2> QED BY <2>1, <2>2, <2>3
<1>4. \A j \in D \ Stop : rank[prev[j]] < rank[j]
  <2> SUFFICES ASSUME NEW j \in D, j \notin Stop PROVE rank[prev[j]] < rank[j]
    OBVIOUS
  <2>1. prev[j] \in D /\ prev[j] > j
    <3> HIDE DEF D, Stop
    <3> QED BY <1>2
  <2> HIDE DEF prev
  <2> QED BY <1>1, <2>1
<1>5. PICK g \in [D -> D] : \A j \in D : Equation(g, j, Stop, prev, base, step)
  <2> HIDE DEF prev, rank, base, step, Stop, D
  <2> QED BY <1>3, <1>4, RecursionExists
<1>6. ASSUME NEW j \in D
      PROVE  g[j] = IF j = n \/ s[j + 1] = "quote" THEN j
                    ELSE IF s[j + 1] = "bs" /\ j + 1 < n THEN g[j + 2] ELSE g[j + 1]
  <2>1. g[j] = IF j \in Stop THEN base[j] ELSE step[<<g[prev[j]], j>>]
    BY <1>5 DEF Equation
  <2>2. prev[j] \in D /\ base[j] = j /\ (j \in Stop <=> j = n \/ s[j + 1] = "quote")
    <3> HIDE DEF D, prev
    <3> QED BY <1>3
  <2>3. step[<<g[prev[j]], j>>] = g[prev[j]]
    <3> HIDE DEF D, prev
    <3> QED BY <2>2
  <2>4. j \notin Stop => prev[j] = IF s[j + 1] = "bs" /\ j + 1 < n THEN j + 2 ELSE j + 1
    <3> HIDE DEF D, Stop
    <3> QED BY DEF Behind
  <2> HIDE DEF step, prev, base, D, Stop
  <2> QED BY <2>1, <2>2, <2>3, <2>4, Zenon
<1>7. g = turns(g)
  <2>1. turns(g) = [j \in D |-> g[j]]
    <3> HIDE DEF D
    <3> QED BY <1>6, Zenon
  <2> HIDE DEF turns, D
  <2> QED BY <2>1
<1>8. f = turns(f)
  <2> HIDE DEF turns
  <2> QED BY <1>7
<1>9. \A j \in D : ClosingQuote(s, j) = f[j]
  BY DEF ClosingQuote
<1> HIDE DEF f
<1>10. \A j \in D : f[j] = IF j = n \/ s[j + 1] = "quote" THEN j
                           ELSE IF s[j + 1] = "bs" /\ j + 1 < n THEN f[j + 2] ELSE f[j + 1]
  <2> HIDE DEF D
  <2> QED BY <1>8
<1>11. ASSUME NEW j \in D
       PROVE  /\ j \in Stop => f[j] = j
              /\ j \notin Stop => f[j] = f[Behind(s, j)]
  <2>1. CASE j \in Stop
    BY <1>10, <2>1
  <2>2. CASE j \notin Stop
    <3>1. ~(j = n \/ s[j + 1] = "quote")
      BY <2>2
    <3> HIDE DEF D, Stop
    <3> QED BY <1>10, <2>2, <3>1, Zenon DEF Behind
  <2> QED BY <2>1, <2>2
<1> DEFINE S == {k \in Nat : \A j \in D : n - j = k => f[j] \in j..n}
<1>12. ASSUME NEW k \in Nat, \A m \in Nat : m < k => m \in S PROVE k \in S
  <2> SUFFICES ASSUME NEW j \in D, n - j = k PROVE f[j] \in j..n
    OBVIOUS
  <2>1. CASE j \in Stop
    <3>1. f[j] = j
      BY <1>11, <2>1, Zenon
    <3> QED BY <1>1, <3>1
  <2>2. CASE j \notin Stop
    <3> DEFINE m == Behind(s, j)
    <3>1. f[j] = f[m]
      BY <1>11, <2>2, Zenon
    <3>2. m \in D /\ m > j
      BY <1>2, <2>2
    <3> HIDE DEF m
    <3>3. n - m \in Nat /\ n - m < k
      BY <1>1, <3>2
    <3>4. f[m] \in m..n
      BY <1>12, <3>2, <3>3
    <3> QED BY <1>1, <3>1, <3>2, <3>4
  <2> QED BY <2>1, <2>2
<1>13. Nat \subseteq S
  <2> HIDE DEF S
  <2> QED BY <1>12, StrongInduction
<1> SUFFICES ASSUME NEW j \in D
             PROVE  /\ ClosingQuote(s, j) \in j..n
                    /\ j = n \/ s[j + 1] = "quote" => ClosingQuote(s, j) = j
                    /\ j # n /\ s[j + 1] # "quote" => ClosingQuote(s, j) = ClosingQuote(s, Behind(s, j))
  OBVIOUS
<1>14. ClosingQuote(s, j) \in j..n
  <2>1. n - j \in Nat
    BY <1>1
  <2>2. f[j] \in j..n
    BY <1>13, <2>1
  <2>3. ClosingQuote(s, j) = f[j]
    BY <1>9
  <2> QED BY <2>2, <2>3, Zenon
<1>15. CASE j \in Stop
  <2>1. ClosingQuote(s, j) = j
    BY <1>9, <1>11, <1>15, Zenon
  <2> QED BY <1>14, <1>15, <2>1
<1>16. CASE j \notin Stop
  <2>1. ClosingQuote(s, j) = ClosingQuote(s, Behind(s, j))
    <3>1. Behind(s, j) \in D
      BY <1>2, <1>16
    <3> HIDE DEF D, Stop
    <3> QED BY <1>9, <1>11, <1>16, <3>1, Zenon
  <2> QED BY <1>14, <1>16, <2>1
<1> QED BY <1>15, <1>16

\* Where a pair that is there begins and ends, its name and its value.
LEMMA PairSpan ==
  ASSUME NEW C, NEW s \in Seq(C), NEW i \in 0..Len(s) + 1, ~NoPair(s, i)
  PROVE  /\ NameStart(s, i) \in i..Len(s) - 1
         /\ ClosingQuote(s, NameStart(s, i) + 1) \in NameStart(s, i) + 1..Len(s)
         /\ ValueStart(s, i) \in ClosingQuote(s, NameStart(s, i) + 1) + 1..Len(s) + 1
         /\ NextPair(s, i) \in ValueStart(s, i)..Len(s) + 1
<1> DEFINE n == Len(s)
           k == NameStart(s, i)
           c == ClosingQuote(s, k + 1)
           v == ValueStart(s, i)
           e == ValueEnd(s, i)
<1>1. n \in Nat /\ i \in Nat /\ i < n
  BY DEF NoPair, PairsEnd
<1>2. k \in i..n - 1
  <2>1. k \in i..n
    BY <1>1, SkipIs DEF NameStart
  <2>2. ~(k >= n)
    BY DEF NoPair, PairsEnd
  <2> HIDE DEF k
  <2> QED BY <1>1, <2>1, <2>2
<1>3. c \in k + 1..n
  <2> HIDE DEF k
  <2>1. k + 1 \in 0..n
    BY <1>1, <1>2
  <2> QED BY <2>1, ClosingQuoteIs
<1>4. v \in c + 1..n + 1
  <2> DEFINE d == c + 1
             chars == BeforeValue
             w == SkipAll(s, d, chars)
  <2>1. v = w
    BY DEF ValueStart
  <2> HIDE DEF v, w, chars, c, k
  <2>2. d \in Nat /\ d <= n + 1
    BY <1>1, <1>2, <1>3
  <2> HIDE DEF d
  <2>3. (d >= n => w = d) /\ (d < n => w \in d..n)
    BY <2>2, SkipIs DEF w
  <2> QED BY <1>1, <2>1, <2>2, <2>3 DEF d
<1>5. NextPair(s, i) \in v..n + 1
  <2>1. v \in Nat
    <3> HIDE DEF v, c, k
    <3> QED BY <1>1, <1>2, <1>3, <1>4
  <2>2. CASE ValueQuoted(s, i)
    <3>1. v < n
      BY <2>2 DEF ValueQuoted
    <3>2. NextPair(s, i) = ClosingQuote(s, v + 1) + 1
      BY <2>2 DEF NextPair, ValueEnd
    <3> HIDE DEF v, c, k
    <3>3. v + 1 \in 0..n
      BY <1>1, <2>1, <3>1
    <3> DEFINE d == ClosingQuote(s, v + 1)
    <3>4. d \in v + 1..n
      BY <3>3, ClosingQuoteIs
    <3> HIDE DEF d
    <3> QED BY <1>1, <2>1, <3>2, <3>4 DEF d
  <2>3. CASE ~ValueQuoted(s, i)
    <3> DEFINE d == FindAny(s, v, EndsValue)
    <3>1. NextPair(s, i) = d + 0
      BY <2>3 DEF NextPair, ValueEnd
    <3> HIDE DEF v, c, k
    <3>2. (v >= n => d = v) /\ (v < n => d \in v..n)
      BY <2>1, FindIs
    <3> HIDE DEF d
    <3>3. v <= n + 1
      BY <1>1, <1>2, <1>3, <1>4
    <3> QED BY <1>1, <2>1, <3>1, <3>2, <3>3
  <2> QED BY <2>2, <2>3
<1> HIDE DEF k, c, v, n
<1> QED BY <1>2, <1>3, <1>4, <1>5 DEF k, c, v, n

SomePairs(s) == {PairAt(s, i) : i \in 0..Len(s) + 1}

\* The pairs from a position on, by those from the next one on.
LEMMA PairsFromAre ==
  ASSUME NEW C, NEW s \in Seq(C)
  PROVE  \A i \in 0..Len(s) + 1 :
           /\ PairsFrom(s, i) \in Seq(SomePairs(s))
           /\ NoPair(s, i) => PairsFrom(s, i) = <<>>
           /\ ~NoPair(s, i) => PairsFrom(s, i) = <<PairAt(s, i)>> \o PairsFrom(s, NextPair(s, i))
<1> DEFINE n == Len(s)
           D == 0..n + 1
           V == Seq(SomePairs(s))
           Stop == {i \in D : NoPair(s, i)}
           prev == [i \in D |-> IF i \in Stop THEN i ELSE NextPair(s, i)]
           rank == [i \in D |-> n + 1 - i]
           base == [i \in D |-> <<>>]
           turn(v, i) == IF i \in Stop THEN <<>> ELSE <<PairAt(s, i)>> \o v
           step == [p \in V \X D |-> turn(p[1], p[2])]
           turns(f) == [i \in D |-> IF NoPair(s, i) THEN <<>> ELSE <<PairAt(s, i)>> \o f[NextPair(s, i)]]
           f == CHOOSE h : h = turns(h)
<1>1. n \in Nat /\ \A i \in D : n + 1 - i \in Nat
  OBVIOUS
<1>2. ASSUME NEW i \in D, i \notin Stop PROVE NextPair(s, i) \in D /\ NextPair(s, i) > i
  <2>1. ~NoPair(s, i)
    BY <1>2
  <2> DEFINE k == NameStart(s, i)
             c == ClosingQuote(s, k + 1)
             v == ValueStart(s, i)
             e == NextPair(s, i)
  <2>2. k \in i..n - 1 /\ c \in k + 1..n /\ v \in c + 1..n + 1 /\ e \in v..n + 1
    <3> HIDE DEF Stop
    <3> QED BY <2>1, PairSpan
  <2> HIDE DEF k, c, v, e
  <2>3. e \in D /\ e > i
    BY <1>1, <2>2
  <2> QED BY <2>3 DEF e
<1>3. prev \in [D -> D] /\ rank \in [D -> Nat] /\ base \in [D -> V]
  <2>1. rank \in [D -> Nat]
    BY <1>1
  <2>2. base \in [D -> V]
    OBVIOUS
  <2>3. prev \in [D -> D]
    <3> HIDE DEF D, Stop
    <3> QED BY <1>2
  <2> QED BY <2>1, <2>2, <2>3
<1>4. \A i \in D \ Stop : rank[prev[i]] < rank[i]
  <2> SUFFICES ASSUME NEW i \in D, i \notin Stop PROVE rank[prev[i]] < rank[i]
    OBVIOUS
  <2>1. prev[i] \in D /\ prev[i] > i
    <3> HIDE DEF D, Stop
    <3> QED BY <1>2
  <2> HIDE DEF prev, Stop
  <2> QED BY <1>1, <2>1
<1>5. ASSUME NEW i \in D, NEW v \in V PROVE <<PairAt(s, i)>> \o v \in V
  <2>1. <<PairAt(s, i)>> \in V
    BY DEF SomePairs
  <2> HIDE DEF D
  <2> QED BY <2>1, ConcatProperties
<1>6. step \in [V \X D -> V]
  <2>1. ASSUME NEW v \in V, NEW i \in D PROVE turn(v, i) \in V
    <3>1. <<>> \in V
      OBVIOUS
    <3> HIDE DEF V, D, Stop
    <3> QED BY <1>5, <3>1
  <2> HIDE DEF turn, V, D
  <2> QED BY <2>1
<1>7. PICK g \in [D -> V] : \A i \in D : Equation(g, i, Stop, prev, base, step)
  <2> HIDE DEF prev, rank, base, step, Stop, D, V
  <2> QED BY <1>3, <1>4, <1>6, RecursionExists
<1>8. ASSUME NEW i \in D
      PROVE  g[i] = IF NoPair(s, i) THEN <<>> ELSE <<PairAt(s, i)>> \o g[NextPair(s, i)]
  <2>1. g[i] = IF i \in Stop THEN base[i] ELSE step[<<g[prev[i]], i>>]
    BY <1>7 DEF Equation
  <2>2. prev[i] \in D /\ base[i] = <<>> /\ (i \in Stop <=> NoPair(s, i))
    <3> HIDE DEF D, prev, V
    <3> QED BY <1>3
  <2>3. step[<<g[prev[i]], i>>] = turn(g[prev[i]], i)
    <3> HIDE DEF turn, V, D, prev
    <3> QED BY <2>2
  <2>4. i \notin Stop => prev[i] = NextPair(s, i)
    <3> HIDE DEF D, Stop
    <3> QED OBVIOUS
  <2> HIDE DEF step, prev, base, D, V, Stop
  <2> QED BY <2>1, <2>2, <2>3, <2>4, Zenon
<1>9. g = turns(g)
  <2>1. turns(g) = [i \in D |-> g[i]]
    <3> HIDE DEF D, V
    <3> QED BY <1>8, Zenon
  <2> HIDE DEF turns, D, V
  <2> QED BY <2>1
<1>10. f = turns(f)
  <2> HIDE DEF turns
  <2> QED BY <1>9
<1>11. \A i \in D : PairsFrom(s, i) = f[i]
  BY DEF PairsFrom
<1> HIDE DEF f
<1>12. \A i \in D : f[i] = IF NoPair(s, i) THEN <<>> ELSE <<PairAt(s, i)>> \o f[NextPair(s, i)]
  <2> HIDE DEF D
  <2> QED BY <1>10
<1> DEFINE S == {k \in Nat : \A i \in D : n + 1 - i = k => f[i] \in V}
<1>13. ASSUME NEW k \in Nat, \A m \in Nat : m < k => m \in S PROVE k \in S
  <2> SUFFICES ASSUME NEW i \in D, n + 1 - i = k PROVE f[i] \in V
    OBVIOUS
  <2>1. CASE NoPair(s, i)
    <3>1. f[i] = <<>>
      BY <1>12, <2>1, Zenon
    <3> QED BY <3>1
  <2>2. CASE ~NoPair(s, i)
    <3> DEFINE m == NextPair(s, i)
    <3>1. f[i] = <<PairAt(s, i)>> \o f[m]
      BY <1>12, <2>2, Zenon
    <3>2. m \in D /\ m > i
      <4>1. i \notin Stop
        BY <2>2
      <4> HIDE DEF D, Stop
      <4> QED BY <1>2, <4>1
    <3> HIDE DEF m
    <3>3. n + 1 - m \in Nat /\ n + 1 - m < k
      BY <1>1, <3>2
    <3>4. f[m] \in V
      BY <1>13, <3>2, <3>3
    <3> HIDE DEF V, D
    <3> QED BY <1>5, <3>1, <3>4
  <2> QED BY <2>1, <2>2
<1>14. Nat \subseteq S
  <2> HIDE DEF S
  <2> QED BY <1>13, StrongInduction
<1> SUFFICES ASSUME NEW i \in D
             PROVE  /\ PairsFrom(s, i) \in V
                    /\ NoPair(s, i) => PairsFrom(s, i) = <<>>
                    /\ ~NoPair(s, i) => PairsFrom(s, i) = <<PairAt(s, i)>> \o PairsFrom(s, NextPair(s, i))
  OBVIOUS
<1>15. PairsFrom(s, i) \in V
  <2>1. n + 1 - i \in Nat
    BY <1>1
  <2>2. f[i] \in V
    <3> HIDE DEF V, D
    <3> QED BY <1>14, <2>1
  <2> HIDE DEF V, D
  <2> QED BY <1>11, <2>2, Zenon
<1>16. NoPair(s, i) => PairsFrom(s, i) = <<>>
  <2> HIDE DEF D
  <2> QED BY <1>11, <1>12, Zenon
<1>17. ~NoPair(s, i) => PairsFrom(s, i) = <<PairAt(s, i)>> \o PairsFrom(s, NextPair(s, i))
  <2>1. ~NoPair(s, i) => NextPair(s, i) \in D
    <3>1. ~NoPair(s, i) => i \notin Stop
      OBVIOUS
    <3> HIDE DEF D, Stop
    <3> QED BY <1>2, <3>1
  <2> HIDE DEF D
  <2> QED BY <1>11, <1>12, <2>1, Zenon
<1> QED BY <1>15, <1>16, <1>17

\* Whether the reading is left by the exception from a position on, by whether it is from
\* the next one on.
LEMMA ThrowsAre ==
  ASSUME NEW C, NEW s \in Seq(C)
  PROVE  \A i \in 0..Len(s) + 1 :
           /\ ThrowsFrom(s, i) \in BOOLEAN
           /\ PairsEnd(s, i) => ThrowsFrom(s, i) = FALSE
           /\ ~NoPair(s, i) => ThrowsFrom(s, i) = ThrowsFrom(s, NextPair(s, i))
<1> DEFINE n == Len(s)
           D == 0..n + 1
           Stop == {i \in D : NoPair(s, i)}
           prev == [i \in D |-> IF i \in Stop THEN i ELSE NextPair(s, i)]
           rank == [i \in D |-> n + 1 - i]
           base == [i \in D |-> ~PairsEnd(s, i)]
           step == [p \in BOOLEAN \X D |-> p[1]]
           turns(f) == [i \in D |-> IF NoPair(s, i) THEN ~PairsEnd(s, i) ELSE f[NextPair(s, i)]]
           f == CHOOSE h : h = turns(h)
<1>1. n \in Nat /\ \A i \in D : n + 1 - i \in Nat
  OBVIOUS
<1>2. ASSUME NEW i \in D, i \notin Stop PROVE NextPair(s, i) \in D /\ NextPair(s, i) > i
  <2>1. ~NoPair(s, i)
    BY <1>2
  <2> DEFINE k == NameStart(s, i)
             c == ClosingQuote(s, k + 1)
             v == ValueStart(s, i)
             e == NextPair(s, i)
  <2>2. k \in i..n - 1 /\ c \in k + 1..n /\ v \in c + 1..n + 1 /\ e \in v..n + 1
    <3> HIDE DEF Stop
    <3> QED BY <2>1, PairSpan
  <2> HIDE DEF k, c, v, e
  <2>3. e \in D /\ e > i
    BY <1>1, <2>2
  <2> QED BY <2>3 DEF e
<1>3. prev \in [D -> D] /\ rank \in [D -> Nat] /\ base \in [D -> BOOLEAN]
  <2>1. rank \in [D -> Nat]
    BY <1>1
  <2>2. base \in [D -> BOOLEAN]
    <3>1. \A i \in D : (~PairsEnd(s, i)) \in BOOLEAN
      OBVIOUS
    <3> HIDE DEF D
    <3> QED BY <3>1
  <2>3. prev \in [D -> D]
    <3> HIDE DEF D, Stop
    <3> QED BY <1>2
  <2> QED BY <2>1, <2>2, <2>3
<1>4. \A i \in D \ Stop : rank[prev[i]] < rank[i]
  <2> SUFFICES ASSUME NEW i \in D, i \notin Stop PROVE rank[prev[i]] < rank[i]
    OBVIOUS
  <2>1. prev[i] \in D /\ prev[i] > i
    <3> HIDE DEF D, Stop
    <3> QED BY <1>2
  <2> HIDE DEF prev, Stop
  <2> QED BY <1>1, <2>1
<1>5. step \in [BOOLEAN \X D -> BOOLEAN]
  <2> HIDE DEF D
  <2> QED OBVIOUS
<1>6. PICK g \in [D -> BOOLEAN] : \A i \in D : Equation(g, i, Stop, prev, base, step)
  <2> HIDE DEF prev, rank, base, step, Stop, D
  <2> QED BY <1>3, <1>4, <1>5, RecursionExists
<1>7. ASSUME NEW i \in D
      PROVE  g[i] = IF NoPair(s, i) THEN ~PairsEnd(s, i) ELSE g[NextPair(s, i)]
  <2>1. g[i] = IF i \in Stop THEN base[i] ELSE step[<<g[prev[i]], i>>]
    BY <1>6 DEF Equation
  <2>2. prev[i] \in D /\ base[i] = ~PairsEnd(s, i) /\ (i \in Stop <=> NoPair(s, i))
    <3> HIDE DEF D, prev
    <3> QED BY <1>3
  <2>3. step[<<g[prev[i]], i>>] = g[prev[i]]
    <3> HIDE DEF D, prev
    <3> QED BY <2>2
  <2>4. i \notin Stop => prev[i] = NextPair(s, i)
    <3> HIDE DEF D, Stop
    <3> QED OBVIOUS
  <2> HIDE DEF step, prev, base, D, Stop
  <2> QED BY <2>1, <2>2, <2>3, <2>4, Zenon
<1>8. g = turns(g)
  <2>1. turns(g) = [i \in D |-> g[i]]
    <3> HIDE DEF D
    <3> QED BY <1>7, Zenon
  <2> HIDE DEF turns, D
  <2> QED BY <2>1
<1>9. f = turns(f)
  <2> HIDE DEF turns
  <2> QED BY <1>8
<1>10. \A i \in D : ThrowsFrom(s, i) = f[i]
  BY DEF ThrowsFrom
<1> HIDE DEF f
<1>11. \A i \in D : f[i] = IF NoPair(s, i) THEN ~PairsEnd(s, i) ELSE f[NextPair(s, i)]
  <2> HIDE DEF D
  <2> QED BY <1>9
<1> DEFINE S == {k \in Nat : \A i \in D : n + 1 - i = k => f[i] \in BOOLEAN}
<1>12. ASSUME NEW k \in Nat, \A m \in Nat : m < k => m \in S PROVE k \in S
  <2> SUFFICES ASSUME NEW i \in D, n + 1 - i = k PROVE f[i] \in BOOLEAN
    OBVIOUS
  <2>1. CASE NoPair(s, i)
    <3>1. f[i] = ~PairsEnd(s, i)
      BY <1>11, <2>1, Zenon
    <3> QED BY <3>1
  <2>2. CASE ~NoPair(s, i)
    <3> DEFINE m == NextPair(s, i)
    <3>1. f[i] = f[m]
      BY <1>11, <2>2, Zenon
    <3>2. m \in D /\ m > i
      <4>1. i \notin Stop
        BY <2>2
      <4> HIDE DEF D, Stop
      <4> QED BY <1>2, <4>1
    <3> HIDE DEF m
    <3>3. n + 1 - m \in Nat /\ n + 1 - m < k
      BY <1>1, <3>2
    <3> QED BY <1>12, <3>1, <3>2, <3>3
  <2> QED BY <2>1, <2>2
<1>13. Nat \subseteq S
  <2> HIDE DEF S
  <2> QED BY <1>12, StrongInduction
<1> SUFFICES ASSUME NEW i \in D
             PROVE  /\ ThrowsFrom(s, i) \in BOOLEAN
                    /\ PairsEnd(s, i) => ThrowsFrom(s, i) = FALSE
                    /\ ~NoPair(s, i) => ThrowsFrom(s, i) = ThrowsFrom(s, NextPair(s, i))
  OBVIOUS
<1>14. ThrowsFrom(s, i) \in BOOLEAN
  <2>1. n + 1 - i \in Nat
    BY <1>1
  <2>2. f[i] \in BOOLEAN
    <3> HIDE DEF D
    <3> QED BY <1>13, <2>1
  <2> HIDE DEF D
  <2> QED BY <1>10, <2>2
<1>15. PairsEnd(s, i) => ThrowsFrom(s, i) = FALSE
  <2>1. PairsEnd(s, i) => NoPair(s, i)
    BY DEF NoPair
  <2> HIDE DEF D
  <2> QED BY <1>10, <1>11, <2>1, Zenon
<1>16. ~NoPair(s, i) => ThrowsFrom(s, i) = ThrowsFrom(s, NextPair(s, i))
  <2>1. ~NoPair(s, i) => NextPair(s, i) \in D
    <3>1. ~NoPair(s, i) => i \notin Stop
      OBVIOUS
    <3> HIDE DEF D, Stop
    <3> QED BY <1>2, <3>1
  <2> HIDE DEF D
  <2> QED BY <1>10, <1>11, <2>1, Zenon
<1> QED BY <1>14, <1>15, <1>16

\* A character as JSON has it within quotes.
Escaped(c) == IF c \in {"quote", "bs"} THEN <<"bs", c>> ELSE <<c>>

\* A text within quotes is sought through to its end, character by character.
LEMMA EscapeSkipped ==
  ASSUME NEW C, "bs" \in C, NEW x \in Seq(C)
  PROVE  /\ JsonEscape(x) \in Seq(C)
         /\ \A s \in Seq(C) : \A p \in Nat :
              Follows(s, p, JsonEscape(x)) /\ p + Len(JsonEscape(x)) < Len(s) =>
                ClosingQuote(s, p) = ClosingQuote(s, p + Len(JsonEscape(x)))
<1> DEFINE m == Len(x)
           seqs == [i \in 1..m |-> Escaped(x[i])]
           flat == FlattenSeq(seqs)
<1>1. m \in Nat /\ \A i \in 1..m : x[i] \in C
  OBVIOUS
<1>2. seqs \in Seq(Seq(C)) /\ Len(seqs) = m
  <2>1. \A i \in 1..m : Escaped(x[i]) \in Seq(C)
    BY <1>1 DEF Escaped
  <2> DEFINE W == Seq(C)
  <2> HIDE DEF W
  <2>2. seqs \in [1..m -> W]
    BY <2>1 DEF W
  <2> QED BY <1>1, <2>2 DEF W
<1>3. JsonEscape(x) = flat
  BY DEF JsonEscape, Escaped
<1>4. \A i \in 1..m : seqs[i] = Escaped(x[i]) /\ seqs[i] \in Seq(C)
  BY <1>2
<1> HIDE DEF seqs
<1>5. PICK g : Flattens(g, seqs, C)
  BY <1>2, FlattenLoop
<1>6. /\ flat \in Seq(C)
      /\ \A i \in 1..m : /\ Len(g[i - 1]) \in Nat /\ Len(g[i]) = Len(g[i - 1]) + Len(seqs[i])
                         /\ Follows(flat, Len(g[i - 1]), seqs[i])
  BY <1>2, <1>5, FlattenAt
<1>7. Len(g[0]) = 0 /\ g[m] = flat
  BY <1>2, <1>5 DEF Flattens
<1> HIDE DEF flat
<1>8. ASSUME NEW s \in Seq(C), NEW p \in Nat, Follows(s, p, flat), p + Len(flat) < Len(s)
      PROVE  ClosingQuote(s, p) = ClosingQuote(s, p + Len(flat))
  <2> DEFINE At(i) == p + Len(g[i])
             S == {i \in 0..m : ClosingQuote(s, p) = ClosingQuote(s, At(i))}
  <2>1. 0 \in S
    BY <1>1, <1>7
  <2>2. ASSUME NEW i \in 1..m, i - 1 \in S PROVE i \in S
    <3> DEFINE k == Len(g[i - 1])
               r == seqs[i]
               q == p + k
    <3>1. /\ k \in Nat /\ r \in Seq(C) /\ r = Escaped(x[i]) /\ Follows(flat, k, r)
          /\ Len(g[i]) = k + Len(r) /\ ClosingQuote(s, p) = ClosingQuote(s, q)
      BY <1>4, <1>6, <2>2
    <3> HIDE DEF k, r
    <3>2. Follows(s, q, r)
      BY <1>6, <1>8, <3>1, FollowsThrough
    <3>3. Len(flat) \in Nat /\ Len(s) \in Nat /\ Len(r) \in Nat /\ q \in Nat
      BY <1>6, <3>1
    <3>4. q + Len(r) < Len(s)
      BY <1>8, <3>1, <3>3 DEF Follows
    <3>5. q \in 0..Len(s) /\ q # Len(s)
      BY <3>3, <3>4
    <3> HIDE DEF q
    <3>6. ClosingQuote(s, q) = ClosingQuote(s, q + Len(r))
      <4>1. CASE x[i] \in {"quote", "bs"}
        <5>1. r = <<"bs", x[i]>>
          BY <3>1, <4>1 DEF Escaped
        <5>2. Len(r) = 2 /\ r[1] = "bs"
          BY <5>1
        <5>3. s[q + 1] = "bs"
          BY <3>2, <5>2 DEF Follows
        <5>4. Behind(s, q) = q + 2
          BY <3>3, <3>4, <5>2, <5>3 DEF Behind
        <5>5. ClosingQuote(s, q) = ClosingQuote(s, Behind(s, q))
          BY <3>5, <5>3, ClosingQuoteIs
        <5> QED BY <5>2, <5>4, <5>5
      <4>2. CASE x[i] \notin {"quote", "bs"}
        <5>1. r = <<x[i]>>
          BY <3>1, <4>2 DEF Escaped
        <5>2. Len(r) = 1 /\ r[1] = x[i]
          BY <5>1
        <5>3. s[q + 1] = x[i]
          BY <3>2, <5>2 DEF Follows
        <5>4. Behind(s, q) = q + 1
          BY <4>2, <5>3 DEF Behind
        <5>5. ClosingQuote(s, q) = ClosingQuote(s, Behind(s, q))
          BY <3>5, <4>2, <5>3, ClosingQuoteIs
        <5> QED BY <5>2, <5>4, <5>5
      <4> QED BY <4>1, <4>2
    <3>7. At(i) = q + Len(r)
      BY <3>1, <3>3 DEF q
    <3>8. ClosingQuote(s, p) = ClosingQuote(s, At(i))
      <4>1. ClosingQuote(s, p) = ClosingQuote(s, q)
        BY <3>1 DEF q
      <4> HIDE DEF At
      <4> QED BY <3>6, <3>7, <4>1, Zenon
    <3>9. i \in 0..m
      BY <1>1
    <3> HIDE DEF At
    <3> QED BY <3>8, <3>9
  <2>3. 0..m \subseteq S
    <3> HIDE DEF S
    <3> QED BY <1>1, <2>1, <2>2, BoundedInduction
  <2>4. m \in S
    <3>1. m \in 0..m
      BY <1>1
    <3> HIDE DEF S
    <3> QED BY <2>3, <3>1
  <2> QED BY <1>7, <2>4
<1> QED BY <1>3, <1>6, <1>8, Zenon

\* A string in quotes behind the first p characters.
StringAt(s, p, x) ==
  LET e == Len(JsonEscape(x)) IN
  /\ p + e + 2 <= Len(s) /\ s[p + 1] = "quote" /\ s[p + e + 2] = "quote"
  /\ Follows(s, p + 1, JsonEscape(x))

\* It is read from its first quote to its last.
LEMMA StringRead ==
  ASSUME NEW C, "bs" \in C, NEW s \in Seq(C), NEW p \in Nat, NEW x \in Seq(C), StringAt(s, p, x)
  PROVE  LET e == Len(JsonEscape(x)) IN
         /\ e \in Nat /\ ClosingQuote(s, p + 1) = p + e + 1
         /\ SubSeq(s, p + 2, p + e + 1) = JsonEscape(x)
<1> DEFINE y == JsonEscape(x)
           e == Len(y)
           q == p + 1
<1>1. y \in Seq(C)
  BY EscapeSkipped
<1>2. Len(s) \in Nat /\ e \in Nat /\ q \in Nat /\ q + e = p + e + 1 /\ (p + e + 1) + 1 = p + e + 2
  BY <1>1
<1>3. /\ p + e + 2 <= Len(s) /\ s[p + e + 2] = "quote" /\ Follows(s, q, y)
  BY DEF StringAt
<1>4. ClosingQuote(s, q) = ClosingQuote(s, q + e)
  <2>1. q + e < Len(s)
    BY <1>2, <1>3
  <2> HIDE DEF q
  <2> QED BY <1>2, <1>3, <2>1, EscapeSkipped
<1> HIDE DEF y
<1>5. ClosingQuote(s, q + e) = q + e
  <2> DEFINE j == q + e
  <2>1. j \in 0..Len(s) /\ s[j + 1] = "quote"
    BY <1>2, <1>3
  <2> HIDE DEF j
  <2> QED BY <2>1, ClosingQuoteIs DEF j
<1>6. SubSeq(s, p + 2, p + e + 1) = y
  <2> DEFINE h == p + 2
             d == p + e + 1
             part == SubSeq(s, h, d)
  <2>1. h \in 1..Len(s) + 1 /\ d \in h - 1..Len(s) /\ d - h + 1 = e
    BY <1>2, <1>3
  <2>2. \A j \in 1..e : h + j - 1 = q + j
    BY <1>2
  <2> HIDE DEF h, d
  <2>3. /\ part \in Seq(C) /\ Len(part) = d - h + 1
        /\ \A j \in 1..(d - h + 1) : part[j] = s[h + j - 1]
    BY <2>1, PartIs
  <2> HIDE DEF part, q
  <2>4. \A j \in 1..e : part[j] = y[j]
    BY <1>3, <2>1, <2>2, <2>3 DEF Follows
  <2>5. part = y
    <3>1. part \in Seq(C)
      BY <2>3
    <3>2. Len(part) = Len(y)
      BY <2>1, <2>3
    <3> QED BY <1>1, <2>4, <3>1, <3>2
  <2> QED BY <2>5 DEF part, h, d
<1> QED BY <1>2, <1>4, <1>5, <1>6 DEF y

\* The name of a pair behind the first i characters: maybe after a comma, before a colon
\* and what is neither blank nor colon. h is where the name begins, v where the value does.
NameAt(s, i, h, v, name) ==
  /\ h = i \/ (h = i + 1 /\ s[i + 1] \in BeforeName)
  /\ StringAt(s, h, name) /\ v = h + Len(JsonEscape(name)) + 3 /\ v < Len(s)
  /\ s[v] \in BeforeValue /\ s[v + 1] \notin BeforeValue

\* It is read as it is.
LEMMA NameRead ==
  ASSUME NEW C, "bs" \in C, NEW s \in Seq(C), NEW i \in Nat, NEW h \in Nat, NEW v \in Nat,
         NEW name \in Seq(C), NameAt(s, i, h, v, name)
  PROVE  ~NoPair(s, i) /\ ValueStart(s, i) = v /\ PairAt(s, i)[1] = JsonEscape(name)
<1> DEFINE n == Len(s)
           e == Len(JsonEscape(name))
           k == NameStart(s, i)
           c == h + e + 1
<1>1. /\ e \in Nat /\ ClosingQuote(s, h + 1) = c /\ SubSeq(s, h + 2, c) = JsonEscape(name)
  BY StringRead DEF NameAt
<1> HIDE DEF e
<1>2. /\ n \in Nat /\ v = h + e + 3 /\ v < n /\ s[v] \in BeforeValue /\ s[v + 1] \notin BeforeValue
      /\ s[h + 1] = "quote" /\ (h = i \/ (h = i + 1 /\ s[i + 1] \in BeforeName))
  BY DEF NameAt, StringAt, e
<1>20. n \in Nat /\ e \in Nat /\ v = h + e + 3 /\ v < n
  BY <1>1, <1>2
<1>21. i \in Nat /\ h \in Nat /\ (h = i \/ h = i + 1)
  BY <1>2
<1>3. k = h
  <2> DEFINE chars == BeforeName
  <2>1. i < n /\ h \in i..n
    BY <1>20, <1>21
  <2>2. s[h + 1] \notin chars
    <3>1. "quote" \notin chars
      BY Zenon DEF BeforeName, Between
    <3> HIDE DEF chars
    <3> QED BY <1>2, <3>1
  <2> HIDE DEF chars
  <2> DEFINE w == SkipAll(s, i, chars)
  <2>3. /\ w \in i..n /\ (\A j \in i..n : j = n \/ s[j + 1] \notin chars => w <= j)
        /\ (w = n \/ s[w + 1] \notin chars)
    BY <2>1, SkipIs
  <2> HIDE DEF w
  <2>4. w <= h
    BY <2>1, <2>2, <2>3
  <2>5. w = h
    <3>1. CASE h = i
      BY <2>3, <2>4, <3>1
    <3>2. CASE h = i + 1 /\ s[i + 1] \in chars
      <4>1. w # i
        BY <2>1, <2>3, <3>2
      <4> QED BY <2>3, <2>4, <3>2, <4>1
    <3> QED BY <1>2, <3>1, <3>2 DEF chars
  <2> QED BY <2>5 DEF w, chars, NameStart
<1>4. ~NoPair(s, i)
  <2>1. ~(i + 1 >= n) /\ ~(h >= n) /\ c # n
    BY <1>20, <1>21
  <2> HIDE DEF k
  <2>2. ~PairsEnd(s, i)
    BY <1>2, <1>3, <2>1 DEF PairsEnd, k
  <2>3. ~NameOpen(s, i)
    <3> HIDE DEF c
    <3> QED BY <1>1, <1>3, <2>1 DEF NameOpen, k
  <2> QED BY <2>2, <2>3 DEF NoPair
<1>5. ValueStart(s, i) = v
  <2> DEFINE chars == BeforeValue
             d == c + 1
             w == SkipAll(s, d, chars)
  <2>1. ValueStart(s, i) = w
    <3> HIDE DEF k, c
    <3> QED BY <1>1, <1>3 DEF ValueStart, k
  <2>2. d \in Nat /\ d + 1 = v /\ d < n /\ v \in d..n /\ v # n
    BY <1>20, <1>21
  <2>3. s[v + 1] \notin chars /\ s[d + 1] \in chars
    BY <1>2, <2>2
  <2> HIDE DEF chars, d
  <2>4. /\ w \in d..n /\ (\A j \in d..n : j = n \/ s[j + 1] \notin chars => w <= j)
        /\ (w = n \/ s[w + 1] \notin chars)
    BY <2>2, SkipIs
  <2> HIDE DEF w
  <2>5. w <= v
    BY <2>2, <2>3, <2>4
  <2>6. w = v
    BY <1>2, <2>2, <2>3, <2>4, <2>5
  <2> QED BY <2>1, <2>6
<1>6. PairAt(s, i)[1] = JsonEscape(name)
  <2>1. PairAt(s, i)[1] = SubSeq(s, k + 2, ClosingQuote(s, k + 1))
    BY DEF PairAt
  <2> HIDE DEF k, c
  <2> QED BY <1>1, <1>3, <2>1 DEF k
<1> QED BY <1>4, <1>5, <1>6

\* A pair of two strings is read as it is, up to the second one's last quote.
LEMMA PairRead ==
  ASSUME NEW C, "bs" \in C, NEW s \in Seq(C), NEW i \in Nat, NEW h \in Nat, NEW v \in Nat,
         NEW name \in Seq(C), NEW value \in Seq(C),
         NameAt(s, i, h, v, name), StringAt(s, v, value)
  PROVE  /\ PairAt(s, i) = <<JsonEscape(name), JsonEscape(value)>>
         /\ NextPair(s, i) = v + Len(JsonEscape(value)) + 2
<1> DEFINE e == Len(JsonEscape(value))
<1>1. /\ e \in Nat /\ ClosingQuote(s, v + 1) = v + e + 1
      /\ SubSeq(s, v + 2, v + e + 1) = JsonEscape(value)
  BY StringRead
<1> HIDE DEF e
<1>2. ValueStart(s, i) = v /\ PairAt(s, i)[1] = JsonEscape(name)
  BY NameRead
<1>3. ValueQuoted(s, i)
  BY <1>2 DEF ValueQuoted, NameAt, StringAt
<1>4. ValueEnd(s, i) = v + e + 1
  BY <1>1, <1>2, <1>3 DEF ValueEnd
<1>5. NextPair(s, i) = v + e + 2
  BY <1>1, <1>3, <1>4 DEF NextPair
<1>6. PairAt(s, i) = <<PairAt(s, i)[1], JsonEscape(value)>>
  BY <1>1, <1>2, <1>3, <1>4, Zenon DEF PairAt
<1> QED BY <1>2, <1>5, <1>6 DEF e

\* The characters of JSON.
JsonMarks == {"quote", "bs", Colon, Between, Opening, Closing}

\* A string where it is written.
LEMMA StringIsAt ==
  ASSUME NEW C, "quote" \in C, "bs" \in C, NEW x \in Seq(C)
  PROVE  /\ JsonString(x) \in Seq(C) /\ Len(JsonString(x)) = Len(JsonEscape(x)) + 2
         /\ Len(JsonEscape(x)) \in Nat
         /\ \A s, p : s \in Seq(C) /\ p \in Nat /\ Follows(s, p, JsonString(x)) => StringAt(s, p, x)
<1> DEFINE y == JsonEscape(x)
           e == Len(y)
           first == <<"quote">>
           some == first \o y
           all == some \o first
<1>1. y \in Seq(C) /\ e \in Nat /\ first \in Seq(C) /\ Len(first) = 1 /\ first[1] = "quote"
  BY EscapeSkipped
<1> HIDE DEF y, first
<1>2. some \in Seq(C) /\ Len(some) = 1 + e /\ Follows(some, 0, first) /\ Follows(some, 1, y)
  <2>1. some \in Seq(C) /\ Len(some) = Len(first) + Len(y)
    BY <1>1, ConcatProperties
  <2>2. Follows(some, 0, first) /\ Follows(some, Len(first), y)
    BY <1>1, FollowsConcat
  <2> QED BY <1>1, <2>1, <2>2
<1> HIDE DEF some
<1>3. all \in Seq(C) /\ Len(all) = e + 2 /\ Follows(all, 0, some) /\ Follows(all, e + 1, first)
  <2>1. all \in Seq(C) /\ Len(all) = Len(some) + Len(first)
    BY <1>1, <1>2, ConcatProperties
  <2>2. Follows(all, 0, some) /\ Follows(all, Len(some), first)
    BY <1>1, <1>2, FollowsConcat
  <2>3. Len(some) = e + 1
    BY <1>1, <1>2
  <2> QED BY <1>1, <2>1, <2>2, <2>3
<1>4. JsonString(x) = all
  BY DEF JsonString, all, some, first, y
<1> HIDE DEF all
<1>5. ASSUME NEW s \in Seq(C), NEW p \in Nat, Follows(s, p, all) PROVE StringAt(s, p, x)
  <2>0. p + 0 = p /\ 0 \in Nat /\ 1 \in Nat /\ e + 1 \in Nat
    BY <1>1
  <2>1. Follows(s, p, some)
    BY <1>2, <1>3, <1>5, <2>0, FollowsThrough
  <2>2. Follows(s, p + 1, y)
    BY <1>1, <1>2, <2>0, <2>1, FollowsThrough
  <2>3. Follows(s, p, first)
    BY <1>1, <1>2, <2>0, <2>1, FollowsThrough
  <2>4. Follows(s, p + (e + 1), first)
    BY <1>1, <1>3, <1>5, <2>0, FollowsThrough
  <2>5. s[p + 1] = "quote" /\ s[p + (e + 1) + 1] = "quote" /\ p + (e + 1) + 1 <= Len(s)
    BY <1>1, <2>3, <2>4 DEF Follows
  <2>6. p + (e + 1) + 1 = p + e + 2
    BY <1>1
  <2>7. p + e + 2 <= Len(s) /\ s[p + 1] = "quote" /\ s[p + e + 2] = "quote"
    BY <2>5, <2>6
  <2> QED BY <2>2, <2>7 DEF StringAt, y
<1> QED BY <1>1, <1>3, <1>4, <1>5 DEF y

\* Where the parts of a member are.
Parted(s, p, h, q, i, name, value) ==
  /\ h \in Nat /\ q \in Nat /\ q = h + Len(JsonEscape(name)) + 3
  /\ (i = 1 /\ h = p) \/ (i # 1 /\ h = p + 1 /\ s[p + 1] = Between)
  /\ StringAt(s, h, name) /\ s[q] = Colon /\ Follows(s, q, value)
  /\ p + Len(JsonMember(i, name, value)) = q + Len(value)

\* A member is where it is written, part by part.
LEMMA MemberIsAt ==
  ASSUME NEW C, JsonMarks \subseteq C, NEW i, NEW name \in Seq(C), NEW value \in Seq(C)
  PROVE  /\ JsonMember(i, name, value) \in Seq(C)
         /\ \A s, p : s \in Seq(C) /\ p \in Nat /\ Follows(s, p, JsonMember(i, name, value)) =>
              \E h, q : Parted(s, p, h, q, i, name, value)
<1> DEFINE lead == IF i = 1 THEN <<>> ELSE <<Between>>
           string == JsonString(name)
           colon == <<Colon>>
           one == lead \o string
           two == one \o colon
           all == two \o value
           e == Len(JsonEscape(name))
           l == Len(lead)
<1>1. /\ lead \in Seq(C) /\ l \in Nat /\ colon \in Seq(C) /\ Len(colon) = 1 /\ colon[1] = Colon
      /\ (i = 1 /\ l = 0) \/ (i # 1 /\ l = 1 /\ lead[1] = Between)
  BY DEF JsonMarks
<1>2. string \in Seq(C) /\ Len(string) = e + 2 /\ e \in Nat
  BY StringIsAt DEF JsonMarks
<1> HIDE DEF lead, string, colon, e
<1>3. /\ one \in Seq(C) /\ Len(one) = l + Len(string)
      /\ Follows(one, 0, lead) /\ Follows(one, l, string)
  BY <1>1, <1>2, ConcatProperties, FollowsConcat
<1> HIDE DEF one
<1>4. /\ two \in Seq(C) /\ Len(two) = Len(one) + 1
      /\ Follows(two, 0, one) /\ Follows(two, Len(one), colon)
  <2>1. two \in Seq(C) /\ Len(two) = Len(one) + Len(colon)
    BY <1>1, <1>3, ConcatProperties
  <2>2. Follows(two, 0, one) /\ Follows(two, Len(one), colon)
    BY <1>1, <1>3, FollowsConcat
  <2>3. Len(colon) = 1
    BY <1>1
  <2> QED BY <2>1, <2>2, <2>3
<1> HIDE DEF two
<1>5. /\ all \in Seq(C) /\ Len(all) = Len(two) + Len(value)
      /\ Follows(all, 0, two) /\ Follows(all, Len(two), value)
  BY <1>4, ConcatProperties, FollowsConcat
<1>6. JsonMember(i, name, value) = all
  BY DEF JsonMember, all, two, one, lead, string, colon
<1> HIDE DEF all
<1>7. ASSUME NEW s \in Seq(C), NEW p \in Nat, Follows(s, p, all)
      PROVE  \E h, q : Parted(s, p, h, q, i, name, value)
  <2> DEFINE h == p + l
             q == h + e + 3
  <2>0. /\ p + 0 = p /\ 0 \in Nat /\ Len(one) \in Nat /\ Len(two) \in Nat /\ h \in Nat /\ q \in Nat
        /\ p + Len(one) = h + e + 2 /\ p + Len(two) = q
    BY <1>1, <1>2, <1>3, <1>4
  <2>1. Follows(s, p, two)
    BY <1>4, <1>5, <1>7, <2>0, FollowsThrough
  <2>2. Follows(s, q, value)
    BY <1>5, <1>7, <2>0, FollowsThrough
  <2>3. Follows(s, p, one)
    BY <1>3, <1>4, <2>0, <2>1, FollowsThrough
  <2>4. Follows(s, h + e + 2, colon)
    BY <1>1, <1>4, <2>0, <2>1, FollowsThrough
  <2>5. Follows(s, p, lead)
    BY <1>1, <1>3, <2>0, <2>3, FollowsThrough
  <2>6. Follows(s, h, string)
    BY <1>1, <1>2, <1>3, <2>0, <2>3, FollowsThrough
  <2>7. StringAt(s, h, name)
    <3> HIDE DEF h
    <3> QED BY <2>0, <2>6, StringIsAt DEF JsonMarks, string
  <2>8. (i = 1 /\ h = p) \/ (i # 1 /\ h = p + 1 /\ s[p + 1] = Between)
    <3>1. CASE i = 1
      <4>1. l = 0
        BY <1>1, <3>1
      <4> QED BY <2>0, <3>1, <4>1
    <3>2. CASE i # 1
      <4>1. l = 1 /\ lead[1] = Between
        BY <1>1, <3>2
      <4>2. s[p + 1] = lead[1]
        BY <2>5, <4>1 DEF Follows
      <4> QED BY <3>2, <4>1, <4>2
    <3> QED BY <3>1, <3>2
  <2>9. s[q] = Colon
    <3>1. (h + e + 2) + 1 = q
      BY <1>2, <2>0
    <3>2. s[(h + e + 2) + 1] = Colon
      BY <1>1, <2>4 DEF Follows
    <3> QED BY <3>1, <3>2
  <2>10. p + Len(all) = q + Len(value)
    BY <1>5, <2>0
  <2>11. Parted(s, p, h, q, i, name, value)
    <3> HIDE DEF h
    <3> QED BY <1>6, <2>0, <2>2, <2>7, <2>8, <2>9, <2>10 DEF Parted, e
  <2> QED BY <2>11
<1> QED BY <1>5, <1>6, <1>7

\* at says where the members of an object end, the first i of them at at[i].
MembersAt(object, names, values, at) ==
  /\ at[0] = 1 /\ at[Len(names)] \in Nat /\ Len(object) = at[Len(names)] + 1
  /\ object[1] = Opening /\ object[Len(object)] = Closing
  /\ \A i \in 1..Len(names) :
       /\ at[i - 1] \in Nat /\ at[i] = at[i - 1] + Len(JsonMember(i, names[i], values[i]))
       /\ Follows(object, at[i - 1], JsonMember(i, names[i], values[i]))

\* An object is its members, one behind the other.
LEMMA ObjectIs ==
  ASSUME NEW C, JsonMarks \subseteq C, NEW names \in Seq(Seq(C)), NEW values \in Seq(Seq(C)),
         Len(names) = Len(values)
  PROVE  /\ JsonObject(names, values) \in Seq(C)
         /\ \E at : MembersAt(JsonObject(names, values), names, values, at)
<1> DEFINE m == Len(names)
           member(i) == JsonMember(i, names[i], values[i])
           seqs == [i \in 1..m |-> member(i)]
           flat == FlattenSeq(seqs)
           first == <<Opening>>
           last == <<Closing>>
           some == first \o flat
           all == some \o last
           W == Seq(C)
<1>1. m \in Nat /\ \A i \in 1..m : names[i] \in Seq(C) /\ values[i] \in Seq(C)
  <2>1. names \in Seq(W) /\ values \in Seq(W)
    OBVIOUS
  <2> HIDE DEF W
  <2>2. m \in Nat /\ \A i \in 1..m : names[i] \in W /\ values[i] \in W
    BY <2>1
  <2> QED BY <2>2 DEF W
<1>2. \A i \in 1..m : member(i) \in Seq(C)
  BY <1>1, MemberIsAt
<1>3. seqs \in Seq(Seq(C)) /\ Len(seqs) = m
  <2> HIDE DEF member, W
  <2>1. seqs \in [1..m -> W]
    BY <1>2 DEF W
  <2> HIDE DEF seqs, m
  <2>2. m \in Nat
    BY <1>1
  <2>3. seqs \in Seq(W) /\ Len(seqs) = m
    BY <2>1, <2>2
  <2> QED BY <2>3 DEF W
<1>4. \A i \in 1..m : seqs[i] = member(i)
  BY <1>3
<1> HIDE DEF member
<1>5. JsonObject(names, values) = all
  BY DEF JsonObject, member
<1> HIDE DEF seqs
<1>6. PICK g : Flattens(g, seqs, C)
  BY <1>3, FlattenLoop
<1>7. /\ flat \in Seq(C)
      /\ \A i \in 1..m : /\ Len(g[i - 1]) \in Nat /\ Len(g[i]) = Len(g[i - 1]) + Len(seqs[i])
                         /\ Follows(flat, Len(g[i - 1]), seqs[i])
  BY <1>3, <1>6, FlattenAt
<1>8. Len(g[0]) = 0 /\ g[m] = flat
  BY <1>3, <1>6 DEF Flattens
<1>9. /\ first \in Seq(C) /\ Len(first) = 1 /\ first[1] = Opening
      /\ last \in Seq(C) /\ Len(last) = 1 /\ last[1] = Closing
  BY DEF JsonMarks
<1>10. Len(flat) \in Nat
  BY <1>7
<1> HIDE DEF flat, first, last
<1>11. some \in Seq(C) /\ Len(some) = Len(first) + Len(flat)
  BY <1>7, <1>9, ConcatProperties
<1>12. Follows(some, 0, first) /\ Follows(some, Len(first), flat)
  BY <1>7, <1>9, FollowsConcat
<1> HIDE DEF some
<1>13. all \in Seq(C) /\ Len(all) = Len(some) + Len(last)
  BY <1>9, <1>11, ConcatProperties
<1>14. Follows(all, 0, some) /\ Follows(all, Len(some), last)
  BY <1>9, <1>11, FollowsConcat
<1> HIDE DEF all
<1>15. /\ Len(first) = 1 /\ Len(some) = 1 + Len(flat) /\ Len(all) = 1 + Len(flat) + 1
       /\ 0 + 0 = 0 /\ 0 + 1 = 1
  BY <1>9, <1>10, <1>11, <1>13
<1>16. Follows(all, 0, first) /\ Follows(all, 1, flat)
  <2>1. Follows(all, 0 + 0, first)
    <3>1. 0 \in Nat
      OBVIOUS
    <3> QED BY <1>9, <1>11, <1>12, <1>13, <1>14, <3>1, FollowsThrough
  <2>2. Follows(all, 0 + 1, flat)
    <3>1. 0 \in Nat /\ 1 \in Nat /\ Follows(some, 1, flat)
      BY <1>12, <1>15
    <3> QED BY <1>7, <1>11, <1>13, <1>14, <3>1, FollowsThrough
  <2> QED BY <1>15, <2>1, <2>2
<1>17. all[1] = Opening /\ all[Len(all)] = Closing
  <2>1. all[0 + 1] = first[1] /\ all[Len(some) + 1] = last[1]
    BY <1>9, <1>14, <1>16 DEF Follows
  <2>2. 0 + 1 = 1 /\ Len(some) + 1 = Len(all)
    BY <1>10, <1>15
  <2> QED BY <1>9, <2>1, <2>2
<1> DEFINE at == [i \in 0..m |-> 1 + Len(g[i])]
<1>18. \A i \in 0..m : at[i] = 1 + Len(g[i])
  OBVIOUS
<1>19. at[0] = 1 /\ at[m] = 1 + Len(flat)
  <2>1. 0 \in 0..m /\ m \in 0..m /\ 1 + 0 = 1
    BY <1>1
  <2> HIDE DEF at
  <2> QED BY <1>8, <1>18, <2>1
<1> HIDE DEF at
<1>20. ASSUME NEW i \in 1..m
       PROVE  /\ at[i - 1] \in Nat /\ at[i] = at[i - 1] + Len(member(i))
              /\ Follows(all, at[i - 1], member(i))
  <2> DEFINE k == Len(g[i - 1])
             r == member(i)
  <2>1. i \in 0..m /\ i - 1 \in 0..m
    BY <1>1
  <2>2. k \in Nat /\ Len(g[i]) = k + Len(r) /\ Follows(flat, k, r) /\ r \in Seq(C)
    BY <1>2, <1>4, <1>7
  <2>3. at[i] = 1 + Len(g[i]) /\ at[i - 1] = 1 + k
    BY <1>18, <2>1
  <2> HIDE DEF k, r
  <2>4. Follows(all, 1 + k, r)
    <3>1. 1 \in Nat
      OBVIOUS
    <3> QED BY <1>7, <1>13, <1>16, <2>2, <3>1, FollowsThrough
  <2>5. Len(r) \in Nat
    BY <2>2
  <2>6. at[i] = at[i - 1] + Len(r) /\ at[i - 1] \in Nat
    BY <2>2, <2>3, <2>5
  <2>7. Follows(all, at[i - 1], r)
    BY <2>3, <2>4
  <2> QED BY <2>6, <2>7 DEF r
<1>21. MembersAt(all, names, values, at)
  <2>1. at[m] \in Nat /\ Len(all) = at[m] + 1
    BY <1>10, <1>15, <1>19
  <2> HIDE DEF m
  <2> QED BY <1>17, <1>19, <1>20, <2>1 DEF MembersAt, member, m
<1> QED BY <1>5, <1>13, <1>21

\* A line without blanks around it is not changed by trimming.
LEMMA TrimSame ==
  ASSUME NEW C, NEW s \in Seq(C), s # <<>>, s[1] # "sp", s[Len(s)] # "sp"
  PROVE  Trim(s) = s
<1> DEFINE n == Len(s)
           S == {i \in 1..n : s[i] # "sp"}
<1>1. n \in Nat /\ n # 0
  OBVIOUS
<1>2. 1 \in S /\ n \in S /\ S \subseteq Nat /\ S \subseteq 0..n
  BY <1>1
<1>3. Min(S) \in S /\ Min(S) <= 1 /\ Max(S) \in S /\ n <= Max(S)
  <2> HIDE DEF S
  <2>1. S # {}
    BY <1>2
  <2>2. Min(S) \in S /\ \A j \in S : Min(S) <= j
    BY <1>2, <2>1, LeastIs
  <2>3. Max(S) \in S /\ \A j \in S : j <= Max(S)
    BY <1>1, <1>2, <2>1, GreatestIs
  <2> QED BY <1>2, <2>2, <2>3
<1>4. Min(S) = 1 /\ Max(S) = n
  <2> DEFINE p == Min(S)
             q == Max(S)
  <2> HIDE DEF p, q
  <2>1. p \in 1..n /\ q \in 1..n
    BY <1>3 DEF p, q
  <2>2. p <= 1 /\ n <= q
    BY <1>3 DEF p, q
  <2>3. p = 1 /\ q = n
    BY <1>1, <2>1, <2>2
  <2> QED BY <2>3 DEF p, q
<1>5. Trim(s) = SubSeq(s, 1, n)
  <2>1. S # {}
    BY <1>2
  <2>2. Trim(s) = SubSeq(s, Min(S), Max(S))
    BY <2>1, Zenon DEF Trim
  <2> QED BY <1>4, <2>2
<1> QED BY <1>5, SubSeqFull

\* The pair that a member whose value is a string is read as.
TextPair(name, x) == <<JsonEscape(name), JsonEscape(x)>>

\* A member whose value is a string is read as it is, where it is written.
LEMMA MemberRead ==
  ASSUME NEW C, JsonMarks \subseteq C, NEW s \in Seq(C), NEW p \in Nat, NEW i,
         NEW name \in Seq(C), NEW x \in Seq(C), Follows(s, p, JsonMember(i, name, JsonString(x))),
         p + Len(JsonMember(i, name, JsonString(x))) < Len(s)
  PROVE  /\ ~NoPair(s, p) /\ PairAt(s, p) = TextPair(name, x)
         /\ NextPair(s, p) = p + Len(JsonMember(i, name, JsonString(x)))
<1> DEFINE value == JsonString(x)
           e == Len(JsonEscape(x))
<1>1. /\ "quote" \in C /\ "bs" \in C
  BY DEF JsonMarks
<1>2. value \in Seq(C) /\ Len(value) = e + 2 /\ e \in Nat
  BY <1>1, StringIsAt
<1>3. PICK h, q : Parted(s, p, h, q, i, name, value)
  <2> DEFINE member == JsonMember(i, name, value)
  <2>1. Follows(s, p, member)
    OBVIOUS
  <2>2. value \in Seq(C)
    BY <1>2
  <2> HIDE DEF value
  <2>3. \A u, w : u \in Seq(C) /\ w \in Nat /\ Follows(u, w, member) =>
                  \E h, q : Parted(u, w, h, q, i, name, value)
    BY <2>2, MemberIsAt
  <2> HIDE DEF member
  <2> QED BY <2>1, <2>3
<1>4. /\ h \in Nat /\ q \in Nat /\ q = h + Len(JsonEscape(name)) + 3
      /\ (i = 1 /\ h = p) \/ (i # 1 /\ h = p + 1 /\ s[p + 1] = Between)
      /\ StringAt(s, h, name) /\ s[q] = Colon /\ Follows(s, q, value)
      /\ p + Len(JsonMember(i, name, value)) = q + Len(value)
  BY <1>3 DEF Parted
<1>5. StringAt(s, q, x)
  BY <1>1, <1>4, StringIsAt
<1>6. s[q + 1] = "quote" /\ q < Len(s)
  <2>1. q + e + 2 <= Len(s) /\ s[q + 1] = "quote"
    BY <1>5 DEF StringAt
  <2>2. Len(s) \in Nat
    OBVIOUS
  <2> QED BY <1>2, <1>4, <2>1, <2>2
<1>7. Between \in BeforeName /\ Colon \in BeforeValue /\ "quote" \notin BeforeValue
  BY Zenon DEF BeforeName, BeforeValue, Colon
<1>8. NameAt(s, p, h, q, name)
  BY <1>4, <1>6, <1>7 DEF NameAt
<1>9. ~NoPair(s, p)
  <2>1. h \in Nat /\ q \in Nat
    BY <1>4
  <2> HIDE DEF value, e
  <2> QED BY <1>1, <1>8, <2>1, NameRead
<1>10. PairAt(s, p) = TextPair(name, x) /\ NextPair(s, p) = q + e + 2
  <2>1. h \in Nat /\ q \in Nat
    BY <1>4
  <2>2. "bs" \in C
    BY <1>1
  <2> HIDE DEF value
  <2> QED BY <1>5, <1>8, <2>1, <2>2, PairRead DEF TextPair
<1>11. p + Len(JsonMember(i, name, value)) = q + e + 2
  <2>1. q + Len(value) = q + e + 2
    BY <1>2, <1>4
  <2> QED BY <1>4, <2>1
<1> QED BY <1>9, <1>10, <1>11

\* From at[lo] to at[hi] there are members whose values are strings, and more behind.
RunAt(s, at, lo, hi, names, texts, C) ==
  /\ at[hi] \in Nat /\ at[hi] < Len(s)
  /\ \A i \in lo + 1..hi :
       /\ names[i] \in Seq(C) /\ texts[i] \in Seq(C) /\ at[i - 1] \in Nat /\ at[i] < Len(s)
       /\ at[i] = at[i - 1] + Len(JsonMember(i, names[i], JsonString(texts[i])))
       /\ Follows(s, at[i - 1], JsonMember(i, names[i], JsonString(texts[i])))

\* The pairs of such members, and the rest behind them.
RunPairs(all, rest, lo, hi, names, texts) ==
  /\ Len(all) = (hi - lo) + Len(rest) /\ Len(rest) \in Nat /\ Follows(all, hi - lo, rest)
  /\ \A i \in lo + 1..hi : all[i - lo] = TextPair(names[i], texts[i])

\* They lie within the text.
LEMMA RunPlaces ==
  ASSUME NEW C, JsonMarks \subseteq C, NEW s \in Seq(C), NEW lo \in Nat, NEW hi \in Nat, lo <= hi,
         NEW at, NEW names, NEW texts, RunAt(s, at, lo, hi, names, texts, C)
  PROVE  \A i \in lo..hi : at[i] \in 0..Len(s) + 1
<1> SUFFICES ASSUME NEW i \in lo..hi PROVE at[i] \in 0..Len(s) + 1
  OBVIOUS
<1>1. CASE i = hi
  BY <1>1 DEF RunAt
<1>2. CASE i # hi
  <2> DEFINE k == i + 1
             r == JsonMember(k, names[k], JsonString(texts[k]))
  <2>1. k \in lo + 1..hi /\ k - 1 = i
    BY <1>2
  <2> HIDE DEF k
  <2>2. at[i] \in Nat /\ Follows(s, at[i], r) /\ names[k] \in Seq(C) /\ texts[k] \in Seq(C)
    BY <2>1 DEF RunAt
  <2>3. JsonString(texts[k]) \in Seq(C)
    BY <2>2, StringIsAt DEF JsonMarks
  <2>4. r \in Seq(C)
    BY <2>2, <2>3, MemberIsAt
  <2> HIDE DEF r
  <2>5. Len(r) \in Nat /\ Len(s) \in Nat
    BY <2>4
  <2> QED BY <2>2, <2>5 DEF Follows
<1> QED BY <1>1, <1>2

\* Each is read as it is, and leads to the next.
LEMMA RunTurn ==
  ASSUME NEW C, JsonMarks \subseteq C, NEW s \in Seq(C), NEW lo \in Nat, NEW hi \in Nat, lo <= hi,
         NEW at, NEW names, NEW texts, RunAt(s, at, lo, hi, names, texts, C),
         NEW k \in lo + 1..hi
  PROVE  /\ ~NoPair(s, at[k - 1]) /\ PairAt(s, at[k - 1]) = TextPair(names[k], texts[k])
         /\ NextPair(s, at[k - 1]) = at[k]
<1> DEFINE p == at[k - 1]
           r == JsonMember(k, names[k], JsonString(texts[k]))
<1>1. /\ names[k] \in Seq(C) /\ texts[k] \in Seq(C) /\ p \in Nat /\ at[k] < Len(s)
      /\ at[k] = p + Len(r) /\ Follows(s, p, r)
  BY DEF RunAt
<1> HIDE DEF p
<1>2. p + Len(r) < Len(s)
  BY <1>1
<1>3. /\ ~NoPair(s, p) /\ PairAt(s, p) = TextPair(names[k], texts[k])
      /\ NextPair(s, p) = p + Len(r)
  BY <1>1, <1>2, MemberRead
<1> QED BY <1>1, <1>3 DEF p

\* The reading is left by the exception in front of them if and only if it is behind them.
LEMMA RunThrows ==
  ASSUME NEW C, JsonMarks \subseteq C, NEW s \in Seq(C), NEW lo \in Nat, NEW hi \in Nat, lo <= hi,
         NEW at, NEW names, NEW texts, RunAt(s, at, lo, hi, names, texts, C)
  PROVE  ThrowsFrom(s, at[lo]) = ThrowsFrom(s, at[hi])
<1> DEFINE m == hi - lo
           S == {j \in 0..m : ThrowsFrom(s, at[lo]) = ThrowsFrom(s, at[lo + j])}
<1>1. m \in Nat /\ lo + m = hi /\ lo + 0 = lo
  OBVIOUS
<1>2. 0 \in S
  BY <1>1
<1>3. ASSUME NEW j \in 1..m, j - 1 \in S PROVE j \in S
  <2> DEFINE k == lo + j
             p == at[k - 1]
  <2>1. k \in lo + 1..hi /\ k - 1 = lo + (j - 1) /\ k - 1 \in lo..hi /\ j \in 0..m /\ k = lo + j
    BY <1>1
  <2> HIDE DEF k
  <2>2. p \in 0..Len(s) + 1
    BY <2>1, RunPlaces
  <2>3. ~NoPair(s, p) /\ NextPair(s, p) = at[k]
    BY <2>1, RunTurn
  <2> HIDE DEF p
  <2>4. ThrowsFrom(s, p) = ThrowsFrom(s, at[k])
    BY <2>2, <2>3, ThrowsAre
  <2>5. ThrowsFrom(s, at[lo]) = ThrowsFrom(s, at[k])
    BY <1>3, <2>1, <2>4 DEF p
  <2> QED BY <2>1, <2>5
<1>4. m \in S
  <2> HIDE DEF S
  <2>1. 0..m \subseteq S
    BY <1>1, <1>2, <1>3, BoundedInduction
  <2>2. m \in 0..m
    BY <1>1
  <2> QED BY <2>1, <2>2
<1> QED BY <1>1, <1>4

\* They are read one after the other, and then what is behind them.
LEMMA RunRead ==
  ASSUME NEW C, JsonMarks \subseteq C, NEW s \in Seq(C), NEW lo \in Nat, NEW hi \in Nat, lo <= hi,
         NEW at, NEW names, NEW texts, RunAt(s, at, lo, hi, names, texts, C)
  PROVE  RunPairs(PairsFrom(s, at[lo]), PairsFrom(s, at[hi]), lo, hi, names, texts)
<1> DEFINE from(i) == PairsFrom(s, at[lo + i])
           all == from(0)
           m == hi - lo
           pair(i) == TextPair(names[lo + i], texts[lo + i])
           P == SomePairs(s)
           S == {j \in 0..m : /\ Len(all) = j + Len(from(j)) /\ Follows(all, j, from(j))
                              /\ \A i \in 1..j : all[i] = pair(i)}
<1>1. m \in Nat /\ Len(s) \in Nat /\ lo + m = hi /\ lo + 0 = lo
  OBVIOUS
<1>2. ASSUME NEW i \in 0..m PROVE at[lo + i] \in 0..Len(s) + 1
  <2>1. lo + i \in lo..hi
    BY <1>1
  <2> QED BY <2>1, RunPlaces
<1>3. \A i \in 0..m : from(i) \in Seq(P)
  <2> HIDE DEF P
  <2> QED BY <1>2, PairsFromAre DEF P
<1>4. 0 \in S
  <2>1. all \in Seq(P) /\ 0 \in 0..m
    BY <1>1, <1>3
  <2> HIDE DEF P, pair, from
  <2>2. Len(all) = 0 + Len(all) /\ Follows(all, 0, all)
    BY <2>1 DEF Follows
  <2> QED BY <2>1, <2>2
<1>5. ASSUME NEW j \in 1..m, j - 1 \in S PROVE j \in S
  <2> DEFINE p == at[lo + (j - 1)]
             k == lo + j
             f == from(j - 1)
             rest == from(j)
             one == <<pair(j)>>
  <2>1. /\ k \in lo + 1..hi /\ k - 1 = lo + (j - 1) /\ j - 1 \in 0..m /\ j \in 0..m
        /\ k = lo + j
    BY <1>1
  <2>3. ~NoPair(s, p) /\ PairAt(s, p) = pair(j) /\ NextPair(s, p) = at[k]
    <3> HIDE DEF k
    <3>1. /\ ~NoPair(s, at[k - 1]) /\ PairAt(s, at[k - 1]) = TextPair(names[k], texts[k])
          /\ NextPair(s, at[k - 1]) = at[k]
      BY <2>1, RunTurn
    <3> QED BY <2>1, <3>1 DEF k
  <2>4. f = one \o rest
    <3>1. p \in 0..Len(s) + 1
      BY <1>2, <2>1
    <3>2. f = PairsFrom(s, p) /\ rest = PairsFrom(s, at[k])
      OBVIOUS
    <3> HIDE DEF p, f, rest, k, pair
    <3>3. PairsFrom(s, p) = <<PairAt(s, p)>> \o PairsFrom(s, NextPair(s, p))
      BY <2>3, <3>1, PairsFromAre
    <3> QED BY <2>3, <3>2, <3>3
  <2>5. f \in Seq(P) /\ rest \in Seq(P) /\ all \in Seq(P)
    <3>1. 0 \in 0..m
      BY <1>1
    <3> HIDE DEF from, P
    <3> QED BY <1>3, <2>1, <3>1
  <2>6. pair(j) \in P
    <3>1. p \in 0..Len(s) + 1
      BY <1>2, <2>1
    <3> HIDE DEF p, pair
    <3> QED BY <2>3, <3>1 DEF SomePairs
  <2>7. /\ Len(all) = (j - 1) + Len(f) /\ Follows(all, j - 1, f)
        /\ \A i \in 1..j - 1 : all[i] = pair(i)
    BY <1>5
  <2> HIDE DEF f, rest, all, pair, P, from
  <2>8. one \in Seq(P) /\ Len(one) = 1 /\ one[1] = pair(j)
    BY <2>6
  <2> HIDE DEF one
  <2>9. Len(f) = Len(one) + Len(rest)
    BY <2>4, <2>5, <2>8, ConcatProperties
  <2>10. Follows(f, 0, one) /\ Follows(f, Len(one), rest)
    BY <2>4, <2>5, <2>8, FollowsConcat
  <2>11. Follows(all, (j - 1) + 1, rest) /\ Follows(all, (j - 1) + 0, one)
    <3>1. j - 1 \in Nat /\ 1 \in Nat /\ 0 \in Nat /\ Follows(f, 1, rest)
      BY <2>8, <2>10
    <3> QED BY <2>5, <2>7, <2>8, <2>10, <3>1, FollowsThrough
  <2>12. Len(all) = j + Len(rest) /\ Follows(all, j, rest) /\ all[j] = pair(j)
    <3>1. Len(rest) \in Nat /\ (j - 1) + 1 = j /\ (j - 1) + 0 = j - 1
      BY <2>5
    <3>2. Len(f) = 1 + Len(rest) /\ Len(one) = 1
      BY <2>8, <2>9
    <3>3. Len(all) = j + Len(rest)
      BY <2>7, <3>1, <3>2
    <3>4. Follows(all, j - 1, one) /\ Follows(all, j, rest)
      BY <2>11, <3>1
    <3>5. all[(j - 1) + 1] = one[1]
      BY <3>2, <3>4 DEF Follows
    <3> QED BY <2>8, <3>1, <3>3, <3>4, <3>5
  <2>13. \A i \in 1..j : all[i] = pair(i)
    <3> TAKE i \in 1..j
    <3>1. i = j \/ i \in 1..j - 1
      OBVIOUS
    <3> QED BY <2>7, <2>12, <3>1
  <2> QED BY <2>1, <2>12, <2>13 DEF rest
<1>6. m \in S
  <2> HIDE DEF S
  <2>1. 0..m \subseteq S
    BY <1>1, <1>4, <1>5, BoundedInduction
  <2>2. m \in 0..m
    BY <1>1
  <2> QED BY <2>1, <2>2
<1>7. /\ Len(all) = m + Len(from(m)) /\ Follows(all, m, from(m)) /\ \A i \in 1..m : all[i] = pair(i)
  <2> HIDE DEF from, pair, m
  <2> QED BY <1>6
<1>8. Len(from(m)) \in Nat
  <2>1. m \in 0..m
    BY <1>1
  <2> HIDE DEF from, m, P
  <2> QED BY <1>3, <2>1
<1>9. from(m) = PairsFrom(s, at[hi]) /\ all = PairsFrom(s, at[lo])
  BY <1>1
<1> HIDE DEF all, from
<1>10. ASSUME NEW i \in lo + 1..hi PROVE all[i - lo] = TextPair(names[i], texts[i])
  <2>1. i - lo \in 1..m /\ lo + (i - lo) = i
    BY <1>1
  <2>2. all[i - lo] = pair(i - lo)
    <3> HIDE DEF pair
    <3> QED BY <1>7, <2>1
  <2> QED BY <2>1, <2>2
<1> QED BY <1>7, <1>8, <1>9, <1>10 DEF RunPairs

\* No member is empty.
LEMMA MemberLong ==
  ASSUME NEW C, JsonMarks \subseteq C, NEW i, NEW name \in Seq(C), NEW value \in Seq(C)
  PROVE  Len(JsonMember(i, name, value)) \in Nat /\ Len(JsonMember(i, name, value)) > 0
<1> DEFINE r == JsonMember(i, name, value)
           e == Len(JsonEscape(name))
<1>1. r \in Seq(C) /\ Follows(r, 0, r) => \E h, q : Parted(r, 0, h, q, i, name, value)
  <2> DEFINE s == r
  <2>1. \A u, w : u \in Seq(C) /\ w \in Nat /\ Follows(u, w, r) =>
                  \E h, q : Parted(u, w, h, q, i, name, value)
    BY MemberIsAt
  <2>2. 0 \in Nat
    OBVIOUS
  <2> HIDE DEF r
  <2> QED BY <2>1, <2>2
<1>2. r \in Seq(C)
  BY MemberIsAt
<1>3. e \in Nat
  BY StringIsAt DEF JsonMarks
<1> HIDE DEF r, e
<1>4. Follows(r, 0, r)
  BY <1>2 DEF Follows
<1>5. PICK h, q : Parted(r, 0, h, q, i, name, value)
  BY <1>1, <1>2, <1>4
<1>6. h \in Nat /\ q = h + e + 3 /\ 0 + Len(r) = q + Len(value)
  BY <1>5 DEF Parted, r, e
<1>7. Len(r) \in Nat /\ Len(value) \in Nat
  BY <1>2
<1>8. Len(r) > 0
  BY <1>3, <1>6, <1>7
<1> QED BY <1>7, <1>8 DEF r

\* All members end before the end of the object.
LEMMA MembersInside ==
  ASSUME NEW C, JsonMarks \subseteq C, NEW names \in Seq(Seq(C)), NEW values \in Seq(Seq(C)),
         Len(names) = Len(values), NEW object \in Seq(C), NEW at,
         MembersAt(object, names, values, at)
  PROVE  \A i \in 0..Len(names) : at[i] \in Nat /\ at[i] < Len(object)
<1> SUFFICES ASSUME NEW i \in 0..Len(names) PROVE at[i] \in Nat /\ at[i] < Len(object)
  OBVIOUS
<1> DEFINE m == Len(names)
           W == Seq(C)
<1>1. m \in Nat /\ Len(object) \in Nat
  OBVIOUS
<1>2. CASE i = m
  BY <1>1, <1>2 DEF MembersAt
<1>3. CASE i # m
  <2> DEFINE k == i + 1
             r == JsonMember(k, names[k], values[k])
  <2>1. k \in 1..m /\ k - 1 = i
    BY <1>1, <1>3
  <2>2. names[k] \in Seq(C) /\ values[k] \in Seq(C)
    <3>1. names \in Seq(W) /\ values \in Seq(W) /\ k \in 1..Len(names) /\ k \in 1..Len(values)
      BY <2>1
    <3> HIDE DEF W, k
    <3>2. names[k] \in W /\ values[k] \in W
      BY <3>1
    <3> QED BY <3>2 DEF W
  <2> HIDE DEF k
  <2>3. Len(r) \in Nat /\ Len(r) > 0
    BY <2>2, MemberLong
  <2>4. at[i] \in Nat /\ Follows(object, at[i], r)
    BY <2>1 DEF MembersAt
  <2> HIDE DEF r
  <2>5. at[i] + Len(r) <= Len(object)
    BY <2>4 DEF Follows
  <2> QED BY <1>1, <2>3, <2>4, <2>5
<1> QED BY <1>2, <1>3

\* Texts as strings.
Strings(texts) == [i \in 1..Len(texts) |-> JsonString(texts[i])]

\* They are as many, each written as a string.
LEMMA StringsAre ==
  ASSUME NEW C, "quote" \in C, "bs" \in C, NEW texts \in Seq(Seq(C))
  PROVE  /\ Strings(texts) \in Seq(Seq(C)) /\ Len(Strings(texts)) = Len(texts)
         /\ \A i \in 1..Len(texts) : /\ texts[i] \in Seq(C) /\ JsonString(texts[i]) \in Seq(C)
                                     /\ Strings(texts)[i] = JsonString(texts[i])
<1> DEFINE m == Len(texts)
           W == Seq(C)
           ss == Strings(texts)
<1>1. m \in Nat /\ \A i \in 1..m : texts[i] \in Seq(C)
  <2>1. texts \in Seq(W)
    OBVIOUS
  <2> HIDE DEF W
  <2>2. m \in Nat /\ \A i \in 1..m : texts[i] \in W
    BY <2>1
  <2> QED BY <2>2 DEF W
<1>2. \A i \in 1..m : JsonString(texts[i]) \in Seq(C)
  BY <1>1, StringIsAt
<1>3. \A i \in 1..m : ss[i] = JsonString(texts[i])
  BY DEF Strings
<1>4. ss \in Seq(W) /\ Len(ss) = m
  <2>1. \A i \in 1..m : JsonString(texts[i]) \in W
    BY <1>2
  <2>2. m \in Nat
    BY <1>1
  <2> HIDE DEF W
  <2>3. ss \in [1..m -> W]
    BY <2>1 DEF Strings
  <2> HIDE DEF ss, m
  <2> QED BY <2>2, <2>3
<1> QED BY <1>1, <1>2, <1>3, <1>4

\* What surrounds the fields in the line of an event.
OuterNames(names) == Append(names, <<"fields">>)
OuterValues(texts, object) == Append(Strings(texts), object)

\* A line of JSON whose object has members of texts first and then another object.
LineAt(line, names, texts, object, at, C) ==
  /\ line \in Seq(C) /\ object \in Seq(C) /\ object # <<>> /\ object[1] = Opening
  /\ Trim(line) = line /\ JsonPairs(line) = ReadFrom(line, at[0])
  /\ RunAt(line, at, 0, Len(names), names, texts, C)
  /\ Follows(line, at[Len(names)], JsonMember(Len(names) + 1, <<"fields">>, object))

\* The line of an event is one.
LEMMA LineIs ==
  ASSUME NEW C, JsonMarks \subseteq C, "fields" \in C,
         NEW names \in Seq(Seq(C)), NEW texts \in Seq(Seq(C)), Len(names) = Len(texts), NEW object \in Seq(C),
         object # <<>>, object[1] = Opening
  PROVE  \E at : LineAt(JsonObject(OuterNames(names), OuterValues(texts, object)),
                       names, texts, object, at, C)
<1> DEFINE m == Len(names)
           W == Seq(C)
           ns == OuterNames(names)
           vs == OuterValues(texts, object)
           line == JsonObject(ns, vs)
           last == <<"fields">>
<1>1. m \in Nat /\ \A i \in 1..m : names[i] \in Seq(C)
  <2>1. names \in Seq(W)
    OBVIOUS
  <2> HIDE DEF W
  <2>2. m \in Nat /\ \A i \in 1..m : names[i] \in W
    BY <2>1
  <2> QED BY <2>2 DEF W
<1>2. /\ Strings(texts) \in Seq(Seq(C)) /\ Len(Strings(texts)) = m
      /\ \A i \in 1..m : texts[i] \in Seq(C) /\ Strings(texts)[i] = JsonString(texts[i])
  BY StringsAre DEF JsonMarks
<1>3. last \in Seq(C)
  OBVIOUS
<1> HIDE DEF last
<1>4. /\ ns \in Seq(W) /\ Len(ns) = m + 1 /\ ns[m + 1] = last /\ \A i \in 1..m : ns[i] = names[i]
  <2>1. names \in Seq(W) /\ last \in W
    BY <1>3
  <2>2. ns = Append(names, last)
    BY DEF OuterNames, last
  <2> HIDE DEF W, ns
  <2> QED BY <2>1, <2>2
<1>5. /\ vs \in Seq(W) /\ Len(vs) = m + 1 /\ vs[m + 1] = object
      /\ \A i \in 1..m : vs[i] = JsonString(texts[i])
  <2> DEFINE ss == Strings(texts)
  <2>1. ss \in Seq(W) /\ object \in W
    BY <1>2
  <2>2. vs = Append(ss, object)
    BY DEF OuterValues
  <2>3. m \in Nat /\ Len(ss) = m /\ \A i \in 1..m : ss[i] = JsonString(texts[i])
    BY <1>1, <1>2
  <2> HIDE DEF W, vs, ss, m
  <2>4. vs \in Seq(W) /\ Len(vs) = m + 1 /\ vs[m + 1] = object
    BY <2>1, <2>2, <2>3
  <2>5. \A i \in 1..m : vs[i] = ss[i]
    BY <2>1, <2>2, <2>3
  <2> QED BY <2>3, <2>4, <2>5
<1>6. ns \in Seq(Seq(C)) /\ vs \in Seq(Seq(C)) /\ Len(ns) = Len(vs)
  BY <1>4, <1>5
<1> HIDE DEF ns, vs, W, m
<1>7. line \in Seq(C)
  BY <1>6, ObjectIs
<1>8. PICK at : MembersAt(line, ns, vs, at)
  BY <1>6, ObjectIs
<1>9. \A i \in 0..Len(ns) : at[i] \in Nat /\ at[i] < Len(line)
  BY <1>6, <1>7, <1>8, MembersInside
<1> HIDE DEF line
<1>10. /\ at[0] = 1 /\ line[1] = Opening /\ line[Len(line)] = Closing
       /\ \A i \in 1..m + 1 :
            /\ at[i - 1] \in Nat /\ at[i] = at[i - 1] + Len(JsonMember(i, ns[i], vs[i]))
            /\ Follows(line, at[i - 1], JsonMember(i, ns[i], vs[i]))
  BY <1>4, <1>8 DEF MembersAt
<1>11. Len(line) \in Nat /\ Len(line) > 1
  <2>1. 0 \in 0..Len(ns)
    BY <1>1, <1>4
  <2>2. at[0] < Len(line)
    BY <1>9, <2>1
  <2> QED BY <1>7, <1>10, <2>2
<1>12. Trim(line) = line
  <2>1. line # <<>>
    BY <1>11
  <2>2. Opening # "sp" /\ Closing # "sp"
    BY Zenon DEF Opening, Closing
  <2> QED BY <1>7, <1>10, <2>1, <2>2, TrimSame
<1>13. JsonPairs(line) = ReadFrom(line, at[0])
  <2>1. ~(Len(line) < 2) /\ ~(line[1] # Opening \/ line[Len(line)] # Closing)
    BY <1>10, <1>11
  <2> QED BY <1>10, <1>12, <2>1, Zenon DEF JsonPairs
<1>14. RunAt(line, at, 0, m, names, texts, C)
  <2>1. at[m] \in Nat /\ at[m] < Len(line)
    BY <1>1, <1>4, <1>9
  <2>2. ASSUME NEW i \in 1..m
        PROVE  /\ names[i] \in Seq(C) /\ texts[i] \in Seq(C) /\ at[i - 1] \in Nat /\ at[i] < Len(line)
               /\ at[i] = at[i - 1] + Len(JsonMember(i, names[i], JsonString(texts[i])))
               /\ Follows(line, at[i - 1], JsonMember(i, names[i], JsonString(texts[i])))
    <3>1. i \in 1..m + 1 /\ i \in 0..Len(ns)
      BY <1>1, <1>4
    <3>2. ns[i] = names[i] /\ vs[i] = JsonString(texts[i])
      BY <1>4, <1>5
    <3>3. names[i] \in Seq(C) /\ texts[i] \in Seq(C) /\ at[i] < Len(line)
      BY <1>1, <1>2, <1>9, <3>1
    <3> QED BY <1>10, <3>1, <3>2, <3>3
  <2>3. 0 + 1 = 1
    OBVIOUS
  <2> QED BY <2>1, <2>2, <2>3 DEF RunAt
<1>15. Follows(line, at[m], JsonMember(m + 1, last, object))
  <2>1. m + 1 \in 1..m + 1 /\ (m + 1) - 1 = m
    BY <1>1
  <2>2. Follows(line, at[(m + 1) - 1], JsonMember(m + 1, ns[m + 1], vs[m + 1]))
    BY <1>10, <2>1
  <2> QED BY <1>4, <1>5, <2>1, <2>2
<1>16. LineAt(line, names, texts, object, at, C)
  BY <1>7, <1>12, <1>13, <1>14, <1>15 DEF LineAt, m, last
<1> QED BY <1>16 DEF line, ns, vs

\* A single character that is not escaped.
LEMMA SinglePlain ==
  ASSUME NEW c, c \notin {"quote", "bs"}
  PROVE  JsonEscape(<<c>>) = <<c>>
<1> DEFINE C == {c}
           piece == <<c>>
           seqs == [i \in 1..Len(piece) |-> Escaped(piece[i])]
<1>1. piece \in Seq(C) /\ Len(piece) = 1 /\ piece[1] = c
  OBVIOUS
<1>2. JsonEscape(piece) = FlattenSeq(seqs)
  BY DEF JsonEscape, Escaped
<1>3. \A i \in 1..1 : Escaped(piece[i]) = piece
  BY <1>1 DEF Escaped
<1> HIDE DEF piece, C
<1> DEFINE W == Seq(C)
<1>4. seqs = Append(<<>>, piece)
  <2>1. piece \in W
    BY <1>1
  <2>2. seqs = [i \in 1..1 |-> piece]
    BY <1>1, <1>3
  <2> HIDE DEF W, seqs
  <2>3. Append(<<>>, piece) = <<piece>>
    OBVIOUS
  <2>4. <<piece>> = [i \in 1..1 |-> piece]
    OBVIOUS
  <2> QED BY <2>2, <2>3, <2>4
<1>5. FlattenSeq(Append(<<>>, piece)) = FlattenSeq(<<>>) \o piece
  <2>1. <<>> \in Seq(Seq(C))
    OBVIOUS
  <2> QED BY <1>1, <2>1, FlattenAppend
<1>6. FlattenSeq(<<>>) \o piece = piece
  BY <1>1, FlattenEmpty, ConcatEmptySeq
<1> QED BY <1>2, <1>4, <1>5, <1>6, Zenon DEF piece

\* The name of the fields is read as a name, and then comes their object.
LEMMA FieldsName ==
  ASSUME NEW C, JsonMarks \subseteq C, "fields" \in C,
         NEW names, NEW texts, NEW object, NEW at, NEW line,
         Len(names) \in Nat, LineAt(line, names, texts, object, at, C)
  PROVE  \E q \in Nat :
           /\ ~NoPair(line, at[Len(names)]) /\ PairAt(line, at[Len(names)])[1] = <<"fields">>
           /\ ValueStart(line, at[Len(names)]) = q /\ q < Len(line) /\ line[q + 1] = Opening
           /\ Follows(line, q, object)
<1> DEFINE m == Len(names)
           p == at[m]
           name == <<"fields">>
           e == Len(JsonEscape(name))
<1>1. /\ line \in Seq(C) /\ object \in Seq(C) /\ object[1] = Opening
      /\ Follows(line, p, JsonMember(m + 1, name, object))
  BY DEF LineAt
<1>2. p \in Nat
  BY DEF LineAt, RunAt
<1>3. name \in Seq(C) /\ JsonEscape(name) = name
  <2>1. "fields" \notin {"quote", "bs"}
    BY Zenon
  <2> QED BY <2>1, SinglePlain
<1> HIDE DEF name, p
<1>4. PICK h, q : Parted(line, p, h, q, m + 1, name, object)
  <2> DEFINE i == m + 1
             r == JsonMember(i, name, object)
  <2>1. Follows(line, p, r)
    BY <1>1
  <2> HIDE DEF i
  <2>2. \A u, w : u \in Seq(C) /\ w \in Nat /\ Follows(u, w, r) =>
                  \E h, q : Parted(u, w, h, q, i, name, object)
    BY <1>1, <1>3, MemberIsAt
  <2> HIDE DEF r
  <2>3. \E h, q : Parted(line, p, h, q, i, name, object)
    BY <1>1, <1>2, <2>1, <2>2
  <2> QED BY <2>3 DEF i
<1>5. h \in Nat /\ q \in Nat
  BY <1>4 DEF Parted
<1>7. h = p \/ (h = p + 1 /\ line[p + 1] = Between)
  BY <1>4 DEF Parted
<1>8. q = h + e + 3 /\ StringAt(line, h, name) /\ line[q] = Colon /\ Follows(line, q, object)
  BY <1>4 DEF Parted
<1>9. q < Len(line) /\ line[q + 1] = Opening
  <2>1. object \in Seq(C) /\ object # <<>> /\ object[1] = Opening
    BY DEF LineAt
  <2>2. Len(object) \in Nat /\ Len(object) > 0 /\ 1 \in 1..Len(object)
    BY <2>1
  <2>3. Len(line) \in Nat
    BY <1>1
  <2>4. Follows(line, q, object)
    BY <1>8
  <2>5. q + Len(object) <= Len(line) /\ line[q + 1] = object[1]
    BY <2>2, <2>4 DEF Follows
  <2>6. q < Len(line)
    BY <1>5, <2>2, <2>3, <2>5
  <2> QED BY <2>1, <2>5, <2>6
<1>10. Between \in BeforeName /\ Colon \in BeforeValue /\ Opening \notin BeforeValue
  BY Zenon DEF BeforeName, BeforeValue, Colon, Opening
<1>11. NameAt(line, p, h, q, name)
  BY <1>7, <1>8, <1>9, <1>10 DEF NameAt
<1>12. ~NoPair(line, p) /\ ValueStart(line, p) = q /\ PairAt(line, p)[1] = JsonEscape(name)
  <2>1. "bs" \in C
    BY DEF JsonMarks
  <2> QED BY <1>1, <1>2, <1>3, <1>5, <1>11, <2>1, NameRead
<1> QED BY <1>3, <1>5, <1>8, <1>9, <1>12 DEF p, name

\* The line is that of an object.
LEMMA JsonIs ==
  ASSUME NEW names, NEW texts, NEW fieldNames, NEW fieldTexts
  PROVE  ToJson(names, texts, fieldNames, fieldTexts)
           = JsonObject(OuterNames(names),
                        OuterValues(texts, JsonObject(fieldNames, Strings(fieldTexts))))
  BY DEF ToJson, OuterNames, OuterValues, Strings

\* What is read at a pair: the pair and what is read behind it.
LEMMA FirstPair ==
  ASSUME NEW C, NEW s \in Seq(C), NEW p \in 0..Len(s) + 1, ~NoPair(s, p)
  PROVE  LET rest == PairsFrom(s, p)
             more == PairsFrom(s, NextPair(s, p))
         IN  /\ NextPair(s, p) \in 0..Len(s) + 1
             /\ rest \in Seq(SomePairs(s)) /\ more \in Seq(SomePairs(s))
             /\ Len(rest) = 1 + Len(more) /\ rest[1] = PairAt(s, p) /\ Follows(rest, 1, more)
<1> DEFINE P == SomePairs(s)
           rest == PairsFrom(s, p)
           more == PairsFrom(s, NextPair(s, p))
           one == <<PairAt(s, p)>>
<1>1. rest = one \o more /\ rest \in Seq(P)
  BY PairsFromAre
<1>2. NextPair(s, p) \in 0..Len(s) + 1
  <2> DEFINE k == NameStart(s, p)
             c == ClosingQuote(s, k + 1)
             v == ValueStart(s, p)
             q == NextPair(s, p)
  <2>1. /\ k \in p..Len(s) - 1 /\ c \in k + 1..Len(s)
        /\ v \in c + 1..Len(s) + 1 /\ q \in v..Len(s) + 1
    BY PairSpan
  <2>2. p \in Nat /\ Len(s) \in Nat
    OBVIOUS
  <2> HIDE DEF k, c, v, q
  <2>3. q \in 0..Len(s) + 1
    BY <2>1, <2>2
  <2> QED BY <2>3 DEF q
<1>3. more \in Seq(P)
  BY <1>2, PairsFromAre
<1>4. one \in Seq(P) /\ Len(one) = 1 /\ one[1] = PairAt(s, p)
  <2>1. PairAt(s, p) \in P
    BY DEF SomePairs
  <2> QED BY <2>1
<1> HIDE DEF one, more, rest, P
<1>5. one \in Seq(P)
  BY <1>4
<1>6. Len(one \o more) = Len(one) + Len(more)
  BY <1>3, <1>5, ConcatProperties
<1>7. Follows(one \o more, 0, one) /\ Follows(one \o more, Len(one), more)
  BY <1>3, <1>5, FollowsConcat
<1>8. Len(rest) = 1 + Len(more) /\ Follows(rest, 1, more) /\ Follows(rest, 0, one)
  BY <1>1, <1>4, <1>6, <1>7
<1>9. rest[1] = PairAt(s, p)
  <2>1. rest[0 + 1] = one[1]
    BY <1>4, <1>8 DEF Follows
  <2> QED BY <1>4, <2>1
<1>10. rest \in Seq(P)
  BY <1>1
<1> QED BY <1>2, <1>3, <1>8, <1>9, <1>10 DEF rest, more, P

\* The line of an exported event, and the object of its fields.
LEMMA ExportIs ==
  ASSUME NEW C, JsonMarks \subseteq C, "fields" \in C,
         NEW names \in Seq(Seq(C)), NEW texts \in Seq(Seq(C)), Len(names) = Len(texts),
         NEW fieldNames \in Seq(Seq(C)), NEW fieldTexts \in Seq(Seq(C)),
         Len(fieldNames) = Len(fieldTexts)
  PROVE  \E object, at, inner :
           /\ LineAt(ToJson(names, texts, fieldNames, fieldTexts), names, texts, object, at, C)
           /\ MembersAt(object, fieldNames, Strings(fieldTexts), inner)
<1> DEFINE vs == Strings(fieldTexts)
           object == JsonObject(fieldNames, vs)
           line == JsonObject(OuterNames(names), OuterValues(texts, object))
<1>1. vs \in Seq(Seq(C)) /\ Len(fieldNames) = Len(vs)
  BY StringsAre DEF JsonMarks
<1>2. ToJson(names, texts, fieldNames, fieldTexts) = line
  BY JsonIs
<1> HIDE DEF vs
<1>3. object \in Seq(C)
  BY <1>1, ObjectIs
<1>4. PICK inner : MembersAt(object, fieldNames, vs, inner)
  BY <1>1, ObjectIs
<1> HIDE DEF object
<1>5. object[1] = Opening /\ object # <<>>
  <2>1. /\ object[1] = Opening /\ Len(object) = inner[Len(fieldNames)] + 1
        /\ inner[Len(fieldNames)] \in Nat
    BY <1>4 DEF MembersAt
  <2> QED BY <1>3, <2>1
<1>6. PICK at : LineAt(line, names, texts, object, at, C)
  BY <1>3, <1>5, LineIs
<1> HIDE DEF line
<1>7. LineAt(ToJson(names, texts, fieldNames, fieldTexts), names, texts, object, at, C)
  BY <1>2, <1>6, Zenon
<1> QED BY <1>4, <1>7 DEF vs

\* The pairs of the line: the members, a pair with the name of the fields, and more.
LineRead(all, more, names, texts) ==
  /\ \A i \in 1..Len(names) : all[i] = TextPair(names[i], texts[i])
  /\ all[Len(names) + 1][1] = <<"fields">>
  /\ Len(more) \in Nat /\ Len(all) = Len(names) + 1 + Len(more)
  /\ Follows(all, Len(names) + 1, more)

\* They are read from the line, and it is left by the exception if and only if it is
\* behind them.
LEMMA LinePairs ==
  ASSUME NEW C, JsonMarks \subseteq C, "fields" \in C, NEW names, NEW texts, Len(names) \in Nat,
         NEW line, NEW object, NEW at, LineAt(line, names, texts, object, at, C)
  PROVE  /\ LineRead(PairsFrom(line, at[0]), PairsFrom(line, NextPair(line, at[Len(names)])),
                     names, texts)
         /\ ThrowsFrom(line, at[0]) = ThrowsFrom(line, NextPair(line, at[Len(names)]))
         /\ ThrowsFrom(line, at[0]) \in BOOLEAN
<1> DEFINE m == Len(names)
           P == SomePairs(line)
           all == PairsFrom(line, at[0])
           p == at[m]
           rest == PairsFrom(line, p)
           more == PairsFrom(line, NextPair(line, p))
<1>1. m \in Nat
  OBVIOUS
<1>2. line \in Seq(C) /\ RunAt(line, at, 0, m, names, texts, C)
  BY DEF LineAt
<1>3. ~NoPair(line, p) /\ PairAt(line, p)[1] = <<"fields">>
  BY <1>1, FieldsName
<1>4. /\ Len(all) = m + Len(rest) /\ Len(rest) \in Nat /\ Follows(all, m, rest)
      /\ \A i \in 1..m : all[i] = TextPair(names[i], texts[i])
  <2> DEFINE lo == 0
  <2>1. lo \in Nat /\ lo <= m
    BY <1>1
  <2>2. line \in Seq(C)
    BY <1>2
  <2>3. RunAt(line, at, lo, m, names, texts, C)
    BY <1>2
  <2> HIDE DEF m, lo
  <2>4. RunPairs(PairsFrom(line, at[lo]), PairsFrom(line, at[m]), lo, m, names, texts)
    BY <1>1, <2>1, <2>2, <2>3, RunRead
  <2>5. RunPairs(all, rest, 0, m, names, texts)
    BY <2>4 DEF lo
  <2> HIDE DEF all, rest
  <2>6. m - 0 = m /\ 0 + 1 = 1 /\ \A i \in 1..m : i - 0 = i
    BY <1>1
  <2> QED BY <2>5, <2>6 DEF RunPairs
<1>5. p \in 0..Len(line) + 1
  <2>1. at[m] \in Nat /\ at[m] < Len(line) /\ Len(line) \in Nat
    BY <1>2 DEF RunAt
  <2> QED BY <2>1
<1>6. /\ rest \in Seq(P) /\ more \in Seq(P) /\ Len(rest) = 1 + Len(more)
      /\ rest[1] = PairAt(line, p) /\ Follows(rest, 1, more)
  <2>1. line \in Seq(C) /\ ~NoPair(line, p)
    BY <1>2, <1>3
  <2> HIDE DEF p
  <2> QED BY <1>5, <2>1, FirstPair DEF p
<1>7. at[0] \in 0..Len(line) + 1
  <2> DEFINE lo == 0
  <2>1. lo \in Nat /\ lo <= m /\ lo \in lo..m /\ line \in Seq(C) /\ RunAt(line, at, lo, m, names, texts, C)
    BY <1>1, <1>2
  <2> HIDE DEF m, lo
  <2>2. at[lo] \in 0..Len(line) + 1
    BY <1>1, <2>1, RunPlaces
  <2> QED BY <2>2 DEF lo
<1>13. all \in Seq(P)
  BY <1>2, <1>7, PairsFromAre
<1>14. /\ ThrowsFrom(line, at[0]) = ThrowsFrom(line, NextPair(line, p))
       /\ ThrowsFrom(line, at[0]) \in BOOLEAN
  <2> DEFINE lo == 0
  <2>1. lo \in Nat /\ lo <= m /\ line \in Seq(C) /\ RunAt(line, at, lo, m, names, texts, C)
    BY <1>1, <1>2
  <2> HIDE DEF m, lo, all, rest, more
  <2>2. ThrowsFrom(line, at[lo]) = ThrowsFrom(line, at[m])
    BY <1>1, <2>1, RunThrows
  <2>3. ThrowsFrom(line, p) = ThrowsFrom(line, NextPair(line, p))
    BY <1>2, <1>3, <1>5, ThrowsAre
  <2>4. ThrowsFrom(line, at[0]) \in BOOLEAN
    BY <1>2, <1>7, ThrowsAre
  <2> QED BY <2>2, <2>3, <2>4 DEF lo
<1> HIDE DEF all, rest, more, P
<1>8. Len(more) \in Nat /\ Len(rest) \in Nat
  BY <1>6
<1>9. Len(all) = m + 1 + Len(more) /\ all[m + 1] = rest[1]
  <2>1. 1 \in 1..Len(rest) /\ Len(rest) = 1 + Len(more)
    BY <1>6, <1>8
  <2>2. all[m + 1] = rest[1]
    BY <1>4, <2>1 DEF Follows
  <2> QED BY <1>1, <1>4, <1>8, <2>1, <2>2
<1>10. Follows(all, m + 1, more)
  <2>1. all \in Seq(P) /\ rest \in Seq(P) /\ more \in Seq(P)
    BY <1>6, <1>13
  <2>2. Follows(all, m, rest) /\ Follows(rest, 1, more) /\ 1 \in Nat
    BY <1>4, <1>6
  <2> HIDE DEF m
  <2> QED BY <1>1, <2>1, <2>2, FollowsThrough
<1>11. all[m + 1][1] = <<"fields">>
  BY <1>3, <1>6, <1>9
<1>12. LineRead(all, more, names, texts)
  BY <1>4, <1>8, <1>9, <1>10, <1>11 DEF LineRead
<1> HIDE DEF p
<1> QED BY <1>12, <1>14, Zenon DEF all, more, p

\* Where the line of an exported event is not left by the exception of a name without its
\* closing quote, its members, of any number, are read back as they were written, escapes
\* included, and behind them the name of the fields (to_json, parse_flat_json_object).
\* That the exception comes only behind a comma or a brace in the first field is said by
\* FieldsAreMembers.
THEOREM MembersRead ==
  ASSUME NEW C, JsonMarks \subseteq C, "fields" \in C,
         NEW names \in Seq(Seq(C)), NEW texts \in Seq(Seq(C)), Len(names) = Len(texts),
         NEW fieldNames \in Seq(Seq(C)), NEW fieldTexts \in Seq(Seq(C)),
         Len(fieldNames) = Len(fieldTexts)
  PROVE  LET read == JsonPairs(ToJson(names, texts, fieldNames, fieldTexts))
         IN  /\ read.thrown \in BOOLEAN
             /\ ~read.thrown =>
                  /\ \A i \in 1..Len(names) : read.pairs[i] = TextPair(names[i], texts[i])
                  /\ read.pairs[Len(names) + 1][1] = <<"fields">>
<1> DEFINE line == ToJson(names, texts, fieldNames, fieldTexts)
           read == JsonPairs(line)
<1>1. PICK object, at, inner : LineAt(line, names, texts, object, at, C)
  BY ExportIs
<1>2. Len(names) \in Nat
  OBVIOUS
<1> HIDE DEF line
<1>3. /\ LineRead(PairsFrom(line, at[0]), PairsFrom(line, NextPair(line, at[Len(names)])), names, texts)
      /\ ThrowsFrom(line, at[0]) \in BOOLEAN
  BY <1>1, <1>2, LinePairs
<1>4. read = ReadFrom(line, at[0])
  BY <1>1 DEF LineAt
<1>5. /\ read.thrown = ThrowsFrom(line, at[0])
      /\ ~ThrowsFrom(line, at[0]) => read.pairs = PairsFrom(line, at[0])
  BY <1>4 DEF ReadFrom
<1> HIDE DEF read
<1>6. read.thrown \in BOOLEAN
  BY <1>3, <1>5
<1>7. ASSUME ~read.thrown
      PROVE  /\ \A i \in 1..Len(names) : read.pairs[i] = TextPair(names[i], texts[i])
             /\ read.pairs[Len(names) + 1][1] = <<"fields">>
  <2>1. read.pairs = PairsFrom(line, at[0])
    BY <1>5, <1>7
  <2> QED BY <1>3, <2>1 DEF LineRead
<1> QED BY <1>6, <1>7 DEF read, line

\* Neither name nor text ends a value without quotes.
Hidden(name) == \A i \in 1..Len(name) : name[i] \notin EndsValue

FirstHidden(names, texts) == Hidden(names[1]) /\ Hidden(texts[1])

\* Nor does the member made of them.
LEMMA HiddenMember ==
  ASSUME NEW C, JsonMarks \subseteq C, NEW name \in Seq(C), NEW x \in Seq(C), Hidden(name), Hidden(x)
  PROVE  \A i \in 1..Len(JsonMember(1, name, JsonString(x))) :
           JsonMember(1, name, JsonString(x))[i] \notin EndsValue
<1> DEFINE D == {c \in C : c \notin EndsValue}
           u == JsonString(name)
           w == JsonString(x)
           colon == <<Colon>>
           r == JsonMember(1, name, w)
<1>1. "quote" \in D /\ "bs" \in D /\ Colon \in D
  <2>1. "quote" \notin EndsValue /\ "bs" \notin EndsValue /\ Colon \notin EndsValue
    BY Zenon DEF EndsValue, Between, Closing, Colon
  <2> QED BY <2>1 DEF JsonMarks
<1>2. name \in Seq(D) /\ x \in Seq(D)
  <2>1. \A i \in 1..Len(name) : name[i] \in D
    BY DEF Hidden
  <2>2. \A i \in 1..Len(x) : x[i] \in D
    BY DEF Hidden
  <2> HIDE DEF D
  <2> QED BY <2>1, <2>2
<1>3. \A c \in D : c \notin EndsValue
  OBVIOUS
<1> HIDE DEF D
<1>4. u \in Seq(D) /\ w \in Seq(D) /\ colon \in Seq(D)
  BY <1>1, <1>2, StringIsAt
<1>5. r = <<>> \o u \o colon \o w
  BY DEF JsonMember
<1> HIDE DEF u, w, colon, r
<1>6. <<>> \o u = u
  BY <1>4, ConcatEmptySeq
<1>7. u \o colon \in Seq(D)
  BY <1>4, ConcatProperties
<1>8. (u \o colon) \o w \in Seq(D)
  BY <1>4, <1>7, ConcatProperties
<1>9. r \in Seq(D)
  BY <1>5, <1>6, <1>8
<1>10. \A i \in 1..Len(r) : r[i] \in D
  BY <1>9
<1> QED BY <1>3, <1>10 DEF r, w

\* Names and texts of fields, at least one.
SomeFields(names, texts, C) ==
  /\ names \in Seq(Seq(C)) /\ texts \in Seq(Seq(C)) /\ Len(names) = Len(texts) /\ Len(names) > 0

\* In a line, at q, the object of some fields.
FieldsAt(line, q, object, names, texts, at, C) ==
  /\ line \in Seq(C) /\ q \in Nat /\ object \in Seq(C) /\ Follows(line, q, object)
  /\ SomeFields(names, texts, C) /\ MembersAt(object, names, Strings(texts), at)

\* Its members, by their places in the line.
FieldsIn(line, q, names, texts, at, C) ==
  /\ \A i \in 0..Len(names) : at[i] \in Nat /\ q + at[i] < Len(line)
  /\ \A i \in 1..Len(names) :
       /\ names[i] \in Seq(C) /\ texts[i] \in Seq(C)
       /\ at[i] = at[i - 1] + Len(JsonMember(i, names[i], JsonString(texts[i])))
       /\ Follows(line, q + at[i - 1], JsonMember(i, names[i], JsonString(texts[i])))
  /\ at[0] = 1 /\ line[q + at[Len(names)] + 1] = Closing

\* The members are in the line, and behind the last of them is the closing brace.
LEMMA FieldsThere ==
  ASSUME NEW C, JsonMarks \subseteq C, NEW line, NEW q, NEW object, NEW names, NEW texts, NEW at,
         FieldsAt(line, q, object, names, texts, at, C)
  PROVE  FieldsIn(line, q, names, texts, at, C)
<1> DEFINE k == Len(names)
           vs == Strings(texts)
           W == Seq(C)
<1>1. /\ line \in Seq(C) /\ q \in Nat /\ object \in Seq(C) /\ Follows(line, q, object)
      /\ names \in Seq(Seq(C)) /\ texts \in Seq(Seq(C)) /\ Len(names) = Len(texts)
  BY DEF FieldsAt, SomeFields
<1>2. MembersAt(object, names, vs, at)
  BY DEF FieldsAt
<1>3. /\ vs \in Seq(Seq(C)) /\ Len(vs) = Len(texts)
      /\ \A i \in 1..Len(texts) : /\ texts[i] \in Seq(C) /\ JsonString(texts[i]) \in Seq(C)
                                  /\ vs[i] = JsonString(texts[i])
  <2>1. texts \in Seq(Seq(C)) /\ "quote" \in C /\ "bs" \in C
    BY <1>1 DEF JsonMarks
  <2> QED BY <2>1, StringsAre
<1>4. k \in Nat /\ \A i \in 1..k : names[i] \in Seq(C)
  <2>1. names \in Seq(W)
    BY <1>1
  <2> HIDE DEF W
  <2>2. k \in Nat /\ \A i \in 1..k : names[i] \in W
    BY <2>1
  <2> QED BY <2>2 DEF W
<1> HIDE DEF vs
<1>5. \A i \in 0..k : at[i] \in Nat /\ at[i] < Len(object)
  <2>1. names \in Seq(Seq(C)) /\ vs \in Seq(Seq(C)) /\ object \in Seq(C)
    BY <1>1, <1>3
  <2>2. Len(names) = Len(vs)
    BY <1>1, <1>3
  <2> QED BY <1>2, <2>1, <2>2, MembersInside
<1>6. Len(object) \in Nat /\ Len(line) \in Nat /\ q + Len(object) <= Len(line)
  BY <1>1 DEF Follows
<1>7. ASSUME NEW i \in 0..k PROVE at[i] \in Nat /\ q + at[i] < Len(line)
  BY <1>1, <1>5, <1>6
<1>8. ASSUME NEW i \in 1..k
      PROVE  /\ names[i] \in Seq(C) /\ texts[i] \in Seq(C)
             /\ at[i] = at[i - 1] + Len(JsonMember(i, names[i], JsonString(texts[i])))
             /\ Follows(line, q + at[i - 1], JsonMember(i, names[i], JsonString(texts[i])))
  <2> DEFINE x == JsonString(texts[i])
             r == JsonMember(i, names[i], x)
  <2>1. names[i] \in Seq(C) /\ texts[i] \in Seq(C) /\ x \in Seq(C) /\ vs[i] = x
    BY <1>1, <1>3, <1>4
  <2>2. /\ at[i - 1] \in Nat /\ at[i] = at[i - 1] + Len(r) /\ Follows(object, at[i - 1], r)
    BY <1>2, <2>1 DEF MembersAt
  <2> HIDE DEF x
  <2>3. r \in Seq(C)
    BY <2>1, MemberIsAt
  <2> HIDE DEF r
  <2>4. Follows(line, q + at[i - 1], r)
    <3>1. line \in Seq(C) /\ object \in Seq(C) /\ q \in Nat /\ Follows(line, q, object)
      BY <1>1
    <3>2. at[i - 1] \in Nat /\ Follows(object, at[i - 1], r)
      BY <2>2
    <3> QED BY <2>3, <3>1, <3>2, FollowsThrough
  <2> QED BY <2>1, <2>2, <2>4 DEF r, x
<1>9. at[0] = 1 /\ line[q + at[k] + 1] = Closing
  <2>1. at[0] = 1 /\ at[k] \in Nat /\ Len(object) = at[k] + 1 /\ object[Len(object)] = Closing
    BY <1>2 DEF MembersAt
  <2>2. at[k] + 1 \in 1..Len(object)
    BY <2>1
  <2>3. line[q + (at[k] + 1)] = object[at[k] + 1]
    BY <1>1, <2>2 DEF Follows
  <2>4. q + (at[k] + 1) = q + at[k] + 1
    BY <1>1, <2>1
  <2> QED BY <2>1, <2>3, <2>4
<1> QED BY <1>7, <1>8, <1>9 DEF FieldsIn

\* The value of the fields has no quotes: it ends at the first comma or brace, which is
\* behind the first of the fields.
LEMMA FirstHides ==
  ASSUME NEW C, JsonMarks \subseteq C, NEW line, NEW q, NEW object, NEW names, NEW texts, NEW at,
         FieldsAt(line, q, object, names, texts, at, C), FirstHidden(names, texts)
  PROVE  FindAny(line, q, EndsValue) = q + at[1]
<1> DEFINE k == Len(names)
           r == JsonMember(1, names[1], JsonString(texts[1]))
           e == q + at[1]
           f == FindAny(line, q, EndsValue)
<1>1. line \in Seq(C) /\ q \in Nat /\ k \in Nat /\ k > 0 /\ Len(line) \in Nat
  BY DEF FieldsAt, SomeFields
<1>2. /\ \A i \in 0..k : at[i] \in Nat /\ q + at[i] < Len(line)
      /\ \A i \in 1..k :
           /\ names[i] \in Seq(C) /\ texts[i] \in Seq(C)
           /\ at[i] = at[i - 1] + Len(JsonMember(i, names[i], JsonString(texts[i])))
           /\ Follows(line, q + at[i - 1], JsonMember(i, names[i], JsonString(texts[i])))
      /\ at[0] = 1 /\ line[q + at[k] + 1] = Closing
  <2>1. FieldsIn(line, q, names, texts, at, C)
    BY Zenon, FieldsThere
  <2> QED BY <2>1 DEF FieldsIn
<1>3. /\ names[1] \in Seq(C) /\ texts[1] \in Seq(C) /\ at[1] = at[0] + Len(r)
      /\ Follows(line, q + at[0], r)
  <2>1. 1 \in 1..k /\ 1 - 1 = 0
    BY <1>1
  <2> HIDE DEF k
  <2> QED BY <1>2, <2>1
<1>4. \A j \in 1..Len(r) : r[j] \notin EndsValue
  BY <1>3, HiddenMember DEF FirstHidden
<1>5. Len(r) \in Nat /\ Len(r) > 0
  <2>1. JsonString(texts[1]) \in Seq(C)
    BY <1>3, StringIsAt DEF JsonMarks
  <2> QED BY <1>3, <2>1, MemberLong
<1> HIDE DEF r
<1>6. at[1] \in Nat /\ e = q + 1 + Len(r) /\ e < Len(line)
  <2>1. 1 \in 0..k
    BY <1>1
  <2> QED BY <1>1, <1>2, <1>3, <1>5, <2>1
<1> DEFINE n == Len(object)
<1>7. line[q + 1] = Opening
  <2>1. n \in Nat /\ n > 0
    <3>1. n = at[k] + 1 /\ at[k] \in Nat
      BY DEF FieldsAt, MembersAt
    <3> QED BY <3>1
  <2>2. MembersAt(object, names, Strings(texts), at) /\ Follows(line, q, object)
    BY DEF FieldsAt
  <2>3. object[1] = Opening /\ 1 \in 1..n
    BY <2>1, <2>2 DEF MembersAt
  <2>4. line[q + 1] = object[1]
    BY <2>2, <2>3 DEF Follows
  <2> QED BY <2>3, <2>4
<1>8. ASSUME NEW j \in q..e - 1 PROVE line[j + 1] \notin EndsValue
  <2>1. CASE j = q
    <3>1. Opening \notin EndsValue
      BY Zenon DEF EndsValue, Opening, Between, Closing
    <3> QED BY <1>7, <2>1, <3>1
  <2>2. CASE j # q
    <3> DEFINE t == j - q
    <3>1. t \in 1..Len(r) /\ j + 1 = (q + 1) + t
      BY <1>1, <1>5, <1>6, <2>2
    <3>2. line[(q + 1) + t] = r[t]
      BY <1>2, <1>3, <3>1 DEF Follows
    <3> QED BY <1>4, <3>1, <3>2
  <2> QED BY <2>1, <2>2
<1>9. line[e + 1] \in EndsValue
  <2>1. CASE k = 1
    <3>1. line[e + 1] = Closing
      BY <1>2, <2>1
    <3> QED BY <3>1 DEF EndsValue
  <2>2. CASE k # 1
    <3> DEFINE name == names[2]
               value == JsonString(texts[2])
               i == 2
               s == JsonMember(i, name, value)
    <3>1. name \in Seq(C) /\ texts[2] \in Seq(C) /\ Follows(line, e, s)
      <4>1. k \in Nat /\ k > 0
        BY <1>1
      <4> HIDE DEF k, e
      <4>2. 2 \in 1..k /\ 2 - 1 = 1
        BY <2>2, <4>1
      <4>3. /\ names[2] \in Seq(C) /\ texts[2] \in Seq(C)
            /\ Follows(line, q + at[2 - 1], JsonMember(2, names[2], JsonString(texts[2])))
        BY <1>2, <4>2
      <4> QED BY <4>2, <4>3 DEF e
    <3>2. value \in Seq(C) /\ e \in Nat
      BY <1>1, <1>6, <3>1, StringIsAt DEF JsonMarks
    <3>3. i # 1
      OBVIOUS
    <3> HIDE DEF value, name, e, i
    <3>4. \A u, w : u \in Seq(C) /\ w \in Nat /\ Follows(u, w, s) =>
                      \E h, c : Parted(u, w, h, c, i, name, value)
      BY <3>1, <3>2, MemberIsAt
    <3> HIDE DEF s
    <3>5. PICK h, c : Parted(line, e, h, c, i, name, value)
      BY <1>1, <3>1, <3>2, <3>4
    <3>6. line[e + 1] = Between
      BY <3>3, <3>5 DEF Parted
    <3> QED BY <3>6 DEF EndsValue
  <2> QED BY <2>1, <2>2
<1> HIDE DEF e
<1>10. e \in q..Len(line) /\ e \in Nat
  BY <1>1, <1>5, <1>6
<1>11. q < Len(line)
  BY <1>1, <1>5, <1>6
<1>12. /\ f \in q..Len(line)
       /\ \A j \in q..Len(line) : j = Len(line) \/ line[j + 1] \in EndsValue => f <= j
       /\ f = Len(line) \/ line[f + 1] \in EndsValue
  BY <1>1, <1>11, FindIs
<1> HIDE DEF f
<1>13. f <= e
  BY <1>9, <1>10, <1>12
<1>14. line[f + 1] \in EndsValue
  BY <1>1, <1>6, <1>10, <1>12, <1>13
<1>15. f \notin q..e - 1
  BY <1>8, <1>14
<1>16. f = e
  BY <1>1, <1>10, <1>12, <1>13, <1>15
<1> QED BY <1>16 DEF e, f

\* From the second on the fields are members, and nothing is behind the last of them.
LEMMA OthersRun ==
  ASSUME NEW C, JsonMarks \subseteq C, NEW line, NEW q, NEW object, NEW names, NEW texts, NEW at,
         FieldsAt(line, q, object, names, texts, at, C)
  PROVE  LET places == [i \in 0..Len(names) |-> q + at[i]]
         IN  /\ RunAt(line, places, 1, Len(names), names, texts, C)
             /\ PairsEnd(line, places[Len(names)])
<1> DEFINE k == Len(names)
           places == [i \in 0..k |-> q + at[i]]
           p == places[k]
<1>1. line \in Seq(C) /\ q \in Nat /\ k \in Nat /\ k > 0 /\ Len(line) \in Nat
  BY DEF FieldsAt, SomeFields
<1>2. /\ \A i \in 0..k : at[i] \in Nat /\ q + at[i] < Len(line)
      /\ \A i \in 1..k :
           /\ names[i] \in Seq(C) /\ texts[i] \in Seq(C)
           /\ at[i] = at[i - 1] + Len(JsonMember(i, names[i], JsonString(texts[i])))
           /\ Follows(line, q + at[i - 1], JsonMember(i, names[i], JsonString(texts[i])))
      /\ line[q + at[k] + 1] = Closing
  <2>1. FieldsIn(line, q, names, texts, at, C)
    BY Zenon, FieldsThere
  <2> QED BY <2>1 DEF FieldsIn
<1>3. \A i \in 0..k : places[i] = q + at[i]
  OBVIOUS
<1> HIDE DEF places
<1>4. p = q + at[k] /\ p \in Nat /\ p < Len(line)
  <2>1. k \in 0..k
    BY <1>1
  <2> QED BY <1>1, <1>2, <1>3, <2>1
<1>5. ASSUME NEW i \in 1 + 1..k
      PROVE  /\ names[i] \in Seq(C) /\ texts[i] \in Seq(C) /\ places[i - 1] \in Nat /\ places[i] < Len(line)
             /\ places[i] = places[i - 1] + Len(JsonMember(i, names[i], JsonString(texts[i])))
             /\ Follows(line, places[i - 1], JsonMember(i, names[i], JsonString(texts[i])))
  <2> DEFINE r == JsonMember(i, names[i], JsonString(texts[i]))
  <2>1. i \in 1..k /\ i \in 0..k /\ i - 1 \in 0..k
    BY <1>1
  <2>2. /\ names[i] \in Seq(C) /\ texts[i] \in Seq(C)
        /\ at[i] = at[i - 1] + Len(r) /\ Follows(line, q + at[i - 1], r)
    BY <1>2, <2>1
  <2>3. places[i] = q + at[i] /\ places[i - 1] = q + at[i - 1]
    BY <1>3, <2>1
  <2>4. at[i - 1] \in Nat /\ q + at[i - 1] < Len(line) /\ at[i] \in Nat /\ q + at[i] < Len(line)
    BY <1>2, <2>1
  <2>5. Len(r) \in Nat
    <3>1. JsonString(texts[i]) \in Seq(C)
      BY <2>2, StringIsAt DEF JsonMarks
    <3> QED BY <2>2, <3>1, MemberLong
  <2> HIDE DEF r
  <2>6. places[i] = places[i - 1] + Len(r) /\ places[i - 1] \in Nat /\ places[i] < Len(line)
    BY <1>1, <2>2, <2>3, <2>4, <2>5
  <2>7. Follows(line, places[i - 1], r)
    BY <2>2, <2>3
  <2> QED BY <2>2, <2>6, <2>7 DEF r
<1>6. RunAt(line, places, 1, k, names, texts, C)
  <2> HIDE DEF k
  <2> QED BY <1>4, <1>5 DEF RunAt
<1>7. PairsEnd(line, p)
  <2>1. line[p + 1] = Closing
    BY <1>2, <1>4
  <2>2. Closing \notin BeforeName /\ Closing # "quote"
    BY Zenon DEF BeforeName, Closing, Between
  <2> HIDE DEF p
  <2>3. NameStart(line, p) = p
    <3> DEFINE h == NameStart(line, p)
    <3>1. /\ SkipAll(line, p, BeforeName) \in p..Len(line)
          /\ \A j \in p..Len(line) : j = Len(line) \/ line[j + 1] \notin BeforeName =>
                                       SkipAll(line, p, BeforeName) <= j
      BY <1>1, <1>4, SkipIs
    <3>2. /\ h \in p..Len(line)
          /\ \A j \in p..Len(line) : j = Len(line) \/ line[j + 1] \notin BeforeName => h <= j
      BY <3>1 DEF NameStart
    <3> HIDE DEF h
    <3>3. h <= p
      BY <1>1, <1>4, <2>1, <2>2, <3>2
    <3>4. h = p
      BY <1>4, <3>2, <3>3
    <3> QED BY <3>4 DEF h
  <2> QED BY <2>1, <2>2, <2>3, Zenon DEF PairsEnd
<1> QED BY <1>6, <1>7 DEF places

\* What follows the name of the fields: all but the first of them are members.
OthersRead(more, names, texts) ==
  /\ Len(more) = Len(names) - 1
  /\ \A i \in 2..Len(names) : more[i - 1] = TextPair(names[i], texts[i])

\* They are read behind the name of the fields, without the exception.
LEMMA FieldsBehind ==
  ASSUME NEW C, JsonMarks \subseteq C, "fields" \in C, NEW names, NEW texts, Len(names) \in Nat,
         NEW fieldNames, NEW fieldTexts, SomeFields(fieldNames, fieldTexts, C),
         FirstHidden(fieldNames, fieldTexts), NEW line, NEW object, NEW at, NEW inner,
         LineAt(line, names, texts, object, at, C),
         MembersAt(object, fieldNames, Strings(fieldTexts), inner)
  PROVE  /\ OthersRead(PairsFrom(line, NextPair(line, at[Len(names)])), fieldNames, fieldTexts)
         /\ ThrowsFrom(line, NextPair(line, at[Len(names)])) = FALSE
<1> DEFINE k == Len(fieldNames)
           p == at[Len(names)]
<1>1. k \in Nat /\ 1 <= k /\ 1 \in Nat
  BY DEF SomeFields
<1>2. line \in Seq(C) /\ object \in Seq(C)
  BY DEF LineAt
<1>3. PICK q \in Nat : /\ ValueStart(line, p) = q /\ q < Len(line) /\ line[q + 1] = Opening
                       /\ Follows(line, q, object)
  BY FieldsName
<1>4. FieldsAt(line, q, object, fieldNames, fieldTexts, inner, C)
  BY <1>2, <1>3 DEF FieldsAt
<1> DEFINE places == [i \in 0..k |-> q + inner[i]]
<1>5. NextPair(line, p) = q + inner[1]
  <2>1. FindAny(line, q, EndsValue) = q + inner[1]
    BY <1>4, FirstHides
  <2>2. ~ValueQuoted(line, p)
    <3>1. Opening # "quote"
      BY Zenon DEF Opening
    <3> HIDE DEF p
    <3> QED BY <1>3, <3>1 DEF ValueQuoted
  <2>3. inner[1] \in Nat
    <3>1. FieldsIn(line, q, fieldNames, fieldTexts, inner, C)
      BY <1>4, FieldsThere
    <3> QED BY <1>1, <3>1 DEF FieldsIn
  <2> HIDE DEF p
  <2>4. ValueEnd(line, p) = q + inner[1]
    BY <1>3, <2>1, <2>2, Zenon DEF ValueEnd
  <2>5. NextPair(line, p) = ValueEnd(line, p) + 0
    BY <2>2 DEF NextPair
  <2> QED BY <2>3, <2>4, <2>5
<1>6. RunAt(line, places, 1, k, fieldNames, fieldTexts, C) /\ PairsEnd(line, places[k])
  BY <1>4, OthersRun
<1>7. places[1] = q + inner[1]
  BY <1>1
<1> HIDE DEF places
<1> DEFINE more == PairsFrom(line, places[1])
           rest == PairsFrom(line, places[k])
<1>8. /\ RunPairs(more, rest, 1, k, fieldNames, fieldTexts)
      /\ ThrowsFrom(line, places[1]) = ThrowsFrom(line, places[k])
  <2>1. RunAt(line, places, 1, k, fieldNames, fieldTexts, C)
    BY <1>6
  <2>2. line \in Seq(C)
    BY <1>2
  <2> DEFINE lo == 1
  <2> HIDE DEF lo, k
  <2>3. RunAt(line, places, lo, k, fieldNames, fieldTexts, C) /\ lo \in Nat /\ lo <= k
    BY <1>1, <2>1 DEF lo
  <2>4. RunPairs(PairsFrom(line, places[lo]), PairsFrom(line, places[k]), lo, k, fieldNames, fieldTexts)
    BY <1>1, <2>2, <2>3, RunRead
  <2>5. ThrowsFrom(line, places[lo]) = ThrowsFrom(line, places[k])
    BY <1>1, <2>2, <2>3, RunThrows
  <2> QED BY <2>4, <2>5 DEF lo
<1>9. rest = <<>> /\ ThrowsFrom(line, places[k]) = FALSE
  <2>1. places[k] \in 0..Len(line) + 1
    <3>1. places[k] \in Nat /\ places[k] < Len(line)
      BY <1>6 DEF RunAt
    <3>2. Len(line) \in Nat
      BY <1>2
    <3> QED BY <3>1, <3>2
  <2>2. NoPair(line, places[k])
    BY <1>6 DEF NoPair
  <2>3. rest = <<>>
    BY <1>2, <2>1, <2>2, PairsFromAre
  <2> HIDE DEF rest
  <2>4. ThrowsFrom(line, places[k]) = FALSE
    BY <1>2, <1>6, <2>1, ThrowsAre
  <2> QED BY <2>3, <2>4
<1>10. Len(rest) = 0
  BY <1>9
<1>11. OthersRead(more, fieldNames, fieldTexts)
  <2> HIDE DEF more, rest
  <2>1. /\ Len(more) = (k - 1) + Len(rest)
        /\ \A i \in 1 + 1..k : more[i - 1] = TextPair(fieldNames[i], fieldTexts[i])
    BY <1>8 DEF RunPairs
  <2>2. 1 + 1 = 2 /\ (k - 1) + 0 = k - 1
    BY <1>1
  <2>3. Len(more) = k - 1
    BY <1>10, <2>1, <2>2
  <2>4. \A i \in 2..k : more[i - 1] = TextPair(fieldNames[i], fieldTexts[i])
    BY <2>1, <2>2
  <2> QED BY <2>3, <2>4 DEF OthersRead
<1>12. more = PairsFrom(line, NextPair(line, p))
  BY <1>5, <1>7, Zenon
<1>13. ThrowsFrom(line, NextPair(line, p)) = FALSE
  <2> HIDE DEF p, k
  <2>1. NextPair(line, p) = places[1]
    BY <1>5, <1>7
  <2>2. ThrowsFrom(line, places[1]) = FALSE
    BY <1>8, <1>9
  <2> QED BY <2>1, <2>2, Zenon
<1> HIDE DEF more, p
<1> QED BY <1>11, <1>12, <1>13, Zenon DEF p

\* What is read of an event with some members and some fields.
EventRead(read, names, texts, fields, values) ==
  /\ ~read.thrown =>
       /\ \A i \in 1..Len(names) : read.pairs[i] = TextPair(names[i], texts[i])
       /\ read.pairs[Len(names) + 1][1] = <<"fields">>
  /\ FirstHidden(fields, values) =>
       /\ read.thrown = FALSE /\ Len(read.pairs) = Len(names) + Len(fields)
       /\ \A i \in 2..Len(fields) : read.pairs[Len(names) + i] = TextPair(fields[i], values[i])

\* It is read from the line of the event.
LEMMA EventIsRead ==
  ASSUME NEW C, JsonMarks \subseteq C, "fields" \in C,
         NEW names \in Seq(Seq(C)), NEW texts \in Seq(Seq(C)), Len(names) = Len(texts),
         NEW fields, NEW values, SomeFields(fields, values, C)
  PROVE  EventRead(JsonPairs(ToJson(names, texts, fields, values)), names, texts, fields, values)
<1> DEFINE line == ToJson(names, texts, fields, values)
           m == Len(names)
           k == Len(fields)
           read == JsonPairs(line)
<1>1. PICK object, at, inner : /\ LineAt(line, names, texts, object, at, C)
                               /\ MembersAt(object, fields, Strings(values), inner)
  BY ExportIs DEF SomeFields
<1>2. m \in Nat /\ k \in Nat
  BY DEF SomeFields
<1> DEFINE all == PairsFrom(line, at[0])
           thrown == ThrowsFrom(line, at[0])
           behind == NextPair(line, at[m])
           more == PairsFrom(line, behind)
<1> HIDE DEF line
<1>3. LineRead(all, more, names, texts) /\ thrown = ThrowsFrom(line, behind) /\ thrown \in BOOLEAN
  BY <1>1, <1>2, LinePairs
<1>4. read.thrown = thrown /\ (~thrown => read.pairs = all)
  <2>1. read = ReadFrom(line, at[0])
    BY <1>1 DEF LineAt
  <2> HIDE DEF read
  <2> QED BY <2>1 DEF ReadFrom
<1> HIDE DEF read, thrown
<1>5. ASSUME FirstHidden(fields, values)
      PROVE  /\ thrown = FALSE /\ Len(all) = m + k
             /\ \A i \in 2..k : all[m + i] = TextPair(fields[i], values[i])
  <2>1. /\ Len(more) = k - 1 /\ \A i \in 2..k : more[i - 1] = TextPair(fields[i], values[i])
        /\ ThrowsFrom(line, behind) = FALSE
    <3>1. OthersRead(more, fields, values) /\ ThrowsFrom(line, behind) = FALSE
      BY <1>1, <1>2, <1>5, FieldsBehind
    <3> QED BY <3>1 DEF OthersRead
  <2> HIDE DEF all, more, behind
  <2>2. Len(all) = m + 1 + Len(more) /\ Follows(all, m + 1, more)
    BY <1>3 DEF LineRead
  <2> HIDE DEF m, k
  <2>3. Len(all) = m + k
    BY <1>2, <2>1, <2>2
  <2>4. ASSUME NEW i \in 2..k PROVE all[m + i] = TextPair(fields[i], values[i])
    <3>1. i - 1 \in 1..Len(more) /\ (m + 1) + (i - 1) = m + i
      BY <1>2, <2>1
    <3>2. all[(m + 1) + (i - 1)] = more[i - 1]
      BY <2>2, <3>1 DEF Follows
    <3> QED BY <2>1, <3>1, <3>2
  <2> QED BY <1>3, <2>1, <2>3, <2>4
<1> HIDE DEF all, more
<1>6. ASSUME ~read.thrown
      PROVE  /\ \A i \in 1..m : read.pairs[i] = TextPair(names[i], texts[i])
             /\ read.pairs[m + 1][1] = <<"fields">>
  <2>1. read.pairs = all
    BY <1>4, <1>6
  <2> QED BY <1>3, <2>1 DEF LineRead
<1>7. ASSUME FirstHidden(fields, values)
      PROVE  /\ read.thrown = FALSE /\ Len(read.pairs) = m + k
             /\ \A i \in 2..k : read.pairs[m + i] = TextPair(fields[i], values[i])
  <2>1. thrown = FALSE
    BY <1>5, <1>7
  <2>2. read.thrown = FALSE /\ read.pairs = all
    BY <1>4, <2>1
  <2> HIDE DEF m, k
  <2> QED BY <1>5, <1>7, <2>2
<1>8. EventRead(read, names, texts, fields, values)
  BY <1>6, <1>7 DEF EventRead
<1> QED BY <1>8 DEF read, line

\* If no comma and no brace is in the first field of an exported event, the line is read
\* without the exception: its members as they were written, and its fields as members
\* too, but for the first, which hides in the value of "fields" (to_json,
\* parse_flat_json_object).
THEOREM FieldsAreMembers ==
  ASSUME NEW C, JsonMarks \subseteq C, "fields" \in C,
         NEW names \in Seq(Seq(C)), NEW texts \in Seq(Seq(C)), Len(names) = Len(texts),
         NEW fieldNames, NEW fieldTexts,
         SomeFields(fieldNames, fieldTexts, C), FirstHidden(fieldNames, fieldTexts)
  PROVE  LET read == JsonPairs(ToJson(names, texts, fieldNames, fieldTexts))
         IN  /\ read.thrown = FALSE
             /\ Len(read.pairs) = Len(names) + Len(fieldNames)
             /\ \A i \in 1..Len(names) : read.pairs[i] = TextPair(names[i], texts[i])
             /\ read.pairs[Len(names) + 1][1] = <<"fields">>
             /\ \A i \in 2..Len(fieldNames) :
                  read.pairs[Len(names) + i] = TextPair(fieldNames[i], fieldTexts[i])
<1> DEFINE read == JsonPairs(ToJson(names, texts, fieldNames, fieldTexts))
<1>1. EventRead(read, names, texts, fieldNames, fieldTexts)
  BY EventIsRead
<1> HIDE DEF read
<1>2. read.thrown = FALSE
  BY <1>1 DEF EventRead
<1>3. /\ Len(read.pairs) = Len(names) + Len(fieldNames)
      /\ \A i \in 1..Len(names) : read.pairs[i] = TextPair(names[i], texts[i])
      /\ read.pairs[Len(names) + 1][1] = <<"fields">>
      /\ \A i \in 2..Len(fieldNames) :
           read.pairs[Len(names) + i] = TextPair(fieldNames[i], fieldTexts[i])
  BY <1>1, <1>2 DEF EventRead
<1> QED BY <1>2, <1>3 DEF read

\* The text of a JSON input is symbols of its alphabet.
JsonTextType == kind = "json" => text \in Seq(Alphabet["json"])

\* That holds throughout.
LEMMA TextIsJson == Spec => []JsonTextType
<1>1. Init => JsonTextType
  BY DEF Init, JsonTextType
<1>2. JsonTextType /\ [Next]_vars => JsonTextType'
  <2> SUFFICES ASSUME JsonTextType, [Next]_vars, kind' = "json" PROVE text' \in Seq(Alphabet["json"])
    BY DEF JsonTextType
  <2>1. CASE Grow
    <3>1. kind = "json" /\ text \in Seq(Alphabet["json"])
      BY <2>1 DEF Grow, JsonTextType
    <3>2. PICK symbol \in Alphabet[kind] : text' = Append(text, symbol)
      BY <2>1 DEF Grow
    <3>3. symbol \in Alphabet["json"]
      BY <3>1, <3>2
    <3> QED BY <3>1, <3>2, <3>3, AppendProperties
  <2>2. CASE NextDay
    BY <2>2 DEF NextDay
  <2>3. CASE UNCHANGED vars
    BY <2>3 DEF vars, JsonTextType
  <2> QED BY <2>1, <2>2, <2>3 DEF Next
<1> QED BY <1>1, <1>2, PTL DEF Spec

\* Two members and two fields: what MCFunctions says of an event.
TwoRead(read, names, fields, t, u) ==
  /\ read.thrown => ~Hidden(t)
  /\ ~read.thrown =>
       /\ read.pairs[1] = <<names[1], JsonEscape(t)>> /\ read.pairs[2] = <<names[2], JsonEscape(u)>>
       /\ read.pairs[3][1] = <<"fields">>
  /\ Hidden(t) => Len(read.pairs) = 4 /\ read.pairs[4] = <<fields[2], JsonEscape(u)>>

\* It holds for any two texts.
LEMMA TwoAreRead ==
  ASSUME NEW C, JsonMarks \subseteq C, {"host", "message", "fields", "f", "g"} \subseteq C,
         NEW t \in Seq(C), NEW u \in Seq(C)
  PROVE  LET names  == <<<<"host">>, <<"message">>>>
             fields == <<<<"f">>, <<"g">>>>
         IN  TwoRead(JsonPairs(ToJson(names, <<t, u>>, fields, <<t, u>>)), names, fields, t, u)
<1> DEFINE W == Seq(C)
           host == <<"host">>
           message == <<"message">>
           f == <<"f">>
           g == <<"g">>
           names == <<host, message>>
           fields == <<f, g>>
           texts == <<t, u>>
           read == JsonPairs(ToJson(names, texts, fields, texts))
           pairs == read.pairs
<1>1. host \in W /\ message \in W /\ f \in W /\ g \in W /\ t \in W /\ u \in W
  OBVIOUS
<1>2. /\ JsonEscape(host) = host /\ JsonEscape(message) = message /\ JsonEscape(g) = g
  <2>1. /\ "host" \notin {"quote", "bs"} /\ "message" \notin {"quote", "bs"}
        /\ "g" \notin {"quote", "bs"}
    BY Zenon
  <2> QED BY <2>1, SinglePlain
<1>3. Hidden(f)
  <2>1. "f" \notin EndsValue
    BY Zenon DEF EndsValue, Between, Closing
  <2>2. Len(f) = 1 /\ f[1] = "f"
    OBVIOUS
  <2> HIDE DEF f
  <2> QED BY <2>1, <2>2 DEF Hidden
<1> HIDE DEF W, host, message, f, g
<1>4. /\ names \in Seq(W) /\ fields \in Seq(W) /\ texts \in Seq(W)
      /\ Len(names) = 2 /\ Len(fields) = 2 /\ Len(texts) = 2
      /\ names[1] = host /\ names[2] = message /\ fields[1] = f /\ fields[2] = g
      /\ texts[1] = t /\ texts[2] = u
  BY <1>1
<1> HIDE DEF names, fields, texts
<1>5. names \in Seq(Seq(C)) /\ fields \in Seq(Seq(C)) /\ texts \in Seq(Seq(C))
  BY <1>4 DEF W
<1>6. SomeFields(names, texts, C) /\ SomeFields(fields, texts, C)
  BY <1>4, <1>5 DEF SomeFields
<1>7. Hidden(t) => FirstHidden(fields, texts)
  BY <1>3, <1>4 DEF FirstHidden
<1>8. EventRead(read, names, texts, fields, texts)
  <2>1. "fields" \in C
    OBVIOUS
  <2>2. names \in Seq(Seq(C)) /\ texts \in Seq(Seq(C))
    BY <1>5
  <2>3. Len(names) = Len(texts)
    BY <1>4
  <2> QED BY <1>6, <2>1, <2>2, <2>3, EventIsRead
<1>9. /\ ~read.thrown =>
           /\ \A i \in 1..Len(names) : pairs[i] = TextPair(names[i], texts[i])
           /\ pairs[Len(names) + 1][1] = <<"fields">>
      /\ Hidden(t) =>
           /\ read.thrown = FALSE /\ Len(pairs) = Len(names) + Len(fields)
           /\ \A i \in 2..Len(fields) : pairs[Len(names) + i] = TextPair(fields[i], texts[i])
  <2> HIDE DEF read
  <2> QED BY <1>7, <1>8 DEF EventRead
<1> HIDE DEF read, pairs
<1>10. 1 \in 1..Len(names) /\ 2 \in 1..Len(names) /\ 2 \in 2..Len(fields)
  BY <1>4
<1>11. ASSUME ~read.thrown
       PROVE  pairs[1] = <<host, JsonEscape(t)>> /\ pairs[2] = <<message, JsonEscape(u)>>
  BY <1>2, <1>4, <1>9, <1>10, <1>11, Zenon DEF TextPair
<1>12. ASSUME ~read.thrown PROVE pairs[3][1] = <<"fields">>
  BY <1>4, <1>9, <1>12
<1>13. ASSUME Hidden(t) PROVE Len(pairs) = 4 /\ pairs[4] = <<g, JsonEscape(u)>>
  <2>1. Len(pairs) = 4 /\ pairs[2 + 2] = TextPair(fields[2], texts[2])
    BY <1>4, <1>9, <1>10, <1>13
  <2>2. 2 + 2 = 4
    OBVIOUS
  <2>3. pairs[4] = TextPair(g, u)
    BY <1>4, <2>1, <2>2
  <2> QED BY <1>2, <2>1, <2>3, Zenon DEF TextPair
<1>14. read.thrown => ~Hidden(t)
  BY <1>9
<1>15. TwoRead(read, names, fields, t, u)
  BY <1>4, <1>11, <1>12, <1>13, <1>14, Zenon DEF TwoRead, pairs
<1> QED BY <1>15 DEF read, names, fields, texts, host, message, f, g

\* A line is left by the exception only for a comma or a brace in the first field. When it
\* is not, its members are read back as they were written; without such a comma or brace
\* so are the fields but for the first, for texts of any length (to_json,
\* parse_flat_json_object).
THEOREM JsonMembersReadBackHolds == Spec => []JsonMembersReadBack
<1>1. JsonTextType => JsonMembersReadBack
  <2> DEFINE t == Parts[1]
             u == Last(Parts)
             names  == <<<<"host">>, <<"message">>>>
             fields == <<<<"f">>, <<"g">>>>
             texts  == <<t, u>>
             read   == JsonPairs(ToJson(names, texts, fields, texts))
             C == Alphabet["json"] \cup JsonMarks \cup {"host", "message", "fields", "f", "g"}
  <2> SUFFICES ASSUME text \in Seq(Alphabet["json"])
               PROVE  /\ read.thrown => ~({",", "}"} \cap ToSet(texts[1]) = {})
                      /\ ~read.thrown =>
                           /\ \A i \in 1..2 : read.pairs[i] = <<names[i], JsonEscape(texts[i])>>
                           /\ read.pairs[3][1] = <<"fields">>
                      /\ {",", "}"} \cap ToSet(texts[1]) = {} =>
                           Len(read.pairs) = 4 /\ read.pairs[4] = <<<<"g">>, JsonEscape(texts[2])>>
    BY Zenon DEF JsonTextType, JsonMembersReadBack
  <2>1. text \in Seq(C) /\ JsonMarks \subseteq C /\ {"host", "message", "fields", "f", "g"} \subseteq C
    <3> DEFINE A == Alphabet["json"]
    <3>1. text \in Seq(A) /\ A \subseteq C
      OBVIOUS
    <3> HIDE DEF A, C
    <3>2. text \in Seq(C)
      BY <3>1
    <3> QED BY <3>2 DEF C
  <2> HIDE DEF C
  <2>2. Parts \in SomeParts(C)
    <3>1. Len(text) \in 0..Len(text)
      BY <2>1
    <3> QED BY <2>1, <3>1, PartsLoop DEF Parts
  <2> DEFINE W == Seq(C)
  <2>3. Parts \in Seq(W) /\ Parts # <<>>
    BY <2>2 DEF SomeParts
  <2> HIDE DEF W
  <2>4. Parts[1] \in W /\ Last(Parts) \in W
    BY <2>3 DEF Last
  <2>5. t \in Seq(C) /\ u \in Seq(C)
    BY <2>4 DEF W
  <2> HIDE DEF t, u
  <2>6. TwoRead(read, names, fields, t, u)
    BY <2>1, <2>5, TwoAreRead
  <2>7. {",", "}"} \cap ToSet(t) = {} => Hidden(t)
    <3>1. EndsValue = {",", "}"}
      BY Zenon DEF EndsValue, Between, Closing
    <3>2. \A i \in 1..Len(t) : t[i] \in ToSet(t)
      BY <2>5 DEF ToSet
    <3>3. EndsValue \cap ToSet(t) = {} => Hidden(t)
      BY <3>2 DEF Hidden
    <3> QED BY <3>1, <3>3, Zenon
  <2> HIDE DEF read
  <2>8. /\ texts[1] = t /\ texts[2] = u /\ fields[2] = <<"g">>
    OBVIOUS
  <2> HIDE DEF texts, fields, names
  <2>9. /\ read.thrown => ~Hidden(t)
        /\ ~read.thrown =>
             /\ read.pairs[1] = <<names[1], JsonEscape(t)>>
             /\ read.pairs[2] = <<names[2], JsonEscape(u)>>
             /\ read.pairs[3][1] = <<"fields">>
        /\ Hidden(t) => Len(read.pairs) = 4 /\ read.pairs[4] = <<fields[2], JsonEscape(u)>>
    BY <2>6, Zenon DEF TwoRead
  <2>10. \A i \in 1..2 : i = 1 \/ i = 2
    OBVIOUS
  <2>11. ASSUME ~read.thrown
         PROVE  \A i \in 1..2 : read.pairs[i] = <<names[i], JsonEscape(texts[i])>>
    BY <2>8, <2>9, <2>10, <2>11, Zenon
  <2> QED BY <2>7, <2>8, <2>9, <2>11, Zenon
<1> QED BY <1>1, TextIsJson, PTL

-----------------------------------------------------------------------------
(* Redaction: what a pass makes of a text is told by what is hidden in it. *)

\* A name, that a key can be: without an equals sign and without what ends a value.
Named(key) == \A j \in 1..Len(key) : key[j] # "=" /\ key[j] \notin Separators
NamesOver(C) == {key \in Seq(C) : Named(key)}

\* What a key that is followed by a value looks like: from i on the key, an equals
\* sign at e, and behind that something of a value.
Opens(t, key, i, e) ==
  /\ e = i + Len(key) /\ e < Len(t) /\ Follows(t, i - 1, key)
  /\ t[e] = "=" /\ t[e + 1] \notin Separators

\* That is what KeyAt asks for.
LEMMA KeyIs ==
  ASSUME NEW C, "=" \in C, NEW t \in Seq(C), NEW key \in Seq(C), NEW i \in 1..Len(t)
  PROVE  KeyAt(t, key, i) <=> Opens(t, key, i, i + Len(key))
<1> DEFINE n == Len(key)
           e == i + n
           sign == "="
           s == SubSeq(t, i, e)
           r == Append(key, sign)
<1>1. n \in Nat /\ i \in Nat \ {0} /\ e \in Nat /\ e - i + 1 = n + 1 /\ (i - 1) + n = e - 1
  OBVIOUS
<1>2. sign \in C
  OBVIOUS
<1>3. /\ r \in Seq(C) /\ Len(r) = n + 1 /\ r[n + 1] = sign /\ \A j \in 1..n : r[j] = key[j]
  <2> HIDE DEF sign
  <2> QED BY <1>2, AppendProperties
<1> HIDE DEF r
<1>4. ASSUME e < Len(t) PROVE s = r <=> (Follows(t, i - 1, key) /\ t[e] = sign)
  <2>1. \A j \in i..e : t[j] \in C
    BY <1>1, <1>4
  <2>2. /\ s \in Seq(C) /\ Len(s) = n + 1 /\ \A j \in 1..(n + 1) : s[j] = t[i + j - 1]
    <3>1. i \in Int /\ e \in Int
      BY <1>1
    <3>2. /\ s \in Seq(C) /\ Len(s) = (IF i <= e THEN e - i + 1 ELSE 0)
          /\ \A j \in 1..(e - i + 1) : s[j] = t[i + j - 1]
      <4> HIDE DEF e
      <4> QED BY <2>1, <3>1, SubSeqProperties
    <3> HIDE DEF s
    <3> QED BY <1>1, <3>2
  <2> HIDE DEF s, sign
  <2>3. s = r <=> \A j \in 1..(n + 1) : s[j] = r[j]
    BY <1>3, <2>2, SeqEqual
  <2>4. (\A j \in 1..(n + 1) : s[j] = r[j])
          <=> ((\A j \in 1..n : s[j] = r[j]) /\ s[n + 1] = r[n + 1])
    BY <1>1
  <2>5. s[n + 1] = t[e]
    BY <1>1, <2>2
  <2>6. \A j \in 1..n : s[j] = t[(i - 1) + j]
    BY <1>1, <2>2
  <2>7. Follows(t, i - 1, key) <=> \A j \in 1..n : t[(i - 1) + j] = key[j]
    BY <1>1, <1>4 DEF Follows
  <2> QED BY <1>3, <2>3, <2>4, <2>5, <2>6, <2>7
<1>5. KeyAt(t, key, i) <=> (e < Len(t) /\ s = r /\ t[e + 1] \notin Separators)
  BY Zenon DEF KeyAt, r
<1>6. Opens(t, key, i, e) <=>
        (e < Len(t) /\ Follows(t, i - 1, key) /\ t[e] = sign /\ t[e + 1] \notin Separators)
  BY Zenon DEF Opens
<1> HIDE DEF s, sign, e
<1>7. KeyAt(t, key, i) <=> Opens(t, key, i, e)
  BY <1>4, <1>5, <1>6
<1> QED BY <1>7 DEF e

\* The equals sign ends no value, and neither does what stands for one.
LEMMA SignsApart == "=" \notin Separators /\ Secret \notin Separators
  BY Zenon DEF Separators, Secret

\* A key and its equals sign have neither another one nor the end of a value in them.
LEMMA KeyParts ==
  ASSUME NEW C, "=" \in C, NEW t \in Seq(C), NEW key \in NamesOver(C), NEW i \in 1..Len(t),
         KeyAt(t, key, i)
  PROVE  LET e == i + Len(key)
         IN  /\ Len(key) \in Nat /\ e \in i..(Len(t) - 1) /\ t[e] = "=" /\ t[e + 1] \notin Separators
             /\ \A m \in i..(e - 1) : t[m] # "="
             /\ \A m \in i..(e + 1) : t[m] \notin Separators
<1> DEFINE n == Len(key)
           e == i + n
           sign == "="
<1>1. key \in Seq(C) /\ Named(key)
  BY DEF NamesOver
<1>2. n \in Nat /\ i \in Nat \ {0} /\ Len(t) \in Nat /\ e \in Nat
  BY <1>1
<1>3. Opens(t, key, i, e)
  BY <1>1, KeyIs
<1>4. e < Len(t) /\ t[e] = sign /\ t[e + 1] \notin Separators
  BY <1>3, Zenon DEF Opens
<1>5. \A j \in 1..n : t[(i - 1) + j] = key[j]
  BY <1>3, Zenon DEF Opens, Follows
<1>6. \A j \in 1..n : key[j] # sign /\ key[j] \notin Separators
  BY <1>1, Zenon DEF Named
<1>7. sign \notin Separators
  BY SignsApart
<1> HIDE DEF sign
<1>8. \A m \in i..(e - 1) : t[m] # sign /\ t[m] \notin Separators
  <2> SUFFICES ASSUME NEW m \in i..(e - 1) PROVE t[m] # sign /\ t[m] \notin Separators
    OBVIOUS
  <2>1. (m - i) + 1 \in 1..n /\ (i - 1) + ((m - i) + 1) = m
    BY <1>2
  <2> QED BY <1>5, <1>6, <2>1
<1>9. \A m \in i..(e + 1) : m \in i..(e - 1) \/ m = e \/ m = e + 1
  BY <1>2
<1>10. \A m \in i..(e + 1) : t[m] \notin Separators
  BY <1>4, <1>7, <1>8, <1>9, Zenon
<1>11. e \in i..(Len(t) - 1)
  BY <1>2, <1>4
<1> QED BY <1>2, <1>4, <1>8, <1>10, <1>11 DEF sign

\* A key with a value at i hides what is at j.
Covers(t, key, i, j) ==
  /\ KeyAt(t, key, i) /\ i + Len(key) < j
  /\ \A k \in (i + Len(key) + 1)..j : t[k] \notin Separators

\* One of keys hides what is at j.
Covered(t, keys, j) == \E key \in keys : \E i \in 1..Len(t) : Covers(t, key, i, j)

\* The values that keys open before i are over at i.
Closed(t, keys, i) ==
  \/ i = Len(t) + 1
  \/ \A key \in keys : \A h \in 1..(i - 1) :
       KeyAt(t, key, h) => \E s \in (h + Len(key) + 1)..i : t[s] \in Separators

\* Then i is not hidden.
LEMMA ClosedShows ==
  ASSUME NEW C, "=" \in C, NEW t \in Seq(C), NEW keys \in SUBSET NamesOver(C),
         NEW i \in 1..Len(t), Closed(t, keys, i)
  PROVE  ~Covered(t, keys, i)
<1> SUFFICES ASSUME NEW key \in keys, NEW h \in 1..Len(t), Covers(t, key, h, i) PROVE FALSE
  BY DEF Covered
<1>1. key \in Seq(C) /\ Len(key) \in Nat
  BY DEF NamesOver
<1>2. h \in 1..(i - 1) /\ KeyAt(t, key, h) /\ i # Len(t) + 1
  BY <1>1 DEF Covers
<1>3. PICK s \in (h + Len(key) + 1)..i : t[s] \in Separators
  BY <1>2 DEF Closed
<1> QED BY <1>3 DEF Covers

\* They are over behind i too, if no key begins there.
LEMMA ClosedNext ==
  ASSUME NEW C, NEW t \in Seq(C), NEW keys \in SUBSET NamesOver(C),
         NEW i \in 1..Len(t), Closed(t, keys, i), \A key \in keys : ~KeyAt(t, key, i)
  PROVE  Closed(t, keys, i + 1)
<1> SUFFICES ASSUME NEW key \in keys, NEW h \in 1..((i + 1) - 1), KeyAt(t, key, h)
             PROVE  \E s \in (h + Len(key) + 1)..(i + 1) : t[s] \in Separators
  BY DEF Closed
<1>1. key \in Seq(C) /\ Len(key) \in Nat
  BY DEF NamesOver
<1>2. h # i
  OBVIOUS
<1>3. h \in 1..(i - 1) /\ i # Len(t) + 1
  BY <1>2
<1>4. PICK s \in (h + Len(key) + 1)..i : t[s] \in Separators
  BY <1>3 DEF Closed
<1>5. s \in (h + Len(key) + 1)..(i + 1)
  BY <1>1
<1> QED BY <1>4, <1>5

\* Where a key begins its value is hidden and the key is not, and they are over behind
\* the value.
LEMMA ClosedThrough ==
  ASSUME NEW C, "=" \in C, NEW t \in Seq(C), NEW keys \in SUBSET NamesOver(C),
         NEW i \in 1..Len(t), Closed(t, keys, i), NEW key \in keys, KeyAt(t, key, i),
         NEW after \in (i + Len(key) + 2)..(Len(t) + 1),
         after = Len(t) + 1 \/ t[after] \in Separators,
         \A k \in (i + Len(key) + 1)..(after - 1) : t[k] \notin Separators
  PROVE  /\ Closed(t, keys, after)
         /\ \A m \in i..(i + Len(key)) : ~Covered(t, keys, m)
         /\ \A m \in (i + Len(key) + 1)..(after - 1) : Covered(t, keys, m)
<1> DEFINE e == i + Len(key)
<1>1. key \in NamesOver(C) /\ key \in Seq(C) /\ Len(key) \in Nat
  BY DEF NamesOver
<1>2. /\ e \in i..(Len(t) - 1)
      /\ \A m \in i..(e - 1) : t[m] # "="
      /\ \A m \in i..(e + 1) : t[m] \notin Separators
  BY <1>1, KeyParts
<1>3. ASSUME NEW other \in keys, NEW h \in 1..Len(t), KeyAt(t, other, h)
      PROVE  /\ Len(other) \in Nat /\ h + Len(other) \in h..(Len(t) - 1)
             /\ t[h + Len(other)] = "="
             /\ \A m \in h..(h + Len(other) + 1) : t[m] \notin Separators
  <2>1. other \in NamesOver(C)
    OBVIOUS
  <2> QED BY <1>3, <2>1, KeyParts
<1>4. \A other \in keys : \A h \in 1..(i - 1) :
        KeyAt(t, other, h) => \E s \in (h + Len(other) + 1)..i : t[s] \in Separators
  BY DEF Closed
<1>5. Closed(t, keys, after)
  <2> SUFFICES ASSUME after # Len(t) + 1,
                      NEW other \in keys, NEW h \in 1..(after - 1), KeyAt(t, other, h)
               PROVE  \E s \in (h + Len(other) + 1)..after : t[s] \in Separators
    BY DEF Closed
  <2>1. after \in 1..Len(t) /\ t[after] \in Separators /\ h \in 1..Len(t)
    <3>1. Len(t) \in Nat /\ i + Len(key) + 2 \in Nat \ {0}
      BY <1>1
    <3>2. after \in 1..Len(t) /\ h \in 1..Len(t)
      BY <3>1
    <3> QED BY <3>2
  <2>2. /\ Len(other) \in Nat /\ h + Len(other) \in h..(Len(t) - 1)
        /\ \A m \in h..(h + Len(other) + 1) : t[m] \notin Separators
    BY <1>3, <2>1
  <2>3. ~(after \in h..(h + Len(other) + 1))
    BY <2>1, <2>2
  <2>4. after \in (h + Len(other) + 1)..after
    BY <2>1, <2>2, <2>3
  <2> QED BY <2>1, <2>4
<1>6. ASSUME NEW m \in i..e PROVE ~Covered(t, keys, m)
  <2> SUFFICES ASSUME NEW other \in keys, NEW h \in 1..Len(t), Covers(t, other, h, m) PROVE FALSE
    BY DEF Covered
  <2>1. KeyAt(t, other, h) /\ h + Len(other) < m
    BY DEF Covers
  <2>2. \A k \in (h + Len(other) + 1)..m : t[k] \notin Separators
    BY DEF Covers
  <2>3. /\ Len(other) \in Nat /\ h + Len(other) \in h..(Len(t) - 1)
        /\ t[h + Len(other)] = "="
    BY <1>3, <2>1
  <2>4. CASE h < i
    <3>1. PICK s \in (h + Len(other) + 1)..i : t[s] \in Separators
      BY <1>4, <2>1, <2>4
    <3>2. s \in (h + Len(other) + 1)..m
      BY <2>3, <3>1
    <3> QED BY <2>2, <3>1, <3>2
  <2>5. CASE h >= i
    <3>1. h + Len(other) \in i..(e - 1)
      BY <1>2, <2>1, <2>3, <2>5
    <3> QED BY <1>2, <2>3, <3>1
  <2> QED BY <2>4, <2>5
<1>7. ASSUME NEW m \in (e + 1)..(after - 1) PROVE Covered(t, keys, m)
  <2>1. e < m /\ \A k \in (e + 1)..m : k \in (e + 1)..(after - 1)
    BY <1>2
  <2>2. Covers(t, key, i, m)
    BY <2>1 DEF Covers
  <2> QED BY <2>2 DEF Covered
<1> QED BY <1>5, <1>6, <1>7

\* AfterValue is the end of the text or the first of what ends a value.
LEMMA AfterIs ==
  ASSUME NEW C, NEW t \in Seq(C), NEW i \in 1..Len(t), t[i] \notin Separators
  PROVE  LET after == AfterValue(t, i)
         IN  /\ after \in (i + 1)..(Len(t) + 1) 
             /\ after = Len(t) + 1 \/ t[after] \in Separators
             /\ \A k \in i..(after - 1) : t[k] \notin Separators
<1> DEFINE n == Len(t)
           Ends == {j \in i..(n + 1) : j = n + 1 \/ t[j] \in Separators}
           Is(j) == /\ j = n + 1 \/ t[j] \in Separators
                    /\ \A k \in i..(j - 1) : t[k] \notin Separators
           after == AfterValue(t, i)
<1>1. n \in Nat /\ i \in Nat /\ n + 1 \in Ends /\ Ends \subseteq Nat
  OBVIOUS
<1>2. Min(Ends) \in Ends /\ \A m \in Ends : Min(Ends) <= m
  <2> HIDE DEF Ends
  <2> QED BY <1>1, LeastIs
<1> DEFINE j == Min(Ends)
<1>3. j \in i..(n + 1) /\ (j = n + 1 \/ t[j] \in Separators)
  BY <1>2
<1>4. \A k \in i..(j - 1) : t[k] \notin Separators
  <2> SUFFICES ASSUME NEW k \in i..(j - 1), t[k] \in Separators PROVE FALSE
    OBVIOUS
  <2> HIDE DEF j
  <2>1. k \in Ends /\ k < j
    BY <1>1, <1>3
  <2> HIDE DEF Ends
  <2> QED BY <1>2, <2>1, <1>1, <1>3 DEF j
<1>5. \E k \in i..(n + 1) : Is(k)
  <2> HIDE DEF j
  <2> QED BY <1>3, <1>4
<1>6. after = CHOOSE k \in i..(n + 1) : Is(k)
  BY DEF AfterValue
<1>7. after \in i..(n + 1) /\ Is(after)
  <2> HIDE DEF Is, after
  <2> QED BY <1>5, <1>6
<1>8. after # i
  <2> HIDE DEF after
  <2> QED BY <1>1, <1>7
<1> HIDE DEF after
<1> QED BY <1>1, <1>7, <1>8 DEF after

\* Texts behind texts, in any grouping.
Regroups(s, t, u) == (s \o t) \o u = s \o (t \o u)

\* Any texts do.
LEMMA Regroup == ASSUME NEW C PROVE \A s, t, u \in Seq(C) : Regroups(s, t, u)
BY ConcatAssociative DEF Regroups

\* One element behind another makes a pair.
LEMMA PairIs ==
  ASSUME NEW x, NEW y
  PROVE  <<x>> \o <<y>> = <<x, y>>
<1> DEFINE C == {x, y}
           s == <<x>>
           t == <<y>>
           u == <<x, y>>
<1>1. s \in Seq(C) /\ t \in Seq(C) /\ Len(s) = 1 /\ Len(t) = 1 /\ s[1] = x /\ t[1] = y
  OBVIOUS
<1>2. u \in Seq(C) /\ Len(u) = 2 /\ u[1] = x /\ u[2] = y
  OBVIOUS
<1> HIDE DEF s, t, u, C
<1>3. /\ s \o t \in Seq(C) /\ Len(s \o t) = Len(s) + Len(t)
      /\ \A i \in 1..Len(s) + Len(t) : (s \o t)[i] = IF i <= Len(s) THEN s[i] ELSE t[i - Len(s)]
  BY <1>1, ConcatProperties
<1> DEFINE both == s \o t
<1>4. both \in Seq(C) /\ Len(both) = 2 /\ both[1] = x /\ both[2] = y
  <2> HIDE DEF both
  <2>1. both \in Seq(C) /\ Len(both) = 1 + 1 /\ 1 \in 1..(1 + 1) /\ 2 \in 1..(1 + 1)
    BY <1>1, <1>3 DEF both
  <2>2. both[1] = s[1] /\ both[2] = t[2 - 1]
    BY <1>1, <1>3, <2>1 DEF both
  <2> QED BY <1>1, <2>1, <2>2
<1> HIDE DEF both
<1>5. both = u
  <2>1. \A i \in 1..2 : i = 1 \/ i = 2
    OBVIOUS
  <2>2. \A i \in 1..2 : both[i] = u[i]
    BY <1>2, <1>4, <2>1, Zenon
  <2> QED BY <1>2, <1>4, <2>2, SeqEqual
<1> QED BY <1>5 DEF both, s, t, u

\* What comes of the element at j: itself, or for a hidden value Secret once.
MaskPiece(t, keys, j) ==
  IF ~Covered(t, keys, j) THEN <<t[j]>>
  ELSE IF Covered(t, keys, j - 1) THEN <<>> ELSE <<Secret>>
MaskPieces(t, keys) == [j \in 1..Len(t) |-> MaskPiece(t, keys, j)]

\* The text without the values of keys.
Masked(t, keys) == FlattenSeq(MaskPieces(t, keys))

\* The pieces are texts, one for each element.
LEMMA PiecesType ==
  ASSUME NEW C, Secret \in C, NEW t \in Seq(C), NEW keys
  PROVE  /\ MaskPieces(t, keys) \in Seq(Seq(C)) /\ Len(MaskPieces(t, keys)) = Len(t)
         /\ \A j \in 1..Len(t) : MaskPieces(t, keys)[j] = MaskPiece(t, keys, j)
<1> DEFINE W == Seq(C)
           secret == Secret
<1>1. ASSUME NEW j \in 1..Len(t) PROVE MaskPiece(t, keys, j) \in W
  <2>1. <<t[j]>> \in W /\ <<secret>> \in W /\ <<>> \in W
    <3> HIDE DEF secret
    <3> QED BY DEF secret
  <2> HIDE DEF W
  <2> QED BY <2>1 DEF MaskPiece
<1> HIDE DEF W, secret
<1>2. Len(t) \in Nat
  OBVIOUS
<1>3. [j \in 1..Len(t) |-> MaskPiece(t, keys, j)] \in [1..Len(t) -> W]
  BY <1>1
<1> QED BY <1>2, <1>3 DEF MaskPieces, W

\* Behind p the sequences are the single elements of s.
Singles(seqs, p, s) ==
  p + Len(s) <= Len(seqs) /\ \A j \in 1..Len(s) : seqs[p + j] = <<s[j]>>

\* A loop over them adds s.
LEMMA SinglesAdd ==
  ASSUME NEW C, NEW seqs \in Seq(Seq(C)), NEW g, Flattens(g, seqs, C),
         NEW s \in Seq(C), NEW p \in Nat, Singles(seqs, p, s)
  PROVE  g[p + Len(s)] = g[p] \o s
<1> DEFINE n == Len(s)
           head(j) == SubSeq(s, 1, j)
           S == {j \in 0..n : g[p + j] = g[p] \o head(j)}
<1>0. p + n <= Len(seqs) /\ \A j \in 1..n : seqs[p + j] = <<s[j]>>
  BY DEF Singles
<1>1. n \in Nat /\ Len(seqs) \in Nat
  OBVIOUS
<1>2. /\ head(0) = <<>> /\ head(n) = s
      /\ \A j \in 0..n : head(j) \in Seq(C)
      /\ \A j \in 1..n : head(j) = Append(head(j - 1), s[j])
  BY Beginnings
<1> HIDE DEF head
<1>3. \A j \in 0..n : p + j \in 0..Len(seqs) /\ g[p + j] \in Seq(C)
  <2> SUFFICES ASSUME NEW j \in 0..n PROVE p + j \in 0..Len(seqs) /\ g[p + j] \in Seq(C)
    OBVIOUS
  <2>1. p + j \in 0..Len(seqs)
    BY <1>0, <1>1
  <2> QED BY <2>1 DEF Flattens
<1>4. 0 \in S
  <2>1. p + 0 = p /\ g[p] \in Seq(C)
    BY <1>1, <1>3
  <2>2. g[p] \o <<>> = g[p]
    BY <2>1, ConcatEmptySeq
  <2> QED BY <1>1, <1>2, <2>1, <2>2
<1>5. ASSUME NEW j \in 1..n, j - 1 \in S PROVE j \in S
  <2>1. p + j \in 1..Len(seqs) /\ (p + j) - 1 = p + (j - 1) /\ j - 1 \in 0..n /\ j \in 0..n
    BY <1>0, <1>1
  <2>2. g[p + j] = g[p + (j - 1)] \o <<s[j]>>
    BY <1>0, <2>1 DEF Flattens
  <2>3. g[p + (j - 1)] = g[p] \o head(j - 1)
    BY <1>5
  <2>4. g[p] \in Seq(C) /\ head(j - 1) \in Seq(C) /\ s[j] \in C
    <3>1. 0 \in 0..n /\ p + 0 = p
      BY <1>1
    <3>2. g[p] \in Seq(C)
      BY <1>3, <3>1
    <3>3. head(j - 1) \in Seq(C)
      BY <1>2, <2>1
    <3>4. s[j] \in C
      OBVIOUS
    <3> QED BY <3>2, <3>3, <3>4
  <2>5. (g[p] \o head(j - 1)) \o <<s[j]>> = g[p] \o (head(j - 1) \o <<s[j]>>)
    <3> DEFINE before == g[p]
               begun == head(j - 1)
               one == <<s[j]>>
    <3>1. before \in Seq(C) /\ begun \in Seq(C) /\ one \in Seq(C)
      BY <2>4
    <3> HIDE DEF before, begun, one
    <3>2. (before \o begun) \o one = before \o (begun \o one)
      <4>1. Regroups(before, begun, one)
        BY <3>1, Regroup
      <4> QED BY ONLY <4>1, Zenon DEF Regroups
    <3> QED BY <3>2 DEF before, begun, one
  <2>6. head(j - 1) \o <<s[j]>> = head(j)
    BY <1>2, <2>1, <2>4, AppendIsConcat
  <2> QED BY <2>1, <2>2, <2>3, <2>5, <2>6
<1>6. n \in S
  <2>1. \A j \in 1..n : j - 1 \in S => j \in S
    BY ONLY <1>5
  <2> HIDE DEF S
  <2>2. 0..n \subseteq S
    BY ONLY <1>1, <1>4, <2>1, BoundedInduction
  <2> QED BY ONLY <1>1, <2>2
<1> QED BY <1>2, <1>6

\* From p to q there is nothing.
Nothings(seqs, p, q) == \A j \in (p + 1)..q : seqs[j] = <<>>

\* A loop over nothing adds nothing.
LEMMA NothingAdds ==
  ASSUME NEW C, NEW seqs \in Seq(Seq(C)), NEW g, Flattens(g, seqs, C),
         NEW p \in Nat, NEW q \in p..Len(seqs), Nothings(seqs, p, q)
  PROVE  g[q] = g[p]
<1> DEFINE n == q - p
           S == {j \in 0..n : g[p + j] = g[p]}
<1>1. n \in Nat /\ p + n = q /\ p + 0 = p /\ Len(seqs) \in Nat
  OBVIOUS
<1>2. 0 \in S
  BY <1>1
<1>3. ASSUME NEW j \in 1..n, j - 1 \in S PROVE j \in S
  <2>1. /\ p + j \in (p + 1)..q /\ p + j \in 1..Len(seqs)
        /\ (p + j) - 1 = p + (j - 1) /\ (p + j) - 1 \in 0..Len(seqs)
    BY <1>1
  <2>2. g[p + j] = g[(p + j) - 1] \o <<>> /\ g[(p + j) - 1] \in Seq(C)
    BY <2>1 DEF Flattens, Nothings
  <2>3. g[p + j] = g[p + (j - 1)]
    BY <2>1, <2>2, ConcatEmptySeq
  <2> QED BY <1>1, <1>3, <2>3
<1>4. n \in S
  <2>1. \A j \in 1..n : j - 1 \in S => j \in S
    BY ONLY <1>3
  <2> HIDE DEF S, n
  <2>2. 0..n \subseteq S
    BY ONLY <1>1, <1>2, <2>1, BoundedInduction
  <2> QED BY ONLY <1>1, <2>2
<1> QED BY <1>1, <1>4

\* f is a pass over t from any position on: behind a key it goes on after its value.
PassIs(f, t, keys, C) ==
  /\ f \in [1..(Len(t) + 1) -> Seq(C)] /\ f[Len(t) + 1] = <<>>
  /\ \A i \in 1..Len(t) :
       \/ \E key \in keys :
            /\ KeyAt(t, key, i)
            /\ f[i] = key \o <<"=", Secret>> \o f[AfterValue(t, i + Len(key) + 1)]
       \/ (\A key \in keys : ~KeyAt(t, key, i)) /\ f[i] = <<t[i]>> \o f[i + 1]

\* Where g is at the end of the value of a key at i.
Turned(t, keys, g, i, key) ==
  LET after == AfterValue(t, i + Len(key) + 1)
  IN  /\ after \in (i + 1)..(Len(t) + 1) /\ Closed(t, keys, after)
      /\ g[after - 1] = g[i - 1] \o (key \o <<"=", Secret>>)

\* One turn of it at a key, in the loop over the pieces.
LEMMA KeyTurn ==
  ASSUME NEW C, "=" \in C, Secret \in C, NEW t \in Seq(C), NEW keys \in SUBSET NamesOver(C),
         NEW g, Flattens(g, MaskPieces(t, keys), C),
         NEW i \in 1..Len(t), Closed(t, keys, i), NEW key \in keys, KeyAt(t, key, i)
  PROVE  Turned(t, keys, g, i, key)
<1> DEFINE n == Len(key)
           e == i + n
           after == AfterValue(t, e + 1)
           sign == "="
           named == Append(key, sign)
           seqs == MaskPieces(t, keys)
<1>1. key \in NamesOver(C) /\ key \in Seq(C) /\ n \in Nat /\ Len(t) \in Nat
  BY DEF NamesOver
<1>2. e \in i..(Len(t) - 1) /\ t[e] = sign /\ t[e + 1] \notin Separators
  BY <1>1, KeyParts
<1>3. e + 1 \in 1..Len(t) /\ e \in Nat
  BY <1>1, <1>2
<1>4. /\ after \in (e + 2)..(Len(t) + 1)
      /\ after = Len(t) + 1 \/ t[after] \in Separators
      /\ \A k \in (e + 1)..(after - 1) : t[k] \notin Separators
  <2> HIDE DEF e, after
  <2>1. /\ after \in ((e + 1) + 1)..(Len(t) + 1)
        /\ after = Len(t) + 1 \/ t[after] \in Separators
        /\ \A k \in (e + 1)..(after - 1) : t[k] \notin Separators
    BY <1>2, <1>3, AfterIs DEF after
  <2> QED BY <1>3, <2>1
<1> HIDE DEF after
<1>5. /\ Closed(t, keys, after)
      /\ \A m \in i..e : ~Covered(t, keys, m)
      /\ \A m \in (e + 1)..(after - 1) : Covered(t, keys, m)
  BY <1>4, ClosedThrough
<1>6. /\ seqs \in Seq(Seq(C)) /\ Len(seqs) = Len(t)
      /\ \A j \in 1..Len(t) : seqs[j] = MaskPiece(t, keys, j)
  BY PiecesType
<1>7. Follows(t, i - 1, key)
  BY <1>1, KeyIs DEF Opens
<1> HIDE DEF seqs
<1>8. sign \in C
  OBVIOUS
<1>9. /\ named \in Seq(C) /\ Len(named) = n + 1 /\ named[n + 1] = sign
      /\ \A j \in 1..n : named[j] = key[j]
  <2> HIDE DEF sign
  <2> QED BY <1>1, <1>8, AppendProperties
<1>10. named = key \o <<sign>>
  <2> HIDE DEF sign
  <2> QED BY <1>1, <1>8, AppendIsConcat
<1> HIDE DEF named, sign
<1>11. g[e] = g[i - 1] \o named
  <2>1. i - 1 \in Nat /\ (i - 1) + Len(named) = e /\ (i - 1) + Len(named) <= Len(seqs)
    BY <1>1, <1>2, <1>6, <1>9
  <2>2. ASSUME NEW j \in 1..Len(named) PROVE seqs[(i - 1) + j] = <<named[j]>>
    <3>1. (i - 1) + j \in i..e /\ (i - 1) + j \in 1..Len(t)
      BY <1>1, <1>2, <1>9
    <3>2. seqs[(i - 1) + j] = <<t[(i - 1) + j]>>
      BY <1>5, <1>6, <3>1 DEF MaskPiece
    <3>3. t[(i - 1) + j] = named[j]
      <4>1. CASE j \in 1..n
        BY <1>7, <1>9, <4>1 DEF Follows
      <4>2. CASE j = n + 1
        <5>1. (i - 1) + j = e
          BY <1>1, <4>2
        <5> QED BY <1>2, <1>9, <4>2, <5>1
      <4> QED BY <1>1, <1>9, <4>1, <4>2
    <3> QED BY <3>2, <3>3
  <2>3. Flattens(g, seqs, C)
    BY DEF seqs
  <2>5. Singles(seqs, i - 1, named)
    BY <2>1, <2>2 DEF Singles
  <2>6. seqs \in Seq(Seq(C)) /\ named \in Seq(C) /\ i - 1 \in Nat
    BY <1>6, <1>9, <2>1
  <2> HIDE DEF e
  <2>4. g[(i - 1) + Len(named)] = g[i - 1] \o named
    BY ONLY <2>3, <2>5, <2>6, SinglesAdd
  <2> QED BY <2>1, <2>4
<1>12. g[e + 1] = g[e] \o <<Secret>>
  <2>1. e + 1 \in (e + 1)..(after - 1) /\ (e + 1) - 1 = e /\ e \in i..e
    BY <1>2, <1>3, <1>4
  <2>2. Covered(t, keys, e + 1) /\ ~Covered(t, keys, e)
    BY <1>5, <2>1
  <2>3. seqs[e + 1] = <<Secret>>
    <3> HIDE DEF e
    <3> QED BY <1>3, <1>6, <2>1, <2>2 DEF MaskPiece
  <2>4. Flattens(g, seqs, C)
    BY DEF seqs
  <2> HIDE DEF e
  <2> QED BY <1>3, <1>6, <2>1, <2>3, <2>4 DEF Flattens
<1>13. g[after - 1] = g[e + 1]
  <2>1. e + 1 \in Nat /\ after - 1 \in (e + 1)..Len(seqs)
    BY <1>3, <1>4, <1>6
  <2>2. ASSUME NEW j \in ((e + 1) + 1)..(after - 1) PROVE seqs[j] = <<>>
    <3>1. /\ j \in (e + 1)..(after - 1) /\ j - 1 \in (e + 1)..(after - 1) /\ j \in 1..Len(t)
      BY <1>3, <1>4
    <3>2. Covered(t, keys, j) /\ Covered(t, keys, j - 1)
      BY <1>5, <3>1
    <3> QED BY <1>6, <3>1, <3>2 DEF MaskPiece
  <2>3. Flattens(g, seqs, C)
    BY DEF seqs
  <2>4. Nothings(seqs, e + 1, after - 1)
    BY <2>2 DEF Nothings
  <2>5. seqs \in Seq(Seq(C))
    BY <1>6
  <2> HIDE DEF e
  <2> QED BY ONLY <2>1, <2>3, <2>4, <2>5, NothingAdds
<1>14. key \o <<sign, Secret>> \in Seq(C) /\ g[e + 1] = g[i - 1] \o (key \o <<sign, Secret>>)
  <2> DEFINE q == Secret
             one == <<sign>>
             two == <<q>>
             before == g[i - 1]
  <2>1. q \in C /\ i - 1 \in 0..Len(seqs)
    BY <1>1, <1>6
  <2>2. before \in Seq(C)
    <3>1. Flattens(g, seqs, C)
      BY DEF seqs
    <3> QED BY <2>1, <3>1 DEF Flattens
  <2>3. one \in Seq(C) /\ two \in Seq(C)
    BY <1>8, <2>1
  <2>4. one \o two = <<sign, q>>
    BY ONLY PairIs, Zenon DEF one, two
  <2>5. g[e + 1] = (before \o (key \o one)) \o two
    BY <1>10, <1>11, <1>12
  <2> HIDE DEF q, one, two, before
  <2>6. key \o one \in Seq(C) /\ one \o two \in Seq(C) /\ key \o (one \o two) \in Seq(C)
    BY <1>1, <2>3, ConcatProperties
  <2>7. (before \o (key \o one)) \o two = before \o ((key \o one) \o two)
    <3>1. Regroups(before, key \o one, two)
      BY <2>2, <2>3, <2>6, Regroup
    <3> QED BY ONLY <3>1, Zenon DEF Regroups
  <2>8. (key \o one) \o two = key \o (one \o two)
    <3>1. Regroups(key, one, two)
      BY <1>1, <2>3, Regroup
    <3> QED BY ONLY <3>1, Zenon DEF Regroups
  <2>9. g[e + 1] = before \o (key \o <<sign, q>>)
    BY <2>4, <2>5, <2>7, <2>8, Zenon
  <2>10. key \o <<sign, q>> \in Seq(C)
    BY <2>4, <2>6, Zenon
  <2> QED BY <2>9, <2>10, Zenon DEF q, before
<1>15. after \in (i + 1)..(Len(t) + 1)
  BY <1>2, <1>4
<1>16. after = AfterValue(t, i + Len(key) + 1)
  BY DEF after
<1>17. g[after - 1] = g[i - 1] \o (key \o <<"=", Secret>>)
  BY <1>13, <1>14, Zenon DEF sign
<1> HIDE DEF e
<1> QED BY <1>5, <1>15, <1>16, <1>17, Zenon DEF Turned

\* So a pass masks the text.
LEMMA PassMasks ==
  ASSUME NEW C, "=" \in C, Secret \in C, NEW t \in Seq(C), NEW keys \in SUBSET NamesOver(C),
         NEW f, PassIs(f, t, keys, C)
  PROVE  f[1] = Masked(t, keys)
<1> DEFINE n == Len(t)
           seqs == MaskPieces(t, keys)
<1>1. /\ seqs \in Seq(Seq(C)) /\ Len(seqs) = n
      /\ \A j \in 1..n : seqs[j] = MaskPiece(t, keys, j)
  BY PiecesType
<1>2. PICK g : Flattens(g, seqs, C)
  <2> HIDE DEF seqs
  <2> QED BY <1>1, FlattenLoop
<1> DEFINE Claim(i) == Closed(t, keys, i) => g[n] = g[i - 1] \o f[i]
           S == {x \in Nat : x <= n => Claim((n + 1) - x)}
<1>3. n \in Nat /\ \A i \in 1..(n + 1) : i - 1 \in 0..n /\ g[i - 1] \in Seq(C) /\ f[i] \in Seq(C)
  <2>1. n \in Nat /\ \A i \in 1..(n + 1) : i - 1 \in 0..n
    OBVIOUS
  <2>2. \A j \in 0..n : g[j] \in Seq(C)
    <3> HIDE DEF seqs
    <3> QED BY <1>1, <1>2 DEF Flattens
  <2>3. \A i \in 1..(n + 1) : f[i] \in Seq(C)
    BY DEF PassIs
  <2> QED BY <2>1, <2>2, <2>3
<1>4. ASSUME NEW x \in Nat, \A y \in Nat : y < x => y \in S PROVE x \in S
  <2> SUFFICES ASSUME x <= n PROVE Claim((n + 1) - x)
    OBVIOUS
  <2> DEFINE i == (n + 1) - x
  <2>1. i \in 1..(n + 1)
    BY <1>3
  <2>2. \A j \in (i + 1)..(n + 1) : Claim(j)
    <3> SUFFICES ASSUME NEW j \in (i + 1)..(n + 1) PROVE Claim(j)
      OBVIOUS
    <3>1. (n + 1) - j \in Nat /\ (n + 1) - j < x /\ (n + 1) - j <= n /\ (n + 1) - ((n + 1) - j) = j
      BY <1>3, <2>1
    <3>2. (n + 1) - j \in S
      BY <1>4, <3>1
    <3> HIDE DEF Claim
    <3> QED BY <3>1, <3>2
  <2> HIDE DEF i
  <2> SUFFICES ASSUME Closed(t, keys, i) PROVE g[n] = g[i - 1] \o f[i]
    BY DEF i
  <2>3. CASE i = n + 1
    <3>1. f[i] = <<>> /\ i - 1 = n /\ g[n] \in Seq(C)
      BY <1>3, <2>1, <2>3 DEF PassIs
    <3> QED BY <3>1, ConcatEmptySeq
  <2>4. CASE i # n + 1
    <3>1. i \in 1..n
      BY <1>3, <2>1, <2>4
    <3>2. CASE \E key \in keys : /\ KeyAt(t, key, i)
                                 /\ f[i] = key \o <<"=", Secret>> \o f[AfterValue(t, i + Len(key) + 1)]
      <4>1. PICK key \in keys : /\ KeyAt(t, key, i)
                                /\ f[i] = key \o <<"=", Secret>> \o f[AfterValue(t, i + Len(key) + 1)]
        BY <3>2
      <4> DEFINE after == AfterValue(t, i + Len(key) + 1)
                 value == key \o <<"=", Secret>>
      <4>2. KeyAt(t, key, i)
        BY <4>1
      <4>3. /\ after \in (i + 1)..(n + 1) /\ Closed(t, keys, after)
            /\ g[after - 1] = g[i - 1] \o value
        <5>1. Flattens(g, MaskPieces(t, keys), C)
          BY <1>2
        <5>2. Turned(t, keys, g, i, key)
          BY <3>1, <4>2, <5>1, KeyTurn
        <5> QED BY ONLY <5>2, Zenon DEF Turned
      <4>4. f[i] = value \o f[after]
        BY <4>1
      <4>5. value \in Seq(C)
        <5> DEFINE sign == "="
                   q == Secret
        <5>1. sign \in C /\ q \in C /\ key \in Seq(C)
          BY DEF NamesOver
        <5> HIDE DEF sign, q
        <5>2. <<sign, q>> \in Seq(C)
          BY <5>1
        <5>3. key \o <<sign, q>> \in Seq(C)
          BY <5>1, <5>2, ConcatProperties
        <5> QED BY <5>3 DEF sign, q
      <4> HIDE DEF value, after
      <4>6. g[n] = g[after - 1] \o f[after]
        BY <2>2, <4>3
      <4>7. f[after] \in Seq(C) /\ g[i - 1] \in Seq(C)
        <5>1. after \in 1..(n + 1)
          BY <2>1, <4>3
        <5> QED BY <1>3, <2>1, <5>1
      <4>8. (g[i - 1] \o value) \o f[after] = g[i - 1] \o (value \o f[after])
        <5>1. Regroups(g[i - 1], value, f[after])
          BY <4>5, <4>7, Regroup
        <5> QED BY ONLY <5>1, Zenon DEF Regroups
      <4> QED BY <4>3, <4>4, <4>6, <4>8, Zenon
    <3>3. CASE (\A key \in keys : ~KeyAt(t, key, i)) /\ f[i] = <<t[i]>> \o f[i + 1]
      <4>1. Closed(t, keys, i + 1)
        BY <3>1, <3>3, ClosedNext
      <4>2. ~Covered(t, keys, i)
        BY <3>1, ClosedShows
      <4>3. seqs[i] = <<t[i]>>
        <5> HIDE DEF seqs
        <5> QED BY <1>1, <3>1, <4>2 DEF MaskPiece
      <4> DEFINE one == <<t[i]>>
      <4>4. one \in Seq(C)
        BY <3>1
      <4>5. g[i] = g[i - 1] \o one
        <5> HIDE DEF seqs
        <5> QED BY <1>1, <1>2, <3>1, <4>3 DEF Flattens
      <4>6. i + 1 \in (i + 1)..(n + 1) /\ (i + 1) - 1 = i
        BY <1>3, <3>1
      <4>7. g[n] = g[i] \o f[i + 1]
        BY <2>2, <4>1, <4>6
      <4>8. f[i + 1] \in Seq(C) /\ g[i - 1] \in Seq(C)
        BY <1>3, <2>1, <3>1, <4>6
      <4> HIDE DEF one
      <4>9. (g[i - 1] \o one) \o f[i + 1] = g[i - 1] \o (one \o f[i + 1])
        <5>1. Regroups(g[i - 1], one, f[i + 1])
          BY <4>4, <4>8, Regroup
        <5> QED BY ONLY <5>1, Zenon DEF Regroups
      <4>10. f[i] = one \o f[i + 1]
        BY <3>3 DEF one
      <4> QED BY <4>5, <4>7, <4>9, <4>10, Zenon
    <3> QED BY <3>1, <3>2, <3>3 DEF PassIs
  <2> QED BY <2>3, <2>4
<1>5. n \in S
  <2> HIDE DEF S
  <2>1. Nat \subseteq S
    BY <1>4, StrongInduction
  <2> QED BY <1>3, <2>1
<1>6. Claim(1)
  <2>1. (n + 1) - n = 1
    BY <1>3
  <2> HIDE DEF Claim
  <2> QED BY <1>3, <1>5, <2>1
<1>7. Closed(t, keys, 1)
  BY DEF Closed
<1>8. g[n] = g[0] \o f[1] /\ g[0] = <<>> /\ g[n] = FlattenSeq(seqs)
  <2> HIDE DEF seqs
  <2>1. 1 - 1 = 0
    OBVIOUS
  <2> QED BY <1>1, <1>2, <1>6, <1>7, <2>1 DEF Flattens
<1>9. f[1] \in Seq(C)
  BY <1>3
<1>10. <<>> \o f[1] = f[1]
  BY <1>9, ConcatEmptySeq
<1> QED BY <1>8, <1>10, Zenon DEF Masked

\* h is a pass that takes the key in chosen at the positions in found.
Passing(h, t, found, chosen) ==
  \A i \in 1..(Len(t) + 1) :
    h[i] = IF i > Len(t) THEN <<>>
           ELSE IF i \in found
           THEN chosen[i] \o <<"=", Secret>> \o h[AfterValue(t, i + Len(chosen[i]) + 1)]
           ELSE <<t[i]>> \o h[i + 1]

\* It may take those keys.
Chooses(found, chosen, t, keys) ==
  found \subseteq 1..Len(t) /\ \A i \in found : chosen[i] \in keys /\ KeyAt(t, chosen[i], i)

\* Where it goes on.
LEMMA GoesOn ==
  ASSUME NEW C, "=" \in C, Secret \in C, NEW t \in Seq(C), NEW keys \in SUBSET NamesOver(C),
         NEW found, NEW chosen, Chooses(found, chosen, t, keys), NEW i \in found
  PROVE  /\ AfterValue(t, i + Len(chosen[i]) + 1) \in (i + 1)..(Len(t) + 1)
         /\ chosen[i] \o <<"=", Secret>> \in Seq(C)
<1> DEFINE key == chosen[i]
           e == i + Len(key)
           sign == "="
           q == Secret
<1>1. i \in 1..Len(t) /\ key \in NamesOver(C) /\ KeyAt(t, key, i)
  BY DEF Chooses
<1>2. key \in Seq(C) /\ sign \in C /\ q \in C
  BY <1>1 DEF NamesOver
<1> HIDE DEF key
<1>3. e \in i..(Len(t) - 1) /\ t[e + 1] \notin Separators
  BY <1>1, KeyParts
<1>4. e + 1 \in 1..Len(t)
  BY <1>1, <1>3
<1>5. AfterValue(t, e + 1) \in ((e + 1) + 1)..(Len(t) + 1)
  <2> HIDE DEF e
  <2> QED BY <1>3, <1>4, AfterIs
<1>6. AfterValue(t, e + 1) \in (i + 1)..(Len(t) + 1)
  <2> HIDE DEF e
  <2> QED BY <1>1, <1>3, <1>5
<1>7. key \o <<sign, q>> \in Seq(C)
  <2> HIDE DEF sign, q
  <2>1. <<sign, q>> \in Seq(C)
    BY <1>2
  <2> QED BY <1>2, <2>1, ConcatProperties
<1> QED BY <1>6, <1>7 DEF key

\* One turn is a text if the rest is one.
LEMMA TurnTyped ==
  ASSUME NEW C, "=" \in C, Secret \in C, NEW t \in Seq(C), NEW keys \in SUBSET NamesOver(C),
         NEW found, NEW chosen, Chooses(found, chosen, t, keys), NEW rest \in Seq(C)
  PROVE  /\ \A i \in found : chosen[i] \o <<"=", Secret>> \o rest \in Seq(C)
         /\ \A i \in 1..Len(t) : <<t[i]>> \o rest \in Seq(C)
<1>1. ASSUME NEW i \in found PROVE chosen[i] \o <<"=", Secret>> \o rest \in Seq(C)
  <2> DEFINE value == chosen[i] \o <<"=", Secret>>
  <2>1. value \in Seq(C)
    BY GoesOn
  <2> HIDE DEF value
  <2>2. value \o rest \in Seq(C)
    BY <2>1, ConcatProperties
  <2> QED BY <2>2 DEF value
<1>2. ASSUME NEW i \in 1..Len(t) PROVE <<t[i]>> \o rest \in Seq(C)
  <2> DEFINE one == <<t[i]>>
  <2>1. one \in Seq(C)
    OBVIOUS
  <2> HIDE DEF one
  <2>2. one \o rest \in Seq(C)
    BY <2>1, ConcatProperties
  <2> QED BY <2>2 DEF one
<1> QED BY <1>1, <1>2

\* What passes is a pass.
LEMMA PassingIs ==
  ASSUME NEW C, "=" \in C, Secret \in C, NEW t \in Seq(C), NEW keys \in SUBSET NamesOver(C),
         NEW found, NEW chosen, Chooses(found, chosen, t, keys),
         \A key \in keys : \A i \in 1..Len(t) : KeyAt(t, key, i) => i \in found,
         NEW h, Passing(h, t, found, chosen), h = [i \in 1..(Len(t) + 1) |-> h[i]]
  PROVE  PassIs(h, t, keys, C)
<1> DEFINE n == Len(t)
           S == {x \in Nat : x <= n => h[(n + 1) - x] \in Seq(C)}
<1>1. n \in Nat /\ found \subseteq 1..n
  BY DEF Chooses
<1>2. ASSUME NEW i \in 1..n
      PROVE  /\ i \in found =>
                  h[i] = chosen[i] \o <<"=", Secret>> \o h[AfterValue(t, i + Len(chosen[i]) + 1)]
             /\ i \notin found => h[i] = <<t[i]>> \o h[i + 1]
  <2>1. i \in 1..(Len(t) + 1) /\ ~(i > Len(t))
    BY <1>1
  <2> QED BY <2>1, Zenon DEF Passing
<1>3. h[n + 1] = <<>>
  <2>1. n + 1 \in 1..(n + 1) /\ n + 1 > n
    BY <1>1
  <2> QED BY <2>1, Zenon DEF Passing
<1>4. ASSUME NEW x \in Nat, \A y \in Nat : y < x => y \in S PROVE x \in S
  <2> SUFFICES ASSUME x <= n PROVE h[(n + 1) - x] \in Seq(C)
    OBVIOUS
  <2> DEFINE i == (n + 1) - x
  <2>1. i \in 1..(n + 1)
    BY <1>1
  <2>2. \A j \in (i + 1)..(n + 1) : h[j] \in Seq(C)
    <3> SUFFICES ASSUME NEW j \in (i + 1)..(n + 1) PROVE h[j] \in Seq(C)
      OBVIOUS
    <3>1. (n + 1) - j \in Nat /\ (n + 1) - j < x /\ (n + 1) - j <= n /\ (n + 1) - ((n + 1) - j) = j
      BY <1>1, <2>1
    <3>2. (n + 1) - j \in S
      BY <1>4, <3>1
    <3> QED BY <3>1, <3>2
  <2> HIDE DEF i
  <2>3. CASE i = n + 1
    <3>1. h[i] = <<>>
      BY <1>3, <2>3
    <3>2. <<>> \in Seq(C)
      BY EmptySeq
    <3>3. h[i] \in Seq(C)
      BY ONLY <3>1, <3>2, Zenon
    <3> QED BY <3>3 DEF i
  <2>4. CASE i \in 1..n /\ i \in found
    <3> DEFINE after == AfterValue(t, i + Len(chosen[i]) + 1)
    <3>1. after \in (i + 1)..(n + 1)
      BY <2>4, GoesOn
    <3>2. h[i] = chosen[i] \o <<"=", Secret>> \o h[after]
      BY <1>2, <2>4, Zenon
    <3> HIDE DEF after
    <3>3. h[after] \in Seq(C)
      BY <2>2, <3>1
    <3>4. chosen[i] \o <<"=", Secret>> \o h[after] \in Seq(C)
      BY <2>4, <3>3, TurnTyped
    <3>5. h[i] \in Seq(C)
      BY ONLY <3>2, <3>4, Zenon
    <3> QED BY <3>5 DEF i
  <2>5. CASE i \in 1..n /\ i \notin found
    <3>1. i + 1 \in (i + 1)..(n + 1)
      BY <1>1, <2>5
    <3>2. h[i + 1] \in Seq(C)
      BY <2>2, <3>1
    <3>3. <<t[i]>> \o h[i + 1] \in Seq(C)
      BY <2>5, <3>2, TurnTyped
    <3>4. h[i] = <<t[i]>> \o h[i + 1]
      BY <1>2, <2>5, Zenon
    <3>5. h[i] \in Seq(C)
      BY ONLY <3>3, <3>4, Zenon
    <3> QED BY <3>5 DEF i
  <2>6. i = n + 1 \/ i \in 1..n
    BY <1>1, <2>1
  <2> QED BY <2>3, <2>4, <2>5, <2>6
<1>5. \A i \in 1..(n + 1) : h[i] \in Seq(C)
  <2>1. Nat \subseteq S
    <3> HIDE DEF S
    <3> QED BY <1>4, StrongInduction
  <2> SUFFICES ASSUME NEW i \in 1..(n + 1) PROVE h[i] \in Seq(C)
    OBVIOUS
  <2>2. (n + 1) - i \in Nat /\ (n + 1) - i <= n /\ (n + 1) - ((n + 1) - i) = i
    BY <1>1
  <2>3. (n + 1) - i \in S
    BY <2>1, <2>2
  <2> QED BY <2>2, <2>3
<1>6. h \in [1..(n + 1) -> Seq(C)]
  BY <1>5
<1>7. ASSUME NEW i \in 1..n
      PROVE  \/ \E key \in keys :
                  /\ KeyAt(t, key, i)
                  /\ h[i] = key \o <<"=", Secret>> \o h[AfterValue(t, i + Len(key) + 1)]
             \/ (\A key \in keys : ~KeyAt(t, key, i)) /\ h[i] = <<t[i]>> \o h[i + 1]
  <2>1. CASE i \in found
    <3>1. chosen[i] \in keys /\ KeyAt(t, chosen[i], i)
      BY <2>1 DEF Chooses
    <3> QED BY <1>2, <2>1, <3>1, Zenon
  <2>2. CASE i \notin found
    BY <1>2, <2>2, Zenon
  <2> QED BY <2>1, <2>2
<1> QED BY <1>3, <1>6, <1>7, Zenon DEF PassIs

\* There is one.
LEMMA PassExists ==
  ASSUME NEW C, "=" \in C, Secret \in C, NEW t \in Seq(C), NEW keys \in SUBSET NamesOver(C),
         NEW found, NEW chosen, Chooses(found, chosen, t, keys)
  PROVE  \E h \in [1..(Len(t) + 1) -> Seq(C)] : Passing(h, t, found, chosen)
<1> DEFINE n == Len(t)
           D == 1..(n + 1)
           V == Seq(C)
           Stop == {n + 1}
           rank == [i \in D |-> (n + 1) - i]
           onward(i) == IF i = n + 1 THEN i
                        ELSE IF i \in found THEN AfterValue(t, i + Len(chosen[i]) + 1) ELSE i + 1
           prev == [i \in D |-> onward(i)]
           base == [i \in D |-> <<>>]
           turn(v, i) == IF i = n + 1 THEN <<>>
                         ELSE IF i \in found THEN chosen[i] \o <<"=", Secret>> \o v
                         ELSE <<t[i]>> \o v
           step == [p \in V \X D |-> turn(p[1], p[2])]
<1>1. n \in Nat /\ found \subseteq 1..n /\ n + 1 \in D
  BY DEF Chooses
<1>2. ASSUME NEW i \in D \ Stop PROVE i \in 1..n /\ onward(i) \in (i + 1)..(n + 1)
  <2>1. i \in 1..n
    BY <1>1
  <2>2. i \in found => AfterValue(t, i + Len(chosen[i]) + 1) \in (i + 1)..(n + 1)
    BY GoesOn
  <2>3. i + 1 \in (i + 1)..(n + 1)
    BY <1>1, <2>1
  <2> QED BY <2>1, <2>2, <2>3
<1>3. prev \in [D -> D] /\ \A i \in D : prev[i] = onward(i)
  <2>1. \A i \in D : onward(i) \in D
    <3> SUFFICES ASSUME NEW i \in D PROVE onward(i) \in D
      OBVIOUS
    <3>1. CASE i \in Stop
      BY <1>1, <3>1
    <3>2. CASE i \notin Stop
      <4>1. i \in 1..n /\ onward(i) \in (i + 1)..(n + 1)
        BY <1>2, <3>2
      <4> HIDE DEF onward
      <4> QED BY <1>1, <4>1
    <3> QED BY <3>1, <3>2
  <2> HIDE DEF onward, D
  <2> QED BY <2>1
<1>4. step \in [V \X D -> V]
  <2>1. ASSUME NEW v \in V, NEW i \in D PROVE turn(v, i) \in V
    <3>1. <<>> \in V
      OBVIOUS
    <3>2. i \in found => chosen[i] \o <<"=", Secret>> \o v \in V
      BY TurnTyped
    <3>3. i # n + 1 => <<t[i]>> \o v \in V
      <4>1. i # n + 1 => i \in 1..n
        BY <1>1
      <4> QED BY <4>1, TurnTyped
    <3> HIDE DEF V
    <3> QED BY <3>1, <3>2, <3>3, Zenon
  <2> HIDE DEF turn, V, D
  <2> QED BY <2>1
<1>5. base \in [D -> V] /\ rank \in [D -> Nat] /\ \A i \in D : base[i] = <<>>
  BY <1>1
<1>6. \A i \in D \ Stop : rank[prev[i]] < rank[i]
  <2> SUFFICES ASSUME NEW i \in D \ Stop PROVE rank[prev[i]] < rank[i]
    OBVIOUS
  <2>1. prev[i] \in D /\ prev[i] \in (i + 1)..(n + 1) /\ i \in 1..n
    BY <1>2, <1>3
  <2> HIDE DEF prev
  <2> QED BY <1>1, <2>1
<1>7. PICK h \in [D -> V] : \A i \in D : Equation(h, i, Stop, prev, base, step)
  <2> HIDE DEF D, V, Stop, prev, rank, base, step
  <2> QED BY <1>3, <1>4, <1>5, <1>6, RecursionExists
<1>8. ASSUME NEW i \in D
      PROVE  h[i] = IF i > n THEN <<>>
                    ELSE IF i \in found
                    THEN chosen[i] \o <<"=", Secret>> \o h[AfterValue(t, i + Len(chosen[i]) + 1)]
                    ELSE <<t[i]>> \o h[i + 1]
  <2>1. h[i] = IF i \in Stop THEN base[i] ELSE step[<<h[prev[i]], i>>]
    BY <1>7, Zenon DEF Equation
  <2>2. CASE i = n + 1
    <3>1. i > n /\ i \in Stop
      BY <1>1, <2>2
    <3>2. base[i] = <<>>
      BY <1>5
    <3> QED BY <2>1, <3>1, <3>2, Zenon
  <2>3. CASE i # n + 1
    <3>1. ~(i > n) /\ i \notin Stop
      BY <1>1, <2>3
    <3>2. prev[i] = onward(i) /\ prev[i] \in D
      BY <1>3
    <3>3. step[<<h[prev[i]], i>>] = turn(h[prev[i]], i)
      <4> HIDE DEF turn, V, D, prev
      <4> QED BY <3>2
    <3>4. h[i] = turn(h[onward(i)], i)
      BY <2>1, <3>1, <3>2, <3>3, Zenon
    <3> QED BY <2>3, <3>1, <3>4, Zenon
  <2> QED BY <2>2, <2>3
<1> QED BY <1>8, Zenon DEF Passing

\* With one key it is RedactKey, which masks the text.
LEMMA RedactKeyIs ==
  ASSUME NEW C, "=" \in C, Secret \in C, NEW t \in Seq(C), NEW key \in NamesOver(C)
  PROVE  RedactKey(t, key) = Masked(t, {key})
<1> DEFINE n == Len(t)
           keys == {key}
           found == {i \in 1..n : KeyAt(t, key, i)}
           chosen == [i \in 1..n |-> key]
           turns(h) == [i \in 1..n + 1 |->
                         IF i > n THEN <<>>
                         ELSE IF KeyAt(t, key, i)
                         THEN key \o <<"=", Secret>> \o h[AfterValue(t, i + Len(key) + 1)]
                         ELSE <<t[i]>> \o h[i + 1]]
           f == CHOOSE h : h = turns(h)
<1>1. n \in Nat /\ keys \in SUBSET NamesOver(C)
  OBVIOUS
<1>2. /\ Chooses(found, chosen, t, keys)
      /\ \A k \in keys : \A i \in 1..n : KeyAt(t, k, i) => i \in found
      /\ \A i \in 1..(n + 1) : ~(i > n) => (i \in found <=> KeyAt(t, key, i)) /\ chosen[i] = key
  BY <1>1 DEF Chooses
<1> HIDE DEF found, chosen
<1>3. \E h : h = turns(h)
  <2>1. PICK h \in [1..(n + 1) -> Seq(C)] : Passing(h, t, found, chosen)
    <3> HIDE DEF keys
    <3> QED BY <1>1, <1>2, PassExists
  <2>2. ASSUME NEW i \in 1..(n + 1)
        PROVE  h[i] = IF i > n THEN <<>>
                      ELSE IF KeyAt(t, key, i)
                      THEN key \o <<"=", Secret>> \o h[AfterValue(t, i + Len(key) + 1)]
                      ELSE <<t[i]>> \o h[i + 1]
    BY <1>2, <2>1, Zenon DEF Passing
  <2>3. h = [i \in 1..(n + 1) |-> h[i]]
    BY <2>1
  <2>4. h = turns(h)
    BY <2>2, <2>3, Zenon
  <2> QED BY <2>4
<1>4. f = turns(f)
  <2> HIDE DEF turns
  <2> QED BY <1>3
<1>5. RedactKey(t, key) = f[1]
  BY DEF RedactKey
<1> HIDE DEF f
<1>6. ASSUME NEW i \in 1..(n + 1)
      PROVE  f[i] = IF i > n THEN <<>>
                    ELSE IF i \in found
                    THEN chosen[i] \o <<"=", Secret>> \o f[AfterValue(t, i + Len(chosen[i]) + 1)]
                    ELSE <<t[i]>> \o f[i + 1]
  <2>1. f[i] = turns(f)[i]
    BY <1>4, Zenon
  <2> QED BY <1>2, <2>1, Zenon
<1>7. Passing(f, t, found, chosen)
  BY <1>6, Zenon DEF Passing
<1>8. f = [i \in 1..(n + 1) |-> f[i]]
  BY <1>4
<1>9. PassIs(f, t, keys, C)
  <2> HIDE DEF turns, keys
  <2> QED BY <1>1, <1>2, <1>7, <1>8, PassingIs
<1>10. f[1] = Masked(t, keys)
  <2> HIDE DEF keys
  <2> QED BY <1>1, <1>9, PassMasks
<1> QED BY <1>5, <1>10, Zenon

\* With all keys it is RedactAll, which masks the text as well.
LEMMA RedactAllIs ==
  ASSUME NEW C, "=" \in C, Secret \in C, NEW t \in Seq(C), NEW keys \in SUBSET NamesOver(C)
  PROVE  RedactAll(t, keys) = Masked(t, keys)
<1> DEFINE n == Len(t)
           at(i) == {key \in keys : KeyAt(t, key, i)}
           first(i) == CHOOSE key \in at(i) : TRUE
           found == {i \in 1..n : at(i) # {}}
           chosen == [i \in 1..n |-> first(i)]
           turns(h) == [i \in 1..n + 1 |->
                         IF i > n THEN <<>>
                         ELSE IF at(i) # {}
                         THEN first(i) \o <<"=", Secret>> \o h[AfterValue(t, i + Len(first(i)) + 1)]
                         ELSE <<t[i]>> \o h[i + 1]]
           f == CHOOSE h : h = turns(h)
<1>1. n \in Nat
  OBVIOUS
<1>2. /\ Chooses(found, chosen, t, keys)
      /\ \A k \in keys : \A i \in 1..n : KeyAt(t, k, i) => i \in found
      /\ \A i \in 1..(n + 1) : ~(i > n) => (i \in found <=> at(i) # {}) /\ chosen[i] = first(i)
  <2>1. ASSUME NEW i \in 1..n, at(i) # {} PROVE first(i) \in keys /\ KeyAt(t, first(i), i)
    <3>1. first(i) \in at(i)
      <4> HIDE DEF at
      <4> QED BY <2>1
    <3> HIDE DEF first
    <3> QED BY <3>1
  <2>2. \A i \in 1..(n + 1) : ~(i > n) => i \in 1..n
    BY <1>1
  <2>3. \A i \in 1..n : chosen[i] = first(i)
    <3> HIDE DEF first
    <3> QED OBVIOUS
  <2> HIDE DEF first, chosen
  <2>4. Chooses(found, chosen, t, keys)
    BY <2>1, <2>3 DEF Chooses
  <2>5. \A k \in keys : \A i \in 1..n : KeyAt(t, k, i) => i \in found
    OBVIOUS
  <2>6. \A i \in 1..n : i \in found <=> at(i) # {}
    <3> HIDE DEF at
    <3> QED OBVIOUS
  <2> HIDE DEF found, at
  <2> QED BY <2>2, <2>3, <2>4, <2>5, <2>6
<1> HIDE DEF found, chosen
<1>3. \E h : h = turns(h)
  <2>1. PICK h \in [1..(n + 1) -> Seq(C)] : Passing(h, t, found, chosen)
    <3> HIDE DEF at, first, turns
    <3> QED BY <1>1, <1>2, PassExists
  <2>2. ASSUME NEW i \in 1..(n + 1)
        PROVE  h[i] = IF i > n THEN <<>>
                      ELSE IF at(i) # {}
                      THEN first(i) \o <<"=", Secret>> \o h[AfterValue(t, i + Len(first(i)) + 1)]
                      ELSE <<t[i]>> \o h[i + 1]
    <3> HIDE DEF at, first, turns
    <3> QED BY <1>2, <2>1, Zenon DEF Passing
  <2>3. h = [i \in 1..(n + 1) |-> h[i]]
    BY <2>1
  <2>4. h = turns(h)
    <3> HIDE DEF at, first
    <3> QED BY <2>2, <2>3, Zenon
  <2> QED BY <2>4
<1>4. f = turns(f)
  <2> HIDE DEF turns
  <2> QED BY <1>3
<1>5. RedactAll(t, keys) = f[1]
  BY DEF RedactAll
<1> HIDE DEF f, at, first
<1>6. ASSUME NEW i \in 1..(n + 1)
      PROVE  f[i] = IF i > n THEN <<>>
                    ELSE IF i \in found
                    THEN chosen[i] \o <<"=", Secret>> \o f[AfterValue(t, i + Len(chosen[i]) + 1)]
                    ELSE <<t[i]>> \o f[i + 1]
  <2>1. f[i] = turns(f)[i]
    BY <1>4, Zenon
  <2> QED BY <1>2, <2>1, Zenon
<1>7. Passing(f, t, found, chosen)
  BY <1>6, Zenon DEF Passing
<1>8. f = [i \in 1..(n + 1) |-> f[i]]
  BY <1>4
<1>9. PassIs(f, t, keys, C)
  <2> HIDE DEF turns
  <2> QED BY <1>2, <1>7, <1>8, PassingIs
<1>10. f[1] = Masked(t, keys)
  BY <1>9, PassMasks
<1> QED BY <1>5, <1>10, Zenon

\* Where the pieces of the elements are in the masked text.
Placed(t, keys, g, C) ==
  /\ g[0] = <<>> /\ \A j \in 0..Len(t) : Len(g[j]) \in Nat
  /\ \A j \in 1..Len(t) :
       /\ Len(g[j]) <= Len(Masked(t, keys))
       /\ ~Covered(t, keys, j) =>
            Len(g[j]) = Len(g[j - 1]) + 1 /\ Masked(t, keys)[Len(g[j])] = t[j]
       /\ Covered(t, keys, j) /\ Covered(t, keys, j - 1) => Len(g[j]) = Len(g[j - 1])
       /\ Covered(t, keys, j) /\ ~Covered(t, keys, j - 1) =>
            Len(g[j]) = Len(g[j - 1]) + 1 /\ Masked(t, keys)[Len(g[j])] = Secret

\* They are there.
LEMMA MaskPlaces ==
  ASSUME NEW C, Secret \in C, NEW t \in Seq(C), NEW keys, NEW g,
         Flattens(g, MaskPieces(t, keys), C)
  PROVE  Masked(t, keys) \in Seq(C) /\ Placed(t, keys, g, C)
<1> DEFINE seqs == MaskPieces(t, keys)
           u == Masked(t, keys)
           secret == Secret
<1>1. /\ seqs \in Seq(Seq(C)) /\ Len(seqs) = Len(t)
      /\ \A j \in 1..Len(t) : seqs[j] = MaskPiece(t, keys, j)
  BY PiecesType
<1>2. Flattens(g, seqs, C)
  OBVIOUS
<1>3. u = FlattenSeq(seqs)
  BY DEF Masked
<1> HIDE DEF seqs
<1>4. /\ FlattenSeq(seqs) \in Seq(C)
      /\ \A i \in 1..Len(seqs) :
           /\ Len(g[i - 1]) \in Nat /\ Len(g[i]) = Len(g[i - 1]) + Len(seqs[i])
           /\ Follows(FlattenSeq(seqs), Len(g[i - 1]), seqs[i])
  BY <1>1, <1>2, FlattenAt
<1>5. Len(t) \in Nat /\ g[0] = <<>> /\ \A j \in 0..Len(t) : Len(g[j]) \in Nat
  BY <1>1, <1>2 DEF Flattens
<1> HIDE DEF u
<1>6. u \in Seq(C)
  BY <1>3, <1>4, Zenon
<1>7. ASSUME NEW j \in 1..Len(t), NEW x, seqs[j] = <<x>>
      PROVE  Len(g[j]) = Len(g[j - 1]) + 1 /\ u[Len(g[j])] = x /\ Len(g[j]) <= Len(u)
  <2> DEFINE s == seqs[j]
             p == Len(g[j - 1])
  <2>1. Len(s) = 1 /\ s[1] = x
    BY <1>7
  <2> HIDE DEF s
  <2>2. p \in Nat /\ Len(g[j]) = p + Len(s) /\ Follows(u, p, s)
    BY <1>1, <1>3, <1>4, Zenon DEF s
  <2> HIDE DEF p
  <2>3. p + 1 <= Len(u) /\ u[p + 1] = x
    BY <2>1, <2>2 DEF Follows
  <2> QED BY <2>1, <2>2, <2>3 DEF p
<1>8. ASSUME NEW j \in 1..Len(t), seqs[j] = <<>>
      PROVE  Len(g[j]) = Len(g[j - 1]) /\ Len(g[j]) <= Len(u)
  <2> DEFINE s == seqs[j]
             p == Len(g[j - 1])
  <2>1. Len(s) = 0
    BY <1>8
  <2> HIDE DEF s
  <2>2. p \in Nat /\ Len(g[j]) = p + Len(s) /\ Follows(u, p, s)
    BY <1>1, <1>3, <1>4, Zenon DEF s
  <2> HIDE DEF p
  <2>3. p <= Len(u)
    BY <2>1, <2>2 DEF Follows
  <2> QED BY <2>1, <2>2, <2>3 DEF p
<1>9. ASSUME NEW j \in 1..Len(t)
      PROVE  /\ Len(g[j]) <= Len(u)
             /\ ~Covered(t, keys, j) => Len(g[j]) = Len(g[j - 1]) + 1 /\ u[Len(g[j])] = t[j]
             /\ Covered(t, keys, j) /\ Covered(t, keys, j - 1) => Len(g[j]) = Len(g[j - 1])
             /\ Covered(t, keys, j) /\ ~Covered(t, keys, j - 1) =>
                  Len(g[j]) = Len(g[j - 1]) + 1 /\ u[Len(g[j])] = secret
  <2>1. seqs[j] = MaskPiece(t, keys, j)
    BY <1>1
  <2>2. CASE ~Covered(t, keys, j)
    <3>1. seqs[j] = <<t[j]>>
      BY <2>1, <2>2, Zenon DEF MaskPiece
    <3>2. Len(g[j]) = Len(g[j - 1]) + 1 /\ u[Len(g[j])] = t[j] /\ Len(g[j]) <= Len(u)
      BY <1>7, <3>1, Zenon
    <3> QED BY <2>2, <3>2, Zenon
  <2>3. CASE Covered(t, keys, j) /\ Covered(t, keys, j - 1)
    <3>1. seqs[j] = <<>>
      BY <2>1, <2>3, Zenon DEF MaskPiece
    <3>2. Len(g[j]) = Len(g[j - 1]) /\ Len(g[j]) <= Len(u)
      BY <1>8, <3>1, Zenon
    <3> QED BY <2>3, <3>2, Zenon
  <2>4. CASE Covered(t, keys, j) /\ ~Covered(t, keys, j - 1)
    <3>1. seqs[j] = <<Secret>>
      BY <2>1, <2>4, Zenon DEF MaskPiece
    <3>2. Len(g[j]) = Len(g[j - 1]) + 1 /\ u[Len(g[j])] = Secret /\ Len(g[j]) <= Len(u)
      BY <1>7, <3>1, Zenon
    <3> QED BY <2>4, <3>2, Zenon
  <2> QED BY <2>2, <2>3, <2>4, Zenon
<1> QED BY <1>5, <1>6, <1>9, Zenon DEF Placed, u

\* A key hides alike in texts that are alike back to an end of values.
LEMMA CoversMoves ==
  ASSUME NEW C, "=" \in C, NEW t \in Seq(C), NEW u \in Seq(C), NEW key \in NamesOver(C),
         NEW s \in Nat, NEW r \in Nat, NEW m \in Nat, s + m <= Len(t), r + m <= Len(u),
         \A x \in 1..m : u[r + x] = t[s + x], s = 0 \/ t[s] \in Separators,
         NEW i \in 1..Len(t), Covers(t, key, i, s + m)
  PROVE  \E h \in 1..Len(u) : Covers(u, key, h, r + m)
<1> DEFINE n == Len(key)
           e == i + n
           h == r + (i - s)
           sign == "="
<1>1. key \in Seq(C) /\ n \in Nat /\ Len(t) \in Nat /\ Len(u) \in Nat
  BY DEF NamesOver
<1>2. KeyAt(t, key, i) /\ e < s + m /\ \A k \in (e + 1)..(s + m) : t[k] \notin Separators
  BY DEF Covers
<1>3. /\ e \in i..(Len(t) - 1) /\ t[e] = sign /\ t[e + 1] \notin Separators
      /\ \A k \in i..(e + 1) : t[k] \notin Separators
  BY <1>2, KeyParts
<1>4. Follows(t, i - 1, key)
  BY <1>1, <1>2, KeyIs DEF Opens
<1> HIDE DEF sign
<1>5. i > s
  <2>1. SUFFICES ASSUME s # 0, i <= s PROVE FALSE
    BY <1>1
  <2>2. s \in i..(e + 1) \/ s \in (e + 1)..(s + m)
    BY <1>1, <1>3, <2>1
  <2> QED BY <1>2, <1>3, <2>1, <2>2
<1>6. h \in Nat /\ h > r /\ (h + n) - r = e - s /\ h + n < r + m /\ h \in 1..Len(u)
  BY <1>1, <1>2, <1>3, <1>5
<1>7. \A k \in (r + 1)..(r + m) : u[k] = t[s + (k - r)]
  <2> SUFFICES ASSUME NEW k \in (r + 1)..(r + m) PROVE u[k] = t[s + (k - r)]
    OBVIOUS
  <2>1. k - r \in 1..m /\ r + (k - r) = k
    OBVIOUS
  <2> QED BY <2>1
<1>8. Follows(u, h - 1, key)
  <2>1. (h - 1) + n <= Len(u)
    BY <1>1, <1>6
  <2>2. ASSUME NEW j \in 1..n PROVE u[(h - 1) + j] = key[j]
    <3>1. (h - 1) + j \in (r + 1)..(r + m) /\ s + (((h - 1) + j) - r) = (i - 1) + j
      BY <1>1, <1>6
    <3>2. t[(i - 1) + j] = key[j]
      BY <1>4 DEF Follows
    <3> HIDE DEF h
    <3> QED BY <1>7, <3>1, <3>2
  <2> QED BY <2>1, <2>2 DEF Follows
<1>9. u[h + n] = sign
  <2>1. h + n \in (r + 1)..(r + m) /\ s + ((h + n) - r) = e
    BY <1>1, <1>6
  <2> HIDE DEF h, e
  <2> QED BY <1>3, <1>7, <2>1
<1>10. \A k \in (h + n + 1)..(r + m) : u[k] \notin Separators
  <2> SUFFICES ASSUME NEW k \in (h + n + 1)..(r + m) PROVE u[k] \notin Separators
    OBVIOUS
  <2>1. k \in (r + 1)..(r + m) /\ s + (k - r) \in (e + 1)..(s + m)
    BY <1>1, <1>6
  <2> HIDE DEF h, e
  <2> QED BY <1>2, <1>7, <2>1
<1>11. h + n < Len(u) /\ u[h + n + 1] \notin Separators
  <2>1. h + n + 1 \in (h + n + 1)..(r + m)
    BY <1>1, <1>6
  <2> QED BY <1>1, <1>6, <1>10, <2>1
<1> HIDE DEF h
<1>12. Opens(u, key, h, h + n)
  BY <1>8, <1>9, <1>11, Zenon DEF Opens, sign
<1>13. KeyAt(u, key, h)
  BY <1>1, <1>6, <1>12, KeyIs
<1>14. Covers(u, key, h, r + m)
  BY <1>6, <1>10, <1>13 DEF Covers
<1> QED BY <1>6, <1>14

\* What is not hidden by keys is hidden by another key in the masked text as it is in
\* the text.
LEMMA CoveredSame ==
  ASSUME NEW C, "=" \in C, Secret \in C, NEW t \in Seq(C), NEW keys \in SUBSET NamesOver(C),
         NEW key \in NamesOver(C), NEW g, Flattens(g, MaskPieces(t, keys), C),
         NEW j \in 1..Len(t), ~Covered(t, keys, j)
  PROVE  Covered(t, {key}, j) <=> Covered(Masked(t, keys), {key}, Len(g[j]))
<1> DEFINE u == Masked(t, keys)
           q == Len(g[j])
<1>1. u \in Seq(C) /\ Placed(t, keys, g, C)
  BY MaskPlaces
<1>2. /\ Len(t) \in Nat /\ g[0] = <<>> /\ \A k \in 0..Len(t) : Len(g[k]) \in Nat
      /\ \A k \in 1..Len(t) :
           /\ Len(g[k]) <= Len(u)
           /\ ~Covered(t, keys, k) => Len(g[k]) = Len(g[k - 1]) + 1 /\ u[Len(g[k])] = t[k]
  BY <1>1 DEF Placed
<1> HIDE DEF u
<1>3. Len(u) \in Nat /\ key \in Seq(C) /\ Len(key) \in Nat
  BY <1>1 DEF NamesOver
<1>4. q \in Nat /\ q <= Len(u) /\ u[q] = t[j]
  BY <1>2
<1>5. ASSUME NEW w, NEW k \in Nat, Covered(w, {key}, k) PROVE w[k] \notin Separators
  <2>1. PICK i \in 1..Len(w) : Covers(w, key, i, k)
    BY <1>5 DEF Covered
  <2>2. i + Len(key) + 1 <= k
    BY <1>3, <2>1 DEF Covers
  <2>3. k \in (i + Len(key) + 1)..k
    BY <1>3, <2>2
  <2> QED BY <2>1, <2>3 DEF Covers
<1>6. CASE t[j] \in Separators
  <2>0. j \in Nat
    BY <1>2
  <2>1. ~Covered(t, {key}, j)
    BY <1>5, <1>6, <2>0
  <2> HIDE DEF q
  <2>2. ~Covered(u, {key}, q)
    BY <1>4, <1>5, <1>6
  <2> QED BY <2>1, <2>2 DEF q, u
<1>7. CASE t[j] \notin Separators
  <2> DEFINE T == {s \in 0..j : s = 0 \/ t[s] \in Separators}
             s == Max(T)
             m == j - s
             r == Len(g[s])
  <2>1. s \in T /\ \A k \in T : k <= s
    <3>1. T \subseteq 0..j /\ 0 \in T /\ j \in Nat
      BY <1>2
    <3> HIDE DEF T
    <3> QED BY <3>1, GreatestIs
  <2> HIDE DEF s
  <2>2. s \in 0..j /\ (s = 0 \/ t[s] \in Separators) /\ s # j
    BY <1>7, <2>1
  <2>3. \A k \in (s + 1)..j : t[k] \notin Separators
    <3> SUFFICES ASSUME NEW k \in (s + 1)..j, t[k] \in Separators PROVE FALSE
      OBVIOUS
    <3>1. k \in T
      BY <2>2
    <3> HIDE DEF T
    <3> QED BY <2>1, <2>2, <3>1
  <2> HIDE DEF T
  <2>4. m \in Nat /\ s + m = j /\ s \in 0..Len(t) /\ r \in Nat /\ s + m <= Len(t)
    BY <1>2, <2>2
  <2>5. ASSUME NEW k \in (s + 1)..j PROVE ~Covered(t, keys, k)
    <3> SUFFICES ASSUME NEW other \in keys, NEW i \in 1..Len(t), Covers(t, other, i, k) PROVE FALSE
      BY DEF Covered
    <3>1. Len(other) \in Nat
      BY DEF NamesOver
    <3>2. i + Len(other) < j /\ KeyAt(t, other, i)
      BY <1>2, <2>2, <3>1 DEF Covers
    <3>3. ASSUME NEW x \in (i + Len(other) + 1)..j PROVE t[x] \notin Separators
      <4>1. CASE x <= k
        BY <4>1 DEF Covers
      <4>2. CASE x > k
        BY <2>2, <2>3, <4>2
      <4> QED BY <3>1, <2>2, <4>1, <4>2
    <3>4. Covers(t, other, i, j)
      BY <3>2, <3>3 DEF Covers
    <3>5. Covered(t, keys, j)
      BY <3>4 DEF Covered
    <3> QED BY <3>5
  <2> DEFINE S == {x \in 0..m : Len(g[s + x]) = r + x}
  <2>6. 0..m \subseteq S
    <3>1. 0 \in S
      <4>1. s + 0 = s /\ r + 0 = r /\ 0 \in 0..m
        BY <2>4
      <4> QED BY <4>1
    <3>2. ASSUME NEW x \in 1..m, x - 1 \in S PROVE x \in S
      <4>1. s + x \in (s + 1)..j /\ s + x \in 1..Len(t) /\ (s + x) - 1 = s + (x - 1) /\ x \in 0..m
        BY <2>4
      <4>2. ~Covered(t, keys, s + x)
        BY <2>5, <4>1
      <4>3. Len(g[s + x]) = Len(g[s + (x - 1)]) + 1
        BY <1>2, <4>1, <4>2
      <4>4. Len(g[s + (x - 1)]) = r + (x - 1)
        BY <3>2
      <4>5. r + (x - 1) + 1 = r + x
        BY <2>4
      <4> QED BY <4>1, <4>3, <4>4, <4>5
    <3>3. \A x \in 1..m : x - 1 \in S => x \in S
      BY ONLY <3>2
    <3> HIDE DEF S, m
    <3> QED BY ONLY <2>4, <3>1, <3>3, BoundedInduction
  <2>7. q = r + m
    <3>1. m \in S
      <4> HIDE DEF S, m
      <4> QED BY <2>4, <2>6
    <3> HIDE DEF m
    <3> QED BY <2>4, <3>1
  <2>8. ASSUME NEW x \in 1..m PROVE u[r + x] = t[s + x]
    <3>1. s + x \in (s + 1)..j /\ s + x \in 1..Len(t) /\ x \in 0..m
      BY <2>4
    <3>2. ~Covered(t, keys, s + x)
      BY <2>5, <3>1
    <3>3. u[Len(g[s + x])] = t[s + x]
      BY <1>2, <3>1, <3>2
    <3>4. Len(g[s + x]) = r + x
      BY <2>6, <3>1
    <3> QED BY <3>3, <3>4
  <2>9. r = 0 \/ u[r] \in Separators
    <3>1. CASE s = 0
      <4>1. g[s] = <<>>
        BY <1>2, <3>1
      <4> QED BY <4>1
    <3>2. CASE s # 0
      <4>1. s \in 1..Len(t) /\ t[s] \in Separators
        BY <2>2, <2>4, <3>2
      <4>2. ~Covered(t, keys, s)
        <5> SUFFICES ASSUME NEW other \in keys, NEW i \in 1..Len(t), Covers(t, other, i, s)
                     PROVE  FALSE
          BY DEF Covered
        <5>1. Len(other) \in Nat
          BY DEF NamesOver
        <5>2. s \in (i + Len(other) + 1)..s
          BY <2>4, <5>1 DEF Covers
        <5> QED BY <4>1, <5>2 DEF Covers
      <4>3. u[r] = t[s]
        BY <1>2, <4>1, <4>2
      <4> QED BY <4>1, <4>3
    <3> QED BY <3>1, <3>2
  <2>10. r + m <= Len(u)
    BY <1>4, <2>7
  <2> HIDE DEF m, r, q
  <2>11. ASSUME NEW i \in 1..Len(t), Covers(t, key, i, s + m)
         PROVE  \E h \in 1..Len(u) : Covers(u, key, h, r + m)
    <3>1. \A x \in 1..m : u[r + x] = t[s + x]
      BY <2>8
    <3>2. s = 0 \/ t[s] \in Separators
      BY <2>2
    <3>3. s \in Nat
      BY <2>2
    <3> QED BY <1>1, <2>4, <2>10, <2>11, <3>1, <3>2, <3>3, CoversMoves
  <2>12. ASSUME NEW i \in 1..Len(u), Covers(u, key, i, r + m)
         PROVE  \E h \in 1..Len(t) : Covers(t, key, h, s + m)
    <3>1. \A x \in 1..m : t[s + x] = u[r + x]
      BY <2>8
    <3>2. s \in Nat
      BY <2>2
    <3> QED BY <1>1, <2>4, <2>9, <2>10, <2>12, <3>1, <3>2, CoversMoves
  <2>13. Covered(t, {key}, s + m) <=> Covered(u, {key}, r + m)
    BY <2>11, <2>12 DEF Covered
  <2> QED BY <2>4, <2>7, <2>13, Zenon DEF u, q
<1> QED BY <1>6, <1>7

\* What is hidden is part of a value, whose next element is hidden as well; nothing is
\* hidden at the beginning.
LEMMA CoveredIs ==
  ASSUME NEW C, NEW t \in Seq(C), NEW keys \in SUBSET NamesOver(C), NEW k \in Nat
  PROVE  /\ Covered(t, keys, k) => t[k] \notin Separators
         /\ Covered(t, keys, k) /\ t[k + 1] \notin Separators => Covered(t, keys, k + 1)
         /\ ~Covered(t, keys, 0)
<1>1. \A key \in keys : Len(key) \in Nat
  BY DEF NamesOver
<1>2. ASSUME NEW key \in keys, NEW i \in 1..Len(t), Covers(t, key, i, k)
      PROVE  /\ t[k] \notin Separators
             /\ t[k + 1] \notin Separators => Covers(t, key, i, k + 1)
  <2>1. i + Len(key) + 1 <= k /\ Len(key) \in Nat
    BY <1>1, <1>2 DEF Covers
  <2>2. k \in (i + Len(key) + 1)..k
    BY <2>1
  <2>3. \A x \in (i + Len(key) + 1)..(k + 1) : x \in (i + Len(key) + 1)..k \/ x = k + 1
    BY <2>1
  <2>4. t[k] \notin Separators
    BY <1>2, <2>2 DEF Covers
  <2>5. ASSUME t[k + 1] \notin Separators PROVE Covers(t, key, i, k + 1)
    <3>1. KeyAt(t, key, i) /\ i + Len(key) < k + 1
      BY <1>2, <2>1 DEF Covers
    <3>2. \A x \in (i + Len(key) + 1)..(k + 1) : t[x] \notin Separators
      BY <1>2, <2>3, <2>5 DEF Covers
    <3> QED BY <3>1, <3>2 DEF Covers
  <2> QED BY <2>4, <2>5
<1>3. ASSUME NEW key \in keys, NEW i \in 1..Len(t), Covers(t, key, i, 0) PROVE FALSE
  BY <1>1, <1>3 DEF Covers
<1> QED BY <1>2, <1>3 DEF Covered

\* To mask the masked text for another key is to mask the text for all of them.
LEMMA MaskMore ==
  ASSUME NEW C, "=" \in C, Secret \in C, NEW t \in Seq(C), NEW keys \in SUBSET NamesOver(C),
         NEW key \in NamesOver(C)
  PROVE  Masked(Masked(t, keys), {key}) = Masked(t, keys \cup {key})
<1> DEFINE n == Len(t)
           u == Masked(t, keys)
           one == {key}
           more == keys \cup {key}
<1>1. PICK g : Flattens(g, MaskPieces(t, keys), C)
  <2> DEFINE seqs == MaskPieces(t, keys)
  <2>1. seqs \in Seq(Seq(C))
    BY PiecesType
  <2> HIDE DEF seqs
  <2>2. \E g : Flattens(g, seqs, C)
    BY <2>1, FlattenLoop
  <2> QED BY <2>2 DEF seqs
<1>2. u \in Seq(C) /\ Placed(t, keys, g, C)
  BY <1>1, MaskPlaces
<1>3. /\ n \in Nat /\ g[0] = <<>> /\ \A k \in 0..n : Len(g[k]) \in Nat
      /\ \A k \in 1..n :
           /\ Len(g[k]) <= Len(u)
           /\ ~Covered(t, keys, k) => Len(g[k]) = Len(g[k - 1]) + 1 /\ u[Len(g[k])] = t[k]
           /\ Covered(t, keys, k) /\ Covered(t, keys, k - 1) => Len(g[k]) = Len(g[k - 1])
           /\ Covered(t, keys, k) /\ ~Covered(t, keys, k - 1) =>
                Len(g[k]) = Len(g[k - 1]) + 1 /\ u[Len(g[k])] = Secret
  <2>1. n \in Nat
    OBVIOUS
  <2> QED BY <1>2, <2>1, Zenon DEF Placed
<1>4. g[n] = u
  <2> DEFINE seqs == MaskPieces(t, keys)
  <2>1. Len(seqs) = n /\ Flattens(g, seqs, C)
    BY <1>1, PiecesType
  <2> HIDE DEF seqs
  <2>2. g[n] = FlattenSeq(seqs)
    BY <2>1, Zenon DEF Flattens
  <2> QED BY <2>2, Zenon DEF Masked, seqs
<1> HIDE DEF u
<1>5. PICK h : Flattens(h, MaskPieces(u, one), C)
  <2> DEFINE seqs == MaskPieces(u, one)
  <2>1. seqs \in Seq(Seq(C))
    <3> HIDE DEF one
    <3> QED BY <1>2, PiecesType
  <2> HIDE DEF seqs
  <2>2. \E f : Flattens(f, seqs, C)
    BY <2>1, FlattenLoop
  <2> QED BY <2>2 DEF seqs
<1>6. PICK d : Flattens(d, MaskPieces(t, more), C)
  <2> DEFINE seqs == MaskPieces(t, more)
  <2>1. seqs \in Seq(Seq(C))
    <3> HIDE DEF more
    <3> QED BY PiecesType
  <2> HIDE DEF seqs
  <2>2. \E f : Flattens(f, seqs, C)
    BY <2>1, FlattenLoop
  <2> QED BY <2>2 DEF seqs
<1>7. /\ h[0] = <<>> /\ h[Len(u)] = Masked(u, one)
      /\ \A k \in 1..Len(u) : h[k] = h[k - 1] \o MaskPiece(u, one, k)
  <2> DEFINE seqs == MaskPieces(u, one)
  <2>1. Len(seqs) = Len(u) /\ \A k \in 1..Len(u) : seqs[k] = MaskPiece(u, one, k)
    <3> HIDE DEF one
    <3> QED BY <1>2, PiecesType
  <2>2. Flattens(h, seqs, C)
    BY <1>5
  <2> HIDE DEF seqs
  <2>3. /\ h[0] = <<>> /\ h[Len(u)] = FlattenSeq(seqs)
        /\ \A k \in 1..Len(u) : h[k] = h[k - 1] \o seqs[k]
    BY <2>1, <2>2, Zenon DEF Flattens
  <2>4. FlattenSeq(seqs) = Masked(u, one)
    BY DEF seqs, Masked
  <2> QED BY <2>1, <2>3, <2>4, Zenon
<1>8. /\ d[0] = <<>> /\ d[n] = Masked(t, more)
      /\ \A k \in 1..n : d[k] = d[k - 1] \o MaskPiece(t, more, k)
  <2> DEFINE seqs == MaskPieces(t, more)
  <2>1. Len(seqs) = n /\ \A k \in 1..n : seqs[k] = MaskPiece(t, more, k)
    <3> HIDE DEF more
    <3> QED BY PiecesType
  <2>2. Flattens(d, seqs, C)
    BY <1>6
  <2> HIDE DEF seqs
  <2>3. /\ d[0] = <<>> /\ d[n] = FlattenSeq(seqs)
        /\ \A k \in 1..n : d[k] = d[k - 1] \o seqs[k]
    BY <2>1, <2>2, Zenon DEF Flattens
  <2>4. FlattenSeq(seqs) = Masked(t, more)
    BY DEF seqs, Masked
  <2> QED BY <2>1, <2>3, <2>4, Zenon
<1>9. \A k : Covered(t, more, k) <=> (Covered(t, keys, k) \/ Covered(t, one, k))
  BY DEF Covered
<1>10. one \in SUBSET NamesOver(C)
  OBVIOUS
<1>11. ASSUME NEW k \in 0..n, ~Covered(t, keys, k)
       PROVE  Covered(t, one, k) <=> Covered(u, one, Len(g[k]))
  <2>1. CASE k = 0
    <3>1. 0 \in Nat
      OBVIOUS
    <3> HIDE DEF one
    <3>2. ~Covered(t, one, 0) /\ ~Covered(u, one, 0)
      BY <1>2, <1>10, <3>1, CoveredIs
    <3>3. Len(g[k]) = 0
      BY <1>3, <2>1
    <3> QED BY <2>1, <3>2, <3>3, Zenon
  <2>2. CASE k # 0
    <3>1. k \in 1..n
      BY <1>3, <2>2
    <3>2. Covered(t, {key}, k) <=> Covered(Masked(t, keys), {key}, Len(g[k]))
      BY <1>1, <1>11, <3>1, CoveredSame
    <3> QED BY <3>2 DEF u
  <2> QED BY <2>1, <2>2
<1> DEFINE S == {j \in 0..n : h[Len(g[j])] = d[j]}
<1>12. 0 \in S
  <2>1. Len(g[0]) = 0
    BY <1>3
  <2> QED BY <1>3, <1>7, <1>8, <2>1
<1>13. ASSUME NEW j \in 1..n, j - 1 \in S PROVE j \in S
  <2> DEFINE p == Len(g[j])
             i == j - 1
             r == Len(g[i])
  <2>1. h[r] = d[i] /\ i \in 0..n /\ j \in 0..n /\ i \in Nat /\ i + 1 = j
    BY <1>3, <1>13
  <2>2. /\ r \in Nat /\ p \in Nat /\ p <= Len(u)
        /\ ~Covered(t, keys, j) => p = r + 1 /\ u[p] = t[j]
        /\ Covered(t, keys, j) /\ Covered(t, keys, i) => p = r
        /\ Covered(t, keys, j) /\ ~Covered(t, keys, i) => p = r + 1 /\ u[p] = Secret
    BY <1>3, <2>1
  <2>3. d[j] = d[i] \o MaskPiece(t, more, j)
    BY <1>8
  <2>4. ~Covered(t, keys, j) => (Covered(t, one, j) <=> Covered(u, one, p))
    BY <1>11, <2>1
  <2>5. ~Covered(t, keys, i) => (Covered(t, one, i) <=> Covered(u, one, r))
    BY <1>11, <2>1
  <2>6. /\ Covered(t, keys, i) /\ t[j] \notin Separators => Covered(t, keys, j)
        /\ Covered(t, one, j) => t[j] \notin Separators
    <3> HIDE DEF one, i
    <3>1. Covered(t, keys, i) /\ t[i + 1] \notin Separators => Covered(t, keys, i + 1)
      BY <2>1, CoveredIs
    <3>2. j \in Nat
      BY <1>3
    <3>3. Covered(t, one, j) => t[j] \notin Separators
      BY <1>10, <3>2, CoveredIs
    <3> QED BY <2>1, <3>1, <3>3, Zenon
  <2>7. p = r + 1 => (Covered(u, one, r) /\ u[p] \notin Separators => Covered(u, one, p))
    <3> HIDE DEF one, r, p
    <3>1. Covered(u, one, r) /\ u[r + 1] \notin Separators => Covered(u, one, r + 1)
      BY <1>2, <1>10, <2>2, CoveredIs
    <3> QED BY <3>1, Zenon
  <2>8. Secret \notin Separators
    BY SignsApart
  <2>9. MaskPiece(t, more, j) =
          IF ~(Covered(t, keys, j) \/ Covered(t, one, j)) THEN <<t[j]>>
          ELSE IF Covered(t, keys, i) \/ Covered(t, one, i) THEN <<>> ELSE <<Secret>>
    BY <1>9, Zenon DEF MaskPiece
  <2>10. p = r + 1 => h[p] = h[r] \o MaskPiece(u, one, p)
    <3> HIDE DEF one, p, r
    <3> SUFFICES ASSUME p = r + 1 PROVE h[p] = h[r] \o MaskPiece(u, one, p)
      OBVIOUS
    <3>1. p \in 1..Len(u) /\ p - 1 = r
      BY <1>2, <2>2
    <3> QED BY <1>7, <3>1
  <2>11. p = r + 1 => MaskPiece(u, one, p) =
           IF ~Covered(u, one, p) THEN <<u[p]>>
           ELSE IF Covered(u, one, r) THEN <<>> ELSE <<Secret>>
    <3> HIDE DEF one, p, r
    <3> SUFFICES ASSUME p = r + 1 PROVE MaskPiece(u, one, p) =
           IF ~Covered(u, one, p) THEN <<u[p]>>
           ELSE IF Covered(u, one, r) THEN <<>> ELSE <<Secret>>
      OBVIOUS
    <3>1. p - 1 = r
      BY <2>2
    <3> QED BY <3>1, Zenon DEF MaskPiece
  <2> HIDE DEF p, r, i, one, more
  <2>12. CASE Covered(t, keys, j) /\ Covered(t, keys, i)
    <3>1. MaskPiece(t, more, j) = <<>>
      BY <2>9, <2>12, Zenon
    <3>2. d[i] \in Seq(C)
      <4> DEFINE seqs == MaskPieces(t, more)
      <4>1. Len(seqs) = n /\ Flattens(d, seqs, C)
        BY <1>6, PiecesType
      <4> HIDE DEF seqs
      <4> QED BY <2>1, <4>1 DEF Flattens
    <3>3. d[i] \o <<>> = d[i]
      BY ONLY <3>2, ConcatEmptySeq
    <3>4. h[p] = d[j]
      BY <2>1, <2>2, <2>3, <2>12, <3>1, <3>3, Zenon
    <3> QED BY <2>1, <3>4 DEF p
  <2>13. CASE Covered(t, keys, j) /\ ~Covered(t, keys, i)
    <3>1. p = r + 1 /\ u[p] = Secret
      BY <2>2, <2>13, Zenon
    <3>2. CASE Covered(u, one, r)
      <4>1. Covered(u, one, p)
        BY <2>7, <2>8, <3>1, <3>2, Zenon
      <4>2. MaskPiece(u, one, p) = <<>> /\ MaskPiece(t, more, j) = <<>>
        BY <2>5, <2>9, <2>11, <2>13, <3>1, <3>2, <4>1, Zenon
      <4>3. h[p] = d[j]
        BY <2>1, <2>3, <2>10, <3>1, <4>2, Zenon
      <4> QED BY <2>1, <4>3 DEF p
    <3>3. CASE ~Covered(u, one, r)
      <4>1. MaskPiece(u, one, p) = <<Secret>>
        BY <2>11, <3>1, <3>3, Zenon
      <4>2. MaskPiece(t, more, j) = <<Secret>>
        BY <2>5, <2>9, <2>13, <3>3, Zenon
      <4>3. h[p] = d[j]
        BY <2>1, <2>3, <2>10, <3>1, <4>1, <4>2, Zenon
      <4> QED BY <2>1, <4>3 DEF p
    <3> QED BY <3>2, <3>3
  <2>14. CASE ~Covered(t, keys, j)
    <3>1. p = r + 1 /\ u[p] = t[j] /\ (Covered(t, one, j) <=> Covered(u, one, p))
      BY <2>2, <2>4, <2>14, Zenon
    <3>2. MaskPiece(u, one, p) = MaskPiece(t, more, j)
      <4>1. CASE ~Covered(t, one, j)
        <5>1. MaskPiece(t, more, j) = <<t[j]>>
          BY <2>9, <2>14, <4>1, Zenon
        <5>2. MaskPiece(u, one, p) = <<u[p]>>
          BY <2>11, <3>1, <4>1, Zenon
        <5> QED BY <3>1, <5>1, <5>2, Zenon
      <4>2. CASE Covered(t, one, j)
        <5>1. ~Covered(t, keys, i)
          BY <2>6, <2>14, <4>2, Zenon
        <5>2. CASE Covered(t, one, i)
          BY <2>5, <2>9, <2>11, <3>1, <4>2, <5>1, <5>2, Zenon
        <5>3. CASE ~Covered(t, one, i)
          BY <2>5, <2>9, <2>11, <3>1, <4>2, <5>1, <5>3, Zenon
        <5> QED BY <5>2, <5>3
      <4> QED BY <4>1, <4>2
    <3>3. h[p] = d[j]
      BY <2>1, <2>3, <2>10, <3>1, <3>2, Zenon
    <3> QED BY <2>1, <3>3 DEF p
  <2> QED BY <2>12, <2>13, <2>14
<1>14. n \in S
  <2>1. \A j \in 1..n : j - 1 \in S => j \in S
    BY ONLY <1>13
  <2> HIDE DEF S
  <2>2. n \in Nat
    BY <1>3
  <2>3. 0..n \subseteq S
    BY ONLY <1>12, <2>1, <2>2, BoundedInduction
  <2>4. n \in 0..n
    BY <2>2
  <2> QED BY <2>3, <2>4
<1>15. h[Len(g[n])] = d[n]
  BY <1>14
<1> QED BY <1>4, <1>7, <1>8, <1>15, Zenon DEF u

\* Nothing is masked for no keys.
LEMMA MaskNone ==
  ASSUME NEW C, Secret \in C, NEW t \in Seq(C)
  PROVE  Masked(t, {}) = t
<1> DEFINE seqs == MaskPieces(t, {})
<1>1. /\ seqs \in Seq(Seq(C)) /\ Len(seqs) = Len(t)
      /\ \A j \in 1..Len(t) : seqs[j] = MaskPiece(t, {}, j)
  BY PiecesType
<1>2. \A j \in 1..Len(t) : MaskPiece(t, {}, j) = <<t[j]>>
  <2>1. \A j : ~Covered(t, {}, j)
    BY DEF Covered
  <2> QED BY <2>1, Zenon DEF MaskPiece
<1>3. Masked(t, {}) = FlattenSeq(seqs)
  BY DEF Masked
<1> HIDE DEF seqs
<1>4. PICK g : Flattens(g, seqs, C)
  BY <1>1, FlattenLoop
<1>5. 0 \in Nat /\ 0 + Len(t) = Len(t)
  OBVIOUS
<1>6. Singles(seqs, 0, t)
  <2>1. \A j \in 1..Len(t) : 0 + j = j
    OBVIOUS
  <2>2. \A j \in 1..Len(t) : seqs[0 + j] = <<t[j]>>
    BY <1>1, <1>2, <2>1, Zenon
  <2>3. 0 + Len(t) <= Len(seqs)
    BY <1>1
  <2> QED BY <2>2, <2>3, Zenon DEF Singles
<1>7. seqs \in Seq(Seq(C)) /\ t \in Seq(C)
  BY <1>1
<1>8. g[0 + Len(t)] = g[0] \o t
  BY ONLY <1>4, <1>5, <1>6, <1>7, SinglesAdd
<1>9. g[0] = <<>> /\ g[Len(t)] = FlattenSeq(seqs)
  BY <1>1, <1>4, Zenon DEF Flattens
<1>10. <<>> \o t = t
  BY ConcatEmptySeq
<1> QED BY <1>3, <1>5, <1>8, <1>9, <1>10, Zenon

\* One key after the other masks the text for all of them.
LEMMA FoldIs ==
  ASSUME NEW C, "=" \in C, Secret \in C, NEW t \in Seq(C), NEW keys \in Seq(NamesOver(C))
  PROVE  FoldLeft(RedactKey, t, keys) = Masked(t, ToSet(keys))
<1> DEFINE n == Len(keys)
           D == SUBSET (1..n)
           V == Seq(C)
           Stop == {{}}
           rank == [s \in D |-> IF s = {} THEN 0 ELSE Max(s)]
           prev == [s \in D |-> IF s = {} THEN s ELSE s \ {Max(s)}]
           base == [s \in D |-> t]
           turn(v, s) == IF s = {} THEN t ELSE RedactKey(v, keys[Max(s)])
           step == [p \in V \X D |-> turn(p[1], p[2])]
           turns(h) == [s \in SUBSET (DOMAIN keys) |->
                          IF s = {} THEN t ELSE RedactKey(h[s \ {Max(s)}], keys[Max(s)])]
           f == CHOOSE h : h = turns(h)
<1>1. n \in Nat /\ DOMAIN keys = 1..n /\ t \in V /\ {} \in D
  OBVIOUS
<1>2. ASSUME NEW s \in D, s # {}
      PROVE  /\ Max(s) \in s /\ Max(s) \in 1..n /\ \A x \in s : x <= Max(s)
             /\ s \ {Max(s)} \in D
  <2>1. s \subseteq 0..n /\ s \subseteq 1..n
    BY <1>1
  <2>2. Max(s) \in s /\ \A x \in s : x <= Max(s)
    BY <1>1, <1>2, <2>1, GreatestIs
  <2> QED BY <2>1, <2>2
<1>3. ASSUME NEW v \in V, NEW i \in 1..n
      PROVE  RedactKey(v, keys[i]) = Masked(v, {keys[i]}) /\ RedactKey(v, keys[i]) \in V
  <2> DEFINE key == keys[i]
  <2>1. key \in NamesOver(C)
    OBVIOUS
  <2> HIDE DEF key
  <2>2. RedactKey(v, key) = Masked(v, {key})
    BY <2>1, RedactKeyIs
  <2>3. Masked(v, {key}) \in Seq(C)
    <3> DEFINE one == {key}
               seqs == MaskPieces(v, one)
    <3>1. seqs \in Seq(Seq(C))
      <4> HIDE DEF one
      <4> QED BY PiecesType
    <3> HIDE DEF seqs
    <3>2. PICK g : Flattens(g, seqs, C)
      BY <3>1, FlattenLoop
    <3>3. FlattenSeq(seqs) \in Seq(C)
      BY <3>1, <3>2, FlattenAt
    <3> QED BY <3>3 DEF Masked, seqs
  <2> QED BY <2>2, <2>3, Zenon DEF key
<1>4. \E h : h = turns(h)
  <2>1. prev \in [D -> D] /\ rank \in [D -> Nat]
    <3>1. \A s \in D : s # {} => Max(s) \in Nat /\ s \ {Max(s)} \in D
      <4>1. \A x \in 1..n : x \in Nat
        OBVIOUS
      <4> QED BY <1>2, <4>1
    <3> HIDE DEF D
    <3> QED BY <1>1, <3>1
  <2>2. step \in [V \X D -> V]
    <3>1. ASSUME NEW v \in V, NEW s \in D PROVE turn(v, s) \in V
      <4>1. s # {} => Max(s) \in 1..n
        BY <1>2
      <4> HIDE DEF V
      <4> QED BY <1>1, <1>3, <4>1
    <3> HIDE DEF turn, V, D
    <3> QED BY <3>1
  <2>3. base \in [D -> V]
    OBVIOUS
  <2>4. ASSUME NEW s \in D \ Stop PROVE rank[prev[s]] < rank[s]
    <3> DEFINE m == Max(s)
               r == s \ {m}
    <3>1. s \in D /\ s # {}
      OBVIOUS
    <3>2. m \in s /\ m \in 1..n /\ (\A x \in s : x <= m) /\ r \in D
      BY <1>2, <3>1
    <3>3. prev[s] = r /\ rank[s] = m
      <4> HIDE DEF D
      <4> QED BY <3>1
    <3>4. rank[r] = IF r = {} THEN 0 ELSE Max(r)
      <4> HIDE DEF D, r
      <4> QED BY <3>2
    <3>5. r # {} => Max(r) \in r
      <4> HIDE DEF r
      <4> QED BY <1>2, <3>2
    <3>6. r # {} => Max(r) \in Nat /\ Max(r) < m
      <4>1. \A x \in r : x \in Nat /\ x < m
        BY <1>1, <3>2
      <4> HIDE DEF r
      <4> QED BY <3>5, <4>1
    <3> HIDE DEF m, r, prev, rank
    <3> QED BY <3>2, <3>3, <3>4, <3>6
  <2>5. PICK g \in [D -> V] : \A s \in D : Equation(g, s, Stop, prev, base, step)
    <3> HIDE DEF D, V, Stop, rank, prev, base, step
    <3> QED BY <2>1, <2>2, <2>3, <2>4, RecursionExists
  <2>6. ASSUME NEW s \in D
        PROVE  g[s] = IF s = {} THEN t ELSE RedactKey(g[s \ {Max(s)}], keys[Max(s)])
    <3>1. g[s] = IF s \in Stop THEN base[s] ELSE step[<<g[prev[s]], s>>]
      BY <2>5, Zenon DEF Equation
    <3>2. CASE s = {}
      BY <3>1, <3>2
    <3>3. CASE s # {}
      <4>1. s \notin Stop
        BY <3>3
      <4>2. prev[s] = s \ {Max(s)} /\ prev[s] \in D
        <5>1. prev[s] = s \ {Max(s)}
          <6> HIDE DEF D
          <6> QED BY <3>3
        <5> HIDE DEF prev, D
        <5> QED BY <2>1, <5>1
      <4>3. step[<<g[prev[s]], s>>] = turn(g[prev[s]], s)
        <5> HIDE DEF turn, V, D, prev
        <5> QED BY <4>2
      <4>4. turn(g[prev[s]], s) = RedactKey(g[prev[s]], keys[Max(s)])
        <5> HIDE DEF prev
        <5> QED BY <3>3, Zenon
      <4> HIDE DEF prev, step, turn, Stop
      <4> QED BY <3>1, <3>3, <4>1, <4>2, <4>3, <4>4, Zenon
    <3> QED BY <3>2, <3>3
  <2>7. g = [s \in D |-> g[s]]
    BY <2>5
  <2>8. D = SUBSET (DOMAIN keys)
    BY <1>1
  <2>9. g = turns(g)
    <3>1. g = [s \in D |-> IF s = {} THEN t ELSE RedactKey(g[s \ {Max(s)}], keys[Max(s)])]
      <4> HIDE DEF D
      <4> QED BY <2>6, <2>7, Zenon
    <3> HIDE DEF D
    <3> QED BY <2>8, <3>1, Zenon
  <2> QED BY <2>9
<1>5. f = turns(f)
  <2> HIDE DEF turns
  <2> QED BY <1>4
<1>6. FoldLeft(RedactKey, t, keys) = f[DOMAIN keys]
  BY DEF FoldLeft, MapThenFoldSet
<1> HIDE DEF f
<1>7. ASSUME NEW s \in D
      PROVE  f[s] = IF s = {} THEN t ELSE RedactKey(f[s \ {Max(s)}], keys[Max(s)])
  <2>1. s \in SUBSET (DOMAIN keys)
    BY <1>1
  <2>2. f[s] = turns(f)[s]
    BY <1>5, Zenon
  <2> HIDE DEF D
  <2> QED BY <2>1, <2>2, Zenon
<1> DEFINE names(j) == {keys[x] : x \in 1..j}
           S == {j \in 0..n : f[1..j] = Masked(t, names(j))}
<1>8. 0 \in S
  <2>1. 1..0 = {} /\ 0 \in 0..n
    BY <1>1
  <2>2. f[1..0] = t
    BY <1>1, <1>7, <2>1
  <2>3. names(0) = {}
    BY <2>1
  <2>4. Masked(t, {}) = t
    BY MaskNone
  <2> HIDE DEF names
  <2> QED BY <2>1, <2>2, <2>3, <2>4
<1>9. ASSUME NEW j \in 1..n, j - 1 \in S PROVE j \in S
  <2> DEFINE s == 1..j
             i == j - 1
             key == keys[j]
  <2>1. s \in D /\ s # {} /\ i \in 0..n /\ j \in 0..n /\ 1..i = s \ {j}
    <3>1. s \subseteq 1..n /\ j \in s /\ i \in 0..n /\ j \in 0..n
      BY <1>1
    <3>2. \A x : x \in 1..i <=> (x \in s /\ x # j)
      BY <1>1
    <3> HIDE DEF s, i
    <3> QED BY <3>1, <3>2
  <2>2. Max(s) = j
    <3>1. Max(s) \in s /\ \A x \in s : x <= Max(s)
      <4> HIDE DEF s, D
      <4> QED BY <1>2, <2>1
    <3>2. j \in s
      BY <1>1
    <3> QED BY <3>1, <3>2
  <2>3. f[s] = RedactKey(f[1..i], key)
    <3> HIDE DEF s, i, D
    <3> QED BY <1>7, <2>1, <2>2, Zenon
  <2>4. f[1..i] = Masked(t, names(i))
    BY <1>9
  <2>5. names(i) \subseteq NamesOver(C) /\ key \in NamesOver(C)
    <3>1. \A x \in 1..n : keys[x] \in NamesOver(C)
      OBVIOUS
    <3> QED BY <1>1, <3>1
  <2>6. names(j) = names(i) \cup {key}
    <3>1. \A x : x \in 1..j <=> (x \in 1..i \/ x = j)
      BY <1>1
    <3> HIDE DEF i
    <3> QED BY <3>1
  <2> DEFINE before == names(i)
             v == Masked(t, before)
  <2>7. v \in Seq(C)
    <3> DEFINE seqs == MaskPieces(t, before)
    <3> HIDE DEF before
    <3>1. seqs \in Seq(Seq(C))
      BY PiecesType
    <3> HIDE DEF seqs
    <3>2. PICK g : Flattens(g, seqs, C)
      BY <3>1, FlattenLoop
    <3>3. FlattenSeq(seqs) \in Seq(C)
      BY <3>1, <3>2, FlattenAt
    <3> QED BY <3>3 DEF Masked, seqs
  <2>8. RedactKey(v, key) = Masked(v, {key})
    <3>1. v \in V
      BY <2>7
    <3> HIDE DEF v, V
    <3> QED BY <1>3, <3>1
  <2>9. Masked(v, {key}) = Masked(t, before \cup {key})
    <3> HIDE DEF before, key
    <3>1. before \in SUBSET NamesOver(C)
      BY <2>5 DEF before
    <3> QED BY <2>5, <3>1, MaskMore
  <2> HIDE DEF names, i, key
  <2>10. f[1..j] = Masked(t, names(j))
    BY <2>3, <2>4, <2>6, <2>8, <2>9, Zenon
  <2> QED BY <2>1, <2>10
<1>10. n \in S
  <2>1. \A j \in 1..n : j - 1 \in S => j \in S
    BY ONLY <1>9
  <2> HIDE DEF S
  <2>2. 0..n \subseteq S
    BY ONLY <1>1, <1>8, <2>1, BoundedInduction
  <2> QED BY <1>1, <2>2
<1>11. names(n) = ToSet(keys)
  BY <1>1 DEF ToSet
<1>12. f[1..n] = Masked(t, names(n))
  BY <1>10
<1> QED BY <1>1, <1>6, <1>11, <1>12, Zenon

\* Whatever keys there are, in whatever order and of whatever length: one after the
\* other over the whole text, each over what the ones before it left, they give what one
\* pass gives that looks for all of them, if no key has an equals sign in it or what ends
\* a value (logredact).
THEOREM KeysAtOnce ==
  ASSUME NEW C, "=" \in C, Secret \in C, NEW t \in Seq(C), NEW keys \in Seq(NamesOver(C))
  PROVE  FoldLeft(RedactKey, t, keys) = RedactAll(t, ToSet(keys))
<1> DEFINE set == ToSet(keys)
<1>1. set \in SUBSET NamesOver(C)
  BY DEF ToSet
<1>2. FoldLeft(RedactKey, t, keys) = Masked(t, set)
  BY FoldIs
<1> HIDE DEF set
<1>3. RedactAll(t, set) = Masked(t, set)
  BY <1>1, RedactAllIs
<1> QED BY <1>2, <1>3, Zenon DEF set

\* The keys of the catalog are such keys.
LEMMA CatalogKeys ==
  ASSUME NEW C, STRING \subseteq C
  PROVE  SensitiveKeys \in Seq(NamesOver(C))
<1> DEFINE keys == SensitiveKeys
           Bad == {"="} \cup Separators
           W == Seq(STRING)
<1>1. keys \in Seq(W)
  BY KeysAssumption
<1>2. \A key \in ToSet(keys) : ToSet(key) \cap Bad = {}
  BY KeysAssumption
<1> HIDE DEF keys
<1>3. ASSUME NEW i \in 1..Len(keys) PROVE keys[i] \in NamesOver(C)
  <2> DEFINE key == keys[i]
  <2>1. key \in W
    <3> HIDE DEF W
    <3> QED BY <1>1
  <2>2. key \in ToSet(keys)
    <3> HIDE DEF W
    <3> QED BY <1>1 DEF ToSet
  <2>3. ToSet(key) \cap Bad = {}
    <3> HIDE DEF key, Bad
    <3> QED BY <1>2, <2>2
  <2> HIDE DEF key
  <2>4. key \in Seq(C)
    <3> DEFINE T == STRING
    <3>1. key \in Seq(T) /\ T \subseteq C
      BY <2>1
    <3> HIDE DEF T
    <3> QED BY <3>1
  <2>5. \A j \in 1..Len(key) : key[j] \in ToSet(key)
    BY <2>4 DEF ToSet
  <2>6. Named(key)
    BY <2>3, <2>5, Zenon DEF Named
  <2> QED BY <2>4, <2>6 DEF NamesOver, key
<1> HIDE DEF W
<1>4. Len(keys) \in Nat /\ keys = [i \in 1..Len(keys) |-> keys[i]]
  BY <1>1
<1> DEFINE N == NamesOver(C)
<1>5. keys \in Seq(N)
  <2> HIDE DEF N
  <2>1. \A i \in 1..Len(keys) : keys[i] \in N
    BY <1>3 DEF N
  <2> QED BY <1>4, <2>1
<1> QED BY <1>5 DEF keys

\* The text of an input for redaction is symbols of its alphabet.
RedactTextType == kind = "redact" => text \in Seq(Alphabet["redact"])

\* That holds throughout.
LEMMA TextIsRedact == Spec => []RedactTextType
<1>1. Init => RedactTextType
  BY DEF Init, RedactTextType
<1>2. RedactTextType /\ [Next]_vars => RedactTextType'
  <2> SUFFICES ASSUME RedactTextType, [Next]_vars, kind' = "redact"
               PROVE  text' \in Seq(Alphabet["redact"])
    BY DEF RedactTextType
  <2>1. CASE Grow
    <3>1. kind = "redact" /\ text \in Seq(Alphabet["redact"])
      BY <2>1 DEF Grow, RedactTextType
    <3>2. PICK symbol \in Alphabet[kind] : text' = Append(text, symbol)
      BY <2>1 DEF Grow
    <3>3. symbol \in Alphabet["redact"]
      BY <3>1, <3>2
    <3> QED BY <3>1, <3>2, <3>3, AppendProperties
  <2>2. CASE NextDay
    BY <2>2 DEF NextDay
  <2>3. CASE UNCHANGED vars
    BY <2>3 DEF vars, RedactTextType
  <2> QED BY <2>1, <2>2, <2>3 DEF Next
<1> QED BY <1>1, <1>2, PTL DEF Spec

\* The keys of the catalog, one after the other, hide in texts of any length what one
\* pass over all of them hides.
THEOREM RedactionAtOnceHolds == Spec => []RedactionAtOnce
<1>1. RedactTextType => RedactionAtOnce
  <2> DEFINE A == Alphabet["redact"]
             sign == "="
             q == Secret
             C == A \cup STRING \cup {sign, q}
  <2> SUFFICES ASSUME text \in Seq(A) PROVE RedactText(text) = RedactAtOnce(text)
    BY Zenon DEF RedactTextType, RedactionAtOnce
  <2> HIDE DEF A, sign, q
  <2>1. /\ text \in Seq(C) /\ STRING \subseteq C /\ sign \in C /\ q \in C
    <3> DEFINE T == STRING
    <3>1. A \subseteq C /\ T \subseteq C /\ sign \in C /\ q \in C
      OBVIOUS
    <3> HIDE DEF T, C
    <3>2. text \in Seq(C)
      BY <3>1
    <3> QED BY <3>1, <3>2 DEF T
  <2> HIDE DEF C
  <2>2. SensitiveKeys \in Seq(NamesOver(C))
    BY <2>1, CatalogKeys
  <2>3. "=" \in C /\ Secret \in C
    BY <2>1, Zenon DEF sign, q
  <2>4. FoldLeft(RedactKey, text, SensitiveKeys) = RedactAll(text, ToSet(SensitiveKeys))
    BY <2>1, <2>2, <2>3, KeysAtOnce
  <2> QED BY <2>4, Zenon DEF RedactText, RedactAtOnce
<1> QED BY <1>1, TextIsRedact, PTL
===============================================================================

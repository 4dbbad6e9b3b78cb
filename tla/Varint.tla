-------------------------------- MODULE Varint --------------------------------
(***************************************************************************)
(* encode_varint and decode_varint (src/index/store.cpp): an unsigned      *)
(* word goes out as digits of base Base, the lowest first, and every byte  *)
(* but the last one has Base added to its digit (the continuation bit).    *)
(* Positions are the code's: the number of bytes before the next one.      *)
(***************************************************************************)
EXTENDS Naturals, Sequences

CONSTANTS
  Base,      \* 128 in the code
  Groups,    \* most bytes decode_varint reads: 10, while shift < 64
  WordSize   \* 2^64: the values of std::uint64_t

\* 1 << shift after n groups.
Power[n \in Nat] == IF n = 0 THEN 1 ELSE Base * Power[n - 1]

ASSUME VarintAssumption ==
  /\ Base \in Nat \ {0, 1}
  /\ Groups \in Nat \ {0}
  /\ WordSize \in Nat \ {0} /\ WordSize <= Power[Groups]

Byte == 0..(2 * Base - 1)
Word == 0..(WordSize - 1)

\* Mutants of EncodeVarint: the byte is not masked to its digit; the loop ends
\* one group early on multiples of Base.
EncodeUnmasked(v) ==
  LET digits[n \in Nat] == IF n < Base THEN <<n>> ELSE <<Base + n>> \o digits[n \div Base]
  IN  digits[v]
EncodeDropsHigh(v) ==
  LET digits[n \in Nat] ==
        IF n <= Base THEN <<n % Base>> ELSE <<Base + (n % Base)>> \o digits[n \div Base]
  IN  digits[v]

EncodeVarint(v) ==
  LET digits[n \in Nat] ==
        IF n < Base THEN <<n>> ELSE <<Base + (n % Base)>> \o digits[n \div Base]
  IN  digits[v]

\* The bytes of the varint at pos of bytes, as the set of its length: no
\* length when the input or the Groups end before a byte without continuation.
VarintLengths(bytes, pos) ==
  {n \in 1..Groups :
     /\ pos + n <= Len(bytes)
     /\ bytes[pos + n] < Base
     /\ \A i \in 1..(n - 1) : bytes[pos + i] >= Base}

\* The n digits after pos, each shifted to its place.
DigitsSum(bytes, pos, n) ==
  LET sum[i \in 0..n] ==
        IF i = 0 THEN 0 ELSE sum[i - 1] + (bytes[pos + i] % Base) * Power[i - 1]
  IN  sum[n]

\* Their value. A shift past the word drops the digit.
DigitsValue(bytes, pos, n) == DigitsSum(bytes, pos, n) % WordSize

\* Mutant of DecodeVarint: the end of the input ends the varint as well.
DecodeToEnd(bytes, pos) ==
  IF VarintLengths(bytes, pos) # {}
  THEN LET n == CHOOSE n \in VarintLengths(bytes, pos) : TRUE
       IN  [ok |-> TRUE, value |-> DigitsValue(bytes, pos, n), pos |-> pos + n]
  ELSE [ok |-> TRUE, value |-> DigitsValue(bytes, pos, Len(bytes) - pos), pos |-> Len(bytes)]

\* The first varint behind pos. A failure leaves the position behind the bytes looked at.
DecodeVarint(bytes, pos) ==
  IF VarintLengths(bytes, pos) # {}
  THEN LET n == CHOOSE n \in VarintLengths(bytes, pos) : TRUE
       IN  [ok |-> TRUE, value |-> DigitsValue(bytes, pos, n), pos |-> pos + n]
  ELSE [ok |-> FALSE, value |-> 0,
        pos |-> IF pos + Groups <= Len(bytes) THEN pos + Groups ELSE Len(bytes)]
===============================================================================

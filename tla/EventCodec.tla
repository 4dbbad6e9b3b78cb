------------------------------ MODULE EventCodec ------------------------------
(***************************************************************************)
(* serialize_event and deserialize_event (src/index/store.cpp).            *)
(*                                                                         *)
(* A record keeps the tombstone byte, one of the six strings (the id) and  *)
(* the counted fields. The kind byte, the two other varints (timestamp,    *)
(* ordinal) and the other strings are written and read by the same put and *)
(* get, or as the tombstone byte is, and no property tells them apart.     *)
(***************************************************************************)
EXTENDS Varint, SequencesExt

CONSTANTS
  Ids,        \* record ids
  IdText,     \* [Ids -> Seq(Byte)]: their characters
  KeyText,    \* the characters of a field's key
  ValueText,  \* and of its value
  FieldLimit, \* most fields deserialize_event reads back (100000)
  MaxFields   \* model bound on the fields of an event

ASSUME CodecAssumption ==
  /\ IdText \in [Ids -> Seq(Byte)]
  /\ \A i, j \in Ids : IdText[i] = IdText[j] => i = j
  /\ KeyText \in Seq(Byte) /\ ValueText \in Seq(Byte)
  /\ FieldLimit \in Nat
  /\ MaxFields \in Nat

Event == [id: Ids, fields: 0..MaxFields, tombstone: BOOLEAN]

\* A string goes out behind its length.
PutString(s) == EncodeVarint(Len(s)) \o s

\* The string behind the length n, or a failure: a bad length, or one past the record. A
\* length so large that its sum with the position wraps passes for one inside the record.
\* It is more than a std::string can have, which throws length_error.
StringBehind(bytes, n) ==
  LET past == n.pos + n.value
      fits == n.ok /\ past % WordSize <= Len(bytes)
  IN  IF fits /\ past < WordSize
      THEN [ok |-> TRUE, thrown |-> FALSE, text |-> SubSeq(bytes, n.pos + 1, past), pos |-> past]
      ELSE [ok |-> FALSE, thrown |-> fits, text |-> <<>>, pos |-> n.pos]

\* Mutant of GetString: the position stays at the string.
GetStringInPlace(bytes, pos) ==
  [StringBehind(bytes, DecodeVarint(bytes, pos)) EXCEPT !.pos = DecodeVarint(bytes, pos).pos]

\* The string at pos.
GetString(bytes, pos) == StringBehind(bytes, DecodeVarint(bytes, pos))

\* A field is its key and its value.
PutField == PutString(KeyText) \o PutString(ValueText)

\* The field at pos. The value is read even where the key has failed.
ValueBehind(bytes, key) ==
  LET value == GetString(bytes, key.pos)
  IN  [ok |-> key.ok /\ value.ok, thrown |-> key.thrown \/ value.thrown, pos |-> value.pos]
GetField(bytes, pos) == ValueBehind(bytes, GetString(bytes, pos))

SerializeEvent(e) ==
  <<IF e.tombstone THEN 1 ELSE 0>>
    \o PutString(IdText[e.id])
    \o EncodeVarint(e.fields)
    \o FlattenSeq([i \in 1..e.fields |-> PutField])

\* Reading the count fields after pos: the position after the last of them, or
\* a failure as soon as one of them fails.
FieldsEnd(bytes, pos, count) ==
  LET after[i \in 0..count] ==
        IF i = 0 THEN [ok |-> TRUE, thrown |-> FALSE, pos |-> pos]
        ELSE IF after[i - 1].ok THEN GetField(bytes, after[i - 1].pos)
        ELSE after[i - 1]
  IN  after[count]

\* The id whose characters are text. Of a text no id has, which only damaged
\* bytes hold, the text itself is kept.
IdOf(text) ==
  IF \E i \in Ids : IdText[i] = text THEN CHOOSE i \in Ids : IdText[i] = text ELSE text

\* A record that gives no event: deserialize_event returns an error, or is left by what a
\* string in it throws.
Undecodable(thrown) == [ok |-> FALSE, thrown |-> thrown]

\* What follows the id in a record.
BehindId(bytes, id) ==
  LET count == DecodeVarint(bytes, id.pos)
      read  == IF count.value <= FieldLimit THEN count.value ELSE FieldLimit
      end   == FieldsEnd(bytes, count.pos, read)
  IN  IF ~id.ok \/ ~count.ok THEN Undecodable(id.thrown)
      ELSE IF ~end.ok THEN Undecodable(end.thrown)
      ELSE [ok |-> TRUE, thrown |-> FALSE,
            event |-> [id |-> IdOf(id.text), fields |-> read, tombstone |-> bytes[1] # 0]]

DeserializeEvent(bytes) ==
  IF Len(bytes) < 1 THEN Undecodable(FALSE) ELSE BehindId(bytes, GetString(bytes, 1))
===============================================================================

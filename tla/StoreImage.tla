------------------------------- MODULE StoreImage -------------------------------
(***************************************************************************)
(* The bytes of a store file (src/index/store.cpp): the header and a page  *)
(* per event, which is the length of its record, the record and a          *)
(* checksum; and what a load makes of any bytes it has read.               *)
(***************************************************************************)
EXTENDS EventCodec

CONSTANTS
  Header,      \* the bytes "LHST1\n"
  ChecksumSize \* bytes of a page's checksum: 4

ASSUME ImageAssumption ==
  /\ Header \in Seq(Byte) /\ Header # <<>>
  /\ ChecksumSize \in Nat \ {0}

\* load skips the checksum and never compares it, so that any value will do.
Checksum(record) == [i \in 1..ChecksumSize |-> (Len(record) + i) % (2 * Base)]

\* Mutant of Page: the length counts the checksum as well.
PageCountsChecksum(e) ==
  EncodeVarint(Len(SerializeEvent(e)) + ChecksumSize)
    \o SerializeEvent(e) \o Checksum(SerializeEvent(e))

Page(e) ==
  EncodeVarint(Len(SerializeEvent(e))) \o SerializeEvent(e) \o Checksum(SerializeEvent(e))

Pages == [e \in Event |-> Page(e)]
Image(es) ==
  LET upTo[i \in 0..Len(es)] == IF i = 0 THEN Header ELSE upTo[i - 1] \o Pages[es[i]]
  IN  upTo[Len(es)]

HasHeader(bytes) == Len(bytes) >= Len(Header) /\ SubSeq(bytes, 1, Len(Header)) = Header

\* What load throws at a page that passed for whole: the sum with its length wrapped, so
\* that no vector can hold the record, or a string in the record has such a length. There
\* is no catch in load or around it.
PageThrows(bytes, pos) ==
  LET len  == DecodeVarint(bytes, pos)
      past == len.pos + len.value + ChecksumSize
  IN  /\ len.ok /\ past % WordSize <= Len(bytes)
      /\ past < WordSize =>
           DeserializeEvent(SubSeq(bytes, len.pos + 1, len.pos + len.value)).thrown

\* Mutant of LoadTurn: a record that does not decode ends the load.
LoadTurnToBadRecord(bytes, s) ==
  LET len  == DecodeVarint(bytes, s.pos)
      past == (len.pos + len.value + ChecksumSize) % WordSize
      read == DeserializeEvent(SubSeq(bytes, len.pos + 1, len.pos + len.value))
      more == s.result = "none" /\ s.pos < Len(bytes)
  IN  CASE s.result # "none" -> s
        [] s.result = "none" /\ s.pos >= Len(bytes) -> [s EXCEPT !.result = "ok"]
        [] more /\ ~len.ok -> [s EXCEPT !.result = "invalid_format"]
        [] more /\ len.ok /\ past > Len(bytes) ->
             [s EXCEPT !.result = "truncated_input"]
        [] more /\ len.ok /\ past <= Len(bytes) ->
             IF PageThrows(bytes, s.pos) THEN [s EXCEPT !.result = "length_error"]
             ELSE IF read.ok THEN [s EXCEPT !.pos = past, !.events = Append(@, read.event)]
             ELSE [s EXCEPT !.result = "ok"]

\* One turn of the loop of load, at s.pos: the end, a bad length, a page that is not
\* whole, one at which it throws, or a page. A record that does not decode is passed over.
LoadTurn(bytes, s) ==
  LET len  == DecodeVarint(bytes, s.pos)
      past == (len.pos + len.value + ChecksumSize) % WordSize
      read == DeserializeEvent(SubSeq(bytes, len.pos + 1, len.pos + len.value))
      more == s.result = "none" /\ s.pos < Len(bytes)
  IN  CASE s.result # "none" -> s
        [] s.result = "none" /\ s.pos >= Len(bytes) -> [s EXCEPT !.result = "ok"]
        [] more /\ ~len.ok -> [s EXCEPT !.result = "invalid_format"]
        [] more /\ len.ok /\ past > Len(bytes) ->
             [s EXCEPT !.result = "truncated_input"]
        [] more /\ len.ok /\ past <= Len(bytes) ->
             IF PageThrows(bytes, s.pos) THEN [s EXCEPT !.result = "length_error"]
             ELSE [s EXCEPT !.pos = past, !.events = IF read.ok THEN Append(@, read.event) ELSE @]

\* What a load ends with.
LoadOutcome(s) == [result |-> s.result, events |-> s.events]

\* The whole load of bytes into an empty store: the loop runs on while there is no
\* result, for which as many turns as there are bytes, and one for the end, are enough.
LoadBytes(bytes) ==
  LET start == [pos |-> Len(Header), events |-> <<>>, result |-> "none"]
      after[i \in 0..(Len(bytes) + 1)] ==
        IF i = 0 THEN start ELSE LoadTurn(bytes, after[i - 1])
  IN  IF HasHeader(bytes) THEN LoadOutcome(after[Len(bytes) + 1])
      ELSE [result |-> "storage_corrupt", events |-> <<>>]

\* An event as deserialize_event reads it back.
ReadBack(e) == [e EXCEPT !.fields = IF @ <= FieldLimit THEN @ ELSE FieldLimit]
ReadBackAll(es) == [i \in 1..Len(es) |-> ReadBack(es[i])]
=================================================================================

-------------------------------- MODULE FlatJson --------------------------------
(***************************************************************************)
(* An event as a line of JSON (Event::to_json, src/ingest/event.cpp, with  *)
(* json_escape), as logscan prints it, and the pairs that                  *)
(* parse_flat_json_object (src/ingest/parsers.cpp) takes from a line. What *)
(* to_json nests, the object of the fields, the parser knows nothing of.   *)
(***************************************************************************)
EXTENDS LineParsers

\* Mutant of JsonEscape: a backslash stays as it is.
JsonEscapeQuotes(s) ==
  FlattenSeq([i \in 1..Len(s) |-> IF s[i] = "quote" THEN <<"bs", s[i]>> ELSE <<s[i]>>])

\* Newlines, tabs and other control characters go out as a backslash and letters, and
\* are left out.
JsonEscape(s) ==
  FlattenSeq([i \in 1..Len(s) |->
    IF s[i] \in {"quote", "bs"} THEN <<"bs", s[i]>> ELSE <<s[i]>>])

JsonString(s) == <<"quote">> \o JsonEscape(s) \o <<"quote">>

\* An object of pairs of a name and a value, each value written by itself.
JsonMember(i, name, value) ==
  (IF i = 1 THEN <<>> ELSE <<Between>>) \o JsonString(name) \o <<Colon>> \o value

JsonObject(names, values) ==
  <<Opening>> \o FlattenSeq([i \in 1..Len(names) |-> JsonMember(i, names[i], values[i])])
    \o <<Closing>>

\* The members of an event and, as the last of them, the object of its fields.
ToJson(names, texts, fieldNames, fieldTexts) ==
  LET strings(ts) == [i \in 1..Len(ts) |-> JsonString(ts[i])]
  IN  JsonObject(Append(names, <<"fields">>),
                 Append(strings(texts), JsonObject(fieldNames, strings(fieldTexts))))

-----------------------------------------------------------------------------
(* The parser, from the places that LineParsers finds. Positions count the *)
(* characters before, as in the code.                                      *)

PairAt(s, i) ==
  LET k == NameStart(s, i)
      v == ValueStart(s, i)
  IN  <<SubSeq(s, k + 2, ClosingQuote(s, k + 1)),
        IF ValueQuoted(s, i) THEN SubSeq(s, v + 2, ValueEnd(s, i))
        ELSE Trim(SubSeq(s, v + 1, ValueEnd(s, i)))>>

\* The pairs before the reading ends or is left.
PairsFrom(s, i) ==
  LET from[j \in 0..Len(s) + 1] ==
        IF NoPair(s, j) THEN <<>> ELSE <<PairAt(s, j)>> \o from[NextPair(s, j)]
  IN  from[i]

\* What a reading gives: its pairs, or none when it is left by the exception.
ReadFrom(s, i) ==
  [thrown |-> ThrowsFrom(s, i), pairs |-> IF ThrowsFrom(s, i) THEN <<>> ELSE PairsFrom(s, i)]
NoObject == [thrown |-> FALSE, pairs |-> <<>>]

\* The pairs of the names and values on the line, in their order; the map keeps the last
\* value of a name.
JsonPairs(line) ==
  LET s == Trim(line) IN
  IF Len(s) < 2 THEN NoObject
  ELSE IF s[1] # Opening \/ s[Len(s)] # Closing THEN NoObject
  ELSE ReadFrom(s, 1)
=================================================================================

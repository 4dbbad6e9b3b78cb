------------------------------ MODULE MCFunctions ------------------------------
(* The functions of the library that read back what others write, on every input *)
(* up to a length: the input of each kind grows by one symbol of its alphabet,   *)
(* and the days of the calendar go by one after the other.                       *)
EXTENDS StoreImage, CivilTime, TextEvents, FlatJson, Redact

CONSTANTS a, b, DayWindows

VARIABLES
  kind,  \* which functions get the input
  text,  \* the input: a sequence of symbols
  day    \* the input: a day number
vars == <<kind, text, day>>

MCIds == {a, b}
MCIdText == [i \in MCIds |-> IF i = a THEN <<5, 1, 1>> ELSE <<>>]
MCKeyText == <<1>>
MCValueText == <<>>
MCHeader == <<5>>
MCEvents == {[id |-> a, fields |-> 1, tombstone |-> FALSE],
             [id |-> b, fields |-> 0, tombstone |-> TRUE]}
\* About the years 0 and 9999, about the ends of what the clock counts, and all days of
\* four centuries and a year, in pieces.
MCDayWindows ==
  {[first |-> -720200, last |-> -718700], [first |-> 2932500, last |-> 2932896],
   [first |-> -107000, last |-> -106400], [first |-> 106400, last |-> 107000]}
    \cup {[first |-> -73100 + 36650 * i, last |-> -73100 + 36650 * (i + 1)] : i \in 0..3}
Epoch0 == <<"00:00">>
MCTimeTexts == {Epoch0, <<"10:00">>}

\* Parts of an input that stands for several values are separated by bars.
Alphabet == [varint |-> Byte,
             damage |-> MCEvents,
             csv    |-> {"x", Blank, Comma, Quote, Newline, Return, "|"},
             ini    |-> {"x", Blank, "[", "]", "=", "#", "|"},
             json   |-> {"x", "sp", "quote", "bs", ",", ":", "}", "|"},
             redact |-> {"set", "cookie", "token", "x", "=", Blank, Newline}]
MaxLength == [varint |-> 5, damage |-> 3, csv |-> 5, ini |-> 5, json |-> 4, redact |-> 5]

\* Images to be damaged are shorter than the word, as all are.
ASSUME FunctionsAssumption ==
  /\ \A w \in DayWindows : w.first \in Int /\ w.last \in Int
  /\ MCEvents \subseteq Event
  /\ \A n \in 0..MaxLength["damage"] : \A es \in [1..n -> MCEvents] : Len(Image(es)) \in Word

Init ==
  /\ text = <<>>
  /\ \/ kind \in DOMAIN Alphabet /\ day = 0
     \/ kind = "day" /\ day \in {w.first : w \in DayWindows}

Grow ==
  /\ kind # "day" /\ Len(text) < MaxLength[kind]
  /\ \E symbol \in Alphabet[kind] : text' = Append(text, symbol)
  /\ UNCHANGED <<kind, day>>

NextDay ==
  /\ kind = "day" /\ \E w \in DayWindows : w.first <= day /\ day < w.last
  /\ day' = day + 1
  /\ UNCHANGED <<kind, text>>

Next == Grow \/ NextDay
Spec == Init /\ [][Next]_vars

\* One symbol more: a bar begins another part.
AddSymbol(parts, symbol) ==
  IF symbol = "|" THEN Append(parts, <<>>)
  ELSE [parts EXCEPT ![Len(parts)] = Append(@, symbol)]

\* The parts of text between the bars; of its first n symbols.
PartsTo(n) ==
  LET upTo[i \in 0..Len(text)] == IF i = 0 THEN <<<<>>>> ELSE AddSymbol(upTo[i - 1], text[i])
  IN  upTo[n]
Parts == PartsTo(Len(text))

-----------------------------------------------------------------------------
(* Varints (encode_varint, decode_varint).                                 *)

Decoded == DecodeVarint(text, 0)

\* decode_varint inverts encode_varint: bytes that hold a word within WordSize
\* and no idle high digit are the very bytes encode_varint writes for it.
EncodeInvertsDecode ==
  kind = "varint" =>
    LET n == Decoded.pos
    IN  Decoded.ok /\ DigitsSum(text, 0, n) \in Word /\ (n = 1 \/ text[n] # 0) =>
          EncodeVarint(Decoded.value) = SubSeq(text, 1, n)

\* A varint cut short is never read as a smaller number: decode_varint refuses
\* every proper prefix of what encode_varint writes.
CutVarintRefused ==
  kind = "varint" /\ Decoded.ok => \A v \in Word : ~IsStrictPrefix(text, EncodeVarint(v))

\* What decode_varint accepts does not depend on the bytes that follow.
DecodingIsFinal ==
  [][kind = "varint" /\ Decoded.ok => DecodeVarint(text', 0) = Decoded]_vars

-----------------------------------------------------------------------------
(* A store file with a damaged byte (RecordStore::load).                   *)

\* The offset of page k in the image of the events of text.
PageAt(k) == Len(Image(SubSeq(text, 1, k - 1)))

\* A load of the events before and behind a record, with or without one between them.
IsLoadAround(loaded, before, behind) ==
  /\ loaded.result = "ok"
  /\ Len(loaded.events) - Len(before) - Len(behind) \in {0, 1}
  /\ IsPrefix(before, loaded.events) /\ IsSuffix(behind, loaded.events)

\* load does not compare checksums. Whatever byte of a record or a checksum is not the one
\* that was written, the other records load as they were saved, before and behind it, and
\* load succeeds; a damaged record is lost or is another event, a damaged checksum is not
\* noticed. The exception is a record that has a string with a length near 2^64 now: load
\* leaves by length_error when it comes there, with the events before.
DamageStaysInRecord ==
  kind = "damage" =>
    \A k \in 1..Len(text) :
      LET record == SerializeEvent(text[k])
          start  == PageAt(k) + Len(EncodeVarint(Len(record)))
          end    == start + Len(record)
          before == ReadBackAll(SubSeq(text, 1, k - 1))
          behind == ReadBackAll(SubSeq(text, k + 1, Len(text)))
      IN  \A i \in start + 1..end + ChecksumSize, byte \in Byte :
            LET throws == i <= end /\ DeserializeEvent([record EXCEPT ![i - start] = byte]).thrown
                loaded == LoadBytes([Image(text) EXCEPT ![i] = byte])
            IN  IF throws THEN loaded = [result |-> "length_error", events |-> before]
                ELSE /\ IsLoadAround(loaded, before, behind)
                     /\ i > end => loaded.events = ReadBackAll(text)

-----------------------------------------------------------------------------
(* CSV and INI (to_csv_row, parse_csv_record, parse_csv_events,            *)
(* parse_ini_events).                                                      *)

\* A row of cells is read back as it was written, whatever commas, quotes, newlines
\* and blanks the cells hold.
CsvRowReadBack == kind = "csv" => ParseCsvRecord(CsvRow(Parts)) = Parts

\* A text of lines, each with its newline.
TextOf(lines) == FlattenSeq([i \in 1..Len(lines) |-> lines[i] \o <<Newline>>])

\* Rows with a blank line after each.
RowLines(rows) ==
  [i \in 1..2 * Len(rows) |-> IF i % 2 = 1 THEN CsvRow(rows[(i + 1) \div 2]) ELSE <<Blank>>]
CsvText(rows) == TextOf(RowLines(rows))

\* Rows of a table without newlines in its cells are read as one event each, numbered
\* on over blank lines, which answers with the cells under the header's names. A cell
\* with a newline would be cut, as parse_csv_events takes the text line by line.
CsvEventsReadBack ==
  kind = "csv" /\ Newline \notin ToSet(text) =>
    LET columns == <<<<"host">>, <<"status">>>>
        rows    == <<<<Parts[1], Last(Parts)>>, <<Last(Parts), Parts[1]>>>>
        events  == ParseCsvEvents(CsvText(<<columns>> \o rows))
    IN  /\ Len(events) = Len(rows)
        /\ \A i \in 1..Len(rows) :
             /\ events[i].ordinal = i - 1
             /\ \A c \in 1..2 : Field(events[i], columns[c]) = rows[i][c]

\* The event an exported row was made from has its time again when the row is read.
CsvTimestampsKept ==
  kind = "csv" /\ Newline \notin ToSet(text) =>
    \A time \in TimeTexts :
      LET columns == <<Timestamp, <<"message">>>>
          event   == SetField([NewEvent(<<"csv">>, <<>>, 0) EXCEPT !.timestamp = time],
                              <<"message">>, Parts[1])
          rows    == CsvRow(columns) \o <<Newline>> \o ToCsvRow(event, columns) \o <<Newline>>
      IN  ParseCsvEvents(rows)[1].timestamp = time

\* A key is one that a line can begin with, in a section or a value any line can end with.
Plain(key, value) ==
  /\ "=" \notin ToSet(key) /\ Trimmed(key) = key /\ Trimmed(value) = value
  /\ key # <<>> => key[1] # "#"
  /\ ~(key # <<>> /\ key[1] = "[" /\ value # <<>> /\ Last(value) = "]")

\* Entries are read back with their keys, values and sections, whatever brackets, equals
\* signs and hashes they hold elsewhere, between comments and lines without a value.
IniEntriesReadBack ==
  LET key     == Parts[1]
      value   == Last(Parts)
      section == Parts[(Len(Parts) + 1) \div 2]
      lines   == <<<<"[">> \o section \o <<"]">>,
                   <<"#", "=">> \o value,
                   <<Blank>> \o key \o <<Blank, "=", Blank>> \o value,
                   <<"x">>,
                   <<"[">> \o value \o <<"]", Blank>>,
                   key \o <<"=">>>>
      events  == ParseIniEvents(TextOf(lines))
      read    == [i \in 1..Len(events) |->
                   <<events[i].members[<<"service">>], events[i].fields[<<"key">>],
                     events[i].fields[<<"value">>], events[i].ordinal>>]
  IN  kind = "ini" /\ Plain(key, value) =>
        read = <<<<section, key, value, 0>>, <<value, key, <<>>, 1>>>>

-----------------------------------------------------------------------------
(* JSON (to_json, parse_flat_json_object).                                 *)

\* The line of an exported event is read back, or left by an exception. When it is
\* read, its members are read as they were written, escapes included, whatever quotes,
\* backslashes and braces the texts hold. Its fields are taken for members too, but for
\* the first, which hides in the value of "fields". A comma or a brace in that first
\* field brings the reader out of step: the fields behind it may be lost, and a line may
\* be left by the exception, but only for such a field.
JsonMembersReadBack ==
  kind = "json" =>
    LET names  == <<<<"host">>, <<"message">>>>
        texts  == <<Parts[1], Last(Parts)>>
        fields == <<<<"f">>, <<"g">>>>
        read   == JsonPairs(ToJson(names, texts, fields, texts))
        hidden == {",", "}"} \cap ToSet(texts[1]) = {}
    IN  /\ read.thrown => ~hidden
        /\ ~read.thrown =>
             /\ \A i \in 1..2 : read.pairs[i] = <<names[i], JsonEscape(texts[i])>>
             /\ read.pairs[3][1] = <<"fields">>
        /\ hidden => Len(read.pairs) = 4 /\ read.pairs[4] = <<<<"g">>, JsonEscape(texts[2])>>

-----------------------------------------------------------------------------
(* Redaction (logredact).                                                  *)

\* One key after the other gives what one pass over all keys does, although each works
\* on the output of those before it and one key ends as another does: behind every key
\* the value up to the next blank, tab, comma or ampersand is hidden, and nothing else.
\* (A newline ends no value: with it the start of the next line is hidden as well.)
RedactionAtOnce == kind = "redact" => RedactText(text) = RedactAtOnce(text)

-----------------------------------------------------------------------------
(* Dates and times (days_from_civil, civil_from_days, format_rfc3339,      *)
(* parse_rfc3339).                                                         *)

\* One day after the other is one date of the calendar after the other.
CivilDatesFollow ==
  [][kind = "day" => CivilFromDays(day') = NextDate(CivilFromDays(day))]_vars

Stamp(seconds, zone) ==
  LET rest == seconds % DaySeconds
  IN  [date   |-> CivilFromDays(seconds \div DaySeconds),
       hour   |-> rest \div HourSeconds,
       minute |-> (rest % HourSeconds) \div MinuteSeconds,
       second |-> rest % MinuteSeconds,
       zone   |-> zone]

SecondsOf(d) == {d * DaySeconds + s : s \in 0..DaySeconds - 1}

Zones == {[sign |-> sign, hour |-> 1, minute |-> 1] : sign \in {-1, 1}} \cup {Utc}

\* The stamp of a second, in any zone, is read as that second, across midnight and the
\* year's end, and is written again as it is in UTC, if and only if the clock counts
\* that far: stamps of years from 1678 to 2261 always, and no others.
StampsReadBack ==
  kind = "day" =>
    \A seconds \in SecondsOf(day), zone \in Zones :
      LET time == ParseRfc3339(Stamp(seconds + ZoneOffset(zone), zone))
      IN  /\ InClock(seconds) <=> UnixSeconds(time) = seconds
          /\ InClock(seconds) <=> FormatRfc3339(time) = Stamp(seconds, Utc)
=================================================================================

------------------------------- MODULE TextEvents -------------------------------
(***************************************************************************)
(* Events in texts of lines: CSV rows behind a header, written by          *)
(* Event::to_csv_row (src/ingest/event.cpp) with csv_escape and read by    *)
(* parse_csv_events, and INI entries under section headers, read by        *)
(* parse_ini_events (src/ingest/parsers.cpp).                              *)
(*                                                                         *)
(* A text is a sequence of characters; a word that is of no concern to the *)
(* formats is one character. Column names are such that                    *)
(* normalize_field_name leaves them alone.                                 *)
(***************************************************************************)
EXTENDS Naturals, Sequences, FiniteSetsExt, SequencesExt

CONSTANTS
  TimeTexts,  \* the texts parse_timestamp accepts, as format_rfc3339 writes them
  Epoch       \* the text of the time an event begins with

ASSUME TextAssumption == Epoch \in TimeTexts /\ TimeTexts \subseteq Seq(STRING)

Comma == ","
Quote == "quote"
Newline == "newline"
Return == "return"
Blank == " "
Blanks == {Blank, Return}

\* One character more: a newline begins another line.
AddCharacter(lines, c) ==
  IF c = Newline THEN Append(lines, <<>>)
  ELSE [lines EXCEPT ![Len(lines)] = Append(@, c)]

\* The lines of the first n characters.
LinesTo(text, n) ==
  LET upTo[i \in 0..Len(text)] == IF i = 0 THEN <<<<>>>> ELSE AddCharacter(upTo[i - 1], text[i])
  IN  upTo[n]

\* std::getline over a text: there is no line after the last newline.
TextLines(text) ==
  LET lines == LinesTo(text, Len(text))
  IN  IF Last(lines) = <<>> THEN Front(lines) ELSE lines

Trimmed(s) ==
  LET text == {i \in 1..Len(s) : s[i] \notin Blanks}
  IN  IF text = {} THEN <<>> ELSE SubSeq(s, Min(text), Max(text))

-----------------------------------------------------------------------------
(* Events.                                                                 *)

Timestamp == <<"timestamp">>

\* What set_field puts elsewhere than into the map of fields.
Members == {<<"source">>, <<"host">>, <<"service">>, <<"severity">>, <<"message">>}

\* base: a new event; its id is the hash of the line and the ordinal.
NewEvent(kind, line, ordinal) ==
  [id |-> <<line, ordinal>>, kind |-> kind, timestamp |-> Epoch, ordinal |-> ordinal,
   members |-> [name \in Members |-> <<>>], fields |-> [name \in {} |-> <<>>]]

\* field answers with the event's own time, kind or id, whatever the map holds.
Field(e, name) ==
  IF name \in {Timestamp, <<"time">>} THEN e.timestamp
  ELSE IF name = <<"kind">> THEN e.kind
  ELSE IF name = <<"id">> THEN e.id
  ELSE IF name \in Members THEN e.members[name]
  ELSE IF name \in DOMAIN e.fields THEN e.fields[name] ELSE <<>>

SetField(e, name, value) ==
  IF name = <<>> THEN e
  ELSE IF name \in Members THEN [e EXCEPT !.members[name] = value]
  ELSE [e EXCEPT !.fields = [n \in DOMAIN @ \cup {name} |-> IF n = name THEN value ELSE @[n]]]

-----------------------------------------------------------------------------
(* CSV.                                                                    *)

\* What a cell in quotes is written as: its own quotes doubled.
CsvDoubled(cell) ==
  FlattenSeq([i \in 1..Len(cell) |->
    IF cell[i] = Quote THEN <<Quote, Quote>> ELSE <<cell[i]>>])

\* Mutant of CsvEscape: a quote alone is no reason to quote the cell.
CsvEscapeBare(cell) ==
  IF {Comma, Newline, Return} \cap ToSet(cell) = {} THEN cell
  ELSE <<Quote>> \o CsvDoubled(cell) \o <<Quote>>

\* A cell with a character of the format goes out in quotes.
CsvEscape(cell) ==
  IF {Comma, Quote, Newline, Return} \cap ToSet(cell) = {} THEN cell
  ELSE <<Quote>> \o CsvDoubled(cell) \o <<Quote>>

CsvRow(cells) ==
  FlattenSeq([i \in 1..Len(cells) |->
    (IF i = 1 THEN <<>> ELSE <<Comma>>) \o CsvEscape(cells[i])])

ToCsvRow(e, columns) == CsvRow([i \in 1..Len(columns) |-> Field(e, columns[i])])

\* parse_csv_record begins with: the cells so far, the one that is being read, whether
\* within quotes, and whether the next quote has been read already.
CsvStart == [cells |-> <<>>, cell |-> <<>>, quoted |-> FALSE, skip |-> FALSE]

\* Its turn at character i, where a quote within quotes looks ahead for another.
CsvTurn(line, st, i) ==
  IF st.skip THEN [st EXCEPT !.skip = FALSE]
  ELSE IF st.quoted /\ line[i] = Quote /\ i < Len(line) /\ line[i + 1] = Quote
  THEN [st EXCEPT !.cell = Append(@, Quote), !.skip = TRUE]
  ELSE IF line[i] = Quote THEN [st EXCEPT !.quoted = ~@]
  ELSE IF line[i] = Comma /\ ~st.quoted
  THEN [st EXCEPT !.cells = Append(@, st.cell), !.cell = <<>>]
  ELSE [st EXCEPT !.cell = Append(@, line[i])]

\* Where it is after n characters.
CsvAfter(line, n) ==
  LET after[i \in 0..Len(line)] ==
        IF i = 0 THEN CsvStart ELSE CsvTurn(line, after[i - 1], i)
  IN  after[n]

ParseCsvRecord(line) ==
  LET last == CsvAfter(line, Len(line)) IN Append(last.cells, last.cell)

\* A new event with the first n cells of a record under the header's names.
WithCells(line, ordinal, header, cells, n) ==
  LET with[i \in 0..Min({Len(header), Len(cells)})] ==
        IF i = 0 THEN NewEvent(<<"csv">>, line, ordinal)
        ELSE SetField(with[i - 1], header[i], cells[i])
  IN  with[n]

\* The time is looked up, and parsed, once all cells of a record are set.
RecordEvent(line, ordinal, header) ==
  LET cells == ParseCsvRecord(line)
      set   == WithCells(line, ordinal, header, cells, Min({Len(header), Len(cells)}))
      time  == Field(set, Timestamp)
  IN  IF time \in TimeTexts THEN [set EXCEPT !.timestamp = time] ELSE set

\* Mutant of ParseCsvEvents: blank lines are records as well.
ParseCsvBlankToo(text) ==
  LET lines == TextLines(text) IN
  IF lines = <<>> THEN <<>>
  ELSE [i \in 1..Len(lines) - 1 |-> RecordEvent(lines[i + 1], i - 1, ParseCsvRecord(lines[1]))]

\* The events of the first n lines behind the header; blank ones are passed over.
EventsTo(header, lines, n) ==
  LET upTo[i \in 0..Len(lines)] ==
        IF i = 0 THEN <<>>
        ELSE IF Trimmed(lines[i]) = <<>> THEN upTo[i - 1]
        ELSE Append(upTo[i - 1], RecordEvent(lines[i], Len(upTo[i - 1]), header))
  IN  upTo[n]

\* The first line is the header.
ParseCsvEvents(text) ==
  LET lines == TextLines(text)
  IN  IF lines = <<>> THEN <<>>
      ELSE EventsTo(ParseCsvRecord(lines[1]), Tail(lines), Len(lines) - 1)

-----------------------------------------------------------------------------
(* INI.                                                                    *)

\* Mutant of EqualsAt: the last of them.
LastEqualsAt(t) == LET at == {i \in 1..Len(t) : t[i] = "="} IN IF at = {} THEN 0 ELSE Max(at)

EqualsAt(t) == LET at == {i \in 1..Len(t) : t[i] = "="} IN IF at = {} THEN 0 ELSE Min(at)

\* The event of the line with the trimmed text t and its equals sign at eq.
IniEvent(line, t, eq, ordinal, section) ==
  LET key     == Trimmed(SubSeq(t, 1, eq - 1))
      value   == Trimmed(SubSeq(t, eq + 1, Len(t)))
      named   == [NewEvent(<<"ini">>, line, ordinal) EXCEPT
                    !.fields = [n \in {<<"key">>, <<"value">>} |-> IF n = <<"key">> THEN key ELSE value]]
      placed  == SetField(named, <<"service">>, section)
  IN  SetField(placed, <<"message">>, section \o <<".">> \o key \o <<"=">> \o value)

CommentMarks == {"#", ";"}

IniStart == [section |-> <<>>, events |-> <<>>]

\* A line: a comment, the header of a section, an entry, or nothing.
IniTurn(st, line) ==
  LET t == Trimmed(line) IN
  IF t = <<>> THEN st
  ELSE IF t[1] \in CommentMarks THEN st
  ELSE IF t[1] = "[" /\ Last(t) = "]" THEN [st EXCEPT !.section = SubSeq(t, 2, Len(t) - 1)]
  ELSE IF EqualsAt(t) = 0 THEN st
  ELSE [st EXCEPT !.events = Append(@, IniEvent(line, t, EqualsAt(t), Len(@), st.section))]

\* Line after line, in the section of the last header before it.
IniAfter(lines, n) ==
  LET after[i \in 0..Len(lines)] ==
        IF i = 0 THEN IniStart ELSE IniTurn(after[i - 1], lines[i])
  IN  after[n]

ParseIniEvents(text) ==
  LET lines == TextLines(text) IN IniAfter(lines, Len(lines)).events
=================================================================================

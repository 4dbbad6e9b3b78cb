# LogHarbor in TLA+

LogHarbor (C++17) parses local logs into events, keeps them in a store file,
filters the stored events with a query language, and decodes chunked or rotated
streams. This directory models the parts of it that keep state or compute
something hard to get right, checks them with TLC, and proves with TLAPS, for all
values of the constants: the safety of the record store and the answers it gives,
by pages and by bytes, and that the second implements the first; what a load makes
of a cut or damaged file, or of one that several processes have open; the byte
reader; the stream decoder, its messages and its segments; what logindex stores and the
ids it gives; varints, calendar and stamps.

Paths below are relative to the repository root.

## 1. The system

| Component | State | Operations | Interacts with | What is hard | What makes it correct |
|---|---|---|---|---|---|
| `RecordStore` (`src/index/store.cpp`) | `events_`, the store file | append, erase_id, live_events, stats, save, compact, load | logindex writes, logquery reads, maybe at the same time | truncating save, lost writes, crashes, tombstones | a cut file gives a prefix; a finished save is replayed; erased records stay erased |
| varints and records (`store.cpp`) | none | encode/decode_varint, serialize/deserialize_event | save and load | carries, cut and over-long varints, sizes that wrap, the field limit | decoding inverts encoding, a cut is refused |
| `StreamDecoder` (`src/stream/decoder.cpp`) | `pending_`, `current_source_`, `sequence_` | feed, finish, reset; split_rotated_segments, reconstruct_messages | callers feed chunks | chunks that cut lines, headers, frames | output independent of the chunks; nothing lost or joined wrongly |
| line parsers (`src/ingest/parsers.cpp`) | none | parse_json_line, parse_web_access_line, parse_syslog_line, parse_mixed_lines | logindex, logscan | positions past the end, fall-through from parser to parser | lines do not influence each other |
| CSV and INI parsers (`parsers.cpp`) | section, ordinal | parse_csv_events, parse_ini_events | no tool calls them | quoted newlines, the event's own time | a row that was exported is read back |
| events and export (`src/ingest/event.cpp`) | the event | field, set_field, to_json, to_csv_row | logquery and logscan print, the parsers read | escapes | an exported event is read back |
| query (`src/query/query.cpp`) | position in the tokens | lex, parse, eval, filter | logquery | precedence, where a token ends | a query selects what it says |
| logindex (`tools/logindex.cpp`) | the store, the file in hand | parse each file, append, save | parsers, store | one bad line or file among many | the store holds every valid line |
| logquery (`tools/logquery.cpp`) | the loaded store | load, filter, print | store, query | stores another process writes | answers are of the saved events |
| logscan (`tools/logscan.cpp`) | none | parse, print | parsers, export | as the parsers | as the parsers |
| logredact (`tools/logredact.cpp`), rule catalog (`src/core/rule_catalog.cpp`) | the text | a sequence of replacements | catalog of keys | each works on the others' output | no secret is left |
| `ByteSlice`, `ByteReader`, `ByteWriter` (`src/core/slice.cpp`) | position | reads, skip, read_until | unused | failing reads that move | never outside the slice |
| time (`src/core/time.cpp`) | none | parse and format, civil days | parsers, export | zones, ranges | formatting inverts parsing |
| strings, checksums, results (`src/core`) | none | helpers | everything | | |

A process does one thing at a time: there are no threads, no locks and no
callbacks. Concurrency comes from outside, from two processes on one store file
and from the end of a process at any moment.

## 2. Modules

| Module | Models | Built on |
|---|---|---|
| `RecordStore` | the store by whole pages: the specification of what store and file promise | |
| `Recursion` | induction over numbers, division, loops, sequences of sequences, functions by rank: what the proofs about recursive functions rest on | `TLAPS` |
| `RecordStoreProofs` | its theorems | `RecordStore`, `Recursion` |
| `Varint` | the two varint functions | |
| `EventCodec` | the two record functions | `Varint` |
| `StoreImage` | the bytes of a store file, and what a whole load makes of any bytes | `EventCodec` |
| `StoreImageProofs` | what is read back of records, pages, images, cut and damaged ones | `StoreImage`, `Recursion` |
| `StoreFile` | the store byte by byte, implements `RecordStore` | `StoreImage`, `INSTANCE RecordStore` |
| `StoreFileProofs` | its theorems, the refinement among them | `StoreFile`, `StoreImageProofs` |
| `SharedStore` | one file that several saves and a load have open at once | `StoreImage` |
| `SharedStoreProofs` | its theorems | `SharedStore`, `StoreImageProofs` |
| `ByteReader` | writer, slice and reader | |
| `StreamDecoder` | the decoder and the two functions on its input and output | |
| `ReaderProofs` | the theorems of both readers | `ByteReader`, `StreamDecoder`, `Recursion` |
| `LineParsers` | the three line parsers | |
| `LogIndex` | the main loop of logindex with parse_mixed_lines | `LineParsers` |
| `FlatJson` | to_json and the pairs parse_flat_json_object takes | `LineParsers` |
| `TextEvents` | field and set_field; CSV rows and INI entries, out and in | |
| `RuleCatalog`, `Redact` | the table of rules; the replacements of logredact | |
| `CivilTime` | day numbers, stamps, the clock's range | |
| `Query` | lexer, parser, evaluation | |
| `ToolProofs` | the theorems of the tools: what logindex stores under which ids, the message of a syslog line, and what a query selects | `LogIndex`, `Query`, `Recursion` |
| `MCFunctions` | every input up to a length for the modules of functions | `StoreImage`, `CivilTime`, `TextEvents`, `FlatJson`, `Redact` |
| `FunctionProofs` | theorems about varints, damaged images, calendar, stamps, CSV tables, INI entries, JSON members and redaction | `MCFunctions`, `StoreImageProofs` |
| `MC...` | values for TLC's constants | the module it is named after |

Definitions that start a comment with "Mutant of" are faulty variants of a
definition, kept to show that each property can fail.

### RecordStore

`events` is `events_`, `result` the `ErrorCode` of the last load. A `save` is one
call in the code; here `SaveOpen` truncates the file, `WriteHeader`,
`WriteLength` and `WritePage` let the image reach the file, `WriteFails` turns
the stream bad, and `SaveReturn` closes it and returns success. `compact` first
copies the live events one by one (`CompactBegin`, `CompactScan`), then saves the
copy (`CompactOpen`), or fails to open the path (`CompactRefused`; for `save` that is
no step). `Restart` is the end of the process at any point; it loses
what is in memory. `job` is the call that runs. `file[path]` is what an open of
the path would read at that moment, by its own process or another. Of a cut file
the model keeps what `load` can tell apart: whether the header is whole, the
whole pages, and whether the bytes after them stop inside a length (`bad varint`)
or later (`short page`). `Load` is one step here, since nothing else can change
what it works on; `StoreFile` has it page by page. The fields of an event are
their number, because fields are read back in the order they were written and
only the limit can change them. `lastSave` and `answer` are history variables:
the image of the last call to each path and what `live_events()` was then.

### Varint, EventCodec, StoreImage, StoreFile

A byte is a digit of base `Base` (128), plus `Base` when another follows; `Groups`
is the number of bytes a 64-bit word takes, `WordSize` is 2^64, and additions
that the code does in `std::size_t` are taken modulo `WordSize`. `StoreFile` has
the actions of `RecordStore` with the writing by bytes (`WriteByte`) and `load` by
turns of its loop (`LoadOpen`, `LoadPage`, `LoadEnd`; `LoadMove` is what a turn
does to the position and the result). A record has its tombstone byte, one string
and the fields, each a key and a value: the kind byte and the other strings and varints
go through the same code, and one key and value stand for all. A length so large that
its sum with the position wraps passes the test for the end of the record or of the
file. No string and no vector can be that long: their constructors throw `length_error`,
which nothing catches. That is the outcome `thrown` of a string, a field and a record,
`PageThrows` of a page, and a load with the result `"length_error"` has been left so; the
process ends there. The checksum is some bytes that are written and skipped, as in the
code. `LoadTurn` is one turn of the loop of `load`, `LoadBytes` the whole of it,
used where a load is one step. The refinement mapping gives `RecordStore` the file as `FileOf`: the bytes
are the first ones of the last image (`DiskIsCut`), so their number says how many
pages are whole. A load takes effect, for `RecordStore`, when it has read the
file, so that `events` and `result` are mapped to what it will return.

### SharedStore

The processes that have one store file open: `Writers`, each of which saves once,
and a reader, which loads once. Nothing in the code keeps them apart. `SaveOpen`
truncates the file under everybody; `WriteSome` sends any number of the bytes
that are left, at the writer's own offset (`Overwritten`: a gap that a truncation
has left before the offset reads as zeros); `SaveReturn` closes. `ReadSome` takes
any number of bytes at the reader's own offset from the file as it is then,
`ReadEnd` finds no more and decodes what was read. `alone`, `shared`, `calm` and
`last` are history variables that say who had the file open together. Writes that
fail belong to `StoreFile`.

### ByteReader

`bytes` is first what `ByteWriter` has written and then the buffer that is read
through `view` (`slice_`) at `pos`. `sub` and `read_slice` go on with a slice of the
slice. `Lengths` holds what a caller may ask for, up to the largest word. `got` is a
history variable: for every offset of the slice before `pos` the byte the caller
was given, or `Lost`; `touched` is the part of the buffer that was looked at. A
read that fails leaves everything as it is and is no step, except `read_until`,
which moves.

### StreamDecoder

Text is a sequence of lexemes, markers and numbers being one each. `Feed`
appends a chunk to `pending` and decodes every complete line (`DecodeLine`:
`Chomp`, header, continuation, `Unframed`), `Finish` and `Reset` are the code's.
`Segments` and `Messages` are `split_rotated_segments` and `reconstruct_messages`;
a message is kept as the payloads it is joined from. `frames` collects what
`feed` and `finish` return, `input` is a history variable. Each loop of the code is
a recursive function (`CutTo` the search for newlines, `DecodeTo` the lines of a feed,
`SegmentsTo` the lines of `std::getline`, `MessagesTo` the frames) whose turn is an
operator of its own. The names of the specification say `Decoder`, so that
`ReaderProofs` can extend this module beside `ByteReader`.

### LineParsers, LogIndex

A line is a sequence of lexemes. The parsers are operators that give an outcome:
accept, reject, or throw, where `std::string::substr` gets a position past the
end. Their positions count characters before, as in the code. The loop of
`parse_flat_json_object` ends where no name begins (`PairsEnd`) and is left by the
exception behind a name without a closing quote (`NameOpen`); `NextPair` is where a turn of
it leaves the position, and `ThrowsFrom` which of the two ends it comes to. `LogIndex` has the
loop over files (`OpenFile`, `SkipUnreadable`, `EndFile`, `SaveStore`) and the loop
over lines (`ReadLine`); an exception that nothing catches ends the program
(`aborted`). `stable_id` hashes source, ordinal and line: here an id is that
triple, so that only equal triples collide.

### TextEvents, FlatJson

Texts are sequences of characters, of which those that mean something to the
formats are told apart. `ParseCsvRecord` and `ParseIniEvents` go over their input
as the code does, with the same state. A time stamp is a text that is in
`TimeTexts` or is not. `JsonPairs` uses the loop of `LineParsers` and adds what it reads:
`PairAt` is the pair of a turn, `PairsFrom` those of all turns, and `ReadFrom` the outcome,
which is these pairs or the exception and none.

### RuleCatalog, Redact

The table has 39 rows written by hand and 10,500 rows that follow a formula in
their number; `Generated` is that formula, which was compared with every row of
the source. `RedactKey` is what `regex_replace` does with `(key)=([^ \t,&]+)`. It
works on words: keys are sequences of words, since one key is the end of another
(`cookie` of `set_cookie`), which is what makes the order of the replacements a
question. `RedactAtOnce` is the reference: the keys of the table in one pass. That no
key has an equals sign in it or what ends a value is `KeysAssumption`.

### CivilTime

The code's integer divisions round towards zero, and every one of them is either
of a number that is not negative or corrected for the sign; the model's `\div`
rounds down. A stamp is the record of its numbers. `Leap`, `MonthLength` and
`NextDate` are the calendar the code is checked against, not a part of it.

### Query

`Lex`, `Parse` and `Compare` are the code's, on lexemes. `Parse` gives for each
rule and position the set of events that the parsed expression selects and the
position after it: `expr` and `conj` loop in the code and recurse here. The
variable `query` is no state of the program: its actions build queries together
with the events they mean to select, which is the reference the code is checked
against.

`LexTurn` is one turn of the loop in `lex`, and `ParseTurn` one call of `primary`, `conj` or
`expr`; each takes what the later turns give as an argument, and `LexFrom` and `ParseFrom`
close the recursion. `Lexemes` are what texts are made of, `Numbers` the lexemes that
`parse_i64` reads. `QueryAssumption` says which comparisons are meant: the field is a word
and no keyword, the value is a word or holds a blank and then stands in quotes, and each
event gives a text for each field (`Event::field` gives the empty one for an unknown name).

## 3. Runs

Deadlock is checked in every run that does not say otherwise.

| Run | Checks | Bounds | States |
|---|---|---|---|
| `record_store` | `TypeOK`, `TornFileIsPrefix`, `AnswerIsPrefix`, `FinishedSaveReplays` | 2 ids, 3 events, 1 path, field limit 1 | 2.1 million |
| `store_file` | `TypeOK`, `DiskIsCut`, `LoadAligned`, `ImplementsRecordStore`, `LoadFinishes`, `SaveFinishes` | 2 events, base 5, words below 64, field limit 1 | 290,000 |
| `shared_store` | `TypeOK`, `BytesKeepOffset`, `CalmReadIsCut`, `CalmLoadIsPrefix`, `SameSavesAgree`, `GrowingStoreLoads` | 2 writers, 1 reader, 3 batches of up to 2 events | 840,000 |
| `functions` | `EncodeInvertsDecode`, `CutVarintRefused`, `DecodingIsFinal`, `DamageStaysInRecord`, `CsvRowReadBack`, `CsvEventsReadBack`, `IniEntriesReadBack`, `JsonMembersReadBack`, `RedactionAtOnce`, `StampsReadBack`, `CivilDatesFollow` | all inputs of 5 symbols (JSON 4, events 3) out of 2 to 8; 150,000 days | 223,000 |
| `byte_reader` | `TypeOK`, `ReadsStayInside`, `ReadsTileInput` | 4 bytes of 3 values, widths 1 and 2, words below 32 | 46,000 |
| `stream_decoder` | `DecoderTypeOK`, `ChunkingIsInvisible`, `SegmentsDecodeAlone`, `FramesCarryTheirLines`, `MessagesKeepPayloads` | 7 lexemes, 11 chunks, words below 16 | 984,000 |
| `log_index` | `IdsCollideOnlyOnReindex`, `StoreHoldsValidLines`, `SyslogMessageIsRest` | 2 files of up to 2 lines out of 9, 2 arguments | 321,000 |
| `query` | `SelectsAsMeant` | 7 comparisons, 16 events, texts that grow from up to 14 lexemes | 24,000 |

What they show, and why the bounds are enough:

- **record_store.** Three events and two ids give erased, kept and duplicate
  records in every order, before and after each page; one record has more fields
  than the limit and one has not. Paths do not interact, so one is enough for TLC;
  the proofs are for any set of paths. `AnswerIsPrefix` says that an answer taken
  from any cut of the file is a prefix of the answer at the time of the call:
  tombstones travel with their records, and compacting changes no answer.
- **store_file.** The record of one draft has a length of one byte, that of the
  other of two, and the texts hold bytes that look like lengths and like
  continuations. With 2 events the file of an earlier save is longer than, equal
  to and shorter than the next. `ImplementsRecordStore` is `RecordStore!Spec` under
  the mapping; it is what carries the theorems about pages over to the bytes.
- **shared_store.** Two writers are enough for a truncation under a running save,
  a hole, and saves of which one is the beginning of the other; every cut of the
  bytes into writes and reads occurs. `BytesKeepOffset` says what the worst
  interleaving can do: splice saves, never move a byte. The other properties say
  what saves that overlap in time, or a load beside them, still give: the load
  beside one save a prefix of it, two runs over the same logs the index that each
  of them wrote, and runs over logs that grow, one after the other, a prefix of the
  longest even for a load that reads on over a truncation. Nothing better holds:
  splices of different saves do decode to events nobody saved. A killed process is
  one that takes no further step (`CHECK_DEADLOCK FALSE`: all of them end).
- **functions.** The state is the input, which grows by a symbol of its alphabet.
  *Varints*: every byte string, over-long and cut ones included; base 3 has the three
  cases of a digit (zero, in between, highest), and four groups exceed the words
  below 54, so that digits past them are dropped, as bits past the 64th are.
  *Damage*: every other value at every byte of every record and checksum of a file
  of up to three events; the lengths of pages are left alone, since a damaged one moves
  everything behind it. Lengths of strings are damaged too: one becomes shorter or longer,
  goes past the record, or, with the bytes of the string behind it as further digits, so
  large that the sum wraps and load throws. *CSV, INI, JSON*: every text of a cell, key,
  value, section or message; parts of an input stand for several of them. Lines of JSON
  that leave the reader by its exception are among them, from a single comma as a field
  on. *Redaction*: a table cut
  after 20 generated rows, in which `cookie` and `set_cookie` are. *Time*: a day of 8
  seconds and hours of 4 keep the numbers within TLC's; the windows of days are all
  of a cycle of four centuries (from 1769 to 2171), and those around the year 0,
  the year 9999 and the ends of the clock (`CHECK_DEADLOCK FALSE`: inputs stop
  growing).
- **byte_reader.** Lengths lie within, just past and far past a slice, up to the
  largest word; two bytes suffice for an order of bytes, four for a slice of a slice
  that neither begins nor ends where the buffer does.
- **stream_decoder.** All sequences of small chunks up to the bound: headers,
  carriage returns and frames cut at each lexeme, feeds after a finish and after a
  reset. Seven lexemes hold a line before a whole header, or a header and a line of
  its segment, and a LEN frame with text behind it; 14 is a size at which the
  position wraps in words below 16. `ChunkingIsInvisible` and
  `FramesCarryTheirLines` compare the frames with the whole input, in which chunks
  do not occur; the undecoded last line that `finish` returns is part of that
  description.
- **log_index.** Lines that each parser accepts, that all of them reject, that
  are blank, and that make two of the parsers throw, in every order of two, in
  files given once, twice, or not readable (`CHECK_DEADLOCK FALSE`: the program
  ends).
- **query.** Chains and nestings of `not`, `and`, `or` and parentheses around
  comparisons with and without blanks and quotes, on events that tell the
  comparisons apart (`CHECK_DEADLOCK FALSE`: texts stop growing at the bound).

Four runs expect a violation. Each states what the documentation or a test says
and TLC finds a behaviour of the code that differs:

| Run | Property | What happens |
|---|---|---|
| `log_index_survive` | `ValidLinesSurvive` | one malformed line ends logindex, nothing is saved |
| `log_index_access` | `AccessLinesAreAccess` | common access lines are taken for syslog: `tests/ingest/ingest_tests.cpp` fails |
| `query_not_equals` | `NotEqualsSelects` | `status!=200` selects the events whose status is 200 |
| `csv_timestamp` | `CsvTimestampsKept` | the time of an imported CSV event is always the epoch |

`SelectsAsMeant`, `StoreHoldsValidLines` and `FinishedSaveReplays` say what does
hold beside them: the queries that use neither, the runs that reach the save, and
the saves that lost nothing.

More limits are part of the models, and of the properties that hold. A save whose
writes are lost (`WriteFails`) returns success as any other, so that
`FinishedSaveReplays` is about saves that lost none. A comparison orders integers
only, which no timestamp is: `time>=2024-01-01T00:00:00Z` selects nothing, though
the repository's README speaks of time-shaped predicates. Texts exported as JSON
are read back with their escapes, and a comma or a brace in the first field of an event
can make the reader leave its line by an exception (`JsonMembersReadBack` says for which
fields it cannot). Fields beyond the 100,000th are dropped by a load
that succeeds (`FinishedSaveReplays` compares with `Decoded`, not with the events), and
`finish` returns a last line without newline undecoded, even when it is a header, a
continuation or a frame.

## 4. Fairness

The other modules have no fairness and no liveness property: what they could
promise to finish is a loop over a finite input. `StoreFile!FairSpec` adds weak fairness to the steps of a running `save`
or `compact` and to those of a running `load`. They are straight-line code that
never waits for anything: a step that is possible is taken. No fairness is
assumed of callers, of failures or of restarts. `LoadFinishes` then says that the
loop of `load` ends for every file the store can leave behind, `SaveFinishes` that
`save` and `compact` return, also when the writes are lost.

## 5. Proofs

No proof uses that anything is finite, but for sequences.

**Induction.** The induction theorems of the library take operators as parameters, which
the provers cannot instantiate. `Recursion` states induction over the numbers with a
set instead (`SetInduction`, `StrongInduction`: a set of numbers that is not all of
them leaves out a least one, from the well-foundedness of `<`), and that there is a
function which obeys a recursive equation over some rank (`RecursionExists`), or the
equation of a loop (`LoopExists`). With these a recursive function of a module is shown
to be defined, unfolded one turn at a time, and reasoned about by induction over its
turns: `LiveStep`, `ShiftStep`, `LeStep`, `ImageStep`, `ValidStep`, `FilesStep`, `CutLoop`
and `DecodeLoop` are such lemmas. The loops of the code that are proved about are written
as functions for this reason, and not with `SelectSeq` or `FoldLeft`; the one fold proved
about, that of the redaction over its keys, is unfolded by a lemma of its own (`FoldIs`). Of `FlattenSeq`,
which the properties of `StreamDecoder` use, `FlattenAppend` says all that is needed.

**`RecordStoreProofs`**, for all constants that satisfy `DraftsAssumption` (drafts are
live events), `FieldLimitAssumption`, `NoFileAssumption` and `NoJobAssumption` (the two
null values are no files and no jobs):

- `TypeCorrect`: `Spec => []TypeOK`. `TypeOK` holds that a running write has its
  file, without which its steps would not be defined. It is inductive.
- `TornFileIsPrefix` alone is not inductive, and is proved from `StoreInv` (`StoreSafe`):
  `WritePage` appends a page of `job.image`, which has to be the image the file
  is compared with, and `FinishedSaveReplays` needs that no later step writes to the
  file of a call that returned. `StoreInv` adds these: a running write works on
  the image of the last call to its path and has not returned, and a returned
  call that lost no write left the file whole. One step per action; `PathUntouched`
  deals with the paths an action leaves alone, `PrefixGrows` with a page that
  becomes whole.
- `TornFileIsPrefixHolds` and `FinishedSaveReplaysHolds` follow from `StoreInv`; the second
  needs that a prefix with as many elements is the sequence itself.
- `AnswersKept`: `Spec => []AnswerInv`, that the live events of an image are what
  `live_events` was when the call began. It is not inductive without what a compact has
  done so far: the copy holds the live ones of the events it has passed. The step that
  begins to write the copy then needs that dropping tombstones twice changes nothing
  (`AllLive`).
- `AnswerIsPrefixHolds`: with `StoreSafe`, what is decoded of a cut file is decoded
  from a prefix of that image, and its live events are a prefix of the image's
  (`DecodedAnswer`; a tombstone is in its own record, not in a later one).

**`StoreImageProofs`**, from the assumptions of `Varint`, `EventCodec` and `StoreImage`,
about any events and any bytes:

- `RecordReadBack`: a record, wherever in a file it lies, is decoded to its event up to
  the field limit. It rests on the value of the digits that `encode_varint` writes
  (`EncodedDigits`) and on the sizes adding up within the word.
- `PageReadBack`: a turn of the loop that begins where a page begins takes that page.
- `CutReadBack`: what a load makes of any cut, at any byte: the events of the whole
  pages, with success or the error that the place of the cut gives. `ImageReadBack` is the
  case of the whole image. The turns of `LoadBytes` are followed by induction
  (`LoopRuns`), and a page cut anywhere is shown to be found too short or to have no
  length.
- `DamageReadBack`: with any one byte of a record or checksum replaced, a load succeeds,
  gives the records before and behind as they were saved, and at most loses the damaged
  one; but when a string of the damaged record throws, the load throws, with the records
  before it. The lengths of the pages still stand (`Undamaged`), so every turn begins where
  it did.

Images are assumed to be shorter than the word, as every string in memory is. Above it
the code's own additions wrap.

**`StoreFileProofs`**, from `StoreFileAssumption` and `ImagesAssumption` (the images of up to
`MaxEvents` events are shorter than the word; null values are apart):

- `Invariant`: `Spec => []IInv`, whose parts are `TypeOK`; `BoundInv`; `DiskInv`, of which
  `DiskIsCut` is the claim; `WriteInv`, that the bytes still to be written are those of the
  image behind what is at the path; and `LoadInv`, that a running load has taken a
  number of whole pages and stands where the next one begins. `PageTurn` says what a turn of
  the loop finds there, from `PageReadBack` and `CutReadBack`.
- `TypeCorrect`, `FileIsCut` and `LoadStaysAligned` follow.
- `Implements`: `Spec => ImplementsRecordStore`. One lemma per action
  (`SaveMaps`, `ByteMaps`, `LoadMaps`, ...): a byte that completes the header, a
  length or a page is `WriteHeader`, `WriteLength` or `WritePage` of `RecordStore` and any
  other is a stutter (`GrowthMaps`); a load is `Load` when it has read the file, and its
  turns are stutters, since from every position it will return the same.

By `Implements` what `RecordStoreProofs` proves of the pages holds of the bytes.

**`SharedStoreProofs`**, for any set of writers and of batches and any cutting of the
bytes into writes and reads, from `SharedAssumption` (a hole is a byte, no file is not
a file) and `ImagesAssumption` (images are shorter than the word): `TypeCorrect`,
`BytesKeepOffsetHolds`, `CalmReadIsCutHolds`, `SameSavesAgreeHolds`,
`CalmLoadIsPrefixHolds`, `GrowingStoreLoadsHolds`. The inductive invariant `Inv` adds to
what is claimed:

- `Sending`: a writer sends the image of its events and has sent a part of it;
- `LastAlone` and `ReadCalmly`, for the third theorem: a file that the last writer
  opened alone is what that writer has sent, and a calm reader has a part of that;
- `SavesConverge`, for the fourth: the invariant that makes it true is that at each
  offset the file either has the byte of the common image already, or some writer
  is still to come to that offset (`Due`). A truncation takes bytes away, but the
  writer that truncates is itself to come to every offset; a hole lies before a
  writer that was overtaken, and the one that overtook it has still to pass there.

The last two theorems are about what is decoded and need `LoadedInv` besides: `Decoded`, and
`NoHoles`, that as long as saves do not overlap every byte, in the file and in the
reader's hands, was sent by some save. Images of logs that grow agree wherever both
have a byte (`ImagesAgree`), so that what a reader pieced together from several of them
is a cut of one, and `CutReadBack` applies. `OverwrittenBytes` says what a write leaves
at each offset, `WriteEffect` and `ReadEffect` what a step of a writer or reader changes.

**`ReaderProofs`**, of the byte reader, from `ReaderAssumption` alone: `ReaderTypeCorrect` and
`StaysInside`. The invariant adds that nothing has been read while the buffer is being
written. That the test of `sub` subtracts where it could add is what the proof of
`ViewInside` rests on: with the sum, which wraps, `InsideWrapped`, it fails. `LeReadBack`:
`write_leN` of the value of any bytes writes these bytes. `ReadsTile`: every byte before the
position was handed out in its place or lost; a read of a number is told by its bytes,
which is where `LeReadBack` is needed (`ReadLeKnown`), and a slice of a slice starts the
account anew (`TileAnew`).

**`ReaderProofs`**, of the stream decoder, for any chunks, numerals and word, from
`StreamAssumption` (chunks are texts without the mark that stands for an end of input, no
line is as long as the word): every property of the run.

- `DecoderInvariant`: `DecoderSpec => []DecoderInv`. The properties alone are not inductive:
  what a feed returns depends on `pending_`, which they say nothing of when lines are
  complete. `DecoderInv` holds that `pending` is the rest of the whole input, and that name,
  number and frames *fit* its lines (`Fits`). The step is `FeedKeeps`: the cut of the
  input and the cut of the text at hand go on lexeme by lexeme and agree after each
  (`Agree`, `AgreeStep`), so that a chunk may end anywhere. `FitsLine` is one line that
  feed decodes, `FitsLast` the one that finish returns.
- `DecoderTypeCorrect`, `ChunkingIsInvisibleHolds` and `FramesCarryTheirLinesHolds` follow. For
  the last one `FrameTextCarries` goes through the addition that may wrap.
- `MessagesKeepPayloadsHolds`: frame by frame (`AddFrameIs`, `MessagesKeep`), with the count of
  messages that are begun and with "no message yet" being "only headers so far".
- `SegmentsDecodeAloneHolds`, for any text: a text is its lines with their newlines and a rest
  (`CutBack`), those lines are found in it again (`CutJoined`), segments only group them
  (`SegmentsJoin`), and a decoder that begins with a segment is, at its end, under the name
  that a decoder of the whole text is under (`SplitDecodes`). That every line which starts
  like a header is one is needed in one place, where the new decoder has to take its
  name from the segment.

**`FunctionProofs`** is about the functions of `MCFunctions`, whose inputs grow by any symbols:

- `EncodeInvertsDecodeHolds`, `CutVarintRefusedHolds`, `DecodingIsFinalHolds`, from
  `VarintAssumption`, for byte strings of any length: a varint has one length at most,
  and digits without an idle high one are those of their sum (`WholeIsEncoded`).
- `DamageStaysInRecordHolds`, from `DamageReadBack` and `FunctionsAssumption` (the images of
  the run are shorter than the word; TLC evaluates that).
- `DaysCount`, `DaysInvert`, `DatesInvert`, `CivilFollows`, for every integer and every
  valid date, from no assumptions: `days_from_civil` counts the days of the calendar, and
  it and `civil_from_days` are inverse to each other. `EraYear` splits the estimate of
  the year in a cycle of four centuries by its century and the year in it.
- `StampReadBack` and `StampsReadBackHolds`, from `TimeAssumption` (minutes divide hours and
  hours days, the range of the clock is even): a stamp is read and written back if and
  only if its second is in the clock's range. Outside it the clock wraps by a whole
  number of turns (`WrapTurns`), so that what is read is another second; and a stamp
  determines its second (`StampUnique`).
- `CsvRowRead` and `CsvRowReadBackHolds`, from no assumptions, for rows of one cell or more of
  any characters: `CsvAfter`, the loop of `parse_csv_record`, is followed over the text of a
  cell as it is written, plain (`PlainCell`) or with its quotes doubled (`DoubledCell`), where
  a quote looks ahead; what comes behind a cell is a comma or nothing, and so never the
  second quote of one that closes (`EscapedCell`).
- `TableReadBack` and `CsvEventsReadBackHolds`, from no assumptions, for tables of any number of
  rows and of two columns or more, whose names are all different and none of those that `field`
  answers itself (time, kind, id): a table written row by row with blank lines between is
  read as one event for each row. Cells have no newline (`Newline \notin C`): one in quotes
  would be cut. `LinesRead` is `std::getline` over the text, `TableRead` the loop over its lines,
  `RecordRead` that over the cells of a record, where a name set later leaves those before it
  alone (`SetFieldHas`). A row of one cell could be blank, and would be passed over.
- `EntryTurn`, `EntriesRead` and `IniEntriesReadBackHolds`, from no assumptions, for sections,
  keys and values of any length and characters without newlines. A key has no equals
  sign, a value may have some: `EntryTurn` cuts the line at the first. What trimming leaves
  is a stretch of the text (`TrimmedSpan`), and the same stretch with blanks around it
  (`SameSpan`, `Padded`); so a line is an entry, and no header or comment, by what its two
  sides are trimmed (`Entries`). `HeaderTurn` and `OtherTurn` are the other lines, `IniLoop`
  the loop over them all.
- `MembersRead`, `FieldsAreMembers` and `JsonMembersReadBackHolds`, from no assumptions, for events
  with any number of members and fields and for texts of any length and characters. The
  first says what is read of the members of a line that is not left by the exception, the
  second that no line is left by it whose first field has no comma and no brace in it, and
  what is read of the fields then. That
  an escaped text is read to its closing quote and no further is `EscapeSkipped`: after each of
  its characters the search for the quote stands where the next one begins, even if that
  is an escaped quote or the last backslash. `ObjectIs` says where the members stand in an
  object, `MemberRead` that the loop takes one of them and stops behind it, `RunRead` that
  it takes them one after the other, and `RunThrows` that it is left by the exception in front
  of them if and only if it is behind them. `FieldsName` and `FirstHides` are the nested object,
  which the parser takes for a value without quotes: the value ends at the first comma or
  brace, and that is the one behind the first field unless this one holds some itself
  (`Hidden`). Then the other fields are members, and behind the last of them the loop ends
  (`OthersRun`).
- `KeysAtOnce` and `RedactionAtOnceHolds`: to replace the values of the keys one after the
  other is to replace them all at once. `KeysAtOnce` is from no assumptions, for texts of
  any length and any keys in any order, of which one may be the end of another, as long
  as none has an equals sign or a separator in it. What a pass makes of a text is told by
  the positions it hides (`Masked`; `PassMasks` says that the loop does this). The text
  that a pass leaves is, before each equals sign and back to the last separator, what it
  was (`CoveredSame`), so a second pass hides in it what it would hide in the first text
  (`MaskMore`); `FoldIs` goes over the keys. `RedactionAtOnceHolds` is from `KeysAssumption`,
  which says of the table's keys what `KeysAtOnce` asks: the provers know nothing of the
  `SelectSeq` that takes them from the table, so TLC evaluates it, on the table of the run
  (59 rows), and it was evaluated once for the whole table (`GeneratedRows = 10500`).

**`ToolProofs`**. The three theorems about logindex are for any names, contents and number of
arguments, from `LogIndexAssumption` and `ContentsAssumption` (a content is a sequence of
lines). The first two say nothing about what the parsers accept: an outcome is whatever
`MixedOutcome` gives. The third is about the syslog parser.

- `IdsCollideOnlyOnReindexHolds`. The property alone is not inductive. `Numbered` adds
  that the events in hand carry their place as ordinal, `FromDone` that a stored event
  is of a file that is done, so that a new and an old event of one name are of two
  arguments, and `Apart` is the property over name and ordinal alone.
- `StoreHoldsValidLinesHolds`. `Filled` is the property at every moment: the store is of
  the files that are done, the events in hand are of the lines that were read.
- `SyslogMessageIsRestHolds`, from `LinesAssumption` too (lines are sequences of strings,
  any strings, of any length). `Inv` gives every event the line it was made of, so the
  property is one of `SyslogOutcome`. `WordAt` says where in the line its fifth word stands,
  with nothing but the first four before it (`Covered`). The search for the text of that word
  ends there or earlier (`FirstPlace`); what follows has, trimmed, the words that the line has
  from there on (`WordsOfTrim`, `WordsOfPart`), and these end with those behind the fifth word
  (`LaterWords`). An earlier place has no blank in it, so it is inside one of the first four words.

The one about queries, `SelectsAsMeantHolds`, is from `QueryAssumption`, for any lexemes,
events, numbers, comparisons and texts of any length:

- The property is not inductive. That a text selects the right events as a whole query says
  nothing of what the parser makes of it inside a longer one: `a or b` selects what it means,
  and `a or b and c` does not select that and `c`. `QueryInv` therefore holds that a query
  which is not `tight` *reads* as it means at its level (`Reads`): there are tokens that
  `lex` makes of the text wherever the text comes up before a blank, a parenthesis or the end
  (`Lexes`), and wherever these tokens come up the rule of the level takes them, to
  select what is meant, and goes on with the operator behind them (`Primary`, `Conj`, `Expr`).
  `SelectsAsMeant` is the case of a text that is the whole query. `QueryInv` speaks of all
  texts and all token sequences, so TLC checks what it implies and not `QueryInv` itself.
- That `lex`, `unescape` and the three rules are defined at all, and obey their equations, is
  `LexIs`, `UnescapeIs` and `ParseIs`, by `FixedPoint` of `Recursion`: a recursion whose calls
  are of lower rank has a function that obeys it. The rank of a rule at a position is
  lower the further the position, and at one position that of `primary` is the lowest.
- `AtomLexes`: a comparison makes three tokens, with blanks and without, with quotes and
  without, unless its operator is `!=` without blanks: there the `!` goes to the word before it,
  which the run `query_not_equals` shows.
- `AndIs`, `OrIs`, `NotIs` and `GroupIs` are the grammar: which operands each rule joins, and
  what the joined tokens select. The queries grow on either side (`And` and `Or` put the new
  comparison first or last), so a chain of `and` may be grouped in any way.

Only model-checked:

- `LoadFinishes` and `SaveFinishes`: liveness under fairness, and `ENABLED`, are beyond the
  prover.

## 6. Not modelled

- Nine tenths of the source by lines are the rows of the rule catalog: 10,539 of
  11,340. They hold no behaviour; `RuleCatalog` models them by their formula and the
  one lookup a tool makes in them. The other three lookups have no caller.
- The composition of the tools end to end, from the lines of a log to the answer
  of a query: `LogIndex` ends where `RecordStore` begins, and `Query` begins where
  `RecordStore` ends, each with the events of the other.
- The other fields of parsed events (key values, percent decoding, severities), the
  scanning of stamps, month names, web and syslog stamps; email and IP patterns.
- Values of checksums and hashes, letter case, tabs (as blanks), the wording of
  diagnostics, `stats` and printing.
- A damaged length of a page, as a property: the model has what load does with it, an
  exception of a length near 2^64 included, but everything behind it may then be anything.

## 7. Plan

Done: the store (`RecordStore`, `StoreFile`), the store shared by processes
(`SharedStore`), `StreamDecoder`, `LineParsers`, `LogIndex`, `Query`, the functions
on texts, bytes and dates, `ByteReader`; the proofs of section 5.

What remains worth doing:

1. `LogTools`: `LogIndex` and `RecordStore` composed with a logquery, from the lines of
   the files to the answer, with a second logindex.
2. The other fields of parsed events, the lookups of the catalog, web and syslog
   stamps.

-------------------------------- MODULE LogIndex --------------------------------
(***************************************************************************)
(* logindex (tools/logindex.cpp): every file given is parsed line by line  *)
(* with parse_mixed_lines (src/ingest/parsers.cpp), the events of a whole  *)
(* file are appended to one RecordStore, and the store is saved at the     *)
(* end. What save does to the file is the business of RecordStore.         *)
(***************************************************************************)
EXTENDS LineParsers

CONSTANTS
  Names,       \* names of the files that may be given
  Contents,    \* contents a readable file may have: sequences of lines
  MaxArgs,     \* model bound on the files given
  Unreadable   \* a file that cannot be opened

ASSUME LogIndexAssumption == Unreadable \notin Contents /\ MaxArgs \in Nat \ {0}

\* All lines there may be; a content is a sequence of lines.
Lines == UNION {{c[i] : i \in 1..Len(c)} : c \in Contents}
ASSUME ContentsAssumption == Contents \subseteq Seq(Lines)

\* A line is a sequence of lexemes, which are strings here.
ASSUME LinesAssumption == Lines \subseteq Seq(STRING)

VARIABLES
  args,     \* the file names of the command line
  content,  \* [Names -> the lines of the file or Unreadable]
  phase,    \* "open": between files, "read": in one, "saved", "aborted"
  cur,      \* index in args of the current file
  pos,      \* lines of the current file that were read
  ord,      \* ord of parse_mixed_lines
  parsed,   \* its events
  store     \* events_ of the RecordStore
vars == <<args, content, phase, cur, pos, ord, parsed, store>>

Init ==
  /\ args \in UNION {[1..n -> Names] : n \in 1..MaxArgs}
  /\ content \in [Names -> Contents \cup {Unreadable}]
  /\ phase = "open"
  /\ cur = 1 /\ pos = 0 /\ ord = 0
  /\ parsed = <<>> /\ store = <<>>

\* base: the event and its id. stable_id hashes the source name, the ordinal and
\* the line; two events have the same id here when all three are the same.
Event(source, line, ordinal, outcome) ==
  [id |-> <<source, ordinal, line>>, kind |-> outcome.kind, message |-> outcome.message]

OpenFile ==
  /\ phase = "open" /\ cur <= Len(args)
  /\ content[args[cur]] # Unreadable
  /\ phase' = "read"
  /\ pos' = 0 /\ ord' = 0 /\ parsed' = <<>>
  /\ UNCHANGED <<args, content, cur, store>>

SkipUnreadable ==
  /\ phase = "open" /\ cur <= Len(args)
  /\ content[args[cur]] = Unreadable
  /\ cur' = cur + 1
  /\ UNCHANGED <<args, content, phase, pos, ord, parsed, store>>

\* Mutants of ReadLine: every event of a file gets the same ordinal; the line
\* after a rejected one is lost with it.
ReadLineSameOrdinal ==
  /\ phase = "read" /\ pos < Len(content[args[cur]])
  /\ LET line == content[args[cur]][pos + 1]
         outcome == MixedOutcome(line)
     IN  IF Trim(line) # <<>> /\ outcome.parse = "throw"
         THEN phase' = "aborted" /\ UNCHANGED <<pos, ord, parsed>>
         ELSE /\ pos' = pos + 1
              /\ IF Trim(line) # <<>> /\ outcome.parse = "accept"
                 THEN parsed' = Append(parsed, Event(args[cur], line, ord, outcome))
                 ELSE UNCHANGED parsed
              /\ UNCHANGED <<phase, ord>>
  /\ UNCHANGED <<args, content, cur, store>>
ReadLineSkipsNext ==
  /\ phase = "read" /\ pos < Len(content[args[cur]])
  /\ LET line == content[args[cur]][pos + 1]
         outcome == MixedOutcome(line)
     IN  IF Trim(line) # <<>> /\ outcome.parse = "throw"
         THEN phase' = "aborted" /\ UNCHANGED <<pos, ord, parsed>>
         ELSE IF Trim(line) # <<>> /\ outcome.parse = "accept"
         THEN /\ pos' = pos + 1 /\ ord' = ord + 1
              /\ parsed' = Append(parsed, Event(args[cur], line, ord, outcome))
              /\ UNCHANGED phase
         ELSE /\ pos' = Min({pos + 2, Len(content[args[cur]])})
              /\ UNCHANGED <<phase, ord, parsed>>
  /\ UNCHANGED <<args, content, cur, store>>

\* One turn of parse_mixed_lines: blank lines are passed over, a line that every
\* parser rejects takes no ordinal, and nothing catches an exception.
ReadLine ==
  /\ phase = "read" /\ pos < Len(content[args[cur]])
  /\ LET line == content[args[cur]][pos + 1]
         outcome == MixedOutcome(line)
     IN  \/ /\ Trim(line) = <<>> \/ outcome.parse = "reject"
            /\ pos' = pos + 1
            /\ UNCHANGED <<phase, ord, parsed>>
         \/ /\ Trim(line) # <<>> /\ outcome.parse = "accept"
            /\ pos' = pos + 1
            /\ ord' = ord + 1
            /\ parsed' = Append(parsed, Event(args[cur], line, ord, outcome))
            /\ UNCHANGED phase
         \/ /\ Trim(line) # <<>> /\ outcome.parse = "throw"
            /\ phase' = "aborted"
            /\ UNCHANGED <<pos, ord, parsed>>
  /\ UNCHANGED <<args, content, cur, store>>

EndFile ==
  /\ phase = "read" /\ pos = Len(content[args[cur]])
  /\ store' = store \o parsed
  /\ cur' = cur + 1
  /\ phase' = "open"
  /\ UNCHANGED <<args, content, pos, ord, parsed>>

SaveStore ==
  /\ phase = "open" /\ cur > Len(args)
  /\ phase' = "saved"
  /\ UNCHANGED <<args, content, cur, pos, ord, parsed, store>>

Next == OpenFile \/ SkipUnreadable \/ ReadLine \/ EndFile \/ SaveStore

Spec == Init /\ [][Next]_vars

-----------------------------------------------------------------------------
(* Properties.                                                             *)

\* A line some parser accepts, taken alone.
Valid(line) == Trim(line) # <<>> /\ MixedOutcome(line).parse = "accept"

\* Two records of a store have the same id only when they come from a file that
\* was given twice: within a file the ordinals tell equal lines apart, although
\* rejected lines take none. (erase_id erases one record of an id, not all.)
IdsCollideOnlyOnReindex ==
  \A i, j \in 1..Len(store) : i < j /\ store[i].id = store[j].id =>
    \E k, l \in 1..Len(args) : k < l /\ args[k] = args[l] /\ args[k] = store[i].id[1]

\* The valid ones of the first n lines.
ValidLines(lines, n) ==
  LET valid[i \in 0..Len(lines)] ==
        IF i = 0 THEN <<>>
        ELSE IF Valid(lines[i]) THEN Append(valid[i - 1], lines[i]) ELSE valid[i - 1]
  IN  valid[n]

\* Those of the first n of the files named.
LinesOfFiles(names, files, n) ==
  LET all[k \in 0..Len(names)] ==
        IF k = 0 THEN <<>>
        ELSE IF files[names[k]] = Unreadable THEN all[k - 1]
        ELSE all[k - 1] \o ValidLines(files[names[k]], Len(files[names[k]]))
  IN  all[n]

\* The events are those that the lines give, each on its own.
EventsOf(events, lines) ==
  /\ Len(events) = Len(lines)
  /\ \A i \in 1..Len(lines) :
       events[i].id[3] = lines[i] /\ events[i].kind = MixedOutcome(lines[i]).kind

\* Lines do not influence each other: what is saved is, file after file and line
\* after line, what each valid line gives on its own, whatever stands between.
StoreHoldsValidLines ==
  phase = "saved" => EventsOf(store, LinesOfFiles(args, content, Len(args)))

\* The message of a syslog line is the words after its tag, the fifth word, when
\* that is the first place where the text of the tag occurs; otherwise it starts
\* earlier, and still ends with them.
SyslogMessageIsRest ==
  \A i \in 1..Len(parsed) : parsed[i].kind = "syslog" =>
    LET w == Words(parsed[i].id[3])
        rest == SubSeq(w, 6, Len(w))
        message == Words(parsed[i].message)
    IN  /\ IsSuffix(rest, message)
        /\ (\A k \in 1..4 : w[5] \notin SubSeqs(w[k])) => message = rest

\* README.md:64: parsers reject malformed inputs without losing valid adjacent
\* records: when logindex is over, the valid lines of its files are in the store.
ValidLinesSurvive ==
  phase \in {"saved", "aborted"} =>
    \A k \in 1..Len(args) : content[args[k]] # Unreadable =>
      \A n \in 1..Len(content[args[k]]) : Valid(content[args[k]][n]) =>
        \E i \in 1..Len(store) :
          store[i].id[1] = args[k] /\ store[i].id[3] = content[args[k]][n]

\* tests/ingest/ingest_tests.cpp:3 asserts that an access log line, with a blank
\* between its time and its request, is accepted by the web access parser.
IsAccessLine(line) ==
  /\ Len(line) >= 11
  /\ SubSeq(line, 7, 11) = <<"[", "time", "]", "sp", "quote">>
AccessLinesAreAccess ==
  \A i \in 1..Len(parsed) :
    IsAccessLine(parsed[i].id[3]) => parsed[i].kind = "web_access"
===============================================================================

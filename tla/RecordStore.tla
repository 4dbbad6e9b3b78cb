----------------------------- MODULE RecordStore -----------------------------
(***************************************************************************)
(* index::RecordStore (src/index/store.cpp) and the store files it writes, *)
(* at the granularity of record pages.                                     *)
(*                                                                         *)
(* One process owns a RecordStore object and is the only one that writes   *)
(* the files of Paths, as logindex is.  save and compact push the header   *)
(* and then one page (length varint, record, checksum) per event through   *)
(* an ofstream, so a crash, a full disk or another process that opens the  *)
(* file meanwhile sees a cut of that image.  A cut is described by what    *)
(* load can tell apart: whether the header is whole, the whole pages, and  *)
(* whether the bytes after them stop inside a length varint or later.      *)
(***************************************************************************)
EXTENDS Naturals, Sequences, SequencesExt

CONSTANTS
  Ids,         \* record ids (core::stable_id)
  Paths,       \* paths of store files
  Drafts,      \* events the parsers may hand to append
  FieldLimit,  \* most fields deserialize_event reads back (100000 in the code)
  MaxEvents,   \* model bound on the length of events_
  NoFile,      \* a path at which there is no file
  NoJob        \* no save or compact is running

\* ingest::Event. The fields map is abstracted to its size: records are read
\* back in key order, so the only thing that can happen to it is to be cut.
Event == [id: Ids, fields: Nat, tombstone: BOOLEAN]

Tails == {"none", "varint", "page"}
File  == [header: BOOLEAN, pages: Seq(Event), tail: Tails]
Job   == [phase: {"filter", "write"}, path: Paths, next: Nat \ {0}, image: Seq(Event)]

\* What a load returns: "ok" or the ErrorCode of its Diagnostic.
LoadResults == {"none", "ok", "io_error", "storage_corrupt",
                "invalid_format", "truncated_input"}

ASSUME DraftsAssumption == \A d \in Drafts : d \in Event /\ ~d.tombstone
ASSUME FieldLimitAssumption == FieldLimit \in Nat
ASSUME NoFileAssumption == NoFile \notin File
ASSUME NoJobAssumption == NoJob \notin Job

VARIABLES
  events,    \* RecordStore::events_ of the process
  result,    \* what its last load returned, "none" before the first
  job,       \* the running save or compact, or NoJob
  file,      \* [Paths -> File or NoFile]: what an open of the path would read
  lastSave,  \* history: the last save or compact to each path
  answer     \* history: [Paths -> what live_events() was when it was called]
vars == <<events, result, job, file, lastSave, answer>>

\* image is the events the call writes, failed says that a write was lost,
\* returned that the call came back (it returns success).
Save == [image: Seq(Event), failed: BOOLEAN, returned: BOOLEAN]

Filtering == job # NoJob /\ job.phase = "filter"
Writing   == job # NoJob /\ job.phase = "write"

TypeOK ==
  /\ events \in Seq(Event)
  /\ result \in LoadResults
  /\ job \in Job \cup {NoJob}
  /\ file \in [Paths -> File \cup {NoFile}]
  /\ lastSave \in [Paths -> Save]
  /\ Writing => file[job.path] # NoFile

EmptyFile == [header |-> FALSE, pages |-> <<>>, tail |-> "none"]

Init ==
  /\ events = <<>>
  /\ result = "none"
  /\ job = NoJob
  /\ file = [path \in Paths |-> NoFile]
  /\ lastSave = [path \in Paths |->
       [image |-> <<>>, failed |-> FALSE, returned |-> FALSE]]
  /\ answer = [path \in Paths |-> <<>>]

-----------------------------------------------------------------------------
(* Operations on the events in memory.                                     *)

IsLive(e) == ~e.tombstone
\* live_events: the events without a tombstone, in order.
LiveEvents(es) ==
  LET live[i \in 0..Len(es)] ==
        IF i = 0 THEN <<>>
        ELSE IF IsLive(es[i]) THEN Append(live[i - 1], es[i]) ELSE live[i - 1]
  IN  live[Len(es)]

AppendEvent(e) ==
  /\ job = NoJob
  /\ Len(events) < MaxEvents
  /\ events' = Append(events, e)
  /\ UNCHANGED <<result, job, file, lastSave, answer>>

\* erase_id marks the first live record that has the id and returns true; when
\* there is none it returns false and changes nothing.
EraseId(id) ==
  /\ job = NoJob
  /\ \E i \in 1..Len(events) :
       /\ events[i].id = id /\ IsLive(events[i])
       /\ \A j \in 1..(i - 1) : ~(events[j].id = id /\ IsLive(events[j]))
       /\ events' = [events EXCEPT ![i].tombstone = TRUE]
  /\ UNCHANGED <<result, job, file, lastSave, answer>>

-----------------------------------------------------------------------------
(* save and compact.                                                       *)

\* Mutant of OpenForWrite: the file is opened for appending, not truncated.
OpenForAppend(path, image) ==
  /\ job' = [phase |-> "write", path |-> path, next |-> 1, image |-> image]
  /\ file' = [file EXCEPT ![path] = IF @ = NoFile THEN EmptyFile ELSE @]
  /\ lastSave' = [lastSave EXCEPT ![path] =
       [image |-> image, failed |-> FALSE, returned |-> FALSE]]
  /\ answer' = [answer EXCEPT ![path] = LiveEvents(events)]
  /\ UNCHANGED <<events, result>>

\* The ofstream constructor truncates the file; the image then goes out piece
\* by piece. When it cannot open the path, save returns io_error and nothing
\* changes.
OpenForWrite(path, image) ==
  /\ job' = [phase |-> "write", path |-> path, next |-> 1, image |-> image]
  /\ file' = [file EXCEPT ![path] = EmptyFile]
  /\ lastSave' = [lastSave EXCEPT ![path] =
       [image |-> image, failed |-> FALSE, returned |-> FALSE]]
  /\ answer' = [answer EXCEPT ![path] = LiveEvents(events)]
  /\ UNCHANGED <<events, result>>

SaveOpen(path) ==
  /\ job = NoJob
  /\ OpenForWrite(path, events)

\* compact copies the live events, one by one, into a temporary store ...
CompactBegin(path) ==
  /\ job = NoJob
  /\ job' = [phase |-> "filter", path |-> path, next |-> 1, image |-> <<>>]
  /\ UNCHANGED <<events, result, file, lastSave, answer>>

CompactScan ==
  /\ Filtering
  /\ job.next <= Len(events)
  /\ job' = [job EXCEPT
       !.next = @ + 1,
       !.image = IF IsLive(events[job.next]) THEN Append(@, events[job.next]) ELSE @]
  /\ UNCHANGED <<events, result, file, lastSave, answer>>

\* ... and saves that one. events_ of this store keeps its tombstones.
CompactOpen ==
  /\ Filtering
  /\ job.next > Len(events)
  /\ OpenForWrite(job.path, job.image)

\* The path cannot be opened: compact returns io_error, as the save of its copy did.
CompactRefused ==
  /\ Filtering
  /\ job.next > Len(events)
  /\ job' = NoJob
  /\ UNCHANGED <<events, result, file, lastSave, answer>>

WriteTo(f) ==
  /\ Writing
  /\ ~lastSave[job.path].failed
  /\ file' = [file EXCEPT ![job.path] = f]
  /\ UNCHANGED <<events, result, job, lastSave, answer>>

WriteHeader ==
  /\ Writing
  /\ ~file[job.path].header
  /\ WriteTo([file[job.path] EXCEPT !.header = TRUE])

\* The length of the next page reaches the file, whole ("page") or not.
WriteLength ==
  /\ Writing
  /\ LET f == file[job.path] IN
       /\ f.header
       /\ Len(f.pages) < Len(job.image)
       /\ \/ f.tail = "none" /\ \E t \in {"varint", "page"} : WriteTo([f EXCEPT !.tail = t])
          \/ f.tail = "varint" /\ WriteTo([f EXCEPT !.tail = "page"])

\* The last byte of the checksum makes the page whole.
WritePage ==
  /\ Writing
  /\ LET f == file[job.path] IN
       /\ f.tail = "page"
       /\ Len(f.pages) < Len(job.image)
       /\ WriteTo([f EXCEPT !.pages = Append(@, job.image[Len(@) + 1]), !.tail = "none"])

Complete(path) ==
  /\ file[path] # NoFile
  /\ file[path].header /\ file[path].tail = "none"
  /\ Len(file[path].pages) = Len(lastSave[path].image)

\* A write fails (no space, I/O error): the stream goes bad and drops the rest.
WriteFails ==
  /\ Writing
  /\ ~Complete(job.path)
  /\ ~lastSave[job.path].failed
  /\ lastSave' = [lastSave EXCEPT ![job.path].failed = TRUE]
  /\ UNCHANGED <<events, result, job, file, answer>>

\* Mutant of SaveReturn: the call returns before the stream is closed.
ReturnBeforeClose ==
  /\ Writing
  /\ job' = NoJob
  /\ lastSave' = [lastSave EXCEPT ![job.path].returned = TRUE]
  /\ UNCHANGED <<events, result, file, answer>>

\* The stream is closed and save returns success, whatever became of the writes.
SaveReturn ==
  /\ Writing
  /\ Complete(job.path) \/ lastSave[job.path].failed
  /\ job' = NoJob
  /\ lastSave' = [lastSave EXCEPT ![job.path].returned = TRUE]
  /\ UNCHANGED <<events, result, file, answer>>

-----------------------------------------------------------------------------
(* load, and the end of the process.                                       *)

\* Mutants of Decoded: the tombstone byte is skipped, not read; the limit is
\* subtracted the wrong way round.
DecodedLive(e) ==
  [e EXCEPT !.fields = IF @ <= FieldLimit THEN @ ELSE FieldLimit, !.tombstone = FALSE]
DecodedUnderflow(e) ==
  [e EXCEPT !.fields = IF @ <= FieldLimit THEN @ ELSE FieldLimit - @]

\* deserialize_event(serialize_event(e)): the fields beyond the limit are lost.
Decoded(e) == [e EXCEPT !.fields = IF @ <= FieldLimit THEN @ ELSE FieldLimit]
DecodedAll(es) == [i \in 1..Len(es) |-> Decoded(es[i])]

LoadResult(f) ==
  CASE f = NoFile         -> "io_error"
    [] f # NoFile /\ ~f.header -> "storage_corrupt"
    [] f # NoFile /\ f.header /\ f.tail = "varint" -> "invalid_format"
    [] f # NoFile /\ f.header /\ f.tail = "page"   -> "truncated_input"
    [] f # NoFile /\ f.header /\ f.tail = "none"   -> "ok"

\* events_ after a load of f into a store that held es: it is cleared once the
\* header is accepted, and keeps the whole pages even when the load then fails.
Loaded(f, es) == IF f # NoFile /\ f.header THEN DecodedAll(f.pages) ELSE es

Load(path) ==
  /\ job = NoJob
  /\ events' = Loaded(file[path], events)
  /\ result' = LoadResult(file[path])
  /\ UNCHANGED <<job, file, lastSave, answer>>

\* The process exits or is killed, and a new one starts with an empty store.
Restart ==
  /\ events' = <<>>
  /\ result' = "none"
  /\ job' = NoJob
  /\ UNCHANGED <<file, lastSave, answer>>

Next ==
  \/ \E e \in Drafts : AppendEvent(e)
  \/ \E id \in Ids : EraseId(id)
  \/ \E path \in Paths : SaveOpen(path) \/ CompactBegin(path) \/ Load(path)
  \/ CompactScan \/ CompactOpen \/ CompactRefused
  \/ WriteHeader \/ WriteLength \/ WritePage \/ WriteFails \/ SaveReturn
  \/ Restart

Spec == Init /\ [][Next]_vars

-----------------------------------------------------------------------------
(* Properties.                                                             *)

\* Whatever moment a save or compact is cut at, the pages another open of the
\* path finds are the first events of that one call: never an event of an
\* earlier content of the file, never one out of order; and bytes after the
\* last whole page are there only while pages are missing.
PrefixAt(path) == file[path] # NoFile =>
  /\ IsPrefix(file[path].pages, lastSave[path].image)
  /\ ~file[path].header => file[path] = EmptyFile
  /\ file[path].tail # "none" => Len(file[path].pages) < Len(lastSave[path].image)
TornFileIsPrefix == \A path \in Paths : PrefixAt(path)

\* A running write works on the image of the last call to its path, and a call
\* that returned without losing a write left the file whole.
SaveAt(path) ==
  /\ lastSave[path].returned => file[path] # NoFile
  /\ lastSave[path].returned /\ ~lastSave[path].failed => Complete(path)
  /\ Writing /\ job.path = path => job.image = lastSave[path].image /\ ~lastSave[path].returned

\* The inductive invariant behind the properties about files.
StoreInv == \A path \in Paths : PrefixAt(path) /\ SaveAt(path)

\* What logquery filters after a load of any file at any moment is a prefix of
\* what live_events() of the writing process returned when it called save or
\* compact: an erased record does not come back, and dropping the tombstones
\* changes no answer.
AnswerIsPrefix ==
  \A path \in Paths : file[path] # NoFile =>
    IsPrefix(LiveEvents(Loaded(file[path], <<>>)),
             DecodedAll(answer[path]))

\* A save that returned and lost no write is replayed whole: load succeeds with
\* every event in its place, each as deserialize_event reads it back.
FinishedSaveReplays ==
  \A path \in Paths : lastSave[path].returned /\ ~lastSave[path].failed =>
    /\ LoadResult(file[path]) = "ok"
    /\ Loaded(file[path], <<>>) = DecodedAll(lastSave[path].image)
=============================================================================

------------------------------- MODULE StoreFile -------------------------------
(***************************************************************************)
(* index::RecordStore (src/index/store.cpp) byte by byte: save and compact *)
(* push the serialized pages through an ofstream, load reads the whole     *)
(* file and decodes it page after page. It implements RecordStore, whose   *)
(* files are described by whole pages and whose load is one step.          *)
(***************************************************************************)
EXTENDS StoreImage

CONSTANTS
  Paths,       \* paths of store files
  Drafts,      \* events the parsers may hand to append
  MaxEvents,   \* model bound on the length of events_
  NoFile,      \* a path at which there is no file
  NoJob,       \* no save or compact is running
  NoLoad       \* no load is running

\* A save or compact that runs, and a load that runs.
Job  == [phase: {"filter", "write"}, path: Paths, next: Nat \ {0},
         image: Seq(Event), out: Seq(Byte)]
Read == [path: Paths, bytes: Seq(Byte), pos: Nat]

ASSUME StoreFileAssumption ==
  /\ \A d \in Drafts : d \in Event /\ ~d.tombstone
  /\ MaxEvents \in Nat
  /\ NoFile \notin Seq(Byte) /\ NoJob \notin Job /\ NoLoad \notin Read

VARIABLES
  events,    \* RecordStore::events_
  result,    \* what the last load returned
  job,       \* the running save or compact, or NoJob
  disk,      \* [Paths -> bytes of the file or NoFile]
  lastSave,  \* history: the last save or compact to each path
  answer,    \* history: what live_events() was when it was called
  load       \* the running load: the bytes it read and its position, or NoLoad
vars == <<events, result, job, disk, lastSave, answer, load>>

TypeOK ==
  /\ events \in Seq(Event)
  /\ result \in {"none", "ok", "io_error", "storage_corrupt", "invalid_format", "truncated_input",
                 "length_error"}
  /\ job = NoJob \/ job \in Job
  /\ \A path \in Paths : disk[path] = NoFile \/ disk[path] \in Seq(Byte)
  /\ lastSave \in [Paths -> [image: Seq(Event), failed: BOOLEAN, returned: BOOLEAN]]
  /\ answer \in [Paths -> Seq(Event)]
  /\ load = NoLoad \/ load \in Read

Init ==
  /\ events = <<>>
  /\ result = "none"
  /\ job = NoJob
  /\ disk = [path \in Paths |-> NoFile]
  /\ lastSave = [path \in Paths |->
       [image |-> <<>>, failed |-> FALSE, returned |-> FALSE]]
  /\ answer = [path \in Paths |-> <<>>]
  /\ load = NoLoad

Idle == job = NoJob /\ load = NoLoad

-----------------------------------------------------------------------------
(* Operations on the events in memory.                                     *)

IsLive(e) == ~e.tombstone
\* live_events: the events without a tombstone, in order.
LiveEvents(es) ==
  LET live[i \in 0..Len(es)] ==
        IF i = 0 THEN <<>>
        ELSE IF IsLive(es[i]) THEN Append(live[i - 1], es[i]) ELSE live[i - 1]
  IN  live[Len(es)]

AppendEvent(e) ==
  /\ Idle
  /\ Len(events) < MaxEvents
  /\ events' = Append(events, e)
  /\ UNCHANGED <<result, job, disk, lastSave, load, answer>>

EraseId(id) ==
  /\ Idle
  /\ \E i \in 1..Len(events) :
       /\ events[i].id = id /\ IsLive(events[i])
       /\ \A j \in 1..(i - 1) : ~(events[j].id = id /\ IsLive(events[j]))
       /\ events' = [events EXCEPT ![i].tombstone = TRUE]
  /\ UNCHANGED <<result, job, disk, lastSave, load, answer>>

-----------------------------------------------------------------------------
(* save and compact.                                                       *)

\* Mutant of OpenForWrite: the file is opened for appending, not truncated.
OpenForAppend(path, image) ==
  /\ job' = [phase |-> "write", path |-> path, next |-> 1, image |-> image,
             out |-> Image(image)]
  /\ disk' = [disk EXCEPT ![path] = IF @ = NoFile THEN <<>> ELSE @]
  /\ lastSave' = [lastSave EXCEPT ![path] =
       [image |-> image, failed |-> FALSE, returned |-> FALSE]]
  /\ answer' = [answer EXCEPT ![path] = LiveEvents(events)]
  /\ UNCHANGED <<events, result, load>>

\* The ofstream constructor truncates the file; the whole image then goes out.
OpenForWrite(path, image) ==
  /\ job' = [phase |-> "write", path |-> path, next |-> 1, image |-> image,
             out |-> Image(image)]
  /\ disk' = [disk EXCEPT ![path] = <<>>]
  /\ lastSave' = [lastSave EXCEPT ![path] =
       [image |-> image, failed |-> FALSE, returned |-> FALSE]]
  /\ answer' = [answer EXCEPT ![path] = LiveEvents(events)]
  /\ UNCHANGED <<events, result, load>>

SaveOpen(path) == Idle /\ OpenForWrite(path, events)

CompactBegin(path) ==
  /\ Idle
  /\ job' = [phase |-> "filter", path |-> path, next |-> 1, image |-> <<>>, out |-> <<>>]
  /\ UNCHANGED <<events, result, disk, lastSave, load, answer>>

Filtering == job # NoJob /\ job.phase = "filter"
Writing   == job # NoJob /\ job.phase = "write"

CompactScan ==
  /\ Filtering
  /\ job.next <= Len(events)
  /\ job' = [job EXCEPT
       !.next = @ + 1,
       !.image = IF IsLive(events[job.next]) THEN Append(@, events[job.next]) ELSE @]
  /\ UNCHANGED <<events, result, disk, lastSave, load, answer>>

CompactOpen ==
  /\ Filtering
  /\ job.next > Len(events)
  /\ OpenForWrite(job.path, job.image)

\* The path cannot be opened: io_error. (For SaveOpen that is no step.)
CompactRefused ==
  /\ Filtering
  /\ job.next > Len(events)
  /\ job' = NoJob
  /\ UNCHANGED <<events, result, disk, lastSave, load, answer>>

\* The next byte of the image reaches the file.
WriteByte ==
  /\ Writing
  /\ ~lastSave[job.path].failed
  /\ job.out # <<>>
  /\ disk' = [disk EXCEPT ![job.path] = Append(@, Head(job.out))]
  /\ job' = [job EXCEPT !.out = Tail(@)]
  /\ UNCHANGED <<events, result, lastSave, load, answer>>

WriteFails ==
  /\ Writing
  /\ ~lastSave[job.path].failed
  /\ job.out # <<>>
  /\ lastSave' = [lastSave EXCEPT ![job.path].failed = TRUE]
  /\ UNCHANGED <<events, result, job, disk, load, answer>>

\* Mutant of SaveReturn: the call waits until every byte is written.
SaveReturnWhenWritten ==
  /\ Writing
  /\ job.out = <<>>
  /\ job' = NoJob
  /\ lastSave' = [lastSave EXCEPT ![job.path].returned = TRUE]
  /\ UNCHANGED <<events, result, disk, load, answer>>

SaveReturn ==
  /\ Writing
  /\ job.out = <<>> \/ lastSave[job.path].failed
  /\ job' = NoJob
  /\ lastSave' = [lastSave EXCEPT ![job.path].returned = TRUE]
  /\ UNCHANGED <<events, result, disk, load, answer>>

-----------------------------------------------------------------------------
(* load.                                                                   *)

\* No file, or one without the header: load returns and keeps events_.
LoadRefused(path) ==
  /\ Idle
  /\ \/ disk[path] = NoFile /\ result' = "io_error"
     \/ /\ disk[path] # NoFile
        /\ ~HasHeader(disk[path])
        /\ result' = "storage_corrupt"
  /\ UNCHANGED <<events, job, disk, lastSave, load, answer>>

LoadOpen(path) ==
  /\ Idle
  /\ disk[path] # NoFile
  /\ HasHeader(disk[path])
  /\ events' = <<>>
  /\ load' = [path |-> path, bytes |-> disk[path], pos |-> Len(Header)]
  /\ UNCHANGED <<result, job, disk, lastSave, answer>>

Loading == load # NoLoad

\* Mutant of LoadMove: the position is moved by the length of the record only.
LoadMoveShort ==
  /\ Loading
  /\ load.pos < Len(load.bytes)
  /\ LET len  == DecodeVarint(load.bytes, load.pos)
         past == (len.pos + len.value + ChecksumSize) % WordSize
     IN  \/ ~len.ok /\ load' = NoLoad /\ result' = "invalid_format"
         \/ len.ok /\ past > Len(load.bytes) /\ load' = NoLoad /\ result' = "truncated_input"
         \/ /\ len.ok /\ past <= Len(load.bytes)
            /\ load' = [load EXCEPT !.pos = @ + len.value]
            /\ UNCHANGED result

\* The length of the next page, and the step over its record and its checksum.
LoadMove ==
  /\ Loading
  /\ load.pos < Len(load.bytes)
  /\ LET len  == DecodeVarint(load.bytes, load.pos)
         past == (len.pos + len.value + ChecksumSize) % WordSize
     IN  \/ ~len.ok /\ load' = NoLoad /\ result' = "invalid_format"
         \/ len.ok /\ past > Len(load.bytes) /\ load' = NoLoad /\ result' = "truncated_input"
         \/ /\ len.ok /\ past <= Len(load.bytes)
            /\ load' = [load EXCEPT !.pos = past]
            /\ UNCHANGED result

\* One turn of the loop. A record that does not decode is skipped, and the
\* events of the pages before a bad page, or one at which load throws, are kept.
LoadPage ==
  /\ Loading
  /\ load.pos < Len(load.bytes)
  /\ LET len  == DecodeVarint(load.bytes, load.pos)
         read == DeserializeEvent(SubSeq(load.bytes, len.pos + 1, len.pos + len.value))
     IN  IF PageThrows(load.bytes, load.pos)
         THEN load' = NoLoad /\ result' = "length_error" /\ UNCHANGED events
         ELSE LoadMove
                /\ events' = IF load' # NoLoad /\ read.ok THEN Append(events, read.event) ELSE events
  /\ UNCHANGED <<job, disk, lastSave, answer>>

LoadEnd ==
  /\ Loading
  /\ load.pos >= Len(load.bytes)
  /\ result' = "ok"
  /\ load' = NoLoad
  /\ UNCHANGED <<events, job, disk, lastSave, answer>>

Restart ==
  /\ events' = <<>>
  /\ result' = "none"
  /\ job' = NoJob
  /\ load' = NoLoad
  /\ UNCHANGED <<disk, lastSave, answer>>

Next ==
  \/ \E e \in Drafts : AppendEvent(e)
  \/ \E id \in Ids : EraseId(id)
  \/ \E path \in Paths :
       SaveOpen(path) \/ CompactBegin(path) \/ LoadRefused(path) \/ LoadOpen(path)
  \/ CompactScan \/ CompactOpen \/ CompactRefused \/ WriteByte \/ WriteFails \/ SaveReturn
  \/ LoadPage \/ LoadEnd
  \/ Restart

Spec == Init /\ [][Next]_vars

\* A call that runs goes on: nothing in save, compact or load waits. What a turn
\* of the loop of load does to load is LoadMove or LoadEnd.
FairSpec ==
  /\ Spec
  /\ WF_vars(CompactScan \/ CompactOpen \/ CompactRefused \/ WriteByte \/ SaveReturn)
  /\ WF_load(LoadMove \/ LoadEnd)

-----------------------------------------------------------------------------
(* Refinement of RecordStore.                                              *)

\* Bytes of the length of a page and of the whole page.
Sizes == [e \in Event |-> [length |-> Len(EncodeVarint(Len(SerializeEvent(e)))),
                          page   |-> Len(Page(e))]]

\* Bytes of the header and of the first k pages of an image.
ImageEnd(image, k) ==
  LET end[i \in 0..k] == IF i = 0 THEN Len(Header) ELSE end[i - 1] + Sizes[image[i]].page
  IN  end[k]

\* The first size bytes of the image of es, as whole pages and a tail.
CutAt(es, size) ==
  LET whole  == {k \in 0..Len(es) : ImageEnd(es, k) <= size}
      k      == CHOOSE k \in whole : \A j \in whole : j <= k
      rest   == size - ImageEnd(es, k)
  IN  IF whole = {} THEN [header |-> FALSE, pages |-> <<>>, tail |-> "none"]
      ELSE [header |-> TRUE,
            pages  |-> SubSeq(es, 1, k),
            tail   |-> IF rest = 0 THEN "none"
                       ELSE IF rest < Sizes[es[k + 1]].length THEN "varint" ELSE "page"]

\* Every cut of every image, as RecordStore's files. A file is shorter than 2^64.
Images == BoundedSeq(Event, MaxEvents)
CutsOf(es) == [size \in 0..Len(Image(es)) |-> CutAt(es, size)]
Cuts == [es \in Images |-> CutsOf(es)]
File == [header: BOOLEAN, pages: Seq(Event), tail: {"none", "varint", "page"}]
ASSUME ImagesAssumption ==
  /\ \A es \in Images : Len(Image(es)) \in Word
  /\ NoFile \notin File
  /\ NoJob \notin [phase: {"filter", "write"}, path: Paths, next: Nat \ {0}, image: Seq(Event)]

\* DiskIsCut says that the bytes are those of the image, the length tells which.
FileOf(path) ==
  IF disk[path] = NoFile THEN NoFile
  ELSE Cuts[lastSave[path].image][Len(disk[path])]

\* A load takes effect, for RecordStore, when it has read the file.
LoadedEvents ==
  IF ~Loading THEN events ELSE
  LET pages == FileOf(load.path).pages
  IN  [i \in 1..Len(pages) |->
         [pages[i] EXCEPT !.fields = IF @ <= FieldLimit THEN @ ELSE FieldLimit]]
LoadedResult ==
  IF ~Loading THEN result ELSE
  [none |-> "ok", varint |-> "invalid_format", page |-> "truncated_input"]
    [FileOf(load.path).tail]
PagedJob ==
  IF job = NoJob THEN NoJob
  ELSE [phase |-> job.phase, path |-> job.path, next |-> job.next, image |-> job.image]

Paged == INSTANCE RecordStore WITH
  events <- LoadedEvents, result <- LoadedResult, job <- PagedJob,
  file <- [path \in Paths |-> FileOf(path)]

-----------------------------------------------------------------------------
(* Properties.                                                             *)

\* The byte-level save, compact and load behave as the paged store: framing,
\* record encoding and the decode loop lose, reorder and invent nothing, and a
\* file cut at any byte gives the result and the events of its whole pages.
ImplementsRecordStore == Paged!Spec

\* The bytes at a path are always the first bytes of the image of the last call.
DiskIsCut ==
  \A path \in Paths : disk[path] # NoFile =>
    IsPrefix(disk[path], Image(lastSave[path].image))

\* At every turn of its loop load stands at the end of a page it was saved as,
\* and has read exactly the pages before it: no length is ever taken from the
\* middle of a record, whatever bytes the record holds.
LoadAligned == Loading =>
  LET image == lastSave[load.path].image
  IN  /\ Len(events) <= Len(image)
      /\ load.pos = ImageEnd(image, Len(events))
      /\ \A i \in 1..Len(events) : events[i].id = image[i].id

\* A load of any file comes back: each turn of the loop moves on.
LoadFinishes == Loading ~> ~Loading

\* A save or compact comes back, whatever becomes of its writes.
SaveFinishes == job # NoJob ~> job = NoJob
===============================================================================

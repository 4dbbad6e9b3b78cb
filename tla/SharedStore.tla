------------------------------- MODULE SharedStore -------------------------------
(***************************************************************************)
(* One store file and the processes that have it open at once: logindex    *)
(* runs, each of which saves its events (tools/logindex.cpp), and a        *)
(* logquery, which loads the file (tools/logquery.cpp). Nothing in         *)
(* RecordStore::save and load (src/index/store.cpp) keeps them apart: save *)
(* truncates the file when it opens it and then writes at an offset of its *)
(* own, load reads at an offset of its own until there is no more to read. *)
(* Both go through buffers, so that what reaches and leaves the file at    *)
(* once is any number of bytes. Writes that fail are left to StoreFile.    *)
(***************************************************************************)
EXTENDS StoreImage

CONSTANTS
  Writers,   \* the logindex processes; each saves once
  Batches,   \* the sequences of events a writer may save
  Hole,      \* the byte that fills a gap in a file: 0
  NoFile     \* there is no file at the path

ASSUME SharedAssumption ==
  Batches \subseteq Seq(Event) /\ Hole \in Byte /\ NoFile \notin Seq(Byte)
\* A file is shorter than 2^64.
ASSUME ImagesAssumption == \A es \in Batches : Len(Image(es)) \in Word

VARIABLES
  disk,     \* the bytes of the file, or NoFile
  writer,   \* [Writers -> phase, events to save, their image, bytes written]
  reader,   \* phase, bytes read so far
  loaded,   \* what load returned and left in events_
  last,     \* history: the writer that was the last to open the file
  alone,    \* history: no other writer had the file open when last opened it
  shared,   \* history: some writer opened it while another one had it open
  calm      \* history: alone held when the reader opened, and none opened since
vars == <<disk, writer, reader, loaded, last, alone, shared, calm>>

\* A run of logindex that is to save es; save sends out the bytes of the image.
WriterOf(es) == [phase |-> "ready", events |-> es, image |-> Image(es), at |-> 0]
Sent(w) == writer[w].image

Init ==
  /\ disk = NoFile
  /\ writer \in [Writers -> {WriterOf(es) : es \in Batches}]
  /\ reader = [phase |-> "ready", bytes |-> <<>>]
  /\ loaded = [result |-> "none", events |-> <<>>]
  /\ last \in Writers
  /\ alone = TRUE
  /\ shared = FALSE
  /\ calm = FALSE

-----------------------------------------------------------------------------
(* The writers.                                                            *)

\* Mutants of SaveOpen: the file is created with the first write only; the file is
\* not truncated.
SaveOpenLater(w) ==
  /\ writer[w].phase = "ready"
  /\ writer' = [writer EXCEPT ![w].phase = "write"]
  /\ last' = w
  /\ alone' = \A v \in Writers : writer[v].phase # "write"
  /\ shared' = (shared \/ ~alone')
  /\ calm' = FALSE
  /\ UNCHANGED <<disk, reader, loaded>>

SaveOpenInPlace(w) ==
  /\ writer[w].phase = "ready"
  /\ disk' = IF disk = NoFile THEN <<>> ELSE disk
  /\ writer' = [writer EXCEPT ![w].phase = "write"]
  /\ last' = w
  /\ alone' = \A v \in Writers : writer[v].phase # "write"
  /\ shared' = (shared \/ ~alone')
  /\ calm' = FALSE
  /\ UNCHANGED <<reader, loaded>>

\* The ofstream constructor truncates the file, whoever else has it open.
SaveOpen(w) ==
  /\ writer[w].phase = "ready"
  /\ disk' = <<>>
  /\ writer' = [writer EXCEPT ![w].phase = "write"]
  /\ last' = w
  /\ alone' = \A v \in Writers : writer[v].phase # "write"
  /\ shared' = (shared \/ ~alone')
  /\ calm' = FALSE
  /\ UNCHANGED <<reader, loaded>>

\* The file after bytes went out at offset at. Beyond its end it gets a hole.
Overwritten(file, at, bytes) ==
  LET filled == file \o [i \in 1..(at - Len(file)) |-> Hole]
  IN  SubSeq(filled, 1, at) \o bytes \o SubSeq(filled, at + Len(bytes) + 1, Len(filled))

\* Mutant of WriteSome: the bytes go to the end of the file.
WriteSomeAtEnd(w) ==
  /\ writer[w].phase = "write"
  /\ \E n \in (writer[w].at + 1)..Len(Sent(w)) :
       /\ disk' = disk \o SubSeq(Sent(w), writer[w].at + 1, n)
       /\ writer' = [writer EXCEPT ![w].at = n]
  /\ UNCHANGED <<reader, loaded, last, alone, shared, calm>>

\* The next bytes of the image go out, at the offset of this writer.
WriteSome(w) ==
  /\ writer[w].phase = "write"
  /\ \E n \in (writer[w].at + 1)..Len(Sent(w)) :
       /\ disk' = Overwritten(disk, writer[w].at, SubSeq(Sent(w), writer[w].at + 1, n))
       /\ writer' = [writer EXCEPT ![w].at = n]
  /\ UNCHANGED <<reader, loaded, last, alone, shared, calm>>

\* save returns: the stream is closed, all of the image is in the file.
SaveReturn(w) ==
  /\ writer[w].phase = "write"
  /\ writer[w].at = Len(Sent(w))
  /\ writer' = [writer EXCEPT ![w].phase = "done"]
  /\ UNCHANGED <<disk, reader, loaded, last, alone, shared, calm>>

-----------------------------------------------------------------------------
(* The reader.                                                             *)

\* load opens the file; when there is none it returns io_error.
LoadOpen ==
  /\ reader.phase = "ready"
  /\ \/ /\ disk = NoFile
        /\ reader' = [reader EXCEPT !.phase = "done"]
        /\ loaded' = [loaded EXCEPT !.result = "io_error"]
     \/ /\ disk # NoFile
        /\ reader' = [reader EXCEPT !.phase = "read"]
        /\ UNCHANGED loaded
  /\ calm' = (disk # NoFile /\ alone)
  /\ UNCHANGED <<disk, writer, last, alone, shared>>

\* Mutant of ReadSome: each buffer begins with the last byte of the one before.
ReadSomeAgain ==
  /\ reader.phase = "read"
  /\ \E n \in (Len(reader.bytes) + 1)..Len(disk) :
       reader' = [reader EXCEPT !.bytes = @ \o SubSeq(disk, IF @ = <<>> THEN 1 ELSE Len(@), n)]
  /\ UNCHANGED <<disk, writer, loaded, last, alone, shared, calm>>

\* A buffer is filled with the next bytes of the file as it is now.
ReadSome ==
  /\ reader.phase = "read"
  /\ \E n \in (Len(reader.bytes) + 1)..Len(disk) :
       reader' = [reader EXCEPT !.bytes = @ \o SubSeq(disk, Len(@) + 1, n)]
  /\ UNCHANGED <<disk, writer, loaded, last, alone, shared, calm>>

\* There are no bytes at the reader's offset: what was read is decoded.
ReadEnd ==
  /\ reader.phase = "read"
  /\ Len(reader.bytes) >= Len(disk)
  /\ reader' = [reader EXCEPT !.phase = "done"]
  /\ loaded' = LoadBytes(reader.bytes)
  /\ UNCHANGED <<disk, writer, last, alone, shared, calm>>

Next ==
  \/ \E w \in Writers : SaveOpen(w) \/ WriteSome(w) \/ SaveReturn(w)
  \/ LoadOpen \/ ReadSome \/ ReadEnd

\* Nothing has to go on: a process may be killed anywhere.
Spec == Init /\ [][Next]_vars

-----------------------------------------------------------------------------
(* Properties.                                                             *)

TypeOK ==
  /\ disk = NoFile \/ disk \in Seq(Byte)
  /\ writer \in [Writers -> [phase: {"ready", "write", "done"}, events: Batches,
                         image: Seq(Byte), at: Nat]]
  /\ reader \in [phase: {"ready", "read", "done"}, bytes: Seq(Byte)]
  /\ last \in Writers
  /\ alone \in BOOLEAN /\ shared \in BOOLEAN /\ calm \in BOOLEAN
  /\ (reader.phase = "read" \/ \E w \in Writers : writer[w].phase # "ready") => disk # NoFile

\* Where a byte may come from: a writer that has written at that very offset, or
\* a hole before the offset of one that was overtaken by a truncation.
Written(byte, i) ==
  \E w \in Writers : i <= writer[w].at /\ byte \in {Sent(w)[i], Hole}

\* However the processes interleave, every byte in the file and every byte the
\* reader took from it is the byte some save has at that very offset, or a hole:
\* bytes are spliced from several saves, never moved or doubled.
BytesKeepOffset ==
  /\ disk # NoFile => \A i \in 1..Len(disk) : Written(disk[i], i)
  /\ \A i \in 1..Len(reader.bytes) : Written(reader.bytes[i], i)

\* What a reader takes from a file whose last save was alone, while no other save
\* opens it, is the beginning of what that save writes.
CalmReadIsCut == calm => IsPrefix(reader.bytes, Sent(last))

\* A load during which no save opens the file, of a file whose last save was
\* alone, gives the first events of that save, although the file grows under it:
\* all of them if it succeeds with the whole image, and no event that was not saved.
CalmLoadIsPrefix ==
  reader.phase = "done" /\ calm =>
    /\ loaded.result # "io_error"
    /\ IsPrefix(loaded.events, ReadBackAll(writer[last].events))
    /\ Len(reader.bytes) = Len(Sent(last)) =>
         loaded = [result |-> "ok", events |-> ReadBackAll(writer[last].events)]

\* Two logindex runs over the same logs may save at once: when both are done the
\* file is the image that each of them wrote.
SameSavesAgree ==
  \A w \in Writers :
    writer[w].phase = "done"
      /\ (\A v \in Writers :
            \/ writer[v].phase = "ready"
            \/ writer[v].phase = "done" /\ writer[v].events = writer[w].events)
    => disk = Sent(w)

\* Logs that grow are indexed again and again, one run after the other. A load at
\* any time, also one that goes on while the file is truncated and written anew,
\* gives the first events of the longest index.
GrowingStoreLoads ==
  LET opened == {w \in Writers : writer[w].phase # "ready"}
      grows  == \A v, w \in opened : \/ IsPrefix(writer[v].events, writer[w].events)
                                     \/ IsPrefix(writer[w].events, writer[v].events)
  IN  reader.phase = "done" /\ loaded.result # "io_error" /\ grows /\ ~shared =>
        \E w \in opened : IsPrefix(loaded.events, ReadBackAll(writer[w].events))
=================================================================================

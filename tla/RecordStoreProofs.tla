-------------------------- MODULE RecordStoreProofs --------------------------
(***************************************************************************)
(* Safety of RecordStore for every set of paths, ids and drafts, every     *)
(* field limit and every bound on the number of events.                    *)
(***************************************************************************)
EXTENDS RecordStore, Recursion, SequenceTheorems, TLAPS

-----------------------------------------------------------------------------
(* Sequences.                                                              *)

\* A prefix agrees with the longer sequence at each of its positions.
LEMMA PrefixByPosition ==
  ASSUME NEW S, NEW s \in Seq(S), NEW t \in Seq(S)
  PROVE  IsPrefix(s, t) <=> Len(s) <= Len(t) /\ \A i \in 1..Len(s) : s[i] = t[i]
<1>1. SubSeq(s, 1, Len(s)) = s
  BY SubSeqFull
<1>2. ASSUME Len(s) <= Len(t)
      PROVE  /\ SubSeq(t, 1, Len(s)) \in Seq(S)
             /\ Len(SubSeq(t, 1, Len(s))) = Len(s)
             /\ \A i \in 1..Len(s) : SubSeq(t, 1, Len(s))[i] = t[i]
  BY <1>2, SubSeqProperties
<1>3. ASSUME Len(s) <= Len(t), \A i \in 1..Len(s) : s[i] = t[i]
      PROVE  s = SubSeq(t, 1, Len(s))
  BY <1>2, <1>3, SeqEqual
<1> QED
  BY <1>1, <1>2, <1>3 DEF IsPrefix

\* What load puts back into events_ are events, one for each page.
LEMMA DecodedType ==
  ASSUME NEW es \in Seq(Event)
  PROVE  /\ DecodedAll(es) \in Seq(Event)
         /\ Len(DecodedAll(es)) = Len(es)
<1>1. ASSUME NEW e \in Event
      PROVE  Decoded(e) \in Event
  BY <1>1, FieldLimitAssumption DEF Decoded, Event
<1>2. \A i \in 1..Len(es) : Decoded(es[i]) \in Event
  BY <1>1
<1> QED
  BY <1>2 DEF DecodedAll

\* Each write of a running save or compact leaves a file.
LEMMA WrittenType ==
  ASSUME TypeOK
  PROVE  LET f == file[job.path] IN
         /\ WriteHeader => [f EXCEPT !.header = TRUE] \in File
         /\ WriteLength => \A t \in Tails : [f EXCEPT !.tail = t] \in File
         /\ WritePage =>
              [f EXCEPT !.pages = Append(@, job.image[Len(@) + 1]), !.tail = "none"] \in File
<1> USE DEF TypeOK
<1>1. ASSUME Writing
      PROVE  /\ job \in Job
             /\ file[job.path] \in File
  BY <1>1 DEF Writing, Job
<1>2. ASSUME WriteHeader
      PROVE  [file[job.path] EXCEPT !.header = TRUE] \in File
  BY <1>1, <1>2 DEF WriteHeader, File
<1>3. ASSUME WriteLength
      PROVE  \A t \in Tails : [file[job.path] EXCEPT !.tail = t] \in File
  BY <1>1, <1>3 DEF WriteLength, File
<1>4. ASSUME WritePage
      PROVE  [file[job.path] EXCEPT !.pages = Append(@, job.image[Len(@) + 1]),
                                    !.tail = "none"] \in File
  <2>1. file[job.path].pages \in Seq(Event) /\ job.image \in Seq(Event)
    BY <1>1, <1>4 DEF WritePage, File, Job
  <2>2. job.image[Len(file[job.path].pages) + 1] \in Event
    BY <1>4, <2>1 DEF WritePage
  <2>3. Append(file[job.path].pages, job.image[Len(file[job.path].pages) + 1]) \in Seq(Event)
    BY <2>1, <2>2, AppendProperties
  <2> QED
    BY <1>1, <1>4, <2>3 DEF WritePage, File, Tails
<1> QED
  BY <1>2, <1>3, <1>4

-----------------------------------------------------------------------------
(* The variables keep their types.                                         *)

\* Every reachable state of the store and of its files is well-typed.
THEOREM TypeCorrect == Spec => []TypeOK
<1>1. Init => TypeOK
  BY NoFileAssumption DEF Init, TypeOK, LoadResults, Save, Writing
<1>2. TypeOK /\ [Next]_vars => TypeOK'
  <2> SUFFICES ASSUME TypeOK, [Next]_vars
               PROVE  TypeOK'
    OBVIOUS
  <2> USE DEF TypeOK, Writing
  <2>1. ASSUME NEW e \in Drafts, AppendEvent(e)
        PROVE  TypeOK'
    BY <2>1, DraftsAssumption DEF AppendEvent
  <2>2. ASSUME NEW id \in Ids, EraseId(id)
        PROVE  TypeOK'
    <3> PICK i \in 1..Len(events) : events' = [events EXCEPT ![i].tombstone = TRUE]
      BY <2>2 DEF EraseId
    <3>1. events[i] \in Event
      OBVIOUS
    <3>2. [events[i] EXCEPT !.tombstone = TRUE] \in Event
      BY <3>1 DEF Event
    <3>3. events' \in Seq(Event)
      BY <3>2
    <3> QED
      BY <2>2, <3>3 DEF EraseId
  <2>3. ASSUME NEW path \in Paths, NEW image \in Seq(Event), OpenForWrite(path, image)
        PROVE  TypeOK'
    <3>1. job' \in Job
      BY <2>3 DEF OpenForWrite, Job
    <3>2. file' \in [Paths -> File \cup {NoFile}]
      BY <2>3 DEF OpenForWrite, EmptyFile, File, Tails
    <3>3. lastSave' \in [Paths -> Save]
      BY <2>3 DEF OpenForWrite, Save
    <3>4. EmptyFile \in File
      BY DEF EmptyFile, File, Tails
    <3>5. job'.path = path /\ file'[path] = EmptyFile
      BY <2>3 DEF OpenForWrite
    <3>6. file'[job'.path] # NoFile
      BY <3>4, <3>5, NoFileAssumption
    <3> QED
      BY <2>3, <3>1, <3>2, <3>3, <3>6 DEF OpenForWrite
  <2>4. ASSUME NEW path \in Paths, SaveOpen(path)
        PROVE  TypeOK'
    BY <2>3, <2>4 DEF SaveOpen
  <2>5. ASSUME NEW path \in Paths, CompactBegin(path)
        PROVE  TypeOK'
    BY <2>5 DEF CompactBegin, Job
  <2>6. ASSUME NEW path \in Paths, Load(path)
        PROVE  TypeOK'
    <3>1. events' \in Seq(Event)
      BY <2>6, DecodedType DEF Load, Loaded, File
    <3>2. result' \in LoadResults
      BY <2>6 DEF Load, LoadResult, LoadResults, File, Tails
    <3> QED
      BY <2>6, <3>1, <3>2 DEF Load
  <2>7. ASSUME CompactScan
        PROVE  TypeOK'
    <3>1. job \in Job /\ events[job.next] \in Event
      BY <2>7 DEF CompactScan, Filtering, Job
    <3>2. job.image \in Seq(Event) /\ Append(job.image, events[job.next]) \in Seq(Event)
      BY <3>1, AppendProperties DEF Job
    <3>3. job' = [job EXCEPT !.next = job.next + 1, !.image = job'.image]
      BY <2>7, <3>1 DEF CompactScan, Job
    <3>4. job'.image \in Seq(Event)
      <4>1. CASE IsLive(events[job.next])
        BY <2>7, <3>1, <3>2, <4>1 DEF CompactScan, Job
      <4>2. CASE ~IsLive(events[job.next])
        BY <2>7, <3>1, <3>2, <4>2 DEF CompactScan, Job
      <4> QED
        BY <4>1, <4>2
    <3>5. job.next + 1 \in Nat \ {0}
      BY <3>1 DEF Job
    <3>6. /\ job'.phase = "filter"
          /\ job' \in Job
      BY <2>7, <3>1, <3>3, <3>4, <3>5 DEF CompactScan, Filtering, Job
    <3> QED
      BY <2>7, <3>6 DEF CompactScan
  <2>8. ASSUME CompactOpen
        PROVE  TypeOK'
    <3>1. job.path \in Paths /\ job.image \in Seq(Event)
      BY <2>8 DEF CompactOpen, Filtering, Job
    <3> QED
      BY <2>3, <2>8, <3>1 DEF CompactOpen
  <2>17. CASE CompactRefused
    BY <2>17 DEF CompactRefused
  <2>9. ASSUME NEW f \in File, WriteTo(f)
        PROVE  TypeOK'
    BY <2>9, NoFileAssumption DEF WriteTo, Job
  <2>10. ASSUME WriteHeader
         PROVE  TypeOK'
    BY <2>9, <2>10, WrittenType DEF WriteHeader
  <2>11. ASSUME WriteLength
         PROVE  TypeOK'
    BY <2>9, <2>11, WrittenType DEF WriteLength, Tails
  <2>12. ASSUME WritePage
         PROVE  TypeOK'
    BY <2>9, <2>12, WrittenType DEF WritePage
  <2>13. ASSUME WriteFails
         PROVE  TypeOK'
    <3>1. /\ job # NoJob /\ UNCHANGED <<events, result, job, file, answer>>
          /\ lastSave' = [lastSave EXCEPT ![job.path].failed = TRUE]
      BY <2>13 DEF WriteFails, Writing
    <3>2. job.path \in Paths /\ lastSave[job.path] \in Save
      BY <3>1 DEF Job
    <3>3. [lastSave[job.path] EXCEPT !.failed = TRUE] \in Save
      BY <3>2 DEF Save
    <3>4. lastSave' \in [Paths -> Save]
      BY <3>1, <3>2, <3>3
    <3> QED
      BY <3>1, <3>4 DEF Writing
  <2>14. ASSUME SaveReturn
         PROVE  TypeOK'
    <3>1. /\ job # NoJob /\ job' = NoJob /\ UNCHANGED <<events, result, file, answer>>
          /\ lastSave' = [lastSave EXCEPT ![job.path].returned = TRUE]
      BY <2>14 DEF SaveReturn, Writing
    <3>2. job.path \in Paths /\ lastSave[job.path] \in Save
      BY <3>1 DEF Job
    <3>3. [lastSave[job.path] EXCEPT !.returned = TRUE] \in Save
      BY <3>2 DEF Save
    <3>4. lastSave' \in [Paths -> Save]
      BY <3>1, <3>2, <3>3
    <3> QED
      BY <3>1, <3>4 DEF Writing
  <2>15. CASE Restart
    BY <2>15 DEF Restart, LoadResults
  <2>16. CASE UNCHANGED vars
    BY <2>16 DEF vars
  <2> QED
    BY <2>1, <2>2, <2>4, <2>5, <2>6, <2>7, <2>8, <2>10, <2>11, <2>12, <2>13,
       <2>14, <2>15, <2>16, <2>17 DEF Next
<1> QED
  BY <1>1, <1>2, PTL DEF Spec

-----------------------------------------------------------------------------
(* The files.                                                              *)

\* A step that leaves the file at a path, the last call to it and the write
\* that runs on it alone leaves the invariant of that path alone.
LEMMA PathUntouched ==
  ASSUME NEW path \in Paths, PrefixAt(path), SaveAt(path),
         file'[path] = file[path], lastSave'[path] = lastSave[path],
         Writing' /\ job'.path = path =>
           Writing /\ job.path = path /\ job'.image = job.image
  PROVE  PrefixAt(path)' /\ SaveAt(path)'
BY DEF PrefixAt, SaveAt, Complete, EmptyFile

\* A fresh file holds the first zero events of its image.
LEMMA EmptyFilePrefix ==
  ASSUME NEW image \in Seq(Event)
  PROVE  /\ IsPrefix(EmptyFile.pages, image)
         /\ EmptyFile.tail = "none"
<1>1. EmptyFile.pages = <<>> /\ EmptyFile.tail = "none"
  BY DEF EmptyFile
<1>2. EmptyFile.pages \in Seq(Event) /\ Len(EmptyFile.pages) = 0 /\ Len(image) \in Nat
  BY <1>1
<1>3. \A i \in 1..Len(EmptyFile.pages) : EmptyFile.pages[i] = image[i]
  BY <1>2
<1>4. IsPrefix(EmptyFile.pages, image)
  BY <1>2, <1>3, PrefixByPosition
<1> QED
  BY <1>1, <1>4

\* One more event of the image keeps the pages a prefix of it.
LEMMA PrefixGrows ==
  ASSUME NEW s \in Seq(Event), NEW t \in Seq(Event), IsPrefix(s, t), Len(s) < Len(t)
  PROVE  /\ IsPrefix(Append(s, t[Len(s) + 1]), t)
         /\ Len(Append(s, t[Len(s) + 1])) <= Len(t)
<1> DEFINE e == t[Len(s) + 1]
<1>1. e \in Event
  OBVIOUS
<1>2. /\ Append(s, e) \in Seq(Event)
      /\ Len(Append(s, e)) = Len(s) + 1
      /\ \A i \in 1..Len(s) : Append(s, e)[i] = s[i]
      /\ Append(s, e)[Len(s) + 1] = e
  BY <1>1, AppendProperties
<1>3. \A i \in 1..Len(s) : s[i] = t[i]
  BY PrefixByPosition
<1>4. ASSUME NEW i \in 1..Len(Append(s, e))
      PROVE  Append(s, e)[i] = t[i]
  <2>1. CASE i = Len(s) + 1
    BY <1>2, <2>1
  <2>2. CASE i \in 1..Len(s)
    BY <1>2, <1>3, <2>2
  <2> QED
    BY <1>2, <2>1, <2>2
<1>5. Len(Append(s, e)) <= Len(t)
  BY <1>2
<1>6. IsPrefix(Append(s, e), t)
  <2> HIDE DEF e
  <2> QED
    BY <1>2, <1>4, <1>5, PrefixByPosition
<1> QED
  BY <1>5, <1>6

\* Every save and compact keeps the invariant of the files, whichever write it
\* is cut at, whichever write is lost and whichever path it goes to.
THEOREM StoreSafe == Spec => []StoreInv
<1>1. Init => StoreInv
  BY NoJobAssumption DEF Init, StoreInv, PrefixAt, SaveAt, Writing
<1>2. TypeOK /\ StoreInv /\ [Next]_vars => StoreInv'
  <2> SUFFICES ASSUME TypeOK, StoreInv, [Next]_vars, NEW path \in Paths
               PROVE  PrefixAt(path)' /\ SaveAt(path)'
    BY DEF StoreInv
  <2>0. PrefixAt(path) /\ SaveAt(path)
    BY DEF StoreInv
  <2> USE DEF Writing
  <2>1. ASSUME NEW e \in Drafts, AppendEvent(e)
        PROVE  PrefixAt(path)' /\ SaveAt(path)'
    BY <2>0, <2>1, PathUntouched DEF AppendEvent
  <2>2. ASSUME NEW id \in Ids, EraseId(id)
        PROVE  PrefixAt(path)' /\ SaveAt(path)'
    BY <2>0, <2>2, PathUntouched DEF EraseId
  <2>3. ASSUME NEW p \in Paths, NEW image \in Seq(Event), OpenForWrite(p, image)
        PROVE  PrefixAt(path)' /\ SaveAt(path)'
    <3>1. job'.path = p /\ job'.image = image
      BY <2>3 DEF OpenForWrite
    <3>2. CASE p # path
      <4>1. file'[path] = file[path] /\ lastSave'[path] = lastSave[path]
        BY <2>3, <3>2 DEF OpenForWrite, TypeOK
      <4> QED
        BY <2>0, <3>1, <3>2, <4>1, PathUntouched
    <3>3. CASE p = path
      <4>1. /\ file'[path] = EmptyFile
            /\ lastSave'[path].image = image
            /\ ~lastSave'[path].returned
        BY <2>3, <3>3 DEF OpenForWrite, TypeOK
      <4>2. PrefixAt(path)'
        BY <4>1, EmptyFilePrefix DEF PrefixAt, EmptyFile
      <4>3. SaveAt(path)'
        BY <3>1, <4>1 DEF SaveAt
      <4> QED
        BY <4>2, <4>3
    <3> QED
      BY <3>2, <3>3
  <2>4. ASSUME NEW p \in Paths, SaveOpen(p)
        PROVE  PrefixAt(path)' /\ SaveAt(path)'
    BY <2>3, <2>4 DEF SaveOpen, TypeOK
  <2>5. ASSUME NEW p \in Paths, CompactBegin(p)
        PROVE  PrefixAt(path)' /\ SaveAt(path)'
    <3>1. ~Writing'
      BY <2>5 DEF CompactBegin
    <3> QED
      BY <2>0, <2>5, <3>1, PathUntouched DEF CompactBegin
  <2>6. ASSUME NEW p \in Paths, Load(p)
        PROVE  PrefixAt(path)' /\ SaveAt(path)'
    BY <2>0, <2>6, PathUntouched DEF Load
  <2>7. ASSUME CompactScan
        PROVE  PrefixAt(path)' /\ SaveAt(path)'
    <3>1. ~Writing'
      BY <2>7 DEF CompactScan, Filtering, TypeOK, Job
    <3> QED
      BY <2>0, <2>7, <3>1, PathUntouched DEF CompactScan
  <2>8. ASSUME CompactOpen
        PROVE  PrefixAt(path)' /\ SaveAt(path)'
    <3>1. job.path \in Paths /\ job.image \in Seq(Event)
      BY <2>8 DEF CompactOpen, Filtering, TypeOK, Job
    <3> QED
      BY <2>3, <2>8, <3>1 DEF CompactOpen
  <2>18. CASE CompactRefused
    <3>1. ~Writing'
      BY <2>18 DEF CompactRefused
    <3> QED
      BY <2>0, <2>18, <3>1, PathUntouched DEF CompactRefused
  \* A piece of the image that reaches the file disturbs only its own path.
  <2>9. ASSUME NEW f \in File, WriteTo(f),
               IsPrefix(f.pages, lastSave[job.path].image),
               ~f.header => f = EmptyFile,
               f.tail # "none" => Len(f.pages) < Len(lastSave[job.path].image)
        PROVE  PrefixAt(path)' /\ SaveAt(path)'
    <3>1. CASE job.path # path
      <4>1. file'[path] = file[path]
        BY <2>9, <3>1 DEF WriteTo, TypeOK
      <4> QED
        BY <2>0, <2>9, <4>1, PathUntouched DEF WriteTo
    <3>2. CASE job.path = path
      <4>1. file'[path] = f
        BY <2>9, <3>2 DEF WriteTo, TypeOK
      <4>2. PrefixAt(path)'
        BY <2>9, <3>2, <4>1 DEF PrefixAt, WriteTo, EmptyFile
      <4>3. SaveAt(path)'
        BY <2>0, <2>9, <3>2, <4>1 DEF SaveAt, WriteTo
      <4> QED
        BY <4>2, <4>3
    <3> QED
      BY <3>1, <3>2
  <2>10. ASSUME Writing
         PROVE  /\ job.path \in Paths
                /\ file[job.path] \in File
                /\ PrefixAt(job.path)
                /\ job.image = lastSave[job.path].image
                /\ job.image \in Seq(Event)
    <3>1. job \in Job
      BY <2>10 DEF TypeOK
    <3>2. job.path \in Paths /\ job.image \in Seq(Event)
      BY <3>1 DEF Job
    <3> QED
      BY <2>10, <3>2 DEF TypeOK, StoreInv, SaveAt
  <2>11. ASSUME WriteHeader
         PROVE  PrefixAt(path)' /\ SaveAt(path)'
    <3> DEFINE f == [file[job.path] EXCEPT !.header = TRUE]
    <3>1. f \in File /\ WriteTo(f)
      BY <2>11, WrittenType DEF WriteHeader
    <3>2. f.header /\ f.pages = file[job.path].pages /\ f.tail = file[job.path].tail
      BY <2>10, <2>11 DEF WriteHeader, File
    <3>3. PrefixAt(job.path) /\ file[job.path] # NoFile
      BY <2>10, <2>11 DEF WriteHeader, TypeOK
    <3>4. /\ IsPrefix(f.pages, lastSave[job.path].image)
          /\ f.tail # "none" => Len(f.pages) < Len(lastSave[job.path].image)
      BY <3>2, <3>3 DEF PrefixAt
    <3> HIDE DEF f
    <3> QED
      BY <2>9, <3>1, <3>2, <3>4
  <2>12. ASSUME WriteLength
         PROVE  PrefixAt(path)' /\ SaveAt(path)'
    <3>1. PICK t \in Tails : WriteTo([file[job.path] EXCEPT !.tail = t])
      BY <2>12 DEF WriteLength, Tails
    <3> DEFINE f == [file[job.path] EXCEPT !.tail = t]
    <3>2. f \in File /\ WriteTo(f)
      BY <2>12, <3>1, WrittenType
    <3>3. f.header /\ f.pages = file[job.path].pages
      BY <2>10, <2>12 DEF WriteLength, File
    <3>4. PrefixAt(job.path) /\ file[job.path] # NoFile
      BY <2>10, <2>12 DEF WriteLength, TypeOK
    <3>5. /\ IsPrefix(f.pages, lastSave[job.path].image)
          /\ Len(f.pages) < Len(lastSave[job.path].image)
      BY <2>10, <2>12, <3>3, <3>4 DEF PrefixAt, WriteLength
    <3> HIDE DEF f
    <3> QED
      BY <2>9, <3>2, <3>3, <3>5
  <2>13. ASSUME WritePage
         PROVE  PrefixAt(path)' /\ SaveAt(path)'
    <3> DEFINE g == file[job.path]
               f == [g EXCEPT !.pages = Append(@, job.image[Len(@) + 1]), !.tail = "none"]
    <3>1. f \in File /\ WriteTo(f)
      BY <2>13, WrittenType DEF WritePage
    <3>2. g \in File /\ g # NoFile /\ PrefixAt(job.path)
      BY <2>10, <2>13 DEF WritePage, TypeOK
    <3>3. /\ f.pages = Append(g.pages, job.image[Len(g.pages) + 1])
          /\ f.tail = "none"
          /\ f.header = g.header
      BY <3>2 DEF File
    <3>4. g.header
      BY <2>13, <3>2 DEF PrefixAt, WritePage, EmptyFile
    <3>5. g.pages \in Seq(Event) /\ Len(g.pages) < Len(job.image)
      BY <2>13, <3>2 DEF WritePage, File
    <3>6. IsPrefix(f.pages, job.image)
      BY <2>10, <2>13, <3>2, <3>3, <3>5, PrefixGrows DEF PrefixAt, WritePage
    <3> HIDE DEF f, g
    <3> QED
      BY <2>9, <2>10, <2>13, <3>1, <3>3, <3>4, <3>6 DEF WritePage
  <2>14. ASSUME WriteFails
         PROVE  PrefixAt(path)' /\ SaveAt(path)'
    <3>1. CASE job.path # path
      <4>1. lastSave'[path] = lastSave[path]
        BY <2>14, <3>1 DEF WriteFails, TypeOK
      <4> QED
        BY <2>0, <2>14, <4>1, PathUntouched DEF WriteFails
    <3>2. CASE job.path = path
      <4>1. /\ lastSave'[path].image = lastSave[path].image
            /\ lastSave'[path].returned = lastSave[path].returned
        BY <2>14, <3>2 DEF WriteFails, TypeOK, Save
      <4> QED
        BY <2>0, <2>14, <3>2, <4>1 DEF WriteFails, PrefixAt, SaveAt, EmptyFile
    <3> QED
      BY <3>1, <3>2
  <2>15. ASSUME SaveReturn
         PROVE  PrefixAt(path)' /\ SaveAt(path)'
    <3>1. ~Writing'
      BY <2>15 DEF SaveReturn
    <3>2. CASE job.path # path
      <4>1. lastSave'[path] = lastSave[path]
        BY <2>15, <3>2 DEF SaveReturn, TypeOK
      <4> QED
        BY <2>0, <2>15, <3>1, <4>1, PathUntouched DEF SaveReturn
    <3>3. CASE job.path = path
      <4>1. /\ lastSave'[path].image = lastSave[path].image
            /\ lastSave'[path].failed = lastSave[path].failed
            /\ file' = file
        BY <2>15, <3>3 DEF SaveReturn, TypeOK, Save
      <4>2. file[path] # NoFile
        BY <2>15, <3>3 DEF SaveReturn, TypeOK
      <4>3. Complete(path) \/ lastSave[path].failed
        BY <2>15, <3>3 DEF SaveReturn
      <4> QED
        BY <2>0, <3>1, <4>1, <4>2, <4>3 DEF PrefixAt, SaveAt, Complete, EmptyFile
    <3> QED
      BY <3>2, <3>3
  <2>16. CASE Restart
    BY <2>0, <2>16, PathUntouched DEF Restart
  <2>17. CASE UNCHANGED vars
    BY <2>0, <2>17, PathUntouched DEF vars
  <2> QED
    BY <2>1, <2>2, <2>4, <2>5, <2>6, <2>7, <2>8, <2>11, <2>12, <2>13, <2>14,
       <2>15, <2>16, <2>17, <2>18 DEF Next
<1> QED
  BY <1>1, <1>2, TypeCorrect, PTL DEF Spec

\* Every cut of a file that another open may see is a prefix of one call.
THEOREM TornFileIsPrefixHolds == Spec => []TornFileIsPrefix
<1>1. StoreInv => TornFileIsPrefix
  BY DEF StoreInv, TornFileIsPrefix
<1> QED
  BY <1>1, StoreSafe, PTL

\* A save that returned and lost no write is replayed whole by load.
THEOREM FinishedSaveReplaysHolds == Spec => []FinishedSaveReplays
<1>1. TypeOK /\ StoreInv => FinishedSaveReplays
  <2> SUFFICES ASSUME TypeOK, StoreInv, NEW path \in Paths,
                      lastSave[path].returned, ~lastSave[path].failed
               PROVE  /\ LoadResult(file[path]) = "ok"
                      /\ Loaded(file[path], <<>>) = DecodedAll(lastSave[path].image)
    BY DEF FinishedSaveReplays
  <2>1. Complete(path) /\ PrefixAt(path)
    BY DEF StoreInv, SaveAt
  <2>2. file[path].pages \in Seq(Event) /\ lastSave[path].image \in Seq(Event)
    BY <2>1 DEF TypeOK, Complete, File, Save
  <2>3. \A i \in 1..Len(file[path].pages) : file[path].pages[i] = lastSave[path].image[i]
    BY <2>1, <2>2, PrefixByPosition DEF PrefixAt, Complete
  <2>4. file[path].pages = lastSave[path].image
    BY <2>1, <2>2, <2>3, SeqEqual DEF Complete
  <2> QED
    BY <2>1, <2>4 DEF Complete, LoadResult, Loaded
<1> QED
  BY <1>1, TypeCorrect, StoreSafe, PTL

-----------------------------------------------------------------------------
(* The live events.                                                        *)

\* The live ones of the first k events.
LiveTo(es, k) ==
  LET live[i \in 0..Len(es)] ==
        IF i = 0 THEN <<>>
        ELSE IF IsLive(es[i]) THEN Append(live[i - 1], es[i]) ELSE live[i - 1]
  IN  live[k]

\* live_events looks at one event after the other.
LEMMA LiveStep ==
  ASSUME NEW es \in Seq(Event)
  PROVE  /\ LiveEvents(es) = LiveTo(es, Len(es))
         /\ LiveTo(es, 0) = <<>>
         /\ \A k \in 0..Len(es) : LiveTo(es, k) \in Seq(Event)
         /\ \A k \in 1..Len(es) :
              LiveTo(es, k) = IF IsLive(es[k]) THEN Append(LiveTo(es, k - 1), es[k])
                              ELSE LiveTo(es, k - 1)
<1> DEFINE n == Len(es)
           D == 0..n
           V == Seq(Event)
           turn(s, i) == IF i = 0 THEN <<>> ELSE IF IsLive(es[i]) THEN Append(s, es[i]) ELSE s
           step == [p \in V \X D |-> turn(p[1], p[2])]
           turns(f) == [i \in 0..n |->
             IF i = 0 THEN <<>>
             ELSE IF IsLive(es[i]) THEN Append(f[i - 1], es[i]) ELSE f[i - 1]]
           f == CHOOSE h : h = turns(h)
<1>1. n \in Nat /\ <<>> \in V /\ \A i \in 1..n : es[i] \in Event
  OBVIOUS
<1>2. ASSUME NEW s \in V, NEW i \in D PROVE turn(s, i) \in V
  <2>1. CASE i = 0
    BY <2>1
  <2>2. CASE i # 0
    <3>1. es[i] \in Event
      BY <1>1, <2>2
    <3>2. Append(s, es[i]) \in V
      BY <3>1, AppendProperties
    <3> QED BY <2>2, <3>2
  <2> QED BY <2>1, <2>2
<1>3. step \in [V \X D -> V]
  <2> HIDE DEF turn, V, D
  <2> QED BY <1>2
<1>4. PICK g \in [D -> V] : Loop(g, D, <<>>, step)
  <2>1. D \in Counts
    BY <1>1, CountsAre
  <2> HIDE DEF step, D, V
  <2> QED BY <1>1, <1>3, <2>1, LoopExists
<1>5. ASSUME NEW i \in D \ {0}
      PROVE  g[i] = IF IsLive(es[i]) THEN Append(g[i - 1], es[i]) ELSE g[i - 1]
  <2>1. i - 1 \in D
    BY <1>1
  <2>2. step[<<g[i - 1], i>>] = turn(g[i - 1], i)
    <3> HIDE DEF turn
    <3> QED BY <2>1
  <2> HIDE DEF step, V, D
  <2> QED BY <1>4, <2>2 DEF Loop
<1>6. g = turns(g)
  <2>1. g[0] = <<>>
    BY <1>4 DEF Loop
  <2> QED BY <1>5, <2>1
<1>7. f = turns(f)
  <2> HIDE DEF turns
  <2> QED BY <1>6
<1>8. LiveEvents(es) = f[n] /\ \A k \in D : LiveTo(es, k) = f[k]
  BY DEF LiveEvents, LiveTo
<1> HIDE DEF f
<1>9. /\ f[0] = <<>>
      /\ \A i \in 1..n : f[i] = IF IsLive(es[i]) THEN Append(f[i - 1], es[i]) ELSE f[i - 1]
  <2>1. 0 \in 0..n /\ \A i \in 1..n : i \in 0..n /\ i # 0
    BY <1>1
  <2> QED BY <1>7, <2>1
<1> DEFINE S == {i \in Nat : i <= n => f[i] \in V}
<1>10. 0 \in S
  BY <1>1, <1>9
<1>11. ASSUME NEW i \in Nat, i \in S PROVE i + 1 \in S
  <2> SUFFICES ASSUME i + 1 <= n PROVE f[i + 1] \in V
    OBVIOUS
  <2>1. i + 1 \in 1..n /\ (i + 1) - 1 = i /\ i <= n
    BY <1>1
  <2>2. f[i] \in V /\ es[i + 1] \in Event
    BY <1>1, <1>11, <2>1
  <2>3. Append(f[i], es[i + 1]) \in V
    BY <2>2, AppendProperties
  <2>4. f[i + 1] = IF IsLive(es[i + 1]) THEN Append(f[i], es[i + 1]) ELSE f[i]
    BY <1>9, <2>1
  <2> QED BY <2>2, <2>3, <2>4
<1>12. \A k \in D : f[k] \in V
  <2>1. Nat \subseteq S
    <3> HIDE DEF S
    <3> QED BY <1>10, <1>11, SetInduction
  <2> QED BY <1>1, <2>1
<1>13. 0 \in D /\ n \in D /\ \A k \in 1..n : k \in D /\ k - 1 \in D
  BY <1>1
<1> HIDE DEF D, V
<1>14. LiveEvents(es) = LiveTo(es, n) /\ LiveTo(es, 0) = <<>>
  BY <1>8, <1>9, <1>13
<1>15. \A k \in D : LiveTo(es, k) \in V
  BY <1>8, <1>12
<1>16. \A k \in 1..n : LiveTo(es, k) = IF IsLive(es[k]) THEN Append(LiveTo(es, k - 1), es[k])
                                       ELSE LiveTo(es, k - 1)
  BY <1>8, <1>9, <1>13
<1> QED BY <1>14, <1>15, <1>16 DEF D, V

\* They are live, and the first of them stay when more are looked at.
LEMMA LiveAreLive ==
  ASSUME NEW es \in Seq(Event)
  PROVE  /\ \A i \in 1..Len(LiveEvents(es)) : IsLive(LiveEvents(es)[i])
         /\ \A k \in 0..Len(es) : IsPrefix(LiveTo(es, k), LiveEvents(es))
<1> DEFINE n == Len(es)
           l(k) == LiveTo(es, k)
           S == {k \in Nat : k <= n => \A i \in 1..Len(l(k)) : IsLive(l(k)[i])}
           T == {m \in Nat : m <= n =>
                   /\ Len(l(n - m)) <= Len(l(n))
                   /\ \A i \in 1..Len(l(n - m)) : l(n - m)[i] = l(n)[i]}
<1> HIDE DEF l
<1>1. n \in Nat /\ \A k \in 0..n : l(k) \in Seq(Event) /\ Len(l(k)) \in Nat
  BY LiveStep DEF l
<1>2. ASSUME NEW k \in 1..n
      PROVE  /\ k \in 0..n /\ k - 1 \in 0..n
             /\ ~IsLive(es[k]) => l(k) = l(k - 1)
             /\ IsLive(es[k]) => /\ Len(l(k)) = Len(l(k - 1)) + 1
                                 /\ \A i \in 1..Len(l(k - 1)) : l(k)[i] = l(k - 1)[i]
                                 /\ l(k)[Len(l(k))] = es[k]
  <2>1. k \in 0..n /\ k - 1 \in 0..n /\ es[k] \in Event
    BY <1>1
  <2>2. l(k) = IF IsLive(es[k]) THEN Append(l(k - 1), es[k]) ELSE l(k - 1)
    BY LiveStep DEF l
  <2>3. l(k - 1) \in Seq(Event)
    BY <1>1, <2>1
  <2> QED BY <2>1, <2>2, <2>3, AppendProperties
<1>3. 0 \in S
  BY LiveStep DEF l
<1>4. ASSUME NEW k \in Nat, k \in S PROVE k + 1 \in S
  <2> SUFFICES ASSUME k + 1 <= n, NEW i \in 1..Len(l(k + 1)) PROVE IsLive(l(k + 1)[i])
    OBVIOUS
  <2>1. k + 1 \in 1..n /\ (k + 1) - 1 = k /\ k <= n /\ Len(l(k)) \in Nat
    BY <1>1
  <2>2. \A j \in 1..Len(l(k)) : IsLive(l(k)[j])
    BY <1>4, <2>1
  <2>3. CASE ~IsLive(es[k + 1])
    BY <1>2, <2>1, <2>2, <2>3
  <2>4. CASE IsLive(es[k + 1])
    <3>1. /\ Len(l(k + 1)) = Len(l(k)) + 1 /\ l(k + 1)[Len(l(k + 1))] = es[k + 1]
          /\ \A j \in 1..Len(l(k)) : l(k + 1)[j] = l(k)[j]
      BY <1>2, <2>1, <2>4
    <3>2. CASE i = Len(l(k + 1))
      BY <2>4, <3>1, <3>2
    <3>3. CASE i # Len(l(k + 1))
      <4>1. i \in 1..Len(l(k))
        BY <2>1, <3>1, <3>3
      <4> QED BY <2>2, <3>1, <4>1
    <3> QED BY <3>2, <3>3
  <2> QED BY <2>3, <2>4
<1>5. n \in S
  <2> HIDE DEF S
  <2> QED BY <1>1, <1>3, <1>4, SetInduction
<1>6. 0 \in T
  <2>1. n - 0 = n /\ n \in 0..n
    BY <1>1
  <2> QED BY <1>1, <2>1
<1>7. ASSUME NEW m \in Nat, m \in T PROVE m + 1 \in T
  <2> SUFFICES ASSUME m + 1 <= n
               PROVE  /\ Len(l(n - (m + 1))) <= Len(l(n))
                      /\ \A i \in 1..Len(l(n - (m + 1))) : l(n - (m + 1))[i] = l(n)[i]
    OBVIOUS
  <2> DEFINE k == n - m
  <2>1. k \in 1..n /\ k - 1 = n - (m + 1) /\ m <= n
    BY <1>1
  <2>2. Len(l(k)) <= Len(l(n)) /\ \A i \in 1..Len(l(k)) : l(k)[i] = l(n)[i]
    BY <1>7, <2>1
  <2> HIDE DEF k
  <2>3. Len(l(k - 1)) \in Nat /\ Len(l(k)) \in Nat /\ Len(l(n)) \in Nat
    <3>1. n \in 0..n
      BY <1>1
    <3> QED BY <1>1, <1>2, <2>1, <3>1
  <2>4. Len(l(k - 1)) <= Len(l(k)) /\ \A i \in 1..Len(l(k - 1)) : l(k - 1)[i] = l(k)[i]
    BY <1>2, <2>1, <2>3
  <2>5. \A i \in 1..Len(l(k - 1)) : i \in 1..Len(l(k))
    BY <2>3, <2>4
  <2> QED BY <2>1, <2>2, <2>3, <2>4, <2>5
<1>8. Nat \subseteq T
  <2> HIDE DEF T
  <2> QED BY <1>6, <1>7, SetInduction
<1>9. ASSUME NEW k \in 0..n PROVE IsPrefix(l(k), l(n))
  <2>1. n - k \in Nat /\ n - k <= n /\ n - (n - k) = k /\ n \in 0..n
    BY <1>1
  <2>2. n - k \in T
    BY <1>8, <2>1
  <2>3. Len(l(k)) <= Len(l(n)) /\ \A i \in 1..Len(l(k)) : l(k)[i] = l(n)[i]
    BY <2>1, <2>2
  <2> QED BY <1>1, <2>1, <2>3, PrefixByPosition
<1>10. LiveEvents(es) = l(n)
  BY LiveStep DEF l
<1>11. \A i \in 1..Len(l(n)) : IsLive(l(n)[i])
  BY <1>1, <1>5
<1> QED BY <1>9, <1>10, <1>11 DEF l

\* Of events that are all live every one is kept.
LEMMA AllLive ==
  ASSUME NEW es \in Seq(Event), \A i \in 1..Len(es) : IsLive(es[i])
  PROVE  LiveEvents(es) = es
<1> DEFINE n == Len(es)
           l(k) == LiveTo(es, k)
           S == {k \in Nat : k <= n => Len(l(k)) = k /\ \A i \in 1..k : l(k)[i] = es[i]}
<1> HIDE DEF l
<1>1. n \in Nat /\ \A k \in 0..n : l(k) \in Seq(Event)
  BY LiveStep DEF l
<1>2. 0 \in S
  BY LiveStep DEF l
<1>3. ASSUME NEW k \in Nat, k \in S PROVE k + 1 \in S
  <2> SUFFICES ASSUME k + 1 <= n
               PROVE  Len(l(k + 1)) = k + 1 /\ \A i \in 1..(k + 1) : l(k + 1)[i] = es[i]
    OBVIOUS
  <2>1. k + 1 \in 1..n /\ k \in 0..n /\ (k + 1) - 1 = k /\ k <= n /\ es[k + 1] \in Event
    BY <1>1
  <2>2. Len(l(k)) = k /\ l(k) \in Seq(Event) /\ \A i \in 1..k : l(k)[i] = es[i]
    BY <1>1, <1>3, <2>1
  <2>3. l(k + 1) = Append(l(k), es[k + 1])
    BY <2>1, LiveStep DEF l
  <2>4. /\ Len(l(k + 1)) = k + 1 /\ l(k + 1)[k + 1] = es[k + 1]
        /\ \A i \in 1..k : l(k + 1)[i] = l(k)[i]
    <3> DEFINE s == l(k)
               e == es[k + 1]
    <3>1. s \in Seq(Event) /\ e \in Event /\ Len(s) = k /\ l(k + 1) = Append(s, e)
      BY <2>1, <2>2, <2>3
    <3> HIDE DEF s, e
    <3>2. /\ Len(Append(s, e)) = k + 1 /\ Append(s, e)[k + 1] = e
          /\ \A i \in 1..k : Append(s, e)[i] = s[i]
      BY <3>1, AppendProperties
    <3> QED BY <3>1, <3>2 DEF s, e
  <2>5. \A i \in 1..(k + 1) : i \in 1..k \/ i = k + 1
    OBVIOUS
  <2> QED BY <2>2, <2>4, <2>5
<1>4. n \in S
  <2> HIDE DEF S
  <2> QED BY <1>1, <1>2, <1>3, SetInduction
<1>5. Len(l(n)) = n /\ l(n) \in Seq(Event) /\ \A i \in 1..n : l(n)[i] = es[i]
  <2>1. n \in 0..n
    BY <1>1
  <2> QED BY <1>1, <1>4, <2>1
<1>6. l(n) = es
  BY <1>5, SeqEqual
<1> QED BY <1>6, LiveStep DEF l

\* A prefix of the events, decoded, has the first of the live events, decoded.
LEMMA DecodedAnswer ==
  ASSUME NEW es \in Seq(Event), NEW fs \in Seq(Event), IsPrefix(es, fs)
  PROVE  IsPrefix(LiveEvents(DecodedAll(es)), DecodedAll(LiveEvents(fs)))
<1> DEFINE n == Len(es)
           ds == DecodedAll(es)
           l(k) == LiveTo(ds, k)
           m(k) == LiveTo(fs, k)
           S == {k \in Nat : k <= n => l(k) = DecodedAll(m(k))}
<1> HIDE DEF ds, l, m
<1>1. n \in Nat /\ n <= Len(fs) /\ Len(fs) \in Nat /\ \A i \in 1..n : es[i] = fs[i]
  BY PrefixByPosition
<1>2. ds \in Seq(Event) /\ Len(ds) = n
  BY DecodedType DEF ds
<1>3. /\ \A k \in 0..n : l(k) \in Seq(Event)
      /\ \A k \in 0..n : m(k) \in Seq(Event)
  <2>1. \A k \in 0..n : k \in 0..Len(fs)
    BY <1>1
  <2> QED BY <1>2, <2>1, LiveStep DEF l, m
<1>4. ASSUME NEW s \in Seq(Event), NEW e \in Event
      PROVE  DecodedAll(Append(s, e)) = Append(DecodedAll(s), Decoded(e))
  <2> DEFINE a == Append(s, e)
             b == Append(DecodedAll(s), Decoded(e))
  <2>1. /\ a \in Seq(Event) /\ Len(a) = Len(s) + 1 /\ a[Len(s) + 1] = e
        /\ \A i \in 1..Len(s) : a[i] = s[i]
    BY AppendProperties
  <2>2. DecodedAll(s) \in Seq(Event) /\ Len(DecodedAll(s)) = Len(s) /\ Len(s) \in Nat
        /\ DecodedAll(a) \in Seq(Event) /\ Len(DecodedAll(a)) = Len(s) + 1
    <3> HIDE DEF a
    <3> QED BY <2>1, DecodedType
  <2>3. Decoded(e) \in Event
    BY FieldLimitAssumption DEF Decoded, Event
  <2>4. /\ b \in Seq(Event) /\ Len(b) = Len(s) + 1 /\ b[Len(s) + 1] = Decoded(e)
        /\ \A i \in 1..Len(s) : b[i] = DecodedAll(s)[i]
    BY <2>2, <2>3, AppendProperties
  <2> HIDE DEF a, b
  <2>5. ASSUME NEW i \in 1..(Len(s) + 1) PROVE DecodedAll(a)[i] = b[i]
    <3>1. DecodedAll(a)[i] = Decoded(a[i])
      BY <2>1, <2>2 DEF DecodedAll
    <3>2. CASE i = Len(s) + 1
      BY <2>1, <2>4, <3>1, <3>2
    <3>3. CASE i \in 1..Len(s)
      <4>1. DecodedAll(s)[i] = Decoded(s[i])
        BY <3>3 DEF DecodedAll
      <4> QED BY <2>1, <2>4, <3>1, <3>3, <4>1
    <3> QED BY <2>2, <3>2, <3>3
  <2>6. DecodedAll(a) = b
    BY <2>2, <2>4, <2>5, SeqEqual
  <2> QED BY <2>6 DEF a, b
<1>5. 0 \in S
  <2>1. l(0) = <<>> /\ m(0) = <<>>
    BY <1>2, LiveStep DEF l, m
  <2>2. DecodedAll(<<>>) = <<>>
    BY DEF DecodedAll
  <2> QED BY <2>1, <2>2
<1>6. ASSUME NEW k \in Nat, k \in S PROVE k + 1 \in S
  <2> SUFFICES ASSUME k + 1 <= n PROVE l(k + 1) = DecodedAll(m(k + 1))
    OBVIOUS
  <2>1. /\ k + 1 \in 1..n /\ k + 1 \in 1..Len(fs) /\ k \in 0..n /\ (k + 1) - 1 = k /\ k <= n
        /\ es[k + 1] \in Event
    BY <1>1
  <2>2. l(k) = DecodedAll(m(k)) /\ m(k) \in Seq(Event)
    BY <1>3, <1>6, <2>1
  <2>3. ds[k + 1] = Decoded(es[k + 1]) /\ es[k + 1] = fs[k + 1]
    BY <1>1, <2>1 DEF ds, DecodedAll
  <2>4. IsLive(ds[k + 1]) <=> IsLive(es[k + 1])
    BY <2>1, <2>3 DEF IsLive, Decoded, Event
  <2>5. l(k + 1) = IF IsLive(ds[k + 1]) THEN Append(l(k), ds[k + 1]) ELSE l(k)
    BY <1>2, <2>1, LiveStep DEF l
  <2>6. m(k + 1) = IF IsLive(fs[k + 1]) THEN Append(m(k), fs[k + 1]) ELSE m(k)
    BY <2>1, LiveStep DEF m
  <2>7. CASE ~IsLive(es[k + 1])
    BY <2>2, <2>3, <2>4, <2>5, <2>6, <2>7
  <2>8. CASE IsLive(es[k + 1])
    <3>1. DecodedAll(m(k + 1)) = Append(DecodedAll(m(k)), Decoded(fs[k + 1]))
      BY <1>4, <2>1, <2>2, <2>3, <2>6, <2>8
    <3> QED BY <2>2, <2>3, <2>4, <2>5, <2>8, <3>1
  <2> QED BY <2>7, <2>8
<1>7. l(n) = DecodedAll(m(n))
  <2>1. Nat \subseteq S
    <3> HIDE DEF S
    <3> QED BY <1>5, <1>6, SetInduction
  <2> QED BY <1>1, <2>1
<1>8. LiveEvents(ds) = l(n)
  BY <1>2, LiveStep DEF l
<1>9. m(n) \in Seq(Event) /\ LiveEvents(fs) \in Seq(Event) /\ IsPrefix(m(n), LiveEvents(fs))
  <2>1. n \in 0..n /\ n \in 0..Len(fs) /\ Len(fs) \in 0..Len(fs)
    BY <1>1
  <2> QED BY <1>3, <2>1, LiveAreLive, LiveStep DEF m
<1> DEFINE a == m(n)
           b == LiveEvents(fs)
<1>10. a \in Seq(Event) /\ b \in Seq(Event) /\ IsPrefix(a, b)
  BY <1>9
<1> HIDE DEF a, b
<1>11. Len(a) <= Len(b) /\ \A i \in 1..Len(a) : a[i] = b[i]
  BY <1>10, PrefixByPosition
<1>12. /\ DecodedAll(a) \in Seq(Event) /\ Len(DecodedAll(a)) = Len(a)
       /\ DecodedAll(b) \in Seq(Event) /\ Len(DecodedAll(b)) = Len(b)
  BY <1>10, DecodedType
<1>13. \A i \in 1..Len(a) : DecodedAll(a)[i] = DecodedAll(b)[i]
  BY <1>10, <1>11 DEF DecodedAll
<1>14. IsPrefix(DecodedAll(a), DecodedAll(b))
  BY <1>11, <1>12, <1>13, PrefixByPosition
<1> QED BY <1>7, <1>8, <1>14 DEF a, b, ds

-----------------------------------------------------------------------------
(* The answers.                                                            *)

\* The live events of an image are the answer that was given when it was made, and
\* compact has copied the live ones of the events it has looked at.
AnswerInv ==
  /\ answer \in [Paths -> Seq(Event)]
  /\ \A path \in Paths : LiveEvents(lastSave[path].image) = answer[path]
  /\ Filtering => /\ job.next - 1 <= Len(events)
                  /\ job.image = LiveTo(events, job.next - 1)

\* Dropping the tombstones changes no answer, and no step changes an image.
THEOREM AnswersKept == Spec => []AnswerInv
<1>1. Init => AnswerInv
  <2> SUFFICES ASSUME Init PROVE AnswerInv
    OBVIOUS
  <2>1. ~Filtering
    BY DEF Init, Filtering
  <2>2. LiveEvents(<<>>) = <<>>
    <3>1. <<>> \in Seq(Event) /\ Len(<<>>) = 0
      OBVIOUS
    <3> QED BY <3>1, LiveStep
  <2>3. answer \in [Paths -> Seq(Event)]
    BY DEF Init
  <2> QED BY <2>1, <2>2, <2>3 DEF Init, AnswerInv
<1>2. TypeOK /\ AnswerInv /\ [Next]_vars => AnswerInv'
  <2> SUFFICES ASSUME TypeOK, AnswerInv, [Next]_vars PROVE AnswerInv'
    OBVIOUS
  <2>1. events \in Seq(Event) /\ lastSave \in [Paths -> Save]
    BY DEF TypeOK
  \* A step that leaves the images and the answers alone, and starts no copy.
  <2>2. ASSUME \A path \in Paths : lastSave'[path].image = lastSave[path].image,
               answer' = answer, ~Filtering'
        PROVE  AnswerInv'
    BY <2>2 DEF AnswerInv
  <2>3. ASSUME NEW p \in Paths, NEW image \in Seq(Event), OpenForWrite(p, image),
               LiveEvents(image) = LiveEvents(events)
        PROVE  AnswerInv'
    <3>1. ~Filtering'
      BY <2>3 DEF OpenForWrite, Filtering
    <3>2. ASSUME NEW path \in Paths PROVE LiveEvents(lastSave'[path].image) = answer'[path]
      <4>1. CASE path # p
        <5>1. lastSave'[path] = lastSave[path] /\ answer'[path] = answer[path]
          BY <2>1, <2>3, <4>1 DEF OpenForWrite, AnswerInv
        <5> QED BY <5>1 DEF AnswerInv
      <4>2. CASE path = p
        <5>1. lastSave'[path].image = image /\ answer'[path] = LiveEvents(events)
          BY <2>1, <2>3, <4>2 DEF OpenForWrite, AnswerInv
        <5> QED BY <2>3, <5>1
      <4> QED BY <4>1, <4>2
    <3>3. answer' \in [Paths -> Seq(Event)]
      <4>1. Len(events) \in 0..Len(events) /\ LiveEvents(events) \in Seq(Event)
        BY <2>1, LiveStep
      <4> QED BY <2>3, <4>1 DEF OpenForWrite, AnswerInv
    <3> QED BY <3>1, <3>2, <3>3 DEF AnswerInv
  <2>4. ASSUME NEW e \in Drafts, AppendEvent(e) PROVE AnswerInv'
    BY <2>2, <2>4 DEF AppendEvent, Filtering
  <2>5. ASSUME NEW id \in Ids, EraseId(id) PROVE AnswerInv'
    BY <2>2, <2>5 DEF EraseId, Filtering
  <2>6. ASSUME NEW path \in Paths, SaveOpen(path) PROVE AnswerInv'
    BY <2>1, <2>3, <2>6 DEF SaveOpen
  <2>7. ASSUME NEW path \in Paths, CompactBegin(path) PROVE AnswerInv'
    <3>1. job'.next - 1 = 0 /\ job'.image = <<>> /\ events' = events
      BY <2>7 DEF CompactBegin
    <3>2. LiveTo(events, 0) = <<>> /\ 0 <= Len(events)
      BY <2>1, LiveStep
    <3> QED BY <2>7, <3>1, <3>2 DEF AnswerInv, CompactBegin
  <2>8. ASSUME NEW path \in Paths, Load(path) PROVE AnswerInv'
    BY <2>2, <2>8 DEF Load, Filtering
  <2>9. CASE CompactScan
    <3>1. /\ job \in Job /\ job.next \in 1..Len(events) /\ Filtering
          /\ events' = events /\ lastSave' = lastSave /\ answer' = answer
      BY <2>1, <2>9 DEF CompactScan, Filtering, TypeOK, Job
    <3>2. /\ job'.next = job.next + 1
          /\ job'.image = IF IsLive(events[job.next]) THEN Append(job.image, events[job.next])
                          ELSE job.image
      BY <2>9, <3>1 DEF CompactScan, Job
    <3>3. job.image = LiveTo(events, job.next - 1)
      BY <3>1 DEF AnswerInv
    <3>4. job'.image = LiveTo(events, job.next)
      BY <2>1, <3>1, <3>2, <3>3, LiveStep
    <3>5. job'.next - 1 = job.next /\ job.next <= Len(events)
      BY <2>1, <3>1, <3>2
    <3> QED BY <3>1, <3>4, <3>5 DEF AnswerInv
  <2>10. CASE CompactOpen
    <3>1. job \in Job /\ job.path \in Paths /\ job.image \in Seq(Event) /\ job.next \in Nat
      BY <2>10 DEF CompactOpen, Filtering, TypeOK, Job
    <3>2. job.next - 1 = Len(events) /\ job.image = LiveTo(events, job.next - 1)
      BY <2>1, <2>10, <3>1 DEF CompactOpen, AnswerInv
    <3>3. job.image = LiveEvents(events)
      BY <2>1, <3>2, LiveStep
    <3>4. LiveEvents(job.image) = job.image
      BY <2>1, <3>1, <3>3, LiveAreLive, AllLive
    <3> QED BY <2>3, <2>10, <3>1, <3>3, <3>4 DEF CompactOpen
  <2>16. CASE CompactRefused
    BY <2>2, <2>16 DEF CompactRefused, Filtering
  <2>11. CASE WriteHeader \/ WriteLength \/ WritePage
    BY <2>2, <2>11 DEF WriteHeader, WriteLength, WritePage, WriteTo, Writing, Filtering
  <2>12. CASE WriteFails
    <3>1. \A path \in Paths : lastSave'[path].image = lastSave[path].image
      BY <2>1, <2>12 DEF WriteFails, Save
    <3> QED BY <2>2, <2>12, <3>1 DEF WriteFails, Writing, Filtering
  <2>13. CASE SaveReturn
    <3>1. \A path \in Paths : lastSave'[path].image = lastSave[path].image
      BY <2>1, <2>13 DEF SaveReturn, Save
    <3> QED BY <2>2, <2>13, <3>1 DEF SaveReturn, Filtering
  <2>14. CASE Restart
    BY <2>2, <2>14 DEF Restart, Filtering
  <2>15. CASE UNCHANGED vars
    BY <2>15 DEF vars, AnswerInv, Filtering
  <2> QED
    BY <2>4, <2>5, <2>6, <2>7, <2>8, <2>9, <2>10, <2>11, <2>12, <2>13, <2>14, <2>15,
       <2>16 DEF Next
<1> QED BY <1>1, <1>2, TypeCorrect, PTL DEF Spec

\* A query of any file at any moment sees a prefix of what live_events() gave when the
\* file was last saved or compacted.
THEOREM AnswerIsPrefixHolds == Spec => []AnswerIsPrefix
<1>1. TypeOK /\ StoreInv /\ AnswerInv => AnswerIsPrefix
  <2> SUFFICES ASSUME TypeOK, StoreInv, AnswerInv, NEW path \in Paths, file[path] # NoFile
               PROVE  IsPrefix(LiveEvents(Loaded(file[path], <<>>)), DecodedAll(answer[path]))
    BY DEF AnswerIsPrefix
  <2> DEFINE pages == file[path].pages
             image == lastSave[path].image
  <2>1. pages \in Seq(Event) /\ image \in Seq(Event) /\ IsPrefix(pages, image)
    BY DEF TypeOK, File, Save, StoreInv, PrefixAt
  <2>2. answer[path] = LiveEvents(image)
    BY DEF AnswerInv
  <2>3. ASSUME NEW es \in Seq(Event), IsPrefix(es, image), Loaded(file[path], <<>>) = DecodedAll(es)
        PROVE  IsPrefix(LiveEvents(Loaded(file[path], <<>>)), DecodedAll(answer[path]))
    BY <2>1, <2>2, <2>3, DecodedAnswer
  <2>4. CASE file[path].header
    BY <2>1, <2>3, <2>4 DEF Loaded
  <2>5. CASE ~file[path].header
    <3>1. <<>> \in Seq(Event) /\ DecodedAll(<<>>) = <<>> /\ Loaded(file[path], <<>>) = <<>>
      BY <2>5 DEF DecodedAll, Loaded
    <3>2. IsPrefix(<<>>, image)
      BY <2>1, EmptyFilePrefix DEF EmptyFile
    <3> QED BY <2>3, <3>1, <3>2
  <2> QED BY <2>4, <2>5
<1> QED BY <1>1, TypeCorrect, StoreSafe, AnswersKept, PTL
=============================================================================

------------------------------- MODULE ToolProofs -------------------------------
(***************************************************************************)
(* What the tools do with any input. The ids that logindex gives to the    *)
(* events of any files, of any lines, in any number, collide only when a   *)
(* file is given twice; the message of a syslog line is what follows its   *)
(* tag. A query that logquery reads selects the events it means, whatever  *)
(* its comparisons and however deep it nests.                              *)
(***************************************************************************)
EXTENDS LogIndex, Query, Recursion, SequenceTheorems, TLAPS

\* The events that the lines of the contents can give.
Records ==
  {Event(source, line, ordinal, MixedOutcome(line)) :
     source \in Names, line \in Lines, ordinal \in Nat}

Typed ==
  /\ args \in Seq(Names)
  /\ content \in [Names -> Contents \cup {Unreadable}]
  /\ cur \in Nat \ {0} /\ pos \in Nat /\ ord \in Nat
  /\ phase = "read" => cur <= Len(args) /\ content[args[cur]] \in Contents
  /\ parsed \in Seq(Records) /\ store \in Seq(Records)

\* The events of the file in hand have its name and are numbered one after the other.
Numbered ==
  phase = "read" =>
    /\ ord = Len(parsed)
    /\ \A i \in 1..Len(parsed) : parsed[i].id[1] = args[cur] /\ parsed[i].id[2] = i - 1

\* Every stored event has the name of a file that is done.
FromDone == \A i \in 1..Len(store) : \E k \in 1..cur - 1 : k <= Len(args) /\ args[k] = store[i].id[1]

\* Stored events of one name and number come from a name that was done twice.
Apart ==
  \A i, j \in 1..Len(store) :
    i < j /\ store[i].id[1] = store[j].id[1] /\ store[i].id[2] = store[j].id[2] =>
      \E k, l \in 1..Len(args) : k < l /\ l < cur /\ args[k] = args[l] /\ args[k] = store[i].id[1]

Inv == Typed /\ Numbered /\ FromDone /\ Apart

-----------------------------------------------------------------------------

\* An event has the source, ordinal and line it was made of.
LEMMA EventId ==
  ASSUME NEW source, NEW line, NEW ordinal, NEW outcome
  PROVE  /\ Event(source, line, ordinal, outcome).id[1] = source
         /\ Event(source, line, ordinal, outcome).id[2] = ordinal
BY DEF Event

\* logindex begins with an empty store.
LEMMA InitInv == Init => Inv
<1> SUFFICES ASSUME Init PROVE Inv
  OBVIOUS
<1>1. args \in Seq(Names)
  <2>1. PICK n \in 1..MaxArgs : args \in [1..n -> Names]
    BY DEF Init
  <2>2. n \in Nat
    BY <2>1, LogIndexAssumption
  <2> QED BY <2>1, <2>2
<1>2. parsed = <<>> /\ store = <<>> /\ phase = "open" /\ cur = 1 /\ pos = 0 /\ ord = 0
  BY DEF Init
<1>3. content \in [Names -> Contents \cup {Unreadable}]
  BY DEF Init
<1>4. Typed
  BY <1>1, <1>2, <1>3 DEF Typed
<1>5. Numbered /\ FromDone /\ Apart
  BY <1>2 DEF Numbered, FromDone, Apart
<1> QED BY <1>4, <1>5 DEF Inv

\* A file is opened: no event of it yet.
LEMMA OpenKeepsInv == Inv /\ OpenFile => Inv'
<1> SUFFICES ASSUME Inv, OpenFile PROVE Inv'
  OBVIOUS
<1>1. /\ phase' = "read" /\ pos' = 0 /\ ord' = 0 /\ parsed' = <<>>
      /\ args' = args /\ content' = content /\ cur' = cur /\ store' = store
      /\ cur <= Len(args) /\ content[args[cur]] # Unreadable
  BY DEF OpenFile
<1>2. content[args[cur]] \in Contents
  BY <1>1 DEF Inv, Typed
<1>3. Typed'
  BY <1>1, <1>2 DEF Inv, Typed
<1>4. Numbered'
  BY <1>1 DEF Numbered
<1>5. FromDone' /\ Apart'
  BY <1>1 DEF Inv, FromDone, Apart
<1> QED BY <1>3, <1>4, <1>5 DEF Inv

\* A line that is read is passed over, gives the next event, or ends the program.
LEMMA ReadLineKeepsInv == Inv /\ ReadLine => Inv'
<1> SUFFICES ASSUME Inv, ReadLine PROVE Inv'
  OBVIOUS
<1> DEFINE line    == content[args[cur]][pos + 1]
           outcome == MixedOutcome(line)
           new     == Event(args[cur], line, ord, outcome)
<1>1. /\ phase = "read" /\ pos < Len(content[args[cur]])
      /\ args' = args /\ content' = content /\ cur' = cur /\ store' = store
  BY DEF ReadLine
<1>2. /\ args \in Seq(Names) /\ cur \in 1..Len(args) /\ args[cur] \in Names
      /\ content[args[cur]] \in Seq(Lines) /\ pos \in Nat /\ ord \in Nat
      /\ parsed \in Seq(Records) /\ store \in Seq(Records)
  <2>1. args \in Seq(Names) /\ cur \in 1..Len(args) /\ content[args[cur]] \in Contents
    BY <1>1 DEF Inv, Typed
  <2>2. args[cur] \in Names
    BY <2>1
  <2> QED BY <2>1, <2>2, ContentsAssumption DEF Inv, Typed
<1>3. FromDone' /\ Apart'
  BY <1>1 DEF Inv, FromDone, Apart
<1>4. CASE phase' = phase /\ ord' = ord /\ parsed' = parsed /\ pos' \in Nat
  BY <1>1, <1>3, <1>4 DEF Inv, Typed, Numbered
<1>5. CASE phase' = phase /\ pos' = pos + 1 /\ ord' = ord + 1 /\ parsed' = Append(parsed, new)
  <2>1. line \in Lines
    BY <1>1, <1>2
  <2>2. new \in Records
    BY <1>2, <2>1 DEF Records
  <2> HIDE DEF new
  <2>3. /\ parsed' \in Seq(Records) /\ Len(parsed') = Len(parsed) + 1
        /\ \A i \in 1..Len(parsed) : parsed'[i] = parsed[i]
        /\ parsed'[Len(parsed) + 1] = new
    BY <1>2, <1>5, <2>2, AppendProperties
  <2>4. Typed'
    BY <1>1, <1>2, <1>5, <2>3 DEF Inv, Typed
  <2>5. new.id[1] = args[cur] /\ new.id[2] = ord
    BY EventId DEF new
  <2>6. Numbered'
    BY <1>1, <1>2, <1>5, <2>3, <2>5 DEF Inv, Numbered
  <2> QED BY <1>3, <2>4, <2>6 DEF Inv
<1>6. CASE phase' = "aborted" /\ UNCHANGED <<pos, ord, parsed>>
  BY <1>1, <1>3, <1>6 DEF Inv, Typed, Numbered
<1> QED
  <2>1. \/ pos' = pos + 1 /\ UNCHANGED <<phase, ord, parsed>>
        \/ phase' = phase /\ pos' = pos + 1 /\ ord' = ord + 1 /\ parsed' = Append(parsed, new)
        \/ phase' = "aborted" /\ UNCHANGED <<pos, ord, parsed>>
    BY DEF ReadLine
  <2> QED BY <1>2, <1>4, <1>5, <1>6, <2>1

\* The events of a file go into the store. Among those that were there before, two of
\* one id are of two files that are done; a new and an old one are of this file and one
\* that is done; two new ones have their numbers.
LEMMA EndFileKeepsInv == Inv /\ EndFile => Inv'
<1> SUFFICES ASSUME Inv, EndFile PROVE Inv'
  OBVIOUS
<1>1. /\ phase = "read" /\ phase' = "open" /\ store' = store \o parsed /\ cur' = cur + 1
      /\ args' = args /\ content' = content /\ pos' = pos /\ ord' = ord /\ parsed' = parsed
  BY DEF EndFile
<1>2. /\ args \in Seq(Names) /\ cur \in 1..Len(args)
      /\ parsed \in Seq(Records) /\ store \in Seq(Records)
  BY <1>1 DEF Inv, Typed
<1>3. /\ store' \in Seq(Records) /\ Len(store') = Len(store) + Len(parsed)
      /\ \A i \in 1..(Len(store) + Len(parsed)) :
           store'[i] = IF i <= Len(store) THEN store[i] ELSE parsed[i - Len(store)]
  BY <1>1, <1>2, ConcatProperties
<1>4. Len(store) \in Nat /\ Len(parsed) \in Nat /\ Len(args) \in Nat
  BY <1>2
<1>5. \A i \in Len(store) + 1..Len(store') :
        store'[i].id[1] = args[cur] /\ store'[i].id[2] = i - Len(store) - 1
  <2> SUFFICES ASSUME NEW i \in Len(store) + 1..Len(store')
               PROVE  store'[i].id[1] = args[cur] /\ store'[i].id[2] = i - Len(store) - 1
    OBVIOUS
  <2>1. i - Len(store) \in 1..Len(parsed) /\ store'[i] = parsed[i - Len(store)]
    BY <1>3, <1>4
  <2> QED BY <1>1, <1>4, <2>1 DEF Inv, Numbered
<1>6. \A i \in 1..Len(store) : store'[i] = store[i]
  BY <1>3, <1>4
<1>7. Typed'
  BY <1>1, <1>2, <1>3 DEF Inv, Typed
<1>8. Numbered'
  BY <1>1 DEF Numbered
<1>9. FromDone'
  <2>0. cur' - 1 = cur
    BY <1>1, <1>2
  <2> SUFFICES ASSUME NEW i \in 1..Len(store')
               PROVE  \E k \in 1..cur' - 1 : k <= Len(args) /\ args[k] = store'[i].id[1]
    BY <1>1 DEF FromDone
  <2>1. CASE i <= Len(store)
    <3>1. PICK k \in 1..cur - 1 : k <= Len(args) /\ args[k] = store[i].id[1]
      BY <1>3, <1>4, <2>1 DEF Inv, FromDone
    <3>2. store'[i] = store[i] /\ k \in 1..cur' - 1
      BY <1>2, <1>4, <1>6, <2>0, <2>1, <3>1
    <3> QED BY <3>1, <3>2
  <2>2. CASE i > Len(store)
    <3>1. store'[i].id[1] = args[cur] /\ cur \in 1..cur' - 1 /\ cur <= Len(args)
      BY <1>2, <1>3, <1>4, <1>5, <2>0, <2>2
    <3> QED BY <3>1
  <2> QED BY <1>3, <1>4, <2>1, <2>2
<1>10. Apart'
  <2> SUFFICES ASSUME NEW i \in 1..Len(store'), NEW j \in 1..Len(store'), i < j,
                      store'[i].id[1] = store'[j].id[1], store'[i].id[2] = store'[j].id[2]
               PROVE  \E k, l \in 1..Len(args) :
                        k < l /\ l < cur + 1 /\ args[k] = args[l] /\ args[k] = store'[i].id[1]
    BY <1>1 DEF Apart
  <2>1. CASE j <= Len(store)
    <3>1. i \in 1..Len(store) /\ j \in 1..Len(store)
      BY <1>3, <1>4, <2>1
    <3>2. store'[i] = store[i] /\ store'[j] = store[j]
      BY <1>6, <3>1
    <3>3. PICK k \in 1..Len(args), l \in 1..Len(args) :
            k < l /\ l < cur /\ args[k] = args[l] /\ args[k] = store[i].id[1]
      BY <3>1, <3>2 DEF Inv, Apart
    <3>4. l < cur + 1
      BY <1>2, <1>4, <3>3
    <3> QED BY <3>2, <3>3, <3>4
  <2>2. CASE i <= Len(store) /\ j > Len(store)
    <3>1. i \in 1..Len(store) /\ store'[i] = store[i] /\ store'[j].id[1] = args[cur]
      <4>1. i \in 1..Len(store) /\ j \in Len(store) + 1..Len(store')
        BY <1>3, <1>4, <2>2
      <4> QED BY <1>5, <1>6, <4>1
    <3>2. PICK k \in 1..cur - 1 : k <= Len(args) /\ args[k] = store[i].id[1]
      BY <3>1 DEF Inv, FromDone
    <3>3. k \in 1..Len(args) /\ k < cur /\ cur < cur + 1 /\ args[k] = args[cur]
      BY <1>2, <1>4, <3>1, <3>2
    <3> QED BY <1>2, <3>1, <3>2, <3>3
  <2>3. CASE i > Len(store)
    <3>1. store'[i].id[2] = i - Len(store) - 1 /\ store'[j].id[2] = j - Len(store) - 1
      BY <1>3, <1>4, <1>5, <2>3
    <3>2. i - Len(store) - 1 = j - Len(store) - 1
      BY <3>1
    <3>3. i \in Int /\ j \in Int
      OBVIOUS
    <3>4. i = j
      BY <1>4, <3>2, <3>3
    <3> QED BY <3>3, <3>4
  <2> QED BY <1>3, <1>4, <2>1, <2>2, <2>3
<1> QED BY <1>7, <1>8, <1>9, <1>10 DEF Inv

\* Whatever logindex does next keeps the invariant.
LEMMA NextKeepsInv == Inv /\ [Next]_vars => Inv'
<1> SUFFICES ASSUME Inv, [Next]_vars PROVE Inv'
  OBVIOUS
<1>1. CASE OpenFile
  BY <1>1, OpenKeepsInv
<1>2. CASE SkipUnreadable
  <2>1. /\ phase = "open" /\ phase' = phase /\ cur' = cur + 1
        /\ UNCHANGED <<args, content, pos, ord, parsed, store>>
    BY <1>2 DEF SkipUnreadable
  <2>2. Typed' /\ Numbered'
    BY <2>1 DEF Inv, Typed, Numbered
  <2>3. cur \in Nat /\ Len(args) \in Nat
    BY DEF Inv, Typed
  <2>4. FromDone'
    BY <2>1, <2>3 DEF Inv, FromDone
  <2>5. Apart'
    <3> SUFFICES ASSUME NEW i \in 1..Len(store), NEW j \in 1..Len(store), i < j,
                        store[i].id[1] = store[j].id[1], store[i].id[2] = store[j].id[2]
                 PROVE  \E k, l \in 1..Len(args) :
                          k < l /\ l < cur + 1 /\ args[k] = args[l] /\ args[k] = store[i].id[1]
      BY <2>1 DEF Apart
    <3>1. PICK k \in 1..Len(args), l \in 1..Len(args) :
            k < l /\ l < cur /\ args[k] = args[l] /\ args[k] = store[i].id[1]
      BY DEF Inv, Apart
    <3>2. l < cur + 1
      BY <2>3, <3>1
    <3> QED BY <3>1, <3>2
  <2> QED BY <2>2, <2>4, <2>5 DEF Inv
<1>3. CASE ReadLine
  BY <1>3, ReadLineKeepsInv
<1>4. CASE EndFile
  BY <1>4, EndFileKeepsInv
<1>5. CASE SaveStore
  BY <1>5 DEF SaveStore, Inv, Typed, Numbered, FromDone, Apart
<1>6. CASE UNCHANGED vars
  BY <1>6 DEF vars, Inv, Typed, Numbered, FromDone, Apart
<1> QED BY <1>1, <1>2, <1>3, <1>4, <1>5, <1>6 DEF Next

\* The inductive invariant of the main loop of logindex with parse_mixed_lines.
THEOREM InvHolds == Spec => []Inv
BY InitInv, NextKeepsInv, PTL DEF Spec

\* Two records of a store have one id only when their file was given twice (stable_id
\* over source, ordinal and line): the ordinals tell equal lines of a file apart,
\* although rejected and blank lines take none.
THEOREM IdsCollideOnlyOnReindexHolds == Spec => []IdsCollideOnlyOnReindex
<1>1. Inv => IdsCollideOnlyOnReindex
  <2> SUFFICES ASSUME Inv, NEW i \in 1..Len(store), NEW j \in 1..Len(store), i < j,
                      store[i].id = store[j].id
               PROVE  \E k, l \in 1..Len(args) :
                        k < l /\ args[k] = args[l] /\ args[k] = store[i].id[1]
    BY DEF IdsCollideOnlyOnReindex
  <2>1. store[i].id[1] = store[j].id[1] /\ store[i].id[2] = store[j].id[2]
    OBVIOUS
  <2>2. PICK k \in 1..Len(args), l \in 1..Len(args) :
          k < l /\ l < cur /\ args[k] = args[l] /\ args[k] = store[i].id[1]
    BY <2>1 DEF Inv, Apart
  <2> QED BY <2>2
<1> QED BY <1>1, InvHolds, PTL

-----------------------------------------------------------------------------
(* The valid lines, in turns of the loops over lines and over files.       *)

\* One line more: it is taken when it is valid.
LEMMA ValidStep ==
  ASSUME NEW lines \in Seq(Lines)
  PROVE  /\ ValidLines(lines, 0) = <<>>
         /\ \A k \in 0..Len(lines) : ValidLines(lines, k) \in Seq(Lines)
         /\ \A k \in 1..Len(lines) :
              ValidLines(lines, k) =
                IF Valid(lines[k]) THEN Append(ValidLines(lines, k - 1), lines[k])
                ELSE ValidLines(lines, k - 1)
<1> DEFINE n == Len(lines)
           D == 0..n
           V == Seq(Lines)
           turn(s, i) == IF i = 0 THEN <<>> ELSE IF Valid(lines[i]) THEN Append(s, lines[i]) ELSE s
           step == [p \in V \X D |-> turn(p[1], p[2])]
           turns(f) == [i \in 0..n |->
             IF i = 0 THEN <<>>
             ELSE IF Valid(lines[i]) THEN Append(f[i - 1], lines[i]) ELSE f[i - 1]]
           f == CHOOSE h : h = turns(h)
<1>1. n \in Nat /\ <<>> \in V /\ \A i \in 1..n : i - 1 \in D /\ lines[i] \in Lines
  OBVIOUS
<1>2. ASSUME NEW s \in V, NEW i \in D PROVE turn(s, i) \in V
  <2>1. CASE i = 0
    BY <2>1
  <2>2. CASE i # 0
    <3>1. lines[i] \in Lines
      BY <1>1, <2>2
    <3>2. Append(s, lines[i]) \in V
      BY <3>1, AppendProperties
    <3> QED BY <2>2, <3>2
  <2> QED BY <2>1, <2>2
<1>3. step \in [V \X D -> V]
  <2> HIDE DEF turn, V, D
  <2> QED BY <1>2
<1>4. PICK g \in [D -> V] : Loop(g, D, <<>>, step)
  <2>1. D \in Counts
    BY <1>1, CountsAre
  <2> HIDE DEF step, D, V
  <2> QED BY <1>1, <1>3, <2>1, LoopExists
<1>5. ASSUME NEW i \in D \ {0}
      PROVE  g[i] = IF Valid(lines[i]) THEN Append(g[i - 1], lines[i]) ELSE g[i - 1]
  <2>1. i - 1 \in D
    BY <1>1
  <2>2. step[<<g[i - 1], i>>] = turn(g[i - 1], i)
    <3> HIDE DEF turn
    <3> QED BY <2>1
  <2> HIDE DEF step, V, D
  <2> QED BY <1>4, <2>2 DEF Loop
<1>6. g = turns(g)
  <2>1. g[0] = <<>>
    BY <1>4 DEF Loop
  <2> QED BY <1>5, <2>1
<1>7. f = turns(f)
  <2> HIDE DEF turns
  <2> QED BY <1>6
<1>8. \A k \in D : ValidLines(lines, k) = f[k]
  BY DEF ValidLines
<1> HIDE DEF f
<1>9. /\ f[0] = <<>>
      /\ \A i \in 1..n : f[i] = IF Valid(lines[i]) THEN Append(f[i - 1], lines[i]) ELSE f[i - 1]
  <2>1. 0 \in 0..n /\ \A i \in 1..n : i \in 0..n /\ i # 0
    BY <1>1
  <2> QED BY <1>7, <2>1
<1> DEFINE S == {i \in Nat : i <= n => f[i] \in V}
<1>10. 0 \in S
  BY <1>1, <1>9
<1>11. ASSUME NEW i \in Nat, i \in S PROVE i + 1 \in S
  <2> SUFFICES ASSUME i + 1 <= n PROVE f[i + 1] \in V
    OBVIOUS
  <2>1. i + 1 \in 1..n /\ (i + 1) - 1 = i /\ i <= n
    BY <1>1
  <2>2. f[i] \in V /\ lines[i + 1] \in Lines
    BY <1>1, <1>11, <2>1
  <2>3. Append(f[i], lines[i + 1]) \in V
    BY <2>2, AppendProperties
  <2>4. f[i + 1] = IF Valid(lines[i + 1]) THEN Append(f[i], lines[i + 1]) ELSE f[i]
    BY <1>9, <2>1
  <2> QED BY <2>2, <2>3, <2>4
<1>12. \A k \in D : f[k] \in V
  <2>1. Nat \subseteq S
    <3> HIDE DEF S
    <3> QED BY <1>10, <1>11, SetInduction
  <2> QED BY <1>1, <2>1
<1>13. 0 \in D /\ \A k \in 1..n : k \in D /\ k - 1 \in D
  BY <1>1
<1> HIDE DEF D, V
<1> QED BY <1>8, <1>9, <1>12, <1>13 DEF D, V

\* One file more: its valid lines follow, when it can be read.
LEMMA FilesStep ==
  ASSUME NEW names \in Seq(Names), NEW files \in [Names -> Contents \cup {Unreadable}]
  PROVE  /\ LinesOfFiles(names, files, 0) = <<>>
         /\ \A k \in 0..Len(names) : LinesOfFiles(names, files, k) \in Seq(Lines)
         /\ \A k \in 1..Len(names) :
              LinesOfFiles(names, files, k) =
                IF files[names[k]] = Unreadable THEN LinesOfFiles(names, files, k - 1)
                ELSE LinesOfFiles(names, files, k - 1)
                       \o ValidLines(files[names[k]], Len(files[names[k]]))
<1> DEFINE n == Len(names)
           D == 0..n
           V == Seq(Lines)
           valid(i) == ValidLines(files[names[i]], Len(files[names[i]]))
           turn(s, i) == IF i = 0 THEN <<>>
                         ELSE IF files[names[i]] = Unreadable THEN s ELSE s \o valid(i)
           step == [p \in V \X D |-> turn(p[1], p[2])]
           turns(f) == [i \in 0..n |->
             IF i = 0 THEN <<>>
             ELSE IF files[names[i]] = Unreadable THEN f[i - 1]
             ELSE f[i - 1] \o ValidLines(files[names[i]], Len(files[names[i]]))]
           f == CHOOSE h : h = turns(h)
<1>1. n \in Nat /\ <<>> \in V /\ \A i \in 1..n : i - 1 \in D /\ names[i] \in Names
  OBVIOUS
<1>2. ASSUME NEW i \in 1..n, files[names[i]] # Unreadable PROVE valid(i) \in V
  <2>1. files[names[i]] \in Seq(Lines)
    BY <1>1, <1>2, ContentsAssumption
  <2>2. Len(files[names[i]]) \in 0..Len(files[names[i]])
    BY <2>1
  <2> QED BY <2>1, <2>2, ValidStep
<1>3. ASSUME NEW s \in V, NEW i \in 1..n
      PROVE  (IF files[names[i]] = Unreadable THEN s ELSE s \o valid(i)) \in V
  <2>1. CASE files[names[i]] # Unreadable
    <3>1. valid(i) \in V
      BY <1>2, <2>1
    <3> HIDE DEF valid
    <3> QED BY <2>1, <3>1, ConcatProperties
  <2> QED BY <2>1
<1>4. step \in [V \X D -> V]
  <2>1. ASSUME NEW s \in V, NEW i \in D PROVE turn(s, i) \in V
    <3>1. CASE i = 0
      BY <3>1
    <3>2. CASE i # 0
      <4>1. i \in 1..n
        BY <1>1, <3>2
      <4> HIDE DEF valid, V
      <4> QED BY <1>3, <3>2, <4>1
    <3> QED BY <3>1, <3>2
  <2> HIDE DEF turn, V, D
  <2> QED BY <2>1
<1>5. PICK g \in [D -> V] : Loop(g, D, <<>>, step)
  <2>1. D \in Counts
    BY <1>1, CountsAre
  <2> HIDE DEF step, D, V
  <2> QED BY <1>1, <1>4, <2>1, LoopExists
<1>6. ASSUME NEW i \in D \ {0} PROVE g[i] = turn(g[i - 1], i)
  <2>1. i - 1 \in D
    BY <1>1
  <2>2. step[<<g[i - 1], i>>] = turn(g[i - 1], i)
    <3> HIDE DEF turn
    <3> QED BY <2>1
  <2> HIDE DEF step, V, D, turn
  <2> QED BY <1>5, <2>2 DEF Loop
<1>7. g = turns(g)
  <2>1. g[0] = <<>>
    BY <1>5 DEF Loop
  <2> QED BY <1>6, <2>1
<1>8. f = turns(f)
  <2> HIDE DEF turns
  <2> QED BY <1>7
<1>9. \A k \in D : LinesOfFiles(names, files, k) = f[k]
  BY DEF LinesOfFiles
<1> HIDE DEF f
<1>10. /\ f[0] = <<>>
       /\ \A i \in 1..n : f[i] = IF files[names[i]] = Unreadable THEN f[i - 1]
                                 ELSE f[i - 1] \o valid(i)
  <2>1. 0 \in 0..n /\ \A i \in 1..n : i \in 0..n /\ i # 0
    BY <1>1
  <2> QED BY <1>8, <2>1
<1> DEFINE S == {i \in Nat : i <= n => f[i] \in V}
<1>11. 0 \in S
  BY <1>1, <1>10
<1>12. ASSUME NEW i \in Nat, i \in S PROVE i + 1 \in S
  <2> SUFFICES ASSUME i + 1 <= n PROVE f[i + 1] \in V
    OBVIOUS
  <2>1. i + 1 \in 1..n /\ (i + 1) - 1 = i /\ f[i] \in V
    BY <1>1, <1>12
  <2>2. f[i + 1] = IF files[names[i + 1]] = Unreadable THEN f[i] ELSE f[i] \o valid(i + 1)
    BY <1>10, <2>1
  <2> HIDE DEF valid, V
  <2> QED BY <1>3, <2>1, <2>2
<1>13. \A k \in D : f[k] \in V
  <2>1. Nat \subseteq S
    <3> HIDE DEF S
    <3> QED BY <1>11, <1>12, SetInduction
  <2> QED BY <1>1, <2>1
<1>14. 0 \in D /\ \A k \in 1..n : k \in D /\ k - 1 \in D
  BY <1>1
<1> HIDE DEF D, V
<1> QED BY <1>9, <1>10, <1>13, <1>14 DEF D, V

-----------------------------------------------------------------------------
(* What is stored.                                                         *)

\* The store holds what the files that are done give, the events in hand are those of
\* the lines that were read.
Filled ==
  /\ cur <= Len(args) + 1
  /\ EventsOf(store, LinesOfFiles(args, content, cur - 1))
  /\ phase = "read" =>
       /\ pos <= Len(content[args[cur]])
       /\ EventsOf(parsed, ValidLines(content[args[cur]], pos))
  /\ phase = "saved" => cur = Len(args) + 1

\* Another event of another line.
LEMMA EventsAppend ==
  ASSUME NEW events \in Seq(Records), NEW lines \in Seq(Lines), EventsOf(events, lines),
         NEW e \in Records, NEW line \in Lines,
         e.id[3] = line, e.kind = MixedOutcome(line).kind
  PROVE  EventsOf(Append(events, e), Append(lines, line))
<1> DEFINE es == Append(events, e)
           ls == Append(lines, line)
<1>1. /\ Len(es) = Len(events) + 1 /\ \A i \in 1..Len(events) : es[i] = events[i]
      /\ es[Len(events) + 1] = e
  BY AppendProperties
<1>2. /\ Len(ls) = Len(lines) + 1 /\ \A i \in 1..Len(lines) : ls[i] = lines[i]
      /\ ls[Len(lines) + 1] = line
  BY AppendProperties
<1>3. Len(lines) \in Nat /\ Len(events) = Len(lines)
  BY DEF EventsOf
<1> HIDE DEF es, ls
<1>4. ASSUME NEW i \in 1..Len(ls) PROVE es[i].id[3] = ls[i] /\ es[i].kind = MixedOutcome(ls[i]).kind
  <2>1. CASE i = Len(lines) + 1
    BY <1>1, <1>2, <1>3, <2>1
  <2>2. CASE i # Len(lines) + 1
    <3>1. i \in 1..Len(lines)
      BY <1>2, <1>3, <2>2
    <3>2. es[i] = events[i] /\ ls[i] = lines[i]
      BY <1>1, <1>2, <1>3, <3>1
    <3> QED BY <3>1, <3>2 DEF EventsOf
  <2> QED BY <2>1, <2>2
<1>5. EventsOf(es, ls)
  BY <1>1, <1>2, <1>3, <1>4 DEF EventsOf
<1> QED BY <1>5 DEF es, ls

\* The events of one file behind those of others.
LEMMA EventsConcat ==
  ASSUME NEW events \in Seq(Records), NEW lines \in Seq(Lines), EventsOf(events, lines),
         NEW more \in Seq(Records), NEW others \in Seq(Lines), EventsOf(more, others)
  PROVE  EventsOf(events \o more, lines \o others)
<1> DEFINE es == events \o more
           ls == lines \o others
<1>1. /\ Len(es) = Len(events) + Len(more)
      /\ \A i \in 1..(Len(events) + Len(more)) :
           es[i] = IF i <= Len(events) THEN events[i] ELSE more[i - Len(events)]
  BY ConcatProperties
<1>2. /\ Len(ls) = Len(lines) + Len(others)
      /\ \A i \in 1..(Len(lines) + Len(others)) :
           ls[i] = IF i <= Len(lines) THEN lines[i] ELSE others[i - Len(lines)]
  BY ConcatProperties
<1>3. /\ Len(lines) \in Nat /\ Len(events) = Len(lines)
      /\ Len(others) \in Nat /\ Len(more) = Len(others)
  BY DEF EventsOf
<1> HIDE DEF es, ls
<1>4. ASSUME NEW i \in 1..Len(ls) PROVE es[i].id[3] = ls[i] /\ es[i].kind = MixedOutcome(ls[i]).kind
  <2>1. CASE i <= Len(lines)
    <3>1. i \in 1..Len(lines)
      BY <1>2, <1>3, <2>1
    <3>2. es[i] = events[i] /\ ls[i] = lines[i]
      BY <1>1, <1>2, <1>3, <2>1
    <3> QED BY <3>1, <3>2 DEF EventsOf
  <2>2. CASE i > Len(lines)
    <3> DEFINE k == i - Len(lines)
    <3>1. k \in 1..Len(others)
      BY <1>2, <1>3, <2>2
    <3>2. es[i] = more[k] /\ ls[i] = others[k]
      BY <1>1, <1>2, <1>3, <2>2
    <3> HIDE DEF k
    <3> QED BY <3>1, <3>2 DEF EventsOf
  <2> QED BY <1>3, <2>1, <2>2
<1>5. EventsOf(es, ls)
  BY <1>1, <1>2, <1>3, <1>4 DEF EventsOf
<1> QED BY <1>5 DEF es, ls

\* One turn of the loop over lines.
LEMMA ReadLineKeepsFilled == Inv /\ Filled /\ ReadLine => Filled'
<1> SUFFICES ASSUME Inv, Filled, ReadLine PROVE Filled'
  OBVIOUS
<1> DEFINE lines   == content[args[cur]]
           line    == lines[pos + 1]
           outcome == MixedOutcome(line)
           new     == Event(args[cur], line, ord, outcome)
<1>1. /\ phase = "read" /\ pos < Len(lines)
      /\ args' = args /\ content' = content /\ cur' = cur /\ store' = store
  BY DEF ReadLine
<1>2. /\ lines \in Seq(Lines) /\ pos \in Nat /\ ord \in Nat /\ args[cur] \in Names
      /\ parsed \in Seq(Records)
  <2>1. args \in Seq(Names) /\ cur \in 1..Len(args) /\ lines \in Contents
    BY <1>1 DEF Inv, Typed
  <2>2. args[cur] \in Names
    BY <2>1
  <2> QED BY <2>1, <2>2, ContentsAssumption DEF Inv, Typed
<1> DEFINE k == pos + 1
<1>3. k \in 1..Len(lines) /\ k - 1 = pos /\ pos \in 0..Len(lines) /\ line \in Lines
  BY <1>1, <1>2
<1>4. /\ ValidLines(lines, pos) \in Seq(Lines)
      /\ ValidLines(lines, k) = IF Valid(line) THEN Append(ValidLines(lines, pos), line)
                                ELSE ValidLines(lines, pos)
  <2> HIDE DEF k, line
  <2>1. ValidLines(lines, k) = IF Valid(lines[k]) THEN Append(ValidLines(lines, k - 1), lines[k])
                               ELSE ValidLines(lines, k - 1)
    BY <1>2, <1>3, ValidStep
  <2> QED BY <1>2, <1>3, <2>1, ValidStep DEF k, line
<1>5. EventsOf(parsed, ValidLines(lines, pos))
  BY <1>1 DEF Filled
<1>6. CASE ~Valid(line) /\ pos' = k /\ phase' = phase /\ parsed' = parsed
  BY <1>1, <1>3, <1>4, <1>5, <1>6 DEF Filled
<1>7. CASE Valid(line) /\ pos' = k /\ phase' = phase /\ parsed' = Append(parsed, new)
  <2> HIDE DEF line
  <2>1. new \in Records
    BY <1>2, <1>3 DEF Records
  <2>2. new.id[3] = line /\ new.kind = MixedOutcome(line).kind
    BY DEF Event
  <2> HIDE DEF new
  <2>3. EventsOf(Append(parsed, new), Append(ValidLines(lines, pos), line))
    BY <1>2, <1>3, <1>4, <1>5, <2>1, <2>2, EventsAppend
  <2>4. EventsOf(parsed', ValidLines(lines, k))
    BY <1>4, <1>7, <2>3
  <2>5. k <= Len(lines)
    BY <1>2, <1>3
  <2> HIDE DEF k
  <2>6. content'[args'[cur']] = lines /\ pos' = k /\ phase' = phase
    BY <1>1, <1>7
  <2> QED BY <1>1, <2>4, <2>5, <2>6 DEF Filled
<1>8. CASE phase' = "aborted"
  BY <1>1, <1>8 DEF Filled
<1> QED
  <2>1. \/ (Trim(line) = <<>> \/ outcome.parse = "reject") /\ pos' = k /\ UNCHANGED <<phase, parsed>>
        \/ /\ Trim(line) # <<>> /\ outcome.parse = "accept"
           /\ pos' = k /\ phase' = phase /\ parsed' = Append(parsed, new)
        \/ phase' = "aborted"
    BY DEF ReadLine
  <2>2. Valid(line) <=> Trim(line) # <<>> /\ outcome.parse = "accept"
    BY DEF Valid
  <2> HIDE DEF line, outcome, new, k
  <2> QED BY <1>6, <1>7, <1>8, <2>1, <2>2

\* The store and the events in hand are always what the lines so far give.
LEMMA NextKeepsFilled == Inv /\ Filled /\ [Next]_vars => Filled'
<1> SUFFICES ASSUME Inv, Filled, [Next]_vars PROVE Filled'
  OBVIOUS
<1>0. /\ args \in Seq(Names) /\ content \in [Names -> Contents \cup {Unreadable}]
      /\ cur \in Nat \ {0} /\ Len(args) \in Nat
      /\ parsed \in Seq(Records) /\ store \in Seq(Records)
  BY DEF Inv, Typed
<1>1. CASE OpenFile
  <2>1. /\ phase' = "read" /\ pos' = 0 /\ parsed' = <<>>
        /\ args' = args /\ content' = content /\ cur' = cur /\ store' = store
        /\ cur \in 1..Len(args) /\ content[args[cur]] # Unreadable
    BY <1>0, <1>1 DEF OpenFile
  <2>2. content[args[cur]] \in Seq(Lines)
    <3>1. args[cur] \in Names
      BY <1>0, <2>1
    <3> QED BY <1>0, <2>1, <3>1, ContentsAssumption
  <2>3. ValidLines(content[args[cur]], 0) = <<>> /\ 0 <= Len(content[args[cur]])
    BY <2>2, ValidStep
  <2>4. EventsOf(<<>>, <<>>)
    BY DEF EventsOf
  <2> QED BY <2>1, <2>3, <2>4 DEF Filled
<1>2. CASE SkipUnreadable
  <2>1. /\ phase = "open" /\ phase' = phase /\ cur' = cur + 1 /\ cur \in 1..Len(args)
        /\ args' = args /\ content' = content /\ store' = store
        /\ content[args[cur]] = Unreadable
    BY <1>0, <1>2 DEF SkipUnreadable
  <2>2. LinesOfFiles(args, content, cur) = LinesOfFiles(args, content, cur - 1)
    BY <1>0, <2>1, FilesStep
  <2>3. cur' - 1 = cur /\ cur' <= Len(args) + 1
    BY <1>0, <2>1
  <2> QED BY <2>1, <2>2, <2>3 DEF Filled
<1>3. CASE ReadLine
  BY <1>3, ReadLineKeepsFilled
<1>4. CASE EndFile
  <2> DEFINE lines == content[args[cur]]
             done  == LinesOfFiles(args, content, cur - 1)
  <2>1. /\ phase = "read" /\ phase' = "open" /\ cur' = cur + 1
        /\ args' = args /\ content' = content /\ store' = store \o parsed
        /\ pos = Len(lines)
    BY <1>4 DEF EndFile
  <2>2. cur \in 1..Len(args) /\ lines \in Contents /\ lines # Unreadable
    BY <1>0, <2>1, LogIndexAssumption DEF Inv, Typed
  <2>3. lines \in Seq(Lines) /\ Len(lines) \in 0..Len(lines) /\ cur - 1 \in 0..Len(args)
    BY <1>0, <2>2, ContentsAssumption
  <2>4. done \in Seq(Lines) /\ LinesOfFiles(args, content, cur) = done \o ValidLines(lines, Len(lines))
    <3> HIDE DEF lines
    <3>1. LinesOfFiles(args, content, cur) =
            IF content[args[cur]] = Unreadable THEN LinesOfFiles(args, content, cur - 1)
            ELSE LinesOfFiles(args, content, cur - 1)
                   \o ValidLines(content[args[cur]], Len(content[args[cur]]))
      BY <1>0, <2>2, FilesStep
    <3>2. done \in Seq(Lines)
      BY <1>0, <2>3, FilesStep
    <3> QED BY <2>2, <3>1, <3>2 DEF lines
  <2>5. ValidLines(lines, Len(lines)) \in Seq(Lines)
    BY <2>3, ValidStep
  <2>6. EventsOf(store, done) /\ EventsOf(parsed, ValidLines(lines, Len(lines)))
    BY <2>1 DEF Filled
  <2> HIDE DEF done, lines
  <2>7. EventsOf(store \o parsed, done \o ValidLines(lines, Len(lines)))
    BY <1>0, <2>4, <2>5, <2>6, EventsConcat
  <2>8. cur' - 1 = cur /\ cur' <= Len(args) + 1
    BY <1>0, <2>1, <2>2
  <2> QED BY <2>1, <2>4, <2>7, <2>8 DEF Filled
<1>5. CASE SaveStore
  <2>1. /\ phase' = "saved" /\ cur = Len(args) + 1
        /\ args' = args /\ content' = content /\ cur' = cur /\ store' = store
    BY <1>0, <1>5 DEF SaveStore, Filled
  <2> QED BY <2>1 DEF Filled
<1>6. CASE UNCHANGED vars
  BY <1>6 DEF vars, Filled
<1> QED BY <1>1, <1>2, <1>3, <1>4, <1>5, <1>6 DEF Next

\* What is saved is, file after file and line after line, what each valid line gives on
\* its own (parse_mixed_lines, and main's loop over the files), whatever blank, rejected
\* or equal lines stand between, and however many files cannot be opened.
THEOREM StoreHoldsValidLinesHolds == Spec => []StoreHoldsValidLines
<1>1. Init => Filled
  <2> SUFFICES ASSUME Init PROVE Filled
    OBVIOUS
  <2>1. Inv
    BY InitInv
  <2>2. store = <<>> /\ phase = "open" /\ cur = 1
    BY DEF Init
  <2>3. args \in Seq(Names) /\ content \in [Names -> Contents \cup {Unreadable}]
    BY <2>1 DEF Inv, Typed
  <2>4. LinesOfFiles(args, content, 0) = <<>> /\ Len(args) \in Nat
    BY <2>3, FilesStep
  <2>5. EventsOf(<<>>, <<>>)
    BY DEF EventsOf
  <2> QED BY <2>2, <2>4, <2>5 DEF Filled
<1>2. Filled => StoreHoldsValidLines
  <2> SUFFICES ASSUME Filled, phase = "saved"
               PROVE  EventsOf(store, LinesOfFiles(args, content, Len(args)))
    BY DEF StoreHoldsValidLines
  <2>1. cur = Len(args) + 1 /\ Len(args) \in Nat
    BY DEF Filled
  <2>2. cur - 1 = Len(args)
    BY <2>1
  <2> QED BY <2>2 DEF Filled
<1> QED BY <1>1, <1>2, NextKeepsFilled, InvHolds, PTL DEF Spec

-----------------------------------------------------------------------------
(* The words of a line.                                                    *)

\* Where the word that is at i ends.
End(s, i) == FindAny(s, i, {"sp"})

\* It ends before a blank or where the text does.
LEMMA EndIs ==
  ASSUME NEW C, NEW s \in Seq(C), NEW i \in 1..Len(s), s[i] # "sp"
  PROVE  /\ End(s, i) \in i..Len(s) /\ \A j \in i..End(s, i) : s[j] # "sp"
         /\ End(s, i) = Len(s) \/ s[End(s, i) + 1] = "sp"
<1> DEFINE n == Len(s)
           S == {j \in i..n : j = n \/ s[j + 1] \in {"sp"}}
           e == End(s, i)
<1>1. n \in Nat /\ i \in Nat /\ i <= n
  OBVIOUS
<1>2. CASE i >= n
  <2>1. e = i /\ i = n
    BY <1>1, <1>2 DEF End, FindAny
  <2> QED BY <1>1, <2>1
<1>3. CASE ~(i >= n)
  <2>1. e = Min(S)
    BY <1>3 DEF End, FindAny
  <2>2. S \subseteq Nat /\ n \in S
    BY <1>1
  <2>3. e \in S /\ \A m \in S : e <= m
    <3> HIDE DEF S, e
    <3> QED BY <2>1, <2>2, LeastIs
  <2>4. e \in i..n /\ (e = n \/ s[e + 1] = "sp")
    <3> HIDE DEF e
    <3> QED BY <2>3
  <2>5. ASSUME NEW j \in i..e PROVE s[j] # "sp"
    <3> HIDE DEF e
    <3>1. CASE j = i
      BY <3>1
    <3>2. CASE j # i /\ s[j] = "sp"
      <4>1. j - 1 \in i..n /\ (j - 1) + 1 = j
        BY <1>1, <2>4, <3>2
      <4>2. j - 1 \in S
        BY <3>2, <4>1
      <4> HIDE DEF S
      <4>3. e <= j - 1
        BY <2>3, <4>2
      <4> QED BY <1>1, <2>4, <4>3
    <3> QED BY <3>1, <3>2
  <2> QED BY <2>4, <2>5
<1> QED BY <1>2, <1>3

\* There is one such place.
LEMMA EndUnique ==
  ASSUME NEW C, NEW s \in Seq(C), NEW i \in 1..Len(s), NEW e \in i..Len(s),
         \A j \in i..e : s[j] # "sp", e = Len(s) \/ s[e + 1] = "sp"
  PROVE  End(s, i) = e
<1> DEFINE d == End(s, i)
<1>1. s[i] # "sp" /\ Len(s) \in Nat
  OBVIOUS
<1>2. d \in i..Len(s) /\ (\A j \in i..d : s[j] # "sp") /\ (d = Len(s) \/ s[d + 1] = "sp")
  BY <1>1, EndIs
<1> HIDE DEF d
<1>3. ~(d < e)
  <2> SUFFICES ASSUME d < e PROVE FALSE
    OBVIOUS
  <2>1. d + 1 \in i..e /\ d # Len(s)
    BY <1>1, <1>2
  <2> QED BY <1>2, <2>1
<1>4. ~(e < d)
  <2> SUFFICES ASSUME e < d PROVE FALSE
    OBVIOUS
  <2>1. e + 1 \in i..d /\ e # Len(s)
    BY <1>1, <1>2
  <2> QED BY <1>2, <2>1
<1>5. d = e
  BY <1>1, <1>2, <1>3, <1>4
<1> QED BY <1>5 DEF d

\* The words from a position on, by those from the later ones.
LEMMA WordsAre ==
  ASSUME NEW C, NEW s \in Seq(C)
  PROVE  /\ \A i \in 1..(Len(s) + 1) : WordsFrom(s, i) \in Seq(Seq(C))
         /\ WordsFrom(s, Len(s) + 1) = <<>>
         /\ \A i \in 1..Len(s) :
              IF s[i] = "sp" THEN WordsFrom(s, i) = WordsFrom(s, i + 1)
              ELSE WordsFrom(s, i) = <<SubSeq(s, i, End(s, i))>> \o WordsFrom(s, End(s, i) + 1)
<1> DEFINE n == Len(s)
           D == 1..(n + 1)
           V == Seq(Seq(C))
           one(i) == <<SubSeq(s, i, End(s, i))>>
           Stop == {n + 1}
           prev == [i \in D |-> IF i = n + 1 THEN i ELSE IF s[i] = "sp" THEN i + 1 ELSE End(s, i) + 1]
           rank == [i \in D |-> n + 1 - i]
           base == [i \in D |-> <<>>]
           turn(v, i) == IF i = n + 1 THEN <<>> ELSE IF s[i] = "sp" THEN v ELSE one(i) \o v
           step == [p \in V \X D |-> turn(p[1], p[2])]
           turns(f) == [i \in D |-> IF i > n THEN <<>>
                                    ELSE IF s[i] = "sp" THEN f[i + 1]
                                    ELSE one(i) \o f[End(s, i) + 1]]
           f == CHOOSE h : h = turns(h)
<1>0. n \in Nat /\ n + 1 \in D /\ \A i \in D : i = n + 1 <=> i > n
  OBVIOUS
<1>1. ASSUME NEW i \in D, i # n + 1, s[i] # "sp" PROVE End(s, i) + 1 \in D /\ End(s, i) + 1 > i /\ one(i) \in V
  <2>1. i \in 1..n
    BY <1>0, <1>1
  <2>2. End(s, i) \in i..n
    BY <1>1, <2>1, EndIs
  <2>3. SubSeq(s, i, End(s, i)) \in Seq(C)
    <3> DEFINE e == End(s, i)
    <3> HIDE DEF e
    <3>1. e \in i..n
      BY <2>2 DEF e
    <3>2. SubSeq(s, i, e) \in Seq(C)
      <4>1. i \in Int /\ e \in Int /\ \A j \in i..e : s[j] \in C
        BY <2>1, <3>1
      <4> QED BY <4>1, SubSeqProperties
    <3> QED BY <3>2 DEF e
  <2> QED BY <1>0, <2>1, <2>2, <2>3
<1>2. prev \in [D -> D] /\ rank \in [D -> Nat] /\ base \in [D -> V]
  <2>1. \A i \in D : i # n + 1 => i + 1 \in D
    BY <1>0
  <2>2. rank \in [D -> Nat]
    BY <1>0
  <2>3. base \in [D -> V]
    OBVIOUS
  <2>4. prev \in [D -> D]
    <3> HIDE DEF D, one
    <3> QED BY <1>1, <2>1
  <2> QED BY <2>2, <2>3, <2>4
<1>3. \A i \in D \ Stop : rank[prev[i]] < rank[i]
  <2> SUFFICES ASSUME NEW i \in D, i # n + 1 PROVE rank[prev[i]] < rank[i]
    OBVIOUS
  <2>1. prev[i] \in D /\ prev[i] > i
    <3>1. i + 1 > i /\ i + 1 \in D
      BY <1>0
    <3> HIDE DEF D, one
    <3> QED BY <1>1, <3>1
  <2> HIDE DEF prev
  <2> QED BY <1>0, <2>1
<1>4. step \in [V \X D -> V]
  <2>1. ASSUME NEW v \in V, NEW i \in D PROVE turn(v, i) \in V
    <3>1. CASE i = n + 1 \/ s[i] = "sp"
      BY <3>1
    <3>2. CASE i # n + 1 /\ s[i] # "sp"
      <4>1. one(i) \in V
        BY <1>1, <3>2
      <4> HIDE DEF one
      <4>2. one(i) \o v \in V
        BY <4>1, ConcatProperties
      <4> QED BY <3>2, <4>2
    <3> QED BY <3>1, <3>2
  <2> HIDE DEF turn, V, D
  <2> QED BY <2>1
<1>5. PICK g \in [D -> V] : \A i \in D : Equation(g, i, Stop, prev, base, step)
  <2> HIDE DEF prev, rank, base, step, Stop, D, V
  <2> QED BY <1>2, <1>3, <1>4, RecursionExists
<1>6. ASSUME NEW i \in D
      PROVE  g[i] = IF i > n THEN <<>> ELSE IF s[i] = "sp" THEN g[i + 1] ELSE one(i) \o g[End(s, i) + 1]
  <2>1. g[i] = IF i \in Stop THEN base[i] ELSE step[<<g[prev[i]], i>>]
    BY <1>5 DEF Equation
  <2>2. prev[i] \in D /\ base[i] = <<>> /\ (i \in Stop <=> i > n)
    BY <1>0, <1>2
  <2>3. step[<<g[prev[i]], i>>] = turn(g[prev[i]], i)
    <3> HIDE DEF turn, V, D, prev
    <3> QED BY <2>2
  <2>4. i # n + 1 => prev[i] = IF s[i] = "sp" THEN i + 1 ELSE End(s, i) + 1
    <3> HIDE DEF D
    <3> QED OBVIOUS
  <2> HIDE DEF step, prev, base, one, V, D, Stop
  <2> QED BY <1>0, <2>1, <2>2, <2>3, <2>4
<1>7. g = turns(g)
  <2>1. turns(g) = [i \in D |-> g[i]]
    <3> HIDE DEF one, D, V
    <3> QED BY <1>6
  <2> HIDE DEF turns, D, V
  <2> QED BY <2>1
<1>8. f = turns(f)
  <2> HIDE DEF turns
  <2> QED BY <1>7
<1>9. \A i \in D : WordsFrom(s, i) = f[i]
  BY DEF WordsFrom, End
<1> HIDE DEF f
<1>10. \A i \in D : f[i] = IF i > n THEN <<>> ELSE IF s[i] = "sp" THEN f[i + 1] ELSE one(i) \o f[End(s, i) + 1]
  <2> HIDE DEF one, D
  <2> QED BY <1>8
<1> DEFINE S == {k \in Nat : \A i \in D : n + 1 - i = k => f[i] \in V}
<1>11. ASSUME NEW k \in Nat, \A m \in Nat : m < k => m \in S PROVE k \in S
  <2> SUFFICES ASSUME NEW i \in D, n + 1 - i = k PROVE f[i] \in V
    OBVIOUS
  <2>0. \A j \in D : j > i => f[j] \in V
    <3> SUFFICES ASSUME NEW j \in D, j > i PROVE f[j] \in V
      OBVIOUS
    <3>1. n + 1 - j \in Nat /\ n + 1 - j < k
      BY <1>0
    <3> QED BY <1>11, <3>1
  <2>1. CASE i > n
    <3>1. f[i] = <<>>
      BY <1>10, <2>1, Zenon
    <3> QED BY <3>1
  <2>2. CASE ~(i > n) /\ s[i] = "sp"
    <3>1. i + 1 \in D /\ i + 1 > i
      BY <1>0, <2>2
    <3>2. f[i] = f[i + 1]
      BY <1>10, <2>2, Zenon
    <3> QED BY <2>0, <3>1, <3>2
  <2>3. CASE ~(i > n) /\ s[i] # "sp"
    <3> DEFINE j == End(s, i) + 1
    <3>1. j \in D /\ j > i /\ one(i) \in V
      BY <1>0, <1>1, <2>3
    <3>2. f[i] = one(i) \o f[j]
      BY <1>10, <2>3, Zenon
    <3> HIDE DEF j, one, D
    <3>3. f[j] \in V
      BY <2>0, <3>1
    <3>4. one(i) \o f[j] \in V
      BY <3>1, <3>3, ConcatProperties
    <3> HIDE DEF V
    <3> QED BY <3>2, <3>4
  <2> QED BY <2>1, <2>2, <2>3
<1>12. Nat \subseteq S
  <2> HIDE DEF S
  <2> QED BY <1>11, StrongInduction
<1>13. \A i \in D : f[i] \in V
  <2> SUFFICES ASSUME NEW i \in D PROVE f[i] \in V
    OBVIOUS
  <2>1. n + 1 - i \in Nat
    BY <1>0
  <2> HIDE DEF V, D
  <2> QED BY <1>12, <2>1
<1>14. f[n + 1] = <<>>
  BY <1>0, <1>10, Zenon
<1>15. ASSUME NEW i \in 1..n
       PROVE  IF s[i] = "sp" THEN WordsFrom(s, i) = WordsFrom(s, i + 1)
              ELSE WordsFrom(s, i) = <<SubSeq(s, i, End(s, i))>> \o WordsFrom(s, End(s, i) + 1)
  <2>1. i \in D /\ ~(i > n) /\ i + 1 \in D /\ i # n + 1
    BY <1>0
  <2>2. CASE s[i] = "sp"
    <3>1. f[i] = f[i + 1]
      BY <1>10, <2>1, <2>2, Zenon
    <3> QED BY <1>9, <2>1, <2>2, <3>1, Zenon
  <2>3. CASE s[i] # "sp"
    <3>1. f[i] = one(i) \o f[End(s, i) + 1]
      BY <1>10, <2>1, <2>3, Zenon
    <3>2. End(s, i) + 1 \in D
      BY <1>1, <2>1, <2>3
    <3> QED BY <1>9, <2>1, <2>3, <3>1, <3>2, Zenon
  <2> QED BY <2>2, <2>3
<1>16. \A i \in D : WordsFrom(s, i) \in V
  BY <1>9, <1>13, Zenon
<1>17. WordsFrom(s, n + 1) = <<>>
  BY <1>0, <1>9, <1>14, Zenon
<1> QED BY <1>15, <1>16, <1>17

\* What is in a part of a text.
LEMMA Part ==
  ASSUME NEW C, NEW s \in Seq(C), NEW i \in 1..(Len(s) + 1), NEW j \in 0..Len(s), i <= j + 1
  PROVE  /\ SubSeq(s, i, j) \in Seq(C) /\ Len(SubSeq(s, i, j)) = j - i + 1
         /\ \A k \in 1..(j - i + 1) : SubSeq(s, i, j)[k] = s[i + k - 1]
<1>0. i \in Int /\ j \in Int /\ Len(s) \in Nat
  OBVIOUS
<1>1. \A k \in i..j : s[k] \in C
  BY <1>0
<1>2. /\ SubSeq(s, i, j) \in Seq(C)
      /\ Len(SubSeq(s, i, j)) = IF i <= j THEN j - i + 1 ELSE 0
      /\ \A k \in 1..(j - i + 1) : SubSeq(s, i, j)[k] = s[i + k - 1]
  BY <1>0, <1>1, SubSeqProperties
<1>3. ~(i <= j) => j - i + 1 = 0
  BY <1>0
<1> QED BY <1>2, <1>3

\* Two texts of one length are equal when they are so at each position.
LEMMA SameText ==
  ASSUME NEW C, NEW s \in Seq(C), NEW t \in Seq(C), Len(s) = Len(t),
         \A k \in 1..Len(s) : s[k] = t[k]
  PROVE  s = t
  OBVIOUS

\* Blanks make no words, whatever comes after them.
LEMMA SkipBlanks ==
  ASSUME NEW C, NEW s \in Seq(C), NEW p \in 1..(Len(s) + 1)
  PROVE  \E a \in p..(Len(s) + 1) :
           /\ WordsFrom(s, a) = WordsFrom(s, p) /\ \A j \in p..(a - 1) : s[j] = "sp"
           /\ a <= Len(s) => s[a] # "sp"
<1> DEFINE n == Len(s)
           Good(q, a) == /\ WordsFrom(s, a) = WordsFrom(s, q)
                         /\ \A j \in q..(a - 1) : s[j] = "sp"
                         /\ a <= n => s[a] # "sp"
           S == {k \in Nat : \A q \in 1..(n + 1) : n + 1 - q = k => \E a \in q..(n + 1) : Good(q, a)}
<1>0. n \in Nat
  OBVIOUS
<1>1. 0 \in S
  <2> SUFFICES ASSUME NEW q \in 1..(n + 1), n + 1 - q = 0 PROVE \E a \in q..(n + 1) : Good(q, a)
    OBVIOUS
  <2>1. q = n + 1 /\ q \in q..(n + 1)
    BY <1>0
  <2>2. Good(q, q)
    BY <1>0, <2>1
  <2> QED BY <2>1, <2>2
<1>2. ASSUME NEW k \in Nat, k \in S PROVE k + 1 \in S
  <2> SUFFICES ASSUME NEW q \in 1..(n + 1), n + 1 - q = k + 1 PROVE \E a \in q..(n + 1) : Good(q, a)
    OBVIOUS
  <2>1. q \in 1..n /\ q + 1 \in 1..(n + 1) /\ n + 1 - (q + 1) = k
    BY <1>0
  <2>2. CASE s[q] # "sp"
    <3>1. q \in q..(n + 1) /\ \A j \in q..(q - 1) : FALSE
      BY <2>1
    <3>2. Good(q, q)
      BY <2>2, <3>1
    <3> QED BY <3>1, <3>2
  <2>3. CASE s[q] = "sp"
    <3>1. PICK a \in (q + 1)..(n + 1) : Good(q + 1, a)
      BY <1>2, <2>1
    <3>2. a \in q..(n + 1) /\ \A j \in q..(a - 1) : j = q \/ j \in (q + 1)..(a - 1)
      BY <2>1
    <3>3. WordsFrom(s, q) = WordsFrom(s, q + 1)
      BY <2>1, <2>3, WordsAre
    <3>4. Good(q, a)
      BY <2>3, <3>1, <3>2, <3>3, Zenon
    <3> QED BY <3>2, <3>4
  <2> QED BY <2>2, <2>3
<1>3. Nat \subseteq S
  <2> HIDE DEF S
  <2> QED BY <1>1, <1>2, SetInduction
<1>4. n + 1 - p \in Nat
  BY <1>0
<1>5. \E a \in p..(n + 1) : Good(p, a)
  <2> HIDE DEF Good
  <2> QED BY <1>3, <1>4
<1> QED BY <1>5

\* A part of a text with nothing but blanks behind it has the words of the text.
LEMMA WordsOfPart ==
  ASSUME NEW C, NEW s \in Seq(C), NEW x \in 1..(Len(s) + 1), NEW y \in 0..Len(s), x <= y + 1,
         \A j \in (y + 1)..Len(s) : s[j] = "sp"
  PROVE  \A i \in 1..(y - x + 2) : WordsFrom(SubSeq(s, x, y), i) = WordsFrom(s, x + i - 1)
<1> DEFINE n == Len(s)
           u == SubSeq(s, x, y)
           m == y - x + 1
           S == {k \in Nat : \A i \in 1..(m + 1) : m + 1 - i = k => WordsFrom(u, i) = WordsFrom(s, x + i - 1)}
<1>0. n \in Nat /\ m \in Nat /\ m + 1 = y - x + 2 /\ x \in Nat /\ y \in Nat /\ x + m - 1 = y /\ y <= n /\ x >= 1
  OBVIOUS
<1>1. u \in Seq(C) /\ Len(u) = m /\ \A k \in 1..m : u[k] = s[x + k - 1]
  BY Part
<1>2. WordsFrom(u, m + 1) = WordsFrom(s, y + 1)
  <2>1. y + 1 \in 1..(n + 1)
    BY <1>0
  <2>2. PICK a \in (y + 1)..(n + 1) :
                 WordsFrom(s, a) = WordsFrom(s, y + 1) /\ (a <= n => s[a] # "sp")
    BY <2>1, SkipBlanks
  <2>3. a = n + 1
    <3>1. a <= n => s[a] # "sp"
      BY <2>2
    <3>2. a <= n => a \in (y + 1)..n
      BY <1>0
    <3>3. ~(a <= n)
      BY <3>1, <3>2
    <3> QED BY <1>0, <3>3
  <2>4. WordsFrom(u, Len(u) + 1) = <<>> /\ WordsFrom(s, n + 1) = <<>>
    <3> HIDE DEF u
    <3> QED BY <1>1, WordsAre
  <2>5. Len(u) = m /\ WordsFrom(s, a) = WordsFrom(s, y + 1)
    BY <1>1, <2>2
  <2> HIDE DEF u, m, n
  <2> QED BY <2>3, <2>4, <2>5, Zenon
<1> HIDE DEF u
<1>3. ASSUME NEW k \in Nat, \A l \in Nat : l < k => l \in S PROVE k \in S
  <2> SUFFICES ASSUME NEW i \in 1..(m + 1), m + 1 - i = k PROVE WordsFrom(u, i) = WordsFrom(s, x + i - 1)
    OBVIOUS
  <2>0. \A j \in 1..(m + 1) : j > i => WordsFrom(u, j) = WordsFrom(s, x + j - 1)
    <3> SUFFICES ASSUME NEW j \in 1..(m + 1), j > i PROVE WordsFrom(u, j) = WordsFrom(s, x + j - 1)
      OBVIOUS
    <3>1. m + 1 - j \in Nat /\ m + 1 - j < k
      BY <1>0
    <3> QED BY <1>3, <3>1
  <2> DEFINE p == x + i - 1
  <2>1. CASE i = m + 1
    <3>1. p = y + 1
      BY <1>0, <2>1
    <3> QED BY <1>2, <2>1, <3>1, Zenon
  <2>2. CASE i # m + 1
    <3>1. i \in 1..Len(u) /\ p \in 1..n /\ p + 1 = x + (i + 1) - 1 /\ i + 1 \in 1..(m + 1) /\ i + 1 > i
      BY <1>0, <1>1, <2>2
    <3>2. u[i] = s[p] /\ i \in 1..m
      BY <1>1, <3>1
    <3> HIDE DEF p
    <3>3. CASE s[p] = "sp"
      <4>1. WordsFrom(s, p) = WordsFrom(s, p + 1)
        BY <3>1, <3>3, WordsAre
      <4>2. WordsFrom(u, i) = WordsFrom(u, i + 1)
        BY <1>1, <3>1, <3>2, <3>3, WordsAre
      <4>3. WordsFrom(u, i + 1) = WordsFrom(s, x + (i + 1) - 1)
        BY <2>0, <3>1
      <4> QED BY <3>1, <4>1, <4>2, <4>3, Zenon DEF p
    <3>4. CASE s[p] # "sp"
      <4> DEFINE e == End(u, i)
                 d == x + e - 1
      <4>1. e \in i..m /\ (\A j \in i..e : u[j] # "sp") /\ (e = m \/ u[e + 1] = "sp")
        BY <1>1, <3>1, <3>2, <3>4, EndIs
      <4> HIDE DEF e
      <4>2. d \in p..n /\ (d = n \/ s[d + 1] = "sp")
        <5>1. d \in p..n
          BY <1>0, <3>2, <4>1 DEF p
        <5>2. CASE e = m
          <6>1. d = y
            BY <1>0, <5>2
          <6>2. d = n \/ d + 1 \in (y + 1)..n
            BY <1>0, <6>1
          <6> QED BY <5>1, <6>2
        <5>3. CASE e # m
          <6>1. e + 1 \in 1..m /\ x + (e + 1) - 1 = d + 1
            BY <1>0, <4>1, <5>3
          <6>2. u[e + 1] = s[d + 1]
            BY <1>1, <6>1
          <6> QED BY <4>1, <5>1, <5>3, <6>2
        <5> QED BY <5>2, <5>3
      <4>3. \A j \in p..d : s[j] # "sp"
        <5> SUFFICES ASSUME NEW j \in p..d PROVE s[j] # "sp"
          OBVIOUS
        <5> DEFINE k1 == j - x + 1
        <5>1. k1 \in i..e /\ k1 \in 1..m /\ x + k1 - 1 = j
          BY <1>0, <3>2, <4>1 DEF p
        <5> HIDE DEF k1
        <5>2. u[k1] = s[j]
          BY <1>1, <5>1
        <5> QED BY <4>1, <5>1, <5>2
      <4>4. End(s, p) = d
        <5> HIDE DEF d
        <5> QED BY <3>1, <4>2, <4>3, EndUnique
      <4>5. SubSeq(u, i, e) = SubSeq(s, p, d)
        <5>1. /\ SubSeq(u, i, e) \in Seq(C) /\ Len(SubSeq(u, i, e)) = e - i + 1
              /\ \A k1 \in 1..(e - i + 1) : SubSeq(u, i, e)[k1] = u[i + k1 - 1]
          <6>1. i \in 1..(Len(u) + 1) /\ e \in 0..Len(u) /\ i <= e + 1
            BY <1>0, <1>1, <3>1, <4>1
          <6> QED BY <1>1, <6>1, Part
        <5>2. /\ SubSeq(s, p, d) \in Seq(C) /\ Len(SubSeq(s, p, d)) = d - p + 1
              /\ \A k1 \in 1..(d - p + 1) : SubSeq(s, p, d)[k1] = s[p + k1 - 1]
          <6>1. p \in 1..(n + 1) /\ d \in 0..n /\ p <= d + 1
            BY <1>0, <3>1, <4>2
          <6> HIDE DEF d
          <6> QED BY <6>1, Part
        <5>3. d - p + 1 = e - i + 1 /\ e - i + 1 \in Nat
          BY <1>0, <4>1 DEF p
        <5>4. \A k1 \in 1..(e - i + 1) : u[i + k1 - 1] = s[p + k1 - 1]
          <6> SUFFICES ASSUME NEW k1 \in 1..(e - i + 1) PROVE u[i + k1 - 1] = s[p + k1 - 1]
            OBVIOUS
          <6>1. i + k1 - 1 \in 1..m /\ x + (i + k1 - 1) - 1 = p + k1 - 1
            BY <1>0, <4>1 DEF p
          <6> QED BY <1>1, <6>1
        <5> HIDE DEF d
        <5> DEFINE v == SubSeq(u, i, e)
                   w == SubSeq(s, p, d)
        <5>5. v \in Seq(C) /\ w \in Seq(C) /\ Len(v) = Len(w) /\ \A k1 \in 1..Len(v) : v[k1] = w[k1]
          BY <5>1, <5>2, <5>3, <5>4
        <5> HIDE DEF v, w
        <5>6. v = w
          BY <5>5, SameText
        <5> QED BY <5>6 DEF v, w
      <4>6. WordsFrom(u, e + 1) = WordsFrom(s, d + 1)
        <5>1. e + 1 \in 1..(m + 1) /\ e + 1 > i /\ x + (e + 1) - 1 = d + 1
          BY <1>0, <4>1
        <5> QED BY <2>0, <5>1
      <4>7. WordsFrom(u, i) = <<SubSeq(u, i, e)>> \o WordsFrom(u, e + 1)
        BY <1>1, <3>1, <3>2, <3>4, WordsAre DEF e
      <4>8. WordsFrom(s, p) = <<SubSeq(s, p, d)>> \o WordsFrom(s, d + 1)
        <5>1. WordsFrom(s, p) = <<SubSeq(s, p, End(s, p))>> \o WordsFrom(s, End(s, p) + 1)
          BY <3>1, <3>4, WordsAre
        <5> HIDE DEF d
        <5> QED BY <4>4, <5>1, Zenon
      <4> HIDE DEF d
      <4>9. WordsFrom(u, i) = WordsFrom(s, p)
        BY <4>5, <4>6, <4>7, <4>8, Zenon
      <4> QED BY <4>9 DEF p
    <3> QED BY <3>3, <3>4
  <2> QED BY <2>1, <2>2
<1>4. Nat \subseteq S
  <2> HIDE DEF S
  <2> QED BY <1>3, StrongInduction
<1>5. ASSUME NEW i \in 1..(m + 1) PROVE WordsFrom(u, i) = WordsFrom(s, x + i - 1)
  <2>1. m + 1 - i \in Nat
    BY <1>0
  <2> QED BY <1>4, <2>1
<1> QED BY <1>0, <1>5 DEF u

\* One element before others.
LEMMA OneBefore ==
  ASSUME NEW C, NEW x \in C, NEW r \in Seq(C)
  PROVE  /\ <<x>> \o r \in Seq(C) /\ <<x>> \o r # <<>> /\ Len(<<x>> \o r) = Len(r) + 1
         /\ (<<x>> \o r)[1] = x /\ \A i \in 1..Len(r) : (<<x>> \o r)[i + 1] = r[i]
<1> DEFINE s == <<x>>
           both == s \o r
<1>1. s \in Seq(C) /\ Len(s) = 1 /\ s[1] = x /\ Len(r) \in Nat
  OBVIOUS
<1> HIDE DEF s
<1>2. /\ both \in Seq(C) /\ Len(both) = Len(s) + Len(r)
      /\ \A i \in 1..(Len(s) + Len(r)) : both[i] = IF i <= Len(s) THEN s[i] ELSE r[i - Len(s)]
  BY <1>1, ConcatProperties
<1> HIDE DEF both
<1>3. Len(both) = Len(r) + 1 /\ both[1] = x
  <2>1. 1 \in 1..(Len(s) + Len(r)) /\ 1 <= Len(s)
    BY <1>1
  <2> QED BY <1>1, <1>2, <2>1
<1>4. ASSUME NEW i \in 1..Len(r) PROVE both[i + 1] = r[i]
  <2>1. i + 1 \in 1..(Len(s) + Len(r)) /\ ~(i + 1 <= Len(s)) /\ (i + 1) - Len(s) = i
    BY <1>1
  <2> QED BY <1>2, <2>1
<1>5. both # <<>>
  BY <1>1, <1>2, <1>3
<1> QED BY <1>2, <1>3, <1>4, <1>5 DEF both, s

Prepend(x, r) == <<x>> \o r

\* What has the same element first and is equal has the same others.
LEMMA SameFirst ==
  ASSUME NEW C, NEW x \in C, NEW y \in C, NEW r \in Seq(C), NEW t \in Seq(C), Prepend(x, r) = Prepend(y, t)
  PROVE  x = y /\ r = t
<1> DEFINE v == <<x>> \o r
           w == <<y>> \o t
<1>1. Len(v) = Len(r) + 1 /\ v[1] = x /\ \A i \in 1..Len(r) : v[i + 1] = r[i]
  BY OneBefore
<1>2. Len(w) = Len(t) + 1 /\ w[1] = y /\ \A i \in 1..Len(t) : w[i + 1] = t[i]
  BY OneBefore
<1>3. v = w
  BY DEF Prepend
<1> HIDE DEF v, w
<1>4. Len(r) \in Nat /\ Len(t) \in Nat
  OBVIOUS
<1>5. Len(r) = Len(t)
  BY <1>1, <1>2, <1>3, <1>4
<1>6. \A i \in 1..Len(r) : r[i] = t[i]
  BY <1>1, <1>2, <1>3, <1>5
<1> QED BY <1>1, <1>2, <1>3, <1>5, <1>6, SameText

\* Three texts, in either grouping.
LEMMA ThreeTexts ==
  ASSUME NEW C, NEW a \in Seq(C), NEW b \in Seq(C), NEW d \in Seq(C)
  PROVE  a \o b \in Seq(C) /\ a \o (b \o d) = (a \o b) \o d
  BY ConcatProperties, ConcatAssociative

\* The words from the end of a word on are the last of those from any earlier position on.
LEMMA LaterWords ==
  ASSUME NEW C, NEW s \in Seq(C), NEW q \in 1..(Len(s) + 1), NEW p \in 1..q,
         q = Len(s) + 1 \/ s[q] = "sp"
  PROVE  \E h \in Seq(Seq(C)) : WordsFrom(s, p) = h \o WordsFrom(s, q)
<1> DEFINE n == Len(s)
           V == Seq(Seq(C))
           Ends(i) == \E h \in V : WordsFrom(s, i) = h \o WordsFrom(s, q)
           S == {k \in Nat : \A i \in 1..q : q - i = k => Ends(i)}
<1>0. n \in Nat /\ q \in Nat /\ q <= n + 1 /\ q >= 1
  OBVIOUS
<1>1. ASSUME NEW k \in Nat, \A l \in Nat : l < k => l \in S PROVE k \in S
  <2> SUFFICES ASSUME NEW i \in 1..q, q - i = k PROVE Ends(i)
    OBVIOUS
  <2>0. \A j \in 1..q : j > i => Ends(j)
    <3> SUFFICES ASSUME NEW j \in 1..q, j > i PROVE Ends(j)
      OBVIOUS
    <3>1. q - j \in Nat /\ q - j < k
      BY <1>0
    <3> HIDE DEF Ends
    <3> QED BY <1>1, <3>1
  <2>1. CASE i = q
    <3>1. WordsFrom(s, q) \in V
      BY <1>0, WordsAre
    <3>2. <<>> \in V /\ <<>> \o WordsFrom(s, q) = WordsFrom(s, q)
      <4>1. <<>> \in V
        OBVIOUS
      <4> QED BY <3>1, <4>1, ConcatEmptySeq
    <3> QED BY <2>1, <3>2, Zenon
  <2>2. CASE i # q /\ s[i] = "sp"
    <3>1. i \in 1..n /\ i + 1 \in 1..q /\ i + 1 > i
      BY <1>0, <2>2
    <3>2. WordsFrom(s, i) = WordsFrom(s, i + 1)
      BY <2>2, <3>1, WordsAre
    <3>3. Ends(i + 1)
      <4> HIDE DEF Ends
      <4> QED BY <2>0, <3>1
    <3> QED BY <3>2, <3>3, Zenon
  <2>3. CASE i # q /\ s[i] # "sp"
    <3> DEFINE e == End(s, i)
               one == <<SubSeq(s, i, e)>>
    <3>1. i \in 1..n
      BY <1>0, <2>3
    <3>2. e \in i..n /\ \A j \in i..e : s[j] # "sp"
      BY <2>3, <3>1, EndIs
    <3>3. WordsFrom(s, i) = one \o WordsFrom(s, e + 1)
      BY <2>3, <3>1, WordsAre
    <3> HIDE DEF e
    <3>4. ~(q <= e)
      <4> SUFFICES ASSUME q <= e PROVE FALSE
        OBVIOUS
      <4>1. q \in i..e /\ q # n + 1
        BY <1>0, <3>2
      <4> QED BY <3>2, <4>1
    <3>5. e + 1 \in 1..q /\ e + 1 > i
      BY <1>0, <3>1, <3>2, <3>4
    <3>6. Ends(e + 1)
      <4> HIDE DEF Ends
      <4> QED BY <2>0, <3>5
    <3>7. PICK h \in V : WordsFrom(s, e + 1) = h \o WordsFrom(s, q)
      BY <3>6
    <3>8. one \in V
      <4>1. i \in 1..(n + 1) /\ e \in 0..n /\ i <= e + 1
        BY <1>0, <3>1, <3>2
      <4>2. SubSeq(s, i, e) \in Seq(C)
        BY <4>1, Part
      <4> QED BY <4>2
    <3>9. WordsFrom(s, q) \in V
      BY <1>0, WordsAre
    <3> HIDE DEF one
    <3>10. one \o h \in V /\ one \o (h \o WordsFrom(s, q)) = (one \o h) \o WordsFrom(s, q)
      <4> DEFINE rest == WordsFrom(s, q)
                 W == Seq(C)
      <4>1. one \in Seq(W) /\ h \in Seq(W) /\ rest \in Seq(W)
        BY <3>8, <3>9
      <4> HIDE DEF rest, W
      <4>2. one \o h \in Seq(W) /\ one \o (h \o rest) = (one \o h) \o rest
        BY <4>1, ThreeTexts
      <4> QED BY <4>2 DEF rest, W
    <3> HIDE DEF V
    <3>11. WordsFrom(s, i) = (one \o h) \o WordsFrom(s, q)
      BY <3>3, <3>7, <3>10, Zenon
    <3> QED BY <3>10, <3>11
  <2> QED BY <2>1, <2>2, <2>3
<1>2. Nat \subseteq S
  <2> HIDE DEF S
  <2> QED BY <1>1, StrongInduction
<1>3. q - p \in Nat
  BY <1>0
<1>4. Ends(p)
  <2> HIDE DEF Ends
  <2> QED BY <1>2, <1>3
<1> QED BY <1>4

\* What comes behind others is a suffix.
LEMMA SuffixOfConcat ==
  ASSUME NEW C, NEW h \in Seq(C), NEW r \in Seq(C)
  PROVE  IsSuffix(r, h \o r)
<1> DEFINE all == h \o r
           x == Reverse(r)
           y == Reverse(all)
           n == Len(r)
<1>1. all \in Seq(C) /\ Len(all) = Len(h) + n /\ \A k \in 1..n : all[Len(h) + k] = r[k]
  BY ConcatProperties
<1>2. n \in Nat /\ Len(h) \in Nat
  OBVIOUS
<1> HIDE DEF all
<1>3. x \in Seq(C) /\ Len(x) = n /\ \A k \in 1..n : x[k] = r[n - k + 1]
  BY <1>2 DEF Reverse
<1>4. y \in Seq(C) /\ Len(y) = Len(h) + n /\ \A k \in 1..(Len(h) + n) : y[k] = all[Len(h) + n - k + 1]
  BY <1>1, <1>2 DEF Reverse
<1>5. \A k \in 1..n : x[k] = y[k]
  <2> SUFFICES ASSUME NEW k \in 1..n PROVE x[k] = y[k]
    OBVIOUS
  <2>1. n - k + 1 \in 1..n /\ k \in 1..(Len(h) + n) /\ Len(h) + n - k + 1 = Len(h) + (n - k + 1)
    BY <1>2
  <2>2. all[Len(h) + (n - k + 1)] = r[n - k + 1]
    BY <1>1, <2>1
  <2> HIDE DEF x, y, n
  <2> QED BY <1>3, <1>4, <2>1, <2>2
<1> HIDE DEF x, y
<1>6. /\ SubSeq(x, 1, n) \in Seq(C) /\ Len(SubSeq(x, 1, n)) = n
      /\ \A k \in 1..n : SubSeq(x, 1, n)[k] = x[k]
  <2>1. 1 \in 1..(Len(x) + 1) /\ n \in 0..Len(x) /\ 1 <= n + 1 /\ n - 1 + 1 = n /\ \A k \in 1..n : 1 + k - 1 = k
    BY <1>2, <1>3
  <2> HIDE DEF n
  <2> QED BY <1>3, <2>1, Part
<1>7. /\ SubSeq(y, 1, n) \in Seq(C) /\ Len(SubSeq(y, 1, n)) = n
      /\ \A k \in 1..n : SubSeq(y, 1, n)[k] = y[k]
  <2>1. 1 \in 1..(Len(y) + 1) /\ n \in 0..Len(y) /\ 1 <= n + 1 /\ n - 1 + 1 = n /\ \A k \in 1..n : 1 + k - 1 = k
    BY <1>2, <1>4
  <2> HIDE DEF n
  <2> QED BY <1>4, <2>1, Part
<1>8. SubSeq(x, 1, n) = SubSeq(y, 1, n)
  <2> DEFINE v == SubSeq(x, 1, n)
             w == SubSeq(y, 1, n)
  <2>1. v \in Seq(C) /\ w \in Seq(C) /\ Len(v) = Len(w) /\ \A k \in 1..Len(v) : v[k] = w[k]
    BY <1>5, <1>6, <1>7
  <2> HIDE DEF v, w
  <2>2. v = w
    BY <2>1, SameText
  <2> QED BY <2>2 DEF v, w
<1>9. Len(x) <= Len(y)
  BY <1>2, <1>3, <1>4
<1>10. IsPrefix(x, y)
  BY <1>3, <1>8, <1>9 DEF IsPrefix
<1> QED BY <1>10 DEF IsSuffix, x, y, all

\* What is read of a text without its blanks at both ends.
LEMMA TrimIs ==
  ASSUME NEW C, NEW s \in Seq(C)
  PROVE  \/ Trim(s) = <<>> /\ \A i \in 1..Len(s) : s[i] = "sp"
         \/ \E x \in 1..Len(s), y \in 1..Len(s) :
              /\ x <= y /\ Trim(s) = SubSeq(s, x, y) /\ s[x] # "sp" /\ s[y] # "sp"
              /\ \A i \in 1..Len(s) : i < x \/ y < i => s[i] = "sp"
<1> DEFINE n == Len(s)
           S == {i \in 1..n : s[i] # "sp"}
           T == {n - i : i \in S}
<1>0. n \in Nat
  OBVIOUS
<1>1. CASE S = {}
  <2>1. Trim(s) = <<>>
    BY <1>1 DEF Trim
  <2> QED BY <1>1, <2>1
<1>2. CASE S # {}
  <2> DEFINE x == Min(S)
  <2>1. x \in S /\ \A i \in S : x <= i
    <3>1. S \subseteq Nat
      BY <1>0
    <3> HIDE DEF S
    <3> QED BY <1>2, <3>1, LeastIs
  <2>2. \E y \in S : \A i \in S : y >= i
    <3>1. T \subseteq Nat /\ T # {}
      BY <1>0, <1>2
    <3> DEFINE d == Min(T)
    <3>2. d \in T /\ \A i \in T : d <= i
      <4> HIDE DEF T
      <4> QED BY <3>1, LeastIs
    <3> HIDE DEF d
    <3>3. PICK y \in S : d = n - y
      BY <3>2
    <3>4. \A i \in S : n - y <= n - i
      BY <3>2, <3>3
    <3>5. \A i \in S : y >= i
      BY <1>0, <3>4
    <3> QED BY <3>5
  <2> DEFINE y == Max(S)
  <2>3. y \in S /\ \A i \in S : y >= i
    BY <2>2 DEF Max
  <2>4. Trim(s) = SubSeq(s, x, y)
    BY <1>2 DEF Trim
  <2> HIDE DEF x, y
  <2>5. x \in 1..n /\ y \in 1..n /\ x <= y /\ s[x] # "sp" /\ s[y] # "sp"
    BY <2>1, <2>3
  <2>6. ASSUME NEW i \in 1..n, i < x \/ y < i PROVE s[i] = "sp"
    <3>1. ~(x <= i) \/ ~(y >= i)
      BY <2>5, <2>6
    <3>2. i \notin S
      BY <2>1, <2>3, <3>1
    <3> QED BY <3>2
  <2> QED BY <2>4, <2>5, <2>6
<1> QED BY <1>1, <1>2

\* Blanks at the ends make no words.
LEMMA WordsOfTrim ==
  ASSUME NEW C, NEW s \in Seq(C)
  PROVE  Words(Trim(s)) = Words(s)
<1> DEFINE n == Len(s)
<1>0. n \in Nat /\ 1 \in 1..(n + 1)
  OBVIOUS
<1>1. PICK a \in 1..(n + 1) :
             /\ WordsFrom(s, a) = WordsFrom(s, 1) /\ \A j \in 1..(a - 1) : s[j] = "sp"
             /\ a <= n => s[a] # "sp"
  BY <1>0, SkipBlanks
<1>2. CASE Trim(s) = <<>> /\ \A i \in 1..n : s[i] = "sp"
  <2>1. ~(a <= n)
    <3>1. a <= n => s[a] # "sp"
      BY <1>1
    <3>2. a <= n => a \in 1..n
      BY <1>0
    <3> QED BY <1>2, <3>1, <3>2
  <2>2. a = n + 1
    BY <1>0, <2>1
  <2>3. WordsFrom(s, n + 1) = <<>>
    BY WordsAre
  <2>4. WordsFrom(<<>>, 1) = <<>>
    <3> DEFINE t == <<>>
    <3>1. t \in Seq(C) /\ Len(t) + 1 = 1
      OBVIOUS
    <3> HIDE DEF t
    <3>2. WordsFrom(t, Len(t) + 1) = <<>>
      BY <3>1, WordsAre
    <3> QED BY <3>1, <3>2 DEF t
  <2>5. WordsFrom(s, a) = WordsFrom(s, 1)
    BY <1>1
  <2> QED BY <1>2, <2>2, <2>3, <2>4, <2>5, Zenon DEF Words
<1>3. ASSUME NEW x \in 1..n, NEW y \in 1..n, x <= y, Trim(s) = SubSeq(s, x, y), s[x] # "sp",
             \A i \in 1..n : i < x \/ y < i => s[i] = "sp"
      PROVE  Words(Trim(s)) = Words(s)
  <2>1. a = x
    <3>1. ~(a < x)
      <4> SUFFICES ASSUME a < x PROVE FALSE
        OBVIOUS
      <4>1. a \in 1..n
        BY <1>0
      <4> QED BY <1>1, <1>3, <4>1
    <3>2. ~(x < a)
      <4> SUFFICES ASSUME x < a PROVE FALSE
        OBVIOUS
      <4>1. x \in 1..(a - 1)
        BY <1>0
      <4> QED BY <1>1, <1>3, <4>1
    <3> QED BY <1>0, <3>1, <3>2
  <2>2. \A j \in (y + 1)..n : s[j] = "sp"
    <3> SUFFICES ASSUME NEW j \in (y + 1)..n PROVE s[j] = "sp"
      OBVIOUS
    <3>1. j \in 1..n /\ y < j
      BY <1>0
    <3> QED BY <1>3, <3>1
  <2>3. x \in 1..(n + 1) /\ y \in 0..n /\ x <= y + 1 /\ 1 \in 1..(y - x + 2) /\ x + 1 - 1 = x
    BY <1>0, <1>3
  <2>4. WordsFrom(SubSeq(s, x, y), 1) = WordsFrom(s, x + 1 - 1)
    BY <2>2, <2>3, WordsOfPart
  <2>5. WordsFrom(s, a) = WordsFrom(s, 1) /\ x + 1 - 1 = x
    BY <1>1, <2>3
  <2> QED BY <1>3, <2>1, <2>4, <2>5, Zenon DEF Words
<1> QED BY <1>2, <1>3, TrimIs

\* Nothing but the first k of the words w has, before position p, text without blanks.
Covered(s, w, k, p) ==
  \A i \in 1..(p - 1), j \in 1..Len(s) :
    i <= j /\ (\A l \in i..j : s[l] # "sp") => \E m \in 1..k : SubSeq(s, i, j) \in SubSeqs(w[m])

\* Where word k is in the text, what comes behind it and what comes before it.
WordAt(s, w, k, a, e) ==
  /\ a \in 1..Len(s) /\ e \in a..Len(s) /\ (\A j \in a..e : s[j] # "sp")
  /\ w[k] = SubSeq(s, a, e) /\ WordsFrom(s, e + 1) = SubSeq(w, k + 1, Len(w))
  /\ e = Len(s) \/ s[e + 1] = "sp"
  /\ Covered(s, w, k - 1, a)

\* The next word and the rest are found from where the rest of the words begins.
LEMMA NextWord ==
  ASSUME NEW C, NEW s \in Seq(C), NEW w \in Seq(Seq(C)), NEW k \in 1..Len(w),
         NEW p \in 1..(Len(s) + 1), WordsFrom(s, p) = SubSeq(w, k, Len(w)), Covered(s, w, k - 1, p)
  PROVE  \E a, e \in 1..Len(s) : WordAt(s, w, k, a, e) /\ Covered(s, w, k, e + 1)
<1> DEFINE n == Len(s)
<1>0. n \in Nat /\ Len(w) \in Nat /\ k \in Nat
  OBVIOUS
<1>1. PICK a \in p..(n + 1) :
             /\ WordsFrom(s, a) = WordsFrom(s, p) /\ (\A j \in p..(a - 1) : s[j] = "sp")
             /\ (a <= n => s[a] # "sp")
  BY SkipBlanks
<1>2. /\ SubSeq(w, k, Len(w)) = <<w[k]>> \o SubSeq(w, k + 1, Len(w))
      /\ w[k] \in Seq(C) /\ SubSeq(w, k + 1, Len(w)) \in Seq(Seq(C))
  <2>1. k \in 1..Len(w) /\ Len(w) \in k..Len(w)
    BY <1>0
  <2>2. SubSeq(w, k, Len(w)) = <<w[k]>> \o SubSeq(w, k + 1, Len(w))
    BY <2>1, SubSeqRecursiveFirst
  <2>3. k + 1 \in 1..(Len(w) + 1) /\ Len(w) \in 0..Len(w) /\ k + 1 <= Len(w) + 1
    BY <1>0
  <2>4. SubSeq(w, k + 1, Len(w)) \in Seq(Seq(C))
    BY <2>3, Part
  <2> QED BY <2>2, <2>4
<1>3. a \in 1..n /\ s[a] # "sp"
  <2>1. ASSUME a = n + 1 PROVE FALSE
    <3> DEFINE rest == SubSeq(w, k + 1, Len(w))
               x == w[k]
               W == Seq(C)
    <3>1. <<x>> \o rest = <<>>
      <4>1. WordsFrom(s, n + 1) = <<>>
        BY WordsAre
      <4>2. WordsFrom(s, a) = WordsFrom(s, p)
        BY <1>1
      <4>3. SubSeq(w, k, Len(w)) = <<w[k]>> \o SubSeq(w, k + 1, Len(w))
        BY <1>2
      <4> QED BY <2>1, <4>1, <4>2, <4>3, Zenon
    <3>2. x \in W /\ rest \in Seq(W)
      BY <1>2
    <3> HIDE DEF x, rest, W
    <3> QED BY <3>1, <3>2, OneBefore
  <2>2. a <= n
    BY <1>0, <2>1
  <2> QED BY <1>0, <1>1, <2>2
<1> DEFINE e == End(s, a)
<1>4. e \in a..n /\ (\A j \in a..e : s[j] # "sp") /\ (e = n \/ s[e + 1] = "sp")
  BY <1>3, EndIs
<1>5. w[k] = SubSeq(s, a, e) /\ WordsFrom(s, e + 1) = SubSeq(w, k + 1, Len(w))
  <2> DEFINE rest == SubSeq(w, k + 1, Len(w))
             x == w[k]
             y == SubSeq(s, a, e)
             r == WordsFrom(s, e + 1)
             W == Seq(C)
  <2>1. r \in Seq(W)
    <3>1. e + 1 \in 1..(n + 1)
      BY <1>0, <1>3, <1>4
    <3> HIDE DEF e
    <3> QED BY <3>1, WordsAre
  <2>2. y \in W
    <3>1. a \in 1..(n + 1) /\ e \in 0..n /\ a <= e + 1
      BY <1>0, <1>3, <1>4
    <3> HIDE DEF e
    <3> QED BY <3>1, Part
  <2>3. x \in W /\ rest \in Seq(W)
    BY <1>2
  <2>4. Prepend(y, r) = Prepend(x, rest)
    <3>1. WordsFrom(s, a) = <<y>> \o r
      BY <1>3, WordsAre
    <3>2. WordsFrom(s, a) = WordsFrom(s, p)
      BY <1>1
    <3>3. SubSeq(w, k, Len(w)) = <<x>> \o rest
      BY <1>2
    <3> HIDE DEF x, y, rest, r
    <3> QED BY <3>1, <3>2, <3>3, Zenon DEF Prepend
  <2> HIDE DEF rest, x, y, r, W, e
  <2>5. y = x /\ r = rest
    BY <2>1, <2>2, <2>3, <2>4, SameFirst
  <2> QED BY <2>5 DEF x, y, r, rest
<1> HIDE DEF e
<1>6. Covered(s, w, k - 1, a)
  <2> SUFFICES ASSUME NEW i \in 1..(a - 1), NEW j \in 1..n, i <= j, \A l \in i..j : s[l] # "sp"
               PROVE  \E m \in 1..(k - 1) : SubSeq(s, i, j) \in SubSeqs(w[m])
    BY DEF Covered
  <2>1. i \in i..j
    BY <1>0
  <2>2. ~(i \in p..(a - 1))
    BY <1>1, <2>1
  <2>3. i \in 1..(p - 1)
    BY <1>0, <2>2
  <2> QED BY <2>3 DEF Covered
<1>7. Covered(s, w, k, e + 1)
  <2> SUFFICES ASSUME NEW i \in 1..((e + 1) - 1), NEW j \in 1..n, i <= j, \A l \in i..j : s[l] # "sp"
               PROVE  \E m \in 1..k : SubSeq(s, i, j) \in SubSeqs(w[m])
    BY DEF Covered
  <2>1. CASE i < a
    <3>1. i \in 1..(a - 1)
      BY <1>0, <2>1
    <3>2. PICK m \in 1..(k - 1) : SubSeq(s, i, j) \in SubSeqs(w[m])
      BY <1>6, <3>1 DEF Covered
    <3>3. m \in 1..k
      BY <1>0
    <3> QED BY <3>2, <3>3
  <2>2. CASE ~(i < a)
    <3>1. i \in a..e
      BY <1>0, <1>3, <1>4, <2>2
    <3>2. j <= e
      <4> SUFFICES ASSUME ~(j <= e) PROVE FALSE
        OBVIOUS
      <4>1. e + 1 \in i..j /\ e # n
        BY <1>0, <1>3, <1>4, <3>1
      <4> QED BY <1>4, <4>1
    <3> DEFINE u == SubSeq(s, a, e)
               i0 == i - a
               j0 == j - a + 1
    <3>3. /\ a \in 1..(n + 1) /\ e \in 0..n /\ a <= e + 1 /\ i0 \in 0..(e - a + 1) /\ j0 \in 0..(e - a + 1)
          /\ i0 + 1 \in 1..(e - a + 2) /\ i0 + 1 <= j0 + 1 /\ j0 - (i0 + 1) + 1 = j - i + 1
      BY <1>0, <1>3, <1>4, <3>1, <3>2
    <3>4. u \in Seq(C) /\ Len(u) = e - a + 1 /\ \A l \in 1..(e - a + 1) : u[l] = s[a + l - 1]
      BY <3>3, Part
    <3> HIDE DEF u
    <3> DEFINE v == SubSeq(u, i0 + 1, j0)
               x == SubSeq(s, i, j)
    <3>5. v \in Seq(C) /\ Len(v) = j - i + 1 /\ \A l \in 1..(j - i + 1) : v[l] = u[i0 + 1 + l - 1]
      <4>1. i0 + 1 \in 1..(Len(u) + 1) /\ j0 \in 0..Len(u)
        BY <1>0, <3>3, <3>4
      <4> DEFINE i1 == i0 + 1
      <4>2. i1 \in 1..(Len(u) + 1) /\ i1 <= j0 + 1 /\ j0 - i1 + 1 = j - i + 1
        BY <3>3, <4>1
      <4> HIDE DEF i1, j0
      <4>3. /\ SubSeq(u, i1, j0) \in Seq(C) /\ Len(SubSeq(u, i1, j0)) = j0 - i1 + 1
            /\ \A l \in 1..(j0 - i1 + 1) : SubSeq(u, i1, j0)[l] = u[i1 + l - 1]
        <5>1. u \in Seq(C) /\ j0 \in 0..Len(u)
          BY <3>4, <4>1
        <5> QED BY <4>2, <5>1, Part
      <4> QED BY <4>2, <4>3 DEF i1
    <3>6. x \in Seq(C) /\ Len(x) = j - i + 1 /\ \A l \in 1..(j - i + 1) : x[l] = s[i + l - 1]
      <4>1. i \in 1..(n + 1) /\ j \in 0..n /\ i <= j + 1
        BY <1>0, <1>3, <1>4, <3>1
      <4> QED BY <4>1, Part
    <3>7. \A l \in 1..(j - i + 1) : u[i0 + 1 + l - 1] = s[i + l - 1]
      <4> SUFFICES ASSUME NEW l \in 1..(j - i + 1) PROVE u[i0 + 1 + l - 1] = s[i + l - 1]
        OBVIOUS
      <4>1. i0 + 1 + l - 1 \in 1..(e - a + 1) /\ a + (i0 + 1 + l - 1) - 1 = i + l - 1
        BY <1>0, <1>3, <1>4, <3>1, <3>2
      <4> QED BY <3>4, <4>1
    <3> HIDE DEF v, x
    <3>8. v = x
      <4>1. Len(v) = Len(x) /\ \A l \in 1..Len(v) : v[l] = x[l]
        BY <3>5, <3>6, <3>7
      <4> QED BY <3>5, <3>6, <4>1, SameText
    <3>9. v \in SubSeqs(u)
      <4>1. i0 \in 0..Len(u) /\ j0 \in 0..Len(u)
        BY <3>3, <3>4
      <4> HIDE DEF i0, j0
      <4> QED BY <4>1 DEF v, SubSeqs
    <3>10. w[k] = u /\ k \in 1..k
      BY <1>0, <1>5 DEF u
    <3>11. SubSeq(s, i, j) \in SubSeqs(w[k])
      BY <3>8, <3>9, <3>10, Zenon DEF x
    <3> QED BY <3>10, <3>11
  <2> QED BY <2>1, <2>2
<1>8. WordAt(s, w, k, a, e)
  BY <1>3, <1>4, <1>5, <1>6 DEF WordAt
<1>9. e \in 1..n
  BY <1>0, <1>3, <1>4
<1> QED BY <1>3, <1>7, <1>8, <1>9

\* Every word of a text is somewhere in it.
LEMMA WordsAt ==
  ASSUME NEW C, NEW s \in Seq(C), NEW k \in 1..Len(Words(s))
  PROVE  \E a, e \in 1..Len(s) : WordAt(s, Words(s), k, a, e)
<1> DEFINE w == Words(s)
           n == Len(w)
           Rest(i, p) == WordsFrom(s, p) = SubSeq(w, i + 1, n) /\ Covered(s, w, i, p)
           S == {i \in 0..n : \E p \in 1..(Len(s) + 1) : Rest(i, p)}
<1>0. Len(s) \in Nat /\ 1 \in 1..(Len(s) + 1)
  OBVIOUS
<1>1. w \in Seq(Seq(C))
  BY <1>0, WordsAre DEF Words
<1>2. n \in Nat
  BY <1>1
<1>3. Rest(0, 1)
  <2>1. SubSeq(w, 1, n) = w
    <3> HIDE DEF w
    <3> QED BY <1>1, SubSeqFull
  <2>2. Covered(s, w, 0, 1)
    <3>1. 1..(1 - 1) = {}
      OBVIOUS
    <3> QED BY <3>1 DEF Covered
  <2>3. 0 + 1 = 1
    OBVIOUS
  <2> QED BY <2>1, <2>2, <2>3 DEF Words
<1> HIDE DEF w
<1>4. ASSUME NEW i \in 1..n, NEW p \in 1..(Len(s) + 1), Rest(i - 1, p)
      PROVE  \E a, e \in 1..Len(s) : WordAt(s, w, i, a, e) /\ Covered(s, w, i, e + 1)
  <2>1. (i - 1) + 1 = i
    BY <1>2
  <2>2. WordsFrom(s, p) = SubSeq(w, i, n) /\ Covered(s, w, i - 1, p)
    BY <1>4, <2>1
  <2> QED BY <1>1, <2>2, NextWord
<1>5. ASSUME NEW i \in 1..n, i - 1 \in S PROVE i \in S
  <2>1. PICK p \in 1..(Len(s) + 1) : Rest(i - 1, p)
    BY <1>5
  <2>2. PICK a \in 1..Len(s), e \in 1..Len(s) : WordAt(s, w, i, a, e) /\ Covered(s, w, i, e + 1)
    BY <1>4, <2>1
  <2>3. e + 1 \in 1..(Len(s) + 1) /\ i \in 0..n
    BY <1>0, <1>2
  <2>4. Rest(i, e + 1)
    BY <2>2 DEF WordAt
  <2> HIDE DEF Rest
  <2> QED BY <2>3, <2>4
<1>6. 0 \in S
  <2>1. 0 \in 0..n
    BY <1>2
  <2> HIDE DEF Rest
  <2> QED BY <1>0, <1>3, <2>1
<1>7. 0..n \subseteq S
  <2> HIDE DEF S
  <2> QED BY <1>2, <1>5, <1>6, BoundedInduction
<1>8. k \in 1..n /\ k - 1 \in 0..n
  BY <1>2 DEF w
<1>9. PICK p \in 1..(Len(s) + 1) : Rest(k - 1, p)
  <2> HIDE DEF Rest
  <2> QED BY <1>7, <1>8
<1>10. \E a, e \in 1..Len(s) : WordAt(s, w, k, a, e)
  BY <1>4, <1>8, <1>9
<1> QED BY <1>10 DEF w

-----------------------------------------------------------------------------
(* The message of a syslog line.                                           *)

\* The words of what follows a position, trimmed, are those from there on.
LEMMA WordsOfRest ==
  ASSUME NEW C, NEW s \in Seq(C), NEW c \in 1..(Len(s) + 1)
  PROVE  Words(Trim(SubSeq(s, c, Len(s)))) = WordsFrom(s, c)
<1> DEFINE n == Len(s)
           u == SubSeq(s, c, n)
<1>1. n \in Nat /\ n \in 0..n /\ c <= n + 1 /\ c \in 1..(n + 1)
  OBVIOUS
<1>2. u \in Seq(C)
  BY <1>1, Part
<1>3. Words(Trim(u)) = Words(u)
  <2> HIDE DEF u
  <2> QED BY <1>2, WordsOfTrim
<1>4. \A j \in (n + 1)..n : s[j] = "sp"
  BY <1>1
<1>5. \A i \in 1..(n - c + 2) : WordsFrom(u, i) = WordsFrom(s, c + i - 1)
  BY <1>1, <1>4, WordsOfPart
<1>6. 1 \in 1..(n - c + 2) /\ c + 1 - 1 = c
  BY <1>1
<1>7. WordsFrom(u, 1) = WordsFrom(s, c)
  <2> HIDE DEF u
  <2>1. WordsFrom(u, 1) = WordsFrom(s, c + 1 - 1)
    BY <1>5, <1>6
  <2> QED BY <2>1, <1>6
<1> QED BY <1>3, <1>7 DEF Words

\* The places of a text in another.
Places(s, t) == {i \in 1..(Len(s) - Len(t) + 1) : SubSeq(s, i, i + Len(t) - 1) = t}

\* The first place of tag, the text from a to e, is there or earlier, and has no blank.
FirstAt(s, a, e, tag) ==
  LET m == Min(Places(s, tag)) IN
  /\ Len(tag) = e - a + 1 /\ m \in 1..a /\ SubSeq(s, m, m + Len(tag) - 1) = tag
  /\ \A j \in m..(m + Len(tag) - 1) : s[j] # "sp"

\* A text without blanks has a first place as long as it stands anywhere.
LEMMA FirstPlace ==
  ASSUME NEW C, NEW s \in Seq(C), NEW a \in 1..Len(s), NEW e \in a..Len(s),
         \A j \in a..e : s[j] # "sp"
  PROVE  FirstAt(s, a, e, SubSeq(s, a, e))
<1> DEFINE n == Len(s)
           L == e - a + 1
           tag == SubSeq(s, a, e)
           S == {i \in 1..(n - L + 1) : SubSeq(s, i, i + L - 1) = tag}
           m == Min(S)
<1>1. n \in Nat /\ a \in 1..(n + 1) /\ e \in 0..n /\ a <= e + 1 /\ L \in 1..n
  OBVIOUS
<1>2. Len(SubSeq(s, a, e)) = e - a + 1 /\ \A k \in 1..(e - a + 1) : SubSeq(s, a, e)[k] = s[a + k - 1]
  BY <1>1, Part
<1>3. Len(tag) = L /\ \A k \in 1..L : tag[k] = s[a + k - 1]
  BY <1>2
<1> HIDE DEF tag
<1>4. a \in 1..(n - L + 1) /\ a + L - 1 = e
  BY <1>1
<1>5. a \in S
  BY <1>4 DEF tag
<1>6. Places(s, tag) = S
  BY <1>3 DEF Places
<1>7. S \subseteq Nat /\ S # {}
  <2>1. S \subseteq Nat
    <3> HIDE DEF L
    <3>1. \A i \in S : i \in 1..(n - L + 1)
      OBVIOUS
    <3> HIDE DEF S
    <3> QED BY <3>1
  <2> HIDE DEF S
  <2> QED BY <1>5, <2>1
<1>8. m \in S /\ \A i \in S : m <= i
  <2> HIDE DEF S
  <2> QED BY <1>7, LeastIs
<1>9. m \in 1..(n - L + 1) /\ m <= a
  BY <1>5, <1>8
<1>10. SubSeq(s, m, m + L - 1) = tag
  BY <1>8
<1>11. m \in 1..(n + 1) /\ m + L - 1 \in 0..n /\ m <= m + L - 1 + 1 /\ m \in Nat
  <2> HIDE DEF m, S
  <2> QED BY <1>9, <1>1
<1>12. \A k \in 1..L : tag[k] = s[m + k - 1]
  <2> HIDE DEF m, S
  <2>1. \A k \in 1..(m + L - 1 - m + 1) : SubSeq(s, m, m + L - 1)[k] = s[m + k - 1]
    BY <1>11, Part
  <2>2. m + L - 1 - m + 1 = L
    BY <1>11, <1>1
  <2>3. \A k \in 1..L : SubSeq(s, m, m + L - 1)[k] = s[m + k - 1]
    <3> HIDE DEF L
    <3> QED BY <2>1, <2>2
  <2> QED BY <2>3, <1>10
<1>13. \A j \in m..(m + L - 1) : s[j] # "sp"
  <2> HIDE DEF m, S
  <2> TAKE j \in m..(m + L - 1)
  <2>1. j - m + 1 \in 1..L /\ m + (j - m + 1) - 1 = j
    BY <1>11, <1>1
  <2>2. a + (j - m + 1) - 1 \in a..e
    BY <1>11, <1>1
  <2>3. tag[j - m + 1] = s[m + (j - m + 1) - 1] /\ tag[j - m + 1] = s[a + (j - m + 1) - 1]
    BY <2>1, <1>12, <1>3
  <2>4. s[a + (j - m + 1) - 1] # "sp"
    BY <2>2
  <2> QED BY <2>1, <2>3, <2>4
<1>14. m \in 1..a
  <2> HIDE DEF m, S
  <2> QED BY <1>9
<1> QED
  <2> HIDE DEF m, S, L
  <2>1. m = Min(Places(s, tag))
    BY <1>6 DEF m
  <2>2. /\ Len(tag) = L /\ m \in 1..a /\ SubSeq(s, m, m + Len(tag) - 1) = tag
        /\ \A j \in m..(m + Len(tag) - 1) : s[j] # "sp"
    BY <1>3, <1>10, <1>13, <1>14
  <2>3. L = e - a + 1
    BY DEF L
  <2> QED BY <2>1, <2>2, <2>3, Zenon DEF FirstAt, tag

\* What follows the first place of the tag has the words after the tag for its last
\* words, and no others when the words before the tag do not have the tag in them.
LEMMA WordsAfterTag ==
  ASSUME NEW C, NEW s \in Seq(C), Len(Words(s)) >= 5
  PROVE  LET w == Words(s)
             message == Words(Trim(SubSeq(s, Min(Places(s, w[5])) + Len(w[5]), Len(s))))
         IN  /\ IsSuffix(SubSeq(w, 6, Len(w)), message)
             /\ (\A k \in 1..4 : w[5] \notin SubSeqs(w[k])) => message = SubSeq(w, 6, Len(w))
<1> DEFINE n == Len(s)
           w == Words(s)
           tag == w[5]
           m == Min(Places(s, tag))
           c == m + Len(tag)
           rest == SubSeq(w, 6, Len(w))
<1>1. n \in Nat /\ 1 \in 1..(n + 1)
  OBVIOUS
<1>2. w \in Seq(Seq(C))
  BY <1>1, WordsAre DEF Words
<1>3. Len(w) \in Nat /\ 5 \in 1..Len(w)
  <2> HIDE DEF w
  <2>1. Len(w) \in Nat
    BY <1>2
  <2>2. Len(w) >= 5
    BY DEF w
  <2> QED BY <2>1, <2>2
<1>4. \E a, e \in 1..n : WordAt(s, w, 5, a, e)
  BY <1>3, WordsAt
<1>5. PICK a \in 1..n, e \in 1..n : WordAt(s, w, 5, a, e)
  <2> HIDE DEF w, n
  <2> QED BY <1>4
<1>6. /\ a \in 1..n /\ e \in a..n /\ (\A j \in a..e : s[j] # "sp") /\ tag = SubSeq(s, a, e)
      /\ WordsFrom(s, e + 1) = SubSeq(w, 5 + 1, Len(w)) /\ (e = n \/ s[e + 1] = "sp")
      /\ Covered(s, w, 5 - 1, a)
  <2> HIDE DEF w
  <2> QED BY <1>5 DEF WordAt
<1> HIDE DEF w
<1>7. /\ Len(tag) = e - a + 1 /\ m \in 1..a /\ SubSeq(s, m, m + Len(tag) - 1) = tag
      /\ \A j \in m..(m + Len(tag) - 1) : s[j] # "sp"
  <2> HIDE DEF tag
  <2>1. a \in 1..n /\ e \in a..n
    BY <1>6
  <2>2. \A j \in a..e : s[j] # "sp"
    BY <1>6
  <2>3. tag = SubSeq(s, a, e)
    BY <1>6
  <2>4. FirstAt(s, a, e, SubSeq(s, a, e))
    BY <2>1, <2>2, FirstPlace
  <2>5. FirstAt(s, a, e, tag)
    BY <2>3, <2>4, Zenon
  <2> QED BY <2>5, Zenon DEF FirstAt, m
<1>8. WordsFrom(s, e + 1) = rest
  <2>1. 5 + 1 = 6
    OBVIOUS
  <2> QED BY <1>6, <2>1, Zenon
<1> HIDE DEF tag, m
<1>9. c \in 1..(e + 1) /\ e + 1 \in 1..(n + 1) /\ c \in 1..(n + 1)
  BY <1>1, <1>6, <1>7
<1>10. Words(Trim(SubSeq(s, c, n))) = WordsFrom(s, c)
  <2> HIDE DEF c
  <2> QED BY <1>9, WordsOfRest
<1>11. e + 1 = n + 1 \/ s[e + 1] = "sp"
  BY <1>6
<1>12. \E h \in Seq(Seq(C)) : WordsFrom(s, c) = h \o WordsFrom(s, e + 1)
  <2> HIDE DEF c
  <2> QED BY <1>9, <1>11, LaterWords
<1>13. PICK h \in Seq(Seq(C)) : WordsFrom(s, c) = h \o rest
  <2> HIDE DEF c, rest
  <2> QED BY <1>12, <1>8
<1>14. WordsFrom(s, e + 1) \in Seq(Seq(C))
  BY <1>9, WordsAre
<1>15. IsSuffix(rest, h \o rest)
  <2>1. rest \in Seq(Seq(C))
    BY <1>14, <1>8, Zenon
  <2> DEFINE W == Seq(C)
  <2>2. rest \in Seq(W) /\ h \in Seq(W)
    BY <2>1
  <2> HIDE DEF W, rest
  <2> QED BY <2>2, SuffixOfConcat
<1>16. IsSuffix(rest, Words(Trim(SubSeq(s, c, n))))
  <2> HIDE DEF c, rest
  <2> QED BY <1>10, <1>13, <1>15, Zenon
<1>17. ASSUME \A k \in 1..4 : tag \notin SubSeqs(w[k])
       PROVE  Words(Trim(SubSeq(s, c, n))) = rest
  <2>1. ASSUME m < a PROVE FALSE
    <3>1. m \in 1..(a - 1) /\ m + Len(tag) - 1 \in 1..Len(s) /\ m <= m + Len(tag) - 1
      BY <2>1, <1>6, <1>7
    <3>2. \E k \in 1..(5 - 1) : SubSeq(s, m, m + Len(tag) - 1) \in SubSeqs(w[k])
      BY <3>1, <1>6, <1>7 DEF Covered
    <3>3. 5 - 1 = 4
      OBVIOUS
    <3>4. \E k \in 1..4 : tag \in SubSeqs(w[k])
      BY <3>2, <3>3, <1>7, Zenon
    <3> QED BY <3>4, <1>17
  <2>2. c = e + 1
    BY <2>1, <1>6, <1>7
  <2> HIDE DEF c, rest
  <2> QED BY <2>2, <1>10, <1>8, Zenon
<1> QED BY <1>16, <1>17, Zenon DEF w, tag, m, c, rest, n

\* A line of kind syslog has five words, and its message is what follows the first place
\* of the fifth.
LEMMA SyslogIs ==
  ASSUME NEW line, MixedOutcome(line).kind = "syslog"
  PROVE  LET tag == Words(line)[5]
         IN  /\ ~(Len(Words(line)) < 5)
             /\ MixedOutcome(line).message =
                  Trim(SubSeq(line, Min(Places(line, tag)) + Len(tag), Len(line)))
<1> DEFINE outcomes == <<JsonOutcome(line), WebOutcome(line), SyslogOutcome(line)>>
           decided  == {k \in 1..3 : outcomes[k].parse # "reject"}
           k        == Min(decided)
           w        == Words(line)
           rest     == Trim(SubSeq(line, Min(Places(line, w[5])) + Len(w[5]), Len(line)))
<1>1. MixedOutcome(line) =
        IF decided = {} THEN [parse |-> "reject", kind |-> "none", message |-> <<>>]
        ELSE [parse |-> outcomes[k].parse, kind |-> Kinds[k], message |-> outcomes[k].message]
  BY Zenon DEF MixedOutcome
<1>2. \A i \in decided : i \in 1..3 /\ outcomes[i].parse # "reject"
  OBVIOUS
<1>3. outcomes[3] = SyslogOutcome(line)
  OBVIOUS
<1>4. SyslogOutcome(line) = IF Len(w) < 5 THEN Rejected ELSE Accepted(rest)
  BY Zenon DEF SyslogOutcome, Places
<1> HIDE DEF outcomes, decided, k, w, rest
<1>5. decided # {}
  <2>1. ASSUME decided = {} PROVE FALSE
    <3>1. MixedOutcome(line).kind = "none"
      BY <1>1, <2>1
    <3> QED BY <3>1
  <2> QED BY <2>1
<1>6. MixedOutcome(line).kind = Kinds[k] /\ MixedOutcome(line).message = outcomes[k].message
  BY <1>1, <1>5
<1>7. k \in decided
  <2>1. decided \subseteq Nat
    BY <1>2
  <2> QED BY <2>1, <1>5, LeastIs DEF k
<1>8. k = 3
  BY <1>2, <1>6, <1>7 DEF Kinds
<1>9. SyslogOutcome(line).parse # "reject"
  BY <1>2, <1>3, <1>7, <1>8
<1>10. ~(Len(w) < 5) /\ SyslogOutcome(line) = Accepted(rest)
  <2>1. Rejected.parse = "reject"
    BY DEF Rejected
  <2> QED BY <1>4, <1>9, <2>1, Zenon
<1>11. Accepted(rest).message = rest
  BY DEF Accepted
<1>12. MixedOutcome(line).message = rest
  BY <1>3, <1>6, <1>8, <1>10, <1>11, Zenon
<1> QED BY <1>10, <1>12, Zenon DEF w, rest

\* The invariant gives every event its line, of which the outcome is known.
LEMMA InvMessageIsRest == Inv => SyslogMessageIsRest
<1> SUFFICES ASSUME Inv, NEW i \in 1..Len(parsed), parsed[i].kind = "syslog"
             PROVE  LET w == Words(parsed[i].id[3])
                        rest == SubSeq(w, 6, Len(w))
                        message == Words(parsed[i].message)
                    IN  /\ IsSuffix(rest, message)
                        /\ (\A k \in 1..4 : w[5] \notin SubSeqs(w[k])) => message = rest
  BY Zenon DEF SyslogMessageIsRest
<1>1. parsed[i] \in Records
  <2>1. parsed \in Seq(Records)
    BY DEF Inv, Typed
  <2> QED BY <2>1
<1>2. PICK source \in Names, line \in Lines, ordinal \in Nat :
             parsed[i] = Event(source, line, ordinal, MixedOutcome(line))
  BY <1>1 DEF Records
<1>3. /\ parsed[i].id[3] = line /\ parsed[i].kind = MixedOutcome(line).kind
      /\ parsed[i].message = MixedOutcome(line).message
  BY <1>2 DEF Event
<1>4. line \in Seq(STRING)
  BY LinesAssumption
<1> DEFINE w == Words(line)
           rest == Trim(SubSeq(line, Min(Places(line, w[5])) + Len(w[5]), Len(line)))
<1>5. ~(Len(w) < 5) /\ MixedOutcome(line).message = rest
  <2>1. MixedOutcome(line).kind = "syslog"
    BY <1>3
  <2> QED BY <2>1, SyslogIs
<1>6. Len(w) >= 5
  <2>1. Len(w) \in Nat
    <3> DEFINE W == Seq(STRING)
    <3>1. 1 \in 1..(Len(line) + 1)
      BY <1>4
    <3>2. w \in Seq(W)
      BY <1>4, <3>1, WordsAre DEF Words
    <3> HIDE DEF W, w
    <3> QED BY <3>2
  <2> HIDE DEF w
  <2> QED BY <2>1, <1>5
<1>7. /\ IsSuffix(SubSeq(w, 6, Len(w)), Words(rest))
      /\ (\A k \in 1..4 : w[5] \notin SubSeqs(w[k])) => Words(rest) = SubSeq(w, 6, Len(w))
  BY <1>4, <1>6, WordsAfterTag
<1> HIDE DEF rest
<1> QED BY <1>3, <1>5, <1>7, Zenon DEF w

\* LogIndex: the message of a syslog event is the words after its tag (see SyslogMessageIsRest).
THEOREM SyslogMessageIsRestHolds == Spec => []SyslogMessageIsRest
<1>1. Inv => SyslogMessageIsRest
  BY InvMessageIsRest
<1> QED BY <1>1, InvHolds, PTL

-----------------------------------------------------------------------------
(* The functions of lex and of the parser.                                 *)

\* QuoteEnd at a position, by the later ones.
LEMMA QuoteEndIs ==
  ASSUME NEW q \in Seq(Lexemes)
  PROVE  \E f \in [1..(Len(q) + 2) -> Nat] :
           \A d \in 1..(Len(q) + 2) :
             /\ f[d] \in {m \in Nat : m <= Len(q) + 1 /\ (d <= Len(q) + 1 => m >= d)} /\ QuoteEnd(q, d) = f[d]
             /\ f[d] = (IF d > Len(q) THEN Len(q) + 1 ELSE IF q[d] = "quote" THEN d ELSE IF q[d] = "bs" /\ d < Len(q) THEN f[d + 2] ELSE f[d + 1])
<1> DEFINE D == 1..(Len(q) + 2)
           V == Nat
           W == [d \in D |-> {m \in Nat : m <= Len(q) + 1 /\ (d <= Len(q) + 1 => m >= d)}]
           rank == [d \in D |-> (Len(q) + 2) - d]
           T == Selections(D, V, W)
           turn(f) == [d \in D |-> (IF d > Len(q) THEN Len(q) + 1 ELSE IF q[d] = "quote" THEN d ELSE IF q[d] = "bs" /\ d < Len(q) THEN f[d + 2] ELSE f[d + 1])]
           F == [f \in T |-> turn(f)]
           g == CHOOSE h : h = turn(h)
           Below(f, d) == \A c \in D : rank[c] < rank[d] => f[c] \in W[c]
           Same(f, h, d) == \A c \in D : rank[c] < rank[d] => f[c] = h[c]
<1>0. /\ Len(q) \in Nat
      /\ \A d \in D : d <= Len(q) => d + 1 \in D /\ rank[d + 1] < rank[d]
      /\ \A d \in D : d < Len(q) => d + 2 \in D /\ rank[d + 2] < rank[d]
  OBVIOUS
<1>1. /\ W \in [D -> SUBSET V] /\ (\A d \in D : W[d] # {}) /\ rank \in [D -> Nat]
  <2>1. \A d \in D : Len(q) + 1 \in W[d]
    BY <1>0
  <2> QED BY <1>0, <2>1
<1>2. ASSUME NEW f, NEW d \in D, Below(f, d) PROVE (IF d > Len(q) THEN Len(q) + 1 ELSE IF q[d] = "quote" THEN d ELSE IF q[d] = "bs" /\ d < Len(q) THEN f[d + 2] ELSE f[d + 1]) \in W[d]
  <2>1. CASE d > Len(q)
    BY <1>0, <2>1
  <2>2. CASE d <= Len(q)
    <3>1. f[d + 1] \in W[d + 1] /\ d + 1 \in D
      BY <1>0, <1>2, <2>2
    <3>2. d < Len(q) => f[d + 2] \in W[d + 2] /\ d + 2 \in D
      BY <1>0, <1>2
    <3>3. f[d + 1] \in Nat /\ f[d + 1] <= Len(q) + 1 /\ f[d + 1] >= d
      BY <1>0, <2>2, <3>1
    <3>4. d < Len(q) => f[d + 2] \in Nat /\ f[d + 2] <= Len(q) + 1 /\ f[d + 2] >= d
      BY <1>0, <2>2, <3>2
    <3> QED BY <1>0, <2>2, <3>3, <3>4
  <2> QED BY <1>0, <2>1, <2>2
<1>3. ASSUME NEW f, NEW h, NEW d \in D, Below(f, d), Same(f, h, d)
      PROVE  (IF d > Len(q) THEN Len(q) + 1 ELSE IF q[d] = "quote" THEN d ELSE IF q[d] = "bs" /\ d < Len(q) THEN f[d + 2] ELSE f[d + 1]) = (IF d > Len(q) THEN Len(q) + 1 ELSE IF q[d] = "quote" THEN d ELSE IF q[d] = "bs" /\ d < Len(q) THEN h[d + 2] ELSE h[d + 1])
  BY <1>0, <1>3
<1>4. F \in [T -> T]
  <2>1. ASSUME NEW f \in T PROVE turn(f) \in T
    <3>1. \A c \in D : f[c] \in W[c]
      BY DEF Selections
    <3>2. \A d \in D : turn(f)[d] \in W[d]
      <4> HIDE DEF D, W, rank
      <4> QED BY <1>2, <3>1
    <3> HIDE DEF turn
    <3>3. turn(f) \in [D -> V]
      <4>1. turn(f) = [d \in D |-> turn(f)[d]]
        BY DEF turn
      <4>2. \A d \in D : W[d] \subseteq V
        BY <1>1
      <4> HIDE DEF D, W, V, rank
      <4> QED BY <3>2, <4>1, <4>2
    <3> HIDE DEF D, W, V, rank
    <3> QED BY <3>2, <3>3 DEF Selections
  <2> HIDE DEF T, turn
  <2> QED BY <2>1
<1>5. Contracts(F, T, D, rank)
  <2> SUFFICES ASSUME NEW f \in T, NEW h \in T, NEW d \in D, Same(f, h, d)
               PROVE  F[f][d] = F[h][d]
    BY DEF Contracts
  <2>1. Below(f, d)
    BY DEF Selections
  <2>2. (IF d > Len(q) THEN Len(q) + 1 ELSE IF q[d] = "quote" THEN d ELSE IF q[d] = "bs" /\ d < Len(q) THEN f[d + 2] ELSE f[d + 1]) = (IF d > Len(q) THEN Len(q) + 1 ELSE IF q[d] = "quote" THEN d ELSE IF q[d] = "bs" /\ d < Len(q) THEN h[d + 2] ELSE h[d + 1])
    <3> HIDE DEF D, W, T, rank
    <3> QED BY <1>3, <2>1
  <2>3. F[f] = turn(f) /\ F[h] = turn(h)
    <3> HIDE DEF T, turn
    <3> QED OBVIOUS
  <2>4. turn(f)[d] = (IF d > Len(q) THEN Len(q) + 1 ELSE IF q[d] = "quote" THEN d ELSE IF q[d] = "bs" /\ d < Len(q) THEN f[d + 2] ELSE f[d + 1]) /\ turn(h)[d] = (IF d > Len(q) THEN Len(q) + 1 ELSE IF q[d] = "quote" THEN d ELSE IF q[d] = "bs" /\ d < Len(q) THEN h[d + 2] ELSE h[d + 1])
    <3> HIDE DEF D
    <3> QED OBVIOUS
  <2> HIDE DEF F, turn
  <2> QED BY <2>2, <2>3, <2>4
<1>6. PICK f \in T : F[f] = f
  <2> HIDE DEF F, D, V, W, rank
  <2>1. W \in [D -> SUBSET V]
    BY <1>1
  <2>2. \A d \in D : W[d] # {}
    BY <1>1
  <2>3. rank \in [D -> Nat]
    BY <1>1
  <2>4. F \in [Selections(D, V, W) -> Selections(D, V, W)] /\ Contracts(F, Selections(D, V, W), D, rank)
    BY <1>4, <1>5
  <2>5. Contraction(F, D, V, W, rank)
    BY <2>1, <2>2, <2>3, <2>4 DEF Contraction
  <2> QED BY <2>5, FixedPoint
<1>7. f = turn(f)
  <2> HIDE DEF T, turn
  <2> QED BY <1>6
<1>8. g = turn(g)
  <2> HIDE DEF turn
  <2> QED BY <1>7
<1>9. \A d \in D : QuoteEnd(q, d) = g[d]
  BY DEF QuoteEnd
<1> HIDE DEF g
<1>10. \A d \in D : g[d] = (IF d > Len(q) THEN Len(q) + 1 ELSE IF q[d] = "quote" THEN d ELSE IF q[d] = "bs" /\ d < Len(q) THEN g[d + 2] ELSE g[d + 1])
  <2> HIDE DEF D
  <2> QED BY <1>8
<1> DEFINE S == {k \in Nat : \A d \in D : rank[d] = k => g[d] \in W[d]}
<1>11. \A k \in Nat : (\A m \in Nat : m < k => m \in S) => k \in S
  <2> SUFFICES ASSUME NEW k \in Nat, \A m \in Nat : m < k => m \in S, NEW d \in D, rank[d] = k
               PROVE  g[d] \in W[d]
    OBVIOUS
  <2>1. Below(g, d)
    <3> SUFFICES ASSUME NEW c \in D, rank[c] < rank[d] PROVE g[c] \in W[c]
      OBVIOUS
    <3>1. rank[c] \in Nat
      BY <1>1
    <3> HIDE DEF D, W, rank
    <3> QED BY <3>1
  <2>2. (IF d > Len(q) THEN Len(q) + 1 ELSE IF q[d] = "quote" THEN d ELSE IF q[d] = "bs" /\ d < Len(q) THEN g[d + 2] ELSE g[d + 1]) \in W[d]
    <3> HIDE DEF D, W, rank
    <3> QED BY <1>2, <2>1
  <2> HIDE DEF D, W
  <2> QED BY <1>10, <2>2
<1>12. Nat \subseteq S
  <2> HIDE DEF S
  <2> QED BY <1>11, StrongInduction
<1>13. ASSUME NEW d \in D PROVE g[d] \in W[d]
  <2>1. rank[d] \in Nat
    BY <1>1
  <2> HIDE DEF D, W, rank
  <2> QED BY <1>12, <2>1
<1>14. g \in [D -> V]
  <2>1. \A d \in D : W[d] \subseteq V
    BY <1>1
  <2>2. g = [d \in D |-> g[d]]
    BY <1>8
  <2> HIDE DEF D, W, V
  <2> QED BY <1>13, <2>1, <2>2
<1>15. \A d \in D : g[d] \in {m \in Nat : m <= Len(q) + 1 /\ (d <= Len(q) + 1 => m >= d)}
  BY <1>13
<1> HIDE DEF D, V, W
<1> QED BY <1>9, <1>10, <1>14, <1>15 DEF D, V

\* What is left of a text from each position on.
LEMMA UnescapeIs ==
  ASSUME NEW s \in Seq(Lexemes)
  PROVE  \E f \in [1..(Len(s) + 2) -> Seq(Lexemes)] :
           \A d \in 1..(Len(s) + 2) :
             /\ f[d] \in Seq(Lexemes) /\ UnescapeFrom(s, d) = f[d]
             /\ f[d] = (IF d > Len(s) THEN <<>> ELSE IF s[d] = "bs" /\ d < Len(s) THEN <<s[d + 1]>> \o f[d + 2] ELSE <<s[d]>> \o f[d + 1])
<1> DEFINE D == 1..(Len(s) + 2)
           V == Seq(Lexemes)
           W == [d \in D |-> Seq(Lexemes)]
           rank == [d \in D |-> (Len(s) + 2) - d]
           T == Selections(D, V, W)
           turn(f) == [d \in D |-> (IF d > Len(s) THEN <<>> ELSE IF s[d] = "bs" /\ d < Len(s) THEN <<s[d + 1]>> \o f[d + 2] ELSE <<s[d]>> \o f[d + 1])]
           F == [f \in T |-> turn(f)]
           g == CHOOSE h : h = turn(h)
           Below(f, d) == \A c \in D : rank[c] < rank[d] => f[c] \in W[c]
           Same(f, h, d) == \A c \in D : rank[c] < rank[d] => f[c] = h[c]
<1>0. /\ Len(s) \in Nat
      /\ \A d \in D : d <= Len(s) => d + 1 \in D /\ rank[d + 1] < rank[d] /\ s[d] \in Lexemes
      /\ \A d \in D : d < Len(s) => d + 2 \in D /\ rank[d + 2] < rank[d] /\ s[d + 1] \in Lexemes
  OBVIOUS
<1>1. /\ W \in [D -> SUBSET V] /\ (\A d \in D : W[d] # {}) /\ rank \in [D -> Nat]
  BY <1>0
<1>2. ASSUME NEW f, NEW d \in D, Below(f, d) PROVE (IF d > Len(s) THEN <<>> ELSE IF s[d] = "bs" /\ d < Len(s) THEN <<s[d + 1]>> \o f[d + 2] ELSE <<s[d]>> \o f[d + 1]) \in W[d]
  <2>1. CASE d > Len(s)
    BY <1>0, <2>1
  <2>2. CASE d <= Len(s)
    <3>0. \A c \in D : rank[c] < rank[d] => f[c] \in Seq(Lexemes)
      <4>1. \A c \in D : W[c] = Seq(Lexemes)
        OBVIOUS
      <4> HIDE DEF D, W, rank
      <4> QED BY <1>2, <4>1
    <3>1. f[d + 1] \in Seq(Lexemes) /\ <<s[d]>> \in Seq(Lexemes)
      <4>1. d + 1 \in D /\ rank[d + 1] < rank[d] /\ s[d] \in Lexemes
        BY <1>0, <2>2
      <4>2. <<s[d]>> \in Seq(Lexemes)
        BY <4>1
      <4> HIDE DEF D, rank
      <4> QED BY <3>0, <4>1, <4>2
    <3>2. ASSUME d < Len(s) PROVE f[d + 2] \in Seq(Lexemes) /\ <<s[d + 1]>> \in Seq(Lexemes)
      <4>1. d + 2 \in D /\ rank[d + 2] < rank[d] /\ s[d + 1] \in Lexemes
        BY <1>0, <3>2
      <4>2. <<s[d + 1]>> \in Seq(Lexemes)
        BY <4>1
      <4> HIDE DEF D, rank
      <4> QED BY <3>0, <4>1, <4>2
    <3>3. <<s[d]>> \o f[d + 1] \in Seq(Lexemes)
      BY <3>1, ConcatProperties
    <3>4. d < Len(s) => <<s[d + 1]>> \o f[d + 2] \in Seq(Lexemes)
      BY <3>2, ConcatProperties
    <3>5. W[d] = Seq(Lexemes)
      OBVIOUS
    <3> HIDE DEF D, W, rank
    <3> QED BY <1>0, <2>2, <3>3, <3>4, <3>5
  <2> QED BY <1>0, <2>1, <2>2
<1>3. ASSUME NEW f, NEW h, NEW d \in D, Below(f, d), Same(f, h, d)
      PROVE  (IF d > Len(s) THEN <<>> ELSE IF s[d] = "bs" /\ d < Len(s) THEN <<s[d + 1]>> \o f[d + 2] ELSE <<s[d]>> \o f[d + 1]) = (IF d > Len(s) THEN <<>> ELSE IF s[d] = "bs" /\ d < Len(s) THEN <<s[d + 1]>> \o h[d + 2] ELSE <<s[d]>> \o h[d + 1])
  <2>1. CASE d > Len(s)
    BY <2>1
  <2>2. CASE d <= Len(s)
    <3>1. f[d + 1] = h[d + 1] /\ (d < Len(s) => f[d + 2] = h[d + 2])
      <4>1. d + 1 \in D /\ rank[d + 1] < rank[d]
        BY <1>0, <2>2
      <4>2. d < Len(s) => d + 2 \in D /\ rank[d + 2] < rank[d]
        BY <1>0
      <4> HIDE DEF D, rank
      <4> QED BY <1>3, <4>1, <4>2
    <3> HIDE DEF D, W, rank
    <3> QED BY <2>2, <3>1
  <2> QED BY <1>0, <2>1, <2>2
<1>4. F \in [T -> T]
  <2>1. ASSUME NEW f \in T PROVE turn(f) \in T
    <3>1. \A c \in D : f[c] \in W[c]
      BY DEF Selections
    <3>2. \A d \in D : turn(f)[d] \in W[d]
      <4> HIDE DEF D, W, rank
      <4> QED BY <1>2, <3>1
    <3> HIDE DEF turn
    <3>3. turn(f) \in [D -> V]
      <4>1. turn(f) = [d \in D |-> turn(f)[d]]
        BY DEF turn
      <4>2. \A d \in D : W[d] \subseteq V
        BY <1>1
      <4> HIDE DEF D, W, V, rank
      <4> QED BY <3>2, <4>1, <4>2
    <3> HIDE DEF D, W, V, rank
    <3> QED BY <3>2, <3>3 DEF Selections
  <2> HIDE DEF T, turn
  <2> QED BY <2>1
<1>5. Contracts(F, T, D, rank)
  <2> SUFFICES ASSUME NEW f \in T, NEW h \in T, NEW d \in D, Same(f, h, d)
               PROVE  F[f][d] = F[h][d]
    BY DEF Contracts
  <2>1. Below(f, d)
    BY DEF Selections
  <2>2. (IF d > Len(s) THEN <<>> ELSE IF s[d] = "bs" /\ d < Len(s) THEN <<s[d + 1]>> \o f[d + 2] ELSE <<s[d]>> \o f[d + 1]) = (IF d > Len(s) THEN <<>> ELSE IF s[d] = "bs" /\ d < Len(s) THEN <<s[d + 1]>> \o h[d + 2] ELSE <<s[d]>> \o h[d + 1])
    <3> HIDE DEF D, W, T, rank
    <3> QED BY <1>3, <2>1
  <2>3. F[f] = turn(f) /\ F[h] = turn(h)
    <3> HIDE DEF T, turn
    <3> QED OBVIOUS
  <2>4. turn(f)[d] = (IF d > Len(s) THEN <<>> ELSE IF s[d] = "bs" /\ d < Len(s) THEN <<s[d + 1]>> \o f[d + 2] ELSE <<s[d]>> \o f[d + 1]) /\ turn(h)[d] = (IF d > Len(s) THEN <<>> ELSE IF s[d] = "bs" /\ d < Len(s) THEN <<s[d + 1]>> \o h[d + 2] ELSE <<s[d]>> \o h[d + 1])
    <3> HIDE DEF D
    <3> QED OBVIOUS
  <2> HIDE DEF F, turn
  <2> QED BY <2>2, <2>3, <2>4
<1>6. PICK f \in T : F[f] = f
  <2> HIDE DEF F, D, V, W, rank
  <2>1. W \in [D -> SUBSET V]
    BY <1>1
  <2>2. \A d \in D : W[d] # {}
    BY <1>1
  <2>3. rank \in [D -> Nat]
    BY <1>1
  <2>4. F \in [Selections(D, V, W) -> Selections(D, V, W)] /\ Contracts(F, Selections(D, V, W), D, rank)
    BY <1>4, <1>5
  <2>5. Contraction(F, D, V, W, rank)
    BY <2>1, <2>2, <2>3, <2>4 DEF Contraction
  <2> QED BY <2>5, FixedPoint
<1>7. f = turn(f)
  <2> HIDE DEF T, turn
  <2> QED BY <1>6
<1>8. g = turn(g)
  <2> HIDE DEF turn
  <2> QED BY <1>7
<1>9. \A d \in D : UnescapeFrom(s, d) = g[d]
  BY DEF UnescapeFrom
<1> HIDE DEF g
<1>10. \A d \in D : g[d] = (IF d > Len(s) THEN <<>> ELSE IF s[d] = "bs" /\ d < Len(s) THEN <<s[d + 1]>> \o g[d + 2] ELSE <<s[d]>> \o g[d + 1])
  <2> HIDE DEF D
  <2> QED BY <1>8
<1> DEFINE S == {k \in Nat : \A d \in D : rank[d] = k => g[d] \in W[d]}
<1>11. \A k \in Nat : (\A m \in Nat : m < k => m \in S) => k \in S
  <2> SUFFICES ASSUME NEW k \in Nat, \A m \in Nat : m < k => m \in S, NEW d \in D, rank[d] = k
               PROVE  g[d] \in W[d]
    OBVIOUS
  <2>1. Below(g, d)
    <3> SUFFICES ASSUME NEW c \in D, rank[c] < rank[d] PROVE g[c] \in W[c]
      OBVIOUS
    <3>1. rank[c] \in Nat
      BY <1>1
    <3> HIDE DEF D, W, rank
    <3> QED BY <3>1
  <2>2. (IF d > Len(s) THEN <<>> ELSE IF s[d] = "bs" /\ d < Len(s) THEN <<s[d + 1]>> \o g[d + 2] ELSE <<s[d]>> \o g[d + 1]) \in W[d]
    <3> HIDE DEF D, W, rank
    <3> QED BY <1>2, <2>1
  <2> HIDE DEF D, W
  <2> QED BY <1>10, <2>2
<1>12. Nat \subseteq S
  <2> HIDE DEF S
  <2> QED BY <1>11, StrongInduction
<1>13. ASSUME NEW d \in D PROVE g[d] \in W[d]
  <2>1. rank[d] \in Nat
    BY <1>1
  <2> HIDE DEF D, W, rank
  <2> QED BY <1>12, <2>1
<1>14. g \in [D -> V]
  <2>1. \A d \in D : W[d] \subseteq V
    BY <1>1
  <2>2. g = [d \in D |-> g[d]]
    BY <1>8
  <2> HIDE DEF D, W, V
  <2> QED BY <1>13, <2>1, <2>2
<1>15. \A d \in D : g[d] \in Seq(Lexemes)
  BY <1>13
<1> HIDE DEF D, V, W
<1> QED BY <1>9, <1>10, <1>14, <1>15 DEF D, V

TokenKinds == {"(", ")", "op", "word", "and", "or", "not"}
Tokens == [kind : TokenKinds, text : Seq(Lexemes)]

\* Where a word and a quoted text end.
LEMMA EndsAre ==
  ASSUME NEW q \in Seq(Lexemes), NEW i \in 1..Len(q)
  PROVE  /\ QuoteEnd(q, i + 1) \in (i + 1)..(Len(q) + 1)
         /\ WordEnd(q, i) \in (i + 1)..(Len(q) + 1)
<1>1. Len(q) \in Nat /\ i + 1 \in 1..(Len(q) + 2) /\ i + 1 <= Len(q) + 1
  OBVIOUS
<1>2. QuoteEnd(q, i + 1) \in (i + 1)..(Len(q) + 1)
  <2> DEFINE k == i + 1
  <2> HIDE DEF k
  <2>1. k \in 1..(Len(q) + 2) /\ k <= Len(q) + 1
    BY <1>1 DEF k
  <2>2. QuoteEnd(q, k) \in {m \in Nat : m <= Len(q) + 1 /\ (k <= Len(q) + 1 => m >= k)}
    BY <2>1, QuoteEndIs
  <2>3. QuoteEnd(q, k) \in k..(Len(q) + 1)
    BY <1>1, <2>1, <2>2
  <2> QED BY <2>3 DEF k
<1>3. WordEnd(q, i) \in (i + 1)..(Len(q) + 1)
  <2> DEFINE S == {j \in (i + 1)..(Len(q) + 1) : j = Len(q) + 1 \/ q[j] \in Stops}
  <2>1. Len(q) + 1 \in S /\ S \subseteq Nat
    BY <1>1
  <2>2. Min(S) \in S
    <3> HIDE DEF S
    <3> QED BY <2>1, LeastIs
  <2>3. WordEnd(q, i) = Min(S)
    BY DEF WordEnd
  <2> QED BY <2>2, <2>3
<1> QED BY <1>2, <1>3

\* One token before others.
LEMMA TokenBefore ==
  ASSUME NEW kind \in TokenKinds, NEW text \in Seq(Lexemes), NEW rest \in Seq(Tokens)
  PROVE  <<Token(kind, text)>> \o rest \in Seq(Tokens)
<1> DEFINE x == Token(kind, text)
<1>1. x \in Tokens
  BY DEF Token, Tokens
<1> HIDE DEF x
<1>2. <<x>> \in Seq(Tokens)
  BY <1>1
<1>3. <<x>> \o rest \in Seq(Tokens)
  BY <1>2, ConcatProperties
<1> QED BY <1>3 DEF x

\* The token of a word before others.
LEMMA WordBefore ==
  ASSUME NEW word \in Seq(Lexemes), NEW rest \in Seq(Tokens)
  PROVE  <<WordToken(word)>> \o rest \in Seq(Tokens)
<1> DEFINE k == IF word \in Keywords THEN word[1] ELSE "word"
<1>1. k \in TokenKinds
  <2>1. CASE word \in Keywords
    <3>1. word[1] \in {"and", "or", "not"}
      BY <2>1 DEF Keywords, TokenKinds
    <3> QED BY <2>1, <3>1 DEF TokenKinds
  <2>2. CASE word \notin Keywords
    BY <2>2 DEF TokenKinds
  <2> QED BY <2>1, <2>2
<1> HIDE DEF k
<1> QED BY <1>1, TokenBefore DEF WordToken, k

\* The tokens from each position on.
LEMMA LexIs ==
  ASSUME NEW q \in Seq(Lexemes)
  PROVE  \E f \in [1..(Len(q) + 2) -> Seq(Tokens)] :
           \A d \in 1..(Len(q) + 2) :
             /\ f[d] \in Seq(Tokens) /\ LexFrom(q, d) = f[d]
             /\ f[d] = LexTurn(q, f, d)
<1> DEFINE D == 1..(Len(q) + 2)
           V == Seq(Tokens)
           W == [d \in D |-> Seq(Tokens)]
           rank == [d \in D |-> (Len(q) + 2) - d]
           T == Selections(D, V, W)
           turn(f) == [d \in D |-> LexTurn(q, f, d)]
           F == [f \in T |-> turn(f)]
           g == CHOOSE h : h = turn(h)
           Below(f, d) == \A c \in D : rank[c] < rank[d] => f[c] \in W[c]
           Same(f, h, d) == \A c \in D : rank[c] < rank[d] => f[c] = h[c]
<1>0. /\ Len(q) \in Nat
      /\ \A d \in D : d <= Len(q) =>
           /\ q[d] \in Lexemes
           /\ \A e \in (d + 1)..(Len(q) + 2) : e \in D /\ rank[e] < rank[d]
  OBVIOUS
<1>1. /\ W \in [D -> SUBSET V] /\ (\A d \in D : W[d] # {}) /\ rank \in [D -> Nat]
  <2>1. rank \in [D -> Nat]
    BY <1>0
  <2>2. <<>> \in Seq(Tokens)
    OBVIOUS
  <2>3. W \in [D -> SUBSET V] /\ (\A d \in D : W[d] # {})
    BY <2>2
  <2> HIDE DEF D, W, V, rank
  <2> QED BY <2>1, <2>3
<1> DEFINE Later(f, i) ==
      /\ f[i + 1] \in Seq(Tokens) /\ (i < Len(q) => f[i + 2] \in Seq(Tokens))
      /\ f[WordEnd(q, i)] \in Seq(Tokens) /\ f[QuoteEnd(q, i + 1) + 1] \in Seq(Tokens)
<1>16. \A d \in D : d <= Len(q) =>
        /\ d + 1 \in (d + 1)..(Len(q) + 2) /\ (d < Len(q) => d + 2 \in (d + 1)..(Len(q) + 2))
        /\ WordEnd(q, d) \in (d + 1)..(Len(q) + 2)
        /\ QuoteEnd(q, d + 1) + 1 \in (d + 1)..(Len(q) + 2)
  <2> SUFFICES ASSUME NEW d \in D, d <= Len(q)
               PROVE  /\ d + 1 \in (d + 1)..(Len(q) + 2)
                      /\ (d < Len(q) => d + 2 \in (d + 1)..(Len(q) + 2))
                      /\ WordEnd(q, d) \in (d + 1)..(Len(q) + 2)
                      /\ QuoteEnd(q, d + 1) + 1 \in (d + 1)..(Len(q) + 2)
    OBVIOUS
  <2>1. d \in 1..Len(q)
    BY <1>0
  <2>2. /\ QuoteEnd(q, d + 1) \in (d + 1)..(Len(q) + 1)
        /\ WordEnd(q, d) \in (d + 1)..(Len(q) + 1)
    BY <2>1, EndsAre
  <2> QED BY <1>0, <2>1, <2>2
<1>2. ASSUME NEW f, NEW d \in D, Below(f, d) PROVE LexTurn(q, f, d) \in W[d]
  <2>1. CASE d > Len(q)
    BY <2>1 DEF LexTurn
  <2>2. CASE d <= Len(q)
    <3>1. Later(f, d)
      <4>1. \A c \in D : W[c] = Seq(Tokens)
        OBVIOUS
      <4>2. \A e \in (d + 1)..(Len(q) + 2) : e \in D /\ rank[e] < rank[d]
        BY <1>0, <2>2
      <4> HIDE DEF D, W, rank
      <4> QED BY <1>2, <1>16, <2>2, <4>1, <4>2
    <3>2. q[d] \in Lexemes /\ <<q[d]>> \in Seq(Lexemes) /\ <<q[d], "=">> \in Seq(Lexemes)
      <4>1. q[d] \in Lexemes
        BY <1>0, <2>2
      <4>2. "=" \in Lexemes
        BY QueryAssumption DEF Special, Stops
      <4> DEFINE c == q[d]
                 eq == "="
      <4> HIDE DEF D, W, rank, c, eq
      <4>3. c \in Lexemes /\ eq \in Lexemes
        BY <4>1, <4>2 DEF c, eq
      <4>4. <<c>> \in Seq(Lexemes) /\ <<c, eq>> \in Seq(Lexemes)
        BY <4>3
      <4> QED BY <4>3, <4>4 DEF c, eq
    <3> DEFINE end == QuoteEnd(q, d + 1)
               word == SubSeq(q, d, WordEnd(q, d) - 1)
               quoted == Unescape(SubSeq(q, d + 1, end - 1))
    <3>3. word \in Seq(Lexemes) /\ quoted \in Seq(Lexemes)
      <4>1. d \in 1..Len(q) /\ Len(q) \in Nat
        BY <1>0, <2>2
      <4>2. end \in (d + 1)..(Len(q) + 1) /\ WordEnd(q, d) \in (d + 1)..(Len(q) + 1)
        BY <4>1, EndsAre
      <4>3. \A i \in d..(WordEnd(q, d) - 1) : q[i] \in Lexemes
        BY <4>1, <4>2
      <4>4. \A i \in (d + 1)..(end - 1) : q[i] \in Lexemes
        BY <4>1, <4>2
      <4>5. word \in Seq(Lexemes)
        <5>1. d \in Int /\ WordEnd(q, d) - 1 \in Int
          BY <4>1, <4>2
        <5> QED BY <4>3, <5>1, SubSeqProperties
      <4> DEFINE inner == SubSeq(q, d + 1, end - 1)
      <4>6. inner \in Seq(Lexemes)
        <5>1. d + 1 \in Int /\ end - 1 \in Int
          BY <4>1, <4>2
        <5> HIDE DEF end
        <5> QED BY <4>4, <5>1, SubSeqProperties
      <4> HIDE DEF inner
      <4>7. Unescape(inner) \in Seq(Lexemes)
        <5>1. 1 \in 1..(Len(inner) + 2)
          BY <4>6
        <5> QED BY <4>6, <5>1, UnescapeIs DEF Unescape
      <4> QED BY <4>5, <4>7 DEF inner
    <3> DEFINE r1 == f[d + 1]
               r2 == f[d + 2]
               rq == f[end + 1]
               rw == f[WordEnd(q, d)]
    <3>4. /\ q[d] \in {"(", ")"} => <<Token(q[d], <<q[d]>>)>> \o r1 \in Seq(Tokens)
          /\ <<Token("op", <<q[d]>>)>> \o r1 \in Seq(Tokens)
          /\ d < Len(q) => <<Token("op", <<q[d], "=">>)>> \o r2 \in Seq(Tokens)
          /\ <<Token("word", quoted)>> \o rq \in Seq(Tokens)
          /\ <<WordToken(word)>> \o rw \in Seq(Tokens)
      <4>1. r1 \in Seq(Tokens) /\ (d < Len(q) => r2 \in Seq(Tokens)) /\ rq \in Seq(Tokens) /\ rw \in Seq(Tokens)
        BY <3>1
      <4>2. "op" \in TokenKinds /\ "word" \in TokenKinds /\ "(" \in TokenKinds /\ ")" \in TokenKinds
        BY DEF TokenKinds
      <4> HIDE DEF r1, r2, rq, rw, quoted, word
      <4>3. q[d] \in {"(", ")"} => <<Token(q[d], <<q[d]>>)>> \o r1 \in Seq(Tokens)
        BY <3>2, <4>1, <4>2, TokenBefore
      <4>4. <<Token("op", <<q[d]>>)>> \o r1 \in Seq(Tokens)
        BY <3>2, <4>1, <4>2, TokenBefore
      <4>5. d < Len(q) => <<Token("op", <<q[d], "=">>)>> \o r2 \in Seq(Tokens)
        BY <3>2, <4>1, <4>2, TokenBefore
      <4>6. <<Token("word", quoted)>> \o rq \in Seq(Tokens)
        BY <3>3, <4>1, <4>2, TokenBefore
      <4>7. <<WordToken(word)>> \o rw \in Seq(Tokens)
        BY <3>3, <4>1, WordBefore
      <4> QED BY <4>3, <4>4, <4>5, <4>6, <4>7
    <3> HIDE DEF quoted, word
    <3> QED BY <2>2, <3>1, <3>4 DEF LexTurn, quoted, word
  <2> QED BY <1>0, <2>1, <2>2
<1>3. ASSUME NEW f, NEW h, NEW d \in D, Below(f, d), Same(f, h, d)
      PROVE  LexTurn(q, f, d) = LexTurn(q, h, d)
  <2>1. CASE d > Len(q)
    BY <2>1 DEF LexTurn
  <2>2. CASE d <= Len(q)
    <3>1. /\ f[d + 1] = h[d + 1] /\ (d < Len(q) => f[d + 2] = h[d + 2])
          /\ f[WordEnd(q, d)] = h[WordEnd(q, d)]
          /\ f[QuoteEnd(q, d + 1) + 1] = h[QuoteEnd(q, d + 1) + 1]
      BY <1>0, <1>3, <1>16, <2>2
    <3>2. CASE d < Len(q)
      <4> HIDE DEF D, W, rank
      <4> QED BY <2>2, <3>1, <3>2, Zenon DEF LexTurn
    <3>3. CASE ~(d < Len(q))
      <4> HIDE DEF D, W, rank
      <4> QED BY <2>2, <3>1, <3>3, Zenon DEF LexTurn
    <3> HIDE DEF D, W, rank
    <3> QED BY <3>2, <3>3
  <2> QED BY <1>0, <2>1, <2>2
<1>4. F \in [T -> T]
  <2>1. ASSUME NEW f \in T PROVE turn(f) \in T
    <3>1. \A c \in D : f[c] \in W[c]
      BY DEF Selections
    <3>2. \A d \in D : turn(f)[d] \in W[d]
      <4> HIDE DEF D, W, rank
      <4> QED BY <1>2, <3>1
    <3> HIDE DEF turn
    <3>3. turn(f) \in [D -> V]
      <4>1. turn(f) = [d \in D |-> turn(f)[d]]
        BY DEF turn
      <4>2. \A d \in D : W[d] \subseteq V
        BY <1>1
      <4> HIDE DEF D, W, V, rank
      <4> QED BY <3>2, <4>1, <4>2
    <3> HIDE DEF D, W, V, rank
    <3> QED BY <3>2, <3>3 DEF Selections
  <2> HIDE DEF T, turn
  <2> QED BY <2>1
<1>5. Contracts(F, T, D, rank)
  <2> SUFFICES ASSUME NEW f \in T, NEW h \in T, NEW d \in D, Same(f, h, d)
               PROVE  F[f][d] = F[h][d]
    BY DEF Contracts
  <2>1. Below(f, d)
    BY DEF Selections
  <2>2. LexTurn(q, f, d) = LexTurn(q, h, d)
    <3> HIDE DEF D, W, T, rank
    <3> QED BY <1>3, <2>1
  <2>3. F[f] = turn(f) /\ F[h] = turn(h)
    <3> HIDE DEF T, turn
    <3> QED OBVIOUS
  <2>4. turn(f)[d] = LexTurn(q, f, d) /\ turn(h)[d] = LexTurn(q, h, d)
    <3> HIDE DEF D
    <3> QED OBVIOUS
  <2> HIDE DEF F, turn
  <2> QED BY <2>2, <2>3, <2>4
<1>6. PICK f \in T : F[f] = f
  <2> HIDE DEF F, D, V, W, rank
  <2>1. W \in [D -> SUBSET V]
    BY <1>1
  <2>2. \A d \in D : W[d] # {}
    BY <1>1
  <2>3. rank \in [D -> Nat]
    BY <1>1
  <2>4. F \in [Selections(D, V, W) -> Selections(D, V, W)] /\ Contracts(F, Selections(D, V, W), D, rank)
    BY <1>4, <1>5
  <2>5. Contraction(F, D, V, W, rank)
    BY <2>1, <2>2, <2>3, <2>4 DEF Contraction
  <2> QED BY <2>5, FixedPoint
<1>7. f = turn(f)
  <2> HIDE DEF T, turn
  <2> QED BY <1>6
<1>8. g = turn(g)
  <2> HIDE DEF turn
  <2> QED BY <1>7
<1>9. \A d \in D : LexFrom(q, d) = g[d]
  BY DEF LexFrom
<1> HIDE DEF g
<1>10. \A d \in D : g[d] = LexTurn(q, g, d)
  <2> HIDE DEF D
  <2> QED BY <1>8
<1> DEFINE S == {k \in Nat : \A d \in D : rank[d] = k => g[d] \in W[d]}
<1>11. \A k \in Nat : (\A m \in Nat : m < k => m \in S) => k \in S
  <2> SUFFICES ASSUME NEW k \in Nat, \A m \in Nat : m < k => m \in S, NEW d \in D, rank[d] = k
               PROVE  g[d] \in W[d]
    OBVIOUS
  <2>1. Below(g, d)
    <3> SUFFICES ASSUME NEW c \in D, rank[c] < rank[d] PROVE g[c] \in W[c]
      OBVIOUS
    <3>1. rank[c] \in Nat
      BY <1>1
    <3> HIDE DEF D, W, rank
    <3> QED BY <3>1
  <2>2. LexTurn(q, g, d) \in W[d]
    <3> HIDE DEF D, W, rank
    <3> QED BY <1>2, <2>1
  <2> HIDE DEF D, W
  <2> QED BY <1>10, <2>2
<1>12. Nat \subseteq S
  <2> HIDE DEF S
  <2> QED BY <1>11, StrongInduction
<1>13. ASSUME NEW d \in D PROVE g[d] \in W[d]
  <2>1. rank[d] \in Nat
    BY <1>1
  <2> HIDE DEF D, W, rank
  <2> QED BY <1>12, <2>1
<1>14. g \in [D -> V]
  <2>1. \A d \in D : W[d] \subseteq V
    BY <1>1
  <2>2. g = [d \in D |-> g[d]]
    BY <1>8
  <2> HIDE DEF D, W, V
  <2> QED BY <1>13, <2>1, <2>2
<1>15. \A d \in D : g[d] \in Seq(Tokens)
  BY <1>13
<1> HIDE DEF D, V, W
<1> QED BY <1>9, <1>10, <1>14, <1>15 DEF D, V

\* What a rule can give at position m of t.
Results(t, m) == [selects : SUBSET Events, next : m..(Len(t) + 1)]

\* What each rule turns to comes later in t or is a rule below it.
Level(rule) == IF rule = "expr" THEN 2 ELSE IF rule = "conj" THEN 1 ELSE 0
Lower(t, rule, p) ==
  {x \in Rules \X (1..(Len(t) + 1)) : p < x[2] \/ (p = x[2] /\ Level(x[1]) < Level(rule))}

\* What a disjunction turns to: a conjunction, and with "or" the rest.
LEMMA TurnExpr ==
  ASSUME NEW t, NEW f, NEW p
  PROVE  LET l == f[<<"conj", p>>]
             r == f[<<"expr", l.next + 1>>]
         IN  ParseTurn(t, f, "expr", p) =
               IF Text(t, l.next, "or")
               THEN [selects |-> l.selects \cup r.selects, next |-> r.next] ELSE l
BY Zenon DEF ParseTurn

\* A conjunction: a primary, and with "and" the rest.
LEMMA TurnConj ==
  ASSUME NEW t, NEW f, NEW p
  PROVE  LET l == f[<<"primary", p>>]
             r == f[<<"conj", l.next + 1>>]
         IN  ParseTurn(t, f, "conj", p) =
               IF Text(t, l.next, "and")
               THEN [selects |-> l.selects \cap r.selects, next |-> r.next] ELSE l
BY Zenon DEF ParseTurn

\* A negation: the primary behind "not".
LEMMA TurnNot ==
  ASSUME NEW t, NEW f, NEW p, Text(t, p, "not")
  PROVE  LET a == f[<<"primary", p + 1>>]
         IN  ParseTurn(t, f, "primary", p) = [selects |-> Events \ a.selects, next |-> a.next]
BY Zenon DEF ParseTurn

\* The position after a group that ends before k.
Closed(t, k) == IF k <= Len(t) /\ t[k].kind = ")" THEN k + 1 ELSE k

\* A group: the expression behind the parenthesis.
LEMMA TurnGroup ==
  ASSUME NEW t, NEW f, NEW p, ~Text(t, p, "not"), ~(p > Len(t)), t[p].kind = "("
  PROVE  LET a == f[<<"expr", p + 1>>]
         IN  ParseTurn(t, f, "primary", p) =
               [selects |-> a.selects, next |-> Closed(t, a.next)]
BY Zenon DEF ParseTurn, Closed

\* A comparison: three tokens, a word and an operator first.
LEMMA TurnComparison ==
  ASSUME NEW t, NEW f, NEW p, ~Text(t, p, "not"), ~(p > Len(t)), t[p].kind # "(",
         p + 2 <= Len(t) /\ t[p].kind = "word" /\ t[p + 1].kind = "op"
  PROVE  ParseTurn(t, f, "primary", p) =
           [selects |-> {e \in Events : Compare(e, t[p].text, t[p + 1].text, t[p + 2].text)},
            next |-> p + 3]
BY Zenon DEF ParseTurn

\* Any other token is looked for in the message.
LEMMA TurnWord ==
  ASSUME NEW t, NEW f, NEW p, ~Text(t, p, "not"), ~(p > Len(t)), t[p].kind # "(",
         ~(p + 2 <= Len(t) /\ t[p].kind = "word" /\ t[p + 1].kind = "op")
  PROVE  ParseTurn(t, f, "primary", p) =
           [selects |-> {e \in Events : Compare(e, <<"message">>, <<"~">>, t[p].text)},
            next |-> p + 1]
BY Zenon DEF ParseTurn

\* Where no token is left, every event is selected.
LEMMA TurnEnd ==
  ASSUME NEW t, NEW f, NEW p, ~Text(t, p, "not"), p > Len(t)
  PROVE  ParseTurn(t, f, "primary", p) = [selects |-> Events, next |-> p]
BY Zenon DEF ParseTurn

\* A rule gives a set of events and a position, and depends on the lower ones only.
LEMMA TurnIs ==
  ASSUME NEW t \in Seq(Tokens), NEW rule \in Rules, NEW p \in 1..(Len(t) + 1), NEW f, NEW h,
         \A x \in Lower(t, rule, p) : f[x] \in Results(t, x[2]) /\ f[x] = h[x]
  PROVE  /\ ParseTurn(t, f, rule, p) \in Results(t, p)
         /\ ParseTurn(t, f, rule, p) = ParseTurn(t, h, rule, p)
<1> DEFINE n == Len(t)
<1>0. n \in Nat
  OBVIOUS
<1>1. ASSUME NEW s \in Rules, NEW m \in 1..(n + 1), p < m \/ (p = m /\ Level(s) < Level(rule))
      PROVE  /\ f[<<s, m>>] \in Results(t, m) /\ f[<<s, m>>] = h[<<s, m>>]
             /\ f[<<s, m>>].selects \subseteq Events /\ f[<<s, m>>].next \in m..(n + 1)
  <2> DEFINE x == <<s, m>>
  <2>1. x \in Lower(t, rule, p) /\ x[2] = m
    BY <1>1 DEF Lower
  <2> HIDE DEF x
  <2>2. f[x] \in Results(t, m) /\ f[x] = h[x]
    BY <2>1
  <2>3. f[x].selects \subseteq Events /\ f[x].next \in m..(n + 1)
    BY <2>2 DEF Results
  <2> QED BY <2>2, <2>3 DEF x
<1>2. ASSUME NEW sel \in SUBSET Events, NEW m \in p..(n + 1)
      PROVE  [selects |-> sel, next |-> m] \in Results(t, p)
  BY DEF Results
<1>3. ASSUME NEW m \in 1..(n + 1), p <= m, NEW v \in Results(t, m) PROVE v \in Results(t, p)
  BY <1>0, <1>3 DEF Results
<1>4. CASE rule = "expr"
  <2> DEFINE l == f[<<"conj", p>>]
             r == f[<<"expr", l.next + 1>>]
  <2>1. /\ l \in Results(t, p) /\ l = h[<<"conj", p>>]
        /\ l.selects \subseteq Events /\ l.next \in p..(n + 1)
    <3>1. "conj" \in Rules /\ Level("conj") < Level(rule)
      BY <1>4 DEF Rules, Level
    <3> QED BY <1>1, <3>1
  <2>2. ASSUME Text(t, l.next, "or")
        PROVE  /\ r = h[<<"expr", l.next + 1>>]
               /\ r.selects \subseteq Events /\ r.next \in (l.next + 1)..(n + 1)
    <3> DEFINE m == l.next + 1
    <3>1. m \in 1..(n + 1) /\ p < m
      BY <1>0, <2>1, <2>2 DEF Text
    <3>2. "expr" \in Rules
      BY DEF Rules
    <3> HIDE DEF m
    <3>3. f[<<"expr", m>>] = h[<<"expr", m>>] /\ f[<<"expr", m>>].selects \subseteq Events
          /\ f[<<"expr", m>>].next \in m..(n + 1)
      BY <1>1, <3>1, <3>2
    <3> QED BY <3>3 DEF m
  <2>3. ASSUME NEW g PROVE
          ParseTurn(t, g, "expr", p) =
            IF Text(t, g[<<"conj", p>>].next, "or")
            THEN [selects |-> g[<<"conj", p>>].selects \cup g[<<"expr", g[<<"conj", p>>].next + 1>>].selects,
                  next |-> g[<<"expr", g[<<"conj", p>>].next + 1>>].next]
            ELSE g[<<"conj", p>>]
    BY TurnExpr, Zenon
  <2>4. CASE Text(t, l.next, "or")
    <3>1. /\ ParseTurn(t, f, "expr", p) = [selects |-> l.selects \cup r.selects, next |-> r.next]
          /\ ParseTurn(t, h, "expr", p) = [selects |-> l.selects \cup r.selects, next |-> r.next]
      BY <2>1, <2>2, <2>3, <2>4, Zenon
    <3>2. l.selects \cup r.selects \in SUBSET Events /\ r.next \in p..(n + 1)
      <4> HIDE DEF l, r
      <4> QED BY <1>0, <2>1, <2>2, <2>4
    <3> HIDE DEF l, r
    <3> QED BY <1>2, <1>4, <3>1, <3>2
  <2>5. CASE ~Text(t, l.next, "or")
    <3>1. ParseTurn(t, f, "expr", p) = l /\ ParseTurn(t, h, "expr", p) = l
      BY <2>1, <2>3, <2>5, Zenon
    <3> HIDE DEF l, r
    <3> QED BY <1>4, <2>1, <3>1
  <2> QED BY <2>4, <2>5
<1>5. CASE rule = "conj"
  <2> DEFINE l == f[<<"primary", p>>]
             r == f[<<"conj", l.next + 1>>]
  <2>1. /\ l \in Results(t, p) /\ l = h[<<"primary", p>>]
        /\ l.selects \subseteq Events /\ l.next \in p..(n + 1)
    <3>1. "primary" \in Rules /\ Level("primary") < Level(rule)
      BY <1>5 DEF Rules, Level
    <3> QED BY <1>1, <3>1
  <2>2. ASSUME Text(t, l.next, "and")
        PROVE  /\ r = h[<<"conj", l.next + 1>>]
               /\ r.selects \subseteq Events /\ r.next \in (l.next + 1)..(n + 1)
    <3> DEFINE m == l.next + 1
    <3>1. m \in 1..(n + 1) /\ p < m
      BY <1>0, <2>1, <2>2 DEF Text
    <3>2. "conj" \in Rules
      BY DEF Rules
    <3> HIDE DEF m
    <3>3. f[<<"conj", m>>] = h[<<"conj", m>>] /\ f[<<"conj", m>>].selects \subseteq Events
          /\ f[<<"conj", m>>].next \in m..(n + 1)
      BY <1>1, <3>1, <3>2
    <3> QED BY <3>3 DEF m
  <2>3. ASSUME NEW g PROVE
          ParseTurn(t, g, "conj", p) =
            IF Text(t, g[<<"primary", p>>].next, "and")
            THEN [selects |-> g[<<"primary", p>>].selects \cap g[<<"conj", g[<<"primary", p>>].next + 1>>].selects,
                  next |-> g[<<"conj", g[<<"primary", p>>].next + 1>>].next]
            ELSE g[<<"primary", p>>]
    BY TurnConj, Zenon
  <2>4. CASE Text(t, l.next, "and")
    <3>1. /\ ParseTurn(t, f, "conj", p) = [selects |-> l.selects \cap r.selects, next |-> r.next]
          /\ ParseTurn(t, h, "conj", p) = [selects |-> l.selects \cap r.selects, next |-> r.next]
      BY <2>1, <2>2, <2>3, <2>4, Zenon
    <3>2. l.selects \cap r.selects \in SUBSET Events /\ r.next \in p..(n + 1)
      <4> HIDE DEF l, r
      <4> QED BY <1>0, <2>1, <2>2, <2>4
    <3> HIDE DEF l, r
    <3> QED BY <1>2, <1>5, <3>1, <3>2
  <2>5. CASE ~Text(t, l.next, "and")
    <3>1. ParseTurn(t, f, "conj", p) = l /\ ParseTurn(t, h, "conj", p) = l
      BY <2>1, <2>3, <2>5, Zenon
    <3> HIDE DEF l, r
    <3> QED BY <1>5, <2>1, <3>1
  <2> QED BY <2>4, <2>5
<1>6. CASE rule = "primary" /\ Text(t, p, "not")
  <2> DEFINE m == p + 1
             a == f[<<"primary", m>>]
  <2>1. m \in 1..(n + 1) /\ p < m
    BY <1>0, <1>6 DEF Text
  <2>2. "primary" \in Rules
    BY DEF Rules
  <2>3. ParseTurn(t, f, "primary", p) = [selects |-> Events \ a.selects, next |-> a.next]
    BY <1>6, TurnNot, Zenon
  <2>4. ParseTurn(t, h, "primary", p) =
          [selects |-> Events \ h[<<"primary", m>>].selects, next |-> h[<<"primary", m>>].next]
    BY <1>6, TurnNot, Zenon
  <2> HIDE DEF m
  <2>5. a = h[<<"primary", m>>] /\ a.selects \subseteq Events /\ a.next \in m..(n + 1)
    BY <1>1, <2>1, <2>2
  <2>6. Events \ a.selects \in SUBSET Events /\ a.next \in p..(n + 1)
    <3> HIDE DEF a
    <3> QED BY <1>0, <2>1, <2>5
  <2>7. ParseTurn(t, h, "primary", p) = [selects |-> Events \ a.selects, next |-> a.next]
    BY <2>4, <2>5, Zenon
  <2> HIDE DEF a
  <2> QED BY <1>2, <1>6, <2>3, <2>6, <2>7
<1>7. CASE rule = "primary" /\ ~Text(t, p, "not") /\ p > n
  <2>1. /\ ParseTurn(t, f, "primary", p) = [selects |-> Events, next |-> p]
        /\ ParseTurn(t, h, "primary", p) = [selects |-> Events, next |-> p]
    BY <1>7, TurnEnd
  <2>2. Events \in SUBSET Events /\ p \in p..(n + 1)
    BY <1>0
  <2> QED BY <1>2, <1>7, <2>1, <2>2
<1>8. CASE rule = "primary" /\ ~Text(t, p, "not") /\ ~(p > n) /\ t[p].kind = "("
  <2> DEFINE m == p + 1
             a == f[<<"expr", m>>]
  <2>1. m \in 1..(n + 1) /\ p < m
    BY <1>0, <1>8
  <2>2. "expr" \in Rules
    BY DEF Rules
  <2>3. /\ ParseTurn(t, f, "primary", p) = [selects |-> a.selects, next |-> Closed(t, a.next)]
        /\ ParseTurn(t, h, "primary", p) =
             [selects |-> h[<<"expr", m>>].selects, next |-> Closed(t, h[<<"expr", m>>].next)]
    BY <1>8, TurnGroup, Zenon
  <2> HIDE DEF m
  <2>5. a = h[<<"expr", m>>] /\ a.selects \subseteq Events /\ a.next \in m..(n + 1)
    BY <1>1, <2>1, <2>2
  <2>6. a.selects \in SUBSET Events /\ Closed(t, a.next) \in p..(n + 1)
    <3> DEFINE k == a.next
    <3>1. k \in m..(n + 1) /\ a.selects \subseteq Events
      BY <2>5
    <3> HIDE DEF a, k
    <3>2. Closed(t, k) \in p..(n + 1)
      BY <1>0, <2>1, <3>1 DEF Closed
    <3> QED BY <3>1, <3>2 DEF k
  <2>7. ParseTurn(t, h, "primary", p) = [selects |-> a.selects, next |-> Closed(t, a.next)]
    BY <2>3, <2>5, Zenon
  <2> HIDE DEF a
  <2> QED BY <1>2, <1>8, <2>3, <2>6, <2>7
<1>9. CASE rule = "primary" /\ ~Text(t, p, "not") /\ ~(p > n) /\ t[p].kind # "("
  <2> DEFINE atom == p + 2 <= n /\ t[p].kind = "word" /\ t[p + 1].kind = "op"
             found == {e \in Events : Compare(e, t[p].text, t[p + 1].text, t[p + 2].text)}
             named == {e \in Events : Compare(e, <<"message">>, <<"~">>, t[p].text)}
  <2>1. found \in SUBSET Events /\ named \in SUBSET Events
    OBVIOUS
  <2>2. p + 1 \in p..(n + 1) /\ (atom => p + 3 \in p..(n + 1))
    BY <1>0, <1>9
  <2>3. CASE atom
    <3>1. /\ ParseTurn(t, f, "primary", p) = [selects |-> found, next |-> p + 3]
          /\ ParseTurn(t, h, "primary", p) = [selects |-> found, next |-> p + 3]
      BY <1>9, <2>3, TurnComparison, Zenon
    <3> HIDE DEF found, named, atom
    <3> QED BY <1>2, <1>9, <2>1, <2>2, <2>3, <3>1
  <2>4. CASE ~atom
    <3>1. /\ ParseTurn(t, f, "primary", p) = [selects |-> named, next |-> p + 1]
          /\ ParseTurn(t, h, "primary", p) = [selects |-> named, next |-> p + 1]
      BY <1>9, <2>4, TurnWord, Zenon
    <3> HIDE DEF found, named, atom
    <3> QED BY <1>2, <1>9, <2>1, <2>2, <3>1
  <2> QED BY <2>3, <2>4
<1> QED BY <1>4, <1>5, <1>6, <1>7, <1>8, <1>9 DEF Rules

\* What the rules give at each position.
LEMMA ParseIs ==
  ASSUME NEW t \in Seq(Tokens)
  PROVE  \E f \in [(Rules \X (1..(Len(t) + 1))) -> [selects : SUBSET Events, next : Nat]] :
           \A d \in (Rules \X (1..(Len(t) + 1))) :
             /\ f[d] \in Results(t, d[2]) /\ ParseFrom(t, d[1], d[2]) = f[d]
             /\ f[d] = ParseTurn(t, f, d[1], d[2])
<1> DEFINE D == (Rules \X (1..(Len(t) + 1)))
           V == [selects : SUBSET Events, next : Nat]
           W == [d \in D |-> Results(t, d[2])]
           rank == [d \in D |-> 3 * ((Len(t) + 1) - d[2]) + Level(d[1])]
           T == Selections(D, V, W)
           turn(f) == [d \in D |-> ParseTurn(t, f, d[1], d[2])]
           F == [f \in T |-> turn(f)]
           g == CHOOSE h : h = turn(h)
           Below(f, d) == \A c \in D : rank[c] < rank[d] => f[c] \in W[c]
           Same(f, h, d) == \A c \in D : rank[c] < rank[d] => f[c] = h[c]
<1>0. /\ Len(t) \in Nat
      /\ \A d \in D : /\ d[1] \in Rules /\ d[2] \in 1..(Len(t) + 1) /\ d = <<d[1], d[2]>>
                     /\ Level(d[1]) \in 0..2
  BY DEF Level
<1>1. /\ W \in [D -> SUBSET V] /\ (\A d \in D : W[d] # {}) /\ rank \in [D -> Nat]
  <2>1. rank \in [D -> Nat]
    BY <1>0
  <2>2. ASSUME NEW d \in D PROVE W[d] \subseteq V /\ W[d] # {}
    <3>1. [selects |-> {}, next |-> d[2]] \in Results(t, d[2])
      BY <1>0 DEF Results
    <3>2. Results(t, d[2]) \subseteq V
      BY <1>0 DEF Results
    <3> QED BY <3>1, <3>2
  <2>3. W = [d \in D |-> W[d]]
    OBVIOUS
  <2> HIDE DEF D, W, V, rank
  <2> QED BY <2>1, <2>2, <2>3
<1>16. \A d \in D : \A c \in Lower(t, d[1], d[2]) : c \in D /\ rank[c] < rank[d]
  <2> SUFFICES ASSUME NEW d \in D, NEW c \in Lower(t, d[1], d[2])
               PROVE  c \in D /\ rank[c] < rank[d]
    OBVIOUS
  <2>1. c \in D /\ (d[2] < c[2] \/ (d[2] = c[2] /\ Level(c[1]) < Level(d[1])))
    BY DEF Lower
  <2>2. /\ Level(c[1]) \in 0..2 /\ Level(d[1]) \in 0..2
        /\ c[2] \in 1..(Len(t) + 1) /\ d[2] \in 1..(Len(t) + 1)
    BY <1>0, <2>1
  <2> DEFINE a == c[2]
             b == d[2]
             k == Level(c[1])
             m == Level(d[1])
  <2>3. rank[c] = 3 * ((Len(t) + 1) - a) + k /\ rank[d] = 3 * ((Len(t) + 1) - b) + m
    BY <2>1
  <2> HIDE DEF a, b, k, m
  <2>4. 3 * ((Len(t) + 1) - a) + k < 3 * ((Len(t) + 1) - b) + m
    BY <1>0, <2>1, <2>2 DEF a, b, k, m
  <2> HIDE DEF D, rank
  <2> QED BY <2>1, <2>3, <2>4
<1>2. ASSUME NEW f, NEW d \in D, Below(f, d) PROVE ParseTurn(t, f, d[1], d[2]) \in W[d]
  <2>1. \A c \in Lower(t, d[1], d[2]) : f[c] \in Results(t, c[2])
    <3>1. \A c \in D : W[c] = Results(t, c[2])
      OBVIOUS
    <3> HIDE DEF D, W, rank
    <3> QED BY <1>2, <1>16, <3>1
  <2>2. W[d] = Results(t, d[2]) /\ d[1] \in Rules /\ d[2] \in 1..(Len(t) + 1)
    BY <1>0
  <2>3. ParseTurn(t, f, d[1], d[2]) \in Results(t, d[2])
    <3> HIDE DEF D, W, rank
    <3> QED BY <2>1, <2>2, TurnIs
  <2> HIDE DEF D, W, rank
  <2> QED BY <2>2, <2>3
<1>3. ASSUME NEW f, NEW h, NEW d \in D, Below(f, d), Same(f, h, d)
      PROVE  ParseTurn(t, f, d[1], d[2]) = ParseTurn(t, h, d[1], d[2])
  <2>1. \A c \in Lower(t, d[1], d[2]) : f[c] \in Results(t, c[2]) /\ f[c] = h[c]
    <3>1. \A c \in D : W[c] = Results(t, c[2])
      OBVIOUS
    <3> HIDE DEF D, W, rank
    <3> QED BY <1>3, <1>16, <3>1
  <2>2. d[1] \in Rules /\ d[2] \in 1..(Len(t) + 1)
    BY <1>0
  <2> HIDE DEF D, W, rank
  <2> QED BY <2>1, <2>2, TurnIs
<1>4. F \in [T -> T]
  <2>1. ASSUME NEW f \in T PROVE turn(f) \in T
    <3>1. \A c \in D : f[c] \in W[c]
      BY DEF Selections
    <3>2. \A d \in D : turn(f)[d] \in W[d]
      <4> HIDE DEF D, W, rank
      <4> QED BY <1>2, <3>1
    <3> HIDE DEF turn
    <3>3. turn(f) \in [D -> V]
      <4>1. turn(f) = [d \in D |-> turn(f)[d]]
        BY DEF turn
      <4>2. \A d \in D : W[d] \subseteq V
        BY <1>1
      <4> HIDE DEF D, W, V, rank
      <4> QED BY <3>2, <4>1, <4>2
    <3> HIDE DEF D, W, V, rank
    <3> QED BY <3>2, <3>3 DEF Selections
  <2> HIDE DEF T, turn
  <2> QED BY <2>1
<1>5. Contracts(F, T, D, rank)
  <2> SUFFICES ASSUME NEW f \in T, NEW h \in T, NEW d \in D, Same(f, h, d)
               PROVE  F[f][d] = F[h][d]
    BY DEF Contracts
  <2>1. Below(f, d)
    BY DEF Selections
  <2>2. ParseTurn(t, f, d[1], d[2]) = ParseTurn(t, h, d[1], d[2])
    <3> HIDE DEF D, W, T, rank
    <3> QED BY <1>3, <2>1
  <2>3. F[f] = turn(f) /\ F[h] = turn(h)
    <3> HIDE DEF T, turn
    <3> QED OBVIOUS
  <2>4. turn(f)[d] = ParseTurn(t, f, d[1], d[2]) /\ turn(h)[d] = ParseTurn(t, h, d[1], d[2])
    <3> HIDE DEF D
    <3> QED OBVIOUS
  <2> HIDE DEF F, turn
  <2> QED BY <2>2, <2>3, <2>4
<1>6. PICK f \in T : F[f] = f
  <2> HIDE DEF F, D, V, W, rank
  <2>1. W \in [D -> SUBSET V]
    BY <1>1
  <2>2. \A d \in D : W[d] # {}
    BY <1>1
  <2>3. rank \in [D -> Nat]
    BY <1>1
  <2>4. F \in [Selections(D, V, W) -> Selections(D, V, W)] /\ Contracts(F, Selections(D, V, W), D, rank)
    BY <1>4, <1>5
  <2>5. Contraction(F, D, V, W, rank)
    BY <2>1, <2>2, <2>3, <2>4 DEF Contraction
  <2> QED BY <2>5, FixedPoint
<1>7. f = turn(f)
  <2> HIDE DEF T, turn
  <2> QED BY <1>6
<1>8. g = turn(g)
  <2> HIDE DEF turn
  <2> QED BY <1>7
<1>9. \A d \in D : ParseFrom(t, d[1], d[2]) = g[d]
  BY DEF ParseFrom
<1> HIDE DEF g
<1>10. \A d \in D : g[d] = ParseTurn(t, g, d[1], d[2])
  <2> HIDE DEF D
  <2> QED BY <1>8
<1> DEFINE S == {k \in Nat : \A d \in D : rank[d] = k => g[d] \in W[d]}
<1>11. \A k \in Nat : (\A m \in Nat : m < k => m \in S) => k \in S
  <2> SUFFICES ASSUME NEW k \in Nat, \A m \in Nat : m < k => m \in S, NEW d \in D, rank[d] = k
               PROVE  g[d] \in W[d]
    OBVIOUS
  <2>1. Below(g, d)
    <3> SUFFICES ASSUME NEW c \in D, rank[c] < rank[d] PROVE g[c] \in W[c]
      OBVIOUS
    <3>1. rank[c] \in Nat
      BY <1>1
    <3> HIDE DEF D, W, rank
    <3> QED BY <3>1
  <2>2. ParseTurn(t, g, d[1], d[2]) \in W[d]
    <3> HIDE DEF D, W, rank
    <3> QED BY <1>2, <2>1
  <2> HIDE DEF D, W
  <2> QED BY <1>10, <2>2
<1>12. Nat \subseteq S
  <2> HIDE DEF S
  <2> QED BY <1>11, StrongInduction
<1>13. ASSUME NEW d \in D PROVE g[d] \in W[d]
  <2>1. rank[d] \in Nat
    BY <1>1
  <2> HIDE DEF D, W, rank
  <2> QED BY <1>12, <2>1
<1>14. g \in [D -> V]
  <2>1. \A d \in D : W[d] \subseteq V
    BY <1>1
  <2>2. g = [d \in D |-> g[d]]
    BY <1>8
  <2> HIDE DEF D, W, V
  <2> QED BY <1>13, <2>1, <2>2
<1>15. \A d \in D : g[d] \in Results(t, d[2])
  BY <1>13
<1> HIDE DEF D, V, W
<1> QED BY <1>9, <1>10, <1>14, <1>15 DEF D, V

\* The rules at each position, as one function.
LEMMA Parsed ==
  ASSUME NEW t \in Seq(Tokens)
  PROVE  \E f : \A rule \in Rules, p \in 1..(Len(t) + 1) :
           /\ f[<<rule, p>>] \in Results(t, p)
           /\ ParseFrom(t, rule, p) = f[<<rule, p>>]
           /\ ParseTurn(t, f, rule, p) = f[<<rule, p>>]
<1>1. PICK f \in [Rules \X (1..(Len(t) + 1)) -> [selects : SUBSET Events, next : Nat]] :
        \A d \in Rules \X (1..(Len(t) + 1)) :
        /\ f[d] \in Results(t, d[2]) /\ ParseFrom(t, d[1], d[2]) = f[d]
        /\ f[d] = ParseTurn(t, f, d[1], d[2])
  BY ParseIs
<1>2. ASSUME NEW rule \in Rules, NEW p \in 1..(Len(t) + 1)
      PROVE  /\ f[<<rule, p>>] \in Results(t, p)
             /\ ParseFrom(t, rule, p) = f[<<rule, p>>]
             /\ ParseTurn(t, f, rule, p) = f[<<rule, p>>]
  <2> DEFINE d == <<rule, p>>
  <2>1. d \in Rules \X (1..(Len(t) + 1)) /\ d[1] = rule /\ d[2] = p
    OBVIOUS
  <2> HIDE DEF d
  <2>2. /\ f[d] \in Results(t, d[2]) /\ ParseFrom(t, d[1], d[2]) = f[d]
        /\ f[d] = ParseTurn(t, f, d[1], d[2])
    BY <1>1, <2>1
  <2>3. f[d] \in Results(t, p) /\ ParseFrom(t, rule, p) = f[d] /\ ParseTurn(t, f, rule, p) = f[d]
    BY <2>1, <2>2
  <2> QED BY <2>3 DEF d
<1> QED BY <1>2

\* An expression is a disjunction of conjunctions.
LEMMA ParsedExpr ==
  ASSUME NEW t \in Seq(Tokens), NEW p \in 1..(Len(t) + 1)
  PROVE  LET l == ParseFrom(t, "conj", p)
             r == ParseFrom(t, "expr", l.next + 1)
         IN  ParseFrom(t, "expr", p) =
               IF Text(t, l.next, "or")
               THEN [selects |-> l.selects \cup r.selects, next |-> r.next] ELSE l
<1>1. PICK f : \A rule \in Rules, m \in 1..(Len(t) + 1) :
        /\ f[<<rule, m>>] \in Results(t, m)
        /\ ParseFrom(t, rule, m) = f[<<rule, m>>]
        /\ ParseTurn(t, f, rule, m) = f[<<rule, m>>]
  BY Parsed
<1>2. "expr" \in Rules /\ "conj" \in Rules
  BY DEF Rules
<1> DEFINE l == f[<<"conj", p>>]
           k == l.next + 1
           r == f[<<"expr", k>>]
<1>3. ParseFrom(t, "conj", p) = l /\ l \in Results(t, p)
  BY <1>1, <1>2
<1>4. ASSUME Text(t, l.next, "or") PROVE ParseFrom(t, "expr", k) = r
  <2>1. l.next \in p..(Len(t) + 1) /\ l.next <= Len(t)
    BY <1>3, <1>4 DEF Results, Text
  <2>2. k \in 1..(Len(t) + 1)
    BY <2>1
  <2> HIDE DEF k
  <2> QED BY <1>1, <1>2, <2>2
<1>5. ParseFrom(t, "expr", p) =
        IF Text(t, l.next, "or") THEN [selects |-> l.selects \cup r.selects, next |-> r.next] ELSE l
  <2>1. ParseFrom(t, "expr", p) = ParseTurn(t, f, "expr", p)
    BY <1>1, <1>2
  <2> QED BY <2>1, TurnExpr, Zenon
<1>6. CASE Text(t, l.next, "or")
  BY <1>3, <1>4, <1>5, <1>6, Zenon
<1>7. CASE ~Text(t, l.next, "or")
  BY <1>3, <1>5, <1>7, Zenon
<1> QED BY <1>6, <1>7

\* A conjunction is one of primaries.
LEMMA ParsedConj ==
  ASSUME NEW t \in Seq(Tokens), NEW p \in 1..(Len(t) + 1)
  PROVE  LET l == ParseFrom(t, "primary", p)
             r == ParseFrom(t, "conj", l.next + 1)
         IN  ParseFrom(t, "conj", p) =
               IF Text(t, l.next, "and")
               THEN [selects |-> l.selects \cap r.selects, next |-> r.next] ELSE l
<1>1. PICK f : \A rule \in Rules, m \in 1..(Len(t) + 1) :
        /\ f[<<rule, m>>] \in Results(t, m)
        /\ ParseFrom(t, rule, m) = f[<<rule, m>>]
        /\ ParseTurn(t, f, rule, m) = f[<<rule, m>>]
  BY Parsed
<1>2. "conj" \in Rules /\ "primary" \in Rules
  BY DEF Rules
<1> DEFINE l == f[<<"primary", p>>]
           k == l.next + 1
           r == f[<<"conj", k>>]
<1>3. ParseFrom(t, "primary", p) = l /\ l \in Results(t, p)
  BY <1>1, <1>2
<1>4. ASSUME Text(t, l.next, "and") PROVE ParseFrom(t, "conj", k) = r
  <2>1. l.next \in p..(Len(t) + 1) /\ l.next <= Len(t)
    BY <1>3, <1>4 DEF Results, Text
  <2>2. k \in 1..(Len(t) + 1)
    BY <2>1
  <2> HIDE DEF k
  <2> QED BY <1>1, <1>2, <2>2
<1>5. ParseFrom(t, "conj", p) =
        IF Text(t, l.next, "and") THEN [selects |-> l.selects \cap r.selects, next |-> r.next] ELSE l
  <2>1. ParseFrom(t, "conj", p) = ParseTurn(t, f, "conj", p)
    BY <1>1, <1>2
  <2> QED BY <2>1, TurnConj, Zenon
<1>6. CASE Text(t, l.next, "and")
  BY <1>3, <1>4, <1>5, <1>6, Zenon
<1>7. CASE ~Text(t, l.next, "and")
  BY <1>3, <1>5, <1>7, Zenon
<1> QED BY <1>6, <1>7

\* The negation of a primary.
LEMMA ParsedNot ==
  ASSUME NEW t \in Seq(Tokens), NEW p \in 1..Len(t), Text(t, p, "not")
  PROVE  ParseFrom(t, "primary", p) = [selects |-> Events \ ParseFrom(t, "primary", p + 1).selects, next |-> ParseFrom(t, "primary", p + 1).next]
<1>1. PICK f : \A rule \in Rules, m \in 1..(Len(t) + 1) :
        /\ f[<<rule, m>>] \in Results(t, m)
        /\ ParseFrom(t, rule, m) = f[<<rule, m>>]
        /\ ParseTurn(t, f, rule, m) = f[<<rule, m>>]
  BY Parsed
<1>2. "primary" \in Rules /\ "primary" \in Rules
  BY DEF Rules
<1>3. p \in 1..(Len(t) + 1) /\ p + 1 \in 1..(Len(t) + 1) /\ ~(p > Len(t))
  OBVIOUS
<1> DEFINE k == p + 1
           a == f[<<"primary", k>>]
<1>4. ParseFrom(t, "primary", p) = ParseTurn(t, f, "primary", p)
  BY <1>1, <1>2, <1>3
<1>5. ParseFrom(t, "primary", k) = a
  <2> HIDE DEF k
  <2> QED BY <1>1, <1>2, <1>3 DEF k
<1>6. ParseTurn(t, f, "primary", p) = [selects |-> Events \ a.selects, next |-> a.next]
  BY <1>3, TurnNot, Zenon
<1> QED BY <1>4, <1>5, <1>6, Zenon

\* An expression in parentheses.
LEMMA ParsedGroup ==
  ASSUME NEW t \in Seq(Tokens), NEW p \in 1..Len(t), ~Text(t, p, "not"), t[p].kind = "("
  PROVE  ParseFrom(t, "primary", p) = [selects |-> ParseFrom(t, "expr", p + 1).selects, next |-> Closed(t, ParseFrom(t, "expr", p + 1).next)]
<1>1. PICK f : \A rule \in Rules, m \in 1..(Len(t) + 1) :
        /\ f[<<rule, m>>] \in Results(t, m)
        /\ ParseFrom(t, rule, m) = f[<<rule, m>>]
        /\ ParseTurn(t, f, rule, m) = f[<<rule, m>>]
  BY Parsed
<1>2. "primary" \in Rules /\ "expr" \in Rules
  BY DEF Rules
<1>3. p \in 1..(Len(t) + 1) /\ p + 1 \in 1..(Len(t) + 1) /\ ~(p > Len(t))
  OBVIOUS
<1> DEFINE k == p + 1
           a == f[<<"expr", k>>]
<1>4. ParseFrom(t, "primary", p) = ParseTurn(t, f, "primary", p)
  BY <1>1, <1>2, <1>3
<1>5. ParseFrom(t, "expr", k) = a
  <2> HIDE DEF k
  <2> QED BY <1>1, <1>2, <1>3 DEF k
<1>6. ParseTurn(t, f, "primary", p) = [selects |-> a.selects, next |-> Closed(t, a.next)]
  BY <1>3, TurnGroup, Zenon
<1> QED BY <1>4, <1>5, <1>6, Zenon

\* A comparison.
LEMMA ParsedComparison ==
  ASSUME NEW t \in Seq(Tokens), NEW p \in 1..Len(t), ~Text(t, p, "not"), t[p].kind # "(",
         p + 2 <= Len(t) /\ t[p].kind = "word" /\ t[p + 1].kind = "op"
  PROVE  ParseFrom(t, "primary", p) = [selects |-> {e \in Events : Compare(e, t[p].text, t[p + 1].text, t[p + 2].text)},
            next |-> p + 3]
<1>1. PICK f : \A rule \in Rules, m \in 1..(Len(t) + 1) :
        /\ f[<<rule, m>>] \in Results(t, m)
        /\ ParseFrom(t, rule, m) = f[<<rule, m>>]
        /\ ParseTurn(t, f, rule, m) = f[<<rule, m>>]
  BY Parsed
<1>2. "primary" \in Rules /\ "primary" \in Rules
  BY DEF Rules
<1>3. p \in 1..(Len(t) + 1) /\ p + 1 \in 1..(Len(t) + 1) /\ ~(p > Len(t))
  OBVIOUS
<1> DEFINE k == p + 1
           a == f[<<"primary", k>>]
<1>4. ParseFrom(t, "primary", p) = ParseTurn(t, f, "primary", p)
  BY <1>1, <1>2, <1>3
<1>5. ParseFrom(t, "primary", k) = a
  <2> HIDE DEF k
  <2> QED BY <1>1, <1>2, <1>3 DEF k
<1>6. ParseTurn(t, f, "primary", p) = [selects |-> {e \in Events : Compare(e, t[p].text, t[p + 1].text, t[p + 2].text)},
            next |-> p + 3]
  BY <1>3, TurnComparison, Zenon
<1> QED BY <1>4, <1>5, <1>6, Zenon

-----------------------------------------------------------------------------
(* What the rules take, whatever comes after it.                           *)

\* Where the parts of a sequence are in what it follows.
LEMMA FollowsParts ==
  ASSUME NEW C, NEW t \in Seq(C), NEW s \in Seq(C), NEW r \in Seq(C), NEW p \in Nat,
         Follows(t, p, s \o r)
  PROVE  /\ s \o r \in Seq(C) /\ Len(s \o r) = Len(s) + Len(r)
         /\ Len(s) \in Nat /\ Len(r) \in Nat /\ p + Len(s) \in Nat
         /\ Follows(t, p, s) /\ Follows(t, p + Len(s), r)
<1> DEFINE both == s \o r
           k == Len(s)
<1>1. both \in Seq(C) /\ Len(both) = k + Len(r) /\ k \in Nat /\ Len(r) \in Nat
  BY ConcatProperties
<1>2. Follows(both, 0, s) /\ Follows(both, k, r) /\ Follows(t, p, both)
  BY FollowsConcat
<1>3. p + 0 = p /\ 0 \in Nat
  OBVIOUS
<1> HIDE DEF both, k
<1>4. Follows(t, p + 0, s) /\ Follows(t, p + k, r)
  BY <1>1, <1>2, <1>3, FollowsThrough
<1> QED BY <1>1, <1>2, <1>3, <1>4 DEF both, k

\* What follows with an element first has it at the next position.
LEMMA FollowsFirst ==
  ASSUME NEW C, NEW t \in Seq(C), NEW x \in C, NEW r \in Seq(C), NEW p \in Nat,
         Follows(t, p, <<x>> \o r)
  PROVE  /\ <<x>> \o r \in Seq(C) /\ Len(<<x>> \o r) = Len(r) + 1
         /\ Len(r) \in Nat /\ p + 1 \in Nat /\ p + 1 \in 1..Len(t)
         /\ t[p + 1] = x /\ Follows(t, p + 1, r)
<1> DEFINE s == <<x>>
<1>1. s \in Seq(C) /\ Len(s) = 1 /\ s[1] = x
  OBVIOUS
<1> HIDE DEF s
<1>2. /\ s \o r \in Seq(C) /\ Len(s \o r) = Len(s) + Len(r)
      /\ Len(s) \in Nat /\ Len(r) \in Nat /\ p + Len(s) \in Nat
      /\ Follows(t, p, s) /\ Follows(t, p + Len(s), r)
  <2>1. Follows(t, p, s \o r)
    BY DEF s
  <2> QED BY <1>1, <2>1, FollowsParts
<1>3. p + 1 \in 1..Len(t) /\ t[p + 1] = x
  BY <1>1, <1>2 DEF Follows
<1> QED BY <1>1, <1>2, <1>3 DEF s

\* What t gives for a rule where it has the tokens of something that selects sel:
\* an operator of the rule that comes next takes in what it has on its right.
Primary(toks, sel) ==
  \A t \in Seq(Tokens), p \in Nat : Follows(t, p, toks) =>
    ParseFrom(t, "primary", p + 1) = [selects |-> sel, next |-> p + Len(toks) + 1]
Conj(toks, sel) ==
  \A t \in Seq(Tokens), p \in Nat : Follows(t, p, toks) =>
    LET e == p + Len(toks) + 1
        r == ParseFrom(t, "conj", e + 1)
    IN  ParseFrom(t, "conj", p + 1) =
          IF Text(t, e, "and") THEN [selects |-> sel \cap r.selects, next |-> r.next]
          ELSE [selects |-> sel, next |-> e]
Expr(toks, sel) ==
  \A t \in Seq(Tokens), p \in Nat : Follows(t, p, toks) =>
    LET e == p + Len(toks) + 1
        r == ParseFrom(t, "expr", e + 1)
    IN  ~Text(t, e, "and") =>
        ParseFrom(t, "expr", p + 1) =
          IF Text(t, e, "or") THEN [selects |-> sel \cup r.selects, next |-> r.next]
          ELSE [selects |-> sel, next |-> e]

\* What a primary takes, a conjunction takes.
LEMMA ConjOne ==
  ASSUME NEW toks \in Seq(Tokens), NEW sel, Primary(toks, sel)
  PROVE  Conj(toks, sel)
<1> SUFFICES ASSUME NEW t \in Seq(Tokens), NEW p \in Nat, Follows(t, p, toks)
             PROVE  LET e == p + Len(toks) + 1
                        r == ParseFrom(t, "conj", e + 1)
                    IN  ParseFrom(t, "conj", p + 1) =
                          IF Text(t, e, "and") THEN [selects |-> sel \cap r.selects, next |-> r.next]
                          ELSE [selects |-> sel, next |-> e]
  BY DEF Conj
<1> DEFINE e == p + Len(toks) + 1
           l == ParseFrom(t, "primary", p + 1)
           r == ParseFrom(t, "conj", e + 1)
<1>1. p + 1 \in 1..(Len(t) + 1)
  BY DEF Follows
<1>2. l = [selects |-> sel, next |-> e]
  BY DEF Primary
<1>3. ParseFrom(t, "conj", p + 1) =
        IF Text(t, l.next, "and")
        THEN [selects |-> l.selects \cap ParseFrom(t, "conj", l.next + 1).selects,
              next |-> ParseFrom(t, "conj", l.next + 1).next]
        ELSE l
  BY <1>1, ParsedConj, Zenon
<1>4. l.selects = sel /\ l.next = e
  <2> HIDE DEF l, e
  <2> QED BY <1>2
<1> HIDE DEF l
<1>5. CASE Text(t, e, "and")
  BY <1>3, <1>4, <1>5, Zenon
<1>6. CASE ~Text(t, e, "and")
  BY <1>2, <1>3, <1>4, <1>6, Zenon
<1> QED BY <1>5, <1>6

\* What a conjunction takes, an expression takes.
LEMMA ExprOne ==
  ASSUME NEW toks \in Seq(Tokens), NEW sel, Conj(toks, sel)
  PROVE  Expr(toks, sel)
<1> SUFFICES ASSUME NEW t \in Seq(Tokens), NEW p \in Nat, Follows(t, p, toks),
                    ~Text(t, p + Len(toks) + 1, "and")
             PROVE  LET e == p + Len(toks) + 1
                        r == ParseFrom(t, "expr", e + 1)
                    IN  ParseFrom(t, "expr", p + 1) =
                          IF Text(t, e, "or") THEN [selects |-> sel \cup r.selects, next |-> r.next]
                          ELSE [selects |-> sel, next |-> e]
  BY DEF Expr
<1> DEFINE e == p + Len(toks) + 1
           l == ParseFrom(t, "conj", p + 1)
           r == ParseFrom(t, "expr", e + 1)
<1>1. p + 1 \in 1..(Len(t) + 1)
  BY DEF Follows
<1>2. l = [selects |-> sel, next |-> e]
  BY Zenon DEF Conj
<1>3. ParseFrom(t, "expr", p + 1) =
        IF Text(t, l.next, "or")
        THEN [selects |-> l.selects \cup ParseFrom(t, "expr", l.next + 1).selects,
              next |-> ParseFrom(t, "expr", l.next + 1).next]
        ELSE l
  BY <1>1, ParsedExpr, Zenon
<1>4. l.selects = sel /\ l.next = e
  <2> HIDE DEF l, e
  <2> QED BY <1>2
<1> HIDE DEF l
<1>5. CASE Text(t, e, "or")
  BY <1>3, <1>4, <1>5, Zenon
<1>6. CASE ~Text(t, e, "or")
  BY <1>2, <1>3, <1>4, <1>6, Zenon
<1> QED BY <1>5, <1>6

\* What a token is.
LEMMA TokenIs ==
  ASSUME NEW kind \in TokenKinds, NEW text \in Seq(Lexemes)
  PROVE  /\ Token(kind, text) \in Tokens
         /\ Token(kind, text).kind = kind /\ Token(kind, text).text = text
BY DEF Token, Tokens

\* "and", "or", "not" and the parentheses are tokens of their own kind.
KeywordToken(word) == Token(word, <<word>>)

\* The token of a keyword or a parenthesis.
LEMMA KeywordIs ==
  ASSUME NEW word \in {"and", "or", "not", "(", ")"}
  PROVE  /\ KeywordToken(word) \in Tokens
         /\ KeywordToken(word).kind = word /\ KeywordToken(word).text = <<word>>
<1>1. word \in Lexemes
  BY QueryAssumption DEF Special, Stops
<1>2. <<word>> \in Seq(Lexemes)
  BY <1>1
<1>3. word \in TokenKinds
  BY DEF TokenKinds
<1> DEFINE text == <<word>>
<1> HIDE DEF text
<1>4. /\ Token(word, text) \in Tokens
      /\ Token(word, text).kind = word /\ Token(word, text).text = text
  BY <1>2, <1>3, TokenIs DEF text
<1> QED BY <1>4 DEF KeywordToken, text

\* A keyword reads as itself and as no other.
LEMMA KeywordText ==
  ASSUME NEW t, NEW p \in 1..Len(t), NEW word \in {"and", "or", "not", "(", ")"}, t[p] = KeywordToken(word)
  PROVE  /\ t[p].kind = word /\ Text(t, p, word)
         /\ \A other \in {"and", "or", "not", "(", ")"} : other # word => ~Text(t, p, other)
<1>1. t[p].kind = word /\ t[p].text = <<word>>
  BY KeywordIs
<1>2. p <= Len(t)
  OBVIOUS
<1>3. \A other \in {"and", "or", "not", "(", ")"} : other # word => <<other>> # <<word>>
  OBVIOUS
<1> QED BY <1>1, <1>2, <1>3 DEF Text

\* A conjunction with a conjunction on its right is one.
LEMMA AndIs ==
  ASSUME NEW x \in Seq(Tokens), NEW y \in Seq(Tokens), NEW a, NEW b, Conj(x, a), Conj(y, b)
  PROVE  /\ x \o (<<KeywordToken("and")>> \o y) \in Seq(Tokens)
         /\ Conj(x \o (<<KeywordToken("and")>> \o y), a \cap b)
<1> DEFINE w == KeywordToken("and")
           tail == <<w>> \o y
           toks == x \o tail
<1>1. w \in Tokens
  BY KeywordIs
<1>2. tail \in Seq(Tokens) /\ toks \in Seq(Tokens)
  <2> HIDE DEF w
  <2>1. <<w>> \in Seq(Tokens)
    BY <1>1
  <2>2. tail \in Seq(Tokens)
    BY <2>1, ConcatProperties
  <2> QED BY <2>2, ConcatProperties
<1>3. Conj(toks, a \cap b)
  <2> SUFFICES ASSUME NEW t \in Seq(Tokens), NEW p \in Nat, Follows(t, p, toks)
               PROVE  LET e == p + Len(toks) + 1
                          r == ParseFrom(t, "conj", e + 1)
                      IN  ParseFrom(t, "conj", p + 1) =
                            IF Text(t, e, "and") THEN [selects |-> (a \cap b) \cap r.selects, next |-> r.next]
                            ELSE [selects |-> a \cap b, next |-> e]
    BY Zenon DEF Conj
  <2> DEFINE e == p + Len(toks) + 1
             m == p + Len(x) + 1
             r == ParseFrom(t, "conj", e + 1)
             s == ParseFrom(t, "conj", m + 1)
  <2>1. /\ Len(toks) = Len(x) + Len(tail) /\ Len(x) \in Nat /\ p + Len(x) \in Nat
        /\ Follows(t, p, x) /\ Follows(t, p + Len(x), tail)
    <3> HIDE DEF tail
    <3> QED BY <1>2, FollowsParts
  <2>2. /\ Len(tail) = Len(y) + 1 /\ Len(y) \in Nat /\ m \in Nat /\ m \in 1..Len(t)
        /\ t[m] = w /\ Follows(t, m, y)
    <3> DEFINE k == p + Len(x)
    <3> HIDE DEF k, w
    <3>1. k \in Nat /\ Follows(t, k, tail)
      BY <2>1 DEF k
    <3>2. /\ Len(tail) = Len(y) + 1 /\ Len(y) \in Nat /\ k + 1 \in Nat /\ k + 1 \in 1..Len(t)
          /\ t[k + 1] = w /\ Follows(t, k + 1, y)
      BY <1>1, <3>1, FollowsFirst
    <3> QED BY <3>2 DEF k
  <2>3. m + Len(y) + 1 = e
    <3> HIDE DEF toks, tail
    <3> QED BY <2>1, <2>2
  <2>4. Text(t, m, "and") /\ ~Text(t, m, "or")
    <3> HIDE DEF m
    <3> QED BY <2>2, KeywordText
  <2>5. ParseFrom(t, "conj", p + 1) = [selects |-> a \cap s.selects, next |-> s.next]
    <3> HIDE DEF toks
    <3> QED BY <2>1, <2>4, Zenon DEF Conj
  <2> HIDE DEF e, m, toks
  <2>6. s = IF Text(t, e, "and") THEN [selects |-> b \cap r.selects, next |-> r.next]
            ELSE [selects |-> b, next |-> e]
    BY <2>2, <2>3, Zenon DEF Conj
  <2>7. CASE Text(t, e, "and")
    <3>1. s = [selects |-> b \cap r.selects, next |-> r.next]
      BY <2>6, <2>7
    <3> HIDE DEF r, s
    <3>2. s.selects = b \cap r.selects /\ s.next = r.next
      BY <3>1
    <3>3. a \cap (b \cap r.selects) = (a \cap b) \cap r.selects
      OBVIOUS
    <3> QED BY <2>5, <2>7, <3>2, <3>3, Zenon DEF e, r
  <2>8. CASE ~Text(t, e, "and")
    <3>1. s = [selects |-> b, next |-> e]
      BY <2>6, <2>8
    <3> HIDE DEF s
    <3>2. s.selects = b /\ s.next = e
      BY <3>1
    <3> QED BY <2>5, <2>8, <3>2, Zenon DEF e
  <2> QED BY <2>7, <2>8
<1> QED BY <1>2, <1>3

\* An expression with an expression on its right is one.
LEMMA OrIs ==
  ASSUME NEW x \in Seq(Tokens), NEW y \in Seq(Tokens), NEW a, NEW b, Expr(x, a), Expr(y, b)
  PROVE  /\ x \o (<<KeywordToken("or")>> \o y) \in Seq(Tokens)
         /\ Expr(x \o (<<KeywordToken("or")>> \o y), a \cup b)
<1> DEFINE w == KeywordToken("or")
           tail == <<w>> \o y
           toks == x \o tail
<1>1. w \in Tokens
  BY KeywordIs
<1>2. tail \in Seq(Tokens) /\ toks \in Seq(Tokens)
  <2> HIDE DEF w
  <2>1. <<w>> \in Seq(Tokens)
    BY <1>1
  <2>2. tail \in Seq(Tokens)
    BY <2>1, ConcatProperties
  <2> QED BY <2>2, ConcatProperties
<1>3. Expr(toks, a \cup b)
  <2> SUFFICES ASSUME NEW t \in Seq(Tokens), NEW p \in Nat, Follows(t, p, toks),
                    ~Text(t, p + Len(toks) + 1, "and")
               PROVE  LET e == p + Len(toks) + 1
                          r == ParseFrom(t, "expr", e + 1)
                      IN  ParseFrom(t, "expr", p + 1) =
                            IF Text(t, e, "or") THEN [selects |-> (a \cup b) \cup r.selects, next |-> r.next]
                            ELSE [selects |-> a \cup b, next |-> e]
    BY Zenon DEF Expr
  <2> DEFINE e == p + Len(toks) + 1
             m == p + Len(x) + 1
             r == ParseFrom(t, "expr", e + 1)
             s == ParseFrom(t, "expr", m + 1)
  <2>1. /\ Len(toks) = Len(x) + Len(tail) /\ Len(x) \in Nat /\ p + Len(x) \in Nat
        /\ Follows(t, p, x) /\ Follows(t, p + Len(x), tail)
    <3> HIDE DEF tail
    <3> QED BY <1>2, FollowsParts
  <2>2. /\ Len(tail) = Len(y) + 1 /\ Len(y) \in Nat /\ m \in Nat /\ m \in 1..Len(t)
        /\ t[m] = w /\ Follows(t, m, y)
    <3> DEFINE k == p + Len(x)
    <3> HIDE DEF k, w
    <3>1. k \in Nat /\ Follows(t, k, tail)
      BY <2>1 DEF k
    <3>2. /\ Len(tail) = Len(y) + 1 /\ Len(y) \in Nat /\ k + 1 \in Nat /\ k + 1 \in 1..Len(t)
          /\ t[k + 1] = w /\ Follows(t, k + 1, y)
      BY <1>1, <3>1, FollowsFirst
    <3> QED BY <3>2 DEF k
  <2>3. m + Len(y) + 1 = e
    <3> HIDE DEF toks, tail
    <3> QED BY <2>1, <2>2
  <2>4. Text(t, m, "or") /\ ~Text(t, m, "and")
    <3> HIDE DEF m
    <3> QED BY <2>2, KeywordText
  <2>5. ParseFrom(t, "expr", p + 1) = [selects |-> a \cup s.selects, next |-> s.next]
    <3> HIDE DEF toks
    <3> QED BY <2>1, <2>4, Zenon DEF Expr
  <2> HIDE DEF e, m, toks
  <2>6. s = IF Text(t, e, "or") THEN [selects |-> b \cup r.selects, next |-> r.next]
            ELSE [selects |-> b, next |-> e]
    BY <2>2, <2>3, Zenon DEF Expr, e
  <2>7. CASE Text(t, e, "or")
    <3>1. s = [selects |-> b \cup r.selects, next |-> r.next]
      BY <2>6, <2>7
    <3> HIDE DEF r, s
    <3>2. s.selects = b \cup r.selects /\ s.next = r.next
      BY <3>1
    <3>3. a \cup (b \cup r.selects) = (a \cup b) \cup r.selects
      OBVIOUS
    <3> QED BY <2>5, <2>7, <3>2, <3>3, Zenon DEF e, r
  <2>8. CASE ~Text(t, e, "or")
    <3>1. s = [selects |-> b, next |-> e]
      BY <2>6, <2>8
    <3> HIDE DEF s
    <3>2. s.selects = b /\ s.next = e
      BY <3>1
    <3> QED BY <2>5, <2>8, <3>2, Zenon DEF e
  <2> QED BY <2>7, <2>8
<1> QED BY <1>2, <1>3


\* A negation.
LEMMA NotIs ==
  ASSUME NEW x \in Seq(Tokens), NEW a, Primary(x, a)
  PROVE  /\ <<KeywordToken("not")>> \o x \in Seq(Tokens)
         /\ Primary(<<KeywordToken("not")>> \o x, Events \ a)
<1> DEFINE w == KeywordToken("not")
           toks == <<w>> \o x
<1>1. w \in Tokens
  BY KeywordIs
<1>2. toks \in Seq(Tokens)
  <2> HIDE DEF w
  <2>1. <<w>> \in Seq(Tokens)
    BY <1>1
  <2> QED BY <2>1, ConcatProperties
<1>3. ASSUME NEW t \in Seq(Tokens), NEW p \in Nat, Follows(t, p, toks)
      PROVE  ParseFrom(t, "primary", p + 1) = [selects |-> Events \ a, next |-> p + Len(toks) + 1]
  <2> DEFINE m == p + 1
  <2>1. /\ Len(toks) = Len(x) + 1 /\ Len(x) \in Nat /\ m \in Nat /\ m \in 1..Len(t)
        /\ t[m] = w /\ Follows(t, m, x)
    <3> HIDE DEF w
    <3> QED BY <1>1, <1>3, FollowsFirst
  <2>2. m + Len(x) + 1 = p + Len(toks) + 1
    <3> HIDE DEF toks
    <3> QED BY <2>1
  <2> HIDE DEF m, toks
  <2>3. Text(t, m, "not")
    BY <2>1, KeywordText
  <2> DEFINE l == ParseFrom(t, "primary", m + 1)
  <2>4. ParseFrom(t, "primary", m) = [selects |-> Events \ l.selects, next |-> l.next]
    BY <2>1, <2>3, ParsedNot, Zenon
  <2>5. l = [selects |-> a, next |-> m + Len(x) + 1]
    BY <2>1 DEF Primary
  <2> HIDE DEF l
  <2>6. l.selects = a /\ l.next = p + Len(toks) + 1
    BY <2>2, <2>5
  <2> QED BY <2>4, <2>6, Zenon DEF m
<1> QED BY <1>2, <1>3, Zenon DEF Primary

\* A group.
LEMMA GroupIs ==
  ASSUME NEW x \in Seq(Tokens), NEW a, Expr(x, a)
  PROVE  /\ <<KeywordToken("(")>> \o (x \o <<KeywordToken(")")>>) \in Seq(Tokens)
         /\ Primary(<<KeywordToken("(")>> \o (x \o <<KeywordToken(")")>>), a)
<1> DEFINE w == KeywordToken("(")
           z == KeywordToken(")")
           tail == x \o <<z>>
           toks == <<w>> \o tail
<1>1. w \in Tokens /\ z \in Tokens
  BY KeywordIs
<1>2. tail \in Seq(Tokens) /\ toks \in Seq(Tokens) /\ <<z>> \in Seq(Tokens)
  <2> HIDE DEF w, z
  <2>1. <<w>> \in Seq(Tokens) /\ <<z>> \in Seq(Tokens)
    BY <1>1
  <2>2. tail \in Seq(Tokens)
    BY <2>1, ConcatProperties
  <2> QED BY <2>1, <2>2, ConcatProperties
<1>3. ASSUME NEW t \in Seq(Tokens), NEW p \in Nat, Follows(t, p, toks)
      PROVE  ParseFrom(t, "primary", p + 1) = [selects |-> a, next |-> p + Len(toks) + 1]
  <2> DEFINE m == p + 1
             e == m + Len(x) + 1
  <2>1. /\ Len(toks) = Len(tail) + 1 /\ Len(tail) \in Nat /\ m \in Nat /\ m \in 1..Len(t)
        /\ t[m] = w /\ Follows(t, m, tail)
    <3> HIDE DEF w, tail
    <3> QED BY <1>1, <1>2, <1>3, FollowsFirst
  <2>2. /\ Len(tail) = Len(x) + 1 /\ Len(x) \in Nat /\ Follows(t, m, x)
        /\ e \in 1..Len(t) /\ t[e] = z
    <3> DEFINE one == <<z>>
    <3> HIDE DEF m
    <3>1. one \in Seq(Tokens) /\ Len(one) = 1 /\ one[1] = z
      BY <1>2
    <3> HIDE DEF one
    <3>2. /\ Len(x \o one) = Len(x) + Len(one) /\ Len(x) \in Nat /\ m + Len(x) \in Nat
          /\ Follows(t, m, x) /\ Follows(t, m + Len(x), one)
      <4>1. Follows(t, m, x \o one) /\ m \in Nat
        BY <2>1 DEF one
      <4>2. one \in Seq(Tokens)
        BY <3>1
      <4> QED BY <4>1, <4>2, FollowsParts
    <3>3. Len(tail) = Len(x) + 1
      BY <3>1, <3>2 DEF one
    <3>4. e \in 1..Len(t) /\ t[e] = z
      BY <2>1, <3>1, <3>2 DEF Follows
    <3> QED BY <3>2, <3>3, <3>4
  <2>3. e + 1 = p + Len(toks) + 1
    <3> HIDE DEF toks, tail
    <3> QED BY <2>1, <2>2
  <2> HIDE DEF m, e, toks, tail
  <2>4. ~Text(t, m, "not") /\ t[m].kind = "("
    BY <2>1, KeywordText
  <2>5. ~Text(t, e, "and") /\ ~Text(t, e, "or") /\ t[e].kind = ")"
    BY <2>2, KeywordText
  <2> DEFINE l == ParseFrom(t, "expr", m + 1)
  <2>6. ParseFrom(t, "primary", m) = [selects |-> l.selects, next |-> Closed(t, l.next)]
    BY <2>1, <2>4, ParsedGroup, Zenon
  <2>7. l = [selects |-> a, next |-> e]
    BY <2>1, <2>2, <2>5, Zenon DEF Expr, e
  <2> HIDE DEF l
  <2>8. l.selects = a /\ l.next = e
    BY <2>7
  <2>9. Closed(t, e) = p + Len(toks) + 1
    <3>1. e <= Len(t) /\ t[e].kind = ")"
      BY <2>2, <2>5
    <3>2. Closed(t, e) = e + 1
      BY <3>1 DEF Closed
    <3> QED BY <2>3, <3>2
  <2> QED BY <2>6, <2>8, <2>9, Zenon DEF m
<1> QED BY <1>2, <1>3, Zenon DEF Primary

\* A comparison.
LEMMA ComparisonIs ==
  ASSUME NEW name \in Seq(Lexemes), NEW op \in Seq(Lexemes), NEW value \in Tokens,
         name # <<"not">>
  PROVE  LET toks == <<Token("word", name), Token("op", op), value>>
         IN  /\ toks \in Seq(Tokens)
             /\ Primary(toks, {e \in Events : Compare(e, name, op, value.text)})
<1> DEFINE n == Token("word", name)
           o == Token("op", op)
           toks == <<n, o, value>>
           found == {e \in Events : Compare(e, name, op, value.text)}
<1>1. /\ n \in Tokens /\ n.kind = "word" /\ n.text = name
      /\ o \in Tokens /\ o.kind = "op" /\ o.text = op
  <2>1. "word" \in TokenKinds /\ "op" \in TokenKinds
    BY DEF TokenKinds
  <2> QED BY <2>1, TokenIs
<1> HIDE DEF n, o
<1>2. /\ toks \in Seq(Tokens) /\ Len(toks) = 3
      /\ toks[1] = n /\ toks[2] = o /\ toks[3] = value
  BY <1>1
<1>3. ASSUME NEW t \in Seq(Tokens), NEW p \in Nat, Follows(t, p, toks)
      PROVE  ParseFrom(t, "primary", p + 1) = [selects |-> found, next |-> p + Len(toks) + 1]
  <2> DEFINE m == p + 1
  <2>1. /\ m \in 1..Len(t) /\ m + 2 <= Len(t) /\ t[m] = n /\ t[m + 1] = o /\ t[m + 2] = value
        /\ m + 3 = p + Len(toks) + 1
    <3> HIDE DEF toks
    <3>1. Len(t) \in Nat /\ p + 3 <= Len(t) /\ \A j \in 1..3 : t[p + j] = toks[j]
      BY <1>2, <1>3 DEF Follows
    <3>2. t[p + 1] = n /\ t[p + 2] = o /\ t[p + 3] = value
      BY <1>2, <3>1
    <3>3. m + 1 = p + 2 /\ m + 2 = p + 3
      OBVIOUS
    <3> QED BY <1>2, <3>1, <3>2, <3>3
  <2> HIDE DEF m, toks
  <2>2. ~Text(t, m, "not") /\ t[m].kind # "("
    BY <1>1, <2>1 DEF Text
  <2>3. m + 2 <= Len(t) /\ t[m].kind = "word" /\ t[m + 1].kind = "op"
    BY <1>1, <2>1
  <2>4. ParseFrom(t, "primary", m) =
          [selects |-> {e \in Events : Compare(e, t[m].text, t[m + 1].text, t[m + 2].text)},
           next |-> m + 3]
    BY <2>1, <2>2, <2>3, ParsedComparison
  <2>5. t[m].text = name /\ t[m + 1].text = op /\ t[m + 2].text = value.text
    BY <1>1, <2>1
  <2>6. ParseFrom(t, "primary", m) = [selects |-> found, next |-> m + 3]
    BY <2>4, <2>5, Zenon
  <2> QED BY <2>1, <2>6, Zenon DEF m
<1>4. Primary(toks, found)
  BY <1>3, Zenon DEF Primary
<1> QED BY <1>2, <1>4 DEF n, o

-----------------------------------------------------------------------------
(* What lex makes of the texts that are written.                           *)

\* The tokens at each position, as one function.
LEMMA Lexed ==
  ASSUME NEW q \in Seq(Lexemes)
  PROVE  \E f : \A i \in 1..(Len(q) + 2) :
           /\ f[i] \in Seq(Tokens) /\ LexFrom(q, i) = f[i] /\ LexTurn(q, f, i) = f[i]
<1>1. PICK f \in [1..(Len(q) + 2) -> Seq(Tokens)] : \A d \in 1..(Len(q) + 2) :
        /\ f[d] \in Seq(Tokens) /\ LexFrom(q, d) = f[d] /\ f[d] = LexTurn(q, f, d)
  BY LexIs
<1> QED BY <1>1

\* At the end of the query there is no token.
LEMMA LexedEnd ==
  ASSUME NEW q \in Seq(Lexemes)
  PROVE  LexFrom(q, Len(q) + 1) = <<>>
<1>1. PICK f : \A i \in 1..(Len(q) + 2) : LexFrom(q, i) = f[i] /\ LexTurn(q, f, i) = f[i]
  BY Lexed
<1>2. Len(q) + 1 \in 1..(Len(q) + 2) /\ Len(q) + 1 > Len(q)
  OBVIOUS
<1>3. LexTurn(q, f, Len(q) + 1) = <<>>
  BY <1>2, Zenon DEF LexTurn
<1> QED BY <1>1, <1>2, <1>3

\* What is left at a position is a sequence of tokens.
LEMMA LexedTyped ==
  ASSUME NEW q \in Seq(Lexemes), NEW i \in 1..(Len(q) + 2)
  PROVE  LexFrom(q, i) \in Seq(Tokens)
BY Lexed

\* A blank is skipped.
LEMMA LexedBlank ==
  ASSUME NEW q \in Seq(Lexemes), NEW i \in 1..Len(q), q[i] = "sp"
  PROVE  LexFrom(q, i) = LexFrom(q, i + 1)
<1>1. PICK f : \A j \in 1..(Len(q) + 2) : LexFrom(q, j) = f[j] /\ LexTurn(q, f, j) = f[j]
  BY Lexed
<1> DEFINE k == i + 1
<1>2. i \in 1..(Len(q) + 2) /\ k \in 1..(Len(q) + 2) /\ ~(i > Len(q))
  OBVIOUS
<1>3. LexTurn(q, f, i) = f[k]
  BY <1>2, Zenon DEF LexTurn
<1> HIDE DEF k
<1>4. LexFrom(q, k) = f[k] /\ LexFrom(q, i) = LexTurn(q, f, i)
  BY <1>1, <1>2
<1> QED BY <1>3, <1>4, Zenon DEF k

\* A parenthesis is a token of its own.
LEMMA LexedParenthesis ==
  ASSUME NEW q \in Seq(Lexemes), NEW i \in 1..Len(q), q[i] # "sp", q[i] \in {"(", ")"}
  PROVE  LexFrom(q, i) = <<Token(q[i], <<q[i]>>)>> \o LexFrom(q, i + 1)
<1>1. PICK f : \A j \in 1..(Len(q) + 2) : LexFrom(q, j) = f[j] /\ LexTurn(q, f, j) = f[j]
  BY Lexed
<1> DEFINE k == i + 1
<1>2. i \in 1..(Len(q) + 2) /\ k \in 1..(Len(q) + 2) /\ ~(i > Len(q))
  OBVIOUS
<1>3. LexTurn(q, f, i) = <<Token(q[i], <<q[i]>>)>> \o f[k]
  BY <1>2, Zenon DEF LexTurn
<1> HIDE DEF k
<1>4. LexFrom(q, k) = f[k] /\ LexFrom(q, i) = LexTurn(q, f, i)
  BY <1>1, <1>2
<1> QED BY <1>3, <1>4, Zenon DEF k

\* An operator of two lexemes comes before the one it starts with.
LEMMA LexedLongOp ==
  ASSUME NEW q \in Seq(Lexemes), NEW i \in 1..Len(q), q[i] # "sp", q[i] \notin {"(", ")"},
         i < Len(q) /\ q[i] \in {"=", "!", ">", "<"} /\ q[i + 1] = "="
  PROVE  LexFrom(q, i) = <<Token("op", <<q[i], "=">>)>> \o LexFrom(q, i + 2)
<1>1. PICK f : \A j \in 1..(Len(q) + 2) : LexFrom(q, j) = f[j] /\ LexTurn(q, f, j) = f[j]
  BY Lexed
<1> DEFINE k == i + 2
<1>2. i \in 1..(Len(q) + 2) /\ k \in 1..(Len(q) + 2) /\ ~(i > Len(q))
  OBVIOUS
<1>3. LexTurn(q, f, i) = <<Token("op", <<q[i], "=">>)>> \o f[k]
  BY <1>2, Zenon DEF LexTurn
<1> HIDE DEF k
<1>4. LexFrom(q, k) = f[k] /\ LexFrom(q, i) = LexTurn(q, f, i)
  BY <1>1, <1>2
<1> QED BY <1>3, <1>4, Zenon DEF k

\* An operator of one lexeme.
LEMMA LexedShortOp ==
  ASSUME NEW q \in Seq(Lexemes), NEW i \in 1..Len(q), q[i] # "sp", q[i] \notin {"(", ")"},
         ~(i < Len(q) /\ q[i] \in {"=", "!", ">", "<"} /\ q[i + 1] = "="), q[i] \in {"=", "~", ">", "<"}
  PROVE  LexFrom(q, i) = <<Token("op", <<q[i]>>)>> \o LexFrom(q, i + 1)
<1>1. PICK f : \A j \in 1..(Len(q) + 2) : LexFrom(q, j) = f[j] /\ LexTurn(q, f, j) = f[j]
  BY Lexed
<1> DEFINE k == i + 1
<1>2. i \in 1..(Len(q) + 2) /\ k \in 1..(Len(q) + 2) /\ ~(i > Len(q))
  OBVIOUS
<1>3. LexTurn(q, f, i) = <<Token("op", <<q[i]>>)>> \o f[k]
  BY <1>2, Zenon DEF LexTurn
<1> HIDE DEF k
<1>4. LexFrom(q, k) = f[k] /\ LexFrom(q, i) = LexTurn(q, f, i)
  BY <1>1, <1>2
<1> QED BY <1>3, <1>4, Zenon DEF k

\* A quoted text is one token without its quotes.
LEMMA LexedQuote ==
  ASSUME NEW q \in Seq(Lexemes), NEW i \in 1..Len(q), q[i] # "sp", q[i] \notin {"(", ")"},
         ~(i < Len(q) /\ q[i] \in {"=", "!", ">", "<"} /\ q[i + 1] = "="), q[i] \notin {"=", "~", ">", "<"}, q[i] = "quote"
  PROVE  LexFrom(q, i) = <<Token("word", Unescape(SubSeq(q, i + 1, QuoteEnd(q, i + 1) - 1)))>> \o LexFrom(q, QuoteEnd(q, i + 1) + 1)
<1>1. PICK f : \A j \in 1..(Len(q) + 2) : LexFrom(q, j) = f[j] /\ LexTurn(q, f, j) = f[j]
  BY Lexed
<1> DEFINE k == QuoteEnd(q, i + 1) + 1
<1>2. i \in 1..(Len(q) + 2) /\ k \in 1..(Len(q) + 2) /\ ~(i > Len(q))
  <2>1. QuoteEnd(q, i + 1) \in (i + 1)..(Len(q) + 1)
    BY EndsAre
  <2> QED BY <2>1
<1>3. LexTurn(q, f, i) = <<Token("word", Unescape(SubSeq(q, i + 1, QuoteEnd(q, i + 1) - 1)))>> \o f[k]
  BY <1>2, Zenon DEF LexTurn
<1> HIDE DEF k
<1>4. LexFrom(q, k) = f[k] /\ LexFrom(q, i) = LexTurn(q, f, i)
  BY <1>1, <1>2
<1> QED BY <1>3, <1>4, Zenon DEF k

\* Anything else is a word up to the next stop.
LEMMA LexedWord ==
  ASSUME NEW q \in Seq(Lexemes), NEW i \in 1..Len(q), q[i] # "sp", q[i] \notin {"(", ")"},
         ~(i < Len(q) /\ q[i] \in {"=", "!", ">", "<"} /\ q[i + 1] = "="), q[i] \notin {"=", "~", ">", "<"}, q[i] # "quote"
  PROVE  LexFrom(q, i) = <<WordToken(SubSeq(q, i, WordEnd(q, i) - 1))>> \o LexFrom(q, WordEnd(q, i))
<1>1. PICK f : \A j \in 1..(Len(q) + 2) : LexFrom(q, j) = f[j] /\ LexTurn(q, f, j) = f[j]
  BY Lexed
<1> DEFINE k == WordEnd(q, i)
<1>2. i \in 1..(Len(q) + 2) /\ k \in 1..(Len(q) + 2) /\ ~(i > Len(q))
  <2>1. WordEnd(q, i) \in (i + 1)..(Len(q) + 1)
    BY EndsAre
  <2> QED BY <2>1
<1>3. LexTurn(q, f, i) = <<WordToken(SubSeq(q, i, WordEnd(q, i) - 1))>> \o f[k]
  BY <1>2, Zenon DEF LexTurn
<1> HIDE DEF k
<1>4. LexFrom(q, k) = f[k] /\ LexFrom(q, i) = LexTurn(q, f, i)
  BY <1>1, <1>2
<1> QED BY <1>3, <1>4, Zenon DEF k


\* What follows is cut out of the text.
LEMMA FollowsIsCut ==
  ASSUME NEW C, NEW t \in Seq(C), NEW s \in Seq(C), NEW p \in Nat, Follows(t, p, s)
  PROVE  SubSeq(t, p + 1, p + Len(s)) = s
<1> DEFINE n == Len(s)
           cut == SubSeq(t, p + 1, p + n)
<1>1. n \in Nat /\ Len(t) \in Nat /\ p + n <= Len(t) /\ \A j \in 1..n : t[p + j] = s[j]
  BY DEF Follows
<1>2. \A i \in (p + 1)..(p + n) : t[i] \in C
  BY <1>1
<1>3. p + 1 \in Int /\ p + n \in Int
  BY <1>1
<1>4. /\ cut \in Seq(C)
      /\ Len(cut) = IF p + 1 <= p + n THEN (p + n) - (p + 1) + 1 ELSE 0
      /\ \A i \in 1..((p + n) - (p + 1) + 1) : cut[i] = t[(p + 1) + i - 1]
  <2> HIDE DEF n
  <2> QED BY <1>2, <1>3, SubSeqProperties
<1> HIDE DEF cut
<1>5. Len(cut) = n
  BY <1>1, <1>4
<1>6. ASSUME NEW i \in 1..n PROVE cut[i] = s[i]
  <2>1. i \in 1..((p + n) - (p + 1) + 1) /\ (p + 1) + i - 1 = p + i
    BY <1>1
  <2> HIDE DEF n
  <2>2. cut[i] = t[p + i]
    BY <1>4, <2>1
  <2> QED BY <1>1, <2>2
<1>7. cut = s
  BY <1>4, <1>5, <1>6
<1> QED BY <1>7 DEF cut

\* The lexemes of a plain text.
LEMMA PlainIs ==
  ASSUME NEW w, Plain(w)
  PROVE  /\ w \in Seq(Lexemes) /\ Len(w) \in Nat \ {0} /\ 1 \in 1..Len(w)
         /\ \A j \in 1..Len(w) : w[j] \notin Special
<1>1. w \in Seq(Lexemes) /\ w # <<>>
  BY DEF Plain
<1>2. Len(w) \in Nat \ {0} /\ 1 \in 1..Len(w)
  BY <1>1
<1>3. ASSUME NEW j \in 1..Len(w) PROVE w[j] \notin Special
  <2>1. j \in DOMAIN w
    BY <1>1
  <2>2. w[j] \in ToSet(w)
    BY <2>1 DEF ToSet
  <2> QED BY <2>2 DEF Plain
<1> QED BY <1>1, <1>2, <1>3

\* A plain text that something ends is one word.
LEMMA PlainLexes ==
  ASSUME NEW q \in Seq(Lexemes), NEW p \in Nat, NEW w, Plain(w), Follows(q, p, w),
         p + Len(w) = Len(q) \/ q[p + Len(w) + 1] \in Stops
  PROVE  LexFrom(q, p + 1) = <<WordToken(w)>> \o LexFrom(q, p + Len(w) + 1)
<1> DEFINE n == Len(w)
           i == p + 1
           e == p + n + 1
<1>1. w \in Seq(Lexemes) /\ n \in Nat \ {0} /\ \A j \in 1..n : w[j] \notin Special
  BY PlainIs
<1>2. Len(q) \in Nat /\ p + n <= Len(q) /\ \A j \in 1..n : q[p + j] = w[j]
  BY DEF Follows
<1>3. \A k \in i..(e - 1) : q[k] \notin Special
  <2> SUFFICES ASSUME NEW k \in i..(e - 1) PROVE q[k] \notin Special
    OBVIOUS
  <2>1. k - p \in 1..n /\ p + (k - p) = k
    BY <1>1
  <2> HIDE DEF n
  <2> QED BY <1>1, <1>2, <2>1
<1>4. i \in 1..Len(q) /\ i \in i..(e - 1) /\ e \in (i + 1)..(Len(q) + 1)
  BY <1>1, <1>2
<1>5. WordEnd(q, i) = e
  <2> DEFINE S == {j \in (i + 1)..(Len(q) + 1) : j = Len(q) + 1 \/ q[j] \in Stops}
  <2>1. e \in S
    BY <1>2, <1>4
  <2>2. S \subseteq Nat
    OBVIOUS
  <2>3. ASSUME NEW j \in S PROVE j >= e
    <3>1. j \in (i + 1)..(Len(q) + 1) /\ (j = Len(q) + 1 \/ q[j] \in Stops)
      OBVIOUS
    <3>2. j \in i..(e - 1) => q[j] \notin Stops
      BY <1>3 DEF Special
    <3> HIDE DEF S, n
    <3> QED BY <1>1, <1>2, <1>4, <3>1, <3>2
  <2>4. WordEnd(q, i) = Min(S)
    BY DEF WordEnd
  <2>5. Min(S) \in S /\ \A m \in S : Min(S) <= m
    <3> HIDE DEF S
    <3> QED BY <2>1, <2>2, LeastIs
  <2> DEFINE least == Min(S)
  <2>6. least \in Nat /\ least <= e /\ e <= least
    <3>1. least \in S /\ least <= e
      BY <2>1, <2>5
    <3> HIDE DEF least, S
    <3> QED BY <2>2, <2>3, <3>1
  <2> HIDE DEF least
  <2>7. least = e
    BY <1>1, <2>6
  <2> QED BY <2>4, <2>7 DEF least
<1>6. q[i] \notin Special
  BY <1>3, <1>4
<1>7. LexFrom(q, i) = <<WordToken(SubSeq(q, i, WordEnd(q, i) - 1))>> \o LexFrom(q, WordEnd(q, i))
  <2>1. /\ q[i] # "sp" /\ q[i] \notin {"(", ")"} /\ q[i] \notin {"=", "~", ">", "<"} /\ q[i] # "quote"
        /\ ~(i < Len(q) /\ q[i] \in {"=", "!", ">", "<"} /\ q[i + 1] = "=")
    BY <1>6 DEF Special, Stops
  <2> HIDE DEF i
  <2> QED BY <1>4, <2>1, LexedWord
<1>8. e - 1 = p + n
  BY <1>1
<1>9. SubSeq(q, i, p + n) = w
  BY <1>1, FollowsIsCut
<1> HIDE DEF e, i, n
<1>10. LexFrom(q, i) = <<WordToken(w)>> \o LexFrom(q, e)
  BY <1>5, <1>7, <1>8, <1>9, Zenon
<1> QED BY <1>10 DEF e, i, n

\* A text that has neither quotes nor backslashes is its own reading.
LEMMA UnescapePlain ==
  ASSUME NEW s \in Seq(Lexemes), \A j \in 1..Len(s) : s[j] # "bs"
  PROVE  Unescape(s) = s
<1> DEFINE n == Len(s)
<1>1. PICK f \in [1..(Len(s) + 2) -> Seq(Lexemes)] : \A d \in 1..(Len(s) + 2) :
        /\ f[d] \in Seq(Lexemes) /\ UnescapeFrom(s, d) = f[d]
        /\ f[d] = (IF d > Len(s) THEN <<>>
                   ELSE IF s[d] = "bs" /\ d < Len(s) THEN <<s[d + 1]>> \o f[d + 2]
                   ELSE <<s[d]>> \o f[d + 1])
  BY UnescapeIs
<1> DEFINE S == {k \in 0..n : f[(n + 1) - k] = SubSeq(s, (n + 1) - k, n)}
<1>2. n \in Nat
  OBVIOUS
<1>3. 0 \in S
  <2>1. (n + 1) - 0 = n + 1 /\ n + 1 \in 1..(Len(s) + 2) /\ n + 1 > Len(s)
    BY <1>2
  <2>2. f[n + 1] = <<>>
    BY <1>1, <2>1
  <2>3. n + 1 \in Int /\ n \in Int /\ n < n + 1
    BY <1>2
  <2> HIDE DEF n
  <2>4. SubSeq(s, n + 1, n) = <<>>
    BY <2>3, SubSeqEmpty
  <2>5. 0 \in 0..n
    BY <1>2
  <2> QED BY <2>1, <2>2, <2>4, <2>5
<1>4. ASSUME NEW k \in 1..n, k - 1 \in S PROVE k \in S
  <2> DEFINE i == (n + 1) - k
  <2>1. /\ i \in 1..n /\ i \in 1..(Len(s) + 2) /\ ~(i > Len(s)) /\ (n + 1) - (k - 1) = i + 1
        /\ n \in i..n /\ k \in 0..n
    BY <1>2
  <2>2. f[i + 1] = SubSeq(s, i + 1, n)
    BY <1>4, <2>1
  <2>3. f[i] = <<s[i]>> \o f[i + 1]
    <3>1. s[i] # "bs"
      BY <2>1
    <3> HIDE DEF i
    <3> QED BY <1>1, <2>1, <3>1
  <2> HIDE DEF i, n
  <2>4. SubSeq(s, i, n) = <<s[i]>> \o SubSeq(s, i + 1, n)
    <3>1. i \in 1..Len(s) /\ n \in i..Len(s)
      BY <2>1 DEF n
    <3> QED BY <3>1, SubSeqRecursiveFirst
  <2>5. f[i] = SubSeq(s, i, n)
    BY <2>2, <2>3, <2>4, Zenon
  <2> QED BY <2>1, <2>5 DEF i
<1>5. 0..n \subseteq S
  <2> HIDE DEF S, n
  <2> QED BY <1>2, <1>3, <1>4, BoundedInduction
<1>6. f[1] = SubSeq(s, 1, n)
  <2>1. n \in 0..n /\ (n + 1) - n = 1
    BY <1>2
  <2>2. n \in S
    <3> HIDE DEF S, n
    <3> QED BY <1>5, <2>1
  <2> HIDE DEF n
  <2> QED BY <2>1, <2>2
<1>7. SubSeq(s, 1, n) = s
  BY SubSeqFull
<1>8. UnescapeFrom(s, 1) = f[1]
  <2>1. 1 \in 1..(Len(s) + 2)
    BY <1>2
  <2> QED BY <1>1, <2>1
<1> HIDE DEF n
<1> QED BY <1>6, <1>7, <1>8, Zenon DEF Unescape

\* A quoted text ends at the next quote if no backslash comes before it.
LEMMA QuoteEndsAt ==
  ASSUME NEW q \in Seq(Lexemes), NEW i \in 1..Len(q), NEW e \in i..Len(q), q[e] = "quote",
         \A j \in i..(e - 1) : q[j] \notin {"quote", "bs"}
  PROVE  QuoteEnd(q, i) = e
<1>1. PICK f \in [1..(Len(q) + 2) -> Nat] : \A d \in 1..(Len(q) + 2) :
        /\ f[d] \in {m \in Nat : m <= Len(q) + 1 /\ (d <= Len(q) + 1 => m >= d)}
        /\ QuoteEnd(q, d) = f[d]
        /\ f[d] = (IF d > Len(q) THEN Len(q) + 1 ELSE IF q[d] = "quote" THEN d
                   ELSE IF q[d] = "bs" /\ d < Len(q) THEN f[d + 2] ELSE f[d + 1])
  BY QuoteEndIs
<1> DEFINE n == e - i
           S == {k \in 0..n : f[e - k] = e}
<1>2. n \in Nat /\ Len(q) \in Nat
  OBVIOUS
<1>3. 0 \in S
  <2>1. e - 0 = e /\ e \in 1..(Len(q) + 2) /\ ~(e > Len(q)) /\ 0 \in 0..n
    BY <1>2
  <2>2. f[e] = e
    BY <1>1, <2>1
  <2> QED BY <2>1, <2>2
<1>4. ASSUME NEW k \in 1..n, k - 1 \in S PROVE k \in S
  <2> DEFINE d == e - k
  <2>1. /\ d \in i..(e - 1) /\ d \in 1..(Len(q) + 2) /\ ~(d > Len(q)) /\ e - (k - 1) = d + 1
        /\ k \in 0..n
    BY <1>2
  <2>2. f[d + 1] = e
    BY <1>4, <2>1
  <2> HIDE DEF d
  <2>3. f[d] = f[d + 1]
    BY <1>1, <2>1
  <2> QED BY <2>1, <2>2, <2>3 DEF d
<1>5. 0..n \subseteq S
  <2> HIDE DEF S, n
  <2> QED BY <1>2, <1>3, <1>4, BoundedInduction
<1>6. n \in S /\ e - n = i
  <2>1. n \in 0..n /\ e - n = i
    BY <1>2
  <2> HIDE DEF S, n
  <2> QED BY <1>5, <2>1
<1>7. f[i] = e
  <2> HIDE DEF n
  <2> QED BY <1>6
<1>8. i \in 1..(Len(q) + 2)
  BY <1>2
<1> QED BY <1>1, <1>7, <1>8

\* A value in quotes is one word.
LEMMA QuotedLexes ==
  ASSUME NEW q \in Seq(Lexemes), NEW p \in Nat, NEW v \in Seq(Lexemes),
         \A j \in 1..Len(v) : v[j] \notin {"quote", "bs"},
         Follows(q, p, <<"quote">> \o v \o <<"quote">>)
  PROVE  /\ Len(<<"quote">> \o v \o <<"quote">>) = Len(v) + 2
         /\ p + 1 \in 1..Len(q) /\ q[p + 1] = "quote"
         /\ LexFrom(q, p + 1) = <<Token("word", v)>> \o LexFrom(q, p + (Len(v) + 2) + 1)
<1> DEFINE n == Len(v)
           one == <<"quote">>
           i == p + 1
           e == i + n + 1
<1>1. one \in Seq(Lexemes) /\ Len(one) = 1 /\ one[1] = "quote" /\ n \in Nat
  <2>1. "quote" \in Lexemes
    BY QueryAssumption DEF Special
  <2> QED BY <2>1
<1> HIDE DEF one
<1>2. /\ one \o v \in Seq(Lexemes) /\ Len((one \o v) \o one) = Len(one \o v) + Len(one)
      /\ Follows(q, p, one \o v) /\ Follows(q, p + Len(one \o v), one)
  <2> DEFINE left == one \o v
  <2>1. left \in Seq(Lexemes)
    BY <1>1, ConcatProperties
  <2>2. Follows(q, p, left \o one)
    BY DEF one
  <2> HIDE DEF left
  <2>4. one \in Seq(Lexemes)
    BY <1>1
  <2>3. /\ Len(left \o one) = Len(left) + Len(one)
        /\ Follows(q, p, left) /\ Follows(q, p + Len(left), one)
    BY <2>1, <2>2, <2>4, FollowsParts
  <2> QED BY <2>1, <2>3 DEF left
<1>3. Len(one \o v) = 1 + n /\ Follows(q, p, one) /\ Follows(q, p + 1, v)
  <2>1. /\ Len(one \o v) = Len(one) + Len(v)
        /\ Follows(q, p, one) /\ Follows(q, p + Len(one), v)
    BY <1>1, <1>2, FollowsParts
  <2> QED BY <1>1, <2>1
<1>4. Len((one \o v) \o one) = n + 2 /\ Follows(q, p + (1 + n), one)
  <2> DEFINE both == one \o v
  <2> HIDE DEF both
  <2>1. Len(both) = 1 + n /\ Len(both \o one) = Len(both) + 1 /\ Follows(q, p + Len(both), one)
    BY <1>1, <1>2, <1>3 DEF both
  <2>2. Len(both \o one) = n + 2 /\ Follows(q, p + (1 + n), one)
    BY <1>1, <2>1
  <2> QED BY <2>2 DEF both
<1>5. i \in 1..Len(q) /\ q[i] = "quote" /\ e \in 1..Len(q) /\ q[e] = "quote"
  <2>1. p + 1 <= Len(q) /\ q[p + 1] = "quote"
    BY <1>1, <1>3 DEF Follows
  <2> DEFINE k == p + (1 + n)
  <2>2. k \in Nat /\ e = k + 1
    BY <1>1
  <2> HIDE DEF k, e
  <2>3. k + 1 <= Len(q) /\ q[k + 1] = "quote"
    BY <1>1, <1>4 DEF Follows, k
  <2> QED BY <2>1, <2>2, <2>3
<1>6. \A j \in (i + 1)..(e - 1) : q[j] \notin {"quote", "bs"}
  <2> SUFFICES ASSUME NEW j \in (i + 1)..(e - 1) PROVE q[j] \notin {"quote", "bs"}
    OBVIOUS
  <2>1. j - i \in 1..n /\ i + (j - i) = j
    BY <1>1
  <2>2. q[i + (j - i)] = v[j - i]
    BY <1>3, <2>1 DEF Follows
  <2> HIDE DEF n, i
  <2> QED BY <2>1, <2>2 DEF n
<1>7. QuoteEnd(q, i + 1) = e
  <2>1. i + 1 \in 1..Len(q) /\ e \in (i + 1)..Len(q)
    BY <1>1, <1>5
  <2> HIDE DEF i, e
  <2> QED BY <1>5, <1>6, <2>1, QuoteEndsAt
<1>8. SubSeq(q, i + 1, e - 1) = v
  <2>1. e - 1 = i + n /\ i \in Nat
    BY <1>1
  <2> HIDE DEF e
  <2>2. SubSeq(q, i + 1, i + n) = v
    <3> HIDE DEF i
    <3> QED BY <1>3, <2>1, FollowsIsCut DEF i
  <2> QED BY <2>1, <2>2
<1>9. Unescape(v) = v
  BY UnescapePlain
<1>10. LexFrom(q, i) = <<Token("word", Unescape(SubSeq(q, i + 1, QuoteEnd(q, i + 1) - 1)))>>
                         \o LexFrom(q, QuoteEnd(q, i + 1) + 1)
  <2>1. /\ q[i] # "sp" /\ q[i] \notin {"(", ")"} /\ q[i] \notin {"=", "~", ">", "<"}
        /\ ~(i < Len(q) /\ q[i] \in {"=", "!", ">", "<"} /\ q[i + 1] = "=")
    BY <1>5
  <2> HIDE DEF i
  <2> QED BY <1>5, <2>1, LexedQuote
<1>11. e + 1 = p + (n + 2) + 1
  BY <1>1
<1> HIDE DEF e, i, n
<1>12. LexFrom(q, i) = <<Token("word", v)>> \o LexFrom(q, e + 1)
  BY <1>7, <1>8, <1>9, <1>10, Zenon
<1>13. LexFrom(q, i) = <<Token("word", v)>> \o LexFrom(q, p + (n + 2) + 1)
  BY <1>11, <1>12
<1> QED BY <1>4, <1>5, <1>13 DEF i, n, one

\* An operator is one token if no "=" comes after it.
LEMMA OpLexes ==
  ASSUME NEW q \in Seq(Lexemes), NEW p \in Nat, NEW op \in Ops, Follows(q, p, op),
         p + Len(op) < Len(q) => q[p + Len(op) + 1] # "="
  PROVE  LexFrom(q, p + 1) = <<Token("op", op)>> \o LexFrom(q, p + Len(op) + 1)
<1> DEFINE i == p + 1
<1>1. Len(q) \in Nat
  OBVIOUS
<1>2. ASSUME NEW c \in {"=", "!", ">", "<"}, op = <<c, "=">>
      PROVE  LexFrom(q, p + 1) = <<Token("op", op)>> \o LexFrom(q, p + Len(op) + 1)
  <2>1. Len(op) = 2 /\ op[1] = c /\ op[2] = "="
    BY <1>2
  <2>2. p + 2 <= Len(q) /\ q[p + 1] = c /\ q[p + 2] = "="
    BY <2>1 DEF Follows
  <2>3. i \in 1..Len(q) /\ i + 1 = p + 2 /\ i < Len(q) /\ i + 2 = p + 2 + 1
    BY <1>1, <2>2
  <2> HIDE DEF i
  <2>4. /\ q[i] # "sp" /\ q[i] \notin {"(", ")"}
        /\ i < Len(q) /\ q[i] \in {"=", "!", ">", "<"} /\ q[i + 1] = "="
    BY <2>2, <2>3 DEF i
  <2>5. LexFrom(q, i) = <<Token("op", <<q[i], "=">>)>> \o LexFrom(q, i + 2)
    BY <2>3, <2>4, LexedLongOp
  <2>6. q[i] = c
    BY <2>2 DEF i
  <2>7. LexFrom(q, i) = <<Token("op", op)>> \o LexFrom(q, p + 2 + 1)
    BY <1>2, <2>3, <2>5, <2>6, Zenon
  <2>8. p + Len(op) + 1 = p + 2 + 1
    BY <2>1
  <2> QED BY <2>7, <2>8 DEF i
<1>3. ASSUME NEW c \in {"=", "~", ">", "<"}, op = <<c>>
      PROVE  LexFrom(q, p + 1) = <<Token("op", op)>> \o LexFrom(q, p + Len(op) + 1)
  <2>1. Len(op) = 1 /\ op[1] = c
    BY <1>3
  <2>2. p + 1 <= Len(q) /\ q[p + 1] = c
    BY <2>1 DEF Follows
  <2>3. i \in 1..Len(q) /\ (i < Len(q) => q[i + 1] # "=")
    BY <1>1, <2>1, <2>2
  <2> HIDE DEF i
  <2>4. /\ q[i] # "sp" /\ q[i] \notin {"(", ")"} /\ q[i] \in {"=", "~", ">", "<"}
        /\ ~(i < Len(q) /\ q[i] \in {"=", "!", ">", "<"} /\ q[i + 1] = "=")
    BY <2>2, <2>3 DEF i
  <2>5. LexFrom(q, i) = <<Token("op", <<q[i]>>)>> \o LexFrom(q, i + 1)
    BY <2>3, <2>4, LexedShortOp
  <2>6. q[i] = c
    BY <2>2 DEF i
  <2>7. LexFrom(q, i) = <<Token("op", op)>> \o LexFrom(q, i + 1)
    BY <1>3, <2>5, <2>6, Zenon
  <2>8. p + Len(op) + 1 = i + 1
    BY <2>1 DEF i
  <2> QED BY <2>7, <2>8 DEF i
<1>4. \/ \E c \in {"=", "!", ">", "<"} : op = <<c, "=">>
      \/ \E c \in {"=", "~", ">", "<"} : op = <<c>>
  BY DEF Ops
<1> HIDE DEF i
<1> QED BY <1>2, <1>3, <1>4

\* Where the five parts of a text are in what it follows.
LEMMA FollowsFive ==
  ASSUME NEW C, NEW t \in Seq(C), NEW a \in Seq(C), NEW b \in Seq(C), NEW c \in Seq(C),
         NEW d \in Seq(C), NEW e \in Seq(C), NEW p \in Nat, Follows(t, p, a \o b \o c \o d \o e)
  PROVE  /\ a \o b \o c \o d \o e \in Seq(C)
         /\ Len(a \o b \o c \o d \o e) = Len(a) + Len(b) + Len(c) + Len(d) + Len(e)
         /\ Follows(t, p, a) /\ Follows(t, p + Len(a), b) /\ Follows(t, p + Len(a) + Len(b), c)
         /\ Follows(t, p + Len(a) + Len(b) + Len(c), d)
         /\ Follows(t, p + Len(a) + Len(b) + Len(c) + Len(d), e)
<1> DEFINE ab == a \o b
           abc == ab \o c
           abcd == abc \o d
<1>1. /\ ab \in Seq(C) /\ Len(ab) = Len(a) + Len(b)
  BY ConcatProperties
<1> HIDE DEF ab
<1>2. abc \in Seq(C) /\ Len(abc) = Len(ab) + Len(c)
  BY <1>1, ConcatProperties
<1> HIDE DEF abc
<1>3. abcd \in Seq(C) /\ Len(abcd) = Len(abc) + Len(d)
  BY <1>2, ConcatProperties
<1> HIDE DEF abcd
<1>4. Follows(t, p, abcd \o e)
  BY DEF abcd, abc, ab
<1>5. /\ abcd \o e \in Seq(C) /\ Len(abcd \o e) = Len(abcd) + Len(e)
      /\ Follows(t, p, abcd) /\ Follows(t, p + Len(abcd), e)
  <2>1. abcd \in Seq(C)
    BY <1>3
  <2> QED BY <1>4, <2>1, FollowsParts
<1>6. Follows(t, p, abc) /\ Follows(t, p + Len(abc), d)
  <2>1. abc \in Seq(C) /\ Follows(t, p, abc \o d)
    BY <1>2, <1>5 DEF abcd
  <2> QED BY <2>1, FollowsParts
<1>7. Follows(t, p, ab) /\ Follows(t, p + Len(ab), c)
  <2>1. ab \in Seq(C) /\ Follows(t, p, ab \o c)
    BY <1>1, <1>6 DEF abc
  <2> QED BY <2>1, FollowsParts
<1>8. Follows(t, p, a) /\ Follows(t, p + Len(a), b)
  <2>1. Follows(t, p, a \o b)
    BY <1>7 DEF ab
  <2> QED BY <2>1, FollowsParts
<1> DEFINE la == Len(a)
           lb == Len(b)
           lc == Len(c)
           ld == Len(d)
           le == Len(e)
<1>9. la \in Nat /\ lb \in Nat /\ lc \in Nat /\ ld \in Nat /\ le \in Nat
  OBVIOUS
<1>10. Len(ab) = la + lb /\ Len(abc) = la + lb + lc /\ Len(abcd) = la + lb + lc + ld
  BY <1>1, <1>2, <1>3
<1> HIDE DEF la, lb, lc, ld, le
<1>11. /\ p + (la + lb) = p + la + lb /\ p + (la + lb + lc) = p + la + lb + lc
       /\ p + (la + lb + lc + ld) = p + la + lb + lc + ld
  BY <1>9
<1>12. /\ Follows(t, p + la + lb, c) /\ Follows(t, p + la + lb + lc, d)
       /\ Follows(t, p + la + lb + lc + ld, e)
  BY <1>5, <1>6, <1>7, <1>10, <1>11
<1>13. abcd \o e \in Seq(C) /\ Len(abcd \o e) = la + lb + lc + ld + le
  BY <1>5, <1>10 DEF le
<1> QED BY <1>8, <1>12, <1>13 DEF abcd, abc, ab, la, lb, lc, ld, le

\* At k the query ends or a word does.
Ends(q, k) == k = Len(q) \/ q[k + 1] \in {"sp", ")"}

\* Wherever the text comes up, lex makes the tokens of it.
Lexes(text, toks) ==
  \A q \in Seq(Lexemes), p \in Nat :
    Follows(q, p, text) /\ Ends(q, p + Len(text)) =>
      LexFrom(q, p + 1) = toks \o LexFrom(q, p + Len(text) + 1)

\* A blank makes none.
LEMMA BlankLexes ==
  ASSUME NEW q \in Seq(Lexemes), NEW p \in Nat, NEW b \in {<<>>, <<"sp">>}, Follows(q, p, b)
  PROVE  LexFrom(q, p + 1) = LexFrom(q, p + Len(b) + 1)
<1>1. CASE b = <<>>
  <2>1. p + Len(b) + 1 = p + 1
    BY <1>1
  <2> QED BY <2>1
<1>2. CASE b = <<"sp">>
  <2> DEFINE i == p + 1
  <2>1. Len(b) = 1 /\ b[1] = "sp"
    BY <1>2
  <2>2. i \in 1..Len(q) /\ q[i] = "sp"
    BY <2>1 DEF Follows
  <2>3. p + Len(b) + 1 = i + 1
    BY <2>1
  <2> HIDE DEF i
  <2>4. LexFrom(q, i) = LexFrom(q, i + 1)
    BY <2>2, LexedBlank
  <2> QED BY <2>3, <2>4 DEF i
<1> QED BY <1>1, <1>2

ValueText(a) ==
  IF Contains(a.value, "sp") THEN <<"quote">> \o a.value \o <<"quote">> ELSE a.value

\* The value of an atom is one token, however it is written, and does not start with "=".
LEMMA ValueLexes ==
  ASSUME NEW a \in Atoms
  PROVE  /\ ValueText(a) \in Seq(Lexemes) /\ a.value \in Seq(Lexemes) /\ a.value # <<>>
         /\ \E v \in Tokens : v.text = a.value /\ Lexes(ValueText(a), <<v>>)
         /\ \A q \in Seq(Lexemes), p \in Nat : Follows(q, p, ValueText(a)) =>
              p + 1 \in 1..Len(q) /\ q[p + 1] # "="
<1> DEFINE w == a.value
<1>1. \/ Plain(w)
      \/ Contains(w, "sp") /\ w \in Seq(Lexemes) /\ ToSet(w) \cap {"quote", "bs"} = {}
  BY QueryAssumption
<1>0. "word" \in TokenKinds
  BY DEF TokenKinds
<1>2. CASE Plain(w)
  <2>1. w \in Seq(Lexemes) /\ Len(w) \in Nat \ {0} /\ 1 \in 1..Len(w) /\ \A j \in 1..Len(w) : w[j] \notin Special
    BY <1>2, PlainIs
  <2>2. ~Contains(w, "sp")
    BY <2>1 DEF Contains, Special, Stops
  <2>3. ValueText(a) = w
    BY <2>2 DEF ValueText
  <2> DEFINE v == WordToken(w)
  <2>4. v \in Tokens /\ v.text = w
    <3> DEFINE k == IF w \in Keywords THEN w[1] ELSE "word"
    <3>1. k \in TokenKinds
      <4>1. CASE w \in Keywords
        <5>1. w[1] \in {"and", "or", "not"}
          BY <4>1 DEF Keywords
        <5> QED BY <4>1, <5>1 DEF TokenKinds
      <4>2. CASE w \notin Keywords
        BY <1>0, <4>2
      <4> QED BY <4>1, <4>2
    <3> HIDE DEF k, w
    <3>2. Token(k, w) \in Tokens /\ Token(k, w).text = w
      BY <2>1, <3>1, TokenIs
    <3> QED BY <3>2 DEF WordToken, k
  <2> HIDE DEF w, v
  <2>5. Lexes(w, <<v>>)
    <3> SUFFICES ASSUME NEW q \in Seq(Lexemes), NEW p \in Nat, Follows(q, p, w), Ends(q, p + Len(w))
                 PROVE  LexFrom(q, p + 1) = <<v>> \o LexFrom(q, p + Len(w) + 1)
      BY DEF Lexes
    <3>1. p + Len(w) = Len(q) \/ q[p + Len(w) + 1] \in Stops
      BY DEF Ends, Stops
    <3> QED BY <1>2, <3>1, PlainLexes DEF v
  <2>6. ASSUME NEW q \in Seq(Lexemes), NEW p \in Nat, Follows(q, p, w)
        PROVE  p + 1 \in 1..Len(q) /\ q[p + 1] # "="
    <3>1. p + 1 \in 1..Len(q) /\ q[p + 1] = w[1]
      BY <2>1, <2>6 DEF Follows
    <3>2. w[1] # "="
      BY <2>1 DEF Special, Stops
    <3> QED BY <3>1, <3>2
  <2>7. w # <<>>
    BY <2>1
  <2>8. \E v1 \in Tokens : v1.text = w /\ Lexes(w, <<v1>>)
    BY <2>4, <2>5
  <2>9. \A q \in Seq(Lexemes), p \in Nat : Follows(q, p, w) => p + 1 \in 1..Len(q) /\ q[p + 1] # "="
    BY <2>6
  <2>10. w \in Seq(Lexemes)
    BY <2>1
  <2> QED BY <2>3, <2>7, <2>8, <2>9, <2>10, Zenon DEF w
<1>3. CASE Contains(w, "sp") /\ w \in Seq(Lexemes) /\ ToSet(w) \cap {"quote", "bs"} = {}
  <2> DEFINE x == <<"quote">> \o w \o <<"quote">>
             v == Token("word", w)
  <2>1. ValueText(a) = x
    BY <1>3 DEF ValueText
  <2> HIDE DEF w
  <2>2. w \in Seq(Lexemes) /\ w # <<>> /\ \A j \in 1..Len(w) : w[j] \notin {"quote", "bs"}
    <3>1. w # <<>>
      BY <1>3 DEF Contains
    <3>2. ASSUME NEW j \in 1..Len(w) PROVE w[j] \in ToSet(w)
      BY <1>3 DEF ToSet
    <3> QED BY <1>3, <3>1, <3>2
  <2>3. v \in Tokens /\ v.text = w
    BY <1>0, <2>2, TokenIs
  <2>4. x \in Seq(Lexemes)
    <3> DEFINE one == <<"quote">>
    <3>1. one \in Seq(Lexemes)
      <4>1. "quote" \in Lexemes
        BY QueryAssumption DEF Special
      <4> QED BY <4>1
    <3> HIDE DEF one
    <3>2. one \o w \in Seq(Lexemes)
      BY <2>2, <3>1, ConcatProperties
    <3> DEFINE both == one \o w
    <3> HIDE DEF both
    <3>3. both \o one \in Seq(Lexemes)
      <4>1. both \in Seq(Lexemes)
        BY <3>2 DEF both
      <4> QED BY <3>1, <4>1, ConcatProperties
    <3> QED BY <3>3 DEF both, one
  <2>5. ASSUME NEW q \in Seq(Lexemes), NEW p \in Nat, Follows(q, p, x)
        PROVE  /\ Len(x) = Len(w) + 2 /\ p + 1 \in 1..Len(q) /\ q[p + 1] = "quote"
               /\ LexFrom(q, p + 1) = <<v>> \o LexFrom(q, p + (Len(w) + 2) + 1)
    BY <2>2, <2>5, QuotedLexes
  <2> HIDE DEF x, v
  <2>6. Lexes(x, <<v>>)
    <3> SUFFICES ASSUME NEW q \in Seq(Lexemes), NEW p \in Nat, Follows(q, p, x)
                 PROVE  LexFrom(q, p + 1) = <<v>> \o LexFrom(q, p + Len(x) + 1)
      BY DEF Lexes
    <3> QED BY <2>5, Zenon
  <2>7. ASSUME NEW q \in Seq(Lexemes), NEW p \in Nat, Follows(q, p, x)
        PROVE  p + 1 \in 1..Len(q) /\ q[p + 1] # "="
    <3>1. p + 1 \in 1..Len(q) /\ q[p + 1] = "quote"
      BY <2>5, <2>7
    <3> QED BY <3>1
  <2>8. \E v1 \in Tokens : v1.text = w /\ Lexes(x, <<v1>>)
    BY <2>3, <2>6
  <2>9. \A q \in Seq(Lexemes), p \in Nat : Follows(q, p, x) => p + 1 \in 1..Len(q) /\ q[p + 1] # "="
    BY <2>7
  <2> QED BY <2>1, <2>2, <2>4, <2>8, <2>9, Zenon DEF w
<1> QED BY <1>1, <1>2, <1>3

\* One element, then others, then the rest, in either grouping.
LEMMA OneAndOthers ==
  ASSUME NEW C, NEW x \in C, NEW s \in Seq(C), NEW r \in Seq(C)
  PROVE  <<x>> \o s \in Seq(C) /\ <<x>> \o (s \o r) = (<<x>> \o s) \o r
<1> DEFINE one == <<x>>
<1>1. one \in Seq(C)
  OBVIOUS
<1> HIDE DEF one
<1>2. one \o s \in Seq(C)
  BY <1>1, ConcatProperties
<1>3. (one \o s) \o r = one \o (s \o r)
  BY <1>1, ConcatAssociative
<1> QED BY <1>2, <1>3 DEF one

\* Two elements one by one.
LEMMA TwoInRow ==
  ASSUME NEW C, NEW x \in C, NEW y \in C
  PROVE  <<x>> \o <<y>> = <<x, y>>
<1> DEFINE s == <<x>>
           t == <<y>>
           u == <<x, y>>
<1>1. s \in Seq(C) /\ t \in Seq(C) /\ Len(s) = 1 /\ Len(t) = 1 /\ s[1] = x /\ t[1] = y
  OBVIOUS
<1>2. u \in Seq(C) /\ Len(u) = 2 /\ u[1] = x /\ u[2] = y
  OBVIOUS
<1> HIDE DEF s, t, u
<1> DEFINE st == s \o t
<1>3. /\ st \in Seq(C) /\ Len(st) = Len(s) + Len(t)
      /\ \A i \in 1..Len(s) + Len(t) : st[i] = IF i <= Len(s) THEN s[i] ELSE t[i - Len(s)]
  BY <1>1, ConcatProperties
<1> HIDE DEF st
<1>4. Len(st) = 2 /\ st[1] = x /\ st[2] = y
  <2>1. 2 - 1 = 1
    OBVIOUS
  <2> QED BY <1>1, <1>3, <2>1
<1>5. st = u
  BY <1>2, <1>3, <1>4
<1> QED BY <1>5 DEF st, s, t, u

\* Three tokens one by one before others.
LEMMA ThreeTokens ==
  ASSUME NEW x \in Tokens, NEW y \in Tokens, NEW z \in Tokens, NEW r \in Seq(Tokens)
  PROVE  <<x>> \o (<<y>> \o (<<z>> \o r)) = <<x, y, z>> \o r
<1> DEFINE s == <<z>>
           u == <<y, z>>
           xs == <<x>>
           w == <<x, y, z>>
<1>1. s \in Seq(Tokens) /\ xs \in Seq(Tokens) /\ Len(xs) = 1 /\ xs[1] = x
  OBVIOUS
<1>2. u \in Seq(Tokens) /\ Len(u) = 2 /\ u[1] = y /\ u[2] = z
  OBVIOUS
<1>3. w \in Seq(Tokens) /\ Len(w) = 3 /\ w[1] = x /\ w[2] = y /\ w[3] = z
  OBVIOUS
<1>4. <<y>> \o s = u
  BY TwoInRow
<1> HIDE DEF s, u, xs, w
<1>5. xs \o u = w
  <2> DEFINE v == xs \o u
  <2>1. /\ v \in Seq(Tokens) /\ Len(v) = Len(xs) + Len(u)
        /\ \A i \in 1..Len(xs) + Len(u) : v[i] = IF i <= Len(xs) THEN xs[i] ELSE u[i - Len(xs)]
    BY <1>1, <1>2, ConcatProperties
  <2> HIDE DEF v
  <2>2. 2 - 1 = 1 /\ 3 - 1 = 2
    OBVIOUS
  <2>3. Len(v) = 3 /\ v[1] = x /\ v[2] = y /\ v[3] = z
    BY <1>1, <1>2, <2>1, <2>2
  <2>4. v = w
    <3>1. v \in Seq(Tokens)
      BY <2>1
    <3>2. \A i \in 1..3 : v[i] = w[i]
      <4>1. \A i \in 1..3 : i = 1 \/ i = 2 \/ i = 3
        OBVIOUS
      <4> QED BY <1>3, <2>3, <4>1
    <3> QED BY <1>3, <2>3, <3>1, <3>2
  <2> QED BY <2>4 DEF v
<1>6. <<y>> \o (s \o r) = (<<y>> \o s) \o r
  <2>1. s \in Seq(Tokens)
    BY <1>1
  <2> QED BY <2>1, OneAndOthers
<1>7. xs \o (u \o r) = (xs \o u) \o r
  <2>1. u \in Seq(Tokens)
    BY <1>2
  <2> QED BY <2>1, OneAndOthers DEF xs
<1> QED BY <1>4, <1>5, <1>6, <1>7, Zenon DEF s, xs, w

\* A comparison makes three tokens, with blanks and without, but for "!=" without.
LEMMA AtomLexes ==
  ASSUME NEW a \in Atoms, ~(a.op = <<"!", "=">> /\ ~a.spaced)
  PROVE  /\ AtomText(a) \in Seq(Lexemes)
         /\ \E v \in Tokens : v.text = a.value /\
              Lexes(AtomText(a), <<Token("word", a.field), Token("op", a.op), v>>)
<1> DEFINE f == a.field
           b == IF a.spaced THEN <<"sp">> ELSE <<>>
           o == a.op
           w == ValueText(a)
           text == f \o b \o o \o b \o w
<1>1. AtomText(a) = text
  BY DEF AtomText, ValueText
<1>2. f \in Seq(Lexemes) /\ Plain(f) /\ f \notin Keywords /\ o \in Ops
  BY QueryAssumption DEF Plain
<1>3. /\ w \in Seq(Lexemes)
      /\ \A q \in Seq(Lexemes), p \in Nat : Follows(q, p, w) => p + 1 \in 1..Len(q) /\ q[p + 1] # "="
  BY ValueLexes
<1>4. PICK v \in Tokens : v.text = a.value /\ Lexes(w, <<v>>)
  BY ValueLexes
<1>5. b \in {<<>>, <<"sp">>} /\ b \in Seq(Lexemes) /\ (b = <<>> => o # <<"!", "=">>)
  <2>1. "sp" \in Lexemes
    BY QueryAssumption DEF Special, Stops
  <2>2. CASE a.spaced
    BY <2>1, <2>2
  <2>3. CASE ~a.spaced
    BY <2>3
  <2> QED BY <2>2, <2>3
<1>6. /\ o \in Seq(Lexemes) /\ Len(o) \in {1, 2} /\ (o # <<"!", "=">> => o[1] \in Stops)
  <2>1. {"=", "!", "<", ">", "~"} \subseteq Lexemes
    BY QueryAssumption DEF Special, Stops
  <2>2. \/ \E c \in {"=", "!", ">", "<"} : o = <<c, "=">>
        \/ \E c \in {"=", "~", ">", "<"} : o = <<c>>
    BY <1>2 DEF Ops
  <2>3. ASSUME NEW c \in {"=", "!", ">", "<"}, o = <<c, "=">>
        PROVE  /\ o \in Seq(Lexemes) /\ Len(o) \in {1, 2} /\ (o # <<"!", "=">> => o[1] \in Stops)
    <3>1. c \in Lexemes /\ "=" \in Lexemes
      BY <2>1
    <3>2. o \in Seq(Lexemes) /\ Len(o) = 2 /\ o[1] = c
      <4> DEFINE eq == "="
      <4> HIDE DEF eq
      <4>1. o = <<c, eq>> /\ eq \in Lexemes
        BY <2>3, <3>1 DEF eq
      <4> QED BY <3>1, <4>1
    <3>3. o # <<"!", "=">> => c \in Stops
      BY <2>3 DEF Stops
    <3> QED BY <3>2, <3>3
  <2>4. ASSUME NEW c \in {"=", "~", ">", "<"}, o = <<c>>
        PROVE  /\ o \in Seq(Lexemes) /\ Len(o) \in {1, 2} /\ (o # <<"!", "=">> => o[1] \in Stops)
    <3>1. c \in Lexemes /\ c \in Stops
      BY <2>1 DEF Stops
    <3>2. o \in Seq(Lexemes) /\ Len(o) = 1 /\ o[1] = c
      BY <2>4, <3>1
    <3> QED BY <3>1, <3>2
  <2> QED BY <2>2, <2>3, <2>4
<1> HIDE DEF b, w, text
<1>7. text \in Seq(Lexemes)
  <2> DEFINE fb == f \o b
             fbo == fb \o o
             fbob == fbo \o b
  <2> HIDE DEF f, o
  <2>1. fb \in Seq(Lexemes)
    BY <1>2, <1>5, ConcatProperties
  <2> HIDE DEF fb
  <2>2. fbo \in Seq(Lexemes)
    BY <2>1, <1>6, ConcatProperties
  <2> HIDE DEF fbo
  <2>3. fbob \in Seq(Lexemes)
    BY <2>2, <1>5, ConcatProperties
  <2> HIDE DEF fbob
  <2>4. fbob \o w \in Seq(Lexemes)
    BY <2>3, <1>3, ConcatProperties
  <2> QED BY <2>4 DEF text, fbob, fbo, fb
<1> DEFINE F == Token("word", f)
           O == Token("op", o)
<1>8. F \in Tokens /\ O \in Tokens
  <2>1. "word" \in TokenKinds /\ "op" \in TokenKinds
    BY DEF TokenKinds
  <2> HIDE DEF f, o
  <2> QED BY <1>2, <1>6, <2>1, TokenIs
<1>9. WordToken(f) = F
  BY <1>2 DEF WordToken
<1> HIDE DEF f, o, F, O
<1>10. ASSUME NEW q \in Seq(Lexemes), NEW p \in Nat, Follows(q, p, text), Ends(q, p + Len(text))
       PROVE  LexFrom(q, p + 1) = <<F, O, v>> \o LexFrom(q, p + Len(text) + 1)
  <2> DEFINE p1 == p + Len(f)
             p2 == p1 + Len(b)
             p3 == p2 + Len(o)
             p4 == p3 + Len(b)
             p5 == p4 + Len(w)
  <2>1. /\ Len(text) = Len(f) + Len(b) + Len(o) + Len(b) + Len(w)
        /\ Follows(q, p, f) /\ Follows(q, p1, b) /\ Follows(q, p2, o)
        /\ Follows(q, p3, b) /\ Follows(q, p4, w)
    <3>1. Follows(q, p, f \o b \o o \o b \o w)
      BY <1>10 DEF text
    <3>2. f \in Seq(Lexemes) /\ b \in Seq(Lexemes) /\ o \in Seq(Lexemes) /\ w \in Seq(Lexemes)
      BY <1>2, <1>3, <1>5, <1>6
    <3>3. /\ Len(f \o b \o o \o b \o w) = Len(f) + Len(b) + Len(o) + Len(b) + Len(w)
          /\ Follows(q, p, f) /\ Follows(q, p + Len(f), b)
          /\ Follows(q, p + Len(f) + Len(b), o)
          /\ Follows(q, p + Len(f) + Len(b) + Len(o), b)
          /\ Follows(q, p + Len(f) + Len(b) + Len(o) + Len(b), w)
      <4> HIDE DEF p1, p2, p3, p4, p5
      <4> QED BY <3>1, <3>2, FollowsFive, SMTT(60)
    <3> QED BY <3>3 DEF text
  <2>2. /\ p1 \in Nat /\ p2 \in Nat /\ p3 \in Nat /\ p4 \in Nat /\ p5 \in Nat
        /\ p5 = p + Len(text) /\ Len(q) \in Nat
    <3>1. Len(f) \in Nat /\ Len(b) \in Nat /\ Len(o) \in Nat /\ Len(w) \in Nat
      BY <1>2, <1>3, <1>5, <1>6
    <3>2. p + Len(text) = p + (Len(f) + Len(b) + Len(o) + Len(b) + Len(w))
      BY <2>1
    <3> QED BY <3>1, <3>2
  <2>3. b = <<"sp">> => p1 + 1 \in 1..Len(q) /\ q[p1 + 1] = "sp" /\ p3 + 1 \in 1..Len(q) /\ q[p3 + 1] = "sp"
    <3> HIDE DEF p1, p3
    <3> SUFFICES ASSUME b = <<"sp">>
                 PROVE  p1 + 1 \in 1..Len(q) /\ q[p1 + 1] = "sp" /\ p3 + 1 \in 1..Len(q) /\ q[p3 + 1] = "sp"
      OBVIOUS
    <3>1. Len(b) = 1 /\ b[1] = "sp"
      OBVIOUS
    <3> QED BY <2>1, <2>2, <3>1 DEF Follows
  <2>4. q[p1 + 1] \in Stops
    <3>1. CASE b = <<"sp">>
      BY <2>3, <3>1 DEF Stops
    <3>2. CASE b = <<>>
      <4>1. p2 = p1
        BY <2>2, <3>2
      <4> HIDE DEF p1, p2
      <4>2. q[p2 + 1] = o[1]
        BY <1>6, <2>1, <2>2 DEF Follows
      <4> QED BY <1>5, <1>6, <3>2, <4>1, <4>2
    <3> QED BY <1>5, <3>1, <3>2
  <2>5. q[p3 + 1] # "="
    <3>1. CASE b = <<"sp">>
      BY <2>3, <3>1
    <3>2. CASE b = <<>>
      <4>1. p4 = p3
        BY <2>2, <3>2
      <4> HIDE DEF p3, p4
      <4>2. q[p4 + 1] # "="
        BY <1>3, <2>1, <2>2
      <4> QED BY <4>1, <4>2
    <3> QED BY <1>5, <3>1, <3>2
  <2>6. LexFrom(q, p + 1) = <<F>> \o LexFrom(q, p1 + 1)
    <3>1. LexFrom(q, p + 1) = <<WordToken(f)>> \o LexFrom(q, p + Len(f) + 1)
      BY <1>2, <2>1, <2>4, PlainLexes
    <3> QED BY <1>9, <3>1
  <2> HIDE DEF p1
  <2>7. LexFrom(q, p1 + 1) = LexFrom(q, p2 + 1)
    BY <1>5, <2>1, <2>2, BlankLexes
  <2> HIDE DEF p2
  <2>8. LexFrom(q, p2 + 1) = <<O>> \o LexFrom(q, p3 + 1)
    <3>1. o \in Ops /\ p2 \in Nat /\ Follows(q, p2, o) /\ q[p2 + Len(o) + 1] # "="
      BY <1>2, <2>1, <2>2, <2>5
    <3>2. LexFrom(q, p2 + 1) = <<Token("op", o)>> \o LexFrom(q, p2 + Len(o) + 1)
      BY <3>1, OpLexes
    <3> QED BY <3>2 DEF O
  <2> HIDE DEF p3
  <2>9. LexFrom(q, p3 + 1) = LexFrom(q, p4 + 1)
    BY <1>5, <2>1, <2>2, BlankLexes
  <2> HIDE DEF p4
  <2>10. LexFrom(q, p4 + 1) = <<v>> \o LexFrom(q, p5 + 1)
    <3>1. Ends(q, p4 + Len(w))
      BY <1>10, <2>2
    <3>2. LexFrom(q, p4 + 1) = <<v>> \o LexFrom(q, p4 + Len(w) + 1)
      BY <1>4, <2>1, <2>2, <3>1 DEF Lexes
    <3> QED BY <3>2
  <2> DEFINE r == LexFrom(q, p5 + 1)
  <2>11. r \in Seq(Tokens)
    <3>1. p5 <= Len(q)
      BY <1>10, <2>2 DEF Follows
    <3>2. p5 + 1 \in 1..(Len(q) + 2)
      BY <2>2, <3>1
    <3> HIDE DEF p5
    <3> QED BY <3>2, LexedTyped
  <2>12. r = LexFrom(q, p + Len(text) + 1)
    BY <2>2
  <2> HIDE DEF p5, r
  <2>13. LexFrom(q, p + 1) = <<F>> \o (<<O>> \o (<<v>> \o r))
    BY <2>6, <2>7, <2>8, <2>9, <2>10, Zenon DEF r
  <2>14. <<F>> \o (<<O>> \o (<<v>> \o r)) = <<F, O, v>> \o r
    BY <1>8, <2>11, ThreeTokens, Zenon
  <2> QED BY <2>12, <2>13, <2>14
<1>11. Lexes(text, <<F, O, v>>)
  BY <1>10 DEF Lexes
<1>12. v.text = a.value /\ Lexes(AtomText(a), <<Token("word", a.field), Token("op", a.op), v>>)
  BY <1>1, <1>4, <1>11, Zenon DEF F, O, f, o
<1> QED BY <1>1, <1>7, <1>12, Zenon

\* A field's name is its own normal form.
LEMMA FieldNameIs ==
  ASSUME NEW text, Plain(text)
  PROVE  FieldName(text) = text
<1> DEFINE n == Len(text)
           seqs == [i \in 1..n |-> <<text[i]>>]
           flat == FlattenSeq(seqs)
<1>1. text \in Seq(Lexemes) /\ n \in Nat /\ \A j \in 1..n : text[j] \notin Special
  BY PlainIs
<1>2. FieldName(text) = flat
  <2>1. seqs = [i \in 1..Len(text) |-> IF text[i] \in Special THEN <<>> ELSE <<text[i]>>]
    BY <1>1
  <2> HIDE DEF seqs
  <2> QED BY <2>1 DEF FieldName
<1>3. seqs \in Seq(Seq(Lexemes)) /\ Len(seqs) = n /\ \A i \in 1..n : seqs[i] = <<text[i]>>
  <2>1. \A i \in 1..n : <<text[i]>> \in Seq(Lexemes)
    <3> SUFFICES ASSUME NEW i \in 1..n PROVE <<text[i]>> \in Seq(Lexemes)
      OBVIOUS
    <3>1. text[i] \in Lexemes
      BY <1>1
    <3> QED BY <3>1
  <2> HIDE DEF n
  <2> QED BY <1>1, <2>1
<1>4. \A i \in 1..n : Len(seqs[i]) = 1 /\ seqs[i][1] = text[i]
  <2> SUFFICES ASSUME NEW i \in 1..n PROVE Len(seqs[i]) = 1 /\ seqs[i][1] = text[i]
    OBVIOUS
  <2>1. seqs[i] = <<text[i]>>
    BY <1>3
  <2> HIDE DEF seqs, n
  <2> QED BY <2>1
<1> HIDE DEF seqs
<1>5. PICK g : Flattens(g, seqs, Lexemes)
  BY <1>3, FlattenLoop
<1>6. /\ flat \in Seq(Lexemes)
      /\ \A i \in 1..n : /\ Len(g[i - 1]) \in Nat /\ Len(g[i]) = Len(g[i - 1]) + Len(seqs[i])
                         /\ Follows(flat, Len(g[i - 1]), seqs[i])
  BY <1>3, <1>5, FlattenAt
<1>7. Len(g[0]) = 0 /\ g[n] = flat
  BY <1>3, <1>5 DEF Flattens
<1> HIDE DEF flat, n
<1> DEFINE S == {i \in 0..n : Len(g[i]) = i}
<1>8. 0 \in S
  BY <1>1, <1>7
<1>9. ASSUME NEW i \in 1..n, i - 1 \in S PROVE i \in S
  <2>1. Len(g[i]) = Len(g[i - 1]) + 1 /\ Len(g[i - 1]) = i - 1
    BY <1>4, <1>6, <1>9
  <2>2. (i - 1) + 1 = i /\ i \in 0..n
    BY <1>1
  <2> QED BY <2>1, <2>2
<1>10. 0..n \subseteq S
  <2> HIDE DEF S
  <2> QED BY <1>1, <1>8, <1>9, BoundedInduction
<1>11. \A i \in 0..n : Len(g[i]) = i
  BY <1>10
<1>12. Len(flat) = n
  <2>1. n \in 0..n
    BY <1>1
  <2> QED BY <1>7, <1>11, <2>1
<1>13. ASSUME NEW i \in 1..n PROVE flat[i] = text[i]
  <2> DEFINE k == i - 1
             one == seqs[i]
  <2>1. k \in 0..n /\ k + 1 = i /\ k \in Nat
    BY <1>1
  <2>2. Len(g[k]) = k
    BY <1>11, <2>1
  <2>3. Follows(flat, Len(g[k]), one)
    BY <1>6
  <2> HIDE DEF k, one
  <2>4. Len(one) = 1 /\ one[1] = text[i]
    BY <1>4 DEF one
  <2>5. Follows(flat, k, one)
    BY <2>2, <2>3
  <2>6. flat[k + 1] = one[1]
    BY <2>4, <2>5 DEF Follows
  <2> QED BY <2>1, <2>4, <2>6
<1>14. flat = text
  <2>1. Len(text) = n
    BY DEF n
  <2> QED BY <1>1, <1>6, <1>12, <1>13, <2>1
<1> QED BY <1>2, <1>14 DEF flat

\* What is a part of a text.
LEMMA PartIs ==
  ASSUME NEW s \in Seq(Lexemes), NEW v \in Seq(Lexemes), v # <<>>
  PROVE  (\E i \in 1..(Len(s) - Len(v) + 1) : SubSeq(s, i, i + Len(v) - 1) = v) <=> v \in SubSeqs(s)
<1> DEFINE n == Len(s)
           m == Len(v)
<1>1. n \in Nat /\ m \in Nat \ {0}
  OBVIOUS
<1>2. ASSUME NEW i \in 1..(n - m + 1), SubSeq(s, i, i + m - 1) = v PROVE v \in SubSeqs(s)
  <2> DEFINE k == i - 1
             j == i + m - 1
  <2>1. k \in 0..n /\ j \in 0..n /\ k + 1 = i
    BY <1>1
  <2> HIDE DEF k, j, n
  <2>2. SubSeq(s, k + 1, j) = v
    BY <1>2, <2>1 DEF j
  <2> QED BY <2>1, <2>2 DEF SubSeqs, n
<1>3. ASSUME v \in SubSeqs(s)
      PROVE  \E i \in 1..(n - m + 1) : SubSeq(s, i, i + m - 1) = v
  <2>1. PICK k \in 0..n, j \in 0..n : v = SubSeq(s, k + 1, j)
    BY <1>3 DEF SubSeqs
  <2> DEFINE i == k + 1
  <2>2. i \in Int /\ j \in Int /\ i \in Nat /\ j \in Nat /\ k \in Nat /\ j <= n
    OBVIOUS
  <2>3. i <= j
    <3> SUFFICES ASSUME ~(i <= j) PROVE FALSE
      OBVIOUS
    <3>1. j < i
      BY <2>2
    <3> HIDE DEF i, n
    <3>2. SubSeq(s, i, j) = <<>>
      BY <2>2, <3>1, SubSeqEmpty
    <3> QED BY <2>1, <3>2 DEF i
  <2>4. \A l \in i..j : s[l] \in Lexemes
    <3> SUFFICES ASSUME NEW l \in i..j PROVE s[l] \in Lexemes
      OBVIOUS
    <3>1. l \in 1..n
      BY <1>1, <2>2
    <3> QED BY <3>1
  <2> DEFINE cut == SubSeq(s, i, j)
  <2>5. Len(cut) = j - i + 1
    <3> HIDE DEF i, n
    <3>1. Len(SubSeq(s, i, j)) = IF i <= j THEN j - i + 1 ELSE 0
      BY <2>2, <2>4, SubSeqProperties
    <3> QED BY <2>3, <3>1
  <2>6. m = j - i + 1
    <3>1. cut = v
      BY <2>1
    <3> HIDE DEF cut
    <3> QED BY <2>5, <3>1
  <2>7. i \in 1..(n - m + 1) /\ i + m - 1 = j
    <3> HIDE DEF m, n
    <3> QED BY <1>1, <2>2, <2>3, <2>6
  <2> HIDE DEF i, m, n
  <2>8. SubSeq(s, i, i + m - 1) = v
    BY <2>1, <2>7 DEF i
  <2> QED BY <2>7, <2>8
<1> QED BY <1>2, <1>3

\* An event is compared as the atom means.
LEMMA AtomSelects ==
  ASSUME NEW a \in Atoms
  PROVE  {e \in Events : Compare(e, a.field, a.op, a.value)} = AtomMeans(a)
<1> DEFINE name == a.field
           op == a.op
           value == a.value
<1>1. /\ Plain(name) /\ op \in Ops
      /\ \A e \in Events : name \in DOMAIN e /\ e[name] \in Seq(Lexemes)
  BY QueryAssumption
<1>2. value \in Seq(Lexemes) /\ value # <<>>
  BY ValueLexes
<1>3. FieldName(name) = name
  BY <1>1, FieldNameIs
<1> DEFINE means(e) ==
     LET got == e[a.field] IN
     CASE a.op \in {<<"=">>, <<"=", "=">>} -> got = a.value
       [] a.op = <<"!", "=">> -> got # a.value
       [] a.op = <<"~">> -> a.value \in SubSeqs(got)
       [] IsOrder(a.op) ->
            /\ IsNumber(got) /\ IsNumber(a.value)
            /\ Ordered(a.op, Numbers[got[1]], Numbers[a.value[1]])
<1>4. ASSUME NEW e \in Events PROVE Compare(e, name, op, value) <=> means(e)
  <2> DEFINE got == e[name]
             part == \E i \in 1..(Len(got) - Len(value) + 1) : SubSeq(got, i, i + Len(value) - 1) = value
             numbers == IsNumber(got) /\ IsNumber(value)
             less == Ordered(op, Numbers[got[1]], Numbers[value[1]])
             inside == value \in SubSeqs(got)
  <2>1. Field(e, name) = got
    BY <1>1, <1>3 DEF Field
  <2>2. part <=> inside
    BY <1>1, <1>2, PartIs
  <2>3. Compare(e, name, op, value) <=>
          \/ op \in {<<"=">>, <<"=", "=">>} /\ got = value
          \/ op = <<"!", "=">> /\ got # value
          \/ op = <<"~">> /\ part
          \/ numbers /\ less
    BY <2>1, Zenon DEF Compare
  <2>4. less => IsOrder(op)
    BY Zenon DEF Ordered, IsOrder
  <2>5. /\ <<"=">> # <<"~">> /\ <<"=">> # <<"!", "=">> /\ <<"=", "=">> # <<"~">> /\ <<"=", "=">> # <<"!", "=">>
        /\ <<"!", "=">> # <<"~">>
    OBVIOUS
  <2>6. /\ ~IsOrder(<<"=">>) /\ ~IsOrder(<<"=", "=">>) /\ ~IsOrder(<<"!", "=">>) /\ ~IsOrder(<<"~">>)
    BY DEF IsOrder
  <2>7. op \in {<<"=">>, <<"=", "=">>} \/ op = <<"!", "=">> \/ op = <<"~">> \/ IsOrder(op)
    BY <1>1 DEF Ops, IsOrder
  <2> HIDE DEF part, numbers, less, inside, name, op, value, got
  <2>8. CASE op \in {<<"=">>, <<"=", "=">>}
    <3>1. op # <<"!", "=">> /\ op # <<"~">> /\ ~IsOrder(op)
      BY <2>5, <2>6, <2>8, Zenon
    <3>2. means(e) <=> got = value
      BY <2>8, <3>1, Zenon DEF got, name, op, value
    <3> QED BY <2>3, <2>4, <2>8, <3>1, <3>2, Zenon
  <2>9. CASE op = <<"!", "=">>
    <3>1. op \notin {<<"=">>, <<"=", "=">>} /\ op # <<"~">> /\ ~IsOrder(op)
      BY <2>5, <2>6, <2>9, Zenon
    <3>2. means(e) <=> got # value
      BY <2>9, <3>1, Zenon DEF got, name, op, value
    <3> QED BY <2>3, <2>4, <2>9, <3>1, <3>2, Zenon
  <2>10. CASE op = <<"~">>
    <3>1. op \notin {<<"=">>, <<"=", "=">>} /\ op # <<"!", "=">> /\ ~IsOrder(op)
      BY <2>5, <2>6, <2>10, Zenon
    <3>2. means(e) <=> inside
      BY <2>10, <3>1, Zenon DEF got, name, op, value, inside
    <3> QED BY <2>2, <2>3, <2>4, <2>10, <3>1, <3>2, Zenon
  <2>11. CASE IsOrder(op)
    <3>1. op \notin {<<"=">>, <<"=", "=">>} /\ op # <<"!", "=">> /\ op # <<"~">>
      BY <2>6, <2>11, Zenon
    <3>2. means(e) <=> numbers /\ less
      BY <2>11, <3>1, Zenon DEF got, name, op, value, numbers, less
    <3> QED BY <2>3, <3>1, <3>2, Zenon
  <2>12. Compare(e, name, op, value) <=> means(e)
    <3> HIDE DEF means
    <3> QED BY <2>7, <2>8, <2>9, <2>10, <2>11
  <2> QED BY <2>12, Zenon DEF name, op, value
<1>5. AtomMeans(a) = {e \in Events : means(e)}
  BY DEF AtomMeans
<1>6. {e \in Events : Compare(e, name, op, value)} = {e \in Events : means(e)}
  <2> HIDE DEF means
  <2> QED BY <1>4
<1> HIDE DEF means
<1> QED BY <1>5, <1>6

\* A comparison is written in lexemes.
LEMMA AtomTextIs ==
  ASSUME NEW a \in Atoms
  PROVE  AtomText(a) \in Seq(Lexemes)
<1> DEFINE f == a.field
           b == IF a.spaced THEN <<"sp">> ELSE <<>>
           o == a.op
           w == ValueText(a)
<1>1. AtomText(a) = f \o b \o o \o b \o w
  BY DEF AtomText, ValueText
<1>2. f \in Seq(Lexemes) /\ w \in Seq(Lexemes) /\ b \in Seq(Lexemes) /\ o \in Seq(Lexemes)
  <2>1. f \in Seq(Lexemes) /\ w \in Seq(Lexemes)
    BY QueryAssumption, ValueLexes DEF Plain
  <2>2. b \in Seq(Lexemes)
    <3>1. "sp" \in Lexemes
      BY QueryAssumption DEF Special, Stops
    <3> QED BY <3>1
  <2>3. o \in Seq(Lexemes)
    <3>1. {"=", "!", "<", ">", "~"} \subseteq Lexemes
      BY QueryAssumption DEF Special, Stops
    <3>2. \E c \in {"=", "!", "<", ">", "~"}, d \in {"=", "!", "<", ">", "~"} : o = <<c, d>> \/ o = <<c>>
      BY QueryAssumption DEF Ops
    <3>3. PICK c \in Lexemes, d \in Lexemes : o = <<c, d>> \/ o = <<c>>
      BY <3>1, <3>2
    <3>4. <<c, d>> \in Seq(Lexemes) /\ <<c>> \in Seq(Lexemes)
      OBVIOUS
    <3> HIDE DEF o
    <3> QED BY <3>3, <3>4
  <2> QED BY <2>1, <2>2, <2>3
<1> DEFINE fb == f \o b
           fbo == fb \o o
           fbob == fbo \o b
<1> HIDE DEF f, o, b, w
<1>3. fb \in Seq(Lexemes)
  BY <1>2, ConcatProperties
<1> HIDE DEF fb
<1>4. fbo \in Seq(Lexemes)
  BY <1>2, <1>3, ConcatProperties
<1> HIDE DEF fbo
<1>5. fbob \in Seq(Lexemes)
  BY <1>2, <1>4, ConcatProperties
<1> HIDE DEF fbob
<1>6. fbob \o w \in Seq(Lexemes)
  BY <1>2, <1>5, ConcatProperties
<1> QED BY <1>1, <1>6 DEF fbob, fbo, fb

\* A keyword and the blank after it make one token.
LEMMA KeywordLexes ==
  ASSUME NEW q \in Seq(Lexemes), NEW p \in Nat, NEW word \in {"and", "or", "not"},
         q[p + 1] = word, p + 2 <= Len(q), q[p + 2] = "sp"
  PROVE  LexFrom(q, p + 1) = <<KeywordToken(word)>> \o LexFrom(q, p + 3)
<1> DEFINE w == <<word>>
           i == p + 2
<1>1. w \in Seq(Lexemes) /\ w # <<>> /\ Len(w) = 1 /\ w[1] = word
  <2>1. word \in Lexemes
    BY QueryAssumption
  <2> QED BY <2>1
<1>2. w \in Keywords
  BY DEF Keywords
<1>3. WordToken(w) = KeywordToken(word)
  BY <1>1, <1>2, Zenon DEF WordToken, KeywordToken, w
<1> HIDE DEF w
<1>4. Plain(w)
  <2>1. ToSet(w) = {word}
    BY <1>1 DEF ToSet
  <2>2. word \notin Special
    BY DEF Special, Stops
  <2> QED BY <1>1, <2>1, <2>2 DEF Plain
<1>5. Follows(q, p, w) /\ p + Len(w) + 1 = i
  BY <1>1 DEF Follows
<1>6. i \in 1..Len(q) /\ q[i] = "sp" /\ i + 1 = p + 3
  OBVIOUS
<1> HIDE DEF i
<1>7. LexFrom(q, p + 1) = <<WordToken(w)>> \o LexFrom(q, p + Len(w) + 1)
  <2>1. q[p + Len(w) + 1] \in Stops
    BY <1>5, <1>6 DEF Stops
  <2> QED BY <1>4, <1>5, <2>1, PlainLexes
<1>8. LexFrom(q, i) = LexFrom(q, i + 1)
  BY <1>6, LexedBlank
<1> QED BY <1>3, <1>5, <1>6, <1>7, <1>8, Zenon

\* "not" before a text.
LEMMA NotLexes ==
  ASSUME NEW x \in Seq(Lexemes), NEW toks \in Seq(Tokens), Lexes(x, toks)
  PROVE  /\ <<"not", "sp">> \o x \in Seq(Lexemes)
         /\ Lexes(<<"not", "sp">> \o x, <<KeywordToken("not")>> \o toks)
<1> DEFINE s == <<"not", "sp">>
           text == s \o x
           w == KeywordToken("not")
<1>1. s \in Seq(Lexemes) /\ Len(s) = 2 /\ s[1] = "not" /\ s[2] = "sp"
  <2>1. "not" \in Lexemes /\ "sp" \in Lexemes
    BY QueryAssumption DEF Special, Stops
  <2> QED BY <2>1
<1> HIDE DEF s
<1>2. text \in Seq(Lexemes) /\ Len(text) = Len(s) + Len(x)
  BY <1>1, ConcatProperties
<1>3. w \in Tokens
  BY KeywordIs
<1> HIDE DEF w
<1>4. ASSUME NEW q \in Seq(Lexemes), NEW p \in Nat, Follows(q, p, text), Ends(q, p + Len(text))
      PROVE  LexFrom(q, p + 1) = (<<w>> \o toks) \o LexFrom(q, p + Len(text) + 1)
  <2>1. Follows(q, p, s) /\ Follows(q, p + 2, x) /\ Len(x) \in Nat /\ Len(q) \in Nat
    <3>1. s \in Seq(Lexemes)
      BY <1>1
    <3>2. Follows(q, p, s) /\ Follows(q, p + Len(s), x)
      BY <1>4, <3>1, FollowsParts
    <3> QED BY <1>1, <3>2
  <2>2. q[p + 1] = "not" /\ p + 2 <= Len(q) /\ q[p + 2] = "sp"
    BY <1>1, <2>1 DEF Follows
  <2>3. LexFrom(q, p + 1) = <<w>> \o LexFrom(q, p + 3)
    BY <2>2, KeywordLexes DEF w
  <2> DEFINE m == p + 2
             e == m + Len(x)
  <2>4. m \in Nat /\ m + 1 = p + 3 /\ e = p + Len(text) /\ e \in Nat
    <3> HIDE DEF text
    <3> QED BY <1>1, <1>2, <2>1
  <2>5. LexFrom(q, m + 1) = toks \o LexFrom(q, e + 1)
    <3> HIDE DEF m
    <3>1. Follows(q, m, x) /\ Ends(q, m + Len(x))
      BY <1>4, <2>1, <2>4 DEF m
    <3> QED BY <2>4, <3>1 DEF Lexes
  <2> DEFINE r == LexFrom(q, e + 1)
  <2>6. r \in Seq(Tokens)
    <3>1. e <= Len(q)
      BY <1>4, <2>4 DEF Follows
    <3> HIDE DEF e
    <3>2. e + 1 \in 1..(Len(q) + 2)
      BY <2>1, <2>4, <3>1
    <3> QED BY <3>2, LexedTyped
  <2>7. r = LexFrom(q, p + Len(text) + 1)
    BY <2>4
  <2> HIDE DEF e, r, m, text
  <2>8. <<w>> \o (toks \o r) = (<<w>> \o toks) \o r
    BY <1>3, <2>6, OneAndOthers
  <2> QED BY <2>3, <2>4, <2>5, <2>7, <2>8, Zenon DEF r
<1>5. Lexes(text, <<w>> \o toks)
  BY <1>4 DEF Lexes
<1> QED BY <1>2, <1>5 DEF s, w

\* Parentheses around a text.
LEMMA WrappedLexes ==
  ASSUME NEW x \in Seq(Lexemes), NEW toks \in Seq(Tokens), Lexes(x, toks)
  PROVE  /\ <<"(">> \o x \o <<")">> \in Seq(Lexemes)
         /\ Lexes(<<"(">> \o x \o <<")">>,
                  <<KeywordToken("(")>> \o (toks \o <<KeywordToken(")")>>))
<1> DEFINE s == <<"(">>
           z == <<")">>
           left == s \o x
           text == left \o z
           w == KeywordToken("(")
           v == KeywordToken(")")
<1>1. /\ s \in Seq(Lexemes) /\ Len(s) = 1 /\ s[1] = "("
      /\ z \in Seq(Lexemes) /\ Len(z) = 1 /\ z[1] = ")"
  <2>1. "(" \in Lexemes /\ ")" \in Lexemes
    BY QueryAssumption DEF Special, Stops
  <2> QED BY <2>1
<1> HIDE DEF s, z
<1>2. left \in Seq(Lexemes) /\ Len(left) = Len(s) + Len(x)
  BY <1>1, ConcatProperties
<1> HIDE DEF left
<1>3. text \in Seq(Lexemes) /\ Len(text) = Len(left) + Len(z)
  BY <1>1, <1>2, ConcatProperties
<1>4. w \in Tokens /\ v \in Tokens
  BY KeywordIs
<1>5. w = Token("(", <<"(">>) /\ v = Token(")", <<")">>)
  BY DEF KeywordToken
<1> HIDE DEF w, v
<1>6. ASSUME NEW q \in Seq(Lexemes), NEW p \in Nat, Follows(q, p, text)
      PROVE  LexFrom(q, p + 1) = (<<w>> \o (toks \o <<v>>)) \o LexFrom(q, p + Len(text) + 1)
  <2> DEFINE m == p + 1
             e == m + Len(x)
             i == e + 1
  <2>0. Len(q) \in Nat /\ Len(x) \in Nat
    OBVIOUS
  <2>1. Follows(q, p, left) /\ Follows(q, e, z) /\ m \in Nat /\ e \in Nat
    <3>1. left \in Seq(Lexemes) /\ z \in Seq(Lexemes)
      BY <1>1, <1>2
    <3>2. Follows(q, p, left) /\ Follows(q, p + Len(left), z)
      BY <1>6, <3>1, FollowsParts
    <3>3. p + Len(left) = e
      BY <1>1, <1>2, <2>0
    <3> QED BY <2>0, <3>2, <3>3
  <2>2. Follows(q, p, s) /\ Follows(q, m, x)
    <3>1. s \in Seq(Lexemes) /\ Follows(q, p, s \o x)
      BY <1>1, <2>1 DEF left
    <3>2. Follows(q, p, s) /\ Follows(q, p + Len(s), x)
      BY <3>1, FollowsParts
    <3> QED BY <1>1, <3>2
  <2>3. m \in 1..Len(q) /\ q[m] = "("
    BY <1>1, <2>2 DEF Follows
  <2>4. i \in 1..Len(q) /\ q[i] = ")" /\ i + 1 = p + Len(text) + 1
    <3>1. i \in 1..Len(q) /\ q[i] = ")"
      <4> HIDE DEF e
      <4> QED BY <1>1, <2>0, <2>1 DEF Follows
    <3>2. i + 1 = p + Len(text) + 1
      <4> HIDE DEF text
      <4> QED BY <1>1, <1>2, <1>3, <2>0
    <3> QED BY <3>1, <3>2
  <2>5. LexFrom(q, m) = <<w>> \o LexFrom(q, m + 1)
    <3>1. q[m] # "sp" /\ q[m] \in {"(", ")"}
      BY <2>3
    <3> HIDE DEF m
    <3>2. LexFrom(q, m) = <<Token(q[m], <<q[m]>>)>> \o LexFrom(q, m + 1)
      BY <2>3, <3>1, LexedParenthesis
    <3> QED BY <1>5, <2>3, <3>2, Zenon
  <2>6. LexFrom(q, i) = <<v>> \o LexFrom(q, i + 1)
    <3>1. q[i] # "sp" /\ q[i] \in {"(", ")"}
      BY <2>4
    <3> HIDE DEF i
    <3>2. LexFrom(q, i) = <<Token(q[i], <<q[i]>>)>> \o LexFrom(q, i + 1)
      BY <2>4, <3>1, LexedParenthesis
    <3> QED BY <1>5, <2>4, <3>2, Zenon
  <2>7. LexFrom(q, m + 1) = toks \o LexFrom(q, i)
    <3>1. Ends(q, e)
      BY <2>4 DEF Ends
    <3> HIDE DEF m
    <3> QED BY <2>1, <2>2, <3>1 DEF Lexes
  <2> DEFINE r == LexFrom(q, i + 1)
  <2>8. r \in Seq(Tokens)
    <3>1. i + 1 \in 1..(Len(q) + 2)
      BY <2>0, <2>4
    <3> HIDE DEF i
    <3> QED BY <3>1, LexedTyped
  <2>9. r = LexFrom(q, p + Len(text) + 1)
    BY <2>4
  <2> HIDE DEF r, m, e, i
  <2> DEFINE one == <<v>>
             tail == toks \o one
  <2>10. one \in Seq(Tokens)
    BY <1>4
  <2> HIDE DEF one, text
  <2>11. tail \in Seq(Tokens) /\ tail \o r = toks \o (one \o r)
    BY <2>8, <2>10, ConcatProperties, ConcatAssociative
  <2> HIDE DEF tail
  <2>12. <<w>> \o (tail \o r) = (<<w>> \o tail) \o r
    <3>1. tail \in Seq(Tokens)
      BY <2>11
    <3> QED BY <1>4, <2>8, <3>1, OneAndOthers
  <2>13. LexFrom(q, m) = (<<w>> \o tail) \o r
    BY <2>5, <2>6, <2>7, <2>11, <2>12, Zenon DEF one, r
  <2> QED BY <2>9, <2>13, Zenon DEF tail, one, m
<1>7. Lexes(text, <<w>> \o (toks \o <<v>>))
  BY <1>6 DEF Lexes
<1> QED BY <1>3, <1>7 DEF text, left, s, z, w, v

\* Tokens behind tokens, in any grouping.
LEMMA TokensJoin ==
  \A a, b, c \in Seq(Tokens) : (a \o b) \o c = a \o (b \o c)
BY ConcatAssociative

\* "and" or "or" between two texts.
LEMMA BinaryLexes ==
  ASSUME NEW x \in Seq(Lexemes), NEW y \in Seq(Lexemes), NEW tx \in Seq(Tokens), NEW ty \in Seq(Tokens),
         Lexes(x, tx), Lexes(y, ty), NEW word \in {"and", "or"}
  PROVE  /\ x \o <<"sp", word, "sp">> \o y \in Seq(Lexemes)
         /\ Lexes(x \o <<"sp", word, "sp">> \o y, tx \o (<<KeywordToken(word)>> \o ty))
<1> DEFINE s == <<"sp", word, "sp">>
           left == x \o s
           text == left \o y
           w == KeywordToken(word)
<1>1. /\ s \in Seq(Lexemes) /\ Len(s) = 3 /\ s[1] = "sp" /\ s[2] = word /\ s[3] = "sp"
  <2>1. "sp" \in Lexemes /\ word \in Lexemes
    BY QueryAssumption DEF Special, Stops
  <2> QED BY <2>1
<1> HIDE DEF s
<1>2. left \in Seq(Lexemes) /\ Len(left) = Len(x) + Len(s)
  BY <1>1, ConcatProperties
<1> HIDE DEF left
<1>3. text \in Seq(Lexemes) /\ Len(text) = Len(left) + Len(y)
  BY <1>2, ConcatProperties
<1>4. w \in Tokens
  BY KeywordIs
<1> HIDE DEF w
<1>5. ASSUME NEW q \in Seq(Lexemes), NEW p \in Nat, Follows(q, p, text), Ends(q, p + Len(text))
      PROVE  LexFrom(q, p + 1) = (tx \o (<<w>> \o ty)) \o LexFrom(q, p + Len(text) + 1)
  <2> DEFINE m == p + Len(x)
             k == m + 1
             e == m + 3
  <2>0. Len(q) \in Nat /\ Len(x) \in Nat /\ Len(y) \in Nat /\ m \in Nat /\ k \in Nat /\ e \in Nat
    OBVIOUS
  <2>1. Follows(q, p, left) /\ Follows(q, e, y)
    <3>1. left \in Seq(Lexemes)
      BY <1>2
    <3>2. Follows(q, p, left) /\ Follows(q, p + Len(left), y)
      BY <1>5, <3>1, FollowsParts
    <3>3. p + Len(left) = e
      BY <1>1, <1>2, <2>0
    <3> QED BY <3>2, <3>3
  <2>2. Follows(q, p, x) /\ Follows(q, m, s)
    <3>1. s \in Seq(Lexemes) /\ Follows(q, p, x \o s)
      BY <1>1, <2>1 DEF left
    <3> QED BY <3>1, FollowsParts
  <2>3. k \in 1..Len(q) /\ q[k] = "sp" /\ q[k + 1] = word /\ k + 2 <= Len(q) /\ q[k + 2] = "sp"
    <3> HIDE DEF m
    <3>1. m + 3 <= Len(q) /\ q[m + 1] = "sp" /\ q[m + 2] = word /\ q[m + 3] = "sp"
      BY <1>1, <2>0, <2>2 DEF Follows
    <3>2. k + 1 = m + 2 /\ k + 2 = m + 3
      BY <2>0
    <3> QED BY <2>0, <3>1, <3>2
  <2>4. LexFrom(q, p + 1) = tx \o LexFrom(q, k)
    <3>1. Ends(q, p + Len(x))
      BY <2>3 DEF Ends
    <3> QED BY <2>2, <3>1 DEF Lexes
  <2>5. LexFrom(q, k) = LexFrom(q, k + 1)
    <3> HIDE DEF k
    <3> QED BY <2>3, LexedBlank
  <2>6. LexFrom(q, k + 1) = <<w>> \o LexFrom(q, e + 1)
    <3>1. k + 3 = e + 1 /\ word \in {"and", "or", "not"}
      BY <2>0
    <3> HIDE DEF k, e
    <3>2. LexFrom(q, k + 1) = <<KeywordToken(word)>> \o LexFrom(q, k + 3)
      BY <2>0, <2>3, <3>1, KeywordLexes
    <3> QED BY <3>1, <3>2 DEF w
  <2> DEFINE d == e + Len(y)
             r == LexFrom(q, d + 1)
  <2>7. d = p + Len(text) /\ d \in Nat
    <3> HIDE DEF text
    <3> QED BY <1>1, <1>2, <1>3, <2>0
  <2>8. LexFrom(q, e + 1) = ty \o r
    <3>1. Ends(q, e + Len(y))
      BY <1>5, <2>7
    <3> HIDE DEF e
    <3> QED BY <2>0, <2>1, <3>1 DEF Lexes
  <2>9. r \in Seq(Tokens)
    <3>1. d <= Len(q)
      BY <1>5, <2>7 DEF Follows
    <3> HIDE DEF d
    <3>2. d + 1 \in 1..(Len(q) + 2)
      BY <2>0, <2>7, <3>1
    <3> QED BY <3>2, LexedTyped
  <2>10. r = LexFrom(q, p + Len(text) + 1)
    BY <2>7
  <2> HIDE DEF r, d, m, k, e, text
  <2> DEFINE tail == <<w>> \o ty
  <2>11. tail \in Seq(Tokens) /\ <<w>> \o (ty \o r) = tail \o r
    BY <1>4, <2>9, OneAndOthers
  <2> HIDE DEF tail
  <2>12. (tx \o tail) \o r = tx \o (tail \o r)
    <3>1. tail \in Seq(Tokens)
      BY <2>11
    <3>2. tx \in Seq(Tokens) /\ r \in Seq(Tokens)
      BY <2>9
    <3> QED BY <3>1, <3>2, TokensJoin, Zenon
  <2>13. LexFrom(q, p + 1) = (tx \o tail) \o r
    BY <2>4, <2>5, <2>6, <2>8, <2>11, <2>12, Zenon
  <2> QED BY <2>10, <2>13, Zenon DEF tail
<1>6. Lexes(text, tx \o (<<w>> \o ty))
  BY <1>5 DEF Lexes
<1> QED BY <1>3, <1>6 DEF text, left, s, w

-----------------------------------------------------------------------------
(* What the queries read as.                                               *)

\* A text whose tokens the rule takes, to select sel.
AsPrimary(text, sel) ==
  \E toks \in Seq(Tokens) : toks # <<>> /\ Lexes(text, toks) /\ Primary(toks, sel)
AsConj(text, sel) ==
  \E toks \in Seq(Tokens) : toks # <<>> /\ Lexes(text, toks) /\ Conj(toks, sel)
AsExpr(text, sel) ==
  \E toks \in Seq(Tokens) : toks # <<>> /\ Lexes(text, toks) /\ Expr(toks, sel)

\* A query reads as what it means, at its level.
Reads(x) ==
  /\ x.level = "primary" => AsPrimary(x.text, x.means)
  /\ x.level = "conj" => AsConj(x.text, x.means)
  /\ x.level = "expr" => AsExpr(x.text, x.means)

\* The queries that can be written.
Queries == [text : Seq(Lexemes), means : SUBSET Events, level : {"primary", "conj", "expr"},
            tight : BOOLEAN]

\* What reads as a primary reads as a conjunction, and that as an expression.
LEMMA ReadsUp ==
  ASSUME NEW text, NEW sel
  PROVE  /\ AsPrimary(text, sel) => AsConj(text, sel)
         /\ AsConj(text, sel) => AsExpr(text, sel)
<1>1. ASSUME AsPrimary(text, sel) PROVE AsConj(text, sel)
  <2>1. PICK toks \in Seq(Tokens) : toks # <<>> /\ Lexes(text, toks) /\ Primary(toks, sel)
    BY <1>1 DEF AsPrimary
  <2>2. Conj(toks, sel)
    BY <2>1, ConjOne
  <2> QED BY <2>1, <2>2 DEF AsConj
<1>2. ASSUME AsConj(text, sel) PROVE AsExpr(text, sel)
  <2>1. PICK toks \in Seq(Tokens) : toks # <<>> /\ Lexes(text, toks) /\ Conj(toks, sel)
    BY <1>2 DEF AsConj
  <2>2. Expr(toks, sel)
    BY <2>1, ExprOne
  <2> QED BY <2>1, <2>2 DEF AsExpr
<1> QED BY <1>1, <1>2

\* What joins tokens is not empty.
LEMMA NotEmpty ==
  ASSUME NEW x \in Seq(Tokens), NEW y \in Seq(Tokens), x # <<>> \/ y # <<>>
  PROVE  x \o y # <<>>
BY ConcatEqualIffEmpty

\* A comparison reads as it means.
LEMMA AtomReads ==
  ASSUME NEW a \in Atoms
  PROVE  AtomQuery(a) \in Queries /\ (~AtomQuery(a).tight => Reads(AtomQuery(a)))
<1> DEFINE x == AtomQuery(a)
<1>1. /\ x.text = AtomText(a) /\ x.means = AtomMeans(a) /\ x.level = "primary"
      /\ x.tight = (a.op = <<"!", "=">> /\ ~a.spaced)
  BY DEF AtomQuery
<1>2. x \in Queries
  <2>1. AtomText(a) \in Seq(Lexemes)
    BY AtomTextIs
  <2>2. AtomMeans(a) \in SUBSET Events
    BY DEF AtomMeans
  <2>3. (a.op = <<"!", "=">> /\ ~a.spaced) \in BOOLEAN
    OBVIOUS
  <2> QED BY <2>1, <2>2, <2>3 DEF AtomQuery, Queries
<1>3. ASSUME ~(a.op = <<"!", "=">> /\ ~a.spaced) PROVE AsPrimary(AtomText(a), AtomMeans(a))
  <2>1. PICK v \in Tokens : v.text = a.value /\
          Lexes(AtomText(a), <<Token("word", a.field), Token("op", a.op), v>>)
    BY <1>3, AtomLexes
  <2> DEFINE toks == <<Token("word", a.field), Token("op", a.op), v>>
             sel == {e \in Events : Compare(e, a.field, a.op, v.text)}
  <2>2. toks \in Seq(Tokens) /\ Primary(toks, sel)
    <3>1. a.field \in Seq(Lexemes) /\ a.field # <<"not">>
      BY QueryAssumption DEF Plain, Keywords
    <3>2. a.op \in Seq(Lexemes)
      <4>1. {"=", "!", "<", ">", "~"} \subseteq Lexemes
        BY QueryAssumption DEF Special, Stops
      <4>2. \E c \in {"=", "!", "<", ">", "~"}, d \in {"=", "!", "<", ">", "~"} :
              a.op = <<c, d>> \/ a.op = <<c>>
        BY QueryAssumption DEF Ops
      <4> DEFINE o == a.op
      <4>3. PICK c \in Lexemes, d \in Lexemes : o = <<c, d>> \/ o = <<c>>
        BY <4>1, <4>2
      <4>4. <<c, d>> \in Seq(Lexemes) /\ <<c>> \in Seq(Lexemes)
        OBVIOUS
      <4> HIDE DEF o
      <4>5. o \in Seq(Lexemes)
        BY <4>3, <4>4
      <4> QED BY <4>5 DEF o
    <3> QED BY <3>1, <3>2, ComparisonIs
  <2>3. toks # <<>>
    OBVIOUS
  <2>4. sel = AtomMeans(a)
    <3>1. sel = {e \in Events : Compare(e, a.field, a.op, a.value)}
      BY <2>1
    <3> HIDE DEF sel
    <3> QED BY <3>1, AtomSelects
  <2> HIDE DEF toks, sel
  <2>5. Lexes(AtomText(a), toks)
    BY <2>1 DEF toks
  <2> QED BY <2>2, <2>3, <2>4, <2>5 DEF AsPrimary
<1> HIDE DEF x
<1>4. ~x.tight => Reads(x)
  BY <1>1, <1>3 DEF Reads
<1> QED BY <1>2, <1>4 DEF x

\* A text in parentheses reads as the text.
LEMMA WrappedReads ==
  ASSUME NEW x \in Queries
  PROVE  Wrapped(x) \in Seq(Lexemes) /\ (Reads(x) => AsPrimary(Wrapped(x), x.means))
<1> DEFINE text == x.text
           sel == x.means
<1>1. text \in Seq(Lexemes) /\ x.level \in {"primary", "conj", "expr"}
  BY DEF Queries
<1>2. Wrapped(x) = <<"(">> \o text \o <<")">>
  BY DEF Wrapped
<1>3. <<"(">> \o text \o <<")">> \in Seq(Lexemes)
  <2> DEFINE s == <<"(">>
             z == <<")">>
             left == s \o text
  <2>1. "(" \in Lexemes /\ ")" \in Lexemes
    BY QueryAssumption DEF Special, Stops
  <2>2. s \in Seq(Lexemes) /\ z \in Seq(Lexemes)
    BY <2>1
  <2> HIDE DEF s, z, text
  <2>3. left \in Seq(Lexemes)
    BY <1>1, <2>2, ConcatProperties
  <2> HIDE DEF left
  <2>4. left \o z \in Seq(Lexemes)
    BY <2>2, <2>3, ConcatProperties
  <2> QED BY <2>4 DEF left, s, z
<1>4. ASSUME Reads(x) PROVE AsPrimary(Wrapped(x), sel)
  <2>1. AsExpr(text, sel)
    <3>1. /\ x.level = "primary" => AsPrimary(text, sel)
          /\ x.level = "conj" => AsConj(text, sel)
          /\ x.level = "expr" => AsExpr(text, sel)
      BY <1>4 DEF Reads
    <3> HIDE DEF text, sel
    <3> QED BY <1>1, <3>1, ReadsUp
  <2> HIDE DEF text, sel
  <2>2. PICK toks \in Seq(Tokens) : toks # <<>> /\ Lexes(text, toks) /\ Expr(toks, sel)
    BY <2>1 DEF AsExpr
  <2> DEFINE w == KeywordToken("(")
             v == KeywordToken(")")
             tail == toks \o <<v>>
             all == <<w>> \o tail
  <2>3. Lexes(<<"(">> \o text \o <<")">>, all)
    BY <1>1, <2>2, WrappedLexes
  <2>4. all \in Seq(Tokens) /\ Primary(all, sel)
    BY <2>2, GroupIs
  <2>5. all # <<>>
    <3>1. w \in Tokens /\ v \in Tokens
      BY KeywordIs
    <3> DEFINE one == <<w>>
               last == <<v>>
    <3>2. one \in Seq(Tokens) /\ one # <<>> /\ last \in Seq(Tokens)
      BY <3>1
    <3> HIDE DEF w, v, one, last
    <3>3. toks \o last \in Seq(Tokens)
      BY <3>2, ConcatProperties
    <3> DEFINE rest == toks \o last
    <3> HIDE DEF rest
    <3>4. rest \in Seq(Tokens)
      BY <3>3 DEF rest
    <3>5. one \o rest # <<>>
      BY <3>2, <3>4, NotEmpty
    <3> QED BY <3>5 DEF rest, one, last
  <2> HIDE DEF all
  <2> QED BY <1>2, <2>3, <2>4, <2>5 DEF AsPrimary
<1> QED BY <1>2, <1>3, <1>4 DEF sel

\* An operand of "not" reads as its query.
LEMMA OperandPrimary ==
  ASSUME NEW x \in Queries
  PROVE  /\ Operand(x, {"primary"}) \in Seq(Lexemes)
         /\ Reads(x) => AsPrimary(Operand(x, {"primary"}), x.means)
<1>1. x.text \in Seq(Lexemes)
  BY DEF Queries
<1>2. CASE x.level \in {"primary"}
  BY <1>1, <1>2 DEF Operand, Reads
<1>3. CASE x.level \notin {"primary"}
  BY <1>3, WrappedReads DEF Operand
<1> QED BY <1>2, <1>3

\* An operand of "and" reads as its query.
LEMMA OperandConj ==
  ASSUME NEW x \in Queries
  PROVE  /\ Operand(x, {"primary", "conj"}) \in Seq(Lexemes)
         /\ Reads(x) => AsConj(Operand(x, {"primary", "conj"}), x.means)
<1>1. x.text \in Seq(Lexemes)
  BY DEF Queries
<1>2. CASE x.level = "primary"
  <2>1. Operand(x, {"primary", "conj"}) = x.text
    BY <1>2 DEF Operand
  <2>2. Reads(x) => AsPrimary(x.text, x.means)
    BY <1>2 DEF Reads
  <2> QED BY <1>1, <2>1, <2>2, ReadsUp
<1>3. CASE x.level = "conj"
  <2>1. Operand(x, {"primary", "conj"}) = x.text
    BY <1>3 DEF Operand
  <2>2. Reads(x) => AsConj(x.text, x.means)
    BY <1>3 DEF Reads
  <2> QED BY <1>1, <2>1, <2>2
<1>4. CASE x.level \notin {"primary", "conj"}
  <2>1. Operand(x, {"primary", "conj"}) = Wrapped(x)
    BY <1>4 DEF Operand
  <2>2. Wrapped(x) \in Seq(Lexemes) /\ (Reads(x) => AsPrimary(Wrapped(x), x.means))
    BY WrappedReads
  <2> QED BY <2>1, <2>2, ReadsUp
<1> QED BY <1>2, <1>3, <1>4

\* An operand of "or" is the query as it is.
LEMMA OperandExpr ==
  ASSUME NEW x \in Queries, Reads(x)
  PROVE  AsExpr(x.text, x.means)
<1>1. x.level \in {"primary", "conj", "expr"}
  BY DEF Queries
<1> QED BY <1>1, ReadsUp DEF Reads

\* Two conjunctions with "and" between them select what both select.
LEMMA AndReads ==
  ASSUME NEW x \in Seq(Lexemes), NEW y \in Seq(Lexemes), NEW a, NEW b, AsConj(x, a), AsConj(y, b)
  PROVE  AsConj(x \o <<"sp", "and", "sp">> \o y, a \cap b)
<1>1. PICK tx \in Seq(Tokens) : tx # <<>> /\ Lexes(x, tx) /\ Conj(tx, a)
  BY DEF AsConj
<1>2. PICK ty \in Seq(Tokens) : ty # <<>> /\ Lexes(y, ty) /\ Conj(ty, b)
  BY DEF AsConj
<1> DEFINE toks == tx \o (<<KeywordToken("and")>> \o ty)
           text == x \o <<"sp", "and", "sp">> \o y
<1>3. toks \in Seq(Tokens) /\ Conj(toks, a \cap b)
  BY <1>1, <1>2, AndIs
<1>4. Lexes(text, toks)
  <2>1. "and" \in {"and", "or"}
    OBVIOUS
  <2> DEFINE word == "and"
  <2> HIDE DEF word
  <2>2. word \in {"and", "or"}
    BY <2>1 DEF word
  <2>3. Lexes(x \o <<"sp", word, "sp">> \o y, tx \o (<<KeywordToken(word)>> \o ty))
    BY <1>1, <1>2, <2>2, BinaryLexes
  <2> QED BY <2>3 DEF word
<1>5. toks # <<>>
  <2>1. KeywordToken("and") \in Tokens
    BY KeywordIs
  <2> DEFINE one == <<KeywordToken("and")>>
  <2>2. one \in Seq(Tokens)
    BY <2>1
  <2> HIDE DEF one
  <2>3. one \o ty \in Seq(Tokens)
    BY <2>2, ConcatProperties
  <2> DEFINE rest == one \o ty
  <2> HIDE DEF rest
  <2>4. rest \in Seq(Tokens) /\ tx # <<>>
    BY <1>1, <2>3 DEF rest
  <2>5. tx \o rest # <<>>
    BY <2>4, NotEmpty
  <2> QED BY <2>5 DEF rest, one
<1> HIDE DEF toks, text
<1>6. AsConj(text, a \cap b)
  BY <1>3, <1>4, <1>5 DEF AsConj
<1> QED BY <1>6 DEF text

\* Two expressions with "or" between them select what either selects.
LEMMA OrReads ==
  ASSUME NEW x \in Seq(Lexemes), NEW y \in Seq(Lexemes), NEW a, NEW b, AsExpr(x, a), AsExpr(y, b)
  PROVE  AsExpr(x \o <<"sp", "or", "sp">> \o y, a \cup b)
<1>1. PICK tx \in Seq(Tokens) : tx # <<>> /\ Lexes(x, tx) /\ Expr(tx, a)
  BY DEF AsExpr
<1>2. PICK ty \in Seq(Tokens) : ty # <<>> /\ Lexes(y, ty) /\ Expr(ty, b)
  BY DEF AsExpr
<1> DEFINE toks == tx \o (<<KeywordToken("or")>> \o ty)
           text == x \o <<"sp", "or", "sp">> \o y
<1>3. toks \in Seq(Tokens) /\ Expr(toks, a \cup b)
  BY <1>1, <1>2, OrIs
<1>4. Lexes(text, toks)
  <2>1. "or" \in {"and", "or"}
    OBVIOUS
  <2> DEFINE word == "or"
  <2> HIDE DEF word
  <2>2. word \in {"and", "or"}
    BY <2>1 DEF word
  <2>3. Lexes(x \o <<"sp", word, "sp">> \o y, tx \o (<<KeywordToken(word)>> \o ty))
    BY <1>1, <1>2, <2>2, BinaryLexes
  <2> QED BY <2>3 DEF word
<1>5. toks # <<>>
  <2>1. KeywordToken("or") \in Tokens
    BY KeywordIs
  <2> DEFINE one == <<KeywordToken("or")>>
  <2>2. one \in Seq(Tokens)
    BY <2>1
  <2> HIDE DEF one
  <2>3. one \o ty \in Seq(Tokens)
    BY <2>2, ConcatProperties
  <2> DEFINE rest == one \o ty
  <2> HIDE DEF rest
  <2>4. rest \in Seq(Tokens) /\ tx # <<>>
    BY <1>1, <2>3 DEF rest
  <2>5. tx \o rest # <<>>
    BY <2>4, NotEmpty
  <2> QED BY <2>5 DEF rest, one
<1> HIDE DEF toks, text
<1>6. AsExpr(text, a \cup b)
  BY <1>3, <1>4, <1>5 DEF AsExpr
<1> QED BY <1>6 DEF text

\* A text with "not" before it.
LEMMA NotReads ==
  ASSUME NEW x \in Seq(Lexemes), NEW a, AsPrimary(x, a)
  PROVE  AsPrimary(<<"not", "sp">> \o x, Events \ a)
<1>1. PICK tx \in Seq(Tokens) : tx # <<>> /\ Lexes(x, tx) /\ Primary(tx, a)
  BY DEF AsPrimary
<1> DEFINE one == <<KeywordToken("not")>>
           toks == one \o tx
           text == <<"not", "sp">> \o x
<1>2. toks \in Seq(Tokens) /\ Primary(toks, Events \ a)
  BY <1>1, NotIs
<1>3. Lexes(text, toks)
  BY <1>1, NotLexes
<1>4. toks # <<>>
  <2>1. one \in Seq(Tokens)
    <3>1. KeywordToken("not") \in Tokens
      BY KeywordIs
    <3> QED BY <3>1
  <2> HIDE DEF one
  <2> QED BY <1>1, <2>1, NotEmpty
<1> HIDE DEF toks, text
<1>5. AsPrimary(text, Events \ a)
  BY <1>2, <1>3, <1>4 DEF AsPrimary
<1> QED BY <1>5 DEF text

\* The texts that the steps make are made of lexemes.
LEMMA JoinedTexts ==
  ASSUME NEW x \in Seq(Lexemes), NEW y \in Seq(Lexemes), NEW word \in {"and", "or"}
  PROVE  /\ x \o <<"sp", word, "sp">> \o y \in Seq(Lexemes)
         /\ <<"not", "sp">> \o x \in Seq(Lexemes)
<1> DEFINE s == <<"sp", word, "sp">>
           z == <<"not", "sp">>
           left == x \o s
<1>1. s \in Seq(Lexemes) /\ z \in Seq(Lexemes)
  <2>1. "sp" \in Lexemes /\ word \in Lexemes /\ "not" \in Lexemes
    BY QueryAssumption DEF Special, Stops
  <2> QED BY <2>1
<1> HIDE DEF s, z
<1>2. left \in Seq(Lexemes) /\ z \o x \in Seq(Lexemes)
  BY <1>1, ConcatProperties
<1> HIDE DEF left
<1>3. left \o y \in Seq(Lexemes)
  BY <1>2, ConcatProperties
<1> QED BY <1>2, <1>3 DEF left, s, z

\* A query that reads as it means selects what it means.
LEMMA ReadsSelects ==
  ASSUME NEW x \in Queries, Reads(x)
  PROVE  Selected(x.text) = x.means
<1> DEFINE text == x.text
           sel == x.means
<1>1. text \in Seq(Lexemes) /\ AsExpr(text, sel)
  BY OperandExpr DEF Queries
<1> HIDE DEF text, sel
<1>2. PICK toks \in Seq(Tokens) : toks # <<>> /\ Lexes(text, toks) /\ Expr(toks, sel)
  BY <1>1 DEF AsExpr
<1>3. Lex(text) = toks
  <2>1. 0 \in Nat /\ 0 + 1 = 1 /\ 0 + Len(text) = Len(text) /\ Len(text) \in Nat
    BY <1>1
  <2>2. Follows(text, 0, text) /\ Ends(text, 0 + Len(text))
    BY <2>1 DEF Follows, Ends
  <2>3. LexFrom(text, 0 + 1) = toks \o LexFrom(text, 0 + Len(text) + 1)
    BY <1>1, <1>2, <2>1, <2>2 DEF Lexes
  <2>4. LexFrom(text, Len(text) + 1) = <<>>
    BY <1>1, LexedEnd
  <2>5. toks \o <<>> = toks
    BY ConcatEmptySeq
  <2>6. LexFrom(text, 1) = toks \o <<>>
    BY <2>1, <2>3, <2>4, Zenon
  <2> QED BY <2>5, <2>6, Zenon DEF Lex
<1>4. Parse(toks).selects = sel
  <2> DEFINE e == Len(toks) + 1
  <2>1. 0 \in Nat /\ 0 + 1 = 1 /\ 0 + Len(toks) + 1 = e /\ Len(toks) \in Nat /\ ~(e <= Len(toks))
    OBVIOUS
  <2>2. Follows(toks, 0, toks)
    BY <2>1 DEF Follows
  <2>3. ~Text(toks, e, "and") /\ ~Text(toks, e, "or")
    BY <2>1 DEF Text
  <2> HIDE DEF e
  <2>4. ~Text(toks, 0 + Len(toks) + 1, "and") =>
          ParseFrom(toks, "expr", 0 + 1) =
            IF Text(toks, 0 + Len(toks) + 1, "or")
            THEN [selects |-> sel \cup ParseFrom(toks, "expr", 0 + Len(toks) + 1 + 1).selects,
                  next |-> ParseFrom(toks, "expr", 0 + Len(toks) + 1 + 1).next]
            ELSE [selects |-> sel, next |-> 0 + Len(toks) + 1]
    BY <1>2, <2>1, <2>2, Zenon DEF Expr
  <2>5. ParseFrom(toks, "expr", 1) = [selects |-> sel, next |-> e]
    BY <2>1, <2>3, <2>4, Zenon
  <2>6. Parse(toks) = [selects |-> sel, next |-> e]
    BY <2>5, Zenon DEF Parse
  <2> QED BY <2>6
<1>5. Selected(text) = sel
  BY <1>2, <1>3, <1>4, Zenon DEF Selected
<1> QED BY <1>5 DEF text, sel

\* A query is one, and reads as it means unless it has "!=" without blanks.
QueryInv == query \in Queries /\ (~query.tight => Reads(query))

\* A single comparison reads as it means.
LEMMA QueryInitInv == QueryInit => QueryInv
<1> SUFFICES ASSUME QueryInit PROVE QueryInv
  OBVIOUS
<1>1. PICK a \in Atoms : query = AtomQuery(a)
  BY DEF QueryInit
<1>2. AtomQuery(a) \in Queries /\ (~AtomQuery(a).tight => Reads(AtomQuery(a)))
  BY AtomReads
<1> QED BY <1>1, <1>2, Zenon DEF QueryInv

\* Two queries joined by "and", whichever comes first.
LEMMA AndInv ==
  ASSUME NEW x \in Queries, NEW y \in Queries, ~x.tight => Reads(x), ~y.tight => Reads(y), And(x, y)
  PROVE  QueryInv'
<1> DEFINE tx == Operand(x, {"primary", "conj"})
           ty == Operand(y, {"primary", "conj"})
           text == tx \o <<"sp", "and", "sp">> \o ty
           sel == x.means \cap y.means
           tight == x.tight \/ y.tight
<1>1. query' = [text |-> text, means |-> sel, level |-> "conj", tight |-> tight]
  BY DEF And
<1>2. tx \in Seq(Lexemes) /\ ty \in Seq(Lexemes)
  BY OperandConj
<1>3. text \in Seq(Lexemes)
  <2>1. "and" \in {"and", "or"}
    OBVIOUS
  <2> DEFINE word == "and"
  <2> HIDE DEF word, tx, ty
  <2>2. tx \o <<"sp", word, "sp">> \o ty \in Seq(Lexemes)
    BY <1>2, <2>1, JoinedTexts DEF word
  <2> QED BY <2>2 DEF word
<1>4. sel \in SUBSET Events /\ tight \in BOOLEAN
  BY DEF Queries
<1>5. ASSUME ~tight PROVE AsConj(text, sel)
  <2>1. Reads(x) /\ Reads(y)
    BY <1>5
  <2>2. AsConj(tx, x.means) /\ AsConj(ty, y.means)
    BY <2>1, OperandConj
  <2> HIDE DEF tx, ty
  <2> QED BY <1>2, <2>2, AndReads
<1> HIDE DEF text, sel, tight
<1>6. /\ query'.text = text /\ query'.means = sel /\ query'.level = "conj" /\ query'.tight = tight
  BY <1>1
<1>7. query' \in Queries
  BY <1>1, <1>3, <1>4 DEF Queries
<1>8. ~query'.tight => Reads(query')
  <2>1. "conj" # "primary" /\ "conj" # "expr"
    OBVIOUS
  <2> QED BY <1>5, <1>6, <2>1, Zenon DEF Reads
<1> QED BY <1>7, <1>8 DEF QueryInv

\* Two queries joined by "or", whichever comes first.
LEMMA OrInv ==
  ASSUME NEW x \in Queries, NEW y \in Queries, ~x.tight => Reads(x), ~y.tight => Reads(y), Or(x, y)
  PROVE  QueryInv'
<1> DEFINE tx == x.text
           ty == y.text
           text == tx \o <<"sp", "or", "sp">> \o ty
           sel == x.means \cup y.means
           tight == x.tight \/ y.tight
<1>1. query' = [text |-> text, means |-> sel, level |-> "expr", tight |-> tight]
  BY DEF Or
<1>2. tx \in Seq(Lexemes) /\ ty \in Seq(Lexemes)
  BY DEF Queries
<1>3. text \in Seq(Lexemes)
  <2>1. "or" \in {"and", "or"}
    OBVIOUS
  <2> DEFINE word == "or"
  <2> HIDE DEF word, tx, ty
  <2>2. tx \o <<"sp", word, "sp">> \o ty \in Seq(Lexemes)
    BY <1>2, <2>1, JoinedTexts DEF word
  <2> QED BY <2>2 DEF word
<1>4. sel \in SUBSET Events /\ tight \in BOOLEAN
  BY DEF Queries
<1>5. ASSUME ~tight PROVE AsExpr(text, sel)
  <2>1. Reads(x) /\ Reads(y)
    BY <1>5
  <2>2. AsExpr(tx, x.means) /\ AsExpr(ty, y.means)
    BY <2>1, OperandExpr
  <2> HIDE DEF tx, ty
  <2> QED BY <1>2, <2>2, OrReads
<1> HIDE DEF text, sel, tight
<1>6. /\ query'.text = text /\ query'.means = sel /\ query'.level = "expr" /\ query'.tight = tight
  BY <1>1
<1>7. query' \in Queries
  BY <1>1, <1>3, <1>4 DEF Queries
<1>8. ~query'.tight => Reads(query')
  <2>1. "expr" # "primary" /\ "expr" # "conj"
    OBVIOUS
  <2> QED BY <1>5, <1>6, <2>1, Zenon DEF Reads
<1> QED BY <1>7, <1>8 DEF QueryInv

\* A query behind "not".
LEMMA NegateInv ==
  ASSUME QueryInv, Negate
  PROVE  QueryInv'
<1> DEFINE inner == Operand(query, {"primary"})
           text == <<"not", "sp">> \o inner
           sel == Events \ query.means
<1>1. query \in Queries /\ (~query.tight => Reads(query))
  BY DEF QueryInv
<1>2. query' = [query EXCEPT !.text = text, !.means = sel, !.level = "primary"]
  BY DEF Negate
<1>3. inner \in Seq(Lexemes) /\ (Reads(query) => AsPrimary(inner, query.means))
  BY <1>1, OperandPrimary
<1>4. text \in Seq(Lexemes)
  <2> HIDE DEF inner
  <2>1. "and" \in {"and", "or"}
    OBVIOUS
  <2> QED BY <1>3, <2>1, JoinedTexts
<1>5. Reads(query) => AsPrimary(text, sel)
  <2> HIDE DEF inner
  <2> QED BY <1>3, NotReads
<1> HIDE DEF text, sel
<1>6. sel \in SUBSET Events
  BY DEF sel
<1>7. /\ query'.text = text /\ query'.means = sel /\ query'.level = "primary"
      /\ query'.tight = query.tight /\ query' \in Queries
  BY <1>1, <1>2, <1>4, <1>6 DEF Queries
<1>8. ~query'.tight => Reads(query')
  <2>1. "primary" # "conj" /\ "primary" # "expr"
    OBVIOUS
  <2> QED BY <1>1, <1>5, <1>7, <2>1, Zenon DEF Reads
<1> QED BY <1>7, <1>8 DEF QueryInv

\* A query in parentheses.
LEMMA ParenthesizeInv ==
  ASSUME QueryInv, Parenthesize
  PROVE  QueryInv'
<1> DEFINE text == Wrapped(query)
           sel == query.means
<1>1. query \in Queries /\ (~query.tight => Reads(query))
  BY DEF QueryInv
<1>2. query' = [query EXCEPT !.text = text, !.level = "primary"]
  BY DEF Parenthesize
<1>3. text \in Seq(Lexemes) /\ (Reads(query) => AsPrimary(text, sel))
  BY <1>1, WrappedReads
<1> HIDE DEF text
<1>4. /\ query'.text = text /\ query'.means = sel /\ query'.level = "primary"
      /\ query'.tight = query.tight /\ query' \in Queries
  BY <1>1, <1>2, <1>3 DEF Queries
<1>5. ~query'.tight => Reads(query')
  <2>1. "primary" # "conj" /\ "primary" # "expr"
    OBVIOUS
  <2> QED BY <1>1, <1>3, <1>4, <2>1, Zenon DEF Reads
<1> QED BY <1>4, <1>5 DEF QueryInv

\* Every step keeps it.
LEMMA QueryStep == QueryInv /\ [QueryNext]_query => QueryInv'
<1> SUFFICES ASSUME QueryInv, [QueryNext]_query PROVE QueryInv'
  OBVIOUS
<1>0. query \in Queries /\ (~query.tight => Reads(query))
  BY DEF QueryInv
<1>1. CASE Negate
  BY <1>1, NegateInv
<1>2. CASE Parenthesize
  BY <1>2, ParenthesizeInv
<1>3. ASSUME NEW a \in Atoms,
             \/ And(query, AtomQuery(a)) \/ And(AtomQuery(a), query)
             \/ Or(query, AtomQuery(a)) \/ Or(AtomQuery(a), query)
      PROVE  QueryInv'
  <2>1. AtomQuery(a) \in Queries /\ (~AtomQuery(a).tight => Reads(AtomQuery(a)))
    BY AtomReads
  <2> DEFINE x == AtomQuery(a)
  <2> HIDE DEF x
  <2>2. x \in Queries /\ (~x.tight => Reads(x))
    BY <2>1 DEF x
  <2>3. And(query, x) => QueryInv'
    BY <1>0, <2>2, AndInv
  <2>4. And(x, query) => QueryInv'
    BY <1>0, <2>2, AndInv
  <2>5. Or(query, x) => QueryInv'
    BY <1>0, <2>2, OrInv
  <2>6. Or(x, query) => QueryInv'
    BY <1>0, <2>2, OrInv
  <2> QED BY <1>3, <2>3, <2>4, <2>5, <2>6 DEF x
<1>4. CASE UNCHANGED query
  BY <1>4, Zenon DEF QueryInv, Reads
<1> QED BY <1>1, <1>2, <1>3, <1>4 DEF QueryNext

\* A query selects the events it means, whatever its comparisons and however deep
\* it nests.
THEOREM SelectsAsMeantHolds == QuerySpec => []SelectsAsMeant
<1>1. QueryInv => SelectsAsMeant
  BY ReadsSelects DEF QueryInv, SelectsAsMeant
<1> QED BY <1>1, QueryInitInv, QueryStep, PTL DEF QuerySpec
================================================================================

---------------------------- MODULE StoreFileProofs ----------------------------
(***************************************************************************)
(* StoreFile for every set of paths, ids and drafts, every field limit and *)
(* every bound on the number of events: its safety, and that it implements *)
(* RecordStore, step by step.                                              *)
(***************************************************************************)
EXTENDS StoreFile, StoreImageProofs

-----------------------------------------------------------------------------
(* Where the pages of an image end, and what its beginnings are as files.  *)

\* The images within the bound on the number of events.
LEMMA ImagesAre ==
  /\ Images \subseteq Seq(Event)
  /\ \A es \in Seq(Event) : Len(es) <= MaxEvents => es \in Images
  /\ \A es \in Images : Len(es) <= MaxEvents
<1>1. Images = UNION {[1..m -> Event] : m \in 0..MaxEvents}
  BY DEF Images, BoundedSeq, SeqOf
<1>2. ASSUME NEW es \in Images PROVE es \in Seq(Event) /\ Len(es) <= MaxEvents
  <2>1. PICK m \in 0..MaxEvents : es \in [1..m -> Event]
    BY <1>1
  <2>2. m \in Nat /\ m <= MaxEvents
    BY StoreFileAssumption
  <2>3. es \in Seq(Event) /\ Len(es) = m
    BY <2>1, <2>2
  <2> QED BY <2>2, <2>3
<1>3. ASSUME NEW es \in Seq(Event), Len(es) <= MaxEvents PROVE es \in Images
  <2>1. Len(es) \in 0..MaxEvents
    BY <1>3, StoreFileAssumption
  <2>2. es \in [1..Len(es) -> Event]
    OBVIOUS
  <2> QED BY <1>1, <2>1, <2>2
<1> QED BY <1>2, <1>3

\* ImageEnd adds up the bytes of the pages.
LEMMA ImageEndIs ==
  ASSUME NEW es \in Seq(Event), NEW k \in 0..Len(es)
  PROVE  ImageEnd(es, k) = End(es, k)
<1> DEFINE turns(f) ==
             [i \in 0..k |-> IF i = 0 THEN Len(Header) ELSE f[i - 1] + Sizes[es[i]].page]
           h == [i \in 0..k |-> End(es, i)]
           f == CHOOSE g : g = turns(g)
<1>1. k \in Nat /\ Len(es) \in Nat /\ k <= Len(es)
  OBVIOUS
<1>2. ASSUME NEW i \in 1..k PROVE h[i] = h[i - 1] + Sizes[es[i]].page
  <2>1. i \in 1..Len(es) /\ i - 1 \in 0..k /\ i \in 0..k
    BY <1>1
  <2>2. es[i] \in Event
    BY <2>1
  <2>3. Sizes[es[i]].page = Len(Pages[es[i]])
    BY <2>2 DEF Sizes, Pages
  <2>4. End(es, i) = End(es, i - 1) + Len(Pages[es[i]])
    BY <2>1, EndStep
  <2> QED BY <2>1, <2>3, <2>4
<1>3. h[0] = Len(Header)
  BY <1>1, EndStep
<1>4. h = turns(h)
  <2>1. \A i \in 0..k : i # 0 => i \in 1..k
    BY <1>1
  <2>2. h = [i \in 0..k |-> h[i]]
    OBVIOUS
  <2> HIDE DEF h
  <2> QED BY <1>2, <1>3, <2>1, <2>2
<1>5. f = turns(f)
  <2> HIDE DEF turns, h
  <2> QED BY <1>4
<1>6. ImageEnd(es, k) = f[k]
  BY DEF ImageEnd
<1> HIDE DEF f
<1>7. f[0] = Len(Header) /\ \A i \in 1..k : f[i] = f[i - 1] + Sizes[es[i]].page
  <2>1. 0 \in 0..k /\ \A i \in 1..k : i \in 0..k /\ i # 0
    BY <1>1
  <2> QED BY <1>5, <2>1
<1> HIDE DEF h, turns
<1> DEFINE S == {i \in Nat : i <= k => f[i] = h[i]}
<1>8. 0 \in S
  BY <1>3, <1>7
<1>9. ASSUME NEW i \in Nat, i \in S PROVE i + 1 \in S
  <2> SUFFICES ASSUME i + 1 <= k PROVE f[i + 1] = h[i + 1]
    OBVIOUS
  <2>1. i + 1 \in 1..k /\ (i + 1) - 1 = i /\ i <= k
    BY <1>1
  <2>2. f[i] = h[i]
    BY <1>9, <2>1
  <2>3. f[i + 1] = f[(i + 1) - 1] + Sizes[es[i + 1]].page
    BY <1>7, <2>1
  <2>4. h[i + 1] = h[(i + 1) - 1] + Sizes[es[i + 1]].page
    BY <1>2, <2>1
  <2> QED BY <2>1, <2>2, <2>3, <2>4
<1>10. Nat \subseteq S
  <2> HIDE DEF S
  <2> QED BY <1>8, <1>9, SetInduction
<1>11. f[k] = h[k]
  BY <1>1, <1>10
<1> QED BY <1>1, <1>6, <1>11 DEF h

\* The tail that a file of size bytes has behind its k whole pages.
TailAfter(size, es, k) ==
  IF size <= End(es, k) THEN "none"
  ELSE IF ~(End(es, k) + Len(LengthBytes(es[k + 1])) <= size) THEN "varint"
  ELSE "page"

EmptyFile == [header |-> FALSE, pages |-> <<>>, tail |-> "none"]

\* A beginning of an image that lacks a byte of the header is an empty file.
LEMMA CutInHeader ==
  ASSUME NEW es \in Seq(Event), NEW size \in Nat, ~(Len(Header) <= size)
  PROVE  CutAt(es, size) = EmptyFile
<1>1. ASSUME NEW k \in 0..Len(es) PROVE ~(ImageEnd(es, k) <= size)
  <2>1. ImageEnd(es, k) = End(es, k) /\ End(es, k) \in Nat
    BY ImageEndIs, EndStep
  <2>2. k = 0 \/ 0 < k
    OBVIOUS
  <2>3. 0 \in 0..Len(es)
    OBVIOUS
  <2>4. End(es, 0) = Len(Header) /\ (k = 0 \/ End(es, 0) < End(es, k))
    BY <2>2, <2>3, EndStep, EndsGrow
  <2>5. Len(Header) \in Nat
    BY ImageAssumption
  <2> QED BY <2>1, <2>4, <2>5
<1>2. {k \in 0..Len(es) : ImageEnd(es, k) <= size} = {}
  BY <1>1
<1> QED BY <1>2 DEF CutAt, EmptyFile

\* A longer one is the pages that are whole and a tail.
LEMMA CutInPages ==
  ASSUME NEW es \in Seq(Event), NEW size \in Nat, NEW k \in 0..Len(es),
         WholePages(size, es, k), size <= Len(Image(es))
  PROVE  CutAt(es, size) =
           [header |-> TRUE, pages |-> SubSeq(es, 1, k), tail |-> TailAfter(size, es, k)]
<1> DEFINE whole == {j \in 0..Len(es) : ImageEnd(es, j) <= size}
           last  == CHOOSE j \in whole : \A i \in whole : i <= j
           rest(j) == size - ImageEnd(es, j)
           tail(j) == IF rest(j) = 0 THEN "none"
                      ELSE IF rest(j) < Sizes[es[j + 1]].length THEN "varint" ELSE "page"
<1>1. Len(es) \in Nat /\ k \in Nat
  OBVIOUS
<1>2. ImageEnd(es, k) = End(es, k) /\ End(es, k) \in Nat /\ End(es, k) <= size
  BY ImageEndIs, EndStep DEF WholePages
<1>3. k \in whole
  BY <1>2
<1>4. ASSUME NEW j \in whole PROVE j <= k
  <2> SUFFICES ASSUME k < j PROVE FALSE
    BY <1>1
  <2>1. j \in 0..Len(es) /\ ImageEnd(es, j) <= size /\ k < Len(es) /\ k + 1 \in 0..Len(es)
        /\ (j = k + 1 \/ k + 1 < j)
    BY <1>1
  <2>2. ImageEnd(es, j) = End(es, j) /\ End(es, j) \in Nat /\ End(es, k + 1) \in Nat
    BY <2>1, ImageEndIs, EndStep
  <2>3. j = k + 1 \/ End(es, k + 1) < End(es, j)
    BY <2>1, EndsGrow
  <2>4. ~(End(es, k + 1) <= size)
    BY <2>1 DEF WholePages
  <2> QED BY <2>1, <2>2, <2>3, <2>4
<1>5. last = k
  <2>1. \A j \in whole : j \in Nat
    BY <1>1
  <2> HIDE DEF whole
  <2>2. \E j \in whole : \A i \in whole : i <= j
    BY <1>3, <1>4
  <2>3. last \in whole /\ \A i \in whole : i <= last
    BY <2>2
  <2>4. k <= last /\ last <= k
    BY <1>3, <1>4, <2>3
  <2> HIDE DEF last
  <2> QED BY <1>1, <2>1, <2>3, <2>4
<1>6. whole # {}
  BY <1>3
<1>7. CutAt(es, size) =
        [header |-> TRUE, pages |-> SubSeq(es, 1, last), tail |-> tail(last)]
  <2> QED BY <1>6 DEF CutAt
<1>8. tail(k) = TailAfter(size, es, k)
  <2>1. CASE size <= End(es, k)
    <3>1. rest(k) = 0
      BY <1>2, <2>1
    <3> QED BY <2>1, <3>1 DEF TailAfter
  <2>2. CASE ~(size <= End(es, k))
    <3>1. k + 1 \in 1..Len(es)
      <4> SUFFICES ASSUME k = Len(es) PROVE FALSE
        BY <1>1
      <4>1. End(es, k) = Len(Image(es))
        BY EndStep
      <4> QED BY <1>2, <2>2, <4>1
    <3> DEFINE ln == Len(LengthBytes(es[k + 1]))
    <3>2. Sizes[es[k + 1]].length = ln /\ ln \in Nat
      <4>1. es[k + 1] \in Event
        BY <3>1
      <4> QED BY <4>1, PageParts DEF Sizes, LengthBytes
    <3> HIDE DEF ln
    <3>3. rest(k) # 0 /\ (rest(k) < ln <=> ~(End(es, k) + ln <= size))
      BY <1>2, <2>2, <3>2
    <3> QED BY <2>2, <3>2, <3>3 DEF TailAfter, ln
  <2> QED BY <2>1, <2>2
<1> QED BY <1>5, <1>7, <1>8

\* A beginning of an image is a file of whole pages, and the whole of it one with all
\* its pages.
LEMMA CutType ==
  ASSUME NEW es \in Seq(Event), NEW size \in Nat, size <= Len(Image(es))
  PROVE  /\ CutAt(es, size) \in File
         /\ CutAt(es, size).header <=> Len(Header) <= size
         /\ Len(Header) <= size =>
              \E k \in 0..Len(es) :
                /\ WholePages(size, es, k)
                /\ CutAt(es, size) =
                     [header |-> TRUE, pages |-> SubSeq(es, 1, k), tail |-> TailAfter(size, es, k)]
                /\ Len(SubSeq(es, 1, k)) = k
<1>1. CASE ~(Len(Header) <= size)
  <2>1. CutAt(es, size) = EmptyFile
    BY <1>1, CutInHeader
  <2>2. EmptyFile \in File /\ ~EmptyFile.header
    BY DEF EmptyFile, File
  <2> QED BY <1>1, <2>1, <2>2
<1>2. CASE Len(Header) <= size
  <2>1. PICK k \in 0..Len(es) : WholePages(size, es, k)
    BY <1>2, WholePagesExist
  <2> DEFINE f == [header |-> TRUE, pages |-> SubSeq(es, 1, k), tail |-> TailAfter(size, es, k)]
  <2>2. CutAt(es, size) = f
    BY <2>1, CutInPages
  <2>3. k \in Nat /\ k <= Len(es) /\ Len(es) \in Nat
    OBVIOUS
  <2>4. SubSeq(es, 1, k) \in Seq(Event) /\ Len(SubSeq(es, 1, k)) = k
    BY <2>3, SubSeqProperties
  <2>5. TailAfter(size, es, k) \in {"none", "varint", "page"}
    BY DEF TailAfter
  <2>6. f \in File /\ f.header
    BY <2>4, <2>5 DEF File
  <2> HIDE DEF f
  <2>7. \E j \in 0..Len(es) :
          /\ WholePages(size, es, j)
          /\ CutAt(es, size) =
               [header |-> TRUE, pages |-> SubSeq(es, 1, j), tail |-> TailAfter(size, es, j)]
          /\ Len(SubSeq(es, 1, j)) = j
    BY <2>1, <2>2, <2>4 DEF f
  <2> QED BY <1>2, <2>2, <2>6, <2>7
<1> QED BY <1>1, <1>2

\* The pages of an image do not all stand before its end.
LEMMA PagesLeft ==
  ASSUME NEW es \in Seq(Event), NEW size \in Nat, size < Len(Image(es)),
         NEW k \in 0..Len(es), WholePages(size, es, k)
  PROVE  LET ln == Len(LengthBytes(es[k + 1])) IN
         /\ k < Len(es) /\ k + 1 \in 0..Len(es) /\ es[k + 1] \in Event
         /\ End(es, k) \in Nat /\ End(es, k) <= size
         /\ End(es, k + 1) \in Nat /\ size < End(es, k + 1)
         /\ ln \in Nat \ {0} /\ End(es, k) + ln < End(es, k + 1)
<1>1. Len(es) \in Nat /\ k \in Nat /\ End(es, k) \in Nat /\ End(es, k) <= size
  BY EndStep DEF WholePages
<1>2. k < Len(es)
  <2> SUFFICES ASSUME k = Len(es) PROVE FALSE
    BY <1>1
  <2>1. \E j \in 0..Len(es) : WholePages(size, es, j)
    OBVIOUS
  <2>2. End(es, k) = Len(Image(es))
    BY EndStep
  <2> QED BY <1>1, <2>2
<1>3. k + 1 \in 0..Len(es) /\ k + 1 \in 1..Len(es) /\ (k + 1) - 1 = k
  BY <1>1, <1>2
<1>4. es[k + 1] \in Event
  BY <1>3
<1> DEFINE ln == Len(LengthBytes(es[k + 1]))
           pg == Len(Pages[es[k + 1]])
<1>5. ln \in Nat \ {0} /\ pg \in Nat /\ ln < pg
  BY <1>4, PageParts
<1>6. End(es, k + 1) \in Nat /\ End(es, k + 1) = End(es, (k + 1) - 1) + pg
  BY <1>3, EndStep
<1>7. ~(End(es, k + 1) <= size)
  BY <1>2 DEF WholePages
<1> HIDE DEF ln, pg
<1>8. size < End(es, k + 1) /\ End(es, k) + ln < End(es, k + 1)
  BY <1>1, <1>3, <1>5, <1>6, <1>7
<1> QED BY <1>1, <1>2, <1>3, <1>4, <1>5, <1>6, <1>8 DEF ln

\* What a byte more of the image of es makes of the file f: nothing that a load could
\* tell, a whole header, a length that is begun or whole, or a whole page.
Grows(f, g, es) ==
  \/ g = f
  \/ ~f.header /\ g = [f EXCEPT !.header = TRUE]
  \/ /\ f.header /\ Len(f.pages) < Len(es)
     /\ \/ f.tail = "none" /\ \E t \in {"varint", "page"} : g = [f EXCEPT !.tail = t]
        \/ f.tail = "varint" /\ g = [f EXCEPT !.tail = "page"]
        \/ /\ f.tail = "page"
           /\ g = [f EXCEPT !.pages = Append(@, es[Len(@) + 1]), !.tail = "none"]

\* The parts of a file that a write changes.
LEMMA FileParts ==
  ASSUME NEW f \in File, NEW es
  PROVE  /\ [f EXCEPT !.header = TRUE] = [header |-> TRUE, pages |-> f.pages, tail |-> f.tail]
         /\ \A t : [f EXCEPT !.tail = t] = [header |-> f.header, pages |-> f.pages, tail |-> t]
         /\ [f EXCEPT !.pages = Append(@, es[Len(@) + 1]), !.tail = "none"] =
              [header |-> f.header, pages |-> Append(f.pages, es[Len(f.pages) + 1]), tail |-> "none"]
<1>1. ASSUME NEW h
      PROVE  [f EXCEPT !.header = h] = [header |-> h, pages |-> f.pages, tail |-> f.tail]
  BY DEF File
<1>2. ASSUME NEW t
      PROVE  [f EXCEPT !.tail = t] = [header |-> f.header, pages |-> f.pages, tail |-> t]
  BY DEF File
<1>3. ASSUME NEW p
      PROVE  [f EXCEPT !.pages = p, !.tail = "none"] =
               [header |-> f.header, pages |-> p, tail |-> "none"]
  <2> DEFINE g == [f EXCEPT !.pages = p]
  <2>1. g \in [header: BOOLEAN, pages: {p}, tail: {"none", "varint", "page"}]
    BY DEF File
  <2>2. g.header = f.header /\ g.pages = p
    BY DEF File
  <2> HIDE DEF g
  <2>3. [g EXCEPT !.tail = "none"] = [header |-> g.header, pages |-> g.pages, tail |-> "none"]
    BY <2>1
  <2>4. [g EXCEPT !.tail = "none"] = [header |-> f.header, pages |-> p, tail |-> "none"]
    BY <2>2, <2>3
  <2> QED BY <2>4 DEF g
<1>4. [f EXCEPT !.header = TRUE] = [header |-> TRUE, pages |-> f.pages, tail |-> f.tail]
  BY <1>1
<1> QED BY <1>2, <1>3, <1>4

\* And the file had not been the whole image.
LEMMA CutGrows ==
  ASSUME NEW es \in Seq(Event), NEW size \in Nat, size < Len(Image(es)),
         NEW f, f = CutAt(es, size), NEW g, g = CutAt(es, size + 1)
  PROVE  /\ Grows(f, g, es)
         /\ ~(f.header /\ f.tail = "none" /\ Len(f.pages) = Len(es))
<1> DEFINE next == size + 1
<1>1. /\ next \in Nat /\ size <= Len(Image(es)) /\ next <= Len(Image(es))
      /\ Len(Header) \in Nat /\ Len(es) \in Nat
  BY ImageType, ImageAssumption
<1> f \in File
  BY <1>1, CutType
<1>2. CASE ~(Len(Header) <= size)
  <2>1. f = EmptyFile
    BY <1>2, CutInHeader
  <2>2. CASE ~(Len(Header) <= next)
    <3>1. g = EmptyFile
      BY <1>1, <2>2, CutInHeader
    <3>2. g = f
      BY <2>1, <3>1
    <3>3. ~f.header
      BY <2>1 DEF EmptyFile
    <3> QED BY <3>2, <3>3 DEF Grows
  <2>3. CASE Len(Header) <= next
    <3>1. PICK k \in 0..Len(es) : WholePages(next, es, k)
      BY <1>1, <2>3, WholePagesExist
    <3>2. next = Len(Header) /\ End(es, 0) = Len(Header) /\ 0 \in 0..Len(es)
      BY <1>1, <1>2, <2>3, EndStep
    <3>3. k = 0
      <4> SUFFICES ASSUME 0 < k PROVE FALSE
        OBVIOUS
      <4>1. End(es, 0) < End(es, k) /\ End(es, k) \in Nat /\ End(es, k) <= next
        BY <3>1, <3>2, EndsGrow, EndStep DEF WholePages
      <4> QED BY <1>1, <3>2, <4>1
    <3>4. g = [header |-> TRUE, pages |-> SubSeq(es, 1, 0), tail |-> TailAfter(next, es, 0)]
      BY <1>1, <3>1, <3>3, CutInPages
    <3>5. TailAfter(next, es, 0) = "none"
      BY <1>1, <3>2 DEF TailAfter
    <3>6. SubSeq(es, 1, 0) = <<>>
      BY SubSeqEmpty
    <3>7. ~f.header /\ f.pages = <<>> /\ f.tail = "none"
      BY <2>1 DEF EmptyFile
    <3>8. g = [header |-> TRUE, pages |-> f.pages, tail |-> f.tail]
      BY <3>4, <3>5, <3>6, <3>7
    <3>9. g = [f EXCEPT !.header = TRUE]
      BY <3>8, FileParts
    <3> QED BY <3>7, <3>9 DEF Grows
  <2> QED BY <2>1, <2>2, <2>3 DEF EmptyFile
<1>3. CASE Len(Header) <= size
  <2>1. PICK k \in 0..Len(es) :
          /\ WholePages(size, es, k)
          /\ f = [header |-> TRUE, pages |-> SubSeq(es, 1, k), tail |-> TailAfter(size, es, k)]
          /\ Len(SubSeq(es, 1, k)) = k
    BY <1>1, <1>3, CutType
  <2> DEFINE ln == Len(LengthBytes(es[k + 1]))
             at == End(es, k)
             to == End(es, k + 1)
             tail == TailAfter(size, es, k)
  <2>2. /\ k < Len(es) /\ k + 1 \in 0..Len(es) /\ es[k + 1] \in Event
        /\ at \in Nat /\ at <= size /\ to \in Nat /\ size < to
        /\ ln \in Nat \ {0} /\ at + ln < to
    BY <2>1, PagesLeft
  <2>3. /\ f.header /\ f.pages = SubSeq(es, 1, k) /\ f.tail = tail /\ Len(f.pages) = k
        /\ Len(f.pages) < Len(es) /\ Len(f.pages) # Len(es)
    BY <1>1, <2>1, <2>2
  <2>4. CASE next = to
    <3>1. tail = "page"
      BY <2>2, <2>4, <1>1 DEF TailAfter
    <3>2. WholePages(next, es, k + 1)
      <4>1. k + 1 < Len(es) => k + 2 \in 0..Len(es) /\ (k + 1) + 1 = k + 2 /\ k + 1 < k + 2
        BY <1>1
      <4>2. k + 1 < Len(es) => End(es, k + 2) \in Nat /\ to < End(es, k + 2)
        BY <2>2, <4>1, EndsGrow, EndStep
      <4> QED BY <1>1, <2>2, <2>4, <4>1, <4>2 DEF WholePages
    <3>3. g = [header |-> TRUE, pages |-> SubSeq(es, 1, k + 1), tail |-> TailAfter(next, es, k + 1)]
      BY <1>1, <2>2, <3>2, CutInPages
    <3>4. TailAfter(next, es, k + 1) = "none"
      BY <2>2, <2>4 DEF TailAfter
    <3>5. SubSeq(es, 1, k + 1) = Append(SubSeq(es, 1, k), es[k + 1])
      <4> DEFINE s == SubSeq(es, 1, k)
                 t == SubSeq(es, 1, k + 1)
      <4>1. s \in Seq(Event) /\ Len(s) = k /\ \A i \in 1..k : s[i] = es[i]
        BY <2>2, SubSeqProperties
      <4>2. t \in Seq(Event) /\ Len(t) = k + 1 /\ \A i \in 1..(k + 1) : t[i] = es[i]
        BY <2>2, SubSeqProperties
      <4>3. /\ Append(s, es[k + 1]) \in Seq(Event) /\ Len(Append(s, es[k + 1])) = k + 1
            /\ \A i \in 1..k : Append(s, es[k + 1])[i] = s[i]
            /\ Append(s, es[k + 1])[k + 1] = es[k + 1]
        <5> HIDE DEF s
        <5> QED BY <2>2, <4>1, AppendProperties
      <4>4. \A i \in 1..(k + 1) : i \in 1..k \/ i = k + 1
        OBVIOUS
      <4> HIDE DEF s, t
      <4>5. \A i \in 1..(k + 1) : t[i] = Append(s, es[k + 1])[i]
        BY <4>1, <4>2, <4>3, <4>4
      <4>6. t = Append(s, es[k + 1])
        BY <4>2, <4>3, <4>5, SeqEqual
      <4> QED BY <4>6 DEF s, t
    <3>6. g = [f EXCEPT !.pages = Append(@, es[Len(@) + 1]), !.tail = "none"]
      <4> DEFINE p == Append(f.pages, es[Len(f.pages) + 1])
      <4>1. p = SubSeq(es, 1, k + 1) /\ f.header = TRUE
        BY <2>1, <2>3, <3>5
      <4>2. g = [header |-> f.header, pages |-> p, tail |-> "none"]
        BY <3>3, <3>4, <4>1
      <4> QED BY <4>2, FileParts
    <3> HIDE DEF tail
    <3> QED BY <2>3, <3>1, <3>6 DEF Grows
  <2>5. CASE next # to
    <3>1. WholePages(next, es, k) /\ next < to
      BY <1>1, <2>2, <2>5 DEF WholePages
    <3> DEFINE now == TailAfter(next, es, k)
    <3>2. g = [header |-> TRUE, pages |-> SubSeq(es, 1, k), tail |-> now]
      BY <1>1, <2>2, <3>1, CutInPages
    <3>3. /\ tail = "none" => now \in {"varint", "page"}
          /\ tail = "varint" => now \in {"varint", "page"}
          /\ tail = "page" => now = "page"
          /\ tail \in {"none", "varint", "page"}
      <4> HIDE DEF ln, at
      <4> QED BY <1>1, <2>2, <3>1 DEF TailAfter, ln, at
    <3>4. g = [f EXCEPT !.tail = now]
      <4>1. f.header = TRUE /\ f.pages = SubSeq(es, 1, k)
        BY <2>1
      <4>2. g = [header |-> f.header, pages |-> f.pages, tail |-> now]
        BY <3>2, <4>1
      <4> QED BY <4>2, FileParts
    <3>5. tail = now => g = f
      BY <2>1, <3>2
    <3> HIDE DEF tail, now
    <3> QED BY <2>3, <3>3, <3>4, <3>5 DEF Grows
  <2> QED BY <2>3, <2>4, <2>5
<1> QED BY <1>2, <1>3

-----------------------------------------------------------------------------
(* The inductive invariant.                                                *)

\* Image and events stay within the bound, and a compact copies events it has passed.
BoundInv ==
  /\ Len(events) <= MaxEvents
  /\ \A path \in Paths : Len(lastSave[path].image) <= MaxEvents
  /\ Filtering => job.next <= Len(events) + 1 /\ Len(job.image) < job.next

\* What is at a path is the beginning of the image of the last call.
DiskInv ==
  /\ disk \in [Paths -> Seq(Byte) \cup {NoFile}]
  /\ \A path \in Paths : disk[path] # NoFile =>
       /\ CutOf(disk[path], lastSave[path].image)
       /\ Len(disk[path]) <= Len(Image(lastSave[path].image))

\* out is what is left of an image after the bytes that are written.
Rest(written, out, image) ==
  /\ Len(written) + Len(out) = Len(image)
  /\ \A i \in 1..Len(out) : out[i] = image[Len(written) + i]

\* A running write goes on where the bytes at its path end.
WriteInv == Writing =>
  /\ disk[job.path] # NoFile
  /\ job.image = lastSave[job.path].image
  /\ Rest(disk[job.path], job.out, Image(job.image))

\* A running load has read the pages up to its position, and nothing else runs.
LoadInv == Loading =>
  /\ job = NoJob
  /\ disk[load.path] # NoFile /\ load.bytes = disk[load.path]
  /\ Len(Header) <= Len(load.bytes)
  /\ LET image == lastSave[load.path].image
     IN  \E k \in 0..Len(image) :
           /\ events = First(image, k)
           /\ load.pos = End(image, k) /\ End(image, k) <= Len(load.bytes)

IInv == TypeOK /\ BoundInv /\ DiskInv /\ WriteInv /\ LoadInv

\* What live_events returns are events.
LEMMA LiveType ==
  ASSUME NEW es \in Seq(Event)
  PROVE  LiveEvents(es) \in Seq(Event)
<1> DEFINE n == Len(es)
           D == 0..n
           V == Seq(Event)
           turn(s, i) == IF i = 0 THEN <<>> ELSE IF IsLive(es[i]) THEN Append(s, es[i]) ELSE s
           step == [p \in V \X D |-> turn(p[1], p[2])]
           turns(f) == [i \in 0..n |->
             IF i = 0 THEN <<>>
             ELSE IF IsLive(es[i]) THEN Append(f[i - 1], es[i]) ELSE f[i - 1]]
           f == CHOOSE h : h = turns(h)
<1>1. n \in Nat /\ <<>> \in V /\ \A i \in 1..n : es[i] \in Event
  OBVIOUS
<1>2. ASSUME NEW s \in V, NEW i \in D PROVE turn(s, i) \in V
  <2>1. CASE i = 0
    BY <2>1
  <2>2. CASE i # 0
    <3>1. es[i] \in Event
      BY <1>1, <2>2
    <3>2. Append(s, es[i]) \in V
      BY <3>1, AppendProperties
    <3> QED BY <2>2, <3>2
  <2> QED BY <2>1, <2>2
<1>3. step \in [V \X D -> V]
  <2> HIDE DEF turn, V, D
  <2> QED BY <1>2
<1>4. PICK g \in [D -> V] : Loop(g, D, <<>>, step)
  <2>1. D \in Counts
    BY <1>1, CountsAre
  <2> HIDE DEF step, D, V
  <2> QED BY <1>1, <1>3, <2>1, LoopExists
<1>5. ASSUME NEW i \in D \ {0}
      PROVE  g[i] = IF IsLive(es[i]) THEN Append(g[i - 1], es[i]) ELSE g[i - 1]
  <2>1. i - 1 \in D
    BY <1>1
  <2>2. step[<<g[i - 1], i>>] = turn(g[i - 1], i)
    <3> HIDE DEF turn
    <3> QED BY <2>1
  <2> HIDE DEF step, V, D
  <2> QED BY <1>4, <2>2 DEF Loop
<1>6. g = turns(g)
  <2>1. g[0] = <<>>
    BY <1>4 DEF Loop
  <2> QED BY <1>5, <2>1
<1>7. f = turns(f)
  <2> HIDE DEF turns
  <2> QED BY <1>6
<1>8. LiveEvents(es) = f[n]
  BY DEF LiveEvents
<1> HIDE DEF f
<1>9. /\ f[0] = <<>>
      /\ \A i \in 1..n : f[i] = IF IsLive(es[i]) THEN Append(f[i - 1], es[i]) ELSE f[i - 1]
  <2>1. 0 \in 0..n /\ \A i \in 1..n : i \in 0..n /\ i # 0
    BY <1>1
  <2> QED BY <1>7, <2>1
<1> DEFINE S == {i \in Nat : i <= n => f[i] \in V}
<1>10. 0 \in S
  BY <1>1, <1>9
<1>11. ASSUME NEW i \in Nat, i \in S PROVE i + 1 \in S
  <2> SUFFICES ASSUME i + 1 <= n PROVE f[i + 1] \in V
    OBVIOUS
  <2>1. i + 1 \in 1..n /\ (i + 1) - 1 = i /\ i <= n
    BY <1>1
  <2>2. f[i] \in V /\ es[i + 1] \in Event
    BY <1>1, <1>11, <2>1
  <2>3. Append(f[i], es[i + 1]) \in V
    BY <2>2, AppendProperties
  <2>4. f[i + 1] = IF IsLive(es[i + 1]) THEN Append(f[(i + 1) - 1], es[i + 1]) ELSE f[(i + 1) - 1]
    BY <1>9, <2>1
  <2> QED BY <2>1, <2>2, <2>3, <2>4
<1>12. Nat \subseteq S
  <2> HIDE DEF S
  <2> QED BY <1>10, <1>11, SetInduction
<1> QED BY <1>1, <1>8, <1>12

\* The image of a save is shorter than a word.
LEMMA ImageFits ==
  ASSUME NEW es \in Seq(Event), Len(es) <= MaxEvents
  PROVE  es \in Images /\ Len(Image(es)) \in Word
  BY ImagesAre, ImagesAssumption

\* What OpenForWrite leaves: an empty file and the whole image to write.
LEMMA OpenInv ==
  ASSUME IInv, load = NoLoad, NEW path \in Paths, NEW image \in Seq(Event),
         Len(image) <= MaxEvents, OpenForWrite(path, image)
  PROVE  IInv'
<1> DEFINE out == Image(image)
           begun == [phase |-> "write", path |-> path, next |-> 1, image |-> image, out |-> out]
<1>1. out \in Seq(Byte) /\ Len(out) \in Nat
  BY ImageType
<1>2. /\ job' = begun /\ disk' = [disk EXCEPT ![path] = <<>>]
      /\ lastSave' = [lastSave EXCEPT ![path] =
           [image |-> image, failed |-> FALSE, returned |-> FALSE]]
      /\ answer' = [answer EXCEPT ![path] = LiveEvents(events)]
      /\ events' = events /\ result' = result /\ load' = NoLoad
  BY DEF OpenForWrite
<1>3. /\ begun \in Job /\ begun.phase = "write" /\ begun.path = path
      /\ begun.image = image /\ begun.out = out
  <2> HIDE DEF out
  <2> QED BY <1>1 DEF Job
<1>4. begun # NoJob
  <2> HIDE DEF begun
  <2> QED BY <1>3, StoreFileAssumption
<1> HIDE DEF begun, out
<1>5. DiskInv'
  <2>1. disk' \in [Paths -> Seq(Byte) \cup {NoFile}]
    BY <1>2 DEF IInv, DiskInv
  <2>2. ASSUME NEW p \in Paths, disk'[p] # NoFile
        PROVE  CutOf(disk'[p], lastSave'[p].image) /\ Len(disk'[p]) <= Len(Image(lastSave'[p].image))
    <3>1. CASE p = path
      <4>1. disk'[p] = <<>> /\ lastSave'[p].image = image
        BY <1>2, <3>1 DEF IInv, DiskInv, TypeOK
      <4>2. CutOf(<<>>, image)
        <5>1. \A i \in 1..Len(out) : ~(0 + i <= Len(<<>>))
          BY <1>1
        <5> QED BY <5>1 DEF CutOf, Begins, out
      <4> QED BY <1>1, <4>1, <4>2 DEF out
    <3>2. CASE p # path
      <4>1. disk'[p] = disk[p] /\ lastSave'[p] = lastSave[p]
        BY <1>2, <3>2 DEF IInv, DiskInv, TypeOK
      <4> QED BY <2>2, <4>1 DEF IInv, DiskInv
    <3> QED BY <3>1, <3>2
  <2> QED BY <2>1, <2>2 DEF DiskInv
<1>6. TypeOK'
  <2>1. lastSave' \in [Paths -> [image: Seq(Event), failed: BOOLEAN, returned: BOOLEAN]]
    BY <1>2 DEF IInv, TypeOK
  <2>2. answer' \in [Paths -> Seq(Event)]
    <3>1. LiveEvents(events) \in Seq(Event)
      BY LiveType DEF IInv, TypeOK
    <3> QED BY <1>2, <3>1 DEF IInv, TypeOK
  <2>3. \A p \in Paths : disk'[p] = NoFile \/ disk'[p] \in Seq(Byte)
    BY <1>5 DEF DiskInv
  <2>4. job' \in Job /\ load' = NoLoad /\ events' = events /\ result' = result
    BY <1>2, <1>3
  <2> QED BY <2>1, <2>2, <2>3, <2>4 DEF IInv, TypeOK
<1>7. BoundInv'
  <2>1. \A p \in Paths : Len(lastSave'[p].image) <= MaxEvents
    BY <1>2 DEF IInv, BoundInv, TypeOK
  <2>2. ~Filtering'
    BY <1>2, <1>3 DEF Filtering
  <2> QED BY <1>2, <2>1, <2>2 DEF IInv, BoundInv
<1>8. WriteInv'
  <2>1. disk'[path] = <<>> /\ lastSave'[path].image = image /\ job'.path = path
        /\ job'.image = image /\ job'.out = out
    BY <1>2, <1>3 DEF IInv, DiskInv, TypeOK
  <2>2. <<>> # NoFile
    <3>1. <<>> \in Seq(Byte)
      OBVIOUS
    <3> QED BY <3>1, StoreFileAssumption
  <2>3. Rest(<<>>, out, Image(image))
    BY <1>1 DEF Rest, out
  <2> QED BY <2>1, <2>2, <2>3 DEF WriteInv
<1>9. LoadInv'
  BY <1>2 DEF LoadInv, Loading
<1> QED BY <1>5, <1>6, <1>7, <1>8, <1>9 DEF IInv

\* The operations that leave the files and the running calls alone.
LEMMA MemoryInv ==
  ASSUME IInv, events' \in Seq(Event), Len(events') <= MaxEvents,
         result' \in {"none", "ok", "io_error", "storage_corrupt", "invalid_format",
             "truncated_input", "length_error"},
         job' = NoJob, load' = NoLoad, UNCHANGED <<disk, lastSave, answer>>
  PROVE  IInv'
<1>1. TypeOK'
  BY DEF IInv, TypeOK
<1>2. ~Filtering' /\ ~Writing' /\ ~Loading'
  BY DEF Filtering, Writing, Loading
<1>3. BoundInv' /\ WriteInv' /\ LoadInv'
  BY <1>2 DEF IInv, BoundInv, WriteInv, LoadInv
<1>4. DiskInv'
  BY DEF IInv, DiskInv
<1> QED BY <1>1, <1>3, <1>4 DEF IInv

\* What each part of the invariant takes from a step that does not touch it.
LEMMA KeptInv ==
  ASSUME IInv
  PROVE  /\ UNCHANGED <<disk, lastSave>> => DiskInv'
         /\ UNCHANGED <<disk, lastSave, job>> => WriteInv'
         /\ load' = NoLoad => LoadInv'
         /\ ~Writing' => WriteInv'
<1>1. ASSUME UNCHANGED <<disk, lastSave>> PROVE DiskInv'
  BY <1>1 DEF IInv, DiskInv
<1>2. ASSUME UNCHANGED <<disk, lastSave, job>> PROVE WriteInv'
  BY <1>2 DEF IInv, WriteInv, Writing
<1>3. ASSUME load' = NoLoad PROVE LoadInv'
  BY <1>3 DEF LoadInv, Loading
<1>4. ASSUME ~Writing' PROVE WriteInv'
  BY <1>4 DEF WriteInv
<1> QED BY <1>1, <1>2, <1>3, <1>4

\* While a save or a compact runs, no load does.
LEMMA JobRuns ==
  ASSUME IInv, job # NoJob
  PROVE  job \in Job /\ load = NoLoad
  BY DEF IInv, TypeOK, LoadInv, Loading

\* A turn of the loop of compact.
LEMMA ScanInv ==
  ASSUME IInv, CompactScan
  PROVE  IInv'
<1> DEFINE e == events[job.next]
           image == IF IsLive(e) THEN Append(job.image, e) ELSE job.image
<1>1. /\ job \in Job /\ job # NoJob /\ load = NoLoad /\ job.phase = "filter"
      /\ job.next <= Len(events) /\ job.next <= Len(events) + 1 /\ Len(job.image) < job.next
      /\ Len(events) <= MaxEvents
  <2>1. Filtering /\ job # NoJob /\ job.phase = "filter" /\ job.next <= Len(events)
    BY DEF CompactScan, Filtering
  <2> QED BY <2>1, JobRuns DEF IInv, BoundInv
<1>2. /\ job.path \in Paths /\ job.next \in Nat \ {0} /\ job.image \in Seq(Event)
      /\ job.out \in Seq(Byte) /\ events \in Seq(Event) /\ Len(events) \in Nat
  BY <1>1 DEF Job, IInv, TypeOK
<1>3. /\ job' = [job EXCEPT !.next = job.next + 1, !.image = image]
      /\ UNCHANGED <<events, result, disk, lastSave, load, answer>>
  BY DEF CompactScan
<1>4. image \in Seq(Event) /\ Len(image) < job.next + 1
  <2>1. e \in Event
    BY <1>1, <1>2
  <2>2. Append(job.image, e) \in Seq(Event) /\ Len(Append(job.image, e)) = Len(job.image) + 1
    BY <1>2, <2>1, AppendProperties
  <2>3. Len(job.image) \in Nat
    BY <1>2
  <2> HIDE DEF e
  <2> QED BY <1>1, <1>2, <2>2, <2>3
<1> HIDE DEF image
<1>5. job' \in Job /\ job'.next = job.next + 1 /\ job'.image = image /\ job'.phase = "filter"
  <2>1. job.next + 1 \in Nat \ {0}
    BY <1>2
  <2> QED BY <1>1, <1>3, <1>4, <2>1 DEF Job
<1>6. ~Writing'
  BY <1>5 DEF Writing
<1>7. TypeOK'
  BY <1>3, <1>5 DEF IInv, TypeOK
<1>8. BoundInv'
  <2>1. job'.next <= Len(events') + 1 /\ Len(job'.image) < job'.next
    BY <1>1, <1>2, <1>3, <1>4, <1>5
  <2> QED BY <1>3, <2>1 DEF IInv, BoundInv
<1>9. load' = NoLoad
  BY <1>1, <1>3
<1> QED BY <1>3, <1>6, <1>7, <1>8, <1>9, KeptInv DEF IInv

\* A running write: what it works on and what is left.
LEMMA WriteRuns ==
  ASSUME IInv, Writing
  PROVE  LET d == disk[job.path]
             all == Image(job.image)
         IN  /\ job \in Job /\ job # NoJob /\ load = NoLoad /\ job.phase = "write"
             /\ job.path \in Paths /\ job.image \in Seq(Event) /\ job.out \in Seq(Byte)
             /\ d \in Seq(Byte) /\ d # NoFile /\ job.image = lastSave[job.path].image
             /\ Len(job.image) <= MaxEvents
             /\ all \in Seq(Byte) /\ Rest(d, job.out, all) /\ CutOf(d, job.image)
<1>1. /\ job \in Job /\ job # NoJob /\ load = NoLoad /\ job.phase = "write"
  BY JobRuns DEF Writing
<1>2. job.path \in Paths /\ job.image \in Seq(Event) /\ job.out \in Seq(Byte)
  BY <1>1 DEF Job
<1>3. /\ disk[job.path] # NoFile /\ job.image = lastSave[job.path].image
      /\ Rest(disk[job.path], job.out, Image(job.image))
  BY DEF IInv, WriteInv
<1>4. CutOf(disk[job.path], job.image) /\ Len(job.image) <= MaxEvents
  BY <1>2, <1>3 DEF IInv, DiskInv, BoundInv
<1> QED BY <1>1, <1>2, <1>3, <1>4, ImageType DEF CutOf

\* The next byte of an image is where the bytes that are written end.
LEMMA ByteInv ==
  ASSUME IInv, WriteByte
  PROVE  IInv'
<1> DEFINE d == disk[job.path]
           all == Image(job.image)
           b == Head(job.out)
           rest == Tail(job.out)
           next == Append(d, b)
<1>1. Writing /\ job.out # <<>>
  BY DEF WriteByte
<1>2. /\ job \in Job /\ job # NoJob /\ load = NoLoad /\ job.phase = "write"
      /\ job.path \in Paths /\ job.image \in Seq(Event) /\ job.out \in Seq(Byte)
      /\ d \in Seq(Byte) /\ d # NoFile /\ job.image = lastSave[job.path].image
      /\ Len(job.image) <= MaxEvents
      /\ all \in Seq(Byte) /\ Rest(d, job.out, all) /\ CutOf(d, job.image)
  BY <1>1, WriteRuns
<1>3. /\ disk' = [disk EXCEPT ![job.path] = next] /\ job' = [job EXCEPT !.out = rest]
      /\ UNCHANGED <<events, result, lastSave, load, answer>>
  BY DEF WriteByte
<1>4. /\ b \in Byte /\ rest \in Seq(Byte) /\ Len(job.out) \in Nat \ {0}
      /\ Len(rest) = Len(job.out) - 1 /\ \A i \in 1..Len(rest) : rest[i] = job.out[i + 1]
      /\ b = job.out[1]
  BY <1>1, <1>2, HeadTailProperties
<1>5. /\ next \in Seq(Byte) /\ Len(next) = Len(d) + 1
      /\ \A i \in 1..Len(d) : next[i] = d[i]
      /\ next[Len(d) + 1] = b /\ Len(d) \in Nat
  <2> HIDE DEF d, b
  <2> QED BY <1>2, <1>4, AppendProperties
<1> HIDE DEF d, all, b, rest, next
<1>6. Rest(next, rest, all) /\ Len(next) <= Len(all)
  <2>1. Len(next) + Len(rest) = Len(all) /\ Len(rest) \in Nat /\ Len(all) \in Nat
    <3>1. Len(d) + Len(job.out) = Len(all) /\ Len(all) \in Nat
      BY <1>2 DEF Rest
    <3>2. /\ Len(next) = Len(d) + 1 /\ Len(rest) = Len(job.out) - 1
          /\ Len(job.out) \in Nat \ {0} /\ Len(d) \in Nat
      BY <1>4, <1>5
    <3> DEFINE m == Len(job.out)
               n == Len(d)
               r == Len(rest)
               l == Len(next)
    <3>3. m \in Nat \ {0} /\ n \in Nat /\ r = m - 1 /\ l = n + 1 /\ n + m = Len(all)
      BY <3>1, <3>2
    <3> HIDE DEF m, n, r, l
    <3>4. l + r = n + m /\ r \in Nat
      BY <3>3
    <3> QED BY <3>1, <3>3, <3>4 DEF r, l
  <2>2. ASSUME NEW i \in 1..Len(rest) PROVE rest[i] = all[Len(next) + i]
    <3>1. i + 1 \in 1..Len(job.out) /\ Len(d) + (i + 1) = Len(next) + i
      BY <1>4, <1>5
    <3>2. job.out[i + 1] = all[Len(d) + (i + 1)]
      BY <1>2, <3>1 DEF Rest
    <3> QED BY <1>4, <3>1, <3>2
  <2> QED BY <1>5, <2>1, <2>2 DEF Rest
<1>7. CutOf(next, job.image)
  <2>1. b = all[Len(d) + 1]
    <3>1. 1 \in 1..Len(job.out)
      BY <1>4
    <3> QED BY <1>2, <1>4, <3>1 DEF Rest
  <2>2. \A i \in 1..Len(all) : 0 + i <= Len(next) => next[0 + i] = all[i]
    <3> SUFFICES ASSUME NEW i \in 1..Len(all), i <= Len(next) PROVE next[i] = all[i]
      OBVIOUS
    <3>1. i \in 1..Len(d) \/ i = Len(d) + 1
      BY <1>5
    <3>2. CASE i \in 1..Len(d)
      <4>1. 0 + i <= Len(d) /\ 0 + i = i
        BY <3>2
      <4>2. d[0 + i] = all[i]
        BY <1>2, <4>1 DEF CutOf, Begins, all
      <4> QED BY <1>5, <3>2, <4>1, <4>2
    <3> QED BY <1>5, <2>1, <3>1, <3>2
  <2> QED BY <1>5, <2>2 DEF CutOf, Begins, all
<1>8. DiskInv'
  <2>1. disk' \in [Paths -> Seq(Byte) \cup {NoFile}]
    BY <1>3, <1>5 DEF IInv, DiskInv
  <2>2. ASSUME NEW p \in Paths, disk'[p] # NoFile
        PROVE  CutOf(disk'[p], lastSave[p].image) /\ Len(disk'[p]) <= Len(Image(lastSave[p].image))
    <3>1. CASE p = job.path
      <4>1. disk'[p] = next /\ lastSave[p].image = job.image
        BY <1>2, <1>3, <3>1 DEF IInv, DiskInv
      <4> QED BY <1>6, <1>7, <4>1 DEF all
    <3>2. CASE p # job.path
      <4>1. disk'[p] = disk[p]
        BY <1>3, <3>2 DEF IInv, DiskInv
      <4> QED BY <2>2, <4>1 DEF IInv, DiskInv
    <3> QED BY <3>1, <3>2
  <2>3. lastSave' = lastSave
    BY <1>3
  <2> QED BY <2>1, <2>2, <2>3 DEF DiskInv
<1>9. /\ job' \in Job /\ job'.out = rest /\ job'.path = job.path /\ job'.image = job.image
      /\ job'.phase = "write"
  BY <1>2, <1>3, <1>4 DEF Job
<1>10. WriteInv'
  <2>1. disk'[job.path] = next
    BY <1>2, <1>3 DEF IInv, DiskInv
  <2>2. next # NoFile
    BY <1>5, StoreFileAssumption
  <2> QED BY <1>2, <1>3, <1>6, <1>9, <2>1, <2>2 DEF WriteInv, all
<1>11. TypeOK'
  <2>1. \A p \in Paths : disk'[p] = NoFile \/ disk'[p] \in Seq(Byte)
    BY <1>8 DEF DiskInv
  <2> QED BY <1>3, <1>9, <2>1 DEF IInv, TypeOK
<1>12. BoundInv'
  <2>1. ~Filtering'
    BY <1>9 DEF Filtering
  <2> QED BY <1>3, <2>1 DEF IInv, BoundInv
<1>13. load' = NoLoad
  BY <1>2, <1>3
<1> QED BY <1>8, <1>10, <1>11, <1>12, <1>13, KeptInv DEF IInv

\* A write that fails changes the history only.
LEMMA FailInv ==
  ASSUME IInv, WriteFails
  PROVE  IInv'
<1>1. Writing /\ job.path \in Paths /\ load = NoLoad
  <2>1. Writing
    BY DEF WriteFails
  <2> QED BY <2>1, WriteRuns
<1>2. /\ lastSave' = [lastSave EXCEPT ![job.path].failed = TRUE]
      /\ UNCHANGED <<events, result, job, disk, load, answer>>
  BY DEF WriteFails
<1>3. /\ lastSave' \in [Paths -> [image: Seq(Event), failed: BOOLEAN, returned: BOOLEAN]]
      /\ \A p \in Paths : lastSave'[p].image = lastSave[p].image
  BY <1>1, <1>2 DEF IInv, TypeOK
<1>4. TypeOK'
  BY <1>2, <1>3 DEF IInv, TypeOK
<1>5. BoundInv'
  BY <1>2, <1>3 DEF IInv, BoundInv, Filtering
<1>6. DiskInv'
  BY <1>2, <1>3 DEF IInv, DiskInv
<1>7. WriteInv'
  BY <1>1, <1>2, <1>3 DEF IInv, WriteInv, Writing
<1>8. load' = NoLoad
  BY <1>1, <1>2
<1> QED BY <1>4, <1>5, <1>6, <1>7, <1>8, KeptInv DEF IInv

\* Nor does a return touch the files.
LEMMA ReturnInv ==
  ASSUME IInv, SaveReturn
  PROVE  IInv'
<1>1. Writing /\ job.path \in Paths /\ load = NoLoad
  <2>1. Writing
    BY DEF SaveReturn
  <2> QED BY <2>1, WriteRuns
<1>2. /\ lastSave' = [lastSave EXCEPT ![job.path].returned = TRUE] /\ job' = NoJob
      /\ UNCHANGED <<events, result, disk, load, answer>>
  BY DEF SaveReturn
<1>3. /\ lastSave' \in [Paths -> [image: Seq(Event), failed: BOOLEAN, returned: BOOLEAN]]
      /\ \A p \in Paths : lastSave'[p].image = lastSave[p].image
  BY <1>1, <1>2 DEF IInv, TypeOK
<1>4. TypeOK'
  BY <1>2, <1>3 DEF IInv, TypeOK
<1>5. ~Writing' /\ ~Filtering'
  BY <1>2 DEF Writing, Filtering
<1>6. BoundInv'
  BY <1>2, <1>3, <1>5 DEF IInv, BoundInv
<1>7. DiskInv'
  BY <1>2, <1>3 DEF IInv, DiskInv
<1>8. load' = NoLoad
  BY <1>1, <1>2
<1> QED BY <1>4, <1>5, <1>6, <1>7, <1>8, KeptInv DEF IInv

\* A load that is accepted starts behind the header, with no events.
LEMMA LoadOpenInv ==
  ASSUME IInv, NEW path \in Paths, LoadOpen(path)
  PROVE  IInv'
<1> DEFINE begun == [path |-> path, bytes |-> disk[path], pos |-> Len(Header)]
           image == lastSave[path].image
<1>1. /\ job = NoJob /\ disk[path] # NoFile /\ HasHeader(disk[path])
      /\ events' = <<>> /\ load' = begun
      /\ UNCHANGED <<result, job, disk, lastSave, answer>>
  BY DEF LoadOpen, Idle
<1>2. disk[path] \in Seq(Byte) /\ Len(Header) \in Nat /\ image \in Seq(Event)
  BY <1>1, ImageAssumption DEF IInv, DiskInv, TypeOK
<1>3. begun \in Read /\ begun.path = path /\ begun.bytes = disk[path] /\ begun.pos = Len(Header)
  BY <1>2 DEF Read
<1>4. Len(Header) <= Len(disk[path])
  BY <1>1, <1>2 DEF HasHeader
<1> HIDE DEF begun
<1>5. TypeOK'
  BY <1>1, <1>3 DEF IInv, TypeOK
<1>6. ~Writing' /\ ~Filtering'
  BY <1>1 DEF Writing, Filtering
<1>7. BoundInv'
  BY <1>1, <1>6, StoreFileAssumption DEF IInv, BoundInv
<1>8. LoadInv'
  <2>1. 0 \in 0..Len(image) /\ First(image, 0) = <<>> /\ End(image, 0) = Len(Header)
    <3>1. Len(image) \in Nat
      BY <1>2
    <3> QED BY <1>2, <3>1, FirstStep, EndStep
  <2>2. \E k \in 0..Len(image) :
          /\ <<>> = First(image, k)
          /\ Len(Header) = End(image, k) /\ End(image, k) <= Len(disk[path])
    BY <1>4, <2>1
  <2> HIDE DEF image
  <2> QED BY <1>1, <1>3, <1>4, <2>2 DEF LoadInv, image
<1> QED BY <1>1, <1>5, <1>6, <1>7, <1>8, KeptInv DEF IInv

\* A running load: the image its file begins, and the pages it has read.
LEMMA LoadRuns ==
  ASSUME IInv, Loading
  PROVE  LET image == lastSave[load.path].image
             b     == load.bytes
         IN  /\ load \in Read /\ load.path \in Paths /\ job = NoJob
             /\ disk[load.path] # NoFile /\ b = disk[load.path] /\ b \in Seq(Byte)
             /\ image \in Seq(Event) /\ Len(image) <= MaxEvents
             /\ Len(Image(image)) \in Word /\ image \in Images
             /\ CutOf(b, image) /\ Len(b) <= Len(Image(image)) /\ Len(Header) <= Len(b)
             /\ \E k \in 0..Len(image) :
                  /\ events = First(image, k)
                  /\ load.pos = End(image, k) /\ End(image, k) <= Len(b)
<1> DEFINE image == lastSave[load.path].image
<1>1. load \in Read /\ load.path \in Paths
  BY DEF IInv, TypeOK, Loading, Read
<1>2. /\ job = NoJob /\ disk[load.path] # NoFile /\ load.bytes = disk[load.path]
      /\ Len(Header) <= Len(load.bytes)
      /\ \E k \in 0..Len(image) :
           /\ events = First(image, k)
           /\ load.pos = End(image, k) /\ End(image, k) <= Len(load.bytes)
  BY DEF IInv, LoadInv
<1>3. /\ image \in Seq(Event) /\ Len(image) <= MaxEvents
      /\ CutOf(load.bytes, image) /\ Len(load.bytes) <= Len(Image(image))
  BY <1>1, <1>2 DEF IInv, TypeOK, BoundInv, DiskInv
<1>4. Len(Image(image)) \in Word /\ image \in Images
  BY <1>3, ImageFits
<1> QED BY <1>1, <1>2, <1>3, <1>4 DEF CutOf

\* What a turn of the loop of load finds behind k pages: the next page whole, or cut.
PageFound(image, k) ==
  /\ k < Len(image) /\ End(image, k + 1) <= Len(load.bytes)
  /\ load' = [load EXCEPT !.pos = End(image, k + 1)]
  /\ events' = First(image, k + 1) /\ result' = result
PageCut(image, k) ==
  /\ WholePages(Len(load.bytes), image, k)
  /\ load' = NoLoad /\ events' = events
  /\ result' = ResultAfter(Len(load.bytes), image, k)
  /\ End(image, k) < Len(load.bytes)

\* A turn of the loop does the one or the other.
LEMMA PageTurn ==
  ASSUME IInv, LoadPage, NEW image, image = lastSave[load.path].image,
         NEW k \in 0..Len(image), events = First(image, k), load.pos = End(image, k)
  PROVE  (PageFound(image, k) \/ PageCut(image, k)) /\ UNCHANGED <<job, disk, lastSave, answer>>
<1> DEFINE b == load.bytes
           at == End(image, k)
           len == DecodeVarint(b, load.pos)
           past == (len.pos + len.value + ChecksumSize) % WordSize
           read == DeserializeEvent(SubSeq(b, len.pos + 1, len.pos + len.value))
           ln == Len(LengthBytes(image[k + 1]))
<1>1. Loading /\ load.pos < Len(b) /\ UNCHANGED <<job, disk, lastSave, answer>>
  BY DEF LoadPage
<1>2. /\ load \in Read /\ b \in Seq(Byte) /\ image \in Seq(Event)
      /\ Len(Image(image)) \in Word /\ CutOf(b, image) /\ Len(b) <= Len(Image(image))
  BY <1>1, LoadRuns
<1>3. Len(image) \in Nat /\ k \in Nat /\ at \in Nat /\ at < Len(b) /\ Len(b) \in Nat
  BY <1>1, <1>2, EndStep
<1>4. k < Len(image)
  <2> SUFFICES ASSUME k = Len(image) PROVE FALSE
    BY <1>3
  <2>1. at = Len(Image(image))
    BY <1>2, EndStep
  <2> QED BY <1>2, <1>3, <2>1
<1>5. len = Length(b, at) /\ past = Past(b, at) /\ read = Record(b, at)
  BY DEF Length, Past, Record
<1>6. /\ k + 1 \in 1..Len(image) /\ image[k + 1] \in Event
      /\ End(image, k + 1) \in Nat
      /\ at + ln \in Nat /\ at < at + ln /\ at + ln < End(image, k + 1)
      /\ ~(at + ln <= Len(b)) => ~len.ok
      /\ at + ln <= Len(b) => len.ok /\ past = End(image, k + 1)
      /\ End(image, k + 1) <= Len(b) =>
           read = [ok |-> TRUE, thrown |-> FALSE, event |-> ReadBack(image[k + 1])]
      /\ ~PageThrows(b, at)
  <2> HIDE DEF len, past, read
  <2> QED BY <1>2, <1>4, <1>5, NextPage
<1>12. LoadMove /\ events' = IF load' # NoLoad /\ read.ok THEN Append(events, read.event) ELSE events
  <2>1. ~PageThrows(load.bytes, load.pos)
    BY <1>6
  <2> QED BY <2>1 DEF LoadPage
<1>7. \/ ~len.ok /\ load' = NoLoad /\ result' = "invalid_format"
      \/ len.ok /\ past > Len(b) /\ load' = NoLoad /\ result' = "truncated_input"
      \/ len.ok /\ past <= Len(b) /\ load' = [load EXCEPT !.pos = past] /\ result' = result
  BY <1>12 DEF LoadMove
<1>8. events' = IF load' # NoLoad /\ read.ok THEN Append(events, read.event) ELSE events
  BY <1>12
<1> HIDE DEF b, at, len, past, read, ln
<1>9. CASE ~(at + ln <= Len(b))
  <2>1. load' = NoLoad /\ result' = "invalid_format" /\ events' = events
    BY <1>6, <1>7, <1>8, <1>9
  <2>2. ~(End(image, k + 1) <= Len(b))
    BY <1>3, <1>6, <1>9
  <2>3. WholePages(Len(b), image, k)
    BY <1>3, <2>2 DEF WholePages, at
  <2>4. ResultAfter(Len(b), image, k) = "invalid_format"
    BY <1>3, <1>9 DEF ResultAfter, at, ln
  <2> QED BY <1>1, <1>3, <2>1, <2>3, <2>4 DEF PageCut, b, at
<1>10. CASE at + ln <= Len(b) /\ ~(End(image, k + 1) <= Len(b))
  <2>1. len.ok /\ past = End(image, k + 1) /\ ~(past <= Len(b))
    BY <1>6, <1>10
  <2>2. load' = NoLoad /\ result' = "truncated_input" /\ events' = events
    BY <1>7, <1>8, <2>1
  <2>3. WholePages(Len(b), image, k)
    BY <1>3, <1>10 DEF WholePages, at
  <2>4. ResultAfter(Len(b), image, k) = "truncated_input"
    <3>1. ~(Len(b) <= End(image, k)) /\ End(image, k) + Len(LengthBytes(image[k + 1])) <= Len(b)
      BY <1>3, <1>10 DEF at, ln
    <3> QED BY <3>1 DEF ResultAfter
  <2> QED BY <1>1, <1>3, <2>2, <2>3, <2>4 DEF PageCut, b, at
<1>11. CASE End(image, k + 1) <= Len(b)
  <2>1. at + ln <= Len(b)
    BY <1>3, <1>6, <1>11
  <2>2. len.ok /\ past = End(image, k + 1) /\ past <= Len(b) /\ ~(past > Len(b))
        /\ read = [ok |-> TRUE, thrown |-> FALSE, event |-> ReadBack(image[k + 1])]
    BY <1>3, <1>6, <1>11, <2>1
  <2>3. load' = [load EXCEPT !.pos = past] /\ result' = result
    BY <1>7, <2>2
  <2>4. load' # NoLoad
    <3>1. past \in Nat
      BY <1>6, <2>2
    <3>2. load' \in Read
      BY <1>2, <2>3, <3>1 DEF Read
    <3> QED BY <3>2, StoreFileAssumption
  <2>5. events' = Append(events, ReadBack(image[k + 1]))
    BY <1>8, <2>2, <2>4
  <2>6. First(image, k + 1) = Append(First(image, k), ReadBack(image[k + 1]))
    <3>1. (k + 1) - 1 = k
      BY <1>3
    <3>2. First(image, k + 1) = Append(First(image, (k + 1) - 1), ReadBack(image[k + 1]))
      BY <1>2, <1>6, FirstStep
    <3> QED BY <3>1, <3>2
  <2>7. k < Len(image) /\ load' = [load EXCEPT !.pos = End(image, k + 1)]
        /\ events' = First(image, k + 1)
    BY <1>4, <2>2, <2>3, <2>5, <2>6
  <2> QED BY <1>1, <1>11, <2>3, <2>7 DEF PageFound, b
<1> QED BY <1>9, <1>10, <1>11

\* A turn of the loop of load.
LEMMA PageInv ==
  ASSUME IInv, LoadPage
  PROVE  IInv'
<1> DEFINE image == lastSave[load.path].image
           b == load.bytes
<1>1. Loading
  BY DEF LoadPage
<1>2. /\ load \in Read /\ load.path \in Paths /\ job = NoJob
      /\ disk[load.path] # NoFile /\ b = disk[load.path] /\ b \in Seq(Byte)
      /\ image \in Seq(Event) /\ Len(image) <= MaxEvents
      /\ Len(b) <= Len(Image(image)) /\ Len(Header) <= Len(b)
      /\ \E k \in 0..Len(image) :
           /\ events = First(image, k)
           /\ load.pos = End(image, k) /\ End(image, k) <= Len(b)
  BY <1>1, LoadRuns
<1>3. PICK k \in 0..Len(image) :
        /\ events = First(image, k)
        /\ load.pos = End(image, k) /\ End(image, k) <= Len(b)
  BY <1>2
<1>4. (PageFound(image, k) \/ PageCut(image, k)) /\ UNCHANGED <<job, disk, lastSave, answer>>
  <2> SUFFICES ASSUME NEW im, im = image
               PROVE  (PageFound(im, k) \/ PageCut(im, k)) /\ UNCHANGED <<job, disk, lastSave, answer>>
    OBVIOUS
  <2> QED BY <1>3, PageTurn
<1>5. CASE PageCut(image, k)
  <2>1. /\ load' = NoLoad /\ events' = events /\ job' = NoJob
        /\ result' \in {"none", "ok", "io_error", "storage_corrupt", "invalid_format",
             "truncated_input", "length_error"}
    BY <1>2, <1>4, <1>5 DEF PageCut, ResultAfter
  <2>2. events' \in Seq(Event) /\ Len(events') <= MaxEvents
    BY <2>1 DEF IInv, TypeOK, BoundInv
  <2> QED BY <1>4, <2>1, <2>2, MemoryInv
<1>6. CASE PageFound(image, k)
  <2> DEFINE next == k + 1
  <2>1. /\ next <= Len(image) /\ End(image, next) <= Len(b)
        /\ load' = [load EXCEPT !.pos = End(image, next)]
        /\ events' = First(image, next) /\ result' = result
    <3>1. k < Len(image) /\ k \in Nat /\ Len(image) \in Nat
      BY <1>2, <1>6 DEF PageFound
    <3> QED BY <1>6, <3>1 DEF PageFound
  <2>2. next \in 0..Len(image)
    <3>1. k \in Nat /\ Len(image) \in Nat
      BY <1>2
    <3> QED BY <2>1, <3>1
  <2> HIDE DEF next
  <2>3. /\ First(image, next) \in Seq(Event) /\ Len(First(image, next)) = next
        /\ End(image, next) \in Nat
    <3> HIDE DEF image
    <3> QED BY <1>2, <2>2, FirstStep, EndStep
  <2>4. /\ load' \in Read /\ load'.path = load.path /\ load'.bytes = b
        /\ load'.pos = End(image, next)
    <3> HIDE DEF image
    <3> QED BY <1>2, <2>1, <2>3 DEF Read
  <2>5. TypeOK'
    BY <1>4, <2>1, <2>3, <2>4 DEF IInv, TypeOK
  <2>6. ~Writing' /\ ~Filtering'
    BY <1>2, <1>4 DEF Writing, Filtering
  <2>7. BoundInv'
    <3>1. Len(events') <= MaxEvents
      <4>1. next \in Nat /\ Len(image) \in Nat /\ next <= Len(image)
        BY <1>2, <2>1, <2>2
      <4> HIDE DEF image
      <4> QED BY <1>2, <2>1, <2>3, <4>1, StoreFileAssumption
    <3> QED BY <1>4, <2>6, <3>1 DEF IInv, BoundInv
  <2>8. LoadInv'
    <3>1. /\ job' = NoJob /\ disk'[load'.path] # NoFile /\ load'.bytes = disk'[load'.path]
          /\ Len(Header) <= Len(load'.bytes) /\ lastSave'[load'.path].image = image
      BY <1>2, <1>4, <2>4
    <3>2. /\ events' = First(image, next) /\ load'.pos = End(image, next)
          /\ End(image, next) <= Len(load'.bytes)
      BY <2>1, <2>4
    <3> HIDE DEF image
    <3> QED BY <2>2, <3>1, <3>2 DEF LoadInv
  <2> QED BY <1>4, <2>5, <2>6, <2>7, <2>8, KeptInv DEF IInv
<1> QED BY <1>4, <1>5, <1>6

\* The first state has it.
LEMMA InvInit == Init => IInv
<1> SUFFICES ASSUME Init PROVE IInv
  OBVIOUS
<1>1. TypeOK
  BY DEF Init, TypeOK
<1>2. BoundInv
  BY StoreFileAssumption DEF Init, BoundInv, Filtering
<1>3. DiskInv
  BY DEF Init, DiskInv
<1>4. WriteInv /\ LoadInv
  BY DEF Init, WriteInv, LoadInv, Writing, Loading
<1> QED BY <1>1, <1>2, <1>3, <1>4 DEF IInv

\* Every step keeps the invariant.
LEMMA InvStep == IInv /\ [Next]_vars => IInv'
<1> SUFFICES ASSUME IInv, [Next]_vars PROVE IInv'
  OBVIOUS
<1>1. /\ events \in Seq(Event) /\ Len(events) <= MaxEvents
      /\ result \in {"none", "ok", "io_error", "storage_corrupt", "invalid_format",
             "truncated_input", "length_error"}
  BY DEF IInv, TypeOK, BoundInv
<1>2. ASSUME NEW e \in Drafts, AppendEvent(e) PROVE IInv'
  <2>1. /\ job = NoJob /\ load = NoLoad /\ Len(events) < MaxEvents
        /\ events' = Append(events, e)
        /\ UNCHANGED <<result, job, disk, lastSave, load, answer>>
    BY <1>2 DEF AppendEvent, Idle
  <2>2. e \in Event
    BY StoreFileAssumption
  <2>3. events' \in Seq(Event) /\ Len(events') = Len(events) + 1
    BY <1>1, <2>1, <2>2, AppendProperties
  <2>4. Len(events') <= MaxEvents
    BY <1>1, <2>1, <2>3, StoreFileAssumption
  <2> QED BY <1>1, <2>1, <2>3, <2>4, MemoryInv
<1>3. ASSUME NEW id \in Ids, EraseId(id) PROVE IInv'
  <2>1. PICK i \in 1..Len(events) : events' = [events EXCEPT ![i].tombstone = TRUE]
    BY <1>3 DEF EraseId
  <2>2. /\ job = NoJob /\ load = NoLoad
        /\ UNCHANGED <<result, job, disk, lastSave, load, answer>>
    BY <1>3 DEF EraseId, Idle
  <2>3. [events[i] EXCEPT !.tombstone = TRUE] \in Event
    <3>1. events[i] \in Event
      BY <1>1
    <3> QED BY <3>1 DEF Event
  <2>4. events' \in Seq(Event) /\ Len(events') = Len(events)
    <3> DEFINE e == [events[i] EXCEPT !.tombstone = TRUE]
    <3>1. events' = [events EXCEPT ![i] = e]
      BY <2>1
    <3> HIDE DEF e
    <3> QED BY <1>1, <2>3, <3>1, ExceptSeq DEF e
  <2> QED BY <1>1, <2>2, <2>4, MemoryInv
<1>4. ASSUME NEW path \in Paths, SaveOpen(path) PROVE IInv'
  BY <1>1, <1>4, OpenInv DEF SaveOpen, Idle
<1>5. ASSUME NEW path \in Paths, CompactBegin(path) PROVE IInv'
  <2> DEFINE begun == [phase |-> "filter", path |-> path, next |-> 1, image |-> <<>>, out |-> <<>>]
  <2>1. /\ load = NoLoad /\ job' = begun
        /\ UNCHANGED <<events, result, disk, lastSave, load, answer>>
    BY <1>5 DEF CompactBegin, Idle
  <2>2. begun \in Job /\ begun.phase = "filter" /\ begun.next = 1 /\ begun.image = <<>>
    BY DEF Job
  <2> HIDE DEF begun
  <2>3. ~Writing'
    BY <2>1, <2>2 DEF Writing
  <2>4. TypeOK'
    BY <2>1, <2>2 DEF IInv, TypeOK
  <2>5. BoundInv'
    BY <1>1, <2>1, <2>2 DEF IInv, BoundInv
  <2> QED BY <2>1, <2>3, <2>4, <2>5, KeptInv DEF IInv
<1>6. ASSUME NEW path \in Paths, LoadRefused(path) PROVE IInv'
  <2>1. /\ job = NoJob /\ load = NoLoad /\ result' \in {"io_error", "storage_corrupt"}
        /\ UNCHANGED <<events, job, disk, lastSave, load, answer>>
    BY <1>6 DEF LoadRefused, Idle
  <2> QED BY <1>1, <2>1, MemoryInv
<1>7. ASSUME CompactOpen PROVE IInv'
  <2>1. /\ job # NoJob /\ Filtering /\ OpenForWrite(job.path, job.image) /\ job.next > Len(events)
    BY <1>7 DEF CompactOpen, Filtering
  <2>2. job \in Job /\ load = NoLoad /\ job.next <= Len(events) + 1 /\ Len(job.image) < job.next
    BY <2>1, JobRuns DEF IInv, BoundInv
  <2>3. job.path \in Paths /\ job.image \in Seq(Event) /\ job.next \in Nat
    BY <2>2 DEF Job
  <2>4. Len(job.image) <= MaxEvents
    <3>1. Len(job.image) \in Nat /\ Len(events) \in Nat
      BY <1>1, <2>3
    <3> QED BY <1>1, <2>2, <2>3, <3>1, StoreFileAssumption
  <2> QED BY <2>1, <2>2, <2>3, <2>4, OpenInv
<1>11. ASSUME CompactRefused PROVE IInv'
  <2>1. /\ Filtering /\ job # NoJob /\ job' = NoJob
        /\ UNCHANGED <<events, result, disk, lastSave, load, answer>>
    BY <1>11 DEF CompactRefused, Filtering
  <2>2. load' = NoLoad
    BY <2>1, JobRuns
  <2> QED BY <1>1, <2>1, <2>2, MemoryInv
<1>8. ASSUME LoadEnd PROVE IInv'
  <2>1. /\ Loading /\ load' = NoLoad /\ result' = "ok"
        /\ UNCHANGED <<events, job, disk, lastSave, answer>>
    BY <1>8 DEF LoadEnd
  <2>2. job = NoJob
    BY <2>1 DEF IInv, LoadInv
  <2> QED BY <1>1, <2>1, <2>2, MemoryInv
<1>9. ASSUME Restart PROVE IInv'
  <2>1. /\ events' = <<>> /\ result' = "none" /\ job' = NoJob /\ load' = NoLoad
        /\ UNCHANGED <<disk, lastSave, answer>>
    BY <1>9 DEF Restart
  <2>2. events' \in Seq(Event) /\ Len(events') <= MaxEvents
    BY <2>1, StoreFileAssumption
  <2> QED BY <2>1, <2>2, MemoryInv
<1>10. ASSUME UNCHANGED vars PROVE IInv'
  <2>1. UNCHANGED <<events, result, job, disk, lastSave, answer, load>>
    BY <1>10 DEF vars
  <2>2. TypeOK' /\ BoundInv'
    BY <2>1 DEF IInv, TypeOK, BoundInv, Filtering
  <2>3. LoadInv'
    BY <2>1 DEF IInv, LoadInv, Loading
  <2> QED BY <2>1, <2>2, <2>3, KeptInv DEF IInv
<1> QED
  BY <1>2, <1>3, <1>4, <1>5, <1>6, <1>7, <1>8, <1>9, <1>10, <1>11, ScanInv, ByteInv, FailInv,
     ReturnInv, LoadOpenInv, PageInv DEF Next

\* The invariant holds in every state the program reaches.
THEOREM Invariant == Spec => []IInv
<1> QED BY InvInit, InvStep, PTL DEF Spec

\* Every reachable state of the store, of its running calls and of the files' bytes is
\* well-typed.
THEOREM TypeCorrect == Spec => []TypeOK
<1>1. IInv => TypeOK
  BY DEF IInv
<1> QED BY <1>1, Invariant, PTL

\* Whenever a save or compact is stopped, at whatever byte, its file is a beginning of
\* what it was to write: nothing of an earlier content of the path is left in it.
THEOREM FileIsCut == Spec => []DiskIsCut
<1>1. IInv => DiskIsCut
  <2> SUFFICES ASSUME IInv, NEW path \in Paths, disk[path] # NoFile
               PROVE  IsPrefix(disk[path], Image(lastSave[path].image))
    BY DEF DiskIsCut
  <2>1. /\ CutOf(disk[path], lastSave[path].image)
        /\ Len(disk[path]) <= Len(Image(lastSave[path].image))
        /\ lastSave[path].image \in Seq(Event)
    BY DEF IInv, DiskInv, TypeOK
  <2> QED BY <2>1, CutIsPrefix
<1> QED BY <1>1, Invariant, PTL

\* A load stands at the end of a page at every turn of its loop, whatever bytes the
\* records hold and wherever the file was cut.
THEOREM LoadStaysAligned == Spec => []LoadAligned
<1>1. IInv => LoadAligned
  <2> SUFFICES ASSUME IInv, Loading PROVE LoadAligned
    BY DEF LoadAligned
  <2> DEFINE image == lastSave[load.path].image
  <2>1. /\ image \in Seq(Event)
        /\ \E k \in 0..Len(image) :
             /\ events = First(image, k)
             /\ load.pos = End(image, k) /\ End(image, k) <= Len(load.bytes)
    BY LoadRuns
  <2>2. PICK k \in 0..Len(image) : events = First(image, k) /\ load.pos = End(image, k)
    BY <2>1
  <2> HIDE DEF image
  <2>3. Len(events) = k /\ k <= Len(image) /\ k \in Nat /\ Len(image) \in Nat
    BY <2>1, <2>2, FirstStep
  <2>4. ImageEnd(image, k) = End(image, k)
    BY <2>1, ImageEndIs
  <2>5. ASSUME NEW i \in 1..k PROVE events[i].id = image[i].id
    <3>1. image[i] \in Event
      BY <2>1, <2>3
    <3>2. events[i] = ReadBack(image[i])
      BY <2>2 DEF First
    <3> QED BY <3>1, <3>2, ReadBackType
  <2> QED BY <2>2, <2>3, <2>4, <2>5 DEF LoadAligned, image
<1> QED BY <1>1, Invariant, PTL

-----------------------------------------------------------------------------
(* Refinement: every step of the bytes is a step of the pages, or none.    *)

Files == [path \in Paths |-> FileOf(path)]

\* What RecordStore takes for events_, the result and the running call.
LEMMA Mapped ==
  /\ load = NoLoad => LoadedEvents = events /\ LoadedResult = result
  /\ load' = NoLoad => LoadedEvents' = events' /\ LoadedResult' = result'
  /\ job = NoJob => PagedJob = NoJob
  /\ job' = NoJob => PagedJob' = NoJob
  /\ job # NoJob => PagedJob =
       [phase |-> job.phase, path |-> job.path, next |-> job.next, image |-> job.image]
  /\ job' # NoJob => PagedJob' =
       [phase |-> job'.phase, path |-> job'.path, next |-> job'.next, image |-> job'.image]
  BY DEF LoadedEvents, LoadedResult, PagedJob, Loading

\* An append is an append.
LEMMA AppendMaps ==
  ASSUME IInv, NEW e \in Drafts, AppendEvent(e)
  PROVE  Paged!AppendEvent(e)
<1>1. /\ job = NoJob /\ load = NoLoad /\ Len(events) < MaxEvents
      /\ events' = Append(events, e)
      /\ UNCHANGED <<result, job, disk, lastSave, load, answer>>
  BY DEF AppendEvent, Idle
<1>2. Files' = Files
  BY <1>1 DEF Files, FileOf
<1> QED BY <1>1, <1>2, Mapped DEF Paged!AppendEvent, Files

\* An erase is an erase.
LEMMA EraseMaps ==
  ASSUME IInv, NEW id \in Ids, EraseId(id)
  PROVE  Paged!EraseId(id)
<1>1. /\ job = NoJob /\ load = NoLoad
      /\ UNCHANGED <<result, job, disk, lastSave, load, answer>>
  BY DEF EraseId, Idle
<1>2. PICK i \in 1..Len(events) :
        /\ events[i].id = id /\ IsLive(events[i])
        /\ \A j \in 1..(i - 1) : ~(events[j].id = id /\ IsLive(events[j]))
        /\ events' = [events EXCEPT ![i].tombstone = TRUE]
  BY DEF EraseId
<1>3. Files' = Files
  BY <1>1 DEF Files, FileOf
<1>4. LoadedEvents = events /\ LoadedEvents' = events' /\ LoadedResult' = LoadedResult
      /\ PagedJob = NoJob /\ PagedJob' = NoJob
  BY <1>1, Mapped
<1>5. \A e : Paged!IsLive(e) = IsLive(e)
  BY DEF IsLive, Paged!IsLive
<1>6. /\ i \in 1..Len(LoadedEvents) /\ LoadedEvents[i].id = id /\ Paged!IsLive(LoadedEvents[i])
      /\ \A j \in 1..(i - 1) : ~(LoadedEvents[j].id = id /\ Paged!IsLive(LoadedEvents[j]))
      /\ LoadedEvents' = [LoadedEvents EXCEPT ![i].tombstone = TRUE]
  BY <1>2, <1>4, <1>5
<1> QED BY <1>1, <1>3, <1>4, <1>6 DEF Paged!EraseId, Files

\* What RecordStore takes for the file at a path.
Shown == \A path \in Paths :
  \/ disk[path] = NoFile /\ FileOf(path) = NoFile
  \/ LET image == lastSave[path].image
         size  == Len(disk[path])
     IN  /\ disk[path] # NoFile /\ image \in Seq(Event)
         /\ size \in Nat /\ size <= Len(Image(image))
         /\ FileOf(path) = CutAt(image, size)
         /\ FileOf(path) \in File /\ FileOf(path) # NoFile

\* It is a beginning of the image of the last call, as RecordStore sees it.
LEMMA FilesShown == IInv => Shown
<1> SUFFICES ASSUME IInv, NEW path \in Paths, disk[path] # NoFile
             PROVE  LET image == lastSave[path].image
                        size  == Len(disk[path])
                    IN  /\ image \in Seq(Event)
                        /\ size \in Nat /\ size <= Len(Image(image))
                        /\ FileOf(path) = CutAt(image, size)
                        /\ FileOf(path) \in File /\ FileOf(path) # NoFile
  <2>1. \A path \in Paths : disk[path] = NoFile => FileOf(path) = NoFile
    BY DEF FileOf
  <2> QED BY <2>1 DEF Shown
<1> DEFINE image == lastSave[path].image
           size  == Len(disk[path])
<1>1. /\ image \in Seq(Event) /\ image \in Images
      /\ size \in Nat /\ size <= Len(Image(image)) /\ Len(Image(image)) \in Nat
  <2>1. image \in Seq(Event) /\ Len(image) <= MaxEvents
    BY DEF IInv, TypeOK, BoundInv
  <2>2. disk[path] \in Seq(Byte) /\ size <= Len(Image(image))
    BY DEF IInv, DiskInv
  <2> HIDE DEF image
  <2> QED BY <2>1, <2>2, ImageFits, ImageType
<1>2. FileOf(path) = CutAt(image, size)
  <2>1. FileOf(path) = Cuts[image][size]
    BY DEF FileOf
  <2>2. Cuts[image] = CutsOf(image)
    BY <1>1 DEF Cuts
  <2>3. CutsOf(image)[size] = CutAt(image, size)
    <3> HIDE DEF image, size
    <3> QED BY <1>1 DEF CutsOf
  <2> QED BY <2>1, <2>2, <2>3
<1>3. CutAt(image, size) \in File
  <2> HIDE DEF image, size
  <2> QED BY <1>1, CutType
<1> QED BY <1>1, <1>2, <1>3, ImagesAssumption

\* So it is after a step.
LEMMA FilesShownNext == IInv' => Shown'
  BY FilesShown, PTL

\* A file stays as it is when its bytes and the image do.
LEMMA FileKept ==
  ASSUME NEW path, disk'[path] = disk[path], lastSave'[path].image = lastSave[path].image
  PROVE  FileOf(path)' = FileOf(path)
  BY DEF FileOf

\* A step that changes one file.
LEMMA FilesChange ==
  ASSUME NEW path \in Paths, NEW f, FileOf(path)' = f,
         \A p \in Paths : p # path => FileOf(p)' = FileOf(p)
  PROVE  Files' = [Files EXCEPT ![path] = f]
  BY DEF Files

\* Opening a file for writing makes it empty.
LEMMA OpenMaps ==
  ASSUME IInv, load = NoLoad, NEW path \in Paths, NEW image \in Seq(Event),
         Len(image) <= MaxEvents, OpenForWrite(path, image)
  PROVE  Paged!OpenForWrite(path, image)
<1> DEFINE begun == [phase |-> "write", path |-> path, next |-> 1, image |-> image,
                     out |-> Image(image)]
<1>1. /\ job' = begun /\ disk' = [disk EXCEPT ![path] = <<>>]
      /\ lastSave' = [lastSave EXCEPT ![path] =
           [image |-> image, failed |-> FALSE, returned |-> FALSE]]
      /\ answer' = [answer EXCEPT ![path] = LiveEvents(events)]
      /\ events' = events /\ result' = result /\ load' = NoLoad
  BY DEF OpenForWrite
<1>2. IInv'
  BY OpenInv
<1>3. job' # NoJob
  <2>1. begun \in Job
    <3>1. Image(image) \in Seq(Byte)
      BY ImageType
    <3> QED BY <3>1 DEF Job
  <2> QED BY <1>1, <2>1, StoreFileAssumption
<1>4. PagedJob' = [phase |-> "write", path |-> path, next |-> 1, image |-> image]
  <2>1. /\ job'.phase = "write" /\ job'.path = path /\ job'.next = 1 /\ job'.image = image
    BY <1>1
  <2> QED BY <1>3, <2>1, Mapped
<1>5. disk'[path] = <<>> /\ lastSave'[path].image = image
  BY <1>1 DEF IInv, DiskInv, TypeOK
<1>6. FileOf(path)' = EmptyFile
  <2>1. Len(<<>>) = 0 /\ 0 \in Nat /\ ~(Len(Header) <= 0)
    BY ImageAssumption
  <2>2. disk'[path] # NoFile
    <3>1. <<>> \in Seq(Byte)
      OBVIOUS
    <3> QED BY <1>5, <3>1, StoreFileAssumption
  <2>3. FileOf(path)' = CutAt(image, 0)
    <3>1. Shown'
      BY <1>2, FilesShownNext
    <3> QED BY <1>5, <2>1, <2>2, <3>1 DEF Shown
  <2> QED BY <2>1, <2>3, CutInHeader
<1>7. ASSUME NEW p \in Paths, p # path PROVE FileOf(p)' = FileOf(p)
  <2>1. disk'[p] = disk[p] /\ lastSave'[p] = lastSave[p]
    BY <1>1, <1>7 DEF IInv, DiskInv, TypeOK
  <2> QED BY <2>1, FileKept
<1>8. Files' = [Files EXCEPT ![path] = EmptyFile]
  BY <1>6, <1>7, FilesChange
<1>9. LiveEvents(events) = Paged!LiveEvents(events)
  BY DEF LiveEvents, Paged!LiveEvents, IsLive, Paged!IsLive
<1>10. LoadedEvents = events /\ LoadedEvents' = events /\ LoadedResult' = LoadedResult
  BY <1>1, Mapped
<1> HIDE DEF begun
<1> QED BY <1>1, <1>4, <1>8, <1>9, <1>10
     DEF Paged!OpenForWrite, Paged!EmptyFile, EmptyFile, Files

\* A save that starts.
LEMMA SaveMaps ==
  ASSUME IInv, NEW path \in Paths, SaveOpen(path)
  PROVE  Paged!SaveOpen(path)
<1>1. /\ job = NoJob /\ load = NoLoad /\ OpenForWrite(path, events)
      /\ events \in Seq(Event) /\ Len(events) <= MaxEvents
  BY DEF SaveOpen, Idle, IInv, TypeOK, BoundInv
<1>2. PagedJob = NoJob /\ LoadedEvents = events
  BY <1>1, Mapped
<1>3. Paged!OpenForWrite(path, events)
  BY <1>1, OpenMaps
<1> QED BY <1>2, <1>3 DEF Paged!SaveOpen

\* A compact that starts.
LEMMA CompactMaps ==
  ASSUME IInv, NEW path \in Paths, CompactBegin(path)
  PROVE  Paged!CompactBegin(path)
<1> DEFINE begun == [phase |-> "filter", path |-> path, next |-> 1, image |-> <<>>, out |-> <<>>]
<1>1. /\ job = NoJob /\ load = NoLoad /\ job' = begun
      /\ UNCHANGED <<events, result, disk, lastSave, load, answer>>
  BY DEF CompactBegin, Idle
<1>2. begun \in Job
  BY DEF Job
<1>3. job' # NoJob
  <2> HIDE DEF begun
  <2> QED BY <1>1, <1>2, StoreFileAssumption
<1>4. PagedJob = NoJob
      /\ PagedJob' = [phase |-> "filter", path |-> path, next |-> 1, image |-> <<>>]
  <2>1. /\ job'.phase = "filter" /\ job'.path = path /\ job'.next = 1 /\ job'.image = <<>>
    BY <1>1
  <2> QED BY <1>1, <1>3, <2>1, Mapped
<1>5. Files' = Files
  BY <1>1 DEF Files, FileOf
<1>6. LoadedEvents' = LoadedEvents /\ LoadedResult' = LoadedResult
  BY <1>1, Mapped
<1> QED BY <1>1, <1>4, <1>5, <1>6 DEF Paged!CompactBegin, Files

\* A running call that has not ended is one for RecordStore.
LEMMA JobMaps ==
  ASSUME IInv, job # NoJob
  PROVE  /\ job \in Job /\ load = NoLoad /\ PagedJob # NoJob
         /\ PagedJob.phase = job.phase /\ PagedJob.path = job.path
         /\ PagedJob.next = job.next /\ PagedJob.image = job.image
         /\ LoadedEvents = events /\ LoadedResult = result
         /\ Paged!Filtering <=> Filtering
         /\ Paged!Writing <=> Writing
<1> DEFINE j == [phase |-> job.phase, path |-> job.path, next |-> job.next, image |-> job.image]
<1>1. job \in Job /\ load = NoLoad
  BY JobRuns
<1>2. PagedJob = j /\ LoadedEvents = events /\ LoadedResult = result
  BY <1>1, Mapped
<1>3. j \in [phase: {"filter", "write"}, path: Paths, next: Nat \ {0}, image: Seq(Event)]
  BY <1>1 DEF Job
<1>4. j.phase = job.phase /\ j.path = job.path /\ j.next = job.next /\ j.image = job.image
  OBVIOUS
<1> HIDE DEF j
<1>5. PagedJob # NoJob
  BY <1>2, <1>3, ImagesAssumption
<1> QED BY <1>1, <1>2, <1>4, <1>5 DEF Paged!Filtering, Paged!Writing, Filtering, Writing

\* A turn of the loop of compact is one.
LEMMA ScanMaps ==
  ASSUME IInv, CompactScan
  PROVE  Paged!CompactScan
<1> DEFINE e == events[job.next]
           image == IF IsLive(e) THEN Append(job.image, e) ELSE job.image
<1>1. /\ Filtering /\ job # NoJob /\ job.next <= Len(events)
      /\ job' = [job EXCEPT !.next = job.next + 1, !.image = image]
      /\ UNCHANGED <<events, result, disk, lastSave, load, answer>>
  BY DEF CompactScan, Filtering
<1>2. /\ job \in Job /\ load = NoLoad /\ PagedJob # NoJob
      /\ PagedJob = [phase |-> job.phase, path |-> job.path, next |-> job.next, image |-> job.image]
      /\ PagedJob.phase = job.phase /\ PagedJob.path = job.path
      /\ PagedJob.next = job.next /\ PagedJob.image = job.image
      /\ LoadedEvents = events /\ LoadedResult = result /\ Paged!Filtering
  BY <1>1, JobMaps, Mapped
<1>3. job.next + 1 \in Nat \ {0} /\ image \in Seq(Event)
  <2>1. job.next \in Nat \ {0} /\ job.image \in Seq(Event) /\ events \in Seq(Event)
    BY <1>2 DEF Job, IInv, TypeOK
  <2>2. e \in Event
    BY <1>1, <2>1
  <2>3. Append(job.image, e) \in Seq(Event)
    BY <2>1, <2>2, AppendProperties
  <2> HIDE DEF e
  <2> QED BY <2>1, <2>3
<1> HIDE DEF image
<1>4. /\ job' \in Job /\ job'.phase = job.phase /\ job'.path = job.path
      /\ job'.next = job.next + 1 /\ job'.image = image
  BY <1>1, <1>2, <1>3 DEF Job
<1>5. PagedJob' = [phase |-> job.phase, path |-> job.path, next |-> job.next + 1, image |-> image]
  <2>1. job' # NoJob
    BY <1>4, StoreFileAssumption
  <2> QED BY <1>4, <2>1, Mapped
<1>6. [PagedJob EXCEPT !.next = @ + 1, !.image = image] =
        [phase |-> job.phase, path |-> job.path, next |-> job.next + 1, image |-> image]
  <2> DEFINE next == job.next + 1
             p == [PagedJob EXCEPT !.next = next]
  <2>1. PagedJob \in [phase: {job.phase}, path: {job.path}, next: Nat \ {0}, image: Seq(Event)]
    BY <1>2 DEF Job
  <2>2. p = [phase |-> job.phase, path |-> job.path, next |-> next, image |-> job.image]
    <3> HIDE DEF next
    <3> QED BY <1>2, <2>1
  <2>3. p \in [phase: {job.phase}, path: {job.path}, next: {next}, image: {job.image}]
    <3> HIDE DEF p, next
    <3> QED BY <2>2
  <2> HIDE DEF p, next
  <2>4. [p EXCEPT !.image = image] = [phase |-> p.phase, path |-> p.path, next |-> p.next, image |-> image]
    BY <2>3
  <2>5. /\ p.phase = job.phase /\ p.path = job.path /\ p.next = next
    BY <2>3
  <2>6. [p EXCEPT !.image = image] =
          [phase |-> job.phase, path |-> job.path, next |-> next, image |-> image]
    BY <2>4, <2>5
  <2> QED BY <1>2, <2>6 DEF p, next
<1>7. image = IF Paged!IsLive(LoadedEvents[PagedJob.next])
              THEN Append(PagedJob.image, LoadedEvents[PagedJob.next]) ELSE PagedJob.image
  BY <1>2 DEF image, IsLive, Paged!IsLive
<1>8. Files' = Files
  BY <1>1 DEF Files, FileOf
<1>9. LoadedEvents' = LoadedEvents /\ LoadedResult' = LoadedResult
  BY <1>1, <1>2, Mapped
<1>10. PagedJob' = [PagedJob EXCEPT
         !.next = @ + 1,
         !.image = IF Paged!IsLive(LoadedEvents[PagedJob.next])
                   THEN Append(@, LoadedEvents[PagedJob.next]) ELSE @]
  <2> SUFFICES PagedJob' = [PagedJob EXCEPT !.next = @ + 1, !.image =
        IF Paged!IsLive(LoadedEvents[PagedJob.next])
        THEN Append(PagedJob.image, LoadedEvents[PagedJob.next]) ELSE PagedJob.image]
    OBVIOUS
  <2> QED BY <1>5, <1>6, <1>7
<1>11. PagedJob.next <= Len(LoadedEvents)
  BY <1>1, <1>2
<1> QED BY <1>1, <1>2, <1>8, <1>9, <1>10, <1>11 DEF Paged!CompactScan, Files

\* A compact that has passed all events opens its file.
LEMMA CompactOpenMaps ==
  ASSUME IInv, CompactOpen
  PROVE  Paged!CompactOpen
<1>1. Filtering /\ job # NoJob /\ job.next > Len(events) /\ OpenForWrite(job.path, job.image)
  BY DEF CompactOpen, Filtering
<1>2. /\ job \in Job /\ load = NoLoad /\ PagedJob.path = job.path
      /\ PagedJob.next = job.next /\ PagedJob.image = job.image
      /\ LoadedEvents = events /\ Paged!Filtering
  BY <1>1, JobMaps
<1>3. job.path \in Paths /\ job.image \in Seq(Event) /\ Len(job.image) <= MaxEvents
  <2>1. job.path \in Paths /\ job.image \in Seq(Event) /\ job.next \in Nat
    BY <1>2 DEF Job
  <2>2. job.next <= Len(events) + 1 /\ Len(job.image) < job.next /\ Len(events) <= MaxEvents
        /\ events \in Seq(Event)
    BY <1>1 DEF IInv, TypeOK, BoundInv
  <2>3. Len(job.image) \in Nat /\ Len(events) \in Nat
    BY <2>1, <2>2
  <2> QED BY <2>1, <2>2, <2>3, StoreFileAssumption
<1>4. Paged!OpenForWrite(job.path, job.image)
  BY <1>2, <1>3, <1>1, OpenMaps
<1> QED BY <1>1, <1>2, <1>4 DEF Paged!CompactOpen

\* One whose file cannot be opened ends.
LEMMA RefusedMaps ==
  ASSUME IInv, CompactRefused
  PROVE  Paged!CompactRefused
<1>1. /\ Filtering /\ job # NoJob /\ job.next > Len(events) /\ job' = NoJob
      /\ UNCHANGED <<events, result, disk, lastSave, load, answer>>
  BY DEF CompactRefused, Filtering
<1>2. /\ load = NoLoad /\ PagedJob.next = job.next
      /\ LoadedEvents = events /\ LoadedResult = result /\ Paged!Filtering
  BY <1>1, JobMaps
<1>3. LoadedEvents' = LoadedEvents /\ LoadedResult' = LoadedResult /\ PagedJob' = NoJob
  BY <1>1, <1>2, Mapped
<1>4. Files' = Files
  BY <1>1 DEF Files, FileOf
<1> QED BY <1>1, <1>2, <1>3, <1>4 DEF Paged!CompactRefused, Files

\* The file of a running write, as RecordStore sees it.
LEMMA WriteMaps ==
  ASSUME IInv, Writing
  PROVE  LET image == job.image
             size  == Len(disk[job.path])
         IN  /\ job.path \in Paths /\ image \in Seq(Event) /\ size \in Nat
             /\ image = lastSave[job.path].image
             /\ size + Len(job.out) = Len(Image(image)) /\ Len(job.out) \in Nat
             /\ job.out # <<>> <=> size < Len(Image(image))
             /\ FileOf(job.path) = CutAt(image, size)
             /\ FileOf(job.path) \in File /\ FileOf(job.path) # NoFile
             /\ Paged!Writing /\ PagedJob.path = job.path /\ PagedJob.image = image
             /\ LoadedEvents = events /\ LoadedResult = result /\ load = NoLoad /\ job # NoJob
<1> DEFINE d == disk[job.path]
           size == Len(d)
           all == Image(job.image)
<1>1. /\ job \in Job /\ job # NoJob /\ load = NoLoad
      /\ job.path \in Paths /\ job.image \in Seq(Event) /\ job.out \in Seq(Byte)
      /\ d \in Seq(Byte) /\ d # NoFile /\ job.image = lastSave[job.path].image
      /\ all \in Seq(Byte) /\ Rest(d, job.out, all)
  BY WriteRuns
<1>2. size \in Nat /\ Len(job.out) \in Nat /\ Len(all) \in Nat /\ size + Len(job.out) = Len(all)
      /\ (job.out # <<>> <=> Len(job.out) # 0)
  <2>1. ASSUME NEW s \in Seq(Byte) PROVE Len(s) \in Nat /\ (s # <<>> <=> Len(s) # 0)
    OBVIOUS
  <2>2. size \in Nat /\ Len(job.out) \in Nat /\ Len(all) \in Nat /\ (job.out # <<>> <=> Len(job.out) # 0)
    BY <1>1, <2>1
  <2>3. size + Len(job.out) = Len(all)
    BY <1>1 DEF Rest
  <2> QED BY <2>2, <2>3
<1>3. job.out # <<>> <=> size < Len(all)
  <2> DEFINE m == Len(job.out)
             n == Len(all)
  <2>1. size \in Nat /\ m \in Nat /\ n \in Nat /\ size + m = n
    BY <1>2
  <2> HIDE DEF m, n, size
  <2>2. m # 0 <=> size < n
    BY <2>1
  <2> QED BY <1>2, <2>2 DEF m, n
<1>4. /\ FileOf(job.path) = CutAt(job.image, size)
      /\ FileOf(job.path) \in File /\ FileOf(job.path) # NoFile
  <2>1. Shown
    BY FilesShown
  <2> QED BY <1>1, <2>1 DEF Shown
<1>5. /\ Paged!Writing /\ PagedJob.path = job.path /\ PagedJob.image = job.image
      /\ LoadedEvents = events /\ LoadedResult = result
  BY <1>1, JobMaps
<1> QED BY <1>1, <1>2, <1>3, <1>4, <1>5

\* What a byte makes of the file is a write of RecordStore, or nothing it could tell.
LEMMA GrowthMaps ==
  ASSUME NEW path \in Paths, NEW image, NEW f \in File, NEW g,
         Paged!Writing, ~lastSave[path].failed, PagedJob.path = path, PagedJob.image = image,
         Files[path] = f, Files' = [Files EXCEPT ![path] = g], Grows(f, g, image),
         UNCHANGED <<LoadedEvents, LoadedResult, PagedJob, lastSave, answer>>
  PROVE  \/ Paged!WriteHeader \/ Paged!WriteLength \/ Paged!WritePage
         \/ Files' = Files
<1>1. ASSUME NEW h, Files' = [Files EXCEPT ![path] = h] PROVE Paged!WriteTo(h)
  BY <1>1 DEF Paged!WriteTo, Files
<1>2. CASE g = f
  BY <1>2 DEF Files
<1>3. CASE ~f.header /\ g = [f EXCEPT !.header = TRUE]
  <2>1. Paged!WriteTo([Files[PagedJob.path] EXCEPT !.header = TRUE])
    BY <1>1, <1>3
  <2> QED BY <1>3, <2>1 DEF Paged!WriteHeader, Files
<1>4. CASE /\ f.header /\ Len(f.pages) < Len(image)
           /\ f.tail = "none" /\ \E t \in {"varint", "page"} : g = [f EXCEPT !.tail = t]
  <2>1. PICK t \in {"varint", "page"} : g = [f EXCEPT !.tail = t]
    BY <1>4
  <2>2. Paged!WriteTo([Files[PagedJob.path] EXCEPT !.tail = t])
    BY <1>1, <2>1
  <2> QED BY <1>4, <2>2 DEF Paged!WriteLength, Files
<1>5. CASE /\ f.header /\ Len(f.pages) < Len(image)
           /\ f.tail = "varint" /\ g = [f EXCEPT !.tail = "page"]
  <2>1. Paged!WriteTo([Files[PagedJob.path] EXCEPT !.tail = "page"])
    BY <1>1, <1>5
  <2> QED BY <1>5, <2>1 DEF Paged!WriteLength, Files
<1>6. CASE /\ f.header /\ Len(f.pages) < Len(image) /\ f.tail = "page"
           /\ g = [f EXCEPT !.pages = Append(@, image[Len(@) + 1]), !.tail = "none"]
  <2>1. Paged!WriteTo([Files[PagedJob.path] EXCEPT
          !.pages = Append(@, PagedJob.image[Len(@) + 1]), !.tail = "none"])
    BY <1>1, <1>6
  <2> QED BY <1>6, <2>1 DEF Paged!WritePage, Files
<1> QED BY <1>2, <1>3, <1>4, <1>5, <1>6 DEF Grows

\* A byte of the image.
LEMMA ByteMaps ==
  ASSUME IInv, WriteByte
  PROVE  \/ Paged!WriteHeader \/ Paged!WriteLength \/ Paged!WritePage
         \/ UNCHANGED Paged!vars
<1> SUFFICES ASSUME NEW path, path = job.path, NEW image, image = job.image,
                    NEW size, size = Len(disk[path])
             PROVE  \/ Paged!WriteHeader \/ Paged!WriteLength \/ Paged!WritePage
                    \/ UNCHANGED Paged!vars
  OBVIOUS
<1> DEFINE f == CutAt(image, size)
           g == CutAt(image, size + 1)
<1>1. Writing /\ job.out # <<>> /\ ~lastSave[path].failed
  BY DEF WriteByte
<1>2. /\ path \in Paths /\ image \in Seq(Event) /\ size \in Nat /\ size < Len(Image(image))
      /\ image = lastSave[path].image
      /\ FileOf(path) = f /\ f \in File
      /\ Paged!Writing /\ PagedJob.path = path /\ PagedJob.image = image
      /\ LoadedEvents = events /\ LoadedResult = result /\ load = NoLoad /\ job # NoJob
  BY <1>1, WriteMaps
<1>3. /\ disk' = [disk EXCEPT ![path] = Append(@, Head(job.out))]
      /\ job' = [job EXCEPT !.out = Tail(job.out)]
      /\ UNCHANGED <<events, result, lastSave, load, answer>>
  BY DEF WriteByte
<1>4. IInv'
  BY ByteInv
<1>5. disk'[path] \in Seq(Byte) /\ Len(disk'[path]) = size + 1 /\ disk'[path] # NoFile
  <2>1. disk[path] \in Seq(Byte) /\ job.out \in Seq(Byte)
    BY <1>1, WriteRuns
  <2>2. Head(job.out) \in Byte
    BY <1>1, <2>1, HeadTailProperties
  <2>3. disk'[path] = Append(disk[path], Head(job.out))
    BY <1>2, <1>3 DEF IInv, DiskInv
  <2>4. disk'[path] \in Seq(Byte) /\ Len(disk'[path]) = size + 1
    BY <2>1, <2>2, <2>3, AppendProperties
  <2> QED BY <2>4, StoreFileAssumption
<1>6. FileOf(path)' = g
  <2>1. Shown'
    BY <1>4, FilesShownNext
  <2>2. lastSave'[path].image = image
    BY <1>2, <1>3
  <2> QED BY <1>2, <1>5, <2>1, <2>2 DEF Shown
<1>7. ASSUME NEW p \in Paths, p # path PROVE FileOf(p)' = FileOf(p)
  <2>1. disk'[p] = disk[p] /\ lastSave'[p] = lastSave[p]
    BY <1>3, <1>7 DEF IInv, DiskInv
  <2> QED BY <2>1, FileKept
<1>8. Files' = [Files EXCEPT ![path] = g] /\ Files[path] = f
  <2>1. Files[path] = f
    BY <1>2 DEF Files
  <2> HIDE DEF g
  <2> QED BY <1>2, <1>6, <1>7, <2>1, FilesChange
<1>9. Grows(f, g, image)
  <2> SUFFICES ASSUME NEW x, x = f, NEW y, y = g PROVE Grows(x, y, image)
    OBVIOUS
  <2> QED BY <1>2, CutGrows
<1>10. UNCHANGED <<LoadedEvents, LoadedResult, PagedJob, lastSave, answer>>
  <2>1. /\ job' # NoJob /\ job'.phase = job.phase /\ job'.path = job.path
        /\ job'.next = job.next /\ job'.image = job.image
    <3>1. job \in Job
      BY <1>1, WriteRuns
    <3>2. job.out \in Seq(Byte) /\ Tail(job.out) \in Seq(Byte)
      <4>1. job.out \in Seq(Byte)
        BY <3>1 DEF Job
      <4> QED BY <1>1, <4>1, HeadTailProperties
    <3>3. job' \in Job
      BY <1>3, <3>1, <3>2 DEF Job
    <3>4. job'.phase = job.phase /\ job'.path = job.path /\ job'.next = job.next
          /\ job'.image = job.image
      BY <1>3, <3>1 DEF Job
    <3> QED BY <3>3, <3>4, StoreFileAssumption
  <2>2. LoadedEvents' = events' /\ LoadedResult' = result'
    BY <1>2, <1>3, Mapped
  <2>3. PagedJob' = PagedJob
    BY <1>2, <2>1, Mapped
  <2> QED BY <1>2, <1>3, <2>2, <2>3
<1> HIDE DEF f, g
<1>11. \/ Paged!WriteHeader \/ Paged!WriteLength \/ Paged!WritePage
       \/ Files' = Files
  BY <1>1, <1>2, <1>8, <1>9, <1>10, GrowthMaps
<1> QED BY <1>10, <1>11 DEF Paged!vars, Files

\* The end of a call, and a write that fails, are those of RecordStore: nothing is left
\* to write when the file is complete, and something is when it is not.
LEMMA CompleteMaps ==
  ASSUME IInv, Writing
  PROVE  Paged!Complete(job.path) <=> job.out = <<>>
<1> SUFFICES ASSUME NEW path, path = job.path, NEW image, image = job.image,
                    NEW size, size = Len(disk[path]), NEW f, f = FileOf(path)
             PROVE  Paged!Complete(path) <=> job.out = <<>>
  OBVIOUS
<1>1. /\ path \in Paths /\ image \in Seq(Event) /\ size \in Nat
      /\ image = lastSave[path].image
      /\ job.out # <<>> <=> size < Len(Image(image))
      /\ size + Len(job.out) = Len(Image(image)) /\ Len(job.out) \in Nat
      /\ f = CutAt(image, size) /\ f \in File /\ f # NoFile
  BY WriteMaps
<1>2. Paged!Complete(path) <=> f.header /\ f.tail = "none" /\ Len(f.pages) = Len(image)
  BY <1>1 DEF Paged!Complete
<1>3. CASE job.out # <<>>
  <2>1. ~(f.header /\ f.tail = "none" /\ Len(f.pages) = Len(image))
    <3>1. size < Len(Image(image))
      BY <1>1, <1>3
    <3> QED BY <1>1, <3>1, CutGrows
  <2> QED BY <1>2, <1>3, <2>1
<1>4. CASE job.out = <<>>
  <2>1. size = Len(Image(image)) /\ size <= Len(Image(image)) /\ Len(image) \in Nat
    <3>1. Len(job.out) = 0
      BY <1>4
    <3> QED BY <1>1, <3>1
  <2>2. Len(Header) <= size /\ WholePages(size, image, Len(image))
    <3>1. End(image, 0) = Len(Header) /\ End(image, Len(image)) = size
          /\ 0 \in 0..Len(image) /\ Len(image) \in 0..Len(image)
      BY <1>1, <2>1, EndStep
    <3>2. Len(image) = 0 \/ End(image, 0) < End(image, Len(image))
      BY <1>1, <2>1, <3>1, EndsGrow
    <3>3. Len(Header) \in Nat
      BY ImageAssumption
    <3> QED BY <1>1, <2>1, <3>1, <3>2, <3>3 DEF WholePages
  <2>3. f = [header |-> TRUE, pages |-> SubSeq(image, 1, Len(image)),
             tail |-> TailAfter(size, image, Len(image))]
    <3>1. Len(image) \in 0..Len(image)
      BY <2>1
    <3> QED BY <1>1, <2>1, <2>2, <3>1, CutInPages
  <2>4. SubSeq(image, 1, Len(image)) = image
    BY <1>1, SubSeqFull
  <2>5. TailAfter(size, image, Len(image)) = "none"
    <3>1. End(image, Len(image)) = size
      BY <1>1, <2>1, EndStep
    <3> QED BY <1>1, <3>1 DEF TailAfter
  <2> QED BY <1>2, <1>4, <2>3, <2>4, <2>5
<1> QED BY <1>3, <1>4

\* A write that fails.
LEMMA FailMaps ==
  ASSUME IInv, WriteFails
  PROVE  Paged!WriteFails
<1>1. /\ Writing /\ job.out # <<>> /\ ~lastSave[job.path].failed
      /\ lastSave' = [lastSave EXCEPT ![job.path].failed = TRUE]
      /\ UNCHANGED <<events, result, job, disk, load, answer>>
  BY DEF WriteFails
<1>2. /\ Paged!Writing /\ PagedJob.path = job.path
      /\ LoadedEvents = events /\ LoadedResult = result /\ load = NoLoad /\ job # NoJob
      /\ job.path \in Paths
  BY <1>1, WriteMaps
<1>3. LoadedEvents' = LoadedEvents /\ LoadedResult' = LoadedResult /\ PagedJob' = PagedJob
  <2>1. job' = job /\ load' = NoLoad /\ events' = events /\ result' = result
    BY <1>1, <1>2
  <2> QED BY <1>2, <2>1, Mapped
<1>4. Files' = Files
  <2>1. ASSUME NEW p \in Paths PROVE FileOf(p)' = FileOf(p)
    <3>1. disk'[p] = disk[p] /\ lastSave'[p].image = lastSave[p].image
      BY <1>1, <1>2 DEF IInv, TypeOK
    <3> QED BY <3>1, FileKept
  <2> QED BY <2>1 DEF Files
<1>5. ~Paged!Complete(job.path)
  BY <1>1, CompleteMaps
<1> QED BY <1>1, <1>2, <1>3, <1>4, <1>5 DEF Paged!WriteFails, Files

\* A save that returns.
LEMMA ReturnMaps ==
  ASSUME IInv, SaveReturn
  PROVE  Paged!SaveReturn
<1>1. /\ Writing /\ (job.out = <<>> \/ lastSave[job.path].failed)
      /\ lastSave' = [lastSave EXCEPT ![job.path].returned = TRUE] /\ job' = NoJob
      /\ UNCHANGED <<events, result, disk, load, answer>>
  BY DEF SaveReturn
<1>2. /\ Paged!Writing /\ PagedJob.path = job.path
      /\ LoadedEvents = events /\ LoadedResult = result /\ load = NoLoad /\ job # NoJob
      /\ job.path \in Paths
  BY <1>1, WriteMaps
<1>3. LoadedEvents' = LoadedEvents /\ LoadedResult' = LoadedResult /\ PagedJob' = NoJob
  <2>1. job' = NoJob /\ load' = NoLoad /\ events' = events /\ result' = result
    BY <1>1, <1>2
  <2> QED BY <1>2, <2>1, Mapped
<1>4. Files' = Files
  <2>1. ASSUME NEW p \in Paths PROVE FileOf(p)' = FileOf(p)
    <3>1. disk'[p] = disk[p] /\ lastSave'[p].image = lastSave[p].image
      BY <1>1, <1>2 DEF IInv, TypeOK
    <3> QED BY <3>1, FileKept
  <2> QED BY <2>1 DEF Files
<1>5. Paged!Complete(job.path) \/ lastSave[job.path].failed
  BY <1>1, CompleteMaps
<1> QED BY <1>1, <1>2, <1>3, <1>4, <1>5 DEF Paged!SaveReturn, Files

\* What RecordStore has loaded while a load still reads: the pages that are whole in the
\* file, and the result for what follows them.
LEMMA LoadingMaps ==
  ASSUME IInv, Loading, NEW image, image = lastSave[load.path].image,
         NEW k \in 0..Len(image), WholePages(Len(load.bytes), image, k)
  PROVE  LoadedEvents = First(image, k) /\ LoadedResult = ResultAfter(Len(load.bytes), image, k)
<1> DEFINE size == Len(load.bytes)
           f == FileOf(load.path)
<1>1. /\ load.path \in Paths /\ disk[load.path] # NoFile /\ load.bytes = disk[load.path]
      /\ image \in Seq(Event) /\ size <= Len(Image(image)) /\ size \in Nat
  BY LoadRuns
<1>2. f = CutAt(image, size)
  <2>1. Shown
    BY FilesShown
  <2> QED BY <1>1, <2>1 DEF Shown
<1>3. f = [header |-> TRUE, pages |-> SubSeq(image, 1, k), tail |-> TailAfter(size, image, k)]
  <2> HIDE DEF size
  <2> QED BY <1>1, <1>2, CutInPages DEF size
<1>4. Len(SubSeq(image, 1, k)) = k /\ \A i \in 1..k : SubSeq(image, 1, k)[i] = image[i]
  <2>1. k \in Nat /\ k <= Len(image) /\ Len(image) \in Nat
    BY <1>1
  <2> QED BY <1>1, <2>1, SubSeqProperties
<1> HIDE DEF f, size
<1>5. LoadedEvents = First(image, k)
  <2> DEFINE s == SubSeq(image, 1, k)
  <2>1. LoadedEvents = [i \in 1..Len(f.pages) |->
          [f.pages[i] EXCEPT !.fields = IF @ <= FieldLimit THEN @ ELSE FieldLimit]]
    BY DEF LoadedEvents, f
  <2>2. f.pages = s
    BY <1>3
  <2>3. LoadedEvents = [i \in 1..k |->
          [s[i] EXCEPT !.fields = IF @ <= FieldLimit THEN @ ELSE FieldLimit]]
    <3>1. Len(s) = k
      BY <1>4
    <3> HIDE DEF s
    <3> QED BY <2>1, <2>2, <3>1
  <2>4. LoadedEvents = [i \in 1..k |-> ReadBack(s[i])]
    <3> HIDE DEF s
    <3> QED BY <2>3 DEF ReadBack
  <2> QED BY <1>4, <2>4 DEF First
<1>6. LoadedResult = ResultAfter(size, image, k)
  <2>1. LoadedResult = [none |-> "ok", varint |-> "invalid_format", page |-> "truncated_input"][f.tail]
    BY DEF LoadedResult, f
  <2>2. f.tail = TailAfter(size, image, k)
    BY <1>3
  <2>3. CASE size <= End(image, k)
    <3>1. TailAfter(size, image, k) = "none" /\ ResultAfter(size, image, k) = "ok"
      BY <2>3 DEF TailAfter, ResultAfter
    <3> QED BY <2>1, <2>2, <3>1
  <2>4. CASE ~(size <= End(image, k)) /\ ~(End(image, k) + Len(LengthBytes(image[k + 1])) <= size)
    <3>1. TailAfter(size, image, k) = "varint" /\ ResultAfter(size, image, k) = "invalid_format"
      BY <2>4 DEF TailAfter, ResultAfter
    <3> QED BY <2>1, <2>2, <3>1
  <2>5. CASE ~(size <= End(image, k)) /\ End(image, k) + Len(LengthBytes(image[k + 1])) <= size
    <3>1. TailAfter(size, image, k) = "page" /\ ResultAfter(size, image, k) = "truncated_input"
      BY <2>5 DEF TailAfter, ResultAfter
    <3> QED BY <2>1, <2>2, <3>1
  <2> QED BY <2>3, <2>4, <2>5
<1> QED BY <1>5, <1>6 DEF size

\* A load that is refused.
LEMMA RefuseMaps ==
  ASSUME IInv, NEW path \in Paths, LoadRefused(path)
  PROVE  Paged!Load(path)
<1>1. /\ job = NoJob /\ load = NoLoad
      /\ UNCHANGED <<events, job, disk, lastSave, load, answer>>
      /\ \/ disk[path] = NoFile /\ result' = "io_error"
         \/ disk[path] # NoFile /\ ~HasHeader(disk[path]) /\ result' = "storage_corrupt"
  BY DEF LoadRefused, Idle
<1>2. Files' = Files
  BY <1>1 DEF Files, FileOf
<1>3. /\ PagedJob = NoJob /\ PagedJob' = NoJob /\ LoadedEvents = events
      /\ LoadedEvents' = events /\ LoadedResult' = result'
  BY <1>1, Mapped
<1>4. Shown
  BY FilesShown
<1>5. CASE disk[path] = NoFile
  <2>1. Files[path] = NoFile /\ result' = "io_error"
    BY <1>1, <1>5 DEF Files, FileOf
  <2>2. Paged!LoadResult(NoFile) = "io_error" /\ Paged!Loaded(NoFile, events) = events
    BY DEF Paged!LoadResult, Paged!Loaded
  <2> QED BY <1>1, <1>2, <1>3, <2>1, <2>2 DEF Paged!Load, Files
<1>6. CASE disk[path] # NoFile
  <2> DEFINE image == lastSave[path].image
             size  == Len(disk[path])
             f     == Files[path]
  <2>1. /\ image \in Seq(Event) /\ size \in Nat /\ size <= Len(Image(image))
        /\ f = CutAt(image, size) /\ f # NoFile /\ CutOf(disk[path], image)
        /\ result' = "storage_corrupt" /\ ~HasHeader(disk[path])
    BY <1>1, <1>4, <1>6 DEF Shown, Files, IInv, DiskInv
  <2>2. ~(Len(Header) <= size)
    <3> HIDE DEF image
    <3> QED BY <2>1, HeaderStands
  <2>3. ~f.header
    <3>1. f = EmptyFile
      <4> HIDE DEF image, size, f
      <4> QED BY <2>1, <2>2, CutInHeader
    <3> HIDE DEF f
    <3> QED BY <3>1 DEF EmptyFile
  <2> HIDE DEF f, image, size
  <2>4. Paged!LoadResult(f) = "storage_corrupt" /\ Paged!Loaded(f, events) = events
    BY <2>1, <2>3 DEF Paged!LoadResult, Paged!Loaded
  <2> QED BY <1>1, <1>2, <1>3, <2>1, <2>4 DEF Paged!Load, Files, f
<1> QED BY <1>5, <1>6

\* A load that is accepted has, for RecordStore, its effect at once.
LEMMA LoadMaps ==
  ASSUME IInv, NEW path \in Paths, LoadOpen(path)
  PROVE  Paged!Load(path)
<1> DEFINE begun == [path |-> path, bytes |-> disk[path], pos |-> Len(Header)]
           f == FileOf(path)
<1>1. /\ job = NoJob /\ load = NoLoad /\ disk[path] # NoFile /\ HasHeader(disk[path])
      /\ events' = <<>> /\ load' = begun
      /\ UNCHANGED <<result, job, disk, lastSave, answer>>
  BY DEF LoadOpen, Idle
<1>2. Files' = Files
  BY <1>1 DEF Files, FileOf
<1>3. FileOf(path)' = f
  BY <1>1 DEF FileOf
<1>4. f \in File /\ f # NoFile /\ f.header
  <2> DEFINE image == lastSave[path].image
             size  == Len(disk[path])
  <2>1. /\ image \in Seq(Event) /\ size \in Nat /\ size <= Len(Image(image))
        /\ f = CutAt(image, size) /\ f \in File /\ f # NoFile /\ CutOf(disk[path], image)
    <3>1. Shown
      BY FilesShown
    <3> QED BY <1>1, <3>1 DEF Shown, IInv, DiskInv
  <2>2. Len(Header) <= size
    <3> HIDE DEF image
    <3> QED BY <1>1, <2>1, HeaderStands
  <2>3. CutAt(image, size).header
    <3> HIDE DEF image, size
    <3> QED BY <2>1, <2>2, CutType
  <2> QED BY <2>1, <2>3
<1>5. load' # NoLoad /\ load'.path = path
  <2>1. disk[path] \in Seq(Byte) /\ Len(Header) \in Nat
    BY <1>1, ImageAssumption DEF IInv, DiskInv
  <2>2. begun \in Read /\ begun.path = path
    BY <2>1 DEF Read
  <2> HIDE DEF begun
  <2> QED BY <1>1, <2>2, StoreFileAssumption
<1> HIDE DEF begun, f
<1>6. LoadedEvents' = [i \in 1..Len(f.pages) |->
        [f.pages[i] EXCEPT !.fields = IF @ <= FieldLimit THEN @ ELSE FieldLimit]]
  BY <1>3, <1>5 DEF LoadedEvents, Loading
<1>7. Paged!Loaded(f, events) = [i \in 1..Len(f.pages) |->
        [f.pages[i] EXCEPT !.fields = IF @ <= FieldLimit THEN @ ELSE FieldLimit]]
  BY <1>4 DEF Paged!Loaded, Paged!DecodedAll, Paged!Decoded
<1>8. LoadedResult' = [none |-> "ok", varint |-> "invalid_format", page |-> "truncated_input"][f.tail]
  BY <1>3, <1>5 DEF LoadedResult, Loading
<1>9. LoadedResult' = Paged!LoadResult(f)
  <2>1. f.tail \in {"none", "varint", "page"}
    BY <1>4 DEF File
  <2>2. CASE f.tail = "none"
    <3>1. Paged!LoadResult(f) = "ok"
      BY <1>4, <2>2 DEF Paged!LoadResult
    <3> QED BY <1>8, <2>2, <3>1
  <2>3. CASE f.tail = "varint"
    <3>1. Paged!LoadResult(f) = "invalid_format"
      BY <1>4, <2>3 DEF Paged!LoadResult
    <3> QED BY <1>8, <2>3, <3>1
  <2>4. CASE f.tail = "page"
    <3>1. Paged!LoadResult(f) = "truncated_input"
      BY <1>4, <2>4 DEF Paged!LoadResult
    <3> QED BY <1>8, <2>4, <3>1
  <2> QED BY <2>1, <2>2, <2>3, <2>4
<1>10. LoadedEvents = events /\ PagedJob = NoJob /\ PagedJob' = NoJob
  BY <1>1, Mapped
<1>11. LoadedEvents' = Paged!Loaded(f, LoadedEvents)
  BY <1>6, <1>7, <1>10
<1>12. Files[path] = f
  BY DEF Files, f
<1> QED BY <1>1, <1>2, <1>9, <1>10, <1>11, <1>12 DEF Paged!Load, Files

\* While a load runs, RecordStore sees no step of it.
LEMMA PageMaps ==
  ASSUME IInv, LoadPage
  PROVE  UNCHANGED Paged!vars
<1> SUFFICES ASSUME NEW image, image = lastSave[load.path].image,
                    NEW size, size = Len(load.bytes)
             PROVE  UNCHANGED Paged!vars
  OBVIOUS
<1>1. Loading
  BY DEF LoadPage
<1>2. /\ load \in Read /\ job = NoJob /\ image \in Seq(Event) /\ size \in Nat
      /\ \E k \in 0..Len(image) : events = First(image, k) /\ load.pos = End(image, k)
  BY <1>1, LoadRuns
<1>3. PICK k \in 0..Len(image) : events = First(image, k) /\ load.pos = End(image, k)
  BY <1>2
<1>4. (PageFound(image, k) \/ PageCut(image, k)) /\ UNCHANGED <<job, disk, lastSave, answer>>
  BY <1>3, PageTurn
<1>5. Files' = Files /\ PagedJob' = PagedJob
  BY <1>4 DEF Files, FileOf, PagedJob
<1>6. CASE PageFound(image, k)
  <2>1. k \in Nat /\ k + 1 \in 0..Len(image) /\ load' = [load EXCEPT !.pos = End(image, k + 1)]
        /\ result' = result
    <3>1. k \in Nat /\ Len(image) \in Nat /\ k < Len(image)
      BY <1>2, <1>6 DEF PageFound
    <3> QED BY <1>6, <3>1 DEF PageFound
  <2>2. End(image, k + 1) \in Nat
    BY <1>2, <2>1, EndStep
  <2>3. load' \in Read /\ load'.path = load.path
    BY <1>2, <2>1, <2>2 DEF Read
  <2>4. load' # NoLoad
    BY <2>3, StoreFileAssumption
  <2>5. ASSUME NEW path, path = load.path
        PROVE  FileOf(load.path)' = FileOf(load.path)
    <3>1. FileOf(path)' = FileOf(path)
      BY <1>4 DEF FileOf
    <3>2. load'.path = path
      BY <2>3, <2>5
    <3>3. FileOf(load.path)' = FileOf(path)'
      BY <3>2 DEF FileOf
    <3> QED BY <2>5, <3>1, <3>3
  <2>6. LoadedEvents' = LoadedEvents /\ LoadedResult' = LoadedResult
    <3>1. FileOf(load.path)' = FileOf(load.path)
      BY <2>5
    <3> QED BY <1>1, <2>1, <2>4, <3>1 DEF LoadedEvents, LoadedResult, Loading
  <2> QED BY <1>4, <1>5, <2>6 DEF Paged!vars, Files
<1>7. CASE PageCut(image, k)
  <2>1. /\ WholePages(size, image, k) /\ load' = NoLoad /\ events' = events
        /\ result' = ResultAfter(size, image, k)
    BY <1>7 DEF PageCut
  <2>2. LoadedEvents = events /\ LoadedResult = result'
    BY <1>1, <1>3, <2>1, LoadingMaps
  <2>3. LoadedEvents' = events' /\ LoadedResult' = result'
    BY <2>1, Mapped
  <2> QED BY <1>4, <1>5, <2>1, <2>2, <2>3 DEF Paged!vars, Files
<1> QED BY <1>4, <1>6, <1>7

\* Nor does it see a load that has read all pages return.
LEMMA EndMaps ==
  ASSUME IInv, LoadEnd
  PROVE  UNCHANGED Paged!vars
<1> SUFFICES ASSUME NEW image, image = lastSave[load.path].image,
                    NEW size, size = Len(load.bytes)
             PROVE  UNCHANGED Paged!vars
  OBVIOUS
<1>1. /\ Loading /\ load.pos >= size /\ result' = "ok" /\ load' = NoLoad
      /\ UNCHANGED <<events, job, disk, lastSave, answer>>
  BY DEF LoadEnd
<1>2. /\ image \in Seq(Event) /\ size \in Nat
      /\ \E k \in 0..Len(image) :
           events = First(image, k) /\ load.pos = End(image, k) /\ End(image, k) <= size
  BY <1>1, LoadRuns
<1>3. PICK k \in 0..Len(image) :
        events = First(image, k) /\ load.pos = End(image, k) /\ End(image, k) <= size
  BY <1>2
<1>4. /\ k \in Nat /\ Len(image) \in Nat /\ End(image, k) \in Nat /\ End(image, k) = size
  <2>1. k \in Nat /\ Len(image) \in Nat /\ End(image, k) \in Nat
    BY <1>2, EndStep
  <2> QED BY <1>1, <1>2, <1>3, <2>1
<1>5. WholePages(size, image, k)
  <2>1. ASSUME k < Len(image) PROVE ~(End(image, k + 1) <= size)
    <3>1. k + 1 \in 0..Len(image) /\ k < k + 1
      BY <1>4, <2>1
    <3>2. End(image, k) < End(image, k + 1) /\ End(image, k + 1) \in Nat
      BY <1>2, <3>1, EndsGrow, EndStep
    <3> QED BY <1>2, <1>4, <3>2
  <2> QED BY <1>3, <2>1 DEF WholePages
<1>6. ResultAfter(size, image, k) = "ok"
  BY <1>2, <1>4 DEF ResultAfter
<1>7. LoadedEvents = events /\ LoadedResult = "ok"
  BY <1>1, <1>3, <1>5, <1>6, LoadingMaps
<1>8. LoadedEvents' = events' /\ LoadedResult' = result'
  BY <1>1, Mapped
<1>9. Files' = Files /\ PagedJob' = PagedJob
  BY <1>1 DEF Files, FileOf, PagedJob
<1> QED BY <1>1, <1>7, <1>8, <1>9 DEF Paged!vars, Files

\* A restart is one.
LEMMA RestartMaps ==
  ASSUME IInv, Restart
  PROVE  Paged!Restart
<1>1. /\ events' = <<>> /\ result' = "none" /\ job' = NoJob /\ load' = NoLoad
      /\ UNCHANGED <<disk, lastSave, answer>>
  BY DEF Restart
<1>2. Files' = Files
  BY <1>1 DEF Files, FileOf
<1>3. LoadedEvents' = <<>> /\ LoadedResult' = "none" /\ PagedJob' = NoJob
  BY <1>1, Mapped
<1> QED BY <1>1, <1>2, <1>3 DEF Paged!Restart, Files

\* The first state is RecordStore's.
LEMMA InitMaps == Init => Paged!Init
<1> SUFFICES ASSUME Init PROVE Paged!Init
  OBVIOUS
<1>1. LoadedEvents = <<>> /\ LoadedResult = "none" /\ PagedJob = NoJob
  BY Mapped DEF Init
<1>2. Files = [path \in Paths |-> NoFile]
  BY DEF Init, Files, FileOf
<1> QED BY <1>1, <1>2 DEF Init, Paged!Init, Files

\* Every step is a step of RecordStore, or none.
LEMMA StepMaps == IInv /\ [Next]_vars => [Paged!Next]_(Paged!vars)
<1> SUFFICES ASSUME IInv, [Next]_vars PROVE Paged!Next \/ UNCHANGED Paged!vars
  OBVIOUS
<1>1. CASE UNCHANGED vars
  <2>1. Files' = Files /\ PagedJob' = PagedJob
    BY <1>1 DEF Files, FileOf, PagedJob, vars
  <2>2. LoadedEvents' = LoadedEvents /\ LoadedResult' = LoadedResult
    BY <1>1 DEF LoadedEvents, LoadedResult, Loading, FileOf, vars
  <2> QED BY <1>1, <2>1, <2>2 DEF Paged!vars, Files, vars
<1>2. ASSUME NEW e \in Drafts, AppendEvent(e) PROVE Paged!Next
  BY <1>2, AppendMaps DEF Paged!Next
<1>3. ASSUME NEW id \in Ids, EraseId(id) PROVE Paged!Next
  BY <1>3, EraseMaps DEF Paged!Next
<1>4. ASSUME NEW path \in Paths, SaveOpen(path) \/ CompactBegin(path) PROVE Paged!Next
  BY <1>4, SaveMaps, CompactMaps DEF Paged!Next
<1>5. ASSUME NEW path \in Paths, LoadRefused(path) \/ LoadOpen(path) PROVE Paged!Next
  BY <1>5, RefuseMaps, LoadMaps DEF Paged!Next
<1>6. CASE CompactScan
  BY <1>6, ScanMaps DEF Paged!Next
<1>7. CASE CompactOpen
  BY <1>7, CompactOpenMaps DEF Paged!Next
<1>8. CASE WriteByte
  BY <1>8, ByteMaps DEF Paged!Next
<1>9. CASE WriteFails
  BY <1>9, FailMaps DEF Paged!Next
<1>10. CASE SaveReturn
  BY <1>10, ReturnMaps DEF Paged!Next
<1>11. CASE LoadPage \/ LoadEnd
  BY <1>11, PageMaps, EndMaps
<1>12. CASE Restart
  BY <1>12, RestartMaps DEF Paged!Next
<1>13. CASE CompactRefused
  BY <1>13, RefusedMaps DEF Paged!Next
<1> QED BY <1>1, <1>2, <1>3, <1>4, <1>5, <1>6, <1>7, <1>8, <1>9, <1>10, <1>11, <1>12,
         <1>13 DEF Next

\* The store that is written byte by byte, and read back by a loop that decodes varints
\* and records, is the store of whole pages whose load is one step.
THEOREM Implements == Spec => ImplementsRecordStore
<1> QED BY Invariant, InitMaps, StepMaps, PTL DEF Spec, ImplementsRecordStore, Paged!Spec
=============================================================================

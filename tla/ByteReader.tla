------------------------------- MODULE ByteReader -------------------------------
(***************************************************************************)
(* ByteWriter, ByteSlice and ByteReader (src/core/slice.h, slice.cpp). A   *)
(* buffer is written, and then read through a slice of it by a reader that *)
(* keeps a position in the slice. Whoever reads may ask for any length,    *)
(* also for one near 2^64, and may go on with a slice of the slice.        *)
(*                                                                         *)
(* A number is kept as its value: the model keeps of each read the bytes   *)
(* its value stands for, so that a byte read twice, passed over or put in  *)
(* the wrong place shows.                                                  *)
(***************************************************************************)
EXTENDS Integers, Sequences

CONSTANTS
  ByteSize,   \* values of a byte: 256
  WordSize,   \* values of std::size_t: 2^64
  Widths,     \* widths of the numbers read and written: 1, 2, 4 and 8 bytes
  Lengths,    \* the lengths, positions and limits a caller may pass
  MaxBytes,   \* model bound on the bytes written
  Lost        \* a byte the reader has moved past and not handed out

ASSUME ReaderAssumption ==
  /\ ByteSize \in Nat \ {0, 1}
  /\ WordSize \in Nat
  /\ Widths \subseteq Nat \ {0}
  /\ Lengths \subseteq 0..WordSize - 1
  /\ MaxBytes \in Nat /\ MaxBytes < WordSize
  /\ Lost \notin 0..ByteSize - 1

Byte == 0..ByteSize - 1

VARIABLES
  bytes,   \* the ByteWriter's bytes_, and then the buffer that is read
  reading, \* the buffer has been taken from the writer
  view,    \* slice_: its first byte's offset in the buffer and its size
  pos,     \* pos_
  touched, \* history: the part of the buffer the last operation looked at
  got      \* history: what the caller knows of the bytes before pos
vars == <<bytes, reading, view, pos, touched, got>>

\* Offsets from lo up to, but without, hi.
None == [lo |-> 0, hi |-> 0]

Init ==
  /\ bytes = <<>>
  /\ reading = FALSE
  /\ view = [from |-> 0, size |-> 0]
  /\ pos = 0
  /\ touched = None
  /\ got = <<>>

-----------------------------------------------------------------------------
(* The writer.                                                             *)

\* ByteSize^n, by which a value is shifted n bytes.
Shift[n \in Nat] == IF n = 0 THEN 1 ELSE ByteSize * Shift[n - 1]

\* Mutant of LeBytes: the higher bytes are not masked off.
LeUnmasked(value, width) == [i \in 1..width |-> value \div Shift[i - 1]]

\* The bytes of a number, the lowest first.
LeBytes(value, width) == [i \in 1..width |-> (value \div Shift[i - 1]) % ByteSize]

\* write_u8, write_le16, write_le32 and write_le64.
WriteLe(value, width) ==
  /\ ~reading /\ Len(bytes) + width <= MaxBytes
  /\ bytes' = bytes \o LeBytes(value, width)
  /\ UNCHANGED <<reading, view, pos, touched, got>>

Clear ==
  /\ ~reading /\ bytes # <<>>
  /\ bytes' = <<>>
  /\ UNCHANGED <<reading, view, pos, touched, got>>

\* take: the bytes leave the writer, and a reader is built over all of them.
OpenReader ==
  /\ ~reading
  /\ reading' = TRUE
  /\ view' = [from |-> 0, size |-> Len(bytes)]
  /\ UNCHANGED <<bytes, pos, touched, got>>

-----------------------------------------------------------------------------
(* The slice.                                                              *)

\* The byte at offset i of the slice.
ByteAt(i) == bytes[view.from + i + 1]

Touch(from, n) == touched' = [lo |-> view.from + from, hi |-> view.from + from + n]

\* at: the byte at any offset, whatever the reader's position.
At(i) ==
  /\ reading
  /\ IF i >= view.size THEN touched' = None ELSE Touch(i, 1)
  /\ UNCHANGED <<bytes, reading, view, pos, got>>

\* Mutant of Inside: the end is computed first, and wraps.
InsideWrapped(from, n) == (from + n) % WordSize <= view.size

\* The test of sub.
Inside(from, n) == from <= view.size /\ n <= view.size - from

\* sub: a new reader over a part of the slice.
Sub(from, n) ==
  /\ reading /\ Inside(from, n)
  /\ view' = [from |-> view.from + from, size |-> n]
  /\ pos' = 0
  /\ got' = <<>>
  /\ touched' = None
  /\ UNCHANGED <<bytes, reading>>

-----------------------------------------------------------------------------
(* The reader.                                                             *)

Remaining == IF pos <= view.size THEN view.size - pos ELSE 0

\* The next n bytes of the slice.
NextBytes(n) == SubSeq(bytes, view.from + pos + 1, view.from + pos + n)

\* What every read asks first. When it fails the reader stays where it is.
Has(n) == n <= Remaining

\* The reader moves over n bytes, of which the caller gets known.
Move(n, known) ==
  /\ pos' = pos + n
  /\ got' = got \o known
  /\ Touch(pos, n)
  /\ UNCHANGED <<bytes, reading, view>>

\* The number whose bytes are bs, the lowest first.
LeValue(bs) ==
  LET sum[i \in 0..Len(bs)] == IF i = 0 THEN 0 ELSE sum[i - 1] + bs[i] * Shift[i - 1]
  IN  sum[Len(bs)]

\* read_u8, read_le16, read_le32 and read_le64: the caller gets a value.
ReadLe(width) ==
  /\ reading /\ Has(width)
  /\ Move(width, LeBytes(LeValue(NextBytes(width)), width))

\* read_string: the bytes themselves.
ReadString(n) == reading /\ Has(n) /\ Move(n, NextBytes(n))

\* read_slice: a slice of the next bytes, over which a reader is built.
ReadSlice(n) ==
  /\ reading /\ Has(n)
  /\ view' = [from |-> view.from + pos, size |-> n]
  /\ pos' = 0
  /\ got' = <<>>
  /\ touched' = None
  /\ UNCHANGED <<bytes, reading>>

Nothing(n) == [i \in 1..n |-> Lost]

\* skip.
Skip(n) ==
  /\ reading /\ Has(n)
  /\ pos' = pos + n
  /\ got' = got \o Nothing(n)
  /\ touched' = None
  /\ UNCHANGED <<bytes, reading, view>>

\* The offset, from pos on, of the first c among the bytes read_until looks at:
\* one more than limit, or all there are.
Looked(limit) == IF limit < Remaining THEN limit + 1 ELSE Remaining
FoundAt(c, limit, k) ==
  /\ k \in 1..Looked(limit) /\ ByteAt(pos + k - 1) = c
  /\ \A j \in 1..k - 1 : ByteAt(pos + j - 1) # c

\* Mutant of ReadUntil: the position moves to the delimiter only.
ReadUntilKeeps(c, limit) ==
  /\ reading
  /\ \/ \E k \in 1..Looked(limit) :
          /\ FoundAt(c, limit, k)
          /\ pos' = pos + k - 1 /\ got' = got \o NextBytes(k) /\ Touch(pos, k)
          /\ UNCHANGED <<bytes, reading, view>>
     \/ /\ \A k \in 1..Looked(limit) : ~FoundAt(c, limit, k)
        /\ Move(Looked(limit), Nothing(Looked(limit)))

\* read_until: the text up to c, which is passed over as well. When there is no c
\* within limit the position has moved all the same, and nothing is handed out.
ReadUntil(c, limit) ==
  /\ reading
  /\ \/ \E k \in 1..Looked(limit) : FoundAt(c, limit, k) /\ Move(k, NextBytes(k))
     \/ /\ \A k \in 1..Looked(limit) : ~FoundAt(c, limit, k)
        /\ Move(Looked(limit), Nothing(Looked(limit)))

Next ==
  \/ \E width \in Widths :
       \/ \E value \in 0..Shift[width] - 1 : WriteLe(value, width)
       \/ ReadLe(width)
  \/ Clear \/ OpenReader
  \/ \E n \in Lengths :
       \/ At(n) \/ ReadString(n) \/ ReadSlice(n) \/ Skip(n)
       \/ \E from \in Lengths : Sub(from, n)
       \/ \E c \in Byte : ReadUntil(c, n)

Spec == Init /\ [][Next]_vars

-----------------------------------------------------------------------------
(* Properties.                                                             *)

\* got is typed by ReadsTileInput.
TypeOK ==
  /\ bytes \in Seq(Byte) /\ Len(bytes) <= MaxBytes
  /\ reading \in BOOLEAN
  /\ view \in [from: Nat, size: Nat]
  /\ pos \in Nat
  /\ touched \in [lo: Nat, hi: Nat]

\* Whatever lengths and positions are asked for, nested slices included, a reader
\* stays within its slice, the slice within the buffer, and no operation looks at
\* a byte outside of the buffer.
ReadsStayInside ==
  /\ pos <= view.size
  /\ view.from + view.size <= Len(bytes)
  /\ touched.hi <= Len(bytes)

\* The reads lie end to end: what the caller was given since the reader was built
\* are the bytes of the slice up to the position, each in its place, none twice,
\* with holes where bytes were skipped or lost to a delimiter that was not found.
ReadsTileInput ==
  /\ Len(got) = pos
  /\ \A i \in 1..Len(got) : got[i] \in {ByteAt(i - 1), Lost}
================================================================================

----------------------------- MODULE StreamDecoder -----------------------------
(***************************************************************************)
(* stream::StreamDecoder, split_rotated_segments and reconstruct_messages  *)
(* (src/stream/decoder.cpp).                                               *)
(*                                                                         *)
(* Text is a sequence of lexemes: the characters that are looked at ("nl", *)
(* "cr", and "sp" for a blank), the markers "==>", "<==", "..." and "LEN", *)
(* the decimal numbers of Numerals and any other text. A lexeme counts as  *)
(* one character, both in lines and in the sizes of LEN frames. A tab is   *)
(* looked at only as the first character of a continuation and in the      *)
(* number of a LEN frame, where it is what a blank and "cr" are.           *)
(***************************************************************************)
EXTENDS Naturals, Sequences, FiniteSets, SequencesExt

CONSTANTS
  Chunks,     \* the pieces of text that may be fed: non-empty sequences
  Numerals,   \* function from the lexemes that are numbers to their values
  PosSize,    \* 2^64: the positions in a line are std::size_t
  MaxInput    \* model bound on the lexemes fed since the last reset

ASSUME StreamAssumption ==
  /\ \A chunk \in Chunks : chunk # <<>> /\ chunk \in Seq(ToSet(chunk) \ {"eof"})
  /\ PosSize \in Nat /\ MaxInput \in Nat /\ PosSize > MaxInput
  /\ \A n \in DOMAIN Numerals : Numerals[n] \in 0..(PosSize - 1)

VARIABLES
  pending,  \* pending_: the text after the last newline
  source,   \* current_source_
  sequence, \* sequence_
  frames,   \* the frames returned since the last reset, in order
  input     \* history: what was fed since the last reset; "eof" is a finish
decoderVars == <<pending, source, sequence, frames, input>>

DefaultSource == <<"stream">>

DecoderInit ==
  /\ pending = <<>>
  /\ source = DefaultSource
  /\ sequence = 0
  /\ frames = <<>>
  /\ input = <<>>

-----------------------------------------------------------------------------
(* Lines.                                                                  *)

\* Mutant of CutAt: the line goes with the newline that ends it.
CutAtKeepsNewline(c, x, ends) ==
  IF x \in ends
  THEN [lines |-> Append(c.lines, Append(c.rest, x)), stops |-> Append(c.stops, x), rest |-> <<>>]
  ELSE [lines |-> c.lines, stops |-> c.stops, rest |-> Append(c.rest, x)]

\* One lexeme more. The line that it ends goes without it.
CutAt(c, x, ends) ==
  IF x \in ends
  THEN [lines |-> Append(c.lines, c.rest), stops |-> Append(c.stops, x), rest |-> <<>>]
  ELSE [lines |-> c.lines, stops |-> c.stops, rest |-> Append(c.rest, x)]

\* The first n lexemes of text in lines that end in a lexeme of ends: the lines,
\* what each of them ends in, and the rest after the last.
CutTo(text, ends, n) ==
  LET cut[i \in 0..Len(text)] ==
        IF i = 0 THEN [lines |-> <<>>, stops |-> <<>>, rest |-> <<>>]
        ELSE CutAt(cut[i - 1], text[i], ends)
  IN  cut[n]
Cut(text, ends) == CutTo(text, ends, Len(text))

\* A carriage return before the newline is dropped.
Chomp(line) == IF line # <<>> /\ Last(line) = "cr" THEN Front(line) ELSE line

StartsHeader(line) == Len(line) >= 2 /\ line[1] = "==>" /\ line[2] = "sp"
IsHeader(line) ==
  /\ StartsHeader(line)
  /\ line[Len(line)] = "<==" /\ line[Len(line) - 1] = "sp"

\* The text between the markers. In "==> <==" they share the blank: the length
\* of the name wraps below zero and the name is the rest of the line.
HeaderName(line) ==
  IF Len(line) = 3 THEN <<"<==">> ELSE SubSeq(line, 3, Len(line) - 2)

IsContinuation(line) == line # <<>> /\ line[1] \in {"sp", "..."}

\* A line "LEN n text" with n at place k, its text after the blank at place sp, and
\* as many characters of text as n says. The test is in std::size_t, where a large n
\* wraps.
IsFramed(line, sp, k) ==
  /\ Len(line) >= 2 /\ line[1] = "LEN" /\ line[2] = "sp"
  /\ sp \in 3..Len(line) /\ line[sp] = "sp" /\ \A i \in 3..sp - 1 : line[i] # "sp"
  /\ k \in 3..sp - 1 /\ line[k] \in DOMAIN Numerals
  /\ \A i \in 3..sp - 1 : i # k => line[i] = "cr"
  /\ (sp + Numerals[line[k]]) % PosSize <= Len(line)

\* Mutant of FrameText: the blank before the text is counted.
FrameTextOffByOne(line, sp, n) ==
  SubSeq(line, sp, IF sp + n < Len(line) THEN sp + n - 1 ELSE Len(line) - 1)

\* The first n characters of the text, or all of it when n has wrapped.
FrameText(line, sp, n) ==
  SubSeq(line, sp + 1, IF sp + n < Len(line) THEN sp + n ELSE Len(line))

\* Such a line is cut to its text, any other one stays as it is.
Unframed(line) ==
  LET at == {p \in (1..Len(line)) \X (1..Len(line)) : IsFramed(line, p[1], p[2])}
      p  == CHOOSE p \in at : TRUE
  IN  IF at = {} THEN line ELSE FrameText(line, p[1], Numerals[line[p[2]]])

Frame(src, payload, cont, rotated, seq) ==
  [source |-> src, payload |-> payload, continuation |-> cont,
   rotated |-> rotated, sequence |-> seq]

\* One line of feed: what it does to source and sequence, and the frame it adds.
DecodeLine(s, raw) ==
  LET line == Chomp(raw) IN
  IF IsHeader(line)
  THEN [source |-> HeaderName(line), sequence |-> s.sequence + 1,
        out |-> Append(s.out, Frame(HeaderName(line), <<>>, FALSE, TRUE, s.sequence))]
  ELSE [source |-> s.source, sequence |-> s.sequence + 1,
        out |-> Append(s.out,
          Frame(s.source, Unframed(line), IsContinuation(line), FALSE, s.sequence))]

\* The first n of some lines.
DecodeTo(s, lines, n) ==
  LET decoded[i \in 0..Len(lines)] ==
        IF i = 0 THEN s ELSE DecodeLine(decoded[i - 1], lines[i])
  IN  decoded[n]
DecodeLines(s, lines) == DecodeTo(s, lines, Len(lines))

-----------------------------------------------------------------------------
(* The operations of a decoder.                                            *)

\* Mutant of Feed: the text after the last newline is lost.
FeedForgetsRest(chunk) ==
  /\ Len(input) + Len(chunk) <= MaxInput
  /\ LET c == Cut(pending \o chunk, {"nl"})
         s == DecodeLines([source |-> source, sequence |-> sequence, out |-> <<>>], c.lines)
     IN  /\ frames' = frames \o s.out
         /\ source' = s.source
         /\ sequence' = s.sequence
         /\ pending' = IF s.out # <<>> THEN <<>> ELSE pending \o chunk
  /\ input' = input \o chunk

Feed(chunk) ==
  /\ Len(input) + Len(chunk) <= MaxInput
  /\ LET c == Cut(pending \o chunk, {"nl"})
         s == DecodeLines([source |-> source, sequence |-> sequence, out |-> <<>>], c.lines)
     IN  /\ frames' = frames \o s.out
         /\ source' = s.source
         /\ sequence' = s.sequence
         /\ pending' = c.rest
  /\ input' = input \o chunk

\* finish returns the unterminated line as it is; with none it returns nothing
\* and changes nothing.
Finish ==
  /\ pending # <<>>
  /\ Len(input) < MaxInput
  /\ frames' = Append(frames, Frame(source, pending, FALSE, FALSE, sequence))
  /\ sequence' = sequence + 1
  /\ pending' = <<>>
  /\ input' = Append(input, "eof")
  /\ UNCHANGED source

Reset ==
  /\ pending' = <<>>
  /\ source' = DefaultSource
  /\ sequence' = 0
  /\ frames' = <<>>
  /\ input' = <<>>

DecoderNext ==
  \/ \E chunk \in Chunks : Feed(chunk)
  \/ Finish
  \/ Reset

DecoderSpec == DecoderInit /\ [][DecoderNext]_decoderVars

-----------------------------------------------------------------------------
(* What is done with frames and with whole texts.                          *)

\* Mutant of AddFrame: a continuation before any message is dropped.
AddFrameDropLeading(messages, f) ==
  IF f.rotated \/ (f.continuation /\ messages = <<>>) THEN messages
  ELSE IF f.continuation
  THEN Append(Front(messages), Append(Last(messages), f.payload))
  ELSE Append(messages, <<f.payload>>)

\* A frame that continues the last message, or is one.
AddFrame(messages, f) ==
  IF f.rotated THEN messages
  ELSE IF f.continuation /\ messages # <<>>
  THEN Append(Front(messages), Append(Last(messages), f.payload))
  ELSE Append(messages, <<f.payload>>)

\* reconstruct_messages: the messages of the first n frames, each as the payloads it
\* is joined from.
MessagesTo(fs, n) ==
  LET messages[i \in 0..Len(fs)] ==
        IF i = 0 THEN <<>> ELSE AddFrame(messages[i - 1], fs[i])
  IN  messages[n]
Messages(fs) == MessagesTo(fs, Len(fs))

\* Mutant of AddLine: a line replaces the segment it belongs to.
AddLineKeepLast(segments, line) ==
  IF StartsHeader(line) \/ segments = <<>>
  THEN Append(segments, Append(line, "nl"))
  ELSE Append(Front(segments), Append(line, "nl"))

\* A line that starts like a header starts a segment. Every line gets its newline
\* back, the last one even if it had none.
AddLine(segments, line) ==
  IF StartsHeader(line) \/ segments = <<>>
  THEN Append(segments, Append(line, "nl"))
  ELSE Append(Front(segments), Last(segments) \o Append(line, "nl"))

\* The segments that the first n lines make.
SegmentsTo(lines, n) ==
  LET segments[i \in 0..Len(lines)] ==
        IF i = 0 THEN <<>> ELSE AddLine(segments[i - 1], lines[i])
  IN  segments[n]

\* What std::getline gives, to the end of the text: its lines and what is after the
\* last newline.
AllLines(text) ==
  LET c == Cut(text, {"nl"})
  IN  IF c.rest = <<>> THEN c.lines ELSE Append(c.lines, c.rest)

\* split_rotated_segments.
Segments(text) == LET lines == AllLines(text) IN SegmentsTo(lines, Len(lines))

\* A decoder of its own, fed with the whole of a text.
DecodedAlone(text) ==
  DecodeLines([source |-> DefaultSource, sequence |-> 0, out |-> <<>>],
              Cut(text, {"nl"}).lines).out

-----------------------------------------------------------------------------
(* Properties.                                                             *)

Lexemes == {"stream"} \cup UNION {ToSet(chunk) : chunk \in Chunks}
Line == Seq(Lexemes \ {"nl"})
Frames == [source: Line, payload: Line, continuation: BOOLEAN, rotated: BOOLEAN,
           sequence: Nat]

\* Neither what a decoder keeps nor what it returns holds a newline.
DecoderTypeOK ==
  /\ pending \in Line
  /\ source \in Line
  /\ sequence \in Nat
  /\ frames \in Seq(Frames)

\* The lines that were fed, and the line that was not complete yet.
Given == Cut(input, {"nl", "eof"})

Header(c, i) == c.stops[i] = "nl" /\ IsHeader(Chomp(c.lines[i]))

\* The name of the last header among the first n lines, or the default.
Named(c, n, name) ==
  \/ name = DefaultSource /\ \A j \in 1..n : ~Header(c, j)
  \/ \E i \in 1..n : /\ Header(c, i) /\ name = HeaderName(Chomp(c.lines[i]))
                      /\ \A j \in (i + 1)..n : ~Header(c, j)

\* However the input is cut into chunks, the frames returned so far are those
\* of its complete lines, in order, numbered from 0 without a gap; each has the
\* name of the last header before it; and pending_ is the incomplete line.
ChunkingIsInvisible ==
  LET c == Given
      n == Len(c.lines)
  IN  /\ pending = c.rest
      /\ Named(c, n, source)
      /\ sequence = n
      /\ Len(frames) = n
      /\ \A i \in 1..n :
           /\ Named(c, i, frames[i].source)
           /\ frames[i].sequence = i - 1
           /\ frames[i].rotated <=> Header(c, i)
           /\ c.stops[i] = "eof" => frames[i].payload = c.lines[i]

\* A frame carries its line, or exactly as many characters of the text of a LEN
\* line as its number says; only a number so large that the position wraps gives
\* fewer, and then all the text there is. A frame cut out of a LEN line is never
\* a continuation, whatever its text begins with.
Carries(f, line) ==
  \/ f.payload = line
  \/ /\ ~f.continuation
     /\ line[1] = "LEN"
     /\ \E k, sp \in 3..Len(line) :
          /\ k < sp /\ line[k] \in DOMAIN Numerals /\ line[sp] = "sp"
          /\ f.payload = SubSeq(line, sp + 1, sp + Len(f.payload))
          /\ \/ Len(f.payload) = Numerals[line[k]]
             \/ sp + Numerals[line[k]] >= PosSize /\ sp + Len(f.payload) = Len(line)
FramesCarryTheirLines ==
  LET c == Given
  IN  \A i \in 1..Len(c.lines) :
        c.stops[i] = "nl" /\ ~frames[i].rotated => Carries(frames[i], Chomp(c.lines[i]))

\* The payloads of the first n frames that are no headers.
Payloads(fs, n) ==
  LET payloads[i \in 0..Len(fs)] ==
        IF i = 0 THEN <<>>
        ELSE IF fs[i].rotated THEN payloads[i - 1] ELSE Append(payloads[i - 1], fs[i].payload)
  IN  payloads[n]

\* Frame i continues nothing: it says so, or there is nothing before it.
Starts(fs, i) ==
  /\ ~fs[i].rotated
  /\ fs[i].continuation => \A j \in 1..(i - 1) : fs[j].rotated

\* reconstruct_messages keeps every payload, in order, and breaks messages
\* exactly before the frames that continue nothing.
MessagesKeepPayloads ==
  /\ FlattenSeq(Messages(frames)) = Payloads(frames, Len(frames))
  /\ Len(Messages(frames)) = Cardinality({i \in 1..Len(frames) : Starts(frames, i)})

\* The text of the input's first n lexemes, whatever was finished in between.
TextTo(s, n) ==
  LET text[i \in 0..Len(s)] ==
        IF i = 0 THEN <<>> ELSE IF s[i] = "eof" THEN text[i - 1] ELSE Append(text[i - 1], s[i])
  IN  text[n]

\* The segments of a text are the text again, and each can be decoded by a
\* decoder of its own: when every line that starts like a header is one, the
\* frames are those of the whole text, but for their numbers.
Unnumbered(fs) == [i \in 1..Len(fs) |-> [fs[i] EXCEPT !.sequence = 0]]
DecodesInSegments(text) ==
  LET whole == IF text = <<>> \/ Last(text) = "nl" THEN text ELSE Append(text, "nl")
      segments == Segments(text)
      lines == Cut(whole, {"nl"}).lines
  IN  /\ FlattenSeq(segments) = whole
      /\ (\A i \in 1..Len(lines) : StartsHeader(lines[i]) => IsHeader(Chomp(lines[i]))) =>
           FlattenSeq([i \in 1..Len(segments) |-> Unnumbered(DecodedAlone(segments[i]))])
             = Unnumbered(DecodedAlone(whole))
SegmentsDecodeAlone == DecodesInSegments(TextTo(input, Len(input)))
===============================================================================

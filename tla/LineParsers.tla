------------------------------ MODULE LineParsers ------------------------------
(***************************************************************************)
(* The three line parsers of parse_mixed_lines (src/ingest/parsers.cpp):   *)
(* which lines each accepts, rejects, or leaves by an exception.           *)
(*                                                                         *)
(* A line is a sequence of lexemes: "sp" (blank), "quote", "bs"            *)
(* (backslash), the brackets, braces, comma and colon, each one character, *)
(* and any other text. The fields a parser fills in are left out but for   *)
(* the message of a syslog line.                                           *)
(***************************************************************************)
EXTENDS Naturals, Sequences, FiniteSetsExt, SequencesExt

\* An outcome: the Result of a parser, or the exception std::string::substr
\* throws when it is given a position past the end of the line.
Accepted(message) == [parse |-> "accept", message |-> message]
Rejected == [parse |-> "reject", message |-> <<>>]
Thrown   == [parse |-> "throw", message |-> <<>>]

-----------------------------------------------------------------------------
(* Scanning. Positions count the characters before, as in the code.        *)

\* The first position from i on whose character is in chars, or else the end; a
\* position past the end stays.
FindAny(s, i, chars) ==
  IF i >= Len(s) THEN i
  ELSE Min({j \in i..Len(s) : j = Len(s) \/ s[j + 1] \in chars})
SkipAll(s, i, chars) ==
  IF i >= Len(s) THEN i
  ELSE Min({j \in i..Len(s) : j = Len(s) \/ s[j + 1] \notin chars})

\* The closing quote from i on, over escaped characters, or the end.
ClosingQuote(s, i) ==
  LET at[j \in 0..Len(s)] ==
        IF j = Len(s) \/ s[j + 1] = "quote" THEN j
        ELSE IF s[j + 1] = "bs" /\ j + 1 < Len(s) THEN at[j + 2] ELSE at[j + 1]
  IN  at[i]

Trim(s) ==
  LET text == {i \in 1..Len(s) : s[i] # "sp"}
  IN  IF text = {} THEN <<>> ELSE SubSeq(s, Min(text), Max(text))

\* The words of s between its blanks; those from position i on, where none has begun.
WordsFrom(s, i) ==
  LET end(j) == FindAny(s, j, {"sp"})
      words[j \in 1..(Len(s) + 1)] ==
        IF j > Len(s) THEN <<>>
        ELSE IF s[j] = "sp" THEN words[j + 1]
        ELSE <<SubSeq(s, j, end(j))>> \o words[end(j) + 1]
  IN  words[i]
Words(s) == WordsFrom(s, 1)

-----------------------------------------------------------------------------
(* The parsers.                                                            *)

\* parse_flat_json_object reads pairs off the trimmed line. A name begins behind blanks
\* and commas, its value behind the closing quote, blanks and colons. A value without
\* quotes ends at a comma or a brace.
Opening == "{"
Closing == "}"
Colon   == ":"
Between == ","
BeforeName  == {"sp", Between}
BeforeValue == {"sp", Colon}
EndsValue   == {Between, Closing}
NameStart(s, i)   == SkipAll(s, i, BeforeName)
ValueStart(s, i)  == SkipAll(s, ClosingQuote(s, NameStart(s, i) + 1) + 1, BeforeValue)
ValueQuoted(s, i) == ValueStart(s, i) < Len(s) /\ s[ValueStart(s, i) + 1] = "quote"
ValueEnd(s, i) ==
  IF ValueQuoted(s, i) THEN ClosingQuote(s, ValueStart(s, i) + 1)
  ELSE FindAny(s, ValueStart(s, i), EndsValue)

\* The reading ends where no name begins. It is left by an exception, with no pair at
\* all, behind a name without its closing quote: the value is taken from past the end.
PairsEnd(s, i) ==
  i + 1 >= Len(s) \/ NameStart(s, i) >= Len(s) \/ s[NameStart(s, i) + 1] # "quote"
NameOpen(s, i) == ClosingQuote(s, NameStart(s, i) + 1) = Len(s)
NoPair(s, i)   == PairsEnd(s, i) \/ NameOpen(s, i)
NextPair(s, i) == ValueEnd(s, i) + (IF ValueQuoted(s, i) THEN 1 ELSE 0)

ThrowsFrom(s, i) ==
  LET from[j \in 0..Len(s) + 1] ==
        IF NoPair(s, j) THEN ~PairsEnd(s, j) ELSE from[NextPair(s, j)]
  IN  from[i]

\* One pair is enough for the object not to be empty.
JsonOutcome(line) ==
  LET s == Trim(line)
  IN  IF Len(s) < 2 THEN Rejected
      ELSE IF s[1] # Opening \/ s[Len(s)] # Closing THEN Rejected
      ELSE IF ThrowsFrom(s, 1) THEN Thrown
      ELSE IF PairsEnd(s, 1) THEN Rejected
      ELSE Accepted(<<>>)

\* parse_web_access_line: three words, a bracketed time, a quoted request and
\* the rest. The character after the bracket has to be the quote, and one more
\* character has to follow it; the rest starts two past the request's end.
WebOutcome(line) ==
  LET next(i) == IF FindAny(line, i, {"sp"}) >= Len(line) THEN Len(line)
                 ELSE FindAny(line, i, {"sp"}) + 1
      lb == FindAny(line, next(next(next(0))), {"["})
      rb == FindAny(line, lb, {"]"})
      request == rb + 2
      close == FindAny(line, request, {"quote"})
  IN  IF lb >= Len(line) \/ rb >= Len(line) THEN Rejected
      ELSE IF request >= Len(line) THEN Rejected
      ELSE IF line[request] # "quote" THEN Rejected
      ELSE IF close >= Len(line) THEN Rejected
      ELSE IF close + 2 > Len(line) THEN Thrown
      ELSE Accepted(<<>>)

\* Mutant of SyslogOutcome: the message is cut off by the length of the tag from
\* the start of the line.
SyslogOutcomeFromStart(line) ==
  LET w == Words(line)
  IN  IF Len(w) < 5 THEN Rejected
      ELSE Accepted(Trim(SubSeq(line, 1 + Len(w[5]), Len(line))))

\* parse_syslog_line: five words are enough. The message is what follows the
\* first place in the line where the fifth word occurs.
SyslogOutcome(line) ==
  LET w   == Words(line)
      tag == w[5]
      at  == Min({i \in 1..(Len(line) - Len(tag) + 1) : SubSeq(line, i, i + Len(tag) - 1) = tag})
  IN  IF Len(w) < 5 THEN Rejected
      ELSE Accepted(Trim(SubSeq(line, at + Len(tag), Len(line))))

\* What parse_mixed_lines makes of one line: the first parser that accepts it.
Kinds == <<"json", "web_access", "syslog">>
MixedOutcome(line) ==
  LET outcomes == <<JsonOutcome(line), WebOutcome(line), SyslogOutcome(line)>>
      decided  == {k \in 1..3 : outcomes[k].parse # "reject"}
      k        == Min(decided)
  IN  IF decided = {} THEN [parse |-> "reject", kind |-> "none", message |-> <<>>]
      ELSE [parse |-> outcomes[k].parse, kind |-> Kinds[k], message |-> outcomes[k].message]
===============================================================================

--------------------------------- MODULE Query ---------------------------------
(***************************************************************************)
(* The query language (src/query/query.cpp): lex, the recursive descent    *)
(* parser and the evaluation of an expression on an event, checked against *)
(* what queries are meant to say: a query is built together with the set   *)
(* of events it means to select.                                           *)
(*                                                                         *)
(* Text is a sequence of lexemes: "sp", "quote", "bs", the parentheses,    *)
(* "=", "!", "<", ">", "~", and any other text, the keywords included.     *)
(***************************************************************************)
EXTENDS Naturals, Sequences, FiniteSetsExt, SequencesExt

CONSTANTS
  Lexemes,    \* what texts are made of
  Events,     \* a set of functions from field names to texts
  Numbers,    \* the lexemes parse_i64 reads, with their values
  Atoms,      \* the comparisons queries are built from
  MaxText     \* model bound on the length of a query

\* What ends a word, and what is no part of one.
Stops == {"sp", "(", ")", "=", "~", "<", ">"}
Special == Stops \cup {"!", "quote", "bs"}
Plain(s) == s # <<>> /\ s \in Seq(Lexemes) /\ ToSet(s) \cap Special = {}

Keywords == {<<"and">>, <<"or">>, <<"not">>}
Ops == {<<"=">>, <<"=", "=">>, <<"!", "=">>, <<"~">>,
        <<">">>, <<"<">>, <<">", "=">>, <<"<", "=">>}

\* An atom: field op value, with or without blanks around op. Only a value with a blank
\* is written in quotes. The fields are those of the events.
ASSUME QueryAssumption ==
  /\ Special \cup {"and", "or", "not"} \subseteq Lexemes
  /\ \A a \in Atoms :
       /\ a.op \in Ops /\ a.spaced \in BOOLEAN
       /\ Plain(a.field) /\ a.field \notin Keywords
       /\ \/ Plain(a.value)
          \/ /\ Contains(a.value, "sp") /\ a.value \in Seq(Lexemes)
             /\ ToSet(a.value) \cap {"quote", "bs"} = {}
  /\ \A e \in Events, a \in Atoms : a.field \in DOMAIN e /\ e[a.field] \in Seq(Lexemes)

VARIABLE
  query   \* [text, means: the events it is to select, level, tight: has != without blanks]

-----------------------------------------------------------------------------
(* lex.                                                                    *)

\* Mutant of WordEnd: operators do not end a word.
WordEndAtBlank(q, i) ==
  Min({j \in (i + 1)..(Len(q) + 1) : j = Len(q) + 1 \/ q[j] \in {"sp", "(", ")"}})

\* The end of the word that starts at i, and of the quoted text that does.
WordEnd(q, i) == Min({j \in (i + 1)..(Len(q) + 1) : j = Len(q) + 1 \/ q[j] \in Stops})
QuoteEnd(q, i) ==
  LET end[j \in 1..(Len(q) + 2)] ==
        IF j > Len(q) THEN Len(q) + 1
        ELSE IF q[j] = "quote" THEN j
        ELSE IF q[j] = "bs" /\ j < Len(q) THEN end[j + 2] ELSE end[j + 1]
  IN  end[i]
\* A backslash stands for the character after it.
UnescapeFrom(s, i) ==
  LET text[j \in 1..(Len(s) + 2)] ==
        IF j > Len(s) THEN <<>>
        ELSE IF s[j] = "bs" /\ j < Len(s) THEN <<s[j + 1]>> \o text[j + 2]
        ELSE <<s[j]>> \o text[j + 1]
  IN  text[i]
Unescape(s) == UnescapeFrom(s, 1)

Token(kind, text) == [kind |-> kind, text |-> text]
WordToken(word) == Token(IF word \in Keywords THEN word[1] ELSE "word", word)

\* The tokens from position i on, where rest gives those from the later ones.
LexTurn(q, rest, i) ==
  LET n   == Len(q)
      end == QuoteEnd(q, i + 1)
  IN  IF i > n THEN <<>>
      ELSE IF q[i] = "sp" THEN rest[i + 1]
      ELSE IF q[i] \in {"(", ")"} THEN <<Token(q[i], <<q[i]>>)>> \o rest[i + 1]
      ELSE IF i < n /\ q[i] \in {"=", "!", ">", "<"} /\ q[i + 1] = "="
      THEN <<Token("op", <<q[i], "=">>)>> \o rest[i + 2]
      ELSE IF q[i] \in {"=", "~", ">", "<"} THEN <<Token("op", <<q[i]>>)>> \o rest[i + 1]
      ELSE IF q[i] = "quote"
      THEN <<Token("word", Unescape(SubSeq(q, i + 1, end - 1)))>> \o rest[end + 1]
      ELSE <<WordToken(SubSeq(q, i, WordEnd(q, i) - 1))>> \o rest[WordEnd(q, i)]

LexFrom(q, i) ==
  LET lex[j \in 1..(Len(q) + 2)] == LexTurn(q, lex, j) IN lex[i]
Lex(q) == LexFrom(q, 1)

-----------------------------------------------------------------------------
(* Evaluation.                                                             *)

\* normalize_field_name drops what is not a letter, a digit or an underscore.
FieldName(text) ==
  FlattenSeq([i \in 1..Len(text) |-> IF text[i] \in Special THEN <<>> ELSE <<text[i]>>])
Field(e, name) == IF FieldName(name) \in DOMAIN e THEN e[FieldName(name)] ELSE <<>>

IsNumber(text) == Len(text) = 1 /\ text[1] \in DOMAIN Numbers
Ordered(op, a, b) ==
  \/ op = <<">">> /\ a > b
  \/ op = <<"<">> /\ a < b
  \/ op = <<">", "=">> /\ a >= b
  \/ op = <<"<", "=">> /\ a <= b

\* CompareExpr::eval. Only two integers are ordered.
Compare(e, name, op, value) ==
  LET got == Field(e, name) IN
  \/ op \in {<<"=">>, <<"=", "=">>} /\ got = value
  \/ op = <<"!", "=">> /\ got # value
  \/ op = <<"~">> /\ \E i \in 1..(Len(got) - Len(value) + 1) : SubSeq(got, i, i + Len(value) - 1) = value
  \/ /\ IsNumber(got) /\ IsNumber(value)
     /\ Ordered(op, Numbers[got[1]], Numbers[value[1]])

-----------------------------------------------------------------------------
(* The parser.                                                             *)

Text(t, p, word) == p <= Len(t) /\ t[p].text = <<word>>

\* The events that the rule selects from position p of t on, and the position
\* after it, where rest gives both from the later positions and for the lower rules.
\* expr is a disjunction of conjunctions of primaries.
ParseTurn(t, rest, rule, p) ==
  LET n == Len(t) IN
  CASE rule = "expr" ->
         LET l == rest[<<"conj", p>>]
             r == rest[<<"expr", l.next + 1>>]
         IN  IF Text(t, l.next, "or")
             THEN [selects |-> l.selects \cup r.selects, next |-> r.next] ELSE l
    [] rule = "conj" ->
         LET l == rest[<<"primary", p>>]
             r == rest[<<"conj", l.next + 1>>]
         IN  IF Text(t, l.next, "and")
             THEN [selects |-> l.selects \cap r.selects, next |-> r.next] ELSE l
    [] rule = "primary" /\ Text(t, p, "not") ->
         LET a == rest[<<"primary", p + 1>>]
         IN  [selects |-> Events \ a.selects, next |-> a.next]
    [] rule = "primary" /\ ~Text(t, p, "not") ->
         IF p > n THEN [selects |-> Events, next |-> p]
         ELSE IF t[p].kind = "("
         THEN LET a == rest[<<"expr", p + 1>>]
              IN  [selects |-> a.selects,
                   next |-> IF a.next <= n /\ t[a.next].kind = ")"
                            THEN a.next + 1 ELSE a.next]
         ELSE IF p + 2 <= n /\ t[p].kind = "word" /\ t[p + 1].kind = "op"
         THEN [selects |-> {e \in Events :
                              Compare(e, t[p].text, t[p + 1].text, t[p + 2].text)},
               next |-> p + 3]
         ELSE [selects |-> {e \in Events : Compare(e, <<"message">>, <<"~">>, t[p].text)},
               next |-> p + 1]

Rules == {"expr", "conj", "primary"}
ParseFrom(t, rule, p) ==
  LET parse[x \in Rules \X (1..(Len(t) + 1))] == ParseTurn(t, parse, x[1], x[2])
  IN  parse[<<rule, p>>]
Parse(t) == ParseFrom(t, "expr", 1)

\* filter: the events a query selects.
Selected(q) == IF Lex(q) = <<>> THEN Events ELSE Parse(Lex(q)).selects

-----------------------------------------------------------------------------
(* Queries and what they mean.                                             *)

\* The value of an atom is quoted where it holds a blank.
AtomText(a) ==
  LET blank == IF a.spaced THEN <<"sp">> ELSE <<>>
      value == IF Contains(a.value, "sp") THEN <<"quote">> \o a.value \o <<"quote">> ELSE a.value
  IN  a.field \o blank \o a.op \o blank \o value

IsOrder(op) == op \in {<<">">>, <<"<">>, <<">", "=">>, <<"<", "=">>}
AtomMeans(a) ==
  {e \in Events :
     LET got == e[a.field] IN
     CASE a.op \in {<<"=">>, <<"=", "=">>} -> got = a.value
       [] a.op = <<"!", "=">> -> got # a.value
       [] a.op = <<"~">> -> a.value \in SubSeqs(got)
       [] IsOrder(a.op) ->
            /\ IsNumber(got) /\ IsNumber(a.value)
            /\ Ordered(a.op, Numbers[got[1]], Numbers[a.value[1]])}

AtomQuery(a) ==
  [text |-> AtomText(a), means |-> AtomMeans(a), level |-> "primary",
   tight |-> a.op = <<"!", "=">> /\ ~a.spaced]

Wrapped(x) == <<"(">> \o x.text \o <<")">>
\* The text of x as an operand of a rule that takes the levels.
Operand(x, levels) == IF x.level \in levels THEN x.text ELSE Wrapped(x)

QueryInit == query \in {AtomQuery(a) : a \in Atoms}

Negate ==
  query' = [query EXCEPT
    !.text = <<"not", "sp">> \o Operand(query, {"primary"}),
    !.means = Events \ @, !.level = "primary"]

Parenthesize == query' = [query EXCEPT !.text = Wrapped(query), !.level = "primary"]

And(x, y) ==
  query' = [text  |-> Operand(x, {"primary", "conj"}) \o <<"sp", "and", "sp">>
                        \o Operand(y, {"primary", "conj"}),
            means |-> x.means \cap y.means, level |-> "conj", tight |-> x.tight \/ y.tight]

Or(x, y) ==
  query' = [text  |-> x.text \o <<"sp", "or", "sp">> \o y.text,
            means |-> x.means \cup y.means, level |-> "expr", tight |-> x.tight \/ y.tight]

QueryNext ==
  /\ Len(query.text) <= MaxText
  /\ \/ Negate
     \/ Parenthesize
     \/ \E a \in Atoms : \/ And(query, AtomQuery(a)) \/ And(AtomQuery(a), query)
                        \/ Or(query, AtomQuery(a)) \/ Or(AtomQuery(a), query)

QuerySpec == QueryInit /\ [][QueryNext]_query

-----------------------------------------------------------------------------
(* Properties.                                                             *)

\* A query of comparisons selects the events it means: "not" binds tighter than
\* "and", "and" tighter than "or", parentheses group, at any nesting; blanks
\* around an operator and quotes around a value change nothing.
SelectsAsMeant == ~query.tight => Selected(query.text) = query.means

\* fuzz/dictionary.txt:23 lists "!=" with the query operators: it compares as the
\* others do, which README.md:34 writes without blanks.
NotEqualsSelects ==
  query.tight => Selected(query.text) = query.means
===============================================================================

--------------------------------- MODULE MCQuery ---------------------------------
(* Query for TLC: events that differ in a number, a word, a message of two     *)
(* words and a source, and comparisons of each with and without blanks.        *)
EXTENDS Query

MCLexemes == Special \cup {"and", "or", "not"} \cup
  {"status", "severity", "message", "source", "200", "500", "disk", "full"}
MCEvents ==
  [{<<"status">>, <<"severity">>, <<"message">>, <<"source">>} ->
     {<<"200">>, <<"500">>, <<"disk", "sp", "full">>, <<>>}]
MCFewEvents == {e \in MCEvents :
  /\ e[<<"status">>] \in {<<"200">>, <<"500">>}
  /\ e[<<"severity">>] \in {<<"200">>, <<"disk", "sp", "full">>}
  /\ e[<<"message">>] \in {<<"500">>, <<"disk", "sp", "full">>}
  /\ e[<<"source">>] \in {<<>>, <<"500">>}}
MCNumbers == [n \in {"200", "500"} |-> IF n = "200" THEN 200 ELSE 500]

Atom(field, op, value, spaced) ==
  [field |-> <<field>>, op |-> op, value |-> value, spaced |-> spaced]
MCAtoms == {Atom("status", <<">", "=">>, <<"500">>, FALSE),
            Atom("status", <<"<">>, <<"500">>, TRUE),
            Atom("severity", <<"=">>, <<"disk", "sp", "full">>, FALSE),
            Atom("status", <<"!", "=">>, <<"200">>, TRUE),
            Atom("message", <<"~">>, <<"full">>, FALSE),
            Atom("status", <<"!", "=">>, <<"500">>, FALSE),
            Atom("source", <<">", "=">>, <<"500">>, FALSE)}
===============================================================================

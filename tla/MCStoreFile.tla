------------------------------ MODULE MCStoreFile ------------------------------
(* StoreFile for TLC. Bytes are digits of base 5: the record of a fits in a  *)
(* one-byte length, that of b needs two and has more fields than are read    *)
(* back. The texts hold bytes that look like lengths and like continuations. *)
EXTENDS StoreFile
CONSTANTS a, b

MCIds == {a, b}
MCIdText == [i \in MCIds |-> IF i = a THEN <<9>> ELSE <<1>>]
MCKeyText == <<8>>
MCValueText == <<>>
MCHeader == <<7, 2>>
MCDrafts == {[id |-> a, fields |-> 0, tombstone |-> FALSE],
             [id |-> b, fields |-> 2, tombstone |-> FALSE]}
\* TLC works out the tables of the refinement mapping once, when it evaluates this.
ASSUME Tables ==
  /\ Sizes \in [Event -> [length: Nat, page: Nat]]
  /\ Cuts = [es \in Images |-> CutsOf(es)]
===============================================================================

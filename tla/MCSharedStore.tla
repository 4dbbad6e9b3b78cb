----------------------------- MODULE MCSharedStore -----------------------------
(* SharedStore for TLC: an index, a longer one that begins as it does, and one *)
(* with other events. The bytes of the texts also occur as lengths.            *)
EXTENDS SharedStore
CONSTANTS a, b

MCIds == {a, b}
MCIdText == [i \in MCIds |-> IF i = a THEN <<1>> ELSE <<>>]
MCKeyText == <<>>
MCValueText == <<>>
MCHeader == <<7>>
E1 == [id |-> a, fields |-> 0, tombstone |-> FALSE]
E2 == [id |-> b, fields |-> 0, tombstone |-> FALSE]
MCBatches == {<<E1>>, <<E1, E2>>, <<E2>>}
===============================================================================

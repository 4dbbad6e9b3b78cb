---------------------------- MODULE MCRecordStore ----------------------------
(* RecordStore for TLC: two ids, a record whose fields fit and one with more *)
(* fields than are read back; appending a draft twice gives duplicate ids.   *)
EXTENDS RecordStore
CONSTANTS a, b

MCIds == {a, b}
MCDrafts == {[id |-> a, fields |-> 1, tombstone |-> FALSE],
             [id |-> b, fields |-> 2, tombstone |-> FALSE]}
=============================================================================

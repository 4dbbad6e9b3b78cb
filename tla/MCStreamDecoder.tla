---------------------------- MODULE MCStreamDecoder ----------------------------
(* StreamDecoder for TLC: chunks that cut rotation headers, continuations and *)
(* LEN frames at every place, and chunks that end a line and begin another.   *)
EXTENDS StreamDecoder

MCNumerals == [n \in {"1", "14"} |-> IF n = "1" THEN 1 ELSE 14]
MCChunks == {<<"nl">>, <<"sp">>, <<"a">>,
             <<"==>", "sp">>, <<"sp", "<==">>, <<"<==", "cr", "nl", "a">>,
             <<"LEN", "sp">>, <<"1">>, <<"14">>, <<"...">>, <<"cr", "nl", "LEN">>}
===============================================================================

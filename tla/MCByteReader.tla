------------------------------ MODULE MCByteReader ------------------------------
(* ByteReader for TLC: bytes of three values in words of 2^5, so that the      *)
(* lengths asked for lie within, just past and far past a slice, up to the     *)
(* largest word.                                                               *)
EXTENDS ByteReader
MCLengths == {0, 1, 2, 3, 30, 31}
=================================================================================

--------------------------- MODULE MCSimpleDBTable ---------------------------
EXTENDS SimpleDBTable

(* Two keys and values of zero and one byte; bytes are bits and a uint64  *)
(* is two of them, so every key and length fits (ASSUMEs).                *)
MCKeys == {1, 2}
MCVals == {<<>>, <<1>>}

(* With bytes of base 4 and a chunk of 10 bytes: an empty value makes a  *)
(* 4-byte entry (ReadValue's take of 0 bytes), a one-byte value a 5-byte  *)
(* entry, so two of them fill the first chunk exactly, and a 9-byte value *)
(* is longer than the chunk's room after its length header, so ReadValue  *)
(* needs its second readAt.                                               *)
MCChunkVals == {<<>>, <<1>>, <<0, 1, 2, 3, 0, 1, 2, 3, 0>>}
=============================================================================

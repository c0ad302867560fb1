------------------------------ MODULE MCCPort ------------------------------
(***************************************************************************)
(* Small texts for CPort: of the bytes 1, 2 and 3 only 1 is ASCII, texts   *)
(* of three bytes fill the buffer, and the checksum is taken modulo 8, so  *)
(* that an even number of bytes outside ASCII goes unnoticed.              *)
(***************************************************************************)
EXTENDS CPort

SmallNames == {<<1>>, <<2>>}

SmallDescriptions == {<<1, 3>>, <<1, 1, 1, 1>>}

BehindABuffer == {<<>>, <<2>>}
=============================================================================

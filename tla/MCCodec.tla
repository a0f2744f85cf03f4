------------------------------ MODULE MCCodec -------------------------------
(***************************************************************************)
(* Instances of Codec for TLC: the fields have the widths of the code, the *)
(* byte has four values and is written with two digits of two values.      *)
(***************************************************************************)
EXTENDS Codec

MCIds == [1..ID_SIZE -> Byte]
MCKeys == [1..KEY_SIZE -> {0, BYTE - 1}]
MCData == {<<0>>, <<BYTE - 1, 0>>, <<1, 2, 3>>}

\* Empty, with room to spare, as long as the field and longer.
MCNames == {<<>>, <<1>>, <<3, 1, 2>>, <<1, 2, 3, 1>>}

\* Numbers of one byte and of all bytes, all of them different.
MCUint16 == {1, BYTE + 2, BYTE * BYTE - 1}
MCUint32 == {0, 3 * BYTE * BYTE + 1, BYTE * BYTE * BYTE + 2 * BYTE, BYTE * BYTE * BYTE * BYTE - 1}
=============================================================================

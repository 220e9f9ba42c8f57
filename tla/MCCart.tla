------------------------------- MODULE MCCart -------------------------------
(* Bytes of two periods, banks of two bytes, a header of one byte and      *)
(* images of two banks; a menu of up to three banks of four places.        *)
EXTENDS Safe

MCImages == {"IPL1", "IPL1_FACTORY", "IPL1_SAFE"}
MCByte == {Filler, Other} \cup [image : MCImages, at : 0..7]
=============================================================================

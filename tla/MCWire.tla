------------------------------- MODULE MCWire -------------------------------
(***************************************************************************)
(* Values for the constants of Wire.                                       *)
(***************************************************************************)
EXTENDS Wire

\* The empty string, and a slash before a musical clef, which takes two
\* UTF-16 units and four UTF-8 bytes.
MCNames == {<< >>, <<47, 55348, 56606>>}

MCTexts == {<<110, 233>>}

MCBodies == {Null, << >>, <<1, 2, 3, 128, 255>>}

MCVersions == {<<1, -2>>}
=============================================================================

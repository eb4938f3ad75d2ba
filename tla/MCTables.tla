------------------------------ MODULE MCTables ------------------------------
(***************************************************************************)
(* Values for the constants of Tables.                                     *)
(***************************************************************************)
EXTENDS Tables

MCLayout ==
  <<"int8", "float64", "int32", "offset", "struct", "int64", "int16", "float32">>

\* An a; an e with an acute accent, a euro sign and a
\* musical clef, of one, two, three and four bytes in UTF-8.
MCStrings == {<<97, 233, 8364, 55348, 56606>>}

\* The default and a value with every byte of its sign to carry.
MCScalars == {0, -2}

\* 1.5 and -0: the bits of a float32 and the upper half of a float64's.
MCFloats == {1069547520, -2147483647 - 1}

MCStructs == {<<1069547520, -2>>}

\* Only the larger table has a required field.
MCRequired == [size \in {7, 8} |-> IF size = 8 THEN {4} ELSE {}]

MCVectors == {<<1, 2, 255>>}

MCIdentifiers == {<< >>, <<48, 48, 48, 49>>}
=============================================================================

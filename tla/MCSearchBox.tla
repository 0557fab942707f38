---------------------------- MODULE MCSearchBox ----------------------------
(***************************************************************************)
(* An instance of the search panel for TLC: the two sections of            *)
(* searchdata.js, cut down to a file each; a text that two rows of the one *)
(* begin with, and not the row between them, and one, with a space at its  *)
(* end, for the other.                                                     *)
(***************************************************************************)
EXTENDS SearchBoxProperties

MCIndex ==
  [s \in 0 .. 1 |->
     IF s = 0 THEN << << <<"c", "l">>, <<"c", "h">>, <<"c", "l", "i">> >> >>
              ELSE << << <<"s">> >> >>]
MCTexts == {<<>>, <<"c", "l">>, <<"s", " ">>}
=============================================================================

---------------------------- MODULE MC_IndexText ----------------------------
(* Code units: space, full stop, a, capital E grave, no-break space. *)
EXTENDS IndexText

MCAlphabet == {32, 46, 97, 200, 160}

(* HTML texts: none, and one with two long words around a no-break space *)
(* and runs of separators.                                               *)
MCHtmls == {<<>>, <<32, 200, 97, 97, 46, 46, 97, 97, 97, 160, 97, 32>>}
=============================================================================

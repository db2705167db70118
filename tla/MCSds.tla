------------------------------- MODULE MCSds --------------------------------
EXTENDS Sds

CONSTANT a

MCTexts == {<<a>>, <<a, a, a>>}

(* Which variable holds which string changes nothing. *)
Symmetry == Permutations(Names)
=============================================================================

--------------------------- MODULE MCMp4Converter ---------------------------
(* The instance of Mp4Converter that TLC checks. *)
EXTENDS Mp4Converter, TLC

Symmetry == Permutations(Rec)
=============================================================================

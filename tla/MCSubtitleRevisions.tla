---------------------------- MODULE MCSubtitleRevisions ----------------------------
(* Instances of SubtitleRevisions for TLC. *)
EXTENDS SubtitleRevisions, TLC

EditorSymmetry == Permutations(Editors)
===============================================================================

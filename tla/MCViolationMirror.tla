-------------------------- MODULE MCViolationMirror --------------------------
(* The bounds of ViolationMirror's model are numbers; see the .cfg files.      *)
EXTENDS ViolationMirror
=============================================================================

--------------------------- MODULE MCResumableCopy ---------------------------
(***************************************************************************)
(* An instance of ResumableCopy: files of a few bytes.  The two pipelines  *)
(* are the two ways to fill an overlap of two: many writes of one byte, or *)
(* one of two.                                                             *)
(***************************************************************************)
EXTENDS ResumableCopy

NarrowAndWide == {[chunk |-> 1, depth |-> 2], [chunk |-> 2, depth |-> 1]}
=============================================================================

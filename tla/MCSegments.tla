------------------------------ MODULE MCSegments ------------------------------
(***************************************************************************)
(* Small instances of Segments for TLC.                                    *)
(***************************************************************************)
EXTENDS Segments, TLC

\* The ids are interchangeable (the runs check safety only).  NoSegment chooses a trait,
\* so those are not.
Symmetry == Permutations(Segment) \cup Permutations(Contact) \cup Permutations(Op)
=============================================================================

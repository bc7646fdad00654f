------------------------------ MODULE MCSending ------------------------------
(***************************************************************************)
(* Small instances of Sending for TLC.                                     *)
(***************************************************************************)
EXTENDS Sending, TLC

Symmetry == Permutations(Send) \cup Permutations(Subscription)
=============================================================================

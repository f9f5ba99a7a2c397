------------------------------- MODULE MCSession -------------------------------
(***************************************************************************)
(* Instances of MobileSession for TLC.                                     *)
(***************************************************************************)
EXTENDS MobileSession, TLC

CONSTANTS s1, s2, s3

\* Bound: at most one of the two kinds of trouble in a behaviour.
OneTrouble == ~(overlapped /\ disturbed)

Symmetry == Permutations(Calls)
=============================================================================

------------------------------- MODULE MCCrt -------------------------------
(***************************************************************************)
(* The instance of Crt that TLC checks: two positions, two keys, an array   *)
(* of two segments, a fade of one tick.                                     *)
(***************************************************************************)
EXTENDS Crt

CONSTANTS p, q, a, b
MCPoints == {p, q}
MCKeys == {a, b}
=============================================================================

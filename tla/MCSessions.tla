----------------------------- MODULE MCSessions -----------------------------
(***************************************************************************)
(* Small instances of Sessions for TLC.                                    *)
(***************************************************************************)
EXTENDS Sessions, TLC

CONSTANTS b1, q1, q2, s1

\* The slots of requests are interchangeable.
Symmetry == Permutations({q1, q2})
=============================================================================

---------------------------- MODULE MCRetention -----------------------------
(* Small instances of Retention.  Promoters are interchangeable and no      *)
(* liveness is checked where the symmetry is used.                          *)
EXTENDS Retention, TLC

CONSTANTS p1, p2, s1, s2

PromoterSymmetry == Permutations({p1, p2})
=============================================================================

---------------------------- MODULE MCEnrollment ----------------------------
(* Small instances of Enrollment for TLC. *)
EXTENDS Enrollment, TLC

CONSTANTS t1, t2, d1, p1, k1, k2

OneToken == {t1}
TwoTokens == {t1, t2}
OneDevice == {d1}
OnePhone == {p1}
OneCall == {k1}
TwoCalls == {k1, k2}
CallSymmetry == Permutations({k1, k2})
=============================================================================

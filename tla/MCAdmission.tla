---------------------------- MODULE MCAdmission ----------------------------
\* Two threads that may stand for each other.
EXTENDS AdmissionProperties, TLC

CONSTANTS W1, W2

Two == {W1, W2}
Same2 == Permutations(Two)
=============================================================================

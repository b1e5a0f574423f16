------------------------------- MODULE MCGCS -------------------------------
EXTENDS GCSProperties, TLC

CONSTANTS b1, b2, b3, b4

\* The bucket of the other cluster, if there is one, is b4.
Symmetry == Permutations({b1, b2, b3})
=============================================================================

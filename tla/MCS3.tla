-------------------------------- MODULE MCS3 --------------------------------
EXTENDS S3Properties, TLC

CONSTANTS b1, b2, b3

Symmetry == Permutations({b1, b2, b3})
=============================================================================

------------------------- MODULE MCUpstreamRefresh -------------------------
EXTENDS UpstreamRefresh, TLC

Symmetry == Permutations(Reqs)
=============================================================================

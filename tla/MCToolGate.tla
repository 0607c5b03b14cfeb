----------------------------- MODULE MCToolGate -----------------------------
EXTENDS ToolGate, TLC

Symmetry == Permutations(SpaceIds)
=============================================================================

-------------------------- MODULE MCPairingWindow --------------------------
\* PairingWindow for TLC: openers, windows and attaches are interchangeable.
EXTENDS PairingWindow, TLC

Symmetry ==
  Permutations(Opener) \cup Permutations(WindowId) \cup Permutations(PairConn)
=============================================================================

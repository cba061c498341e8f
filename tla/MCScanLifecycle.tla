--------------------------- MODULE MCScanLifecycle ---------------------------
(* Small instances of ScanLifecycle.                                            *)
EXTENDS ScanLifecycle, TLC

CONSTANTS c1, c2, c3

MCChains == {c1, c2, c3}

Symmetry == Permutations(MCChains)
==============================================================================

--------------------------- MODULE MCControlPlane ---------------------------
\* ControlPlane for TLC.  Calls are interchangeable, and so are organizations.
EXTENDS ControlPlane, TLC
Symmetry == Permutations(Calls) \cup Permutations(Orgs)
=============================================================================

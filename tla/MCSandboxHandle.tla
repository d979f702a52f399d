--------------------------- MODULE MCSandboxHandle ---------------------------
\* SandboxHandle for TLC.  Threads are interchangeable, and so are the hosts.
EXTENDS SandboxHandle, TLC
CONSTANTS h1, h2
Symmetry == Permutations(Threads) \cup Permutations({h1, h2})
=============================================================================

--------------------------- MODULE MCFileTransfer ---------------------------
\* FileTransfer for TLC.  Calls are interchangeable.
EXTENDS FileTransfer, TLC
Symmetry == Permutations(Calls)
=============================================================================

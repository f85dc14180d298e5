--------------------------- MODULE MCBlobLifecycle ---------------------------
EXTENDS BlobLifecycle, TLC

Symmetry == Permutations(Node) \cup Permutations(Key) \cup Permutations(Req)
=============================================================================

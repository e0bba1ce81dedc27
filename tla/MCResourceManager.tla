-------------------------- MODULE MCResourceManager --------------------------
EXTENDS ResourceManager

\* Addresses and tokens are only compared.
Symmetry == Permutations(Host) \cup Permutations(Token)
=============================================================================

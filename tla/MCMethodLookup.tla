--------------------------- MODULE MCMethodLookup ---------------------------
\* Classes, traits and methods are interchangeable: no definition orders them
EXTENDS MethodLookup, TLC

Interchange == Permutations(Classes) \cup Permutations(Traits) \cup Permutations(Methods)
=============================================================================

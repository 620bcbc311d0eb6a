---------------------------- MODULE MCPerimeter ----------------------------
\* A small perimeter for TLC: addresses and request slots are model values and
\* interchangeable.
EXTENDS Perimeter, TLC

Symmetric == Permutations(Address) \cup Permutations(Request)
=============================================================================

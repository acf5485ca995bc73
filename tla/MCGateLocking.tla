---------------------------- MODULE MCGateLocking ----------------------------
(* Goroutines for model checking GateLocking.                              *)
EXTENDS GateLocking, TLC

CONSTANTS p1, p2, p3, n1, n2, w1, w2

Symmetry == Permutations(PlainReaders) \union Permutations(NestedReaders)
              \union Permutations(Writers)
=============================================================================

-------------------------- MODULE MCElementKernels --------------------------
(* Blocks of two threads and five-bit ints: 17 and 34 threads do not fit.  *)
EXTENDS ElementKernels

MCLookups ==
  [ids |-> UNION {[1 .. n -> {-1, 0, 2, 3}] : n \in 0 .. 3}, vocab_size |-> {3}, hidden_size |-> {1, 2}]
MCRotations == [num_tokens |-> {1, 2}, num_heads |-> {1, 3}, head_dim |-> {2, 4}]
MCProducts == [m |-> {1, 2, 3}, k |-> {1, 2, 3}, n |-> {1, 2, 3}]
=============================================================================

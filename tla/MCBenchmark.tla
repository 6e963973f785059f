---------------------------- MODULE MCBenchmark ----------------------------
(* Three requests of four tokens with one to spare, pages of three: the    *)
(* largest pages of which the pool still has enough.                       *)
EXTENDS Benchmark
=============================================================================

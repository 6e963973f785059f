------------------------------ MODULE MCModel ------------------------------
(* Two layers of 25 weights, room for two sets of them, and passes over    *)
(* the weights of the first set.                                           *)
EXTENDS Qwen3Forward

MCAddrs == 1 .. 51
=============================================================================

------------------------- MODULE MCAttentionKernel -------------------------
(* Four threads over heads of five elements, so that a thread has none, one *)
(* or two of them; two rows of up to three tokens, in three blocks of two. *)
EXTENDS AttentionKernel
=============================================================================

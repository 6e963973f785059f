---------------------------- MODULE MCRowKernels ----------------------------
(* Four threads over rows of one to five logits out of five floats.        *)
EXTENDS RowKernels
=============================================================================

---------------------------- MODULE MCGeneration ----------------------------
(* Three blocks of two tokens: paged calls of five and six tokens, the     *)
(* others of up to eight, with EOS at, before and after every position.    *)
EXTENDS Generation
=============================================================================

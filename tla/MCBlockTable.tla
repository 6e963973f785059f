---------------------------- MODULE MCBlockTable ----------------------------
(* Four blocks of two tokens, three tables that may want three blocks each: *)
(* the pool can be exhausted by two tables, and freed blocks and indices   *)
(* come back in orders that differ from the initial one.                   *)
EXTENDS BlockTable
=============================================================================

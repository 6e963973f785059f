---------------------------- MODULE MCKVCache ----------------------------
(* Three layers over a cache of one row that doubles twice.                *)
EXTENDS KVCache
=============================================================================

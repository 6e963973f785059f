--------------------------- MODULE MCPagedEngine ---------------------------
(* The engine with finite arguments.  A configuration file cannot write    *)
(* the negative max_new_tokens that append_input_tokens refuses.           *)
EXTENDS PagedEngine

RefusedOrOne == {-1, 1}
=============================================================================

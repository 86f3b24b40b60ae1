------------------------------ MODULE MCClient ------------------------------
(* Servers and tokens for Client. *)
EXTENDS Client

Upgraded  == [servers |-> {1, 22}, configured |-> FALSE, require_hello |-> FALSE, tokens |-> {None, "wrong"}]
Guarded   == [servers |-> {22}, configured |-> TRUE, require_hello |-> TRUE,
              tokens |-> {None, "read_only", "read_write", "wrong"}]
Old       == [servers |-> {2, 11, 14, 15}, configured |-> FALSE, require_hello |-> FALSE, tokens |-> {None}]

All == {Upgraded, Guarded, Old}
=============================================================================

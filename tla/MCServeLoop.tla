---------------------------- MODULE MCServeLoop ----------------------------
(* Instances of ServeLoop for TLC: one connection more than permits. *)
EXTENDS ServeLoop

CONSTANTS c1, c2, c3

MCConns == {c1, c2, c3}

=============================================================================

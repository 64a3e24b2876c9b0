---------------------------- MODULE MCControlApi ----------------------------
(* ControlApi with one plugin of two versions and the default project.       *)
EXTENDS ControlApi, TLC
CONSTANTS p1, dflt, h1, h2
MCPlugins == {<<"limit", 1>>, <<"limit", 2>>}
Use(as, valid) == {[name |-> "limit", as |-> as, valid |-> valid]}
MCUsages == {{}, Use(Middleware, TRUE), Use("dispatcher", FALSE)}
Symmetry == Permutations({h1, h2})
=============================================================================

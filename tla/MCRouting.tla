----------------------------- MODULE MCRouting -----------------------------
(* Templates that overlap in every way: literal against parameter against  *)
(* wildcard, one the beginning of another, the same shape with other names *)
(* or another spelling, and two that the compiler refuses.                 *)
EXTENDS Routing

a == Static("a")
b == Static("b")
x == Param("x")
y == Param("y")
w == Wildcard("w")

Plain(s) == [segments |-> s, spelling |-> "plain"]

MCTemplates ==
  {Plain(s) : s \in {<<a>>, <<x>>, <<y>>, <<a, b>>, <<a, x>>, <<x, b>>, <<x, y>>,
                     <<w>>, <<a, w>>, <<a, b, a>>, <<x, x>>, <<w, a>>}}
  \cup {[segments |-> <<a>>, spelling |-> "slash"]}

MCMethods == {"GET", "POST", "SEND"}

Texts == {"a", "b"}
MCPaths == UNION {[1 .. n -> Texts] : n \in 0 .. 3}

=============================================================================

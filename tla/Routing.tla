------------------------------ MODULE Routing ------------------------------
(***************************************************************************)
(* From the path templates of the specs to the operation that answers a    *)
(* request: the compiler's checks on routes (artifact.rs), the trie that   *)
(* Gateway::load builds from the operations, and its lookup                *)
(* (router/trie.rs).                                                       *)
(*                                                                         *)
(* A template is a sequence of segments together with its spelling: the    *)
(* compiler compares the text of the paths, for which "/a" and "/a/" are   *)
(* different, the router only their segments.  A request path is the       *)
(* sequence of its segments, which is what normalize_path and the split at *)
(* slashes leave of it.                                                    *)
(*                                                                         *)
(* A node of the trie is named by the edges that lead to it from the root. *)
(***************************************************************************)
EXTENDS Naturals, Sequences, TLC

CONSTANTS
  Templates,   \* [segments : sequence of segments, spelling : any]
  Methods,     \* methods an operation may declare
  Paths,       \* request paths
  MaxOps       \* bound on the number of operations

ASSUME MethodAssumption == Methods \subseteq STRING
ASSUME BoundAssumption == MaxOps \in Nat

Static(text) == [kind |-> "static", text |-> text]
Param(name) == [kind |-> "param", text |-> name]
Wildcard(name) == [kind |-> "wildcard", text |-> name]

ASSUME TemplateAssumption ==
  \A t \in Templates : \A i \in DOMAIN t.segments :
    t.segments[i].kind \in {"static", "param", "wildcard"}

VARIABLES
  phase,      \* compile, load, serve, or rejected by the compiler
  ops,        \* the operations of the artifact, in order
  loaded,     \* how many of them are in the router
  nodes,      \* the trie
  name,       \* of each node: the parameter its last edge captures
  handlers    \* of each node: the operation of each HTTP method

vars == <<phase, ops, loaded, nodes, name, handlers>>

Root == <<>>

Init ==
  /\ phase = "compile"
  /\ ops = <<>>
  /\ loaded = 0
  /\ nodes = {Root}
  /\ name = [n \in {Root} |-> ""]
  /\ handlers = [n \in {Root} |-> [m \in {} |-> 0]]

-----------------------------------------------------------------------------
(* The compiler *)

(* A template without the names of its parameters: normalize_path_template *)
(* compares such shapes, and they are the edges of the trie.               *)
Edge(segment) == IF segment.kind = "static" THEN segment
                 ELSE [kind |-> segment.kind, text |-> ""]

Shape(t) == [i \in DOMAIN t.segments |-> Edge(t.segments[i])]

(* validate_path_template: names are unique, a wildcard comes last. *)
ValidTemplate(t) ==
  \A i, j \in DOMAIN t.segments :
    /\ i /= j /\ t.segments[i].kind /= "static" /\ t.segments[j].kind /= "static"
       => t.segments[i].text /= t.segments[j].text
    /\ t.segments[i].kind = "wildcard" => i = Len(t.segments)

(* E1010: the same path and method.  E1050: the same shape and method, but *)
(* other names.                                                            *)
Clash(t, m) ==
  \E k \in DOMAIN ops :
    /\ ops[k].method = m
    /\ \/ ops[k].template = t
       \/ Shape(ops[k].template) = Shape(t) /\ ops[k].template.spelling = t.spelling

Admit(t, m) ==
  /\ phase = "compile" /\ Len(ops) < MaxOps
  /\ ValidTemplate(t) /\ ~Clash(t, m)
  /\ ops' = Append(ops, [template |-> t, method |-> m])
  /\ UNCHANGED <<phase, loaded, nodes, name, handlers>>

(* E1010, E1050 or E1054: there is no artifact. *)
Reject(t, m) ==
  /\ phase = "compile" /\ Len(ops) < MaxOps
  /\ ~ValidTemplate(t) \/ Clash(t, m)
  /\ phase' = "rejected"
  /\ UNCHANGED <<ops, loaded, nodes, name, handlers>>

Finish ==
  /\ phase = "compile"
  /\ phase' = "load"
  /\ UNCHANGED <<ops, loaded, nodes, name, handlers>>

-----------------------------------------------------------------------------
(* Gateway::load *)

HttpMethod(m) == IF m = "SEND" THEN "POST" ELSE IF m = "RECEIVE" THEN "GET" ELSE m

Prefixes(s) == {SubSeq(s, 1, i) : i \in 0 .. Len(s)}

(* Router::insert: the nodes on the way are created with the names of this *)
(* template, or kept with theirs; an operation with the same HTTP method   *)
(* at the last node is replaced.                                           *)
Insert ==
  /\ phase = "load" /\ loaded < Len(ops)
  /\ loaded' = loaded + 1
  /\ LET op == ops[loaded + 1]
         way == Prefixes(Shape(op.template))
     IN /\ nodes' = nodes \cup way
        /\ name' = [n \in nodes' |-> IF n \in nodes THEN name[n]
                                     ELSE op.template.segments[Len(n)].text]
        /\ handlers' = [n \in nodes' |->
                          LET old == IF n \in nodes THEN handlers[n] ELSE [m \in {} |-> 0]
                          IN IF n = Shape(op.template)
                             THEN HttpMethod(op.method) :> loaded' @@ old ELSE old]
  /\ UNCHANGED <<phase, ops>>

Serve ==
  /\ phase = "load" /\ loaded = Len(ops)
  /\ phase' = "serve"
  /\ UNCHANGED <<ops, loaded, nodes, name, handlers>>

-----------------------------------------------------------------------------
(* Router::lookup *)

NoNode == <<[kind |-> "none", text |-> ""]>>

(* Mutant: parameters go before static segments. *)
TraverseParamFirst(path) ==
  LET match[n \in nodes, i \in 1 .. Len(path) + 1] ==
        IF i > Len(path) THEN n
        ELSE LET s == Append(n, Static(path[i]))
                 p == Append(n, Edge(Param("")))
                 w == Append(n, Edge(Wildcard("")))
                 viaStatic == IF s \in nodes THEN match[s, i + 1] ELSE NoNode
                 viaParam == IF p \in nodes THEN match[p, i + 1] ELSE NoNode
             IN IF viaParam /= NoNode THEN viaParam
                ELSE IF viaStatic /= NoNode THEN viaStatic
                ELSE IF w \in nodes THEN w ELSE NoNode
  IN match[Root, 1]

(* traverse_and_match: static child, parameter child, wildcard child; any  *)
(* node at the end of the path is a match, with or without handlers.       *)
Traverse(path) ==
  LET match[n \in nodes, i \in 1 .. Len(path) + 1] ==
        IF i > Len(path) THEN n
        ELSE LET s == Append(n, Static(path[i]))
                 p == Append(n, Edge(Param("")))
                 w == Append(n, Edge(Wildcard("")))
                 viaStatic == IF s \in nodes THEN match[s, i + 1] ELSE NoNode
                 viaParam == IF p \in nodes THEN match[p, i + 1] ELSE NoNode
             IN IF viaStatic /= NoNode THEN viaStatic
                ELSE IF viaParam /= NoNode THEN viaParam
                ELSE IF w \in nodes THEN w ELSE NoNode
  IN match[Root, 1]

(* The parameters captured on the way to node n: name and segments. *)
Captures(n, path) ==
  LET edges == {i \in DOMAIN n : n[i].kind /= "static"}
  IN [i \in edges |->
        [name  |-> name[SubSeq(n, 1, i)],
         value |-> SubSeq(path, i, IF n[i].kind = "param" THEN i ELSE Len(path))]]

lookup(path, m) ==
  LET n == Traverse(path)
  IN IF n = NoNode \/ (n \in nodes /\ DOMAIN handlers[n] = {}) THEN [match |-> "NotFound"]
     ELSE IF m \in DOMAIN handlers[n]
          THEN [match |-> "Found", op |-> handlers[n][m], params |-> Captures(n, path)]
          ELSE [match |-> "MethodNotAllowed", allowed |-> DOMAIN handlers[n]]

-----------------------------------------------------------------------------
Terminated == phase \in {"rejected", "serve"} /\ UNCHANGED vars

Next ==
  \/ \E t \in Templates, m \in Methods : Admit(t, m) \/ Reject(t, m)
  \/ Finish \/ Insert \/ Serve
  \/ Terminated

Spec == Init /\ [][Next]_vars

-----------------------------------------------------------------------------
(* Properties: the lookup against what the templates say *)

(* The path is an instance of the shape. *)
Fits(shape, path) ==
  /\ \A i \in DOMAIN shape : i <= Len(path) /\ (shape[i].kind = "static" => shape[i].text = path[i])
  /\ Len(shape) = Len(path) \/ (shape /= <<>> /\ shape[Len(shape)].kind = "wildcard")

Rank(edge) == CASE edge.kind = "static" -> 0
                [] edge.kind = "param" -> 1
                [] edge.kind = "wildcard" -> 2

(* Of two shapes that fit a path: the first one differs by a more specific *)
(* segment at the first difference.                                        *)
MoreSpecific(s, t) ==
  \E i \in DOMAIN s \cap DOMAIN t :
    /\ Rank(s[i]) < Rank(t[i])
    /\ \A j \in 1 .. i - 1 : s[j] = t[j]

ShapeOf(k) == Shape(ops[k].template)

HttpMethods == {HttpMethod(m) : m \in Methods}

(* "Static segments take precedence over parameter segments": the request  *)
(* goes to an operation that it fits, and to none if there is a more       *)
(* specific one; whatever the order of the operations in the specs.        *)
LookupIsMostSpecific ==
  phase = "serve" =>
    \A path \in Paths, m \in HttpMethods :
      LET r == lookup(path, m)
      IN r.match = "Found" =>
           /\ Fits(ShapeOf(r.op), path) /\ HttpMethod(ops[r.op].method) = m
           /\ \A k \in DOMAIN ops : Fits(ShapeOf(k), path) => ~MoreSpecific(ShapeOf(k), ShapeOf(r.op))

(* A path that some operation fits is not found only if a longer template  *)
(* begins with a more specific form of it: the lookup ends at a node of    *)
(* that template that has no handlers.                                     *)
LostOnlyToDeeper ==
  phase = "serve" =>
    \A path \in Paths, m \in HttpMethods, k \in DOMAIN ops :
      Fits(ShapeOf(k), path) /\ lookup(path, m).match = "NotFound" =>
        \E j \in DOMAIN ops : \E n \in Prefixes(ShapeOf(j)) :
          n /= ShapeOf(j) /\ Fits(n, path) /\ MoreSpecific(n, ShapeOf(k))

(* An operation gets its parameters under the names of its own template,   *)
(* unless an operation before it used another name at the same place of    *)
(* the trie.                                                               *)
NamesAgree ==
  phase = "serve" =>
    \A path \in Paths, m \in HttpMethods :
      LET r == lookup(path, m)
      IN r.match = "Found" =>
           \A i \in DOMAIN r.params :
             \/ r.params[i].name = ops[r.op].template.segments[i].text
             \/ \E j \in 1 .. r.op - 1 :
                  /\ i \in DOMAIN ShapeOf(j)
                  /\ SubSeq(ShapeOf(j), 1, i) = SubSeq(ShapeOf(r.op), 1, i)
                  /\ ops[j].template.segments[i].text = r.params[i].name

(* No operation of the artifact is silently replaced in the router, unless *)
(* by one that the compiler takes for another route: spelled differently,  *)
(* or of the AsyncAPI method that is served as the same HTTP method.       *)
ReplacedOnlyByAlias ==
  phase = "serve" =>
    \A k \in DOMAIN ops :
      \/ handlers[ShapeOf(k)][HttpMethod(ops[k].method)] = k
      \/ \E j \in k + 1 .. Len(ops) :
           /\ ShapeOf(j) = ShapeOf(k)
           /\ \/ ops[j].template.spelling /= ops[k].template.spelling
              \/ ops[j].method /= ops[k].method

(* The router agrees with the templates of the specs: in what it finds, in *)
(* what it does not, in the names of parameters and in what is loaded.     *)
RouterAgrees ==
  LookupIsMostSpecific /\ LostOnlyToDeeper /\ NamesAgree /\ ReplacedOnlyByAlias

=============================================================================

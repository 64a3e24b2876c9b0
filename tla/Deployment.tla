----------------------------- MODULE Deployment -----------------------------
(***************************************************************************)
(* What a deployment promises, without sockets, reload tasks or channels:  *)
(* a data plane serves the artifact it was started with or one that was    *)
(* deployed, and what a row of the control plane says it has, it has.      *)
(***************************************************************************)
CONSTANTS Artifacts, InitArtifact, Rows

VARIABLES
  deployed,   \* artifacts the operator has deployed so far
  serving,    \* what the data plane answers requests with
  served,     \* everything it has served so far
  recorded    \* of each row: the artifact it names, or none

vars == <<deployed, serving, served, recorded>>

Init ==
  /\ deployed = {}
  /\ serving = InitArtifact
  /\ served = {InitArtifact}
  /\ recorded = [r \in Rows |-> {}]

Deploy(a) ==
  /\ deployed' = deployed \cup {a}
  /\ UNCHANGED <<serving, served, recorded>>

Install(a) ==
  /\ a \in deployed
  /\ serving' = a /\ served' = served \cup {a}
  /\ UNCHANGED <<deployed, recorded>>

(* A new process begins with the artifact of its command line. *)
Restart ==
  /\ serving' = InitArtifact
  /\ UNCHANGED <<deployed, served, recorded>>

Record(r, a) ==
  /\ a \in served
  /\ recorded' = [recorded EXCEPT ![r] = {a}]
  /\ UNCHANGED <<deployed, serving, served>>

Next ==
  \/ \E a \in Artifacts : Deploy(a) \/ Install(a)
  \/ Restart
  \/ \E r \in Rows, a \in Artifacts : Record(r, a)

Spec == Init /\ [][Next]_vars

=============================================================================

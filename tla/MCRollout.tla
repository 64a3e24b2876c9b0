----------------------------- MODULE MCRollout -----------------------------
(* Two reload tasks, two deployments and a fault that may hit anywhere;    *)
(* one connection more than faults.                                        *)
EXTENDS Rollout

CONSTANTS a0, a1, t1, t2, bad

MCArtifacts == {a0, a1}
MCTasks == {t1, t2}
MCGarbage == {bad}
MCLinks == 1 .. 2

=============================================================================

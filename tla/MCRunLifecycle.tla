---------------------------- MODULE MCRunLifecycle ----------------------------
(* Small instances of RunLifecycle for TLC. *)
EXTENDS RunLifecycle, TLC

\* When the run loads it, the flow has nodes that are executed, no nodes, or only
\* chat models, for which nothing is planned.
NodesOrNone == {Steps \ {Manual}, {Manual}, {}}

\* Without the last kind, of which a run ends in fewer steps of its workflow.
SomeStep == {Steps \ {Manual}, {Manual}}

\* Runs of one flow are interchangeable, and so are the steps of nodes in the
\* abstract executor; used only where no liveness property is checked.
Symmetry == Permutations(Runs) \cup Permutations(Steps \ {Manual})
==============================================================================

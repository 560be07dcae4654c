----------------------------- MODULE MCPodWatch -----------------------------
(***************************************************************************)
(* One pod name and two incarnations of it, watched with --condition ready *)
(* and --container-state running.                                          *)
(***************************************************************************)
EXTENDS PodWatch, TLC

CONSTANTS ns, n1, u1, u2, t1, t2, app, node, lblA, lblB

App == [name |-> app, placement |-> "main"]
Shape(lbl, ready, state) ==
  [node |-> node, labels |-> lbl, containers |-> {App}, served |-> {app},
   status |-> [conditions |-> [c \in {"ready"} |-> ready], states |-> App :> state]]

\* Just created, running and not ready, ready, relabelled and in a restart.
MCShapes ==
  { [node |-> None, labels |-> lblA, containers |-> {App}, status |-> None, served |-> {}],
    Shape(lblA, "False", "running"), Shape(lblA, "True", "running"),
    Shape(lblB, "True", "waiting") }

MCPolicy ==
  [states |-> {"running"}, includeInit |-> FALSE, includeEphemeral |-> TRUE, allowedNs |-> None,
   excludePod |-> {}, podRegex |-> None, condition |-> [type |-> "ready", status |-> "True"],
   containerIncl |-> {app}, containerExcl |-> {}]

MCNames == {n1}
MCUids == {u1, u2}
MCTasks == {t1, t2}
=============================================================================

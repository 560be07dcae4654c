----------------------------- MODULE MCStartUp -----------------------------
(***************************************************************************)
(* Three namespaces, two contexts, five pods; command lines that differ in *)
(* one option from a few typical ones, and every combination of the options*)
(* that select pods.                                                       *)
(***************************************************************************)
EXTENDS StartUp, TLC

CONSTANTS ctxA, ctxB, nsA, nsB, nsC, x, y, node1, node2

MCContexts == {ctxA, ctxB}
MCNamespaceOf == ctxA :> nsA @@ ctxB :> None
MCKubeconfigs == {ctxA, ctxB, None, Error}

MCPod(ns, name, node, labels, ready) ==
  [ns |-> ns, name |-> name, uid |-> name, node |-> node, labels |-> labels, containers |-> {},
   status |-> [conditions |-> [c \in {"ready"} |-> ready], states |-> <<>>]]
MCAllPods ==
  { MCPod(nsA, x, node1, "app" :> x, "True"), MCPod(nsA, y, node2, "app" :> y @@ "tier" :> "web", "True"),
    MCPod(nsB, x, node1, "app" :> x @@ "tier" :> "db", "False"),
    MCPod(nsB, y, node2, "app" :> y, "True"), MCPod(nsC, x, node1, "app" :> x, "True") }

Meta(labels, exprs) == [matchLabels |-> labels, matchExpressions |-> exprs]
W(sel, template) == [spec |-> TRUE, selector |-> sel, template |-> template]
NotDb == [key |-> "tier", op |-> "NotIn", vals |-> {"db"}]
HasTier == [key |-> "tier", op |-> "Exists", vals |-> {}]
Controllers == { W(Meta("app" :> y, {}), None), W(Meta(<<>>, {NotDb}), "app" :> x),
                 W(Meta(<<>>, {}), "tier" :> "web"), [spec |-> FALSE, selector |-> None, template |-> None] }
MCWorkloads ==
  [k \in Kinds |->
     CASE k = "pod" -> {}
       [] k = "service" -> {W("app" :> y, None), W(None, None)}
       [] k = "replicationcontroller" -> {W(<<>>, "app" :> y), W(None, None)}
       [] k = "job" -> {W(None, "app" :> y), W(Meta(<<>>, {HasTier}), None)}
       [] OTHER -> Controllers]

Kind(k) == [kind |-> k, name |-> x]
Regex(names, ok) == [regex |-> names, ok |-> ok]
Base ==
  [context |-> None, query |-> Kind("deployment"), selector |-> None, fieldSelector |-> None, node |-> None,
   namespaces |-> <<>>, allNamespaces |-> FALSE, follow |-> TRUE, tail |-> None, bufferSize |-> 1,
   maxLogRequests |-> None, malformed |-> {}, no |-> {}, yes |-> [s \in Switches |-> None],
   condition |-> None, excludePod |-> {}, container |-> {}, excludeContainer |-> {},
   containerStates |-> {}, cursorReconnect |-> FALSE, format |-> "default", emphasis |-> <<>>]

Queries == {None, Dot, Regex({x}, TRUE), Kind("pod"), Kind("deployment"), Kind("service")}
Scopes == { <<TRUE, <<>>>>, <<FALSE, <<>>>>, <<FALSE, <<nsA>>>>, <<FALSE, <<nsA, Blank, nsB, nsA>>>> }
Selecting ==
  { [Base EXCEPT !.query = q, !.selector = sel, !.fieldSelector = fs, !.node = n,
                 !.allNamespaces = sc[1], !.namespaces = sc[2], !.follow = f] :
      q \in Queries, sel \in {None, {Equality("app", x)}},
      fs \in {None, Blank, {[field |-> "metadata.name", value |-> x]}}, n \in {None, node1},
      sc \in Scopes, f \in BOOLEAN }
Others ==
  { [Base EXCEPT !.query = Regex({x}, FALSE)], [Base EXCEPT !.query = Kind("cronjob")],
    [Base EXCEPT !.context = ctxB], [Base EXCEPT !.namespaces = <<Blank>>],
    [Base EXCEPT !.query = Kind("job")], [Base EXCEPT !.query = Kind("replicationcontroller")],
    [Base EXCEPT !.tail = -1], [Base EXCEPT !.bufferSize = 0], [Base EXCEPT !.maxLogRequests = 0],
    [Base EXCEPT !.malformed = {"since"}], [Base EXCEPT !.excludePod = {y}],
    [Base EXCEPT !.no = {"init"}, !.yes["init"] = TRUE],
    [Base EXCEPT !.condition = [name |-> "ready", value |-> None]],
    [Base EXCEPT !.condition = [name |-> "ready", value |-> None], !.tail = 0],
    [Base EXCEPT !.condition = [name |-> "ready", value |-> "false"], !.follow = FALSE, !.allNamespaces = TRUE],
    [Base EXCEPT !.emphasis = <<{"id"}, {"id"}>>],
    [Base EXCEPT !.emphasis = <<{"id"}, {"id"}>>, !.format = "raw", !.containerStates = {"running"}] }
MCFlagSets == Selecting \cup Others
=============================================================================

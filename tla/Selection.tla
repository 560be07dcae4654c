----------------------------- MODULE Selection -----------------------------
(***************************************************************************)
(* From the command line to what is asked of the API server: cli/validate  *)
(* and run_config, run_resolution.rs, resource.rs, workload_selector.rs and*)
(* pod_list.rs, as functions of the flags and of what was read.            *)
(*                                                                         *)
(* The flags are a record with the names of the options; None is an option *)
(* that was not given. An option whose value is text to be parsed (--since,*)
(* --timezone, --json-query, a regular expression ...) is in flags.malformed*)
(* if it does not parse. A label selector is a set of requirements, which  *)
(* is what its text denotes; a regular expression is the set of the names  *)
(* it matches.                                                             *)
(***************************************************************************)
EXTENDS Admission, SequencesExt

CONSTANTS
  Error,         \* Result::Err
  Blank,         \* text of white space
  AnyPod, Dot,      \* the queries ".*" and "."
  Contexts, NamespaceOf,   \* the contexts of the kubeconfig; their namespace, None if unset
  DefaultNs      \* "default"

(***************************************************************************)
(* context.rs, run_resolution.rs, run_defaults.rs                          *)
(***************************************************************************)
\* A kubeconfig is its current context, None if it sets none, Error if unreadable.
PickContextName(flags, kubeconfig) ==
  LET want == IF flags.context # None THEN flags.context ELSE kubeconfig IN
  IF kubeconfig # Error /\ want \in Contexts THEN want ELSE Error

\* Variant with a fault: --context is not looked at.
DefaultNamespaceOfCurrent(flags, kubeconfig) ==
  IF kubeconfig \notin Contexts THEN Error
  ELSE IF NamespaceOf[kubeconfig] \in {None, Blank} THEN DefaultNs ELSE NamespaceOf[kubeconfig]

DefaultNamespace(flags, kubeconfig) ==
  LET c == PickContextName(flags, kubeconfig) IN
  IF c = Error THEN Error
  ELSE IF NamespaceOf[c] \in {None, Blank} THEN DefaultNs ELSE NamespaceOf[c]

ResolvePodQuery(flags) ==
  CASE flags.query = Dot /\ flags.selector = None /\ flags.fieldSelector # None -> AnyPod
    [] flags.query # None /\ ~(flags.query = Dot /\ flags.selector = None
                               /\ flags.fieldSelector # None) -> flags.query
    [] flags.query = None /\ (flags.selector # None \/ flags.fieldSelector # None) -> AnyPod
    [] OTHER -> Error

\* Variant with a fault: white space between two commas is taken for a namespace.
PushedUntrimmed(out, t) == IF t \in Range(out) THEN out ELSE Append(out, t)
Pushed(out, t) == IF t = Blank \/ t \in Range(out) THEN out ELSE Append(out, t)

\* flags.namespaces: the comma-separated parts of every -n, in order.
DedupedExplicitNamespaces(flags) ==
  LET ns == flags.namespaces
      upTo[i \in 0..Len(ns)] == IF i = 0 THEN <<>> ELSE Pushed(upTo[i - 1], ns[i])
  IN upTo[Len(ns)]

ResolveNamespaces(flags, kubeconfig) ==
  LET explicit == DedupedExplicitNamespaces(flags)
      implied  == DefaultNamespace(flags, kubeconfig) IN
  CASE flags.allNamespaces -> <<>>
    [] ~flags.allNamespaces /\ explicit # <<>> -> explicit
    [] ~flags.allNamespaces /\ explicit = <<>> ->
         IF flags.namespaces # <<>> \/ implied = Error THEN Error ELSE <<implied>>

(***************************************************************************)
(* validate.rs, run_config/mod.rs                                          *)
(***************************************************************************)
\* Options with a --no-... form.
Switches == {"init", "ephemeral", "podColors", "containerColors"}

\* --condition: a name and the text behind "=", None if there is none.
NormalizeConditionStatus(value) ==
  CASE value \in {None, "true"} -> "True" [] value = "false" -> "False"
    [] value = "unknown" -> "Unknown"     [] OTHER -> Error

ParsePodCondition(c) ==
  IF c.name = Blank \/ NormalizeConditionStatus(c.value) = Error THEN Error
  ELSE [type |-> c.name, status |-> NormalizeConditionStatus(c.value)]

Validate(flags, kubeconfig) ==
  /\ flags.tail = None \/ flags.tail >= 0
  /\ flags.bufferSize > 0 /\ (flags.maxLogRequests = None \/ flags.maxLogRequests > 0)
  /\ flags.malformed = {}
  /\ \A s \in Switches : ~(s \in flags.no /\ flags.yes[s] = TRUE)
  /\ flags.condition # None =>
       /\ flags.follow => flags.tail = 0
       /\ ParsePodCondition(flags.condition) # Error
  /\ ResolvePodQuery(flags) # Error /\ ResolveNamespaces(flags, kubeconfig) # Error

Included(flags, s) == s \notin flags.no /\ (flags.yes[s] = None \/ flags.yes[s] = TRUE)

ContainerStatePolicy(states) ==
  IF states = {} \/ "all" \in states THEN None ELSE states

CoreRunConfig(flags, namespaces) ==
  [query |-> ResolvePodQuery(flags), namespaces |-> namespaces,
   allNamespaces |-> flags.allNamespaces,
   selector |-> flags.selector, fieldSelector |-> flags.fieldSelector, node |-> flags.node,
   excludePod |-> flags.excludePod,
   container |-> flags.container, excludeContainer |-> flags.excludeContainer,
   includeInit |-> Included(flags, "init"),
   includeEphemeral |-> Included(flags, "ephemeral"),
   states |-> ContainerStatePolicy(flags.containerStates),
   condition |-> IF flags.condition = None THEN None ELSE ParsePodCondition(flags.condition),
   follow |-> flags.follow,
   maxLogRequests |-> IF flags.maxLogRequests # None THEN flags.maxLogRequests
                      ELSE IF flags.follow THEN 50 ELSE 5,
   cursorReconnect |-> flags.cursorReconnect /\ flags.follow]

(***************************************************************************)
(* resource.rs                                                             *)
(***************************************************************************)
\* A query is AnyPod, Dot, a regular expression [regex, ok] or kind/name [kind, name].
IsKind(q) == q \notin {AnyPod, Dot} /\ "kind" \in DOMAIN q
Kinds == {"pod", "replicationcontroller", "service", "daemonset", "deployment", "replicaset",
          "statefulset", "job"}

ParseQuery(q) ==
  IF IsKind(q) THEN (IF q.kind \in Kinds THEN q ELSE Error)
  ELSE IF q \in {AnyPod, Dot} \/ q.ok THEN q ELSE Error

(***************************************************************************)
(* workload_selector.rs. A requirement is [key, op, vals].                 *)
(***************************************************************************)
Equality(k, v) == [key |-> k, op |-> "=", vals |-> {v}]
BtreeToLabelSelector(labels) == {Equality(k, labels[k]) : k \in DOMAIN labels}

LabelSelectorFor(name) == {Equality("app", name)}

\* Variant with a fault: the operator of an expression is not looked at.
MatchExpressionFragmentIn(req) ==
  IF req.vals # {} THEN {[req EXCEPT !.op = "In"]} ELSE {}

MatchExpressionFragment(req) ==
  CASE req.op \in {"In", "NotIn"} -> IF req.vals # {} THEN {req} ELSE {}
    [] req.op \in {"Exists", "DoesNotExist"} -> {req}
    [] OTHER -> {}

LabelSelectorFromMeta(ls, template, name) ==
  LET parts == BtreeToLabelSelector(ls.matchLabels)
               \cup (UNION {MatchExpressionFragment(r) : r \in ls.matchExpressions})
               \cup (IF DOMAIN ls.matchLabels = {} /\ ls.matchExpressions = {} /\ template # None
                     THEN BtreeToLabelSelector(template) ELSE {}) IN
  IF parts = {} THEN LabelSelectorFor(name) ELSE parts

\* The labels a service or a replication controller selects by.
FromLabels(labels, name) ==
  IF labels = None \/ DOMAIN labels = {} THEN LabelSelectorFor(name)
  ELSE BtreeToLabelSelector(labels)

\* A workload is [spec, selector, template]; the selector of a service or replication
\* controller is labels, of any other kind a LabelSelector or, for a job, None.
WorkloadSelector(kind, name, w) ==
  CASE ~w.spec -> LabelSelectorFor(name)
    [] w.spec /\ kind = "service" -> FromLabels(w.selector, name)
    [] w.spec /\ kind = "replicationcontroller" ->
         FromLabels(IF w.selector = None \/ DOMAIN w.selector = {} THEN w.template ELSE w.selector, name)
    [] w.spec /\ kind \notin {"service", "replicationcontroller"} ->
         IF w.selector = None THEN LabelSelectorFor(name)
         ELSE LabelSelectorFromMeta(w.selector, w.template, name)

UnifyLabelSelectors(selectors, name) ==
  IF Cardinality(selectors) = 1 THEN CHOOSE s \in selectors : TRUE ELSE LabelSelectorFor(name)

(***************************************************************************)
(* pod_list.rs, run.rs. A field requirement is [field, value].             *)
(***************************************************************************)
CombinedFieldSelector(cfg) ==
  (IF cfg.fieldSelector \in {None, Blank} THEN {} ELSE cfg.fieldSelector)
  \cup (IF cfg.node \in {None, Blank} THEN {} ELSE {[field |-> "spec.nodeName", value |-> cfg.node]})

\* labels: the selector of a kind/name query once it is resolved.
PodWatchPlan(cfg, labels) ==
  LET q == cfg.query IN
  [labels |-> IF cfg.selector # None THEN cfg.selector
              ELSE IF IsKind(q) /\ q.kind # "pod" THEN labels ELSE {},
   fields |-> CombinedFieldSelector(cfg)
              \cup (IF cfg.selector = None /\ IsKind(q) /\ q.kind = "pod"
                    THEN {[field |-> "metadata.name", value |-> q.name]} ELSE {}),
   regex  |-> IF IsKind(q) \/ q \in {AnyPod, Dot} THEN None ELSE q.regex]

\* Which workloads are read: the query's, in every namespace, unless -l or -A was given.
WorkloadsToGet(cfg) ==
  IF cfg.selector = None /\ IsKind(cfg.query) /\ cfg.query.kind # "pod" /\ ~cfg.allNamespaces
  THEN cfg.namespaces ELSE <<>>

\* Variant with a fault: the Api is scoped to the first namespace that was asked for.
ApiScopeFirst(cfg) == IF cfg.allNamespaces THEN None ELSE cfg.namespaces[1]

\* The one namespace the Api is scoped to, or None for Api::all.
ApiScope(cfg) ==
  IF ~cfg.allNamespaces /\ Len(cfg.namespaces) = 1 THEN cfg.namespaces[1] ELSE None

WatchAdmissionPolicy(cfg, plan) ==
  [states |-> cfg.states, includeInit |-> cfg.includeInit,
   includeEphemeral |-> cfg.includeEphemeral,
   allowedNs |-> ResolveAllowedNs(cfg.namespaces, cfg.allNamespaces),
   excludePod |-> cfg.excludePod, podRegex |-> plan.regex, condition |-> cfg.condition,
   containerIncl |-> cfg.container, containerExcl |-> cfg.excludeContainer]
=============================================================================

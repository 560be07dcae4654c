----------------------------- MODULE Admission -----------------------------
(***************************************************************************)
(* Which containers of a pod are tailed: container_keys.rs turns a pod into*)
(* the keys of its log streams, pod_condition.rs looks at its status, and  *)
(* watch_admission.rs applies the policy built from the flags. Everything  *)
(* here is a function of one pod object, or of a list of them, as the API  *)
(* returned it.                                                            *)
(*                                                                         *)
(* A regular expression is the set of the names it matches. A pod is       *)
(*   [ns, name, uid, node, labels, containers, status]                     *)
(* with containers a set of [name, placement], status None or              *)
(*   [conditions, states]                                                  *)
(* where both are functions on what is reported: condition type to status, *)
(* container to "running", "waiting" or "terminated".                      *)
(***************************************************************************)
EXTENDS Naturals, Sequences, FiniteSets

CONSTANT None

Buckets == {"running", "waiting", "terminated"}
Placements == {"main", "init", "ephemeral"}

(***************************************************************************)
(* container_keys.rs                                                       *)
(***************************************************************************)
\* The state of a container that its pod reports, if it reports one.
Bucket(pod, c) ==
  IF pod.status = None \/ c \notin DOMAIN pod.status.states
  THEN None ELSE pod.status.states[c]

\* policy.states = None is ContainerStatePolicy::All.
AcceptsByPlacement(policy, pod, c) ==
  policy.states = None \/ Bucket(pod, c) \in policy.states

CollectCandidates(policy, pod) ==
  {c \in pod.containers :
     \/ c.placement = "main"
     \/ c.placement = "init" /\ policy.includeInit
     \/ c.placement = "ephemeral" /\ policy.includeEphemeral}

SourceKey(pod, c) == [ns |-> pod.ns, pod |-> pod.name, uid |-> pod.uid, container |-> c.name]

KeysFromPod(policy, pod) ==
  {SourceKey(pod, c) : c \in {d \in CollectCandidates(policy, pod) :
                                pod.uid # None /\ AcceptsByPlacement(policy, pod, d)}}

(***************************************************************************)
(* pod_condition.rs                                                        *)
(***************************************************************************)
MissingConditionMatches(filter) == filter.type = "ready" /\ filter.status = "False"

PodMatchesCondition(pod, filter) ==
  /\ pod.status # None
  /\ IF filter.type \in DOMAIN pod.status.conditions
     THEN pod.status.conditions[filter.type] = filter.status
     ELSE MissingConditionMatches(filter)

(***************************************************************************)
(* watch_admission.rs                                                      *)
(***************************************************************************)
\* Namespaces are looked at only when several were asked for: otherwise the API
\* is scoped to the one, or to all.
ResolveAllowedNs(namespaces, allNamespaces) ==
  IF allNamespaces \/ Len(namespaces) <= 1
  THEN None ELSE {namespaces[i] : i \in DOMAIN namespaces}

AdmitPod(policy, pod) ==
  /\ pod.name # None /\ pod.ns # None
  /\ policy.allowedNs = None \/ pod.ns \in policy.allowedNs
  /\ pod.name \notin policy.excludePod
  /\ policy.podRegex = None \/ pod.name \in policy.podRegex
  /\ policy.condition = None \/ PodMatchesCondition(pod, policy.condition)

AdmitStreams(policy, pod) ==
  {k \in KeysFromPod(policy, pod) :
     k.container \in policy.containerIncl \ policy.containerExcl}

CollectSnapshot(policy, pods) ==
  UNION {AdmitStreams(policy, p) : p \in {q \in pods : AdmitPod(policy, q)}}
=============================================================================

------------------------------ MODULE StartUp ------------------------------
(***************************************************************************)
(* main and run up to the first task: the flags are validated, the run is  *)
(* configured, a client is built, the query is turned into selectors, and  *)
(* the pods are listed or watched. The kubeconfig is read up to three times*)
(* on the way, by validate, core_run_config and build_client, and belongs  *)
(* to the user, who may switch contexts meanwhile; every request may fail. *)
(***************************************************************************)
EXTENDS Selection, Integers

CONSTANTS
  FlagSets,       \* command lines
  Kubeconfigs,    \* what the kubeconfig may hold: contexts, None, Error
  Workloads,      \* what the query's workload can be, per kind
  AllPods,        \* the pods of the cluster
  MaxListPages,   \* 1000 in the code
  MaxSwitches     \* bound: changes of the kubeconfig

ASSUME StartBounds == MaxListPages \in Nat \ {0} /\ MaxSwitches \in Nat

\* What clap makes of a command line; flags.emphasis holds the capture-group names of
\* each --include and --highlight pattern. Options that only say how a line is read,
\* filtered or printed are members of malformed or left out.
Cli(f) ==
  /\ f.allNamespaces => f.namespaces = <<>>
  /\ f.query \in {None, AnyPod, Dot} \/ IsKind(f.query) \/ f.query.regex # None
  /\ f.follow \in BOOLEAN /\ f.allNamespaces \in BOOLEAN /\ f.cursorReconnect \in BOOLEAN
  /\ f.tail = None \/ f.tail \in Int
  /\ f.bufferSize \in Nat /\ (f.maxLogRequests = None \/ f.maxLogRequests \in Nat)
  /\ f.no \subseteq Switches /\ f.yes \in [Switches -> BOOLEAN \cup {None}]
  /\ f.containerStates \subseteq Buckets \cup {"all"}
  /\ f.format \in {"default", "json", "ext-json", "pp-ext-json", "raw"}

\* Every namespace that is spoken of.
Namespaces ==
  ({p.ns : p \in AllPods} \cup {NamespaceOf[c] : c \in Contexts} \cup {DefaultNs}
   \cup (UNION {Range(f.namespaces) : f \in FlagSets})) \ {None, Blank}

ASSUME CommandLines ==
  \A f \in FlagSets : Cli(f) /\ f.namespaces \in Seq(Namespaces \cup {Blank})
ASSUME NamesAreNames ==
  /\ DefaultNs \notin {None, Blank} /\ Error \notin Namespaces
  /\ \A ns \in SUBSET Namespaces : ns # None
  /\ \A p \in AllPods : p.name # None /\ p.ns \in Namespaces

\* The API server accepts In and NotIn with values only, and the two other operators.
IsLabels(l) == l = None \/ l = [k \in DOMAIN l |-> l[k]]
IsMeta(ls) ==
  /\ ls.matchLabels # None /\ IsLabels(ls.matchLabels)
  /\ \A r \in ls.matchExpressions :
       r.op \in {"Exists", "DoesNotExist"} \/ (r.op \in {"In", "NotIn"} /\ r.vals # {})
ASSUME WorkloadObjects ==
  \A kind \in Kinds : \A w \in Workloads[kind] :
    /\ w # None /\ w.spec \in BOOLEAN /\ IsLabels(w.template)
    /\ IF kind \in {"service", "replicationcontroller"} THEN IsLabels(w.selector)
       ELSE w.selector = None \/ IsMeta(w.selector)

VARIABLES
  flags,
  kubeconfig, switches,
  workload,    \* the workload the query names, by namespace; None where there is none
  stage,
  cfg,         \* the CoreRunConfig
  client,      \* the context of the client
  toGet,       \* namespaces whose workload is still to be read
  selectors,   \* the selectors read so far
  plan, policy,
  pages, rest, \* pages listed; pods the server has not returned yet
  listed,
  \* history
  asked,       \* a request was sent to the cluster
  failure,     \* what ended the start
  getFailed,   \* a workload could not be read
  readAs       \* the kubeconfig core_run_config read

input == <<flags, workload>>
vars == <<input, kubeconfig, switches, stage, cfg, client, toGet, selectors, plan, policy,
          pages, rest, listed, asked, failure, getFailed, readAs>>

Stages == {"parsed", "validated", "configured", "connected", "getting", "planned", "listing",
           "running", "failed"}
Failures == {"flags", "config", "context", "query", "api", "pattern", "pages"}
ASSUME NoneIsNoFailure == None \notin Failures

TypeOK ==
  /\ flags \in FlagSets /\ kubeconfig \in Kubeconfigs /\ switches \in 0..MaxSwitches
  /\ stage \in Stages /\ client \in Contexts \cup {None}
  /\ Range(toGet) \subseteq Namespaces
  /\ pages \in 0..MaxListPages /\ rest \subseteq AllPods /\ listed \subseteq AllPods
  /\ asked \in BOOLEAN /\ getFailed \in BOOLEAN /\ failure \in Failures \cup {None}
  /\ stage = "running" => \A n \in Range(cfg.namespaces) : n \notin {Blank, Error, None}
  /\ stage = "failed" <=> failure # None

Init ==
  /\ flags \in FlagSets /\ kubeconfig \in Kubeconfigs /\ switches = 0
  /\ workload \in IF flags.query # None /\ IsKind(flags.query) /\ flags.query.kind \in Kinds
                  THEN [Namespaces -> Workloads[flags.query.kind] \cup {None}]
                  ELSE [Namespaces -> {None}]
  /\ stage = "parsed" /\ cfg = None /\ client = None /\ toGet = <<>> /\ selectors = {}
  /\ plan = None /\ policy = None /\ pages = 0 /\ rest = {} /\ listed = {}
  /\ asked = FALSE /\ failure = None /\ getFailed = FALSE /\ readAs = None

SwitchContext ==
  /\ switches < MaxSwitches /\ switches' = switches + 1
  /\ stage \in {"parsed", "validated", "configured"}
  /\ kubeconfig' \in Kubeconfigs \ {kubeconfig}
  /\ UNCHANGED <<input, stage, cfg, client, toGet, selectors, plan, policy, pages, rest, listed,
                 asked, failure, getFailed, readAs>>

(***************************************************************************)
(* main.rs                                                                 *)
(***************************************************************************)
Fail(why) ==
  /\ stage' = "failed" /\ failure' = why
  /\ UNCHANGED <<cfg, client, toGet, selectors, plan, policy, pages, rest, listed, readAs>>
Goes(next) == stage' = next /\ UNCHANGED failure

\* Variant with a fault: only the namespaces and the query are resolved.
ValidateFlagsLater ==
  /\ stage = "parsed"
  /\ IF ResolvePodQuery(flags) # Error /\ ResolveNamespaces(flags, kubeconfig) # Error
     THEN Goes("validated") /\ UNCHANGED <<cfg, client, toGet, selectors, plan, policy, pages,
                                           rest, listed, readAs>>
     ELSE Fail("flags")
  /\ UNCHANGED <<input, kubeconfig, switches, asked, getFailed>>

ValidateFlags ==
  /\ stage = "parsed"
  /\ IF Validate(flags, kubeconfig)
     THEN Goes("validated") /\ UNCHANGED <<cfg, client, toGet, selectors, plan, policy, pages,
                                           rest, listed, readAs>>
     ELSE Fail("flags")
  /\ UNCHANGED <<input, kubeconfig, switches, asked, getFailed>>

\* The namespaces are resolved a second time.
Configure ==
  LET namespaces == ResolveNamespaces(flags, kubeconfig) IN
  /\ stage = "validated"
  /\ IF namespaces = Error THEN Fail("config")
     ELSE /\ cfg' = CoreRunConfig(flags, namespaces) /\ readAs' = kubeconfig /\ Goes("configured")
          /\ UNCHANGED <<client, toGet, selectors, plan, policy, pages, rest, listed>>
  /\ UNCHANGED <<input, kubeconfig, switches, asked, getFailed>>

\* build_client, with a kubeconfig read for the third time. Whether the credential
\* plugin yields a token or is left to the client library makes no difference here;
\* either way the client may turn out unusable.
BuildClient ==
  LET c == PickContextName(flags, kubeconfig) IN
  /\ stage = "configured"
  /\ \/ Fail("context")
     \/ /\ c # Error
        /\ client' = c /\ Goes("connected")
        /\ UNCHANGED <<cfg, toGet, selectors, plan, policy, pages, rest, listed, readAs>>
  /\ UNCHANGED <<input, kubeconfig, switches, asked, getFailed>>

(***************************************************************************)
(* PodWatchPlan::build: the query is parsed, then the workloads are read.  *)
(***************************************************************************)
BuildPlan ==
  /\ stage = "connected"
  /\ IF ParseQuery(cfg.query) = Error THEN Fail("query")
     ELSE /\ toGet' = WorkloadsToGet(cfg)
          /\ Goes(IF toGet' = <<>> THEN "planned" ELSE "getting")
          /\ plan' = IF toGet' = <<>>
                     THEN PodWatchPlan(cfg, IF IsKind(cfg.query) THEN LabelSelectorFor(cfg.query.name) ELSE {})
                     ELSE None
          /\ UNCHANGED <<cfg, client, selectors, policy, pages, rest, listed, readAs>>
  /\ UNCHANGED <<input, kubeconfig, switches, asked, getFailed>>

\* The workload of the next namespace is read.
GetWorkload ==
  LET w == workload[Head(toGet)]
      read == selectors \cup {WorkloadSelector(cfg.query.kind, cfg.query.name, w)} IN
  /\ stage = "getting" /\ w # None /\ asked' = TRUE
  /\ toGet' = Tail(toGet) /\ selectors' = read
  /\ IF toGet' = <<>>
     THEN plan' = PodWatchPlan(cfg, UnifyLabelSelectors(read, cfg.query.name)) /\ Goes("planned")
     ELSE UNCHANGED <<plan, stage, failure>>
  /\ UNCHANGED <<input, kubeconfig, switches, cfg, client, policy, pages, rest, listed, getFailed,
                 readAs>>

\* It is not there, or the request fails: with one namespace the run ends, with
\* several the selector falls back and the other namespaces are not read.
GetFails ==
  /\ stage = "getting" /\ asked' = TRUE /\ getFailed' = TRUE
  /\ IF Len(cfg.namespaces) = 1 THEN Fail("api")
     ELSE /\ toGet' = <<>> /\ plan' = PodWatchPlan(cfg, LabelSelectorFor(cfg.query.name))
          /\ Goes("planned")
          /\ UNCHANGED <<cfg, client, selectors, policy, pages, rest, listed, readAs>>
  /\ UNCHANGED <<input, kubeconfig, switches>>

(***************************************************************************)
(* run_with_client: the pipeline, the admission policy and the formatter   *)
(* are compiled. Every pattern compiles, since validate saw each of them;  *)
(* but the default formatter compiles the --include and --highlight        *)
(* patterns as one, and a name may be given to one capture group only.     *)
(***************************************************************************)
MergedPatternsClash ==
  /\ flags.format = "default"
  /\ \E i, j \in DOMAIN flags.emphasis : i # j /\ flags.emphasis[i] \cap flags.emphasis[j] # {}

\* What the server selects (external).
Holds(r, labels) ==
  CASE r.op \in {"=", "In"}  -> r.key \in DOMAIN labels /\ labels[r.key] \in r.vals
    [] r.op = "NotIn"        -> r.key \in DOMAIN labels => labels[r.key] \notin r.vals
    [] r.op = "Exists"       -> r.key \in DOMAIN labels
    [] r.op = "DoesNotExist" -> r.key \notin DOMAIN labels
FieldOf(p, field) == IF field = "metadata.name" THEN p.name ELSE p.node
Server(scope, labels, fields) ==
  {p \in AllPods : /\ scope = None \/ p.ns = scope
                   /\ \A r \in labels : Holds(r, p.labels)
                   /\ \A f \in fields : FieldOf(p, f.field) = f.value}

Selected == Server(ApiScope(cfg), plan.labels, plan.fields)

Prepare ==
  /\ stage = "planned"
  /\ IF MergedPatternsClash THEN Fail("pattern")
     ELSE /\ policy' = WatchAdmissionPolicy(cfg, plan)
          /\ rest' = Selected
          /\ Goes(IF cfg.follow THEN "running" ELSE "listing")
          /\ UNCHANGED <<cfg, client, toGet, selectors, plan, pages, listed, readAs>>
  /\ UNCHANGED <<input, kubeconfig, switches, asked, getFailed>>

(***************************************************************************)
(* list_pods_paginated                                                     *)
(***************************************************************************)
\* Variant with a fault: a page too many ends the list instead of the run.
ListPageCut(page) ==
  /\ stage = "listing" /\ asked' = TRUE
  /\ pages' = pages + 1 /\ listed' = listed \cup page /\ rest' = rest \ page
  /\ Goes(IF rest' = {} \/ pages' = MaxListPages THEN "running" ELSE "listing")
  /\ UNCHANGED <<input, kubeconfig, switches, cfg, client, toGet, selectors, plan, policy,
                 getFailed, readAs>>

\* A page arrives, with a continue token while there is more.
ListPage(page) ==
  /\ stage = "listing" /\ asked' = TRUE
  /\ pages' = pages + 1 /\ listed' = listed \cup page /\ rest' = rest \ page
  /\ IF rest' = {} THEN Goes("running")
     ELSE IF pages' = MaxListPages THEN stage' = "failed" /\ failure' = "pages"
     ELSE Goes("listing")
  /\ UNCHANGED <<input, kubeconfig, switches, cfg, client, toGet, selectors, plan, policy,
                 getFailed, readAs>>

\* A request fails, or its continue token has expired.
ListFails ==
  /\ stage = "listing" /\ asked' = TRUE /\ Fail("api")
  /\ UNCHANGED <<input, kubeconfig, switches, getFailed>>

Next ==
  \/ SwitchContext
  \/ ValidateFlags \/ Configure \/ BuildClient \/ BuildPlan \/ GetWorkload \/ GetFails \/ Prepare
  \/ \E page \in SUBSET rest : ListPage(page)
  \/ ListFails

Spec == Init /\ [][Next]_vars

(***************************************************************************)
(* Properties                                                              *)
(***************************************************************************)
\* What a reader of the options expects of one pod.
AskedNamespaces ==
  LET explicit == Range(flags.namespaces) \ {Blank} IN
  IF flags.allNamespaces THEN Namespaces
  ELSE IF explicit # {} THEN explicit ELSE {DefaultNamespace(flags, readAs)}

\* The labels and expressions of the workload's own selector: a service and a
\* replication controller have labels, the others a LabelSelector, and where there
\* are none a controller's are those of its pod template.
NoLabels(l) == l = None \/ DOMAIN l = {}
OwnLabels(kind, w) ==
  CASE kind = "service" -> w.selector
    [] kind = "replicationcontroller" -> IF NoLabels(w.selector) THEN w.template ELSE w.selector
    [] kind \notin {"service", "replicationcontroller"} ->
         IF w.selector = None THEN None
         ELSE IF DOMAIN w.selector.matchLabels = {} /\ w.selector.matchExpressions = {} THEN w.template
         ELSE w.selector.matchLabels
OwnExpressions(kind, w) ==
  IF kind \in {"service", "replicationcontroller"} \/ w.selector = None THEN {}
  ELSE w.selector.matchExpressions
Selectorless(kind, w) ==
  w = None \/ ~w.spec \/ (NoLabels(OwnLabels(kind, w)) /\ OwnExpressions(kind, w) = {})

\* Kubernetes' meaning of it.
HasLabels(pairs, labels) == \A k \in DOMAIN pairs : k \in DOMAIN labels /\ labels[k] = pairs[k]
Owns(kind, w, labels) ==
  /\ HasLabels(OwnLabels(kind, w), labels)
  /\ \A r \in OwnExpressions(kind, w) : Holds(r, labels)

\* When app=<name> stands in for the selector.
FallsBack ==
  \/ flags.allNamespaces \/ getFailed
  \/ \E m, n \in AskedNamespaces :
       \/ Selectorless(flags.query.kind, workload[m])
       \/ OwnLabels(flags.query.kind, workload[m]) # OwnLabels(flags.query.kind, workload[n])
       \/ OwnExpressions(flags.query.kind, workload[m]) # OwnExpressions(flags.query.kind, workload[n])

MatchesQuery(p) ==
  CASE flags.query \in {None, AnyPod, Dot} -> TRUE
    [] flags.query \notin {None, AnyPod, Dot} /\ ~IsKind(flags.query) -> p.name \in flags.query.regex
    [] flags.query \notin {None, AnyPod, Dot} /\ IsKind(flags.query) ->
         \/ flags.selector # None
         \/ flags.query.kind = "pod" /\ p.name = flags.query.name
         \/ /\ flags.query.kind # "pod"
            /\ IF FallsBack THEN HasLabels([k \in {"app"} |-> flags.query.name], p.labels)
               ELSE Owns(flags.query.kind, workload[p.ns], p.labels)

AskedFor(p) ==
  /\ p.ns \in AskedNamespaces /\ MatchesQuery(p)
  /\ flags.selector # None => \A r \in flags.selector : Holds(r, p.labels)
  /\ flags.fieldSelector \notin {None, Blank} =>
       \A f \in flags.fieldSelector : FieldOf(p, f.field) = f.value
  /\ flags.node \notin {None, Blank} => p.node = flags.node
  /\ p.name \notin flags.excludePod

\* A run that has started tails the pods the options ask for, all of them and no
\* others: the scope of the Api, the translated selectors, the pages of the list and
\* the filters of watch_admission.rs complement each other for every combination of
\* namespaces, selectors and kind of query, whatever could or could not be read.
TailsWhatFlagsAsk ==
  stage = "running" =>
    {p \in IF cfg.follow THEN Selected ELSE listed : AdmitPod(policy, p)}
    = {p \in AllPods : AskedFor(p) /\ (policy.condition # None => PodMatchesCondition(p, policy.condition))}

\* Nothing is asked of the cluster with an option that is later rejected, except for
\* --include and --highlight patterns that only clash once they are merged
\* (README: "validated before connecting to the cluster").
RejectsBeforeAsking ==
  asked => /\ flags.malformed = {} /\ ParseQuery(ResolvePodQuery(flags)) # Error
           /\ failure \in {None, "api", "pages"} \/ MergedPatternsClash

\* Without -A and a namespace in -n the run looks at the namespace of the context its
\* client talks to, unless the user switches contexts between core_run_config and
\* build_client.
NamespaceOfClient ==
  /\ stage = "running" /\ ~flags.allNamespaces /\ DedupedExplicitNamespaces(flags) = <<>>
  /\ flags.context # None \/ readAs = kubeconfig
  => cfg.namespaces = <<IF NamespaceOf[client] \in {None, Blank} THEN DefaultNs ELSE NamespaceOf[client]>>
=============================================================================

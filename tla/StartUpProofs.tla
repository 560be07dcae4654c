--------------------------- MODULE StartUpProofs ---------------------------
(***************************************************************************)
(* Theorems about StartUp, for every set of command lines, kubeconfigs,    *)
(* workloads and pods.                                                     *)
(***************************************************************************)
EXTENDS StartUp, SelectionProofs

Silent == {"parsed", "validated", "configured", "connected"}
Connected == {"connected", "getting", "planned", "listing", "running"}

\* What the stages have established: no request before the plan is begun, no failure
\* before the end, and what validate and parse_query let pass.
OrderInv ==
  /\ stage \in Stages
  /\ stage \in Silent => ~asked
  /\ stage # "failed" => failure = None
  /\ stage # "parsed" /\ stage # "failed" => flags.malformed = {}
  /\ asked => flags.malformed = {}

QueryInv ==
  /\ stage \in {"configured"} \cup Connected => cfg.query = ResolvePodQuery(flags)
  /\ asked \/ stage \in Connected \ {"connected"} => ParseQuery(ResolvePodQuery(flags)) # Error

FailureInv == asked => failure \in {None, "api", "pages"} \/ MergedPatternsClash

\* The namespaces are those of the kubeconfig that was read for them, the client that
\* of the last one.
ContextInv ==
  /\ stage \in {"configured"} \cup Connected =>
       /\ cfg.namespaces = ResolveNamespaces(flags, readAs)
       /\ ResolveNamespaces(flags, readAs) # Error
  /\ stage \in Connected => client = PickContextName(flags, kubeconfig) /\ client # Error

\* The flags never change, and the kubeconfig only before the client is built.
LEMMA StepFrame ==
  ASSUME [Next]_vars
  PROVE  flags' = flags /\ (kubeconfig' = kubeconfig \/ stage \in {"parsed", "validated", "configured"})
  BY DEF Next, vars, input, SwitchContext, ValidateFlags, Configure, BuildClient, BuildPlan,
         GetWorkload, GetFails, Prepare, ListPage, ListFails

LEMMA OrderStep == OrderInv /\ [Next]_vars => OrderInv'
<1> SUFFICES ASSUME OrderInv, [Next]_vars PROVE OrderInv'
  OBVIOUS
<1> USE DEF OrderInv, Stages, Silent, Goes, Fail, input
<1>1. CASE SwitchContext
  BY <1>1 DEF SwitchContext
<1>2. CASE ValidateFlags
  BY <1>2 DEF ValidateFlags, Validate
<1>3. CASE Configure
  BY <1>3 DEF Configure
<1>4. CASE BuildClient
  BY <1>4 DEF BuildClient
<1>5. CASE BuildPlan
  BY <1>5 DEF BuildPlan
<1>6. CASE GetWorkload
  BY <1>6 DEF GetWorkload
<1>7. CASE GetFails
  BY <1>7 DEF GetFails
<1>8. CASE Prepare
  BY <1>8 DEF Prepare
<1>9. CASE \E page \in SUBSET rest : ListPage(page)
  BY <1>9 DEF ListPage
<1>10. CASE ListFails
  BY <1>10 DEF ListFails
<1>11. CASE UNCHANGED vars
  BY <1>11 DEF vars
<1> QED
  BY <1>1, <1>2, <1>3, <1>4, <1>5, <1>6, <1>7, <1>8, <1>9, <1>10, <1>11 DEF Next

LEMMA QueryStep == OrderInv /\ QueryInv /\ [Next]_vars => QueryInv'
<1> SUFFICES ASSUME OrderInv, QueryInv, [Next]_vars PROVE QueryInv'
  OBVIOUS
<1>0. /\ ResolvePodQuery(flags)' = ResolvePodQuery(flags)
      /\ ParseQuery(ResolvePodQuery(flags))' = ParseQuery(ResolvePodQuery(flags))
  BY StepFrame DEF ResolvePodQuery, ParseQuery, IsKind
<1> USE DEF OrderInv, QueryInv, Stages, Silent, Connected, Goes, Fail, input
<1>1. CASE SwitchContext
  BY <1>0, <1>1 DEF SwitchContext
<1>2. CASE ValidateFlags
  BY <1>0, <1>2 DEF ValidateFlags
<1>3. CASE Configure
  BY <1>0, <1>3 DEF Configure, CoreRunConfig
<1>4. CASE BuildClient
  BY <1>0, <1>4 DEF BuildClient
<1>5. CASE BuildPlan
  BY <1>0, <1>5 DEF BuildPlan
<1>6. CASE GetWorkload
  BY <1>0, <1>6 DEF GetWorkload
<1>7. CASE GetFails
  BY <1>0, <1>7 DEF GetFails
<1>8. CASE Prepare
  BY <1>0, <1>8 DEF Prepare
<1>9. CASE \E page \in SUBSET rest : ListPage(page)
  BY <1>0, <1>9 DEF ListPage
<1>10. CASE ListFails
  BY <1>0, <1>10 DEF ListFails
<1>11. CASE UNCHANGED vars
  BY <1>0, <1>11 DEF vars
<1> QED
  BY <1>1, <1>2, <1>3, <1>4, <1>5, <1>6, <1>7, <1>8, <1>9, <1>10, <1>11 DEF Next

LEMMA FailureStep == OrderInv /\ FailureInv /\ [Next]_vars => FailureInv'
<1> SUFFICES ASSUME OrderInv, FailureInv, [Next]_vars PROVE FailureInv'
  OBVIOUS
<1>0. MergedPatternsClash' = MergedPatternsClash
  BY StepFrame DEF MergedPatternsClash
<1> USE DEF OrderInv, FailureInv, Stages, Silent, Goes, Fail, input
<1>1. CASE SwitchContext \/ ValidateFlags \/ Configure \/ BuildClient \/ BuildPlan
  BY <1>0, <1>1 DEF SwitchContext, ValidateFlags, Configure, BuildClient, BuildPlan
<1>2. CASE GetWorkload
  BY <1>0, <1>2 DEF GetWorkload
<1>3. CASE GetFails
  BY <1>0, <1>3 DEF GetFails
<1>4. CASE Prepare
  BY <1>0, <1>4 DEF Prepare
<1>5. CASE \E page \in SUBSET rest : ListPage(page)
  BY <1>0, <1>5 DEF ListPage
<1>6. CASE ListFails
  BY <1>0, <1>6 DEF ListFails
<1>7. CASE UNCHANGED vars
  BY <1>0, <1>7 DEF vars
<1> QED
  BY <1>1, <1>2, <1>3, <1>4, <1>5, <1>6, <1>7 DEF Next

LEMMA ContextStep == OrderInv /\ ContextInv /\ [Next]_vars => ContextInv'
<1> SUFFICES ASSUME OrderInv, ContextInv, [Next]_vars PROVE ContextInv'
  OBVIOUS
<1>0. /\ flags' = flags /\ (kubeconfig' = kubeconfig \/ stage \in {"parsed", "validated", "configured"})
  BY StepFrame
<1> USE DEF OrderInv, ContextInv, Stages, Connected, Goes, Fail, input
<1>1. CASE SwitchContext
  BY <1>0, <1>1 DEF SwitchContext
<1>2. CASE ValidateFlags
  BY <1>0, <1>2 DEF ValidateFlags
<1>3. CASE Configure
  <2>1. CoreRunConfig(flags, ResolveNamespaces(flags, kubeconfig)).namespaces
          = ResolveNamespaces(flags, kubeconfig)
    BY DEF CoreRunConfig
  <2> QED
    BY <1>0, <1>3, <2>1 DEF Configure
<1>4. CASE BuildClient
  BY <1>0, <1>4 DEF BuildClient
<1>5. CASE BuildPlan
  BY <1>0, <1>5 DEF BuildPlan
<1>6. CASE GetWorkload
  BY <1>0, <1>6 DEF GetWorkload
<1>7. CASE GetFails
  BY <1>0, <1>7 DEF GetFails
<1>8. CASE Prepare
  BY <1>0, <1>8 DEF Prepare
<1>9. CASE \E page \in SUBSET rest : ListPage(page)
  BY <1>0, <1>9 DEF ListPage
<1>10. CASE ListFails
  BY <1>0, <1>10 DEF ListFails
<1>11. CASE UNCHANGED vars
  BY <1>0, <1>11 DEF vars
<1> QED
  BY <1>1, <1>2, <1>3, <1>4, <1>5, <1>6, <1>7, <1>8, <1>9, <1>10, <1>11 DEF Next

StartInv == OrderInv /\ QueryInv /\ FailureInv /\ ContextInv

\* The invariant behind the next two: what each stage of main and run has established.
THEOREM StartInvariance == Spec => []StartInv
<1>1. Init => StartInv
  BY DEF Init, StartInv, OrderInv, QueryInv, FailureInv, ContextInv, Stages, Silent, Connected
<1>2. StartInv /\ [Next]_vars => StartInv'
  BY OrderStep, QueryStep, FailureStep, ContextStep DEF StartInv
<1> QED
  BY <1>1, <1>2, PTL DEF Spec

\* For every command line: no request is sent with an option that is later rejected,
\* other than --include and --highlight patterns that clash once they are merged.
THEOREM RejectsInTime == Spec => []RejectsBeforeAsking
<1>1. StartInv => RejectsBeforeAsking
  BY DEF StartInv, OrderInv, QueryInv, FailureInv, RejectsBeforeAsking
<1> QED
  BY <1>1, StartInvariance, PTL

\* For every kubeconfig and every moment at which it is switched: the implied
\* namespace is that of the client's context, unless it was switched between
\* core_run_config and build_client.
THEOREM NamespaceFits == Spec => []NamespaceOfClient
<1>1. StartInv => NamespaceOfClient
  <2> SUFFICES ASSUME StartInv, stage = "running", ~flags.allNamespaces,
                      DedupedExplicitNamespaces(flags) = <<>>,
                      flags.context # None \/ readAs = kubeconfig
               PROVE  cfg.namespaces = <<IF NamespaceOf[client] \in {None, Blank} THEN DefaultNs
                                         ELSE NamespaceOf[client]>>
    BY DEF NamespaceOfClient
  <2>1. cfg.namespaces = ResolveNamespaces(flags, readAs) /\ ResolveNamespaces(flags, readAs) # Error
    BY DEF StartInv, ContextInv, Connected
  <2>2. ResolveNamespaces(flags, readAs) = <<DefaultNamespace(flags, readAs)>>
        /\ DefaultNamespace(flags, readAs) # Error
    BY <2>1 DEF ResolveNamespaces
  <2>3. client = PickContextName(flags, kubeconfig) /\ client # Error
    BY DEF StartInv, ContextInv, Connected
  <2>4. PickContextName(flags, readAs) # Error
    BY <2>2 DEF DefaultNamespace
  <2>5. PickContextName(flags, readAs) = client
    <3>1. CASE readAs = kubeconfig
      BY <2>3, <3>1
    <3>2. CASE flags.context # None
      BY <2>3, <2>4, <3>2 DEF PickContextName
    <3> QED
      BY <3>1, <3>2
  <2>6. DefaultNamespace(flags, readAs)
          = IF NamespaceOf[client] \in {None, Blank} THEN DefaultNs ELSE NamespaceOf[client]
    BY <2>3, <2>5 DEF DefaultNamespace
  <2> QED
    BY <2>1, <2>2, <2>6
<1> QED
  BY <1>1, StartInvariance, PTL

(***************************************************************************)
(* The namespaces of a run, and types                                      *)
(***************************************************************************)
\* The namespaces a run looks at are the explicit ones, each once, or the implied one.
LEMMA ResolvedScope ==
  ASSUME NEW f \in FlagSets, NEW kc, NEW ns, ns = ResolveNamespaces(f, kc), ns # Error
  PROVE  /\ ns \in Seq(Namespaces)
         /\ f.allNamespaces => ns = <<>>
         /\ ~f.allNamespaces =>
              /\ ns # <<>>
              /\ Range(ns) = IF Range(f.namespaces) \ {Blank} # {} THEN Range(f.namespaces) \ {Blank}
                             ELSE {DefaultNamespace(f, kc)}
<1> DEFINE d == DedupedExplicitNamespaces(f)
           explicit == Range(f.namespaces) \ {Blank}
<1>1. f.namespaces \in Seq(Namespaces \cup {Blank}) /\ f.allNamespaces \in BOOLEAN
  BY CommandLines DEF Cli
<1>2. d \in Seq(Namespaces \cup {Blank}) /\ Range(d) = explicit
  BY <1>1, DedupedIsExact
<1> HIDE DEF d
<1>3. explicit \subseteq Namespaces
  BY <1>1, LenProperties DEF Range
<1>4. Len(d) \in Nat /\ DOMAIN d = 1..Len(d) /\ \A i \in 1..Len(d) : d[i] \in explicit
  BY <1>2, LenProperties DEF Range
<1>5. d \in Seq(Namespaces)
  <2>1. \A i \in 1..Len(d) : d[i] \in Namespaces
    BY <1>3, <1>4
  <2>2. d = [i \in 1..Len(d) |-> d[i]]
    BY <1>2
  <2> QED BY <1>4, <2>1, <2>2
<1>6. d = <<>> <=> explicit = {}
  <2>1. Range(<<>>) = {}
    BY DEF Range
  <2>2. ASSUME explicit = {} PROVE d = <<>>
    <3>1. Len(d) = 0
      BY <1>4, <2>2
    <3> QED BY <1>2, <3>1, EmptySeq
  <2> QED BY <1>2, <2>1, <2>2
<1>7. CASE f.allNamespaces
  BY <1>7 DEF ResolveNamespaces
<1>8. CASE ~f.allNamespaces /\ d # <<>>
  <2>1. ns = d
    BY <1>8 DEF ResolveNamespaces, d
  <2> QED BY <1>2, <1>5, <1>6, <1>8, <2>1
<1>9. CASE ~f.allNamespaces /\ d = <<>>
  <2> DEFINE implied == DefaultNamespace(f, kc)
  <2>1. ns = <<implied>> /\ implied # Error
    BY <1>9 DEF ResolveNamespaces, d
  <2>2. implied \in Namespaces
    <3>1. PickContextName(f, kc) # Error
      BY <2>1 DEF DefaultNamespace
    <3>2. PickContextName(f, kc) \in Contexts
      BY <3>1 DEF PickContextName
    <3> QED BY <3>1, <3>2, NamesAreNames DEF DefaultNamespace, Namespaces
  <2> HIDE DEF implied
  <2>3. <<implied>> \in Seq(Namespaces) /\ <<implied>> # <<>> /\ Range(<<implied>>) = {implied}
    BY <2>2 DEF Range
  <2> QED BY <1>6, <1>9, <2>1, <2>3 DEF implied
<1> QED BY <1>1, <1>7, <1>8, <1>9

(***************************************************************************)
(* The configuration, the workloads read, the plan and the list            *)
(***************************************************************************)
Configured == {"configured"} \cup Connected
InputInv ==
  /\ flags \in FlagSets
  /\ flags.query # None /\ IsKind(flags.query) /\ flags.query.kind \in Kinds =>
       workload \in [Namespaces -> Workloads[flags.query.kind] \cup {None}]
CfgInv ==
  stage \in Configured => cfg = CoreRunConfig(flags, ResolveNamespaces(flags, readAs))
                          /\ ResolveNamespaces(flags, readAs) # Error

\* The query names a workload whose selector is wanted.
ByWorkload(c) == c.selector = None /\ IsKind(c.query) /\ c.query.kind # "pod"
Sel(q, w, n) == IF w[n] = None THEN None ELSE WorkloadSelector(q.kind, q.name, w[n])
Sels(q, w, ns) == {Sel(q, w, n) : n \in ns}

\* What was read and what is still to be read are, together, all the selectors.
FetchInv ==
  /\ stage \in Silent => selectors = {} /\ getFailed = FALSE
  /\ stage = "getting" =>
       /\ toGet \in Seq(Namespaces) /\ toGet # <<>> /\ getFailed = FALSE
       /\ ByWorkload(cfg) /\ ~cfg.allNamespaces
       /\ \A n \in Range(cfg.namespaces) : n \in Range(toGet) \/ workload[n] # None
       /\ Sels(cfg.query, workload, Range(cfg.namespaces))
          = selectors \cup Sels(cfg.query, workload, Range(toGet))

\* The label selector of a query that names a workload.
Resolved(c, w, failed, labels) ==
  ByWorkload(c) =>
    IF c.allNamespaces \/ failed THEN labels = LabelSelectorFor(c.query.name)
    ELSE /\ labels = UnifyLabelSelectors(Sels(c.query, w, Range(c.namespaces)), c.query.name)
         /\ \A n \in Range(c.namespaces) : w[n] # None
PlanInv ==
  stage \in {"planned", "listing", "running"} =>
    \E labels : plan = PodWatchPlan(cfg, labels) /\ Resolved(cfg, workload, getFailed, labels)

ListInv ==
  /\ pages \in Nat
  /\ stage \in Silent \cup {"getting", "planned"} => pages = 0 /\ listed = {}
  /\ stage \in {"listing", "running"} => policy = WatchAdmissionPolicy(cfg, plan)
  /\ stage = "listing" => pages < MaxListPages /\ listed \cup rest = Selected /\ ~cfg.follow
  /\ stage = "running" /\ ~cfg.follow => listed = Selected

\* The flags and the cluster's objects never change, the configuration is made once.
LEMMA CfgFrame ==
  ASSUME [Next]_vars
  PROVE  /\ flags' = flags /\ workload' = workload
         /\ stage # "validated" => cfg' = cfg /\ readAs' = readAs
  BY DEF Next, vars, input, SwitchContext, ValidateFlags, Configure, BuildClient, BuildPlan,
         GetWorkload, GetFails, Prepare, ListPage, ListFails, Fail

LEMMA CfgStep ==
  ASSUME OrderInv, InputInv, CfgInv, [Next]_vars
  PROVE  InputInv' /\ CfgInv'
<1>1. InputInv'
  BY CfgFrame DEF InputInv
<1>2. CASE Configure
  <2>1. stage' = "failed" \/ (cfg' = CoreRunConfig(flags, ResolveNamespaces(flags, kubeconfig))
                              /\ ResolveNamespaces(flags, kubeconfig) # Error
                              /\ readAs' = kubeconfig)
    BY <1>2 DEF Configure, Fail
  <2> QED BY <1>1, <2>1, CfgFrame DEF CfgInv, Configured, Connected
<1>3. CASE stage # "validated"
  <2>1. cfg' = cfg /\ readAs' = readAs /\ flags' = flags
    BY <1>3, CfgFrame
  <2>2. stage' \in Configured => stage \in Configured
    BY <1>3 DEF Next, vars, input, SwitchContext, ValidateFlags, Configure, BuildClient, BuildPlan,
         GetWorkload, GetFails, Prepare, ListPage, ListFails, Fail, Goes, Configured, Connected
  <2> QED BY <1>1, <2>1, <2>2 DEF CfgInv
<1>4. CASE stage = "validated" /\ ~Configure
  <2>1. stage' = "validated"
    BY <1>4 DEF Next, vars, input, SwitchContext, ValidateFlags, Configure, BuildClient, BuildPlan,
         GetWorkload, GetFails, Prepare, ListPage, ListFails, Fail, Goes
  <2> QED BY <1>1, <2>1 DEF CfgInv, Configured, Connected
<1> QED BY <1>2, <1>3, <1>4

\* What the configuration says of the namespaces.
LEMMA CfgScope ==
  ASSUME InputInv, CfgInv, stage \in Configured
  PROVE  /\ cfg.namespaces \in Seq(Namespaces) /\ cfg.allNamespaces = flags.allNamespaces
         /\ cfg.follow \in BOOLEAN /\ cfg.allNamespaces \in BOOLEAN
         /\ cfg.allNamespaces => cfg.namespaces = <<>>
         /\ ~cfg.allNamespaces => cfg.namespaces # <<>>
         /\ \A n \in Range(cfg.namespaces) : n \in Namespaces /\ n \notin {Blank, Error, None}
<1>1. /\ cfg.namespaces = ResolveNamespaces(flags, readAs) /\ cfg.allNamespaces = flags.allNamespaces
      /\ cfg.follow = flags.follow
  BY DEF CfgInv, CoreRunConfig
<1>2. flags.follow \in BOOLEAN /\ flags.allNamespaces \in BOOLEAN
  BY CommandLines DEF InputInv, Cli
<1>3. /\ cfg.namespaces \in Seq(Namespaces) /\ (flags.allNamespaces => cfg.namespaces = <<>>)
      /\ (~flags.allNamespaces => cfg.namespaces # <<>>)
  BY <1>1, ResolvedScope DEF InputInv, CfgInv
<1>4. \A n \in Range(cfg.namespaces) : n \in Namespaces
  BY <1>3, LenProperties DEF Range
<1>5. \A n \in Namespaces : n \notin {Blank, Error, None}
  BY NamesAreNames DEF Namespaces
<1> QED BY <1>1, <1>2, <1>3, <1>4, <1>5

LEMMA HeadTailRange ==
  ASSUME NEW S, NEW s \in Seq(S), s # <<>>
  PROVE  Tail(s) \in Seq(S) /\ Range(s) = {Head(s)} \cup Range(Tail(s)) /\ Head(s) \in S
<1>1. /\ Head(s) \in S /\ Tail(s) \in Seq(S) /\ Len(Tail(s)) = Len(s) - 1 /\ Head(s) = s[1]
      /\ \A i \in 1..Len(Tail(s)) : Tail(s)[i] = s[i + 1]
  BY HeadTailProperties
<1>2. Len(s) \in Nat /\ Len(s) # 0 /\ DOMAIN s = 1..Len(s) /\ DOMAIN Tail(s) = 1..Len(Tail(s))
  BY <1>1, LenProperties, EmptySeq
<1>3. ASSUME NEW i \in 1..Len(s) PROVE s[i] = Head(s) \/ s[i] \in Range(Tail(s))
  <2>1. CASE i = 1
    BY <1>1, <2>1
  <2>2. CASE i # 1
    <3>1. i - 1 \in 1..Len(Tail(s)) /\ (i - 1) + 1 = i
      BY <1>1, <1>2, <2>2
    <3>2. Tail(s)[i - 1] = s[i]
      BY <1>1, <3>1
    <3> QED BY <1>2, <3>1, <3>2 DEF Range
  <2> QED BY <2>1, <2>2
<1>4. ASSUME NEW i \in 1..Len(Tail(s)) PROVE Tail(s)[i] \in Range(s)
  <2>1. i + 1 \in 1..Len(s)
    BY <1>1, <1>2
  <2> QED BY <1>1, <1>2, <2>1 DEF Range
<1>5. Head(s) \in Range(s)
  BY <1>1, <1>2 DEF Range
<1> QED BY <1>1, <1>2, <1>3, <1>4, <1>5 DEF Range

\* Reading the workloads, namespace by namespace.
LEMMA FetchStep ==
  ASSUME OrderInv, InputInv, CfgInv, FetchInv, [Next]_vars
  PROVE  FetchInv'
<1>0. flags' = flags /\ workload' = workload /\ (stage # "validated" => cfg' = cfg)
  BY CfgFrame
<1>1. CASE GetWorkload
  <2> DEFINE q == cfg.query
             n == Head(toGet)
  <2>1. /\ stage = "getting" /\ workload[n] # None
        /\ toGet' = Tail(toGet) /\ selectors' = selectors \cup {Sel(q, workload, n)}
        /\ (toGet' = <<>> => stage' = "planned") /\ (toGet' # <<>> => stage' = "getting")
        /\ UNCHANGED <<workload, cfg, getFailed>>
    BY <1>1 DEF GetWorkload, Goes, input, Sel
  <2>2. /\ toGet \in Seq(Namespaces) /\ toGet # <<>> /\ getFailed = FALSE
        /\ ByWorkload(cfg) /\ ~cfg.allNamespaces
        /\ \A m \in Range(cfg.namespaces) : m \in Range(toGet) \/ workload[m] # None
        /\ Sels(q, workload, Range(cfg.namespaces))
           = selectors \cup Sels(q, workload, Range(toGet))
    BY <2>1 DEF FetchInv
  <2>3. Tail(toGet) \in Seq(Namespaces) /\ Range(toGet) = {n} \cup Range(Tail(toGet))
    BY <2>2, HeadTailRange
  <2>4. Sels(q, workload, Range(toGet)) = {Sel(q, workload, n)} \cup Sels(q, workload, Range(Tail(toGet)))
    BY <2>3 DEF Sels
  <2>5. CASE toGet' # <<>>
    <3>1. Sels(q, workload, Range(cfg.namespaces)) = selectors' \cup Sels(q, workload, Range(toGet'))
      BY <2>1, <2>2, <2>4
    <3>2. \A m \in Range(cfg.namespaces) : m \in Range(toGet') \/ workload[m] # None
      BY <2>1, <2>2, <2>3
    <3>3. /\ stage' = "getting" /\ toGet' \in Seq(Namespaces) /\ getFailed' = FALSE
          /\ ByWorkload(cfg)' /\ ~cfg'.allNamespaces /\ cfg' = cfg /\ workload' = workload
      BY <2>1, <2>2, <2>3, <2>5 DEF ByWorkload, IsKind
    <3>4. Sels(cfg'.query, workload', Range(cfg'.namespaces))
          = selectors' \cup Sels(cfg'.query, workload', Range(toGet'))
      BY <3>1, <3>3
    <3>5. \A m \in Range(cfg'.namespaces) : m \in Range(toGet') \/ workload'[m] # None
      BY <3>2, <3>3
    <3>6. stage' \notin Silent
      BY <3>3 DEF Silent
    <3> QED BY <2>5, <3>3, <3>4, <3>5, <3>6 DEF FetchInv
  <2>6. CASE toGet' = <<>>
    BY <2>1, <2>6 DEF FetchInv, Silent
  <2> QED BY <2>5, <2>6
<1>2. CASE BuildPlan
  <2>1. /\ stage = "connected" /\ UNCHANGED <<workload, cfg, selectors, getFailed>>
        /\ selectors = {} /\ getFailed = FALSE
    BY <1>2 DEF BuildPlan, Fail, input, FetchInv, Silent
  <2>2. CASE stage' = "getting"
    <3>1. toGet' = WorkloadsToGet(cfg) /\ toGet' # <<>>
      BY <1>2, <2>2 DEF BuildPlan, Fail, Goes
    <3>2. ByWorkload(cfg) /\ ~cfg.allNamespaces /\ toGet' = cfg.namespaces
      BY <3>1 DEF WorkloadsToGet, ByWorkload
    <3>3. cfg.namespaces \in Seq(Namespaces)
      BY <2>1, CfgScope DEF Configured, Connected
    <3> QED BY <2>1, <2>2, <3>1, <3>2, <3>3
            DEF FetchInv, Silent, ByWorkload, IsKind, Sels, Sel, Range
  <2>3. CASE stage' # "getting"
    <3>1. stage' \in {"failed", "planned"}
      BY <1>2, <2>3 DEF BuildPlan, Fail, Goes
    <3> QED BY <3>1 DEF FetchInv, Silent
  <2> QED BY <2>2, <2>3
<1>3. CASE SwitchContext \/ ValidateFlags \/ Configure \/ BuildClient
  <2>1. stage \in Silent /\ stage' # "getting" /\ UNCHANGED <<selectors, getFailed>>
    BY <1>3 DEF SwitchContext, ValidateFlags, Configure, BuildClient, Fail, Goes, Silent
  <2> QED BY <2>1 DEF FetchInv, Silent
<1>4. CASE GetFails \/ Prepare \/ (\E page \in SUBSET rest : ListPage(page)) \/ ListFails
  <2>1. stage' \in {"failed", "planned", "running", "listing"}
    BY <1>4 DEF GetFails, Prepare, ListPage, ListFails, Fail, Goes
  <2> QED BY <2>1 DEF FetchInv, Silent
<1>5. CASE UNCHANGED vars
  BY <1>5 DEF vars, input, FetchInv, ByWorkload, IsKind, Sels, Sel, Range
<1> QED BY <1>1, <1>2, <1>3, <1>4, <1>5 DEF Next

\* The plan's label selector, however it came about.
LEMMA PlanStep ==
  ASSUME OrderInv, InputInv, CfgInv, FetchInv, PlanInv, [Next]_vars
  PROVE  PlanInv'
<1> DEFINE Ready == {"planned", "listing", "running"}
<1>1. ASSUME stage \in Ready, UNCHANGED <<plan, cfg, workload, getFailed>> PROVE PlanInv'
  <2>1. PICK labels : plan = PodWatchPlan(cfg, labels) /\ Resolved(cfg, workload, getFailed, labels)
    BY <1>1 DEF PlanInv
  <2>2. plan' = PodWatchPlan(cfg', labels) /\ Resolved(cfg', workload', getFailed', labels)
    BY <1>1, <2>1
  <2> QED BY <2>2 DEF PlanInv
<1>2. CASE GetWorkload
  <2> DEFINE q == cfg.query
             n == Head(toGet)
             all == Sels(q, workload, Range(cfg.namespaces))
  <2>1. /\ stage = "getting" /\ workload[n] # None
        /\ toGet' = Tail(toGet)
        /\ (toGet' = <<>> => plan' = PodWatchPlan(cfg, UnifyLabelSelectors(
                                       selectors \cup {Sel(q, workload, n)}, q.name)))
        /\ (toGet' # <<>> => stage' = "getting")
        /\ UNCHANGED <<workload, cfg, getFailed>>
    BY <1>2 DEF GetWorkload, Goes, input, Sel
  <2>2. /\ toGet \in Seq(Namespaces) /\ toGet # <<>> /\ getFailed = FALSE
        /\ ByWorkload(cfg) /\ ~cfg.allNamespaces
        /\ \A m \in Range(cfg.namespaces) : m \in Range(toGet) \/ workload[m] # None
        /\ all = selectors \cup Sels(q, workload, Range(toGet))
    BY <2>1 DEF FetchInv
  <2>3. Range(toGet) = {n} \cup Range(Tail(toGet))
    BY <2>2, HeadTailRange
  <2>4. CASE toGet' = <<>>
    <3>1. Range(toGet) = {n}
      BY <2>1, <2>3, <2>4 DEF Range
    <3>2. all = selectors \cup {Sel(q, workload, n)}
      BY <2>2, <3>1 DEF Sels
    <3>3. plan' = PodWatchPlan(cfg, UnifyLabelSelectors(all, q.name))
      BY <2>1, <2>4, <3>2
    <3>4. \A m \in Range(cfg.namespaces) : workload[m] # None
      BY <2>1, <2>2, <3>1
    <3>5. Resolved(cfg, workload, getFailed, UnifyLabelSelectors(all, q.name))
      BY <2>2, <3>4 DEF Resolved
    <3> HIDE DEF all
    <3> QED BY <2>1, <3>3, <3>5 DEF PlanInv
  <2>5. CASE toGet' # <<>>
    BY <2>1, <2>5 DEF PlanInv
  <2> QED BY <2>4, <2>5
<1>3. CASE GetFails
  <2>1. /\ stage = "getting" /\ getFailed' = TRUE /\ UNCHANGED <<workload, cfg>>
        /\ stage' = "failed" \/ plan' = PodWatchPlan(cfg, LabelSelectorFor(cfg.query.name))
    BY <1>3 DEF GetFails, Fail, input
  <2>2. Resolved(cfg, workload, TRUE, LabelSelectorFor(cfg.query.name))
    BY DEF Resolved
  <2> QED BY <2>1, <2>2 DEF PlanInv
<1>4. CASE BuildPlan
  <2>1. stage = "connected" /\ UNCHANGED <<workload, cfg, getFailed>> /\ getFailed = FALSE
    BY <1>4 DEF BuildPlan, Fail, input, FetchInv, Silent
  <2>2. CASE stage' = "planned"
    <3> DEFINE labels == IF IsKind(cfg.query) THEN LabelSelectorFor(cfg.query.name) ELSE {}
    <3>1. WorkloadsToGet(cfg) = <<>> /\ plan' = PodWatchPlan(cfg, labels)
      BY <1>4, <2>2 DEF BuildPlan, Fail, Goes
    <3>2. ~cfg.allNamespaces => cfg.namespaces # <<>>
      BY <2>1, CfgScope DEF Configured, Connected
    <3>3. ByWorkload(cfg) => cfg.allNamespaces /\ labels = LabelSelectorFor(cfg.query.name)
      BY <3>1, <3>2 DEF WorkloadsToGet, ByWorkload
    <3> HIDE DEF labels
    <3>4. Resolved(cfg, workload, getFailed, labels)
      BY <3>3 DEF Resolved
    <3> QED BY <2>1, <3>1, <3>4 DEF PlanInv
  <2>3. CASE stage' # "planned"
    <3>1. stage' \in {"failed", "getting"}
      BY <1>4, <2>3 DEF BuildPlan, Fail, Goes
    <3> QED BY <3>1 DEF PlanInv
  <2> QED BY <2>2, <2>3
<1>5. CASE SwitchContext \/ ValidateFlags \/ Configure \/ BuildClient
  <2>1. stage' \notin Ready
    BY <1>5 DEF SwitchContext, ValidateFlags, Configure, BuildClient, Fail, Goes
  <2> QED BY <2>1 DEF PlanInv
<1>6. CASE Prepare \/ (\E page \in SUBSET rest : ListPage(page)) \/ ListFails
  <2>1. stage \in Ready /\ UNCHANGED <<plan, cfg, workload, getFailed>>
    BY <1>6 DEF Prepare, ListPage, ListFails, Fail, Goes, input
  <2> QED BY <1>1, <2>1
<1>7. CASE UNCHANGED vars
  <2>1. UNCHANGED <<stage, plan, cfg, workload, getFailed>>
    BY <1>7 DEF vars, input
  <2> QED BY <1>1, <2>1 DEF PlanInv
<1> QED BY <1>2, <1>3, <1>4, <1>5, <1>6, <1>7 DEF Next

\* The list grows by what the server returns, until there is no more.
LEMMA ListStep ==
  ASSUME OrderInv, InputInv, CfgInv, ListInv, [Next]_vars
  PROVE  ListInv'
<1> DEFINE Early == Silent \cup {"getting", "planned"}
<1>1. ASSUME UNCHANGED <<cfg, plan>> PROVE Selected' = Selected
  BY <1>1 DEF Selected, Server, ApiScope, Holds, FieldOf
<1>2. CASE SwitchContext \/ ValidateFlags \/ Configure \/ BuildClient \/ BuildPlan
           \/ GetWorkload \/ GetFails
  <2>1. stage \in Early /\ UNCHANGED <<pages, listed>>
        /\ stage' \notin {"listing", "running"}
    BY <1>2 DEF SwitchContext, ValidateFlags, Configure, BuildClient, BuildPlan, GetWorkload,
                GetFails, Fail, Goes, Silent
  <2>2. stage' \in Early => pages' = 0 /\ listed' = {}
    BY <2>1 DEF ListInv, Silent
  <2> QED BY <2>1, <2>2 DEF ListInv
<1>3. CASE Prepare
  <2>1. stage = "planned" /\ pages = 0 /\ listed = {} /\ UNCHANGED <<cfg, plan, pages, listed>>
    BY <1>3 DEF Prepare, Fail, ListInv
  <2>2. \/ stage' = "failed"
        \/ /\ stage' = IF cfg.follow THEN "running" ELSE "listing"
           /\ policy' = WatchAdmissionPolicy(cfg, plan) /\ rest' = Selected
    BY <1>3 DEF Prepare, Fail, Goes
  <2>3. Selected' = Selected
    BY <1>1, <2>1
  <2>4. policy' = WatchAdmissionPolicy(cfg, plan) => policy' = WatchAdmissionPolicy(cfg', plan')
    BY <2>1
  <2>5. MaxListPages \in Nat /\ 0 < MaxListPages
    BY StartBounds
  <2> HIDE DEF Early
  <2>6. CASE stage' = "failed"
    BY <2>1, <2>6 DEF ListInv, Silent
  <2>7. CASE stage' = "running" /\ cfg.follow /\ policy' = WatchAdmissionPolicy(cfg, plan)
    BY <2>1, <2>4, <2>7 DEF ListInv, Silent
  <2>8. CASE /\ stage' = "listing" /\ ~cfg.follow /\ policy' = WatchAdmissionPolicy(cfg, plan)
             /\ rest' = Selected
    <3>1. listed' \cup rest' = Selected' /\ pages' < MaxListPages /\ pages' \in Nat /\ ~cfg'.follow
      BY <2>1, <2>3, <2>5, <2>8
    <3> QED BY <2>4, <2>8, <3>1 DEF ListInv, Silent
  <2> QED BY <2>2, <2>6, <2>7, <2>8
<1>4. CASE \E page \in SUBSET rest : ListPage(page)
  <2> PICK page \in SUBSET rest : ListPage(page)
    BY <1>4
  <2>1. /\ stage = "listing" /\ UNCHANGED <<cfg, plan, policy>>
        /\ pages' = pages + 1 /\ listed' = listed \cup page /\ rest' = rest \ page
        /\ \/ rest' = {} /\ stage' = "running"
           \/ stage' = "failed"
           \/ pages' # MaxListPages /\ stage' = "listing"
    BY DEF ListPage, Goes
  <2>2. /\ pages \in Nat /\ pages < MaxListPages /\ listed \cup rest = Selected /\ ~cfg.follow
        /\ policy = WatchAdmissionPolicy(cfg, plan)
    BY <2>1 DEF ListInv
  <2>3. Selected' = Selected
    BY <1>1, <2>1
  <2>4. pages' \in Nat /\ (pages' # MaxListPages => pages' < MaxListPages)
    BY <2>1, <2>2, StartBounds
  <2>5. listed' \cup rest' = Selected' /\ (rest' = {} => listed' = Selected')
    BY <2>1, <2>2, <2>3
  <2>6. policy' = WatchAdmissionPolicy(cfg', plan') /\ ~cfg'.follow
    BY <2>1, <2>2
  <2>7. stage' \notin Early
    BY <2>1 DEF Silent
  <2> HIDE DEF Early
  <2> QED BY <2>1, <2>4, <2>5, <2>6, <2>7 DEF ListInv, Early
<1>5. CASE ListFails
  <2>1. stage' = "failed" /\ pages' = pages
    BY <1>5 DEF ListFails, Fail
  <2> QED BY <2>1 DEF ListInv, Silent
<1>6. CASE UNCHANGED vars
  <2>1. UNCHANGED <<stage, pages, listed, rest, policy, cfg, plan>>
    BY <1>6 DEF vars
  <2>2. Selected' = Selected
    BY <1>1, <2>1
  <2>3. WatchAdmissionPolicy(cfg', plan') = WatchAdmissionPolicy(cfg, plan)
    BY <2>1
  <2> HIDE DEF Early
  <2> QED BY <2>1, <2>2, <2>3 DEF ListInv
<1> QED BY <1>2, <1>3, <1>4, <1>5, <1>6 DEF Next

LEMMA TypeStep ==
  ASSUME OrderInv, InputInv, CfgInv, FetchInv, ListInv, TypeOK, [Next]_vars
  PROVE  TypeOK'
<1>1. flags' \in FlagSets /\ kubeconfig' \in Kubeconfigs /\ switches' \in 0..MaxSwitches
  <2>1. flags' = flags
    BY StepFrame
  <2>2. CASE SwitchContext
    BY <2>1, <2>2, StartBounds DEF SwitchContext, TypeOK
  <2>3. CASE ~SwitchContext
    <3>1. UNCHANGED <<kubeconfig, switches>>
      BY <2>3 DEF Next, vars, ValidateFlags, Configure, BuildClient, BuildPlan, GetWorkload,
                  GetFails, Prepare, ListPage, ListFails
    <3> QED BY <2>1, <3>1 DEF TypeOK
  <2> QED BY <2>2, <2>3
<1>2. client' \in Contexts \cup {None}
  <2>1. client' = client \/ (client' = PickContextName(flags, kubeconfig) /\ client' # Error)
    BY DEF Next, vars, SwitchContext, ValidateFlags, Configure, BuildClient, BuildPlan, GetWorkload,
           GetFails, Prepare, ListPage, ListFails, Fail
  <2> QED BY <2>1 DEF PickContextName, TypeOK
<1>3. Range(toGet') \subseteq Namespaces
  <2>1. CASE BuildPlan
    <3>1. cfg.namespaces \in Seq(Namespaces)
      BY <2>1, CfgScope DEF BuildPlan, Configured, Connected
    <3>2. toGet' \in {toGet, cfg.namespaces, <<>>}
      BY <2>1 DEF BuildPlan, Fail, WorkloadsToGet
    <3>3. Range(<<>>) = {} /\ Range(cfg.namespaces) \subseteq Namespaces
      BY <3>1, LenProperties DEF Range
    <3> QED BY <3>2, <3>3 DEF TypeOK
  <2>2. CASE GetWorkload
    <3>1. toGet \in Seq(Namespaces) /\ toGet # <<>> /\ toGet' = Tail(toGet)
      BY <2>2 DEF GetWorkload, FetchInv
    <3>2. Range(toGet') \subseteq Range(toGet)
      BY <3>1, HeadTailRange
    <3> QED BY <3>2 DEF TypeOK
  <2>3. CASE ~BuildPlan /\ ~GetWorkload
    <3>1. toGet' = toGet \/ toGet' = <<>>
      BY <2>3 DEF Next, vars, SwitchContext, ValidateFlags, Configure, BuildClient,
           GetFails, Prepare, ListPage, ListFails, Fail
    <3>2. Range(<<>>) = {}
      BY DEF Range
    <3> QED BY <3>1, <3>2 DEF TypeOK
  <2> QED BY <2>1, <2>2, <2>3
<1>4. pages' \in 0..MaxListPages /\ rest' \subseteq AllPods /\ listed' \subseteq AllPods
  <2>1. CASE \E page \in SUBSET rest : ListPage(page)
    <3>1. /\ stage = "listing" /\ pages' = pages + 1 /\ listed' \subseteq listed \cup rest
          /\ rest' \subseteq rest
      BY <2>1 DEF ListPage
    <3>2. pages \in Nat /\ pages < MaxListPages
      BY <3>1 DEF ListInv
    <3> QED BY <3>1, <3>2, StartBounds DEF TypeOK
  <2>2. CASE ~\E page \in SUBSET rest : ListPage(page)
    <3>1. UNCHANGED <<pages, listed>> /\ (rest' = rest \/ rest' = Selected)
      BY <2>2 DEF Next, vars, SwitchContext, ValidateFlags, Configure, BuildClient, BuildPlan,
                  GetWorkload, GetFails, Prepare, ListFails, Fail
    <3>2. Selected \subseteq AllPods
      BY DEF Selected, Server
    <3> QED BY <3>1, <3>2 DEF TypeOK
  <2> QED BY <2>1, <2>2
<1>5. asked' \in BOOLEAN /\ getFailed' \in BOOLEAN /\ stage' \in Stages
      /\ failure' \in Failures \cup {None} /\ (stage' = "failed" <=> failure' # None)
  <2>1. (asked' = asked \/ asked' = TRUE) /\ (getFailed' = getFailed \/ getFailed' = TRUE)
    BY DEF Next, vars, SwitchContext, ValidateFlags, Configure, BuildClient, BuildPlan, GetWorkload,
           GetFails, Prepare, ListPage, ListFails
  <2>2. \/ failure' = failure /\ (stage' = stage \/ (stage # "failed" /\ stage' \in Stages \ {"failed"}))
        \/ failure' \in Failures /\ stage' = "failed"
    BY DEF Next, vars, SwitchContext, ValidateFlags, Configure, BuildClient, BuildPlan, GetWorkload,
           GetFails, Prepare, ListPage, ListFails, Fail, Goes, Failures, Stages
  <2> QED BY <2>1, <2>2, NoneIsNoFailure DEF TypeOK, Stages
<1>6. stage' = "running" => \A n \in Range(cfg'.namespaces) : n \notin {Blank, Error, None}
  <2>1. InputInv' /\ CfgInv'
    BY CfgStep
  <2> SUFFICES ASSUME stage' = "running" PROVE cfg' = cfg /\ stage \in Configured
    BY CfgScope
  <2> QED BY DEF Next, vars, SwitchContext, ValidateFlags, Configure, BuildClient, BuildPlan,
         GetWorkload, GetFails, Prepare, ListPage, ListFails, Fail, Goes, Configured, Connected
<1> QED BY <1>1, <1>2, <1>3, <1>4, <1>5, <1>6 DEF TypeOK

\* What every stage has established, with all that is configured and read.
WholeInv ==
  StartInv /\ InputInv /\ CfgInv /\ FetchInv /\ PlanInv /\ ListInv /\ TypeOK

\* The invariant behind the next two: what main and run have configured, read, planned
\* and listed at each stage.
THEOREM WholeInvariance == Spec => []WholeInv
<1>1. Init => WholeInv
  <2> SUFFICES ASSUME Init PROVE WholeInv
    OBVIOUS
  <2>1. StartInv
    BY DEF Init, StartInv, OrderInv, QueryInv, FailureInv, ContextInv, Silent, Connected, Stages
  <2>2. InputInv /\ CfgInv /\ FetchInv /\ PlanInv /\ ListInv
    BY DEF Init, InputInv, CfgInv, FetchInv, PlanInv, ListInv, Silent, Configured, Connected
  <2>3. Range(<<>>) = {} /\ 0 \in 0..MaxSwitches /\ 0 \in 0..MaxListPages
    BY StartBounds DEF Range
  <2>4. TypeOK
    BY <2>3 DEF Init, TypeOK, Stages
  <2> QED BY <2>1, <2>2, <2>4 DEF WholeInv
<1>2. WholeInv /\ [Next]_vars => WholeInv'
  <2> SUFFICES ASSUME WholeInv, [Next]_vars PROVE WholeInv'
    OBVIOUS
  <2> USE DEF WholeInv, StartInv
  <2>1. StartInv'
    BY OrderStep, QueryStep, FailureStep, ContextStep
  <2>2. InputInv' /\ CfgInv'
    BY CfgStep
  <2>3. FetchInv' /\ PlanInv' /\ ListInv'
    BY FetchStep, PlanStep, ListStep
  <2>4. TypeOK'
    BY TypeStep
  <2> QED BY <2>1, <2>2, <2>3, <2>4
<1> QED BY <1>1, <1>2, PTL DEF Spec

\* The namespaces a run looks at are names, the pages stay within their limit, and
\* exactly the starts that failed have a reason (main.rs, list_pods.rs).
THEOREM StartTypes == Spec => []TypeOK
<1>1. WholeInv => TypeOK
  BY DEF WholeInv
<1> QED BY <1>1, WholeInvariance, PTL

(***************************************************************************)
(* A workload's own selector and its translation (workload_selector.rs)    *)
(***************************************************************************)
Translated(labels, exprs) == BtreeToLabelSelector(labels) \cup exprs
Allowed(exprs) ==
  \A r \in exprs : r.op \in {"In", "NotIn", "Exists", "DoesNotExist"}

\* What a translated selector asks of a pod is what the labels and expressions mean.
LEMMA TranslationMeans ==
  ASSUME NEW l, NEW e, NEW pl
  PROVE  (\A r \in Translated(l, e) : Holds(r, pl))
         <=> HasLabels(l, pl) /\ \A r \in e : Holds(r, pl)
<1>1. \A k \in DOMAIN l : Holds(Equality(k, l[k]), pl) <=> k \in DOMAIN pl /\ pl[k] = l[k]
  BY DEF Holds, Equality
<1>2. \A r \in BtreeToLabelSelector(l) : \E k \in DOMAIN l : r = Equality(k, l[k])
  BY DEF BtreeToLabelSelector
<1>3. \A k \in DOMAIN l : Equality(k, l[k]) \in BtreeToLabelSelector(l)
  BY DEF BtreeToLabelSelector
<1>4. (\A r \in BtreeToLabelSelector(l) : Holds(r, pl)) <=> HasLabels(l, pl)
  BY <1>1, <1>2, <1>3 DEF HasLabels
<1> QED BY <1>4 DEF Translated

\* Different labels or expressions are different requirements.
LEMMA TranslationInjective ==
  ASSUME NEW l, NEW e, NEW m, NEW d, Allowed(e), Allowed(d), l = [k \in DOMAIN l |-> l[k]],
         m = [k \in DOMAIN m |-> m[k]], Translated(l, e) = Translated(m, d)
  PROVE  l = m /\ e = d
<1>1. \A x : \A r \in BtreeToLabelSelector(x) : r.op = "="
  BY DEF BtreeToLabelSelector, Equality
<1>2. (\A r \in e : r.op # "=") /\ (\A r \in d : r.op # "=")
  BY DEF Allowed
<1>3. BtreeToLabelSelector(l) = BtreeToLabelSelector(m) /\ e = d
  BY <1>1, <1>2 DEF Translated
<1>4. ASSUME NEW x, NEW y, BtreeToLabelSelector(x) = BtreeToLabelSelector(y), NEW k \in DOMAIN x
      PROVE  k \in DOMAIN y /\ x[k] = y[k]
  <2>1. Equality(k, x[k]) \in BtreeToLabelSelector(y)
    BY <1>4 DEF BtreeToLabelSelector
  <2>2. PICK j \in DOMAIN y : Equality(k, x[k]) = Equality(j, y[j])
    BY <2>1 DEF BtreeToLabelSelector
  <2>3. k = j /\ {x[k]} = {y[j]}
    BY <2>2 DEF Equality
  <2> QED BY <2>3
<1>5. DOMAIN l = DOMAIN m /\ \A k \in DOMAIN l : l[k] = m[k]
  BY <1>3, <1>4
<1> QED BY <1>3, <1>5

\* The selector that is computed for a workload, whatever its kind.
LEMMA WorkloadSelectorIs ==
  ASSUME NEW kind \in Kinds, NEW name, NEW w \in Workloads[kind]
  PROVE  /\ Selectorless(kind, w) => WorkloadSelector(kind, name, w) = LabelSelectorFor(name)
         /\ ~Selectorless(kind, w) =>
              LET l == OwnLabels(kind, w)
                  e == OwnExpressions(kind, w) IN
              /\ WorkloadSelector(kind, name, w) = Translated(l, e)
              /\ Allowed(e) /\ l = [k \in DOMAIN l |-> l[k]]
<1> DEFINE l == OwnLabels(kind, w)
           e == OwnExpressions(kind, w)
           ws == WorkloadSelector(kind, name, w)
<1>1. /\ w # None /\ w.spec \in BOOLEAN /\ IsLabels(w.template)
      /\ kind \in {"service", "replicationcontroller"} => IsLabels(w.selector)
      /\ kind \notin {"service", "replicationcontroller"} => w.selector = None \/ IsMeta(w.selector)
  BY WorkloadObjects
<1>2. \A x : NoLabels(x) => x = None \/ BtreeToLabelSelector(x) = {}
  BY DEF NoLabels, BtreeToLabelSelector
<1>3. \A x : ~NoLabels(x) => x # None /\ BtreeToLabelSelector(x) # {}
  BY DEF NoLabels, BtreeToLabelSelector
<1>4. CASE ~w.spec
  BY <1>1, <1>4 DEF WorkloadSelector, Selectorless
<1>5. CASE w.spec /\ kind \in {"service", "replicationcontroller"}
  <2>1. ws = FromLabels(l, name) /\ e = {} /\ (Selectorless(kind, w) <=> NoLabels(l)) /\ IsLabels(l)
    BY <1>1, <1>5 DEF WorkloadSelector, OwnLabels, OwnExpressions, Selectorless, NoLabels
  <2>2. NoLabels(l) => ws = LabelSelectorFor(name)
    BY <2>1 DEF FromLabels, NoLabels
  <2>3. ~NoLabels(l) => ws = BtreeToLabelSelector(l) /\ l # None
    BY <2>1 DEF FromLabels, NoLabels
  <2> QED BY <2>1, <2>2, <2>3 DEF Translated, Allowed, IsLabels
<1>6. CASE w.spec /\ kind \notin {"service", "replicationcontroller"} /\ w.selector = None
  BY <1>1, <1>6 DEF WorkloadSelector, OwnLabels, OwnExpressions, Selectorless, NoLabels
<1>7. CASE w.spec /\ kind \notin {"service", "replicationcontroller"} /\ w.selector # None
  <2> DEFINE s == w.selector
             parts == BtreeToLabelSelector(s.matchLabels)
                      \cup (UNION {MatchExpressionFragment(r) : r \in s.matchExpressions})
                      \cup (IF DOMAIN s.matchLabels = {} /\ s.matchExpressions = {} /\ w.template # None
                            THEN BtreeToLabelSelector(w.template) ELSE {})
  <2>1. /\ s.matchLabels # None /\ IsLabels(s.matchLabels) /\ IsMeta(s) /\ e = s.matchExpressions
        /\ l = IF DOMAIN s.matchLabels = {} /\ e = {} THEN w.template ELSE s.matchLabels
        /\ ws = IF parts = {} THEN LabelSelectorFor(name) ELSE parts
        /\ Selectorless(kind, w) <=> NoLabels(l) /\ e = {}
    BY <1>1, <1>7 DEF WorkloadSelector, LabelSelectorFromMeta, OwnLabels, OwnExpressions,
                      Selectorless, IsMeta
  <2>2. \A r \in s.matchExpressions : MatchExpressionFragment(r) = {r}
    BY <2>1 DEF IsMeta, MatchExpressionFragment
  <2>3. UNION {MatchExpressionFragment(r) : r \in s.matchExpressions} = e
    BY <2>1, <2>2
  <2>4. Allowed(e)
    BY <2>1 DEF IsMeta, Allowed
  <2> HIDE DEF l, e, ws, parts
  <2>5. CASE DOMAIN s.matchLabels = {} /\ e = {}
    <3>1. BtreeToLabelSelector(s.matchLabels) = {}
      BY <2>5 DEF BtreeToLabelSelector
    <3>2. parts = IF w.template # None THEN BtreeToLabelSelector(w.template) ELSE {}
      BY <2>1, <2>3, <2>5, <3>1 DEF parts
    <3>3. l = w.template
      BY <2>1, <2>5
    <3>4. CASE NoLabels(l)
      <4>1. Selectorless(kind, w) /\ parts = {}
        BY <1>2, <2>1, <2>5, <3>2, <3>3, <3>4
      <4>2. ws = LabelSelectorFor(name)
        BY <2>1, <4>1
      <4> QED BY <4>1, <4>2 DEF ws
    <3>5. CASE ~NoLabels(l)
      <4>1. parts = BtreeToLabelSelector(l) /\ parts # {} /\ l # None
        BY <1>3, <3>2, <3>3, <3>5
      <4>2. ws = Translated(l, e) /\ ~Selectorless(kind, w)
        BY <2>1, <2>5, <3>5, <4>1 DEF Translated
      <4>3. l = [k \in DOMAIN l |-> l[k]]
        BY <1>1, <3>3, <4>1 DEF IsLabels
      <4> QED BY <2>4, <4>2, <4>3 DEF l, e, ws
    <3> QED BY <3>4, <3>5
  <2>6. CASE ~(DOMAIN s.matchLabels = {} /\ e = {})
    <3>1. l = s.matchLabels
      BY <2>1, <2>6
    <3>2. parts = Translated(l, e)
      BY <2>1, <2>3, <2>6, <3>1 DEF parts, Translated
    <3>3. NoLabels(l) <=> DOMAIN l = {}
      BY <2>1, <3>1 DEF NoLabels
    <3>4. parts # {} /\ ~Selectorless(kind, w)
      BY <1>3, <2>1, <2>6, <3>1, <3>2, <3>3 DEF Translated
    <3>5. l = [k \in DOMAIN l |-> l[k]]
      BY <2>1, <3>1 DEF IsLabels
    <3>6. ws = Translated(l, e)
      BY <2>1, <3>2, <3>4
    <3> QED BY <2>4, <3>4, <3>5, <3>6 DEF l, e, ws
  <2> QED BY <2>5, <2>6
<1> QED BY <1>1, <1>4, <1>5, <1>6, <1>7

\* One selector for every namespace, or app=<name> (unify_label_selectors).
LEMMA Unified ==
  ASSUME NEW ss, IsFiniteSet(ss), NEW name
  PROVE  /\ \A s : ss = {s} => UnifyLabelSelectors(ss, name) = s
         /\ LabelSelectorFor(name) \in ss => UnifyLabelSelectors(ss, name) = LabelSelectorFor(name)
         /\ (\E s, t \in ss : s # t) => UnifyLabelSelectors(ss, name) = LabelSelectorFor(name)
<1>1. Cardinality(ss) = 1 <=> \E s : ss = {s}
  BY FS_Singleton
<1>2. \A s : ss = {s} => UnifyLabelSelectors(ss, name) = s
  BY <1>1 DEF UnifyLabelSelectors
<1>3. ~(\E s : ss = {s}) => UnifyLabelSelectors(ss, name) = LabelSelectorFor(name)
  BY <1>1 DEF UnifyLabelSelectors
<1> QED BY <1>2, <1>3

LEMMA SelsFinite ==
  ASSUME NEW S, NEW ns \in Seq(S), NEW q, NEW w
  PROVE  IsFiniteSet(Sels(q, w, Range(ns)))
<1> DEFINE I == 1..Len(ns)
           T == Sels(q, w, Range(ns))
           f == [i \in I |-> Sel(q, w, ns[i])]
<1>1. DOMAIN ns = I /\ Len(ns) \in Nat
  BY LenProperties
<1>2. IsFiniteSet(I)
  BY <1>1, FS_Interval
<1>3. T = {Sel(q, w, ns[i]) : i \in I}
  BY <1>1 DEF Sels, Range
<1>4. f \in Surjection(I, T)
  BY <1>3 DEF Surjection
<1> HIDE DEF f, I, T
<1>5. IsFiniteSet(T)
  BY <1>2, <1>4, FS_Surjection
<1> QED BY <1>5 DEF T

\* Some namespace's workload has no selector, or two of them select differently.
Disagree(kind, w, A) ==
  \E m, n \in A :
    \/ Selectorless(kind, w[m])
    \/ OwnLabels(kind, w[m]) # OwnLabels(kind, w[n])
    \/ OwnExpressions(kind, w[m]) # OwnExpressions(kind, w[n])

\* A query that names a workload: what the resolved selector asks of a pod is what the
\* workload's own selector asks, or app=<name> where one selector cannot stand for all.
LEMMA SelectorMeans ==
  ASSUME NEW q, q.kind \in Kinds, NEW w, NEW ns \in Seq(Namespaces), ns # <<>>,
         \A n \in Range(ns) : w[n] \in Workloads[q.kind]
  PROVE  LET labels == UnifyLabelSelectors(Sels(q, w, Range(ns)), q.name) IN
         /\ Disagree(q.kind, w, Range(ns)) => labels = LabelSelectorFor(q.name)
         /\ ~Disagree(q.kind, w, Range(ns)) =>
              \A n \in Range(ns) : \A pl :
                (\A r \in labels : Holds(r, pl)) <=> Owns(q.kind, w[n], pl)
<1> DEFINE kind == q.kind
           labels == UnifyLabelSelectors(Sels(q, w, Range(ns)), q.name)
           A == Range(ns)
           ss == Sels(q, w, A)
           L(n) == OwnLabels(kind, w[n])
           E(n) == OwnExpressions(kind, w[n])
           SelfLess(n) == Selectorless(kind, w[n])
           falls == Disagree(kind, w, A)
<1>1. IsFiniteSet(ss)
  BY SelsFinite
<1>2. \A n \in A : /\ SelfLess(n) => Sel(q, w, n) = LabelSelectorFor(q.name)
                   /\ ~SelfLess(n) => /\ Sel(q, w, n) = Translated(L(n), E(n)) /\ Allowed(E(n))
                                      /\ L(n) = [k \in DOMAIN L(n) |-> L(n)[k]]
  <2> TAKE n \in A
  <2>1. w[n] \in Workloads[kind] /\ Sel(q, w, n) = WorkloadSelector(kind, q.name, w[n])
    BY WorkloadObjects DEF Sel
  <2>2. /\ SelfLess(n) => WorkloadSelector(kind, q.name, w[n]) = LabelSelectorFor(q.name)
        /\ ~SelfLess(n) => /\ WorkloadSelector(kind, q.name, w[n]) = Translated(L(n), E(n))
                           /\ Allowed(E(n)) /\ L(n) = [k \in DOMAIN L(n) |-> L(n)[k]]
    BY <2>1, WorkloadSelectorIs
  <2> QED BY <2>1, <2>2
<1>3. \A n \in A : Sel(q, w, n) \in ss
  BY DEF Sels
<1>4. \A s \in ss : \E n \in A : s = Sel(q, w, n)
  BY DEF Sels
<1>5. A # {}
  <2>1. Len(ns) \in Nat /\ Len(ns) # 0 /\ DOMAIN ns = 1..Len(ns)
    BY LenProperties, EmptySeq
  <2>2. ns[1] \in A
    BY <2>1 DEF Range
  <2> QED BY <2>2
<1>6. falls <=> \E m, n \in A : SelfLess(m) \/ L(m) # L(n) \/ E(m) # E(n)
  BY DEF Disagree
<1>7. labels = UnifyLabelSelectors(ss, q.name)
  OBVIOUS
<1>8. \A n \in A : \A pl :
        Owns(kind, w[n], pl) <=> HasLabels(L(n), pl) /\ \A r \in E(n) : Holds(r, pl)
  BY DEF Owns
<1> HIDE DEF ss, L, E, SelfLess, falls, labels, kind, A
<1>9. ASSUME falls PROVE labels = LabelSelectorFor(q.name)
  <2>1. PICK m \in A, n \in A : SelfLess(m) \/ L(m) # L(n) \/ E(m) # E(n)
    BY <1>6, <1>9
  <2>2. CASE SelfLess(m) \/ SelfLess(n)
    <3>1. LabelSelectorFor(q.name) \in ss
      BY <1>2, <1>3, <2>2
    <3> QED BY <1>1, <1>7, <3>1, Unified
  <2>3. CASE ~SelfLess(m) /\ ~SelfLess(n)
    <3>1. Translated(L(m), E(m)) # Translated(L(n), E(n))
      BY <1>2, <2>1, <2>3, TranslationInjective
    <3>2. Sel(q, w, m) # Sel(q, w, n) /\ Sel(q, w, m) \in ss /\ Sel(q, w, n) \in ss
      BY <1>2, <1>3, <2>3, <3>1
    <3> QED BY <1>1, <1>7, <3>2, Unified
  <2> QED BY <2>2, <2>3
<1>10. ASSUME ~falls, NEW n \in A, NEW pl
       PROVE  (\A r \in labels : Holds(r, pl)) <=> Owns(kind, w[n], pl)
  <2>1. \A m \in A : ~SelfLess(m) /\ L(m) = L(n) /\ E(m) = E(n)
    BY <1>6, <1>10
  <2>2. \A m \in A : Sel(q, w, m) = Translated(L(n), E(n))
    BY <1>2, <2>1
  <2>3. ss = {Translated(L(n), E(n))}
    BY <1>3, <1>4, <1>10, <2>2
  <2>4. labels = Translated(L(n), E(n))
    BY <1>1, <1>7, <2>3, Unified
  <2> QED BY <1>8, <2>4, TranslationMeans
<1> QED BY <1>9, <1>10 DEF A, falls, labels, kind

(***************************************************************************)
(* Which pods a started run tails                                          *)
(***************************************************************************)
Named == flags.query \notin {None, AnyPod, Dot} /\ IsKind(flags.query)
Plain == flags.query \notin {None, AnyPod, Dot} /\ ~IsKind(flags.query)

\* The query that is resolved selects what the query that was given does.
LEMMA QueryKept ==
  ASSUME ParseQuery(ResolvePodQuery(flags)) # Error
  PROVE  LET q == ResolvePodQuery(flags) IN
         /\ IsKind(q) <=> Named
         /\ Named => q = flags.query /\ q.kind \in Kinds
         /\ Plain => q = flags.query
         /\ (IsKind(q) \/ q \in {AnyPod, Dot}) <=> ~Plain
<1> DEFINE q == ResolvePodQuery(flags)
<1>1. ParseQuery(Error) = Error
  BY DEF ParseQuery
<1>2. q # Error
  BY <1>1
<1>3. flags.query = None => q = AnyPod
  BY <1>2 DEF ResolvePodQuery
<1>4. flags.query = Dot => q \in {AnyPod, Dot}
  BY <1>2 DEF ResolvePodQuery
<1>5. flags.query \notin {None, Dot} => q = flags.query
  BY DEF ResolvePodQuery
<1>6. IsKind(q) => q.kind \in Kinds
  BY DEF ParseQuery
<1> HIDE DEF q
<1>7. q \in {AnyPod, Dot} => ~IsKind(q)
  BY DEF IsKind
<1>8. flags.query \in {None, AnyPod, Dot} => q \in {AnyPod, Dot}
  BY <1>3, <1>4, <1>5
<1> QED BY <1>5, <1>6, <1>7, <1>8 DEF q, Named, Plain

\* The Api's scope and the admission filter leave the namespaces that were asked for.
LEMMA ScopeFits ==
  ASSUME InputInv, CfgInv, stage \in Configured, NEW p \in AllPods
  PROVE  LET allowed == ResolveAllowedNs(cfg.namespaces, cfg.allNamespaces) IN
         /\ ~cfg.allNamespaces => AskedNamespaces = Range(cfg.namespaces)
         /\ p.ns \in AskedNamespaces
            <=> /\ ApiScope(cfg) = None \/ p.ns = ApiScope(cfg)
                /\ allowed = None \/ p.ns \in allowed
<1> DEFINE ns == cfg.namespaces
           allowed == ResolveAllowedNs(ns, cfg.allNamespaces)
<1>1. /\ ns \in Seq(Namespaces) /\ cfg.allNamespaces = flags.allNamespaces
      /\ flags.allNamespaces \in BOOLEAN
      /\ ~cfg.allNamespaces => ns # <<>>
      /\ \A n \in Range(ns) : n \in Namespaces /\ n # None
  BY CfgScope
<1>2. p.ns \in Namespaces
  BY NamesAreNames
<1>3. ASSUME ~cfg.allNamespaces PROVE AskedNamespaces = Range(ns)
  <2>1. ns = ResolveNamespaces(flags, readAs) /\ ns # Error /\ flags \in FlagSets
    BY DEF CfgInv, CoreRunConfig, InputInv
  <2> HIDE DEF ns
  <2>2. Range(ns) = IF Range(flags.namespaces) \ {Blank} # {} THEN Range(flags.namespaces) \ {Blank}
                    ELSE {DefaultNamespace(flags, readAs)}
    BY <1>1, <1>3, <2>1, ResolvedScope
  <2> QED BY <1>1, <1>3, <2>2 DEF AskedNamespaces
<1>4. Len(ns) \in Nat /\ DOMAIN ns = 1..Len(ns) /\ (ns # <<>> => Len(ns) # 0)
  BY <1>1, LenProperties, EmptySeq
<1>5. CASE cfg.allNamespaces
  <2>1. AskedNamespaces = Namespaces /\ ApiScope(cfg) = None /\ allowed = None
    BY <1>1, <1>5 DEF AskedNamespaces, ApiScope, ResolveAllowedNs
  <2> QED BY <1>2, <1>5, <2>1
<1>6. CASE ~cfg.allNamespaces /\ Len(ns) = 1
  <2>1. ApiScope(cfg) = ns[1] /\ allowed = None
    BY <1>6 DEF ApiScope, ResolveAllowedNs
  <2>2. Range(ns) = {ns[1]}
    BY <1>4, <1>6 DEF Range
  <2> QED BY <1>1, <1>3, <1>6, <2>1, <2>2
<1>7. CASE ~cfg.allNamespaces /\ Len(ns) # 1
  <2>0. Len(ns) \in Nat /\ Len(ns) # 0 /\ Len(ns) # 1
    BY <1>1, <1>4, <1>7, Zenon
  <2>1. ~(Len(ns) <= 1)
    <3> DEFINE k == Len(ns)
    <3> HIDE DEF k
    <3>1. k \in Nat /\ k # 0 /\ k # 1
      BY <2>0 DEF k
    <3>2. ~(k <= 1)
      BY <3>1
    <3> QED BY <3>2 DEF k
  <2>2. ApiScope(cfg) = None
    BY <1>7 DEF ApiScope
  <2>3. allowed = Range(ns)
    BY <1>7, <2>1 DEF ResolveAllowedNs, Range
  <2>4. Range(ns) # None
    BY <1>1, NamesAreNames
  <2> QED BY <1>3, <1>7, <2>2, <2>3, <2>4
<1> QED BY <1>1, <1>3, <1>5, <1>6, <1>7

\* The fields asked for, the node and the pod's own name.
LEMMA FieldsMean ==
  ASSUME NEW labels, NEW p
  PROVE  (\A f \in PodWatchPlan(cfg, labels).fields : FieldOf(p, f.field) = f.value)
         <=> /\ cfg.fieldSelector \notin {None, Blank} =>
                  \A f \in cfg.fieldSelector : FieldOf(p, f.field) = f.value
             /\ cfg.node \notin {None, Blank} => p.node = cfg.node
             /\ cfg.selector = None /\ IsKind(cfg.query) /\ cfg.query.kind = "pod" =>
                  p.name = cfg.query.name
<1> DEFINE node == [field |-> "spec.nodeName", value |-> cfg.node]
           self == [field |-> "metadata.name", value |-> cfg.query.name]
           own == cfg.selector = None /\ IsKind(cfg.query) /\ cfg.query.kind = "pod"
           A == IF cfg.fieldSelector \in {None, Blank} THEN {} ELSE cfg.fieldSelector
           B == IF cfg.node \in {None, Blank} THEN {} ELSE {node}
           C == IF own THEN {self} ELSE {}
           Fits(f) == FieldOf(p, f.field) = f.value
<1>1. PodWatchPlan(cfg, labels).fields = (A \cup B) \cup C
  BY DEF PodWatchPlan, CombinedFieldSelector
<1>2. Fits(node) <=> p.node = cfg.node
  BY DEF FieldOf
<1>3. Fits(self) <=> p.name = cfg.query.name
  BY DEF FieldOf
<1>4. (\A f \in A : Fits(f)) <=> (cfg.fieldSelector \notin {None, Blank} => \A f \in cfg.fieldSelector : Fits(f))
  OBVIOUS
<1> HIDE DEF Fits, node, self, A
<1>5. (\A f \in B : Fits(f)) <=> (cfg.node \notin {None, Blank} => p.node = cfg.node)
  BY <1>2
<1>6. (\A f \in C : Fits(f)) <=> (own => p.name = cfg.query.name)
  BY <1>3
<1> HIDE DEF B, C
<1>7. (\A f \in PodWatchPlan(cfg, labels).fields : Fits(f))
      <=> (\A f \in A : Fits(f)) /\ (\A f \in B : Fits(f)) /\ (\A f \in C : Fits(f))
  BY <1>1
<1>8. (\A f \in PodWatchPlan(cfg, labels).fields : Fits(f))
      <=> /\ cfg.fieldSelector \notin {None, Blank} => \A f \in cfg.fieldSelector : Fits(f)
          /\ cfg.node \notin {None, Blank} => p.node = cfg.node
          /\ own => p.name = cfg.query.name
  BY <1>4, <1>5, <1>6, <1>7, Zenon
<1> QED BY <1>8 DEF Fits

\* A query that names a workload: its pods, or those with app=<name>.
LEMMA WorkloadPods ==
  ASSUME WholeInv, stage = "running", Named, flags.query.kind # "pod", flags.selector = None,
         NEW p \in AllPods, p.ns \in AskedNamespaces,
         NEW labels, Resolved(cfg, workload, getFailed, labels)
  PROVE  (\A r \in labels : Holds(r, p.labels))
         <=> IF FallsBack THEN HasLabels([k \in {"app"} |-> flags.query.name], p.labels)
             ELSE Owns(flags.query.kind, workload[p.ns], p.labels)
<1> DEFINE q == flags.query
           ns == cfg.namespaces
<1>1. /\ cfg = CoreRunConfig(flags, ResolveNamespaces(flags, readAs)) /\ stage \in Configured
      /\ ParseQuery(ResolvePodQuery(flags)) # Error
  BY DEF WholeInv, StartInv, QueryInv, CfgInv, Configured, Connected
<1>2. cfg.query = q /\ q.kind \in Kinds /\ IsKind(q) /\ q # None
  BY <1>1, QueryKept DEF CoreRunConfig, Named
<1>3. cfg.selector = None /\ cfg.allNamespaces = flags.allNamespaces /\ ByWorkload(cfg)
  BY <1>1, <1>2 DEF CoreRunConfig, ByWorkload
<1>4. (\A r \in LabelSelectorFor(q.name) : Holds(r, p.labels))
      <=> HasLabels([k \in {"app"} |-> q.name], p.labels)
  BY DEF LabelSelectorFor, Holds, Equality, HasLabels
<1>5. CASE cfg.allNamespaces \/ getFailed
  <2>1. labels = LabelSelectorFor(q.name)
    BY <1>2, <1>3, <1>5 DEF Resolved
  <2>2. FallsBack
    BY <1>3, <1>5 DEF FallsBack
  <2> QED BY <1>4, <2>1, <2>2
<1>6. CASE ~cfg.allNamespaces /\ ~getFailed
  <2>1. /\ labels = UnifyLabelSelectors(Sels(q, workload, Range(ns)), q.name)
        /\ \A n \in Range(ns) : workload[n] # None
    BY <1>2, <1>3, <1>6 DEF Resolved
  <2>2. AskedNamespaces = Range(ns)
    BY <1>1, <1>6, ScopeFits DEF WholeInv
  <2>3. ns \in Seq(Namespaces) /\ ns # <<>> /\ \A n \in Range(ns) : n \in Namespaces
    BY <1>1, <1>6, CfgScope DEF WholeInv
  <2>4. workload \in [Namespaces -> Workloads[q.kind] \cup {None}]
    BY <1>2 DEF WholeInv, InputInv
  <2>5. \A n \in Range(ns) : workload[n] \in Workloads[q.kind]
    BY <2>1, <2>3, <2>4
  <2>6. FallsBack <=> Disagree(q.kind, workload, Range(ns))
    BY <1>3, <1>6, <2>2 DEF FallsBack, Disagree
  <2> HIDE DEF ns, q
  <2>7. /\ Disagree(q.kind, workload, Range(ns)) => labels = LabelSelectorFor(q.name)
        /\ ~Disagree(q.kind, workload, Range(ns)) => \A n \in Range(ns) :
             (\A r \in labels : Holds(r, p.labels)) <=> Owns(q.kind, workload[n], p.labels)
    BY <1>2, <2>1, <2>3, <2>5, SelectorMeans
  <2>8. /\ FallsBack => labels = LabelSelectorFor(q.name)
        /\ ~FallsBack => ((\A r \in labels : Holds(r, p.labels)) <=> Owns(q.kind, workload[p.ns], p.labels))
    BY <2>2, <2>6, <2>7
  <2>9. CASE FallsBack
    BY <1>4, <2>8, <2>9 DEF q
  <2>10. CASE ~FallsBack
    BY <2>8, <2>10 DEF q
  <2> QED BY <2>9, <2>10
<1> QED BY <1>5, <1>6

\* What a started run tails is what was asked for, pod by pod.
LEMMA PodAsked ==
  ASSUME WholeInv, stage = "running", NEW p \in AllPods
  PROVE  p \in Selected /\ AdmitPod(policy, p)
         <=> AskedFor(p) /\ (policy.condition # None => PodMatchesCondition(p, policy.condition))
<1> DEFINE q == ResolvePodQuery(flags)
           allowed == ResolveAllowedNs(cfg.namespaces, cfg.allNamespaces)
           InScope == p.ns \in AskedNamespaces
           Fields == \A f \in plan.fields : FieldOf(p, f.field) = f.value
           Labels == \A r \in plan.labels : Holds(r, p.labels)
           Cond == policy.condition = None \/ PodMatchesCondition(p, policy.condition)
           Regex == policy.podRegex = None \/ p.name \in policy.podRegex
           AskedFields == flags.fieldSelector \notin {None, Blank} =>
                            \A f \in flags.fieldSelector : FieldOf(p, f.field) = f.value
           AskedNode == flags.node \notin {None, Blank} => p.node = flags.node
           AskedLabels == flags.selector # None => \A r \in flags.selector : Holds(r, p.labels)
<1>1. /\ cfg = CoreRunConfig(flags, ResolveNamespaces(flags, readAs)) /\ stage \in Configured
      /\ ParseQuery(q) # Error /\ policy = WatchAdmissionPolicy(cfg, plan)
      /\ InputInv /\ CfgInv
  BY DEF WholeInv, StartInv, QueryInv, CfgInv, ListInv, Configured, Connected
<1>2. PICK labels : plan = PodWatchPlan(cfg, labels) /\ Resolved(cfg, workload, getFailed, labels)
  BY DEF WholeInv, PlanInv
<1>3. /\ cfg.query = q /\ cfg.selector = flags.selector /\ cfg.fieldSelector = flags.fieldSelector
      /\ cfg.node = flags.node /\ cfg.excludePod = flags.excludePod
  BY <1>1 DEF CoreRunConfig
<1>4. /\ IsKind(q) <=> Named
      /\ Named => q = flags.query /\ q.kind \in Kinds
      /\ Plain => q = flags.query
      /\ (IsKind(q) \/ q \in {AnyPod, Dot}) <=> ~Plain
  BY <1>1, QueryKept
<1>5. /\ policy.allowedNs = allowed /\ policy.excludePod = flags.excludePod
      /\ policy.podRegex = IF Plain THEN flags.query.regex ELSE None
  <2>1. plan.regex = IF IsKind(q) \/ q \in {AnyPod, Dot} THEN None ELSE q.regex
    BY <1>2, <1>3 DEF PodWatchPlan
  <2>2. policy.allowedNs = allowed /\ policy.excludePod = cfg.excludePod /\ policy.podRegex = plan.regex
    BY <1>1 DEF WatchAdmissionPolicy
  <2> HIDE DEF q, allowed
  <2> QED BY <1>3, <1>4, <2>1, <2>2
<1>6. InScope <=> /\ ApiScope(cfg) = None \/ p.ns = ApiScope(cfg)
                  /\ policy.allowedNs = None \/ p.ns \in policy.allowedNs
  BY <1>1, <1>5, ScopeFits
<1>7. p.name # None /\ p.ns # None
  BY NamesAreNames DEF Namespaces
<1>8. p \in Selected /\ AdmitPod(policy, p)
      <=> InScope /\ Labels /\ Fields /\ p.name \notin flags.excludePod /\ Regex /\ Cond
  BY <1>5, <1>6, <1>7 DEF Selected, Server, AdmitPod
<1>9. Fields <=> /\ AskedFields /\ AskedNode
                 /\ flags.selector = None /\ Named /\ flags.query.kind = "pod" => p.name = flags.query.name
  <2>1. Fields <=> /\ AskedFields /\ AskedNode
                   /\ flags.selector = None /\ IsKind(q) /\ q.kind = "pod" => p.name = q.name
    BY <1>2, <1>3, FieldsMean
  <2> HIDE DEF q, Fields, AskedFields, AskedNode
  <2> QED BY <1>4, <2>1
<1>10. Regex <=> (Plain => p.name \in flags.query.regex)
  <2>1. Plain => flags.query.regex # None
    BY CommandLines DEF WholeInv, InputInv, Cli, Plain
  <2> QED BY <1>5, <2>1
<1>11. plan.labels = IF flags.selector # None THEN flags.selector
                     ELSE IF Named /\ flags.query.kind # "pod" THEN labels ELSE {}
  <2>1. plan.labels = IF cfg.selector # None THEN cfg.selector
                      ELSE IF IsKind(cfg.query) /\ cfg.query.kind # "pod" THEN labels ELSE {}
    BY <1>2 DEF PodWatchPlan
  <2> HIDE DEF q
  <2> QED BY <1>3, <1>4, <2>1
<1> DEFINE OfWorkload == IF FallsBack THEN HasLabels([k \in {"app"} |-> flags.query.name], p.labels)
                         ELSE Owns(flags.query.kind, workload[p.ns], p.labels)
<1>12. InScope => (Labels <=> /\ AskedLabels
                              /\ flags.selector = None /\ Named /\ flags.query.kind # "pod" => OfWorkload)
  <2>1. CASE flags.selector # None
    BY <1>11, <2>1
  <2>2. CASE flags.selector = None /\ Named /\ flags.query.kind # "pod"
    <3> SUFFICES ASSUME InScope PROVE Labels <=> OfWorkload
      BY <2>2
    <3>1. plan.labels = labels
      BY <1>11, <2>2
    <3>2. (\A r \in labels : Holds(r, p.labels)) <=> OfWorkload
      BY <1>2, <2>2, WorkloadPods
    <3> QED BY <3>1, <3>2
  <2>3. CASE flags.selector = None /\ ~(Named /\ flags.query.kind # "pod")
    <3>1. plan.labels = {}
      BY <1>11, <2>3
    <3> QED BY <2>3, <3>1
  <2> QED BY <2>1, <2>2, <2>3
<1>13. AskedFor(p) <=> /\ InScope /\ MatchesQuery(p) /\ AskedLabels /\ AskedFields /\ AskedNode
                       /\ p.name \notin flags.excludePod
  BY DEF AskedFor
<1>14. MatchesQuery(p) <=>
         /\ Plain => p.name \in flags.query.regex
         /\ Named /\ flags.selector = None =>
              IF flags.query.kind = "pod" THEN p.name = flags.query.name ELSE OfWorkload
  <2> HIDE DEF OfWorkload
  <2>1. CASE Named
    BY <2>1 DEF MatchesQuery, Named, Plain, OfWorkload
  <2>2. CASE Plain
    BY <2>2 DEF MatchesQuery, Named, Plain
  <2>3. CASE ~Named /\ ~Plain
    BY <2>3 DEF MatchesQuery, Named, Plain
  <2> QED BY <2>1, <2>2, <2>3
<1>15. Cond <=> (policy.condition # None => PodMatchesCondition(p, policy.condition))
  OBVIOUS
<1> HIDE DEF q, allowed, InScope, Fields, Labels, Cond, Regex, AskedFields, AskedNode, AskedLabels,
             OfWorkload
<1>16. InScope /\ Labels /\ Fields /\ Regex
       <=> InScope /\ MatchesQuery(p) /\ AskedLabels /\ AskedFields /\ AskedNode
  BY <1>9, <1>10, <1>12, <1>14
<1> QED BY <1>8, <1>13, <1>15, <1>16

\* For every set of command lines, workloads and pods: a run that has started tails the
\* pods the options ask for, all of them and no others.
THEOREM TailsWhatAsked == Spec => []TailsWhatFlagsAsk
<1>1. WholeInv => TailsWhatFlagsAsk
  <2> SUFFICES ASSUME WholeInv, stage = "running"
               PROVE  {p \in IF cfg.follow THEN Selected ELSE listed : AdmitPod(policy, p)}
                      = {p \in AllPods : AskedFor(p) /\ (policy.condition # None =>
                                                           PodMatchesCondition(p, policy.condition))}
    BY DEF TailsWhatFlagsAsk
  <2>1. (IF cfg.follow THEN Selected ELSE listed) = Selected
    BY DEF WholeInv, ListInv
  <2>2. Selected \subseteq AllPods
    BY DEF Selected, Server
  <2>3. \A p \in AllPods : p \in Selected /\ AdmitPod(policy, p)
          <=> AskedFor(p) /\ (policy.condition # None => PodMatchesCondition(p, policy.condition))
    BY PodAsked
  <2> QED BY <2>1, <2>2, <2>3
<1> QED BY <1>1, WholeInvariance, PTL
=============================================================================

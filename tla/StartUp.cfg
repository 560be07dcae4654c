\* Command lines against three namespaces; the user may switch the context once.
SPECIFICATION Spec
CONSTANTS
  None = None  Error = Error  Blank = Blank  AnyPod = AnyPod  Dot = Dot
  ctxA = ctxA  ctxB = ctxB  nsA = nsA  nsB = nsB  nsC = nsC  x = x  y = y
  node1 = node1  node2 = node2
  DefaultNs = nsB
  Contexts <- MCContexts
  NamespaceOf <- MCNamespaceOf
  FlagSets <- MCFlagSets
  Kubeconfigs <- MCKubeconfigs
  Workloads <- MCWorkloads
  AllPods <- MCAllPods
  MaxListPages = 2
  MaxSwitches = 1
INVARIANTS TypeOK TailsWhatFlagsAsk  NamespaceOfClient
CHECK_DEADLOCK FALSE

CONSTANTS
  None = None
  ns = ns
  n1 = n1
  u1 = u1
  u2 = u2
  t1 = t1
  t2 = t2
  app = app
  node = node
  lblA = lblA
  lblB = lblB
  Namespace = ns
  Names <- MCNames
  Uids <- MCUids
  Shapes <- MCShapes
  Policy <- MCPolicy
  Tasks <- MCTasks
  MaxAttempts = 2
  MaxBehind = 2
  MaxChanges = 3
SPECIFICATION FairSpec
INVARIANTS
  TypeOK
  ActiveIsAdmitted
  MetaFresh
  ReadsOwnPod
  NoKeyGivenUp
PROPERTY EventuallySettled

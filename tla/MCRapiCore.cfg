CONSTANTS
  Workers = {w1, w2, w3}
  NoClosure = NoClosure
  r = r
  c1 = c1
  c2 = c2
  c3 = c3
  Actors = {r, c1, c2}
  Root = r
  Parent <- TwoLeafParent
  ActorType <- DistinctTypes
  CtorOrder <- ChildrenFirst
  StopOnStart <- NoStops
  EarlyObs <- LeafObservesSibling
  DynKids <- NoDynKids
  CreatedPub <- NoDynKids
  LateObs <- RootObservesLeaf
  SmlTable <- RootSml

SPECIFICATION Spec
INVARIANT TypeOK
INVARIANT SerialMailbox
INVARIANT ConfirmOnce
INVARIANT NoFatalError
INVARIANT CleanShutdown
INVARIANT EarlyObserverSeesStart
PROPERTY Termination
PROPERTY LifecycleRefined
CHECK_DEADLOCK FALSE

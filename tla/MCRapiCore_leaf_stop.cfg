CONSTANTS
  Workers = {w1, w2}
  NoClosure = NoClosure
  r = r
  c1 = c1
  c2 = c2
  c3 = c3
  Actors = {r, c1, c2}
  Root = r
  Parent <- TwoLeafParent
  ActorType <- DistinctTypes
  CtorOrder <- ChildrenFirst
  StopOnStart <- LeafStops
  EarlyObs <- NoObservers
  DynKids <- NoDynKids
  CreatedPub <- NoDynKids
  LateObs <- NoObservers
  SmlTable <- NoSml

SPECIFICATION Spec
INVARIANT HierarchicalLifecycle
CHECK_DEADLOCK FALSE

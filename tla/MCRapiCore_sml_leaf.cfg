CONSTANTS
  Workers = {w1, w2, w3}
  NoClosure = NoClosure
  r = r
  c1 = c1
  c2 = c2
  c3 = c3
  Actors = {r, c1, c2}
  Root = r
  Parent <- TwoLeafParent
  ActorType <- DistinctTypes
  CtorOrder <- ChildrenFirst
  StopOnStart <- RootStops
  EarlyObs <- LeafObservesSibling
  DynKids <- NoDynKids
  CreatedPub <- NoDynKids
  LateObs <- RootObservesLeaf
  SmlTable <- LeafSml

SPECIFICATION Spec
INVARIANT SmlFollowsLifecycle
CHECK_DEADLOCK FALSE

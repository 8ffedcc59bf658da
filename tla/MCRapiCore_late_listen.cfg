CONSTANTS
  Workers = {w1, w2}
  NoClosure = NoClosure
  r = r
  c1 = c1
  c2 = c2
  c3 = c3
  Actors = {r, c1, c2}
  Root = r
  Parent <- TwoLeafParent
  ActorType <- DistinctTypes
  CtorOrder <- ChildrenFirst
  StopOnStart <- RootStops
  EarlyObs <- NoObservers
  DynKids <- NoDynKids
  CreatedPub <- NoDynKids
  LateObs <- RootObservesLeaf
  SmlTable <- NoSml

SPECIFICATION Spec
INVARIANT LateObserverSeesStart
CHECK_DEADLOCK FALSE

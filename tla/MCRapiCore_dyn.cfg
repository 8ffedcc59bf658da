CONSTANTS
  Workers = {w1, w2}
  NoClosure = NoClosure
  r = r
  c1 = c1
  c2 = c2
  c3 = c3
  Actors = {r, c1}
  Root = r
  Parent <- DynLeafParent
  ActorType <- DynTypes
  CtorOrder <- RootOnly
  StopOnStart <- RootStops
  EarlyObs <- NoObservers
  LateObs <- NoObservers
  SmlTable <- NoSml
  DynKids <- DynLeaf
  CreatedPub <- NoDynKids

SPECIFICATION Spec
INVARIANT SerialMailbox
INVARIANT StopAfterChildren
CHECK_DEADLOCK FALSE

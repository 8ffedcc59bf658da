---------------------------- MODULE MCRapiCore ----------------------------
(***************************************************************************)
(* Actor trees for RapiCore.  Actors and dispatchers are model values; an  *)
(* actor's C++ type is a string, so two actors of one type share all their *)
(* lifecycle messages, as instances of one class do.                       *)
(***************************************************************************)
EXTENDS RapiCore

CONSTANTS r, c1, c2, c3

\* A root with two leaf children of distinct types, constructed children
\* first (newChild runs the child's constructor before returning).
TwoLeafParent == [c \in {c1, c2} |-> r]
DistinctTypes == [a \in {r, c1, c2} |-> IF a = r THEN "Root" ELSE IF a = c1 THEN "LeafA" ELSE "LeafB"]
SameLeafType == [a \in {r, c1, c2} |-> IF a = r THEN "Root" ELSE "Leaf"]
ChildrenFirst == <<c1, c2, r>>

\* The root stops the system from its own StartCnf callback.
RootStops == {r}
\* A started leaf publishes Stop while its sibling may still be starting.
LeafStops == {c1}
\* c1 listens for StartCnf<c2> in its constructor.
LeafObservesSibling == {<<c1, c2>>}
\* The root listens for StartCnf<c1> in its StartReq handler.
RootObservesLeaf == {<<r, c1>>}
NoObservers == {}

\* The root creates c1 from its own StartCnf callback (newChild after
\* construction) and then publishes Stop.
DynLeafParent == [c \in {c1} |-> r]
DynTypes == [a \in {r, c1} |-> IF a = r THEN "Root" ELSE "DynLeaf"]
RootOnly == <<r>>
DynLeaf == {c1}
NoDynKids == {}

\* The two leaves, and c3 that the root creates from its StartCnf callback.
TwoLeavesAndDyn == [c \in {c1, c2, c3} |-> r]
DistinctTypesDyn == [a \in {r, c1, c2, c3} |->
                      IF a = r THEN "Root" ELSE IF a = c1 THEN "LeafA" ELSE IF a = c2 THEN "LeafB" ELSE "DynLeaf"]
DynC3 == {c3}

\* No SmlActor.
NoSml == [a \in {} |-> <<>>]
NoStops == {}
\* The root is an SmlActor whose machine walks the whole lifecycle and
\* publishes Stop from its StartCnf transition (sml_actor_test.cpp's root
\* does the latter from state1).
SmlRow(f, e, t, p) == [from |-> f, ev |-> e, to |-> t, pub |-> p]
RootSml == [a \in {r} |->
             <<SmlRow("idle", "SmlStartReq", "starting", "none"),
               SmlRow("starting", "SmlStartCnf", "running", "Stop"),
               SmlRow("running", "SmlStopReq", "stopping", "none"),
               SmlRow("stopping", "SmlStopCnf", "done", "none")>>]
\* The same machine on the leaf c2.
LeafSml == [a \in {c2} |-> RootSml[r]]
=============================================================================

------------------------------ MODULE RapiCore ------------------------------
(***************************************************************************)
(* The runtime kernel of src/rapi_core: actors (actor.hpp/.cpp), their one *)
(* port each (port.hpp/.cpp), the broadcast network (network.hpp), the     *)
(* start/stop lifecycle (actor_life_cycle.hpp and Actor::newChild) and     *)
(* Core::run (core.hpp/.cpp), on top of the worker pool of module Priority *)
(* whose closures are the actors' consume() calls.                         *)
(*                                                                         *)
(* Data is abstracted to what the lifecycle tells apart: a message is its  *)
(* type, <<kind, actor type>>; a callback is what it does, <<kind, x>>; a  *)
(* handle is the callback itself.  Control is kept: every critical         *)
(* section of Port::consume and Actor::consume is one step, every network  *)
(* publish is one step (it holds the network mutex across delivery), and   *)
(* a callback runs in one step and then publishes its messages one by one. *)
(*                                                                         *)
(* The application is given by constants: the actor tree, each actor's    *)
(* type, the actors that publish Stop from their own StartCnf callback,    *)
(* and observers that listen for another actor's StartCnf either in their  *)
(* constructor (EarlyObs) or from their own StartReq handler (LateObs).    *)
(***************************************************************************)
EXTENDS Naturals, Sequences, FiniteSets, SequencesExt

CONSTANTS
  Workers, NoClosure,   \* the pool (module Priority)
  Actors,               \* the actor instances
  Root,                 \* the root actor created by Core::init
  Parent,               \* Parent[c]: the actor whose newChild created c
  ActorType,            \* ActorType[a]: the C++ type of a (messages are keyed by it)
  CtorOrder,            \* the order in which the actors' constructors finish
  StopOnStart,          \* actors whose own StartCnf callback publishes Stop
  EarlyObs,             \* <<o, t>>: o listens for StartCnf of t in its constructor
  LateObs,              \* <<o, t>>: o listens for StartCnf of t in its StartReq handler
  DynKids,              \* children their parent creates from its own StartCnf callback
  CreatedPub,           \* dynamic children whose constructor publishes Created to the parent
  SmlTable              \* SmlTable[a]: the transition table of SmlActor a, a sequence of
                        \* [from, ev, to, pub] rows, the first row's source initial

ASSUME Root \in Actors
ASSUME Parent \in [Actors \ {Root} -> Actors]
ASSUME DynKids \subseteq Actors \ {Root} /\ CreatedPub \subseteq DynKids
ASSUME CtorOrder \in Seq(Actors) /\ Len(CtorOrder) = Cardinality(Actors \ DynKids)
       /\ ToSet(CtorOrder) = Actors \ DynKids
ASSUME StopOnStart \subseteq Actors
SmlEvs == {"SmlStartReq", "SmlStartCnf", "SmlStopReq", "SmlStopCnf"}
ASSUME DOMAIN SmlTable \subseteq Actors \ DynKids
       /\ \A a \in DOMAIN SmlTable :
            SmlTable[a] \in Seq([from : STRING, ev : SmlEvs, to : STRING, pub : {"none", "Stop"}])
            /\ Len(SmlTable[a]) > 0
            \* a StopCnf action that publishes would run before SetState(STOPPED)
            \* in a leaf and after it in a parent; not modelled
            /\ \A i \in DOMAIN SmlTable[a] : SmlTable[a][i].ev = "SmlStopCnf" => SmlTable[a][i].pub = "none"
ASSUME EarlyObs \subseteq Actors \X Actors /\ LateObs \subseteq Actors \X Actors
       /\ \A p \in EarlyObs \cup LateObs : p[1] # p[2]

VARIABLES
  pstate, actorQueue, sleepingCount, startCount, wpc, wrun, caller, err,
  astate,       \* Actor::state_
  cnfCount,     \* LifeCycleHelper::childrenCnfCount_
  actorSched,   \* actors whose Actor::scheduled_ is true
  cbq,          \* Actor::callBackQueue_ length (queued Port::consume calls)
  portSched,    \* actors whose Port::scheduled_ is true
  cmdq,         \* Port::commandsQueue_ (pending listens)
  evq,          \* Port::eventQueue_ (message types to dispatch)
  reg,          \* Port::callbacks_: set of <<message type, callback>>
  net,          \* Network::callbacks_: message type -> subscribed ports
  cpc,          \* where each actor's consume is
  pending,      \* callbacks of the event being dispatched not yet run
  outbox,       \* messages the running callback still has to publish
  running,      \* Core::running_
  mpc,          \* Core::run program counter
  startCnfs,    \* number of StartCnf<a> publications (history)
  stopCnfs,     \* number of StopCnf<a> publications (history)
  seen,         \* seen[<<o, t>>]: StartCnf<t> deliveries to observer o (history)
  stopRequested, \* Core::init's Stop listener has run (history)
  smState,      \* smState[a]: the current state of SmlActor a's boost::sml machine
  smDropped     \* smDropped[a]: a's machine got an event its state has no transition for (history)

P == INSTANCE Priority

prioVars == <<pstate, actorQueue, sleepingCount, startCount, wpc, wrun, caller, err>>
actorVars == <<astate, cnfCount, actorSched, cbq, portSched, cmdq, evq, reg, net,
               cpc, pending, outbox, smState>>
coreVars == <<running, mpc>>
histVars == <<startCnfs, stopCnfs, seen, stopRequested, smDropped>>
vars == <<prioVars, actorVars, coreVars, histVars>>

-----------------------------------------------------------------------------
(* Messages, callbacks and the application.                                *)

Types == {ActorType[a] : a \in Actors}
Kinds == {"StartReq", "StopReq", "PrivStartCnf", "PrivStopCnf", "StartCnf", "StopCnf",
          "Created"}
Msg(kind, a) == <<kind, ActorType[a]>>
StopMsg == <<"Stop", "Stop">>
Msgs == (Kinds \X Types) \cup {StopMsg}

\* Actor::publish rejects every message outside STARTED except those
\* derived from PrivStartHelper, PrivStopHelper, ReqHelper and
\* StopCnfHelper: StartCnf, Stop and user messages are guarded.
Guarded(m) == m[1] \notin {"StartReq", "StopReq", "PrivStartCnf", "PrivStopCnf", "StopCnf"}

\* Fault variant: children_ holding only the constructor's children.
ChildrenCtorOnly(a) == {c \in Actors \ ({Root} \cup DynKids) : Parent[c] = a}

\* children_: the children constructed so far.
Children(a) == {c \in Actors \ {Root} : Parent[c] = a /\ astate[c] # "NONE"}
\* The children a's constructor creates, in construction order.
ChildSeq(a) == SelectSeq(CtorOrder, LAMBDA c : c # Root /\ Parent[c] = a)
DynKidsOf(a) == {d \in DynKids : Parent[d] = a}
Observers == EarlyObs \cup LateObs

Listen(m, cb) == <<m, cb>>

\* Actor::listen: where a listen for m that actor a issues in state st
\* goes.  A StartCnf/StopCnf listen made while the actor is INIT (in its
\* constructor) is delayed until ActorLifeCycle has stored the actor's own
\* confirmation types; one for a's own StartCnf/StopCnf joins the public
\* callback list, run synchronously when a confirms; every other listen
\* is a port command.
ListenRoute(a, m, st) ==
  CASE m[1] \in {"StartCnf", "StopCnf"} /\ st = "INIT" -> "delayed"
    [] m \in {Msg("StartCnf", a), Msg("StopCnf", a)}   -> "public"
    [] OTHER                                           -> "port"

\* newChild's parent-side listens for child c.
ChildListens(c) ==
  <<Listen(Msg("PrivStartCnf", c), <<"ChildStartCnf", c>>),
    Listen(Msg("PrivStopCnf", c), <<"ChildStopCnf", c>>)>>

\* SmlActor: the machine's events and the own lifecycle message each one
\* is fed from.
SmlActors == DOMAIN SmlTable
SmlInitial(a) == SmlTable[a][1].from
SmlFinal(a) == SmlTable[a][Len(SmlTable[a])].to
SmlMsg(ev, a) ==
  Msg([SmlStartReq |-> "StartReq", SmlStartCnf |-> "StartCnf",
       SmlStopReq |-> "StopReq", SmlStopCnf |-> "StopCnf"][ev], a)

\* Fault variant: forwardToSml's StartCnf branch feeding SmlStartReq.
SmlListensSwapped(a) ==
  IF a \notin SmlActors THEN <<>>
  ELSE SetToSeq({Listen(SmlMsg(e, a), <<IF e = "SmlStartCnf" THEN "SmlStartReq" ELSE e, a>>) :
                 e \in {SmlTable[a][i].ev : i \in DOMAIN SmlTable[a]}})

\* The SmlActor constructor visits the events of the transition table and
\* forwardToSml listens for the matching own lifecycle message, whose
\* callback calls process_event.
SmlListens(a) ==
  IF a \notin SmlActors THEN <<>>
  ELSE SetToSeq({Listen(SmlMsg(e, a), <<e, a>>) : e \in {SmlTable[a][i].ev : i \in DOMAIN SmlTable[a]}})

\* boost::sml process_event: the first row of the table leaving state st
\* on ev, if any; an event with no such row is ignored.
SmlRows(a, st, ev) == SelectSeq(SmlTable[a], LAMBDA t : t.from = st /\ t.ev = ev)
SmlNext(a, st, ev) == IF SmlRows(a, st, ev) = <<>> THEN st ELSE Head(SmlRows(a, st, ev)).to
\* What the row's action publishes through the actor.
SmlPub(a, st, ev) ==
  IF SmlRows(a, st, ev) # <<>> /\ Head(SmlRows(a, st, ev)).pub = "Stop" THEN <<StopMsg>> ELSE <<>>

\* The StartCnf listens a's constructor issues, all delayed, in handle
\* order: its own StartCnf for each dynamic child it creates and for
\* publishing Stop, and another actor's StartCnf for EarlyObs.
DelayedListens(a) ==
  SetToSeq({Listen(Msg("StartCnf", a), <<"NewDyn", d>>) : d \in DynKidsOf(a)})
    \o (IF a \in StopOnStart THEN <<Listen(Msg("StartCnf", a), <<"PubStop", a>>)>> ELSE <<>>)
    \o SetToSeq({Listen(Msg("StartCnf", p[2]), <<"Obs", p[2]>>) : p \in {q \in EarlyObs : q[1] = a}})
    \o SelectSeq(SmlListens(a), LAMBDA l : ListenRoute(a, l[1], "INIT") = "delayed")

\* ActorLifeCycle's replay of the delayed listens, once CTOR_FINISHED.
Replayed(a, route) ==
  SelectSeq(DelayedListens(a), LAMBDA l : ListenRoute(a, l[1], "CTOR_FINISHED") = route)

\* publicStartCallbackList_ and publicStopCallbackList_: the callbacks of
\* the replayed own-StartCnf and own-StopCnf listens (std::maps ordered by
\* handle).
PubCbsFor(a, m) ==
  LET l == SelectSeq(Replayed(a, "public"), LAMBDA x : x[1] = m) IN [i \in DOMAIN l |-> l[i][2]]
PubStartCbs(a) == PubCbsFor(a, Msg("StartCnf", a))
PubStopCbs(a) == PubCbsFor(a, Msg("StopCnf", a))

\* The port commands an actor's construction leaves queued, in order: the
\* user constructor's plain listens (a StartReq handler that makes late
\* listens, SmlActor's request listens), newChild's
\* parent-side listens per child built in the constructor, the replayed delayed listens that go to the port,
\* the lifecycle's request listens, and for the root Core::init's Stop and
\* PrivStopCnf<Root> listens.
CtorCommands(a) ==
  LET user  == (IF \E p \in LateObs : p[1] = a
                THEN <<Listen(Msg("StartReq", a), <<"ObsListen", a>>)>> ELSE <<>>)
                 \o SelectSeq(SmlListens(a), LAMBDA l : ListenRoute(a, l[1], "INIT") = "port")
      kids  == FlattenSeq([i \in 1..Len(ChildSeq(a)) |-> ChildListens(ChildSeq(a)[i])])
      lc    == <<Listen(Msg("StartReq", a), <<"LcStartReq", a>>),
                 Listen(Msg("StopReq", a), <<"LcStopReq", a>>)>>
      core  == IF a = Root
               THEN <<Listen(StopMsg, <<"CoreStop", a>>), Listen(Msg("PrivStopCnf", a), <<"CoreStopCnf", a>>)>>
               ELSE <<>>
  IN user \o kids \o Replayed(a, "port") \o lc \o core

-----------------------------------------------------------------------------
(* The state after Core::init: every actor built in a constructor is      *)
(* CTOR_FINISHED with its construction listens queued on its port;         *)
(* Actor::ctorFinished found the callback queue non-empty and scheduled    *)
(* consume() on the not yet started pool, children before parents.  The   *)
(* dynamic children do not exist yet ("NONE").                             *)
Built == Actors \ DynKids

Init ==
  /\ P!PInit(CtorOrder)
  /\ astate = [a \in Actors |-> IF a \in DynKids THEN "NONE" ELSE "CTOR_FINISHED"]
  /\ cnfCount = [a \in Actors |-> 0]
  /\ actorSched = Built
  /\ cbq = [a \in Actors |-> IF a \in DynKids THEN 0 ELSE 1]
  /\ portSched = Built
  /\ cmdq = [a \in Actors |-> IF a \in DynKids THEN <<>> ELSE CtorCommands(a)]
  /\ evq = [a \in Actors |-> <<>>]
  /\ reg = [a \in Actors |-> {}]
  /\ net = [m \in Msgs |-> {}]
  /\ cpc = [a \in Actors |-> "idle"]
  /\ pending = [a \in Actors |-> {}]
  /\ outbox = [a \in Actors |-> <<>>]
  /\ running = FALSE
  /\ mpc = "run"
  /\ startCnfs = [a \in Actors |-> 0]
  /\ stopCnfs = [a \in Actors |-> 0]
  /\ seen = [p \in Observers |-> 0]
  /\ stopRequested = FALSE
  /\ smState = [a \in SmlActors |-> SmlInitial(a)]
  /\ smDropped = [a \in SmlActors |-> FALSE]

-----------------------------------------------------------------------------
(* Network::publish: under the network mutex every subscribed port's       *)
(* Port::schedule appends the event and, if the port is not scheduled,     *)
(* schedules it on its actor (Port::scheduleOnOwner); Actor::schedule      *)
(* queues the port's consume and, if the actor is not scheduled, puts the  *)
(* actor's consume on the pool.  Subscribers are visited in hash order.    *)
\* Fault variant: scheduleOnOwner without its scheduled_ test.
PortsToScheduleNoGuard(subs) == subs

\* Fault variant: Actor::schedule without its scheduled_ test.
ActorsToScheduleNoGuard(ports) == ports

\* Port::scheduleOnOwner: only a port that is not scheduled queues its
\* consume on the owner.
PortsToSchedule(subs) == subs \ portSched

\* Actor::schedule: only an actor that is not scheduled goes on the pool.
ActorsToSchedule(ports) == ports \ actorSched

\* Port::schedule of m on every port in subs: its dispatch closure joins
\* the back of the port's eventQueue_ (scheduleOnOwner follows).
PortSchedule(subs, m) == [p \in Actors |-> IF p \in subs THEN Append(evq[p], m) ELSE evq[p]]

NetworkPublish(m) ==
  LET subs      == net[m]
      newPorts  == PortsToSchedule(subs)
      newActors == ActorsToSchedule(newPorts)
  IN /\ evq' = PortSchedule(subs, m)
     /\ portSched' = portSched \cup subs
     /\ cbq' = [p \in Actors |-> IF p \in newPorts THEN cbq[p] + 1 ELSE cbq[p]]
     /\ actorSched' = actorSched \cup newPorts
     /\ \E order \in SetToSeqs(newActors) : P!Schedule(order)

-----------------------------------------------------------------------------
(* The callbacks.  Each one runs in the dispatching actor's consume, holds *)
(* no lock the others need, and leaves the messages it publishes, in       *)
(* order, in the actor's outbox.  cbVars are what a callback may change.   *)
cbVars == <<astate, cnfCount, outbox, cmdq, seen, running>>

\* What a public start or stop callback does: publish Stop, newChild of a
\* dynamic child (its construction is two steps of the publishing thread,
\* see EmitNewChild and EmitCtorFinished), or feed the machine of an
\* SmlActor (the state change is Dispatch's).
PubCallbackEffect(cb) ==
  CASE cb[1] = "PubStop"  -> <<StopMsg>>
    [] cb[1] = "NewDyn"   -> <<<<"NewChild", cb[2]>>>>
    [] cb[1] \in SmlEvs   -> SmlPub(cb[2], smState[cb[2]], cb[1])

\* The public start callbacks in handle order, then
\* LifeCycleHelper::publishStartCnf.
StartConfirm(a) ==
  FlattenSeq([i \in DOMAIN PubStartCbs(a) |-> PubCallbackEffect(PubStartCbs(a)[i])])
    \o <<Msg("StartCnf", a), Msg("PrivStartCnf", a)>>

\* The public stop callbacks, then LifeCycleHelper::publishStopCnf.
StopConfirm(a) ==
  FlattenSeq([i \in DOMAIN PubStopCbs(a) |-> PubCallbackEffect(PubStopCbs(a)[i])])
    \o <<Msg("StopCnf", a), Msg("PrivStopCnf", a)>>

\* The children's requests, one publish per entry of children_ (an
\* unordered_map: any order).
ForwardReq(kind, a) ==
  \E order \in SetToSeqs(Children(a)) :
    outbox' = [outbox EXCEPT ![a] = [i \in DOMAIN order |-> Msg(kind, order[i])]]

\* Fault variant: the counter compared one short of children_.size().
ChildrenCompleteEarly(a, n) == n >= Cardinality(Children(a)) - 1

\* newChild's confirmation counter: all of children_ have confirmed.
ChildrenComplete(a, n) == n = Cardinality(Children(a))

\* Fault variant: a leaf confirms its start without SetState(STARTED).
LcStartReqNoSetState(a) ==
  /\ IF Children(a) # {}
     THEN ForwardReq("StartReq", a)
     ELSE outbox' = [outbox EXCEPT ![a] = StartConfirm(a)]
  /\ UNCHANGED <<astate, cnfCount, cmdq, seen, running>>

\* ActorLifeCycle's StartReq handler: forward to the children, or, for a
\* leaf, STARTED, public callbacks, StartCnf and PrivStartCnf.
LcStartReq(a) ==
  /\ IF Children(a) # {}
     THEN ForwardReq("StartReq", a) /\ UNCHANGED astate
     ELSE /\ astate' = [astate EXCEPT ![a] = "STARTED"]
          /\ outbox' = [outbox EXCEPT ![a] = StartConfirm(a)]
  /\ UNCHANGED <<cnfCount, cmdq, seen, running>>

\* Fault variant: SetState(STOPPED) taken out of the leaf-only branch.
LcStopReqEager(a) ==
  /\ astate' = [astate EXCEPT ![a] = "STOPPED"]
  /\ outbox' = [outbox EXCEPT ![a] = IF Children(a) # {} THEN <<>> ELSE StopConfirm(a)]
  /\ UNCHANGED <<cnfCount, cmdq, seen, running>>

\* ActorLifeCycle's StopReq handler: forward, or for a leaf the public stop
\* callbacks, STOPPED, StopCnf and PrivStopCnf.
LcStopReq(a) ==
  /\ IF Children(a) # {}
     THEN ForwardReq("StopReq", a) /\ UNCHANGED astate
     ELSE /\ astate' = [astate EXCEPT ![a] = "STOPPED"]
          /\ outbox' = [outbox EXCEPT ![a] = StopConfirm(a)]
  /\ UNCHANGED <<cnfCount, cmdq, seen, running>>

\* Fault variant: childrenCnfCount_ not reset when the phase completes.
ChildCnfNoReset(a, final, confirm) ==
  LET n == cnfCount[a] + 1
  IN /\ cnfCount' = [cnfCount EXCEPT ![a] = n]
     /\ IF ChildrenComplete(a, n)
        THEN /\ astate' = [astate EXCEPT ![a] = final]
             /\ outbox' = [outbox EXCEPT ![a] = confirm]
        ELSE UNCHANGED <<astate, outbox>>

\* newChild's PrivStartCnf<TChild> / PrivStopCnf<TChild> listeners of the
\* parent a; both count on the one childrenCnfCount_.
ChildCnf(a, final, confirm) ==
  LET n == cnfCount[a] + 1
  IN IF ChildrenComplete(a, n)
     THEN /\ cnfCount' = [cnfCount EXCEPT ![a] = 0]
          /\ astate' = [astate EXCEPT ![a] = final]
          /\ outbox' = [outbox EXCEPT ![a] = confirm]
     ELSE /\ cnfCount' = [cnfCount EXCEPT ![a] = n]
          /\ UNCHANGED <<astate, outbox>>

ChildStartCnf(a) ==
  ChildCnf(a, "STARTED", StartConfirm(a)) /\ UNCHANGED <<cmdq, seen, running>>

ChildStopCnf(a) ==
  ChildCnf(a, "STOPPED", StopConfirm(a)) /\ UNCHANGED <<cmdq, seen, running>>

\* Core::init's Stop listener on the root: publish StopReq<Root>.
CoreStop(a) ==
  /\ outbox' = [outbox EXCEPT ![a] = <<Msg("StopReq", Root)>>]
  /\ UNCHANGED <<astate, cnfCount, cmdq, seen, running>>

\* Core::init's PrivStopCnf<Root> listener: running_ = false, notify.
CoreStopCnf(a) ==
  /\ running' = FALSE
  /\ UNCHANGED <<astate, cnfCount, outbox, cmdq, seen>>

\* A StartReq handler that listens for another actor's StartCnf: after the
\* constructor this is a plain Port::listen, a queued command.
ObsListen(a) ==
  /\ cmdq' = [cmdq EXCEPT ![a] = @ \o
               SetToSeq({Listen(Msg("StartCnf", p[2]), <<"Obs", p[2]>>) : p \in {q \in LateObs : q[1] = a}})]
  /\ UNCHANGED <<astate, cnfCount, outbox, seen, running>>

\* The observer's StartCnf<t> callback.
Obs(a, t) ==
  /\ seen' = [seen EXCEPT ![<<a, t>>] = @ + 1]
  /\ UNCHANGED <<astate, cnfCount, outbox, cmdq, running>>

\* SmlActor's StartReq/StopReq callback: process_event, whose action may
\* publish.
SmlPortEvent(a, ev) ==
  /\ outbox' = [outbox EXCEPT ![a] = SmlPub(a, smState[a], ev)]
  /\ UNCHANGED <<astate, cnfCount, cmdq, seen, running>>

RunCallback(a, cb) ==
  \/ cb[1] = "LcStartReq" /\ LcStartReq(a)
  \/ cb[1] = "LcStopReq" /\ LcStopReq(a)
  \/ cb[1] = "ChildStartCnf" /\ ChildStartCnf(a)
  \/ cb[1] = "ChildStopCnf" /\ ChildStopCnf(a)
  \/ cb[1] = "CoreStop" /\ CoreStop(a)
  \/ cb[1] = "CoreStopCnf" /\ CoreStopCnf(a)
  \/ cb[1] = "ObsListen" /\ ObsListen(a)
  \/ cb[1] = "Obs" /\ Obs(a, cb[2])
  \/ cb[1] \in SmlEvs /\ SmlPortEvent(a, cb[1])

-----------------------------------------------------------------------------
(* Actor::consume and Port::consume, for the actor a worker executes.      *)
(* cpc[a] = "idle" is the top of Actor::consume's loop while a worker runs *)
(* it, and the actor's rest state otherwise.                               *)

Running(w, a) == wpc[w] = "exec" /\ wrun[w] = a

\* Actor::consume, under callBackMutex_: take the port's consume, or clear
\* scheduled_ and return to the dispatcher loop.
ActorLoop(w) ==
  LET a == wrun[w] IN
  /\ wpc[w] = "exec"
  /\ cpc[a] = "idle"
  /\ IF cbq[a] > 0
     THEN /\ cbq' = [cbq EXCEPT ![a] = @ - 1]
          /\ cpc' = [cpc EXCEPT ![a] = "port"]
          /\ UNCHANGED <<actorSched, wpc, wrun>>
     ELSE /\ actorSched' = actorSched \ {a}
          /\ P!WorkerFinish(w)
          /\ UNCHANGED <<cbq, cpc>>
  /\ UNCHANGED <<pstate, actorQueue, sleepingCount, startCount, caller, err>>
  /\ UNCHANGED <<astate, cnfCount, portSched, cmdq, evq, reg, net, pending, outbox, smState>>
  /\ UNCHANGED <<coreVars, histVars>>

\* Network::listen: the port's schedule joins the callbacks of m.
NetworkListen(m, a) == [net EXCEPT ![m] = @ \cup {a}]

\* Port::consume's loop: run the next listen command (the first callback
\* of a message type creates the port's callback vector and subscribes the
\* port to the network, so the vector exists exactly when the port is in
\* net[m]), else take the
\* next event and collect its callbacks, else leave the loop.  Also where
\* the loop resumes when an event's callbacks are done.
PortLoop(a) ==
  /\ \/ cpc[a] = "port"
     \/ cpc[a] = "dispatch" /\ pending[a] = {} /\ outbox[a] = <<>>
  /\ \/ /\ cmdq[a] # <<>>
        /\ LET m == Head(cmdq[a])[1] IN
           /\ net' = IF a \in net[m] THEN net ELSE NetworkListen(m, a)
           /\ reg' = [reg EXCEPT ![a] = @ \cup {Head(cmdq[a])}]
        /\ cmdq' = [cmdq EXCEPT ![a] = Tail(@)]
        /\ cpc' = [cpc EXCEPT ![a] = "port"]
        /\ UNCHANGED <<evq, pending>>
     \/ /\ cmdq[a] = <<>>
        /\ evq[a] # <<>>
        /\ evq' = [evq EXCEPT ![a] = Tail(@)]
        /\ pending' = [pending EXCEPT ![a] = {e[2] : e \in {f \in reg[a] : f[1] = Head(evq[a])}}]
        /\ cpc' = [cpc EXCEPT ![a] = "dispatch"]
        /\ UNCHANGED <<cmdq, reg, net>>
     \/ /\ cmdq[a] = <<>>
        /\ evq[a] = <<>>
        /\ cpc' = [cpc EXCEPT ![a] = "portEnd"]
        /\ UNCHANGED <<cmdq, evq, reg, net, pending>>
  /\ UNCHANGED <<prioVars, astate, cnfCount, actorSched, cbq, portSched, outbox, smState>>
  /\ UNCHANGED <<coreVars, histVars>>

\* Fault variant: Port::consume clears scheduled_ without rescheduling.
PortEndNoReschedule(a) ==
  /\ cpc[a] = "portEnd"
  /\ portSched' = portSched \ {a}
  /\ cpc' = [cpc EXCEPT ![a] = "idle"]
  /\ UNCHANGED <<prioVars, astate, cnfCount, actorSched, cbq, cmdq, evq, reg, net, pending, outbox, smState>>
  /\ UNCHANGED <<coreVars, histVars>>

\* Port::consume's last critical section: clear scheduled_ and reschedule
\* on the owner if a command or event arrived since the loop's last check.
PortEnd(a) ==
  /\ cpc[a] = "portEnd"
  /\ IF evq[a] # <<>> \/ cmdq[a] # <<>>
     THEN /\ cbq' = [cbq EXCEPT ![a] = @ + 1]
          /\ UNCHANGED portSched
     ELSE /\ portSched' = portSched \ {a}
          /\ UNCHANGED cbq
  /\ cpc' = [cpc EXCEPT ![a] = "idle"]
  /\ UNCHANGED <<prioVars, astate, cnfCount, actorSched, cmdq, evq, reg, net, pending, outbox, smState>>
  /\ UNCHANGED <<coreVars, histVars>>

\* The machine event among an actor's public callbacks, or "none".
SmlEventIn(cbs) ==
  IF \E i \in DOMAIN cbs : cbs[i][1] \in SmlEvs
  THEN cbs[CHOOSE i \in DOMAIN cbs : cbs[i][1] \in SmlEvs][1]
  ELSE "none"

\* process_event of ev on a's machine (nothing for "none").
SmlProcess(a, ev) ==
  IF ev = "none"
  THEN UNCHANGED <<smState, smDropped>>
  ELSE /\ smState' = [smState EXCEPT ![a] = SmlNext(a, @, ev)]
       /\ smDropped' = IF SmlRows(a, smState[a], ev) = <<>> THEN [smDropped EXCEPT ![a] = TRUE]
                       ELSE smDropped

\* One callback of the event being dispatched (unordered_map order).  The
\* machine of an SmlActor processes the event of a StartReq/StopReq
\* callback, and that of the public callback run when the actor confirms.
Dispatch(a) ==
  /\ cpc[a] = "dispatch"
  /\ outbox[a] = <<>>
  /\ \E cb \in pending[a] :
       /\ pending' = [pending EXCEPT ![a] = @ \ {cb}]
       /\ RunCallback(a, cb)
       /\ SmlProcess(a, CASE cb[1] \in SmlEvs -> cb[1]
                           [] astate[a] # "STARTED" /\ astate'[a] = "STARTED" -> SmlEventIn(PubStartCbs(a))
                           [] astate[a] # "STOPPED" /\ astate'[a] = "STOPPED" -> SmlEventIn(PubStopCbs(a))
                           [] OTHER -> "none")
       /\ stopRequested' = (stopRequested \/ cb[1] = "CoreStop")
  /\ UNCHANGED <<prioVars, actorSched, cbq, portSched, evq, reg, net, cpc, mpc>>
  /\ UNCHANGED <<startCnfs, stopCnfs>>

\* Actor::publish of the callback's next message: StartCnf and Stop are
\* rejected outside STARTED (error 5); otherwise Network::publish.
Emit(a) ==
  LET m == Head(outbox[a]) IN
  /\ cpc[a] = "dispatch"
  /\ outbox[a] # <<>>
  /\ m \in Msgs
  /\ outbox' = [outbox EXCEPT ![a] = Tail(@)]
  /\ startCnfs' = IF m = Msg("StartCnf", a) THEN [startCnfs EXCEPT ![a] = @ + 1] ELSE startCnfs
  /\ stopCnfs' = IF m = Msg("StopCnf", a) THEN [stopCnfs EXCEPT ![a] = @ + 1] ELSE stopCnfs
  /\ IF Guarded(m) /\ astate[a] # "STARTED"
     THEN /\ err' = 5
          /\ UNCHANGED <<actorQueue, wpc, evq, portSched, cbq, actorSched>>
     ELSE NetworkPublish(m)
  /\ UNCHANGED <<pstate, sleepingCount, startCount, wrun, caller>>
  /\ UNCHANGED <<astate, cnfCount, cmdq, reg, net, cpc, pending, coreVars, seen, stopRequested>>
  /\ UNCHANGED <<smState, smDropped>>

\* newChild, first part, in the parent a's callback: the child's
\* constructors run.  Actor::Actor sets scheduled_; ActorLifeCycle queues
\* the lifecycle listens (the first puts the port's consume in the child's
\* callBackQueue_).  A child in CreatedPub publishes Created<d> from its
\* constructor, the step the comment of Actor::newChild prescribes; its
\* state_ is still INIT, so Actor::publish raises error 5.
EmitNewChild(a) ==
  LET d == Head(outbox[a])[2] IN
  /\ cpc[a] = "dispatch"
  /\ outbox[a] # <<>>
  /\ Head(outbox[a])[1] = "NewChild"
  /\ IF d \in CreatedPub /\ Guarded(Msg("Created", d))
     THEN /\ err' = 5
          /\ UNCHANGED <<astate, cmdq, cbq, portSched, actorSched, outbox>>
     ELSE /\ astate' = [astate EXCEPT ![d] = "CTOR_FINISHED"]
          /\ cmdq' = [cmdq EXCEPT ![d] = CtorCommands(d)]
          /\ cbq' = [cbq EXCEPT ![d] = 1]
          /\ portSched' = portSched \cup {d}
          /\ actorSched' = actorSched \cup {d}
          /\ outbox' = [outbox EXCEPT ![a] = <<<<"CtorFinished", d>>>> \o Tail(@)]
          /\ UNCHANGED err
  /\ UNCHANGED <<pstate, actorQueue, sleepingCount, startCount, wpc, wrun, caller>>
  /\ UNCHANGED <<cnfCount, evq, reg, net, cpc, pending, smState, coreVars, histVars>>

\* newChild, second part: Actor::ctorFinished finds the callback queue
\* non-empty and schedules the child's consume on the pool; the child
\* joins children_ and the parent queues its PrivStartCnf/PrivStopCnf
\* listens for it.
EmitCtorFinished(a) ==
  LET d == Head(outbox[a])[2] IN
  /\ cpc[a] = "dispatch"
  /\ outbox[a] # <<>>
  /\ Head(outbox[a])[1] = "CtorFinished"
  /\ P!Schedule(<<d>>)
  /\ cmdq' = [cmdq EXCEPT ![a] = @ \o ChildListens(d)]
  /\ outbox' = [outbox EXCEPT ![a] = Tail(@)]
  /\ UNCHANGED <<pstate, sleepingCount, startCount, wrun, caller>>
  /\ UNCHANGED <<astate, cnfCount, actorSched, cbq, portSched, evq, reg, net, cpc, pending, smState>>
  /\ UNCHANGED <<coreVars, histVars>>

ActorStep(a) ==
  \/ \E w \in Workers : Running(w, a) /\ ActorLoop(w)
  \/ (\E w \in Workers : Running(w, a))
       /\ (PortLoop(a) \/ PortEnd(a) \/ Dispatch(a) \/ Emit(a) \/ EmitNewChild(a) \/ EmitCtorFinished(a))

-----------------------------------------------------------------------------
(* Core::run on the main thread.  mpc names the call it makes next; each   *)
(* call starts once the previous Priority call has returned.               *)

mainVars == <<actorVars, histVars>>

\* running_ = true; Priority::start().
CoreStart ==
  /\ mpc = "run"
  /\ running' = TRUE
  /\ P!StartBegin
  /\ mpc' = "idle"
  /\ UNCHANGED mainVars

\* Fault variant: Core::run without the waitForIdle() call.
CoreSkipWaitForIdle ==
  /\ mpc = "idle"
  /\ caller = "none"
  /\ mpc' = "startReq"
  /\ UNCHANGED <<prioVars, running, mainVars>>

\* Priority::waitForIdle(): every constructor's listens are processed.
CoreWaitForIdle ==
  /\ mpc = "idle"
  /\ caller = "none"
  /\ P!WaitForIdle
  /\ mpc' = "startReq"
  /\ UNCHANGED <<running, mainVars>>

\* sendStartReq_: Network::publish of StartReq<Root> from the main thread.
CoreSendStartReq ==
  /\ mpc = "startReq"
  /\ caller = "none"
  /\ NetworkPublish(Msg("StartReq", Root))
  /\ mpc' = "wait"
  /\ UNCHANGED <<pstate, sleepingCount, startCount, wrun, caller>>
  /\ UNCHANGED <<astate, cnfCount, cmdq, reg, net, cpc, pending, outbox, smState, running, histVars>>

\* Wake from stopEvent_ once running_ is false; Priority::stop().
CoreStopPool ==
  /\ mpc = "wait"
  /\ ~running
  /\ P!StopBegin
  /\ mpc' = "stopped"
  /\ UNCHANGED <<running, mainVars>>

\* ~Core, once run() returned: root_ is destroyed before env_.  Each
\* actor's ~ActorLifeCycle calls waitForReadyToDtor, which blocks until
\* scheduled_ is false (the root first, then the children with children_).
\* No closure runs after STOPPED, so scheduled_ no longer changes and the
\* waits are one step.
CoreDtorActors ==
  /\ mpc = "stopped"
  /\ caller = "none"
  /\ \A a \in Actors : astate[a] # "NONE" => a \notin actorSched
  /\ mpc' = "dtorEnv"
  /\ UNCHANGED <<prioVars, running, mainVars>>

\* ~Network: callbacks_ cleared under the network mutex.
NetworkClear == [m \in Msgs |-> {}]

\* ~Environment destroys its members in reverse order: network_ first,
\* then priority_, whose destructor's switch finds STOPPED; the joins
\* follow.
CoreDtorPool ==
  /\ mpc = "dtorEnv"
  /\ net' = NetworkClear
  /\ P!DtorSwitch
  /\ mpc' = "join"
  /\ UNCHANGED <<astate, cnfCount, actorSched, cbq, portSched, cmdq, evq, reg, cpc, pending, outbox, smState>>
  /\ UNCHANGED <<running, histVars>>

CoreJoin ==
  /\ mpc = "join"
  /\ P!DtorJoin
  /\ mpc' = "destroyed"
  /\ UNCHANGED <<running, mainVars>>

CoreStep == CoreStart \/ CoreWaitForIdle \/ CoreSendStartReq \/ CoreStopPool
              \/ CoreDtorActors \/ CoreDtorPool \/ CoreJoin

\* The main thread returning from a Priority wait.
CallerWake ==
  /\ P!StartEnd \/ P!IdleWake \/ P!StopWake \/ P!CallerSpurious
  /\ UNCHANGED <<coreVars, mainVars>>

\* Dispatcher threads between closures.
PoolStep ==
  /\ P!PoolStep
  /\ UNCHANGED <<coreVars, mainVars>>

\* Core::run has returned and ~Core has destroyed the actors and joined the
\* dispatchers.
RunReturned == mpc = "destroyed"

\* A fatal error ends the process (the error callback exits).
Next ==
  /\ err = 0
  /\ \/ CoreStep
     \/ CallerWake
     \/ PoolStep
     \/ \E a \in Actors : ActorStep(a)

\* Dispatchers, the main thread and each actor's consume (run by whichever
\* dispatcher holds it) keep running while they can; spurious wake-ups are
\* never relied on.
Fairness ==
  /\ \A w \in Workers :
       /\ WF_vars(P!WorkerStart(w) /\ UNCHANGED <<coreVars, mainVars>>)
       /\ WF_vars(P!WorkerLoop(w) /\ UNCHANGED <<coreVars, mainVars>>)
       /\ WF_vars(P!WorkerWake(w) /\ UNCHANGED <<coreVars, mainVars>>)
  /\ \A a \in Actors : WF_vars(ActorStep(a))
  /\ WF_vars(CoreStep)
  /\ WF_vars((P!StartEnd \/ P!IdleWake \/ P!StopWake) /\ UNCHANGED <<coreVars, mainVars>>)

Spec == Init /\ [][Next]_vars /\ Fairness

-----------------------------------------------------------------------------
(* Properties.                                                             *)

Callbacks ==
  {<<k, a>> : k \in {"LcStartReq", "LcStopReq", "ChildStartCnf", "ChildStopCnf",
                     "CoreStop", "CoreStopCnf", "ObsListen", "Obs",
                     "NewDyn", "PubStop"} \cup SmlEvs, a \in Actors}
\* What a callback's outbox holds: messages, and the two steps of newChild.
OutItems == Msgs \cup ({"NewChild", "CtorFinished"} \X DynKids)

TypeOK ==
  /\ P!PTypeOK(Actors)
  /\ astate \in [Actors -> {"NONE", "CTOR_FINISHED", "STARTED", "STOPPED"}]
  /\ cnfCount \in [Actors -> 0..Cardinality(Actors)]
  /\ actorSched \subseteq Actors
  /\ cbq \in [Actors -> 0..1]
  /\ portSched \subseteq Actors
  /\ cmdq \in [Actors -> Seq(Msgs \X Callbacks)]
  /\ evq \in [Actors -> Seq(Msgs)]
  /\ \A a \in Actors : reg[a] \subseteq Msgs \X Callbacks
  /\ net \in [Msgs -> SUBSET Actors]
  /\ cpc \in [Actors -> {"idle", "port", "portEnd", "dispatch"}]
  /\ pending \in [Actors -> SUBSET Callbacks]
  /\ outbox \in [Actors -> Seq(OutItems)]
  /\ DOMAIN smState = SmlActors
  /\ \A a \in SmlActors : smState[a] \in {SmlTable[a][i].from : i \in DOMAIN SmlTable[a]}
                                         \cup {SmlTable[a][i].to : i \in DOMAIN SmlTable[a]}
  /\ smDropped \in [SmlActors -> BOOLEAN]
  /\ running \in BOOLEAN
  /\ mpc \in {"run", "idle", "startReq", "wait", "stopped", "dtorEnv", "join", "destroyed"}

\* Actor::schedule and Port::scheduleOnOwner together put an actor's
\* consume on the pool at most once: no two dispatchers ever run the same
\* actor, so its callbacks never run concurrently.
SerialMailbox ==
  \A w1, w2 \in Workers :
    w1 # w2 /\ wpc[w1] = "exec" /\ wpc[w2] = "exec" => wrun[w1] # wrun[w2]

\* The lifecycle is hierarchical (actor_life_cycle.hpp, newChild): a parent
\* is STARTED only after all its children are, and STOPPED only after all
\* its children are.
HierarchicalLifecycle ==
  \A c \in Actors \ {Root} :
    /\ astate[Parent[c]] = "STARTED" => astate[c] \in {"STARTED", "STOPPED"}
    /\ astate[Parent[c]] = "STOPPED" => astate[c] = "STOPPED"

\* Every actor publishes its StartCnf and its StopCnf at most once
\* (the child-confirm counter of newChild reaches children_.size() once per
\* phase).
ConfirmOnce ==
  \A a \in Actors : startCnfs[a] <= 1 /\ stopCnfs[a] <= 1

\* No onErrorCallBack_ is raised: no publish outside STARTED (error 5), no
\* schedule after the pool STOPPED (error 3), no double start/stop.
NoFatalError == err = 0

\* When Priority::stop() reaches STOPPED every actor has stopped, no port
\* holds an undispatched event or an unprocessed listen, and no actor or
\* port is still scheduled (so waitForReadyToDtor cannot block and nothing
\* schedules on the stopped pool): the reschedule at the end of
\* Port::consume and the actor's scheduled_ flag lose no wake-up, and stop()
\* drains the pool.
CleanShutdown ==
  pstate = "STOPPED" =>
    /\ actorSched = {}
    /\ portSched = {}
    /\ \A a \in Actors :
         /\ astate[a] = "STOPPED"
         /\ evq[a] = <<>>
         /\ cmdq[a] = <<>>

\* An observer that listens for another actor's StartCnf in its
\* constructor (the delayed-listen replay of ActorLifeCycle) receives it
\* exactly once: Core::run's waitForIdle lets every constructor listen
\* reach the network before StartReq<Root> is published.
EarlyObserverSeesStart ==
  \A p \in EarlyObs :
    /\ seen[p] <= 1
    /\ pstate = "STOPPED" => seen[p] = 1

\* The same for an observer that issues the listen from its own StartReq
\* handler (start_stop.cpp's root listening for StartCnf<LeafNode<5>>).
LateObserverSeesStart ==
  \A p \in LateObs :
    /\ seen[p] <= 1
    /\ pstate = "STOPPED" => seen[p] = 1

\* A parent goes STOPPED only after every child it created, in its
\* constructor or later from a callback, has stopped: newChild puts a
\* dynamic child into children_, against whose size the PrivStopCnf
\* confirmations are counted, and queues the parent's PrivStopCnf listen
\* before the parent can forward a StopReq to the child.
StopAfterChildren ==
  \A c \in Actors \ {Root} : astate[Parent[c]] = "STOPPED" => astate[c] = "STOPPED"

\* An SmlActor's machine receives its lifecycle events in the order the
\* lifecycle produces them (forwardToSml's listens; ActorLifeCycle's and
\* newChild's confirmations run the public callbacks): for a table that
\* walks StartReq, StartCnf, StopReq, StopCnf, no event ever arrives in a
\* state without a transition for it, and the machine has taken its last
\* transition once the actor is STOPPED.
SmlFollowsLifecycle ==
  \A a \in SmlActors :
    /\ ~smDropped[a]
    /\ astate[a] = "STOPPED" => smState[a] = SmlFinal(a)

\* Core::run returns, and ~Core neither blocks in an actor's
\* waitForReadyToDtor nor in joining a dispatcher.
Termination == <>RunReturned

-----------------------------------------------------------------------------
(* Refinement: the runtime implements the abstract Lifecycle for the      *)
(* actors built in constructors (a dynamic child receives no StartReq).   *)
(* An actor's lifecycle state is Actor::state_; the abstract stop request *)
(* is the run of Core::init's Stop listener.                               *)
LC == INSTANCE Lifecycle WITH Actors <- Built, Parent <- [c \in Built \ {Root} |-> Parent[c]],
                              lstate <- [a \in Built |-> astate[a]], stopping <- stopRequested

\* Every behaviour of the runtime is one the Lifecycle allows: actors
\* start bottom-up (the leaves in ActorLifeCycle's StartReq handler, the
\* parents when newChild's PrivStartCnf counter completes), stop bottom-up
\* only after Stop was published, never go back, and all of them
\* eventually start and, once Stop is requested, stop.
LifecycleRefined == LC!LifecycleSpec

=============================================================================

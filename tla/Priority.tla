------------------------------ MODULE Priority ------------------------------
(***************************************************************************)
(* The worker pool of src/rapi_core/src/priority.cpp (class Priority).     *)
(*                                                                         *)
(* A fixed set of dispatcher threads consumes a FIFO of closures           *)
(* (actorQueue_).  One further thread, the "caller" (Core::run's thread,   *)
(* or a test's main thread), calls start(), waitForIdle() and stop().      *)
(* Every step below is one critical section of stateChangeMutex_; a        *)
(* condition-variable wait is split into "wait" (blocked) and "woken"      *)
(* (notified, re-acquiring the mutex and re-testing the predicate), so a   *)
(* notification that is never sent shows up as a thread that stays         *)
(* blocked.  Spurious wake-ups are allowed but never assumed.              *)
(*                                                                         *)
(* The module is a component: it defines the pool's operations and leaves  *)
(* the closures' bodies, and the caller's program, to the module that      *)
(* instantiates it (MCPriority for the pool alone, RapiCore for the        *)
(* runtime, whose closures are Actor::consume).                            *)
(***************************************************************************)
EXTENDS Naturals, Sequences, FiniteSets

CONSTANTS
  Workers,     \* the dispatcher threads (model values)
  NoClosure    \* "no closure is being executed by this worker"

VARIABLES
  pstate,         \* state_            : START, RUNNING, STOPPING, STOPPED
  actorQueue,     \* actorQueue_       : FIFO of closures
  sleepingCount,  \* sleepingCount_
  startCount,     \* startCount_       : dispatchers not yet started
  wpc,            \* program counter of each dispatcherLoop
  wrun,           \* closure each dispatcher is executing
  caller,         \* where the caller thread is blocked inside a Priority call
  err             \* code passed to onErrorCallBack_ (0: none); the callback exits

prioVars == <<pstate, actorQueue, sleepingCount, startCount, wpc, wrun, caller, err>>

NumWorkers == Cardinality(Workers)   \* dispatchers_.size()

WorkerPCs == {"init", "loop", "wait", "woken", "exec", "exited"}
CallerStates == {"none", "starting", "idleWait", "idleWoken", "stopWait", "stopWoken"}

\* The constructor: dispatchers are created and block until RUNNING; the
\* queue may already hold closures scheduled before start().
PInit(initialQueue) ==
  /\ pstate = "START"
  /\ actorQueue = initialQueue
  /\ sleepingCount = 0
  /\ startCount = NumWorkers
  /\ wpc = [w \in Workers |-> "init"]
  /\ wrun = [w \in Workers |-> NoClosure]
  /\ caller = "none"
  /\ err = 0

\* scheduleEvent_.notify_all(): every blocked dispatcher is woken.
WakeAll == [w \in Workers |-> IF wpc[w] = "wait" THEN "woken" ELSE wpc[w]]

-----------------------------------------------------------------------------
(* Priority::schedule, for the closures one step schedules, in order.      *)
(* Each push notifies only on the empty-to-one transition.  After STOPPED  *)
(* the error callback terminates the process.                              *)
Schedule(s) ==
  IF s = <<>>
  THEN UNCHANGED <<actorQueue, wpc, err>>
  ELSE IF pstate = "STOPPED"
       THEN /\ err' = 3
            /\ UNCHANGED <<actorQueue, wpc>>
       ELSE /\ actorQueue' = actorQueue \o s
            /\ wpc' = IF actorQueue = <<>> THEN WakeAll ELSE wpc
            /\ UNCHANGED err

-----------------------------------------------------------------------------
(* The caller's calls.                                                     *)

\* Priority::start(): START -> RUNNING, wake the dispatchers, then block
\* until every dispatcher has decremented startCount_.
StartBegin ==
  /\ caller = "none"
  /\ IF pstate # "START"
     THEN /\ err' = 4
          /\ UNCHANGED <<pstate, caller>>
     ELSE /\ pstate' = "RUNNING"
          /\ caller' = "starting"
          /\ UNCHANGED err
  /\ UNCHANGED <<actorQueue, sleepingCount, startCount, wpc, wrun>>

StartEnd ==
  /\ caller = "starting"
  /\ startCount = 0
  /\ caller' = "none"
  /\ UNCHANGED <<pstate, actorQueue, sleepingCount, startCount, wpc, wrun, err>>

\* Fault variant: waitForIdle() that never blocks.
WaitForIdleNoBlock ==
  /\ caller = "none"
  /\ UNCHANGED prioVars

\* Priority::waitForIdle(): blocks only if the queue is non-empty or some
\* dispatcher is awake, and then waits for "all dispatchers sleeping" alone.
WaitForIdle ==
  /\ caller = "none"
  /\ caller' = IF /\ (actorQueue # <<>> \/ sleepingCount # NumWorkers)
                  /\ sleepingCount # NumWorkers
               THEN "idleWait" ELSE "none"
  /\ UNCHANGED <<pstate, actorQueue, sleepingCount, startCount, wpc, wrun, err>>

IdleWake ==
  /\ caller = "idleWoken"
  /\ caller' = IF sleepingCount = NumWorkers THEN "none" ELSE "idleWait"
  /\ UNCHANGED <<pstate, actorQueue, sleepingCount, startCount, wpc, wrun, err>>

\* Fault variant: stop() that does not wait for the queue to drain.
StopBeginNoWait ==
  /\ caller = "none"
  /\ IF pstate # "RUNNING"
     THEN /\ err' = 2
          /\ UNCHANGED <<pstate, wpc>>
     ELSE /\ pstate' = "STOPPED"
          /\ wpc' = WakeAll
          /\ UNCHANGED err
  /\ UNCHANGED <<actorQueue, sleepingCount, startCount, wrun, caller>>

\* Priority::stop(): RUNNING -> STOPPING, wait (on startedEvent_) until the
\* queue is empty and every dispatcher sleeps, then STOPPED and wake all.
StopBegin ==
  /\ caller = "none"
  /\ IF pstate # "RUNNING"
     THEN /\ err' = 2
          /\ UNCHANGED <<pstate, caller, wpc>>
     ELSE IF actorQueue # <<>> \/ sleepingCount # NumWorkers
          THEN /\ pstate' = "STOPPING"
               /\ caller' = "stopWait"
               /\ UNCHANGED <<wpc, err>>
          ELSE /\ pstate' = "STOPPED"
               /\ wpc' = WakeAll
               /\ UNCHANGED <<caller, err>>
  /\ UNCHANGED <<actorQueue, sleepingCount, startCount, wrun>>

\* Fault variant: the wait in stop() written as an "if" instead of a
\* predicate wait, so a wake-up is taken as the condition.
StopWakeNoRecheck ==
  /\ caller = "stopWoken"
  /\ pstate' = "STOPPED"
  /\ wpc' = WakeAll
  /\ caller' = "none"
  /\ UNCHANGED <<actorQueue, sleepingCount, startCount, wrun, err>>

StopWake ==
  /\ caller = "stopWoken"
  /\ IF actorQueue = <<>> /\ sleepingCount = NumWorkers
     THEN /\ pstate' = "STOPPED"
          /\ wpc' = WakeAll
          /\ caller' = "none"
     ELSE /\ caller' = "stopWait"
          /\ UNCHANGED <<pstate, wpc>>
  /\ UNCHANGED <<actorQueue, sleepingCount, startCount, wrun, err>>

\* A condition-variable wait of the caller may return spuriously.
CallerSpurious ==
  /\ caller \in {"idleWait", "stopWait"}
  /\ caller' = IF caller = "idleWait" THEN "idleWoken" ELSE "stopWoken"
  /\ UNCHANGED <<pstate, actorQueue, sleepingCount, startCount, wpc, wrun, err>>

\* Fault variant: the destructor's switch without its START case.
DtorSwitchNoStart ==
  /\ caller = "none"
  /\ CASE pstate = "RUNNING"  -> StopBegin
       [] pstate = "STOPPING" -> err' = 3 /\ UNCHANGED <<pstate, caller, wpc>>
                                 /\ UNCHANGED <<actorQueue, sleepingCount, startCount, wrun>>
       [] OTHER               -> UNCHANGED prioVars

\* ~Priority, first part: the switch on state_.  A pool never started is
\* started (start(lock)), a running one stopped; STOPPING means stop() runs
\* on another thread (error 3).
DtorSwitch ==
  /\ caller = "none"
  /\ CASE pstate = "START"    -> StartBegin
       [] pstate = "RUNNING"  -> StopBegin
       [] pstate = "STOPPING" -> err' = 3 /\ UNCHANGED <<pstate, caller, wpc>>
                                 /\ UNCHANGED <<actorQueue, sleepingCount, startCount, wrun>>
       [] pstate = "STOPPED"  -> UNCHANGED prioVars

\* ~Priority, START case continued once start() returned: lock again and
\* stop() if still RUNNING.
DtorStopIfRunning ==
  /\ caller = "none"
  /\ IF pstate = "RUNNING" THEN StopBegin ELSE UNCHANGED prioVars

\* ~Priority, last part: join() every dispatcher thread.
DtorJoin ==
  /\ caller = "none"
  /\ \A w \in Workers : wpc[w] = "exited"
  /\ UNCHANGED prioVars

-----------------------------------------------------------------------------
(* Priority::dispatcherLoop, one action per critical section.              *)

\* Wait for RUNNING, then decrement startCount_ (startedEvent_ is notified).
WorkerStart(w) ==
  /\ wpc[w] = "init"
  /\ pstate = "RUNNING"
  /\ startCount' = startCount - 1
  /\ wpc' = [wpc EXCEPT ![w] = "loop"]
  /\ UNCHANGED <<pstate, actorQueue, sleepingCount, wrun, caller, err>>

\* Fault variant: a dispatcher leaves its loop without notifying stop().
WorkerLoopNoNotify(w) ==
  /\ wpc[w] = "loop"
  /\ LET go == pstate = "RUNNING" \/ actorQueue # <<>>
     IN \/ /\ go /\ actorQueue = <<>>
           /\ sleepingCount' = sleepingCount + 1
           /\ wpc' = [wpc EXCEPT ![w] = "wait"]
           /\ caller' = IF sleepingCount + 1 = NumWorkers /\ caller = "idleWait"
                        THEN "idleWoken" ELSE caller
           /\ UNCHANGED <<actorQueue, wrun>>
        \/ /\ go /\ actorQueue # <<>>
           /\ actorQueue' = Tail(actorQueue)
           /\ wrun' = [wrun EXCEPT ![w] = Head(actorQueue)]
           /\ wpc' = [wpc EXCEPT ![w] = "exec"]
           /\ UNCHANGED <<sleepingCount, caller>>
        \/ /\ ~go
           /\ sleepingCount' = sleepingCount + 1
           /\ wpc' = [wpc EXCEPT ![w] = "exited"]
           /\ UNCHANGED <<actorQueue, wrun, caller>>
  /\ UNCHANGED <<pstate, startCount, err>>

\* Top of the while loop, holding the mutex: go to sleep on an empty queue
\* (notifying idleEvent_ when the last one falls asleep), take the head
\* closure, or leave the loop (notifying startedEvent_, which stop() waits on).
WorkerLoop(w) ==
  /\ wpc[w] = "loop"
  /\ LET go == pstate = "RUNNING" \/ actorQueue # <<>>
     IN \/ /\ go /\ actorQueue = <<>>
           /\ sleepingCount' = sleepingCount + 1
           /\ wpc' = [wpc EXCEPT ![w] = "wait"]
           /\ caller' = IF sleepingCount + 1 = NumWorkers /\ caller = "idleWait"
                        THEN "idleWoken" ELSE caller
           /\ UNCHANGED <<actorQueue, wrun>>
        \/ /\ go /\ actorQueue # <<>>
           /\ actorQueue' = Tail(actorQueue)
           /\ wrun' = [wrun EXCEPT ![w] = Head(actorQueue)]
           /\ wpc' = [wpc EXCEPT ![w] = "exec"]
           /\ UNCHANGED <<sleepingCount, caller>>
        \/ /\ ~go
           /\ sleepingCount' = sleepingCount + 1
           /\ wpc' = [wpc EXCEPT ![w] = "exited"]
           /\ caller' = IF caller = "stopWait" THEN "stopWoken" ELSE caller
           /\ UNCHANGED <<actorQueue, wrun>>
  /\ UNCHANGED <<pstate, startCount, err>>

\* Fault variant: sleepingCount_ decremented before the predicate is
\* re-tested.
WorkerWakeEarlyDecrement(w) ==
  /\ wpc[w] = "woken"
  /\ sleepingCount' = sleepingCount - 1
  /\ IF actorQueue # <<>>
     THEN /\ actorQueue' = Tail(actorQueue)
          /\ wrun' = [wrun EXCEPT ![w] = Head(actorQueue)]
          /\ wpc' = [wpc EXCEPT ![w] = "exec"]
     ELSE /\ wpc' = [wpc EXCEPT ![w] = IF pstate # "RUNNING" THEN "loop" ELSE "wait"]
          /\ UNCHANGED <<actorQueue, wrun>>
  /\ UNCHANGED <<pstate, startCount, caller, err>>

\* Return from scheduleEvent_.wait: re-test the predicate; on success leave
\* the sleepers and take the head closure if there is one.
WorkerWake(w) ==
  /\ wpc[w] = "woken"
  /\ IF actorQueue # <<>> \/ pstate # "RUNNING"
     THEN /\ sleepingCount' = sleepingCount - 1
          /\ IF actorQueue # <<>>
             THEN /\ actorQueue' = Tail(actorQueue)
                  /\ wrun' = [wrun EXCEPT ![w] = Head(actorQueue)]
                  /\ wpc' = [wpc EXCEPT ![w] = "exec"]
             ELSE /\ wpc' = [wpc EXCEPT ![w] = "loop"]
                  /\ UNCHANGED <<actorQueue, wrun>>
     ELSE /\ wpc' = [wpc EXCEPT ![w] = "wait"]
          /\ UNCHANGED <<sleepingCount, actorQueue, wrun>>
  /\ UNCHANGED <<pstate, startCount, caller, err>>

WorkerSpurious(w) ==
  /\ wpc[w] = "wait"
  /\ wpc' = [wpc EXCEPT ![w] = "woken"]
  /\ UNCHANGED <<pstate, actorQueue, sleepingCount, startCount, wrun, caller, err>>

\* The closure returned; re-acquire the mutex and loop.  Used as a
\* conjunct by the module that gives the closures their bodies.
WorkerFinish(w) ==
  /\ wpc[w] = "exec"
  /\ wpc' = [wpc EXCEPT ![w] = "loop"]
  /\ wrun' = [wrun EXCEPT ![w] = NoClosure]

\* The pool's own steps (everything except the closures' bodies and the
\* caller's calls).
PoolStep ==
  \E w \in Workers :
    \/ WorkerStart(w)
    \/ WorkerLoop(w)
    \/ WorkerWake(w)
    \/ WorkerSpurious(w)

PTypeOK(Closures) ==
  /\ pstate \in {"START", "RUNNING", "STOPPING", "STOPPED"}
  /\ actorQueue \in Seq(Closures)
  /\ sleepingCount \in 0..NumWorkers
  /\ startCount \in 0..NumWorkers
  /\ wpc \in [Workers -> WorkerPCs]
  /\ wrun \in [Workers -> Closures \cup {NoClosure}]
  /\ caller \in CallerStates
  /\ err \in 0..5
=============================================================================

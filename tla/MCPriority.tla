----------------------------- MODULE MCPriority -----------------------------
(***************************************************************************)
(* The worker pool on its own, driven the way Core::run and the pool tests *)
(* of src/rapi_core/test/infra/core_internal.cpp drive it: a caller thread *)
(* runs a fixed program of schedule/start/waitForIdle/stop calls; every    *)
(* closure may schedule one follow-up closure before it returns (as an     *)
(* actor's consume does when it publishes); optional client threads        *)
(* schedule from outside the pool at any time.  Closures are numbered in   *)
(* the order they are created.                                             *)
(***************************************************************************)
EXTENDS Priority

CONSTANTS
  MaxFollowUps,  \* bound on the closures scheduled by closures and clients
  MainPrograms,  \* the caller's possible programs: its calls, in order
  Clients        \* threads outside the pool that call schedule()

ASSUME MaxFollowUps \in Nat
Calls == {"schedule", "start", "waitForIdle", "stop", "dtor", "dtorStop", "join"}
ASSUME MainPrograms \subseteq Seq(Calls) /\ MainPrograms # {}

MainSchedules ==
  LET n(pr) == Cardinality({i \in DOMAIN pr : pr[i] = "schedule"})
  IN n(CHOOSE pr \in MainPrograms : \A q \in MainPrograms : n(q) <= n(pr))
MaxClosures == MainSchedules + MaxFollowUps
Closures == 1..MaxClosures

\* Core::run's order of calls: Core::init's ctorFinished schedules a
\* consume before start(); run() then starts the pool, waits for idle,
\* publishes the root start request (one more schedule) and stops.
CoreRunProgram == <<"schedule", "start", "waitForIdle", "schedule", "stop">>

\* ~Priority as the caller's calls: the switch on state_, the stop() of
\* the START case, the joins.
Destroy == <<"dtor", "dtorStop", "join">>

\* The pool's lives: Core::run and then ~Core destroying the Environment;
\* a pool destroyed with a closure scheduled but never started (an
\* Environment whose Core was never run, PriorityConstructorDestructor);
\* a pool destroyed while RUNNING (PriorityDelayedStart).
PoolLives == {CoreRunProgram \o Destroy,
              <<"schedule">> \o Destroy,
              <<"start", "schedule">> \o Destroy}
CoreRunOnly == {CoreRunProgram}

VARIABLES
  MainProgram, \* the program the caller runs
  mi,        \* index of the caller's next call in MainProgram
  issued,    \* closures scheduled so far (the last one's number)
  executed,  \* closures that have run to completion
  followUps  \* closures scheduled by closures and clients so far

vars == <<prioVars, MainProgram, mi, issued, executed, followUps>>

Init ==
  /\ PInit(<<>>)
  /\ MainProgram \in MainPrograms
  /\ mi = 1
  /\ issued = 0
  /\ executed = {}
  /\ followUps = 0

\* Schedule a fresh closure (numbered issued + 1).
ScheduleFresh ==
  /\ issued' = issued + 1
  /\ Schedule(<<issued + 1>>)

MainStep ==
  /\ mi <= Len(MainProgram)
  /\ caller = "none"
  /\ mi' = mi + 1
  /\ CASE MainProgram[mi] = "schedule" ->
            /\ ScheduleFresh
            /\ UNCHANGED <<pstate, sleepingCount, startCount, wrun, caller>>
       [] MainProgram[mi] = "start" ->
            StartBegin /\ UNCHANGED issued
       [] MainProgram[mi] = "waitForIdle" ->
            WaitForIdle /\ UNCHANGED issued
       [] MainProgram[mi] = "stop" ->
            StopBegin /\ UNCHANGED issued
       [] MainProgram[mi] = "dtor" ->
            DtorSwitch /\ UNCHANGED issued
       [] MainProgram[mi] = "dtorStop" ->
            DtorStopIfRunning /\ UNCHANGED issued
       [] MainProgram[mi] = "join" ->
            DtorJoin /\ UNCHANGED issued
  /\ UNCHANGED <<MainProgram, executed, followUps>>

CallerWake ==
  /\ StartEnd \/ IdleWake \/ StopWake \/ CallerSpurious
  /\ UNCHANGED <<MainProgram, mi, issued, executed, followUps>>

ClientSchedule ==
  /\ Clients # {}
  /\ followUps < MaxFollowUps
  /\ followUps' = followUps + 1
  /\ ScheduleFresh
  /\ UNCHANGED <<pstate, sleepingCount, startCount, wrun, caller, MainProgram, mi, executed>>

\* A closure body schedules a follow-up closure (as a consume that
\* publishes does) ...
BodySchedule(w) ==
  /\ wpc[w] = "exec"
  /\ followUps < MaxFollowUps
  /\ followUps' = followUps + 1
  /\ ScheduleFresh
  /\ UNCHANGED <<pstate, sleepingCount, startCount, wrun, caller, MainProgram, mi, executed>>

\* ... and returns.
CloseBody(w) ==
  /\ WorkerFinish(w)
  /\ executed' = executed \cup {wrun[w]}
  /\ UNCHANGED <<pstate, actorQueue, sleepingCount, startCount, caller, err, MainProgram, mi, issued, followUps>>

Pool ==
  /\ PoolStep
  /\ UNCHANGED <<MainProgram, mi, issued, executed, followUps>>

Next ==
  /\ err = 0
  /\ \/ MainStep
     \/ CallerWake
     \/ ClientSchedule
     \/ Pool
     \/ \E w \in Workers : BodySchedule(w) \/ CloseBody(w)

\* Dispatchers and the caller are OS threads: each keeps running while it
\* can.  Spurious wake-ups and client threads are never relied upon.
Fairness ==
  /\ \A w \in Workers :
       /\ WF_vars(WorkerStart(w) /\ UNCHANGED <<MainProgram, mi, issued, executed, followUps>>)
       /\ WF_vars(WorkerLoop(w) /\ UNCHANGED <<MainProgram, mi, issued, executed, followUps>>)
       /\ WF_vars(WorkerWake(w) /\ UNCHANGED <<MainProgram, mi, issued, executed, followUps>>)
       /\ WF_vars(CloseBody(w))
  /\ WF_vars(MainStep)
  /\ WF_vars((StartEnd \/ IdleWake \/ StopWake) /\ UNCHANGED <<MainProgram, mi, issued, executed, followUps>>)

Spec == Init /\ [][Next]_vars /\ Fairness

-----------------------------------------------------------------------------
TypeOK ==
  /\ PTypeOK(Closures)
  /\ MainProgram \in MainPrograms
  /\ mi \in 1..Len(MainProgram) + 1
  /\ issued \in 0..MaxClosures
  /\ executed \subseteq Closures
  /\ followUps \in 0..MaxFollowUps

\* The caller's program has returned and every dispatcher thread has left
\* dispatcherLoop, so ~Priority's join() returns.
Terminated ==
  /\ mi > Len(MainProgram)
  /\ caller = "none"
  /\ \A w \in Workers : wpc[w] = "exited"

\* stop() reaches STOPPED only once every closure ever scheduled has run
\* to completion and none is executing: work scheduled by a running
\* closure during STOPPING is not dropped (priority.cpp stop/dispatcherLoop).
StopDrains ==
  pstate = "STOPPED" =>
    /\ executed = 1..issued
    /\ \A w \in Workers : wpc[w] # "exec"

\* waitForIdle() returns only when every dispatcher sleeps and the queue is
\* empty (the contract Core::run relies on before publishing the root's
\* start request).  The step that returns is either the call itself or a
\* wake-up from idleEvent_.
WaitForIdleReturnsIdle ==
  [][ /\ \/ caller = "idleWoken"
          \/ /\ mi <= Len(MainProgram)
             /\ MainProgram[mi] = "waitForIdle"
             /\ caller = "none"
             /\ mi' = mi + 1
      /\ caller' = "none"
      => actorQueue = <<>> /\ sleepingCount = NumWorkers ]_vars

\* Every run of the program ends: stop() is woken when the last dispatcher
\* leaves its loop, and every dispatcher leaves it after STOPPED.
Termination == <>Terminated
-----------------------------------------------------------------------------
(* Refinement: the pool implements the abstract WorkQueue.  STOPPING still *)
(* runs closures, so it is "open"; the closures a dispatcher holds in      *)
(* wrun are the active ones.                                               *)
WQ == INSTANCE WorkQueue WITH
        wqState <- CASE pstate = "START"   -> "idle"
                     [] pstate = "STOPPED" -> "closed"
                     [] OTHER              -> "open",
        queue   <- actorQueue,
        active  <- {wrun[w] : w \in Workers} \ {NoClosure},
        done    <- executed

\* Every behaviour of the pool, under the dispatchers' fairness, is one the
\* WorkQueue allows: closures start in schedule() order and only after
\* start(), every scheduled closure runs to completion, and stop() closes
\* the pool only when nothing is queued or running (priority.cpp schedule,
\* dispatcherLoop, stop).
WorkQueueRefined == WQ!WQSpec
=============================================================================

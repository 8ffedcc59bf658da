----------------------------- MODULE Lifecycle -----------------------------
(***************************************************************************)
(* What the actor lifecycle promises, with no messages, ports or threads:  *)
(* every constructed actor starts, a parent only after all its children    *)
(* have started; once a Stop has been requested every actor stops, a       *)
(* parent only after all its children have stopped; an actor never goes    *)
(* back.  RapiCore is shown to implement it through a refinement mapping.  *)
(***************************************************************************)
CONSTANTS Actors, Root, Parent

VARIABLES
  lstate,     \* per actor: "CTOR_FINISHED", "STARTED", "STOPPED"
  stopping    \* a Stop has been requested

lcVars == <<lstate, stopping>>

Kids(a) == {c \in Actors \ {Root} : Parent[c] = a}

LCInit ==
  /\ lstate = [a \in Actors |-> "CTOR_FINISHED"]
  /\ stopping = FALSE

StartActor(a) ==
  /\ lstate[a] = "CTOR_FINISHED"
  /\ \A c \in Kids(a) : lstate[c] = "STARTED"
  /\ lstate' = [lstate EXCEPT ![a] = "STARTED"]
  /\ UNCHANGED stopping

RequestStop ==
  /\ ~stopping
  /\ stopping' = TRUE
  /\ UNCHANGED lstate

StopActor(a) ==
  /\ stopping
  /\ lstate[a] = "STARTED"
  /\ \A c \in Kids(a) : lstate[c] = "STOPPED"
  /\ lstate' = [lstate EXCEPT ![a] = "STOPPED"]
  /\ UNCHANGED stopping

LCNext ==
  \/ RequestStop
  \/ \E a \in Actors : StartActor(a) \/ StopActor(a)

\* Requesting a stop is the application's decision; starting and stopping
\* are the runtime's.
LifecycleSpec ==
  /\ LCInit
  /\ [][LCNext]_lcVars
  /\ \A a \in Actors : WF_lcVars(StartActor(a)) /\ WF_lcVars(StopActor(a))
=============================================================================

----------------------------- MODULE WorkQueue -----------------------------
(***************************************************************************)
(* What the worker pool (class Priority) promises its users, with no       *)
(* threads, mutexes or condition variables: closures are accepted until    *)
(* the pool is closed, they are started in the order they were accepted,   *)
(* only while the pool is open for running, every accepted closure is      *)
(* eventually started and completed, and the pool closes only when nothing *)
(* is queued or running.  Priority is shown to implement it by             *)
(* MCPriority, through a refinement mapping.                               *)
(***************************************************************************)
EXTENDS Sequences

CONSTANT Closures

VARIABLES
  wqState,  \* "idle" (not started), "open", "closed"
  queue,    \* closures accepted and not yet started, in order
  active,   \* closures started and not yet completed
  done      \* closures completed

wqVars == <<wqState, queue, active, done>>

WQInit ==
  /\ wqState = "idle"
  /\ queue = <<>>
  /\ active = {}
  /\ done = {}

\* A closure is accepted before the pool closes.
Submit(c) ==
  /\ wqState # "closed"
  /\ queue' = Append(queue, c)
  /\ UNCHANGED <<wqState, active, done>>

Open ==
  /\ wqState = "idle"
  /\ wqState' = "open"
  /\ UNCHANGED <<queue, active, done>>

\* The oldest accepted closure starts.
Take ==
  /\ wqState = "open"
  /\ queue # <<>>
  /\ queue' = Tail(queue)
  /\ active' = active \cup {Head(queue)}
  /\ UNCHANGED <<wqState, done>>

Complete(c) ==
  /\ c \in active
  /\ active' = active \ {c}
  /\ done' = done \cup {c}
  /\ UNCHANGED <<wqState, queue>>

\* The pool closes once it is drained.
Close ==
  /\ wqState = "open"
  /\ queue = <<>>
  /\ active = {}
  /\ wqState' = "closed"
  /\ UNCHANGED <<queue, active, done>>

WQNext ==
  \/ \E c \in Closures : Submit(c) \/ Complete(c)
  \/ Open
  \/ Take
  \/ Close

\* Opening and closing are the user's decisions; starting and completing
\* work is the pool's.
WQSpec ==
  /\ WQInit
  /\ [][WQNext]_wqVars
  /\ WF_wqVars(Take)
  /\ \A c \in Closures : WF_wqVars(Complete(c))
=============================================================================

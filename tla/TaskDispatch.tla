---------------------------- MODULE TaskDispatch ----------------------------
(***************************************************************************)
(* What libpi/include/multicore.h promises the program on core 0, without  *)
(* sequence numbers, stores or event registers.  A worker core takes one   *)
(* task at a time and runs it exactly once; a call is refused only by a    *)
(* core that is not in its command loop or that still has a task; a wait   *)
(* ends only when the awaited core has no task.                            *)
(***************************************************************************)
CONSTANTS
  Workers,  \* the worker cores
  Tasks,    \* what may be dispatched: a function and its argument
  NoTask,   \* a core without a task
  NoReq,    \* core 0 is not asking for anything
  Nobody    \* core 0 waits for no core

VARIABLES
  online,   \* online[w]: w is in its command loop
  phase,    \* phase[w]: how far w is with its task
  task,     \* task[w]: the task w has, or NoTask
  request,  \* the <<core, task>> core 0 is asking to have run, or NoReq
  waiting   \* the core that core 0 is blocked on, or Nobody

vars == <<online, phase, task, request, waiting>>

TypeOK ==
  /\ online \in [Workers -> BOOLEAN]
  /\ phase \in [Workers -> {"idle", "posted", "running", "ran"}]
  /\ task \in [Workers -> Tasks \cup {NoTask}]
  /\ request \in (Workers \X Tasks) \cup {NoReq}
  /\ waiting \in Workers \cup {Nobody}

Init ==
  /\ online = [w \in Workers |-> FALSE]
  /\ phase = [w \in Workers |-> "idle"]
  /\ task = [w \in Workers |-> NoTask]
  /\ request = NoReq
  /\ waiting = Nobody

-----------------------------------------------------------------------------
\* A worker enters its command loop.
ComeOnline(w) ==
  /\ online' = [online EXCEPT ![w] = TRUE]
  /\ UNCHANGED <<phase, task, request, waiting>>

\* Core 0 asks for t to be run on w ...
Ask(w, t) ==
  /\ request = NoReq
  /\ waiting = Nobody
  /\ request' = <<w, t>>
  /\ UNCHANGED <<online, phase, task, waiting>>

\* ... and is refused by a core that is offline or still has a task ...
Refuse(w, t) ==
  /\ request = <<w, t>>
  /\ ~online[w] \/ phase[w] # "idle"
  /\ request' = NoReq
  /\ UNCHANGED <<online, phase, task, waiting>>

\* ... or has exactly that task accepted by an idle core.
Post(w, t) ==
  /\ request = <<w, t>>
  /\ online[w]
  /\ phase[w] = "idle"
  /\ phase' = [phase EXCEPT ![w] = "posted"]
  /\ task' = [task EXCEPT ![w] = t]
  /\ request' = NoReq
  /\ UNCHANGED <<online, waiting>>

Start(w) ==
  /\ phase[w] = "posted"
  /\ phase' = [phase EXCEPT ![w] = "running"]
  /\ UNCHANGED <<online, task, request, waiting>>

Finish(w) ==
  /\ phase[w] = "running"
  /\ phase' = [phase EXCEPT ![w] = "ran"]
  /\ UNCHANGED <<online, task, request, waiting>>

\* The worker reports completion and is free for another task.
Retire(w) ==
  /\ phase[w] = "ran"
  /\ phase' = [phase EXCEPT ![w] = "idle"]
  /\ task' = [task EXCEPT ![w] = NoTask]
  /\ UNCHANGED <<online, request, waiting>>

\* Core 0 starts to wait for c, goes on from an idle core to the next one c,
\* or (c = Nobody) is done waiting.
Await(c) ==
  /\ request = NoReq
  /\ waiting # Nobody => phase[waiting] = "idle"
  /\ waiting' = c
  /\ UNCHANGED <<online, phase, task, request>>

Next ==
  \/ \E w \in Workers : \/ ComeOnline(w)
                        \/ \E t \in Tasks : Ask(w, t) \/ Refuse(w, t) \/ Post(w, t)
                        \/ Start(w) \/ Finish(w) \/ Retire(w)
  \/ \E c \in Workers \cup {Nobody} : Await(c)

Spec == Init /\ [][Next]_vars
=============================================================================

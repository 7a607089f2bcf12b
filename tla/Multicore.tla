------------------------------ MODULE Multicore -----------------------------
(***************************************************************************)
(* The multicore dispatcher, libpi/multicore/multicore.c: core 0 hands a   *)
(* function and an argument to a worker core through three words of shared *)
(* memory, the worker runs it and acknowledges through a fourth.  There    *)
(* are no locks: cmd_seq is written by core 0 only, cmd_done by the worker *)
(* only, and a core with nothing to do sleeps in wfe until a sev.          *)
(*                                                                         *)
(* Every access to a word another core writes is an action of its own, so  *)
(* the cores interleave at each of them.  Memory is sequentially           *)
(* consistent here: dev_barrier() stands between the accesses whose order  *)
(* matters, and MulticoreCache takes up what caches do to the same code.   *)
(***************************************************************************)
EXTENDS Integers

CONSTANTS
  NumCores,  \* NUM_CORES; cores 1 .. NumCores - 1 are the workers
  Funcs,     \* worker functions
  NullFunc,  \* the null function pointer
  Args,      \* worker arguments, the null pointer among them
  NullArg,
  SeqMod     \* sequence numbers wrap at SeqMod (2^32 in the code)

ASSUME MulticoreConstants ==
  /\ NumCores \in Nat \ {0, 1}
  /\ NullFunc \notin Funcs
  /\ NullArg \in Args
  /\ SeqMod \in Nat \ {0, 1}

Cores == 0 .. (NumCores - 1)
Workers == 1 .. (NumCores - 1)
Seqs == 0 .. (SeqMod - 1)

\* The core ids a caller may pass, valid or not.
CoreIds == 0 .. NumCores

VARIABLES
  core_online, cmd_funcs, cmd_args, cmd_seq, cmd_done,  \* the shared words
  mailbox,   \* mailbox[w]: w has been given its entry point
  event,     \* event[c]: the event register that wfe waits for and clears
  pc,        \* what each core does next
  w_seq, w_func, w_arg,  \* multicore_main's locals on each worker
  op, core_id, func, arg, expected_seq,  \* core 0's call and its locals
  status     \* what the last call on core 0 returned

shared == <<core_online, cmd_funcs, cmd_args, cmd_seq, cmd_done>>
locals == <<w_seq, w_func, w_arg>>
call == <<op, core_id, func, arg, expected_seq>>
vars == <<shared, mailbox, event, pc, locals, call, status>>

HostPC == {"idle", "init_sev", "init_check", "init_wfe", "online?", "busy?", "func",
           "arg", "seq", "call_sev", "expect", "done?", "wait_wfe"}
WorkerPC == {"parked", "online", "online_sev", "poll", "wfe", "ld_seq", "ld_func",
             "ld_arg", "run", "done", "done_sev"}
Ops == {"init", "async", "call", "wait", "wait_all"}
Statuses == {"NONE", "OK", "ERR_CORE", "ERR_NULL", "ERR_BUSY", "ERR_READY",
             "DONE", "NOT_DONE"}

TypeOK ==
  /\ core_online \in [Workers -> BOOLEAN]
  /\ cmd_funcs \in [Workers -> Funcs \cup {NullFunc}]
  /\ cmd_args \in [Workers -> Args]
  /\ cmd_seq \in [Workers -> Seqs]
  /\ cmd_done \in [Workers -> Seqs]
  /\ mailbox \in [Workers -> BOOLEAN]
  /\ event \in [Cores -> BOOLEAN]
  /\ pc \in [Cores -> HostPC \cup WorkerPC]
  /\ pc[0] \in HostPC
  /\ \A w \in Workers : pc[w] \in WorkerPC
  /\ w_seq \in [Workers -> Seqs]
  /\ w_func \in [Workers -> Funcs \cup {NullFunc}]
  /\ w_arg \in [Workers -> Args]
  /\ op \in Ops
  /\ core_id \in Workers
  /\ func \in Funcs \cup {NullFunc}
  /\ arg \in Args
  /\ expected_seq \in Seqs
  /\ status \in Statuses

\* cmd_seq[core_id].v++ on a uint32_t.
Succ(s) == IF s = SeqMod - 1 THEN 0 ELSE s + 1

Init ==
  /\ core_online = [w \in Workers |-> FALSE]
  /\ cmd_funcs = [w \in Workers |-> NullFunc]
  /\ cmd_args = [w \in Workers |-> NullArg]
  /\ cmd_seq = [w \in Workers |-> 0]
  /\ cmd_done = [w \in Workers |-> 0]
  /\ mailbox = [w \in Workers |-> FALSE]
  /\ event = [c \in Cores |-> FALSE]
  /\ pc = [c \in Cores |-> IF c = 0 THEN "idle" ELSE "parked"]
  /\ w_seq = [w \in Workers |-> 0]
  /\ w_func = [w \in Workers |-> NullFunc]
  /\ w_arg = [w \in Workers |-> NullArg]
  /\ op = "init"
  /\ core_id = 1
  /\ func = NullFunc
  /\ arg = NullArg
  /\ expected_seq = 0
  /\ status = "NONE"

-----------------------------------------------------------------------------
\* sev and wfe, and the steps made of nothing else.

\* sev sets the event register of every core.
Sev == event' = [c \in Cores |-> TRUE]

Goto(c, label) == pc' = [pc EXCEPT ![c] = label]

\* Core c signals at one program point and goes on to the next.
SevAt(c, from, to) ==
  /\ pc[c] = from
  /\ Sev
  /\ Goto(c, to)
  /\ UNCHANGED <<shared, mailbox, locals, call, status>>

\* wfe completes once the event register is set, and clears it.
WfeAt(c, from, to) ==
  /\ pc[c] = from
  /\ event[c]
  /\ event' = [event EXCEPT ![c] = FALSE]
  /\ Goto(c, to)
  /\ UNCHANGED <<shared, mailbox, locals, call, status>>

\* The call on core 0 returns result.  Its locals are dead from here on.
Return(result) ==
  /\ Goto(0, "idle")
  /\ status' = result
  /\ op' = "init"
  /\ core_id' = 1
  /\ func' = NullFunc
  /\ arg' = NullArg
  /\ expected_seq' = 0

IsCoreIdValid(c) == c > 0 /\ c < NumCores

-----------------------------------------------------------------------------
\* multicore_init: give every worker its entry point, then wait for them all.

\* Nobody acts on more than one mailbox, so the three stores are one step.
InitMailbox ==
  /\ pc[0] = "idle"
  /\ mailbox' = [w \in Workers |-> TRUE]
  /\ Goto(0, "init_sev")
  /\ status' = "NONE"
  /\ UNCHANGED <<shared, event, locals, call>>

InitSev == SevAt(0, "init_sev", "init_check")

\* The loop condition and the test repeated after dev_barrier().
InitCheck ==
  /\ pc[0] = "init_check"
  /\ IF \A w \in Workers : core_online[w]
       THEN Return("OK")
       ELSE Goto(0, "init_wfe") /\ UNCHANGED <<call, status>>
  /\ UNCHANGED <<shared, mailbox, event, locals>>

InitWfe == WfeAt(0, "init_wfe", "init_check")

-----------------------------------------------------------------------------
\* multicore_call_async, and multicore_call, which waits when it returns OK.

RejectCall(c, f) ==
  /\ pc[0] = "idle"
  /\ ~IsCoreIdValid(c) \/ f = NullFunc
  /\ status' = IF IsCoreIdValid(c) THEN "ERR_NULL" ELSE "ERR_CORE"
  /\ UNCHANGED <<shared, mailbox, event, pc, locals, call>>

BeginCall(o, c, f, a) ==
  /\ pc[0] = "idle"
  /\ IsCoreIdValid(c)
  /\ f # NullFunc
  /\ op' = o
  /\ core_id' = c
  /\ func' = f
  /\ arg' = a
  /\ status' = "NONE"
  /\ Goto(0, "online?")
  /\ UNCHANGED <<shared, mailbox, event, locals, expected_seq>>

CheckOnline ==
  /\ pc[0] = "online?"
  /\ IF core_online[core_id]
       THEN Goto(0, "busy?") /\ UNCHANGED <<call, status>>
       ELSE Return("ERR_READY")
  /\ UNCHANGED <<shared, mailbox, event, locals>>

\* Slip: the test for a task that is still running is left out.
CheckBusyDropped ==
  /\ pc[0] = "busy?"
  /\ Goto(0, "func")
  /\ UNCHANGED <<shared, mailbox, event, locals, call, status>>

CheckBusy ==
  /\ pc[0] = "busy?"
  /\ IF cmd_seq[core_id] = cmd_done[core_id]
       THEN Goto(0, "func") /\ UNCHANGED <<call, status>>
       ELSE Return("ERR_BUSY")
  /\ UNCHANGED <<shared, mailbox, event, locals>>

\* Slip: the function pointer of the previous call is left in the slot.
StoreFuncDropped ==
  /\ pc[0] = "func"
  /\ Goto(0, "arg")
  /\ UNCHANGED <<shared, mailbox, event, locals, call, status>>

StoreFunc ==
  /\ pc[0] = "func"
  /\ cmd_funcs' = [cmd_funcs EXCEPT ![core_id] = func]
  /\ Goto(0, "arg")
  /\ UNCHANGED <<core_online, cmd_args, cmd_seq, cmd_done, mailbox, event, locals, call, status>>

StoreArg ==
  /\ pc[0] = "arg"
  /\ cmd_args' = [cmd_args EXCEPT ![core_id] = arg]
  /\ Goto(0, "seq")
  /\ UNCHANGED <<core_online, cmd_funcs, cmd_seq, cmd_done, mailbox, event, locals, call, status>>

\* Only core 0 writes cmd_seq, so the read-modify-write is one step.
StoreSeq ==
  /\ pc[0] = "seq"
  /\ cmd_seq' = [cmd_seq EXCEPT ![core_id] = Succ(cmd_seq[core_id])]
  /\ Goto(0, "call_sev")
  /\ UNCHANGED <<core_online, cmd_funcs, cmd_args, cmd_done, mailbox, event, locals, call, status>>

\* dc_clean has no effect on this memory; after sev the call returns OK, or,
\* for multicore_call, goes on into multicore_wait.
CallSev ==
  /\ pc[0] = "call_sev"
  /\ Sev
  /\ IF op = "call" THEN Goto(0, "expect") /\ UNCHANGED <<call, status>> ELSE Return("OK")
  /\ UNCHANGED <<shared, mailbox, locals>>

-----------------------------------------------------------------------------
\* multicore_check_done, multicore_wait, multicore_wait_all.

CheckDone(c) ==
  /\ pc[0] = "idle"
  /\ IsCoreIdValid(c)
  /\ status' = IF cmd_seq[c] = cmd_done[c] THEN "DONE" ELSE "NOT_DONE"
  /\ UNCHANGED <<shared, mailbox, event, pc, locals, call>>

\* Either of check_done and wait on an invalid core.
RejectWait(c) ==
  /\ pc[0] = "idle"
  /\ ~IsCoreIdValid(c)
  /\ status' = "ERR_CORE"
  /\ UNCHANGED <<shared, mailbox, event, pc, locals, call>>

BeginWait(o, c) ==
  /\ pc[0] = "idle"
  /\ IsCoreIdValid(c)
  /\ o = "wait_all" => c = 1
  /\ op' = o
  /\ core_id' = c
  /\ status' = "NONE"
  /\ Goto(0, "expect")
  /\ UNCHANGED <<shared, mailbox, event, locals, func, arg, expected_seq>>

\* Slip: the wait expects the acknowledgement that is already there.
ReadExpectedDone ==
  /\ pc[0] = "expect"
  /\ expected_seq' = cmd_done[core_id]
  /\ Goto(0, "done?")
  /\ UNCHANGED <<shared, mailbox, event, locals, op, core_id, func, arg, status>>

ReadExpected ==
  /\ pc[0] = "expect"
  /\ expected_seq' = cmd_seq[core_id]
  /\ Goto(0, "done?")
  /\ UNCHANGED <<shared, mailbox, event, locals, op, core_id, func, arg, status>>

\* multicore_wait is about to return; multicore_wait_all goes on to the next core.
WaitLoop ==
  /\ pc[0] = "done?"
  /\ IF cmd_done[core_id] # expected_seq
       THEN Goto(0, "wait_wfe") /\ UNCHANGED <<call, status>>
       ELSE IF op = "wait_all" /\ core_id + 1 < NumCores
              THEN /\ core_id' = core_id + 1
                   /\ Goto(0, "expect")
                   /\ UNCHANGED <<op, func, arg, expected_seq, status>>
              ELSE Return("OK")
  /\ UNCHANGED <<shared, mailbox, event, locals>>

WaitWfe == WfeAt(0, "wait_wfe", "done?")

HostStep ==
  \/ InitSev \/ InitCheck \/ InitWfe
  \/ CheckOnline \/ CheckBusy \/ StoreFunc \/ StoreArg \/ StoreSeq \/ CallSev
  \/ ReadExpected \/ WaitLoop \/ WaitWfe

\* Any program on core 0: one call after another, with any arguments.
Client ==
  \/ InitMailbox
  \/ \E c \in CoreIds, f \in Funcs \cup {NullFunc} :
       \/ RejectCall(c, f)
       \/ \E o \in {"async", "call"}, a \in Args : BeginCall(o, c, f, a)
  \/ \E c \in CoreIds : \/ CheckDone(c)
                        \/ RejectWait(c)
                        \/ \E o \in {"wait", "wait_all"} : BeginWait(o, c)

-----------------------------------------------------------------------------
\* multicore_entry and multicore_main on worker w.

\* The firmware's holding pen: the worker looks at its mailbox when an event
\* wakes it, and jumps to multicore_entry, which sets up its own registers and
\* stack only.
LeavePen(w) ==
  /\ pc[w] = "parked"
  /\ event[w]
  /\ event' = [event EXCEPT ![w] = FALSE]
  /\ Goto(w, IF mailbox[w] THEN "online" ELSE "parked")
  /\ UNCHANGED <<shared, mailbox, locals, call, status>>

StoreOnline(w) ==
  /\ pc[w] = "online"
  /\ core_online' = [core_online EXCEPT ![w] = TRUE]
  /\ Goto(w, "online_sev")
  /\ UNCHANGED <<cmd_funcs, cmd_args, cmd_seq, cmd_done, mailbox, event, locals, call, status>>

OnlineSev(w) == SevAt(w, "online_sev", "poll")

\* Slip: an ordered comparison, which fails when the counter wraps.
PollOrdered(w) ==
  /\ pc[w] = "poll"
  /\ Goto(w, IF cmd_seq[w] > cmd_done[w] THEN "ld_seq" ELSE "wfe")
  /\ UNCHANGED <<shared, mailbox, event, locals, call, status>>

Poll(w) ==
  /\ pc[w] = "poll"
  /\ Goto(w, IF cmd_seq[w] # cmd_done[w] THEN "ld_seq" ELSE "wfe")
  /\ UNCHANGED <<shared, mailbox, event, locals, call, status>>

PollWfe(w) == WfeAt(w, "wfe", "poll")

LoadSeq(w) ==
  /\ pc[w] = "ld_seq"
  /\ w_seq' = [w_seq EXCEPT ![w] = cmd_seq[w]]
  /\ Goto(w, "ld_func")
  /\ UNCHANGED <<shared, mailbox, event, w_func, w_arg, call, status>>

LoadFunc(w) ==
  /\ pc[w] = "ld_func"
  /\ w_func' = [w_func EXCEPT ![w] = cmd_funcs[w]]
  /\ Goto(w, "ld_arg")
  /\ UNCHANGED <<shared, mailbox, event, w_seq, w_arg, call, status>>

\* A null function would be acknowledged without being called.
LoadArg(w) ==
  /\ pc[w] = "ld_arg"
  /\ w_arg' = [w_arg EXCEPT ![w] = cmd_args[w]]
  /\ Goto(w, IF w_func[w] # NullFunc THEN "run" ELSE "done")
  /\ UNCHANGED <<shared, mailbox, event, w_seq, w_func, call, status>>

\* func(arg) returns; at "run" the worker is inside it.
FuncReturns(w) ==
  /\ pc[w] = "run"
  /\ Goto(w, "done")
  /\ UNCHANGED <<shared, mailbox, event, locals, call, status>>

\* The locals are dead after the acknowledgement.
StoreDone(w) ==
  /\ pc[w] = "done"
  /\ cmd_done' = [cmd_done EXCEPT ![w] = w_seq[w]]
  /\ w_seq' = [w_seq EXCEPT ![w] = 0]
  /\ w_func' = [w_func EXCEPT ![w] = NullFunc]
  /\ w_arg' = [w_arg EXCEPT ![w] = NullArg]
  /\ Goto(w, "done_sev")
  /\ UNCHANGED <<core_online, cmd_funcs, cmd_args, cmd_seq, mailbox, event, call, status>>

\* Slip: no sev after the acknowledgement.
DoneSevDropped(w) ==
  /\ pc[w] = "done_sev"
  /\ Goto(w, "poll")
  /\ UNCHANGED <<shared, mailbox, event, locals, call, status>>

DoneSev(w) == SevAt(w, "done_sev", "poll")

WorkerStep(w) ==
  \/ LeavePen(w) \/ StoreOnline(w) \/ OnlineSev(w) \/ Poll(w) \/ PollWfe(w)
  \/ LoadSeq(w) \/ LoadFunc(w) \/ LoadArg(w) \/ FuncReturns(w)
  \/ StoreDone(w) \/ DoneSev(w)

Next == Client \/ HostStep \/ \E w \in Workers : WorkerStep(w)

Spec == Init /\ [][Next]_vars

\* Every core executes its instructions, and worker functions return.  The
\* program on core 0 need not make another call.
Fairness ==
  /\ WF_vars(HostStep)
  /\ \A w \in Workers : WF_vars(WorkerStep(w))

FairSpec == Spec /\ Fairness

-----------------------------------------------------------------------------
\* What must hold.

\* The worker has seen a sequence number it has not acknowledged yet.
Engaged(w) == pc[w] \in {"ld_seq", "ld_func", "ld_arg", "run", "done"}

\* While a worker is between seeing a command and acknowledging it, core 0 can
\* neither issue another one nor touch the slots: what the worker has read is
\* still what the slots hold, and its sequence number is the next one.
SlotHeld ==
  \A w \in Workers : Engaged(w) =>
    /\ cmd_seq[w] = Succ(cmd_done[w])
    /\ pc[w] # "ld_seq" => w_seq[w] = cmd_seq[w]
    /\ pc[w] \in {"ld_arg", "run", "done"} => w_func[w] = cmd_funcs[w]
    /\ pc[w] \in {"run", "done"} => w_arg[w] = cmd_args[w]
    /\ core_id = w => pc[0] \notin {"func", "arg", "seq"}

\* A core that sleeps in wfe although what it waits for has happened has its
\* event register set, or the core that made it happen has yet to execute sev.
NoLostWakeup ==
  /\ \A w \in Workers :
       pc[w] = "wfe" /\ cmd_seq[w] # cmd_done[w]
         => event[w] \/ (pc[0] = "call_sev" /\ core_id = w)
  /\ pc[0] = "wait_wfe" /\ cmd_done[core_id] = expected_seq
       => event[0] \/ pc[core_id] = "done_sev"
  /\ pc[0] = "init_wfe" /\ (\A w \in Workers : core_online[w])
       => event[0] \/ \E w \in Workers : pc[w] = "online_sev"

\* When multicore_wait_all returns, no worker has a task: not only the core it
\* looked at last, but also those whose acknowledgement it saw earlier.
WaitAllQuiesces ==
  [][ op = "wait_all" /\ pc[0] = "done?" /\ pc'[0] = "idle"
        => \A w \in Workers : cmd_seq[w] = cmd_done[w] /\ ~Engaged(w) ]_vars

\* The dispatcher implements TaskDispatch: each accepted call is run exactly
\* once, with the function and argument it was made with, a call is refused
\* only by a core that is offline or occupied, and a wait ends only once the
\* task is finished.
NoTask == <<NullFunc, NullArg>>
NoReq == <<0, NoTask>>

Outstanding(w) == cmd_seq[w] # cmd_done[w]

Phase(w) == IF pc[w] = "run" THEN "running"
            ELSE IF pc[w] = "done" THEN "ran"
            ELSE IF Outstanding(w) THEN "posted" ELSE "idle"

Task(w) == IF pc[w] \in {"run", "done"} THEN <<w_func[w], w_arg[w]>>
           ELSE IF Outstanding(w) THEN <<cmd_funcs[w], cmd_args[w]>> ELSE NoTask

Requested == IF pc[0] \in {"online?", "busy?", "func", "arg", "seq"}
               THEN <<core_id, <<func, arg>>>> ELSE NoReq

Awaited == IF pc[0] \in {"expect", "done?", "wait_wfe"} THEN core_id ELSE 0

TD == INSTANCE TaskDispatch WITH
        Tasks <- Funcs \X Args, Nobody <- 0,
        online <- core_online,
        phase <- [w \in Workers |-> Phase(w)],
        task <- [w \in Workers |-> Task(w)],
        request <- Requested,
        waiting <- Awaited

ImplementsTaskDispatch == TD!Spec

\* An issued command is acknowledged even if core 0 never waits for it.
CommandAcknowledged ==
  \A w \in Workers : cmd_seq[w] # cmd_done[w] ~> cmd_seq[w] = cmd_done[w]
=============================================================================

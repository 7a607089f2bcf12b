---------------------------- MODULE MatmulProofs ----------------------------
(***************************************************************************)
(* Proofs about the dispatcher, Multicore, for every number of cores, every *)
(* set of worker functions and arguments and every width of the sequence   *)
(* number; then about the program on it, Matmul, for every number of rows. *)
(* Each step of Matmul is a step of the dispatcher or leaves it alone, so  *)
(* that what is shown of the dispatcher holds there as well.               *)
(***************************************************************************)
EXTENDS Matmul, TLAPS

\* A sequence number is a number below SeqMod, and its successor another one.
LEMMA SuccType == \A s \in Seqs : Succ(s) \in Seqs /\ Succ(s) # s
  BY MulticoreConstants DEF Seqs, Succ

\* Core 0 is a core and no worker.
LEMMA CoreZero == 0 \in Cores /\ 0 \notin Workers /\ 1 \in Workers /\ Workers \subseteq Cores
  BY MulticoreConstants DEF Cores, Workers

\* A valid core id is a worker's.
LEMMA ValidIsWorker == \A c \in CoreIds : IsCoreIdValid(c) => c \in Workers
  BY MulticoreConstants DEF CoreIds, IsCoreIdValid, Workers

-----------------------------------------------------------------------------
(* Type correctness.                                                       *)

\* The initial values have their types.
LEMMA InitType == Init => TypeOK
  BY MulticoreConstants, CoreZero DEF Init, TypeOK, HostPC, WorkerPC, Ops, Statuses, Seqs

\* A call made, or refused, on core 0 (multicore_init, _call, _call_async,
\* _check_done, _wait, _wait_all) preserves the types.
LEMMA ClientType == TypeOK /\ Client => TypeOK'
  <1> SUFFICES ASSUME TypeOK, Client PROVE TypeOK'
    OBVIOUS
  <1> USE CoreZero, ValidIsWorker DEF TypeOK, HostPC, WorkerPC, Ops, Statuses, Goto
  <1>1. CASE InitMailbox
    BY <1>1 DEF InitMailbox, shared, locals, call
  <1>2. CASE \E c \in CoreIds, f \in Funcs \cup {NullFunc} : RejectCall(c, f)
    BY <1>2 DEF RejectCall, shared, locals, call
  <1>3. CASE \E c \in CoreIds, f \in Funcs \cup {NullFunc}, o \in {"async", "call"}, a \in Args :
               BeginCall(o, c, f, a)
    BY <1>3 DEF BeginCall, shared, locals
  <1>4. CASE \E c \in CoreIds : CheckDone(c)
    BY <1>4 DEF CheckDone, shared, locals, call
  <1>5. CASE \E c \in CoreIds : RejectWait(c)
    BY <1>5 DEF RejectWait, shared, locals, call
  <1>6. CASE \E c \in CoreIds, o \in {"wait", "wait_all"} : BeginWait(o, c)
    BY <1>6 DEF BeginWait, shared, locals
  <1> QED
    BY <1>1, <1>2, <1>3, <1>4, <1>5, <1>6 DEF Client

\* So does every step inside a call on core 0 ...
LEMMA HostType == TypeOK /\ HostStep => TypeOK'
  <1> SUFFICES ASSUME TypeOK, HostStep PROVE TypeOK'
    OBVIOUS
  <1> USE CoreZero, SuccType, MulticoreConstants
      DEF TypeOK, HostPC, WorkerPC, Ops, Statuses, Goto, Sev, SevAt, WfeAt, Return
  <1>1. CASE InitSev
    BY <1>1 DEF InitSev, shared, locals, call
  <1>2. CASE InitCheck
    BY <1>2 DEF InitCheck, shared, locals, call, Seqs
  <1>3. CASE InitWfe
    BY <1>3 DEF InitWfe, shared, locals, call
  <1>4. CASE CheckOnline
    BY <1>4 DEF CheckOnline, shared, locals, call, Seqs
  <1>5. CASE CheckBusy
    BY <1>5 DEF CheckBusy, shared, locals, call, Seqs
  <1>6. CASE StoreFunc
    BY <1>6 DEF StoreFunc, locals, call
  <1>7. CASE StoreArg
    BY <1>7 DEF StoreArg, locals, call
  <1>8. CASE StoreSeq
    BY <1>8 DEF StoreSeq, locals, call
  <1>9. CASE CallSev
    BY <1>9 DEF CallSev, shared, locals, call, Seqs
  <1>10. CASE ReadExpected
    BY <1>10 DEF ReadExpected, shared, locals
  <1>11. CASE WaitLoop
    <2>1. core_id + 1 < NumCores => core_id + 1 \in Workers
      BY DEF Workers
    <2>2. 0 \in Seqs
      BY DEF Seqs
    <2> QED
      BY <1>11, <2>1, <2>2 DEF WaitLoop, shared, locals, call
  <1>12. CASE WaitWfe
    BY <1>12 DEF WaitWfe, shared, locals, call
  <1> QED
    BY <1>1, <1>2, <1>3, <1>4, <1>5, <1>6, <1>7, <1>8, <1>9, <1>10, <1>11, <1>12 DEF HostStep

\* ... and every step of a worker in multicore_entry and multicore_main.
LEMMA WorkerType == ASSUME NEW w \in Workers, TypeOK, WorkerStep(w) PROVE TypeOK'
  <1> USE CoreZero, MulticoreConstants
      DEF TypeOK, HostPC, WorkerPC, Goto, Sev, SevAt, WfeAt
  <1>1. CASE LeavePen(w)
    BY <1>1 DEF LeavePen, shared, locals, call
  <1>2. CASE StoreOnline(w)
    BY <1>2 DEF StoreOnline, locals, call
  <1>3. CASE OnlineSev(w)
    BY <1>3 DEF OnlineSev, shared, locals, call
  <1>4. CASE Poll(w)
    BY <1>4 DEF Poll, shared, locals, call
  <1>5. CASE PollWfe(w)
    BY <1>5 DEF PollWfe, shared, locals, call
  <1>6. CASE LoadSeq(w)
    BY <1>6 DEF LoadSeq, shared, call
  <1>7. CASE LoadFunc(w)
    BY <1>7 DEF LoadFunc, shared, call
  <1>8. CASE LoadArg(w)
    BY <1>8 DEF LoadArg, shared, call
  <1>9. CASE FuncReturns(w)
    BY <1>9 DEF FuncReturns, shared, locals, call
  <1>10. CASE StoreDone(w)
    BY <1>10 DEF StoreDone, call, Seqs
  <1>11. CASE DoneSev(w)
    BY <1>11 DEF DoneSev, shared, locals, call
  <1> QED
    BY <1>1, <1>2, <1>3, <1>4, <1>5, <1>6, <1>7, <1>8, <1>9, <1>10, <1>11 DEF WorkerStep

\* A step that changes nothing preserves the types.
LEMMA StutterType == TypeOK /\ UNCHANGED vars => TypeOK'
  BY DEF TypeOK, vars, shared, locals, call

\* Every variable keeps its type in every reachable state.
THEOREM TypeCorrect == Spec => []TypeOK
  <1>1. TypeOK /\ [Next]_vars => TypeOK'
    BY ClientType, HostType, WorkerType, StutterType DEF Next
  <1> QED
    BY <1>1, InitType, PTL DEF Spec

-----------------------------------------------------------------------------
(* The inductive invariant.                                                *)

\* At most one command is outstanding on a worker.
SeqInv == \A w \in Workers : cmd_seq[w] \in {cmd_done[w], Succ(cmd_done[w])}

\* Only workers in their command loop are given commands, and only functions.
PostedInv ==
  \A w \in Workers :
    /\ pc[w] \in {"parked", "online"} <=> ~core_online[w]
    /\ cmd_seq[w] # cmd_done[w] => core_online[w] /\ cmd_funcs[w] \in Funcs

\* Core 0 fills the slots of an idle worker only, with the call's arguments.
IssueInv ==
  /\ pc[0] \in {"online?", "busy?", "func", "arg", "seq"} => func \in Funcs
  /\ pc[0] \in {"busy?", "func", "arg", "seq"} => core_online[core_id]
  /\ pc[0] \in {"func", "arg", "seq"} => cmd_seq[core_id] = cmd_done[core_id]
  /\ pc[0] \in {"arg", "seq"} => cmd_funcs[core_id] = func
  /\ pc[0] = "seq" => cmd_args[core_id] = arg

\* Core 0 waits for the command it issued last; the cores multicore_wait_all
\* has passed are idle.
WaitInv ==
  /\ pc[0] \in {"done?", "wait_wfe"} => expected_seq = cmd_seq[core_id]
  /\ op = "wait_all" /\ pc[0] \in {"expect", "done?", "wait_wfe"}
       => \A v \in Workers : v < core_id => cmd_seq[v] = cmd_done[v]

IInv == TypeOK /\ SeqInv /\ PostedInv /\ IssueInv /\ WaitInv /\ SlotHeld /\ NoLostWakeup

\* The inductive invariant holds before multicore_init: every worker is parked.
LEMMA InitIInv == Init => IInv
  <1> SUFFICES ASSUME Init PROVE IInv
    OBVIOUS
  <1>1. TypeOK
    BY InitType
  <1>2. SeqInv /\ PostedInv /\ IssueInv /\ WaitInv
    BY CoreZero DEF Init, SeqInv, PostedInv, IssueInv, WaitInv, Workers, Cores
  <1>3. SlotHeld /\ NoLostWakeup
    BY CoreZero DEF Init, SlotHeld, Engaged, NoLostWakeup, Workers, Cores
  <1> QED
    BY <1>1, <1>2, <1>3 DEF IInv

\* The steps inside a call on core 0 preserve it.  The interesting ones are the
\* busy test, which finds the worker out of its command, the store to cmd_seq,
\* which issues the next one, and sev.
LEMMA HostIInv == IInv /\ HostStep => IInv'
  <1> SUFFICES ASSUME IInv, HostStep PROVE IInv'
    OBVIOUS
  <1>0. TypeOK'
    BY HostType DEF IInv
  <1> USE <1>0, CoreZero, SuccType
      DEF IInv, TypeOK, SeqInv, PostedInv, IssueInv, WaitInv, SlotHeld, Engaged, NoLostWakeup, shared, locals, call,
          Goto, Sev, SevAt, WfeAt, Return
  <1>1. CASE InitSev
    BY <1>1 DEF InitSev
  <1>2. CASE InitCheck
    BY <1>2 DEF InitCheck
  <1>3. CASE InitWfe
    BY <1>3 DEF InitWfe
  <1>4. CASE CheckOnline
    BY <1>4 DEF CheckOnline
  <1>5. CASE CheckBusy
    BY <1>5 DEF CheckBusy
  <1>6. CASE StoreFunc
    BY <1>6 DEF StoreFunc
  <1>7. CASE StoreArg
    BY <1>7 DEF StoreArg
  <1>8. CASE StoreSeq
    BY <1>8 DEF StoreSeq
  <1>9. CASE CallSev
    BY <1>9 DEF CallSev
  <1>10. CASE ReadExpected
    BY <1>10 DEF ReadExpected
  <1>11. CASE WaitLoop
    <2>1. \A v \in Workers : v < core_id + 1 => v < core_id \/ v = core_id
      BY DEF Workers
    <2>2. WaitInv'
      BY <1>11, <2>1 DEF WaitLoop
    <2>3. SeqInv' /\ PostedInv' /\ IssueInv' /\ SlotHeld'
      BY <1>11 DEF WaitLoop
    <2>4. NoLostWakeup'
      BY <1>11 DEF WaitLoop
    <2> QED
      BY <2>2, <2>3, <2>4
  <1>12. CASE WaitWfe
    BY <1>12 DEF WaitWfe
  <1> QED
    BY <1>1, <1>2, <1>3, <1>4, <1>5, <1>6, <1>7, <1>8, <1>9, <1>10, <1>11, <1>12 DEF HostStep

\* The steps of a worker preserve it: no other worker's words are touched, and
\* what it acknowledges is the number it read.
LEMMA WorkerIInv == ASSUME NEW w \in Workers, IInv, WorkerStep(w) PROVE IInv'
  <1>0. TypeOK'
    BY WorkerType DEF IInv
  <1> USE <1>0, CoreZero, SuccType
      DEF IInv, TypeOK, SeqInv, PostedInv, IssueInv, WaitInv, SlotHeld, Engaged, NoLostWakeup, shared, locals, call,
          Goto, Sev, SevAt, WfeAt
  <1>1. CASE LeavePen(w)
    BY <1>1 DEF LeavePen
  <1>2. CASE StoreOnline(w)
    BY <1>2 DEF StoreOnline
  <1>3. CASE OnlineSev(w)
    BY <1>3 DEF OnlineSev
  <1>4. CASE Poll(w)
    BY <1>4 DEF Poll
  <1>5. CASE PollWfe(w)
    BY <1>5 DEF PollWfe
  <1>6. CASE LoadSeq(w)
    BY <1>6 DEF LoadSeq
  <1>7. CASE LoadFunc(w)
    BY <1>7 DEF LoadFunc
  <1>8. CASE LoadArg(w)
    BY <1>8 DEF LoadArg
  <1>9. CASE FuncReturns(w)
    BY <1>9 DEF FuncReturns
  <1>10. CASE StoreDone(w)
    BY <1>10 DEF StoreDone
  <1>11. CASE DoneSev(w)
    BY <1>11 DEF DoneSev
  <1> QED
    BY <1>1, <1>2, <1>3, <1>4, <1>5, <1>6, <1>7, <1>8, <1>9, <1>10, <1>11 DEF WorkerStep

\* The calls a client can make, one case per handler.
LEMMA ClientCases ==
  Client => \/ InitMailbox
            \/ \E c \in CoreIds, f \in Funcs \cup {NullFunc} : RejectCall(c, f)
            \/ \E c \in CoreIds, f \in Funcs \cup {NullFunc}, o \in {"async", "call"}, a \in Args :
                 BeginCall(o, c, f, a)
            \/ \E c \in CoreIds : CheckDone(c)
            \/ \E c \in CoreIds : RejectWait(c)
            \/ \E c \in CoreIds, o \in {"wait", "wait_all"} : BeginWait(o, c)
  BY DEF Client

\* A call made or refused on core 0 preserves it: it stores to no shared word.
LEMMA ClientIInv == IInv /\ Client => IInv'
  <1> SUFFICES ASSUME IInv, Client PROVE IInv'
    OBVIOUS
  <1>0. TypeOK'
    BY ClientType DEF IInv
  <1> USE <1>0, CoreZero, ValidIsWorker
      DEF IInv, TypeOK, SeqInv, PostedInv, IssueInv, WaitInv, SlotHeld, Engaged,
          NoLostWakeup, shared, locals, call, Goto
  <1>1. CASE InitMailbox
    BY <1>1 DEF InitMailbox
  <1>2. CASE \E c \in CoreIds, f \in Funcs \cup {NullFunc} : RejectCall(c, f)
    BY <1>2 DEF RejectCall
  <1>3. CASE \E c \in CoreIds, f \in Funcs \cup {NullFunc}, o \in {"async", "call"}, a \in Args :
               BeginCall(o, c, f, a)
    BY <1>3 DEF BeginCall
  <1>4. CASE \E c \in CoreIds : CheckDone(c)
    BY <1>4 DEF CheckDone
  <1>5. CASE \E c \in CoreIds : RejectWait(c)
    BY <1>5 DEF RejectWait
  <1>6. CASE \E c \in CoreIds, o \in {"wait", "wait_all"} : BeginWait(o, c)
    <2> SUFFICES ASSUME NEW c \in CoreIds, NEW o \in {"wait", "wait_all"}, BeginWait(o, c)
                 PROVE  IInv'
      BY <1>6
    <2>1. \A v \in Workers : ~(v < 1)
      BY DEF Workers
    <2>2. WaitInv'
      BY <2>1 DEF BeginWait
    <2>3. SeqInv' /\ PostedInv' /\ IssueInv' /\ SlotHeld' /\ NoLostWakeup'
      BY DEF BeginWait
    <2> QED
      BY <2>2, <2>3
  <1> QED
    BY <1>1, <1>2, <1>3, <1>4, <1>5, <1>6, ClientCases

\* Every step of the dispatcher preserves the inductive invariant.
LEMMA StepIInv == IInv /\ [Next]_vars => IInv'
  <1>1. IInv /\ UNCHANGED vars => IInv'
    BY DEF IInv, TypeOK, SeqInv, PostedInv, IssueInv, WaitInv, SlotHeld, Engaged, NoLostWakeup,
           vars, shared, locals, call
  <1> QED
    BY <1>1, ClientIInv, HostIInv, WorkerIInv DEF Next

\* The inductive invariant holds in every reachable state.
THEOREM Invariance == Spec => []IInv
  BY InitIInv, StepIInv, PTL DEF Spec

-----------------------------------------------------------------------------
(* What the invariant gives.                                               *)

\* The slots of a command belong to the worker until it acknowledges it.
THEOREM SlotsAreHeld == Spec => []SlotHeld
  BY Invariance, PTL DEF IInv

\* No core sleeps through the event it waits for.
THEOREM WakeupsAreKept == Spec => []NoLostWakeup
  BY Invariance, PTL DEF IInv

\* multicore_wait_all returns only when every worker is idle.
THEOREM WaitAllIsABarrier == Spec => WaitAllQuiesces
  <1>1. ASSUME IInv, [Next]_vars, op = "wait_all", pc[0] = "done?", pc'[0] = "idle"
        PROVE  \A w \in Workers : cmd_seq[w] = cmd_done[w] /\ ~Engaged(w)
    <2> USE CoreZero DEF IInv, TypeOK
    <2>a. ~Client
      BY <1>1 DEF Client, InitMailbox, RejectCall, BeginCall, CheckDone, RejectWait, BeginWait
    <2>b. ASSUME NEW w \in Workers PROVE ~WorkerStep(w)
      BY <1>1 DEF WorkerStep, LeavePen, StoreOnline, OnlineSev, Poll, PollWfe, LoadSeq,
           LoadFunc, LoadArg, FuncReturns, StoreDone, DoneSev, Goto, SevAt, WfeAt
    <2>c. HostStep
      BY <1>1, <2>a, <2>b DEF Next, vars
    <2>1. WaitLoop
      BY <1>1, <2>c DEF HostStep, InitSev, InitCheck, InitWfe, CheckOnline, CheckBusy,
           StoreFunc, StoreArg, StoreSeq, CallSev, ReadExpected, WaitWfe, SevAt, WfeAt
    <2>2. cmd_done[core_id] = cmd_seq[core_id] /\ ~(core_id + 1 < NumCores)
      BY <1>1, <2>1 DEF WaitLoop, WaitInv, Goto
    <2>3. \A w \in Workers : w < core_id \/ w = core_id
      BY <2>2, <1>1, MulticoreConstants DEF IInv, TypeOK, Workers
    <2>4. \A w \in Workers : cmd_seq[w] = cmd_done[w]
      BY <1>1, <2>2, <2>3 DEF IInv, WaitInv
    <2>5. \A w \in Workers : Engaged(w) => cmd_seq[w] # cmd_done[w]
      BY <1>1, SuccType DEF IInv, SlotHeld, TypeOK
    <2> QED
      BY <2>4, <2>5
  <1> QED
    BY <1>1, Invariance, PTL DEF WaitAllQuiesces, Spec

-----------------------------------------------------------------------------
(* The dispatcher implements TaskDispatch.                                 *)

\* The dispatcher starts where TaskDispatch starts.
LEMMA InitRefines == Init => TD!Init
  BY CoreZero DEF Init, TD!Init, Phase, Task, Outstanding, Requested, Awaited, Workers, Cores

\* What a step leaves alone in TaskDispatch's state.
LEMMA Untouched ==
  ASSUME UNCHANGED <<cmd_seq, cmd_done, w_func, w_arg>>,
         \A w \in Workers : /\ Outstanding(w) => UNCHANGED <<cmd_funcs[w], cmd_args[w]>>
                            /\ pc[w] \in {"run", "done"} \/ pc'[w] \in {"run", "done"} => UNCHANGED pc[w]
  PROVE  /\ UNCHANGED [w \in Workers |-> Phase(w)]
         /\ UNCHANGED [w \in Workers |-> Task(w)]
  BY DEF Phase, Task, Outstanding

\* A call made on core 0 is a request or a wait of TaskDispatch, or nothing.
LEMMA ClientRefines == IInv /\ Client => [TD!Next]_(TD!vars)
  <1> SUFFICES ASSUME IInv, Client PROVE [TD!Next]_(TD!vars)
    OBVIOUS
  <1>0. TypeOK
    BY DEF IInv
  <1> USE CoreZero, ValidIsWorker, <1>0, Untouched
      DEF TypeOK, Goto, TD!vars, shared, locals, call
  <1>1. CASE InitMailbox
    BY <1>1 DEF InitMailbox, Requested, Awaited
  <1>2. CASE \E c \in CoreIds, f \in Funcs \cup {NullFunc} : RejectCall(c, f)
    BY <1>2 DEF RejectCall, Requested, Awaited
  <1>3. ASSUME NEW c \in CoreIds, NEW f \in Funcs \cup {NullFunc},
               NEW o \in {"async", "call"}, NEW a \in Args, BeginCall(o, c, f, a)
        PROVE  TD!Next
    <2>1. c \in Workers /\ <<f, a>> \in Funcs \X Args
      BY <1>3 DEF BeginCall
    <2>2. TD!Ask(c, <<f, a>>)
      BY <1>3, <2>1 DEF BeginCall, TD!Ask, Requested, Awaited, NoReq
    <2> QED
      BY <2>1, <2>2 DEF TD!Next
  <1>4. CASE \E c \in CoreIds : CheckDone(c)
    BY <1>4 DEF CheckDone, Requested, Awaited
  <1>5. CASE \E c \in CoreIds : RejectWait(c)
    BY <1>5 DEF RejectWait, Requested, Awaited
  <1>6. CASE \E c \in CoreIds, o \in {"wait", "wait_all"} : BeginWait(o, c)
    <2> SUFFICES ASSUME NEW c \in CoreIds, NEW o \in {"wait", "wait_all"}, BeginWait(o, c)
                 PROVE  TD!Next
      BY <1>6
    <2>1. c \in Workers
      BY DEF BeginWait
    <2>2. TD!Await(c)
      BY <2>1 DEF BeginWait, TD!Await, Requested, Awaited, NoReq
    <2> QED
      BY <2>1, <2>2 DEF TD!Next
  <1> HIDE <1>0, CoreZero, ValidIsWorker, Untouched DEF TypeOK, TD!vars, shared, locals, call
  <1> QED
    BY <1>1, <1>2, <1>3, <1>4, <1>5, <1>6, ClientCases, Zenon

\* Core 0's steps refuse, post and end a wait exactly when TaskDispatch allows it:
\* the store to cmd_seq is the step at which the task is accepted.
LEMMA HostRefines == IInv /\ HostStep => [TD!Next]_(TD!vars)
  <1> SUFFICES ASSUME IInv, HostStep PROVE [TD!Next]_(TD!vars)
    OBVIOUS
  <1>0. TypeOK
    BY DEF IInv
  <1> DEFINE t == <<func, arg>>
  <1> USE CoreZero, <1>0, Untouched
      DEF TypeOK, Goto, Sev, SevAt, WfeAt, Return, TD!vars, shared, locals, call
  <1>1. CASE InitSev
    BY <1>1 DEF InitSev, Requested, Awaited
  <1>2. CASE InitCheck
    BY <1>2 DEF InitCheck, Requested, Awaited
  <1>3. CASE InitWfe
    BY <1>3 DEF InitWfe, Requested, Awaited
  <1>4. CASE CheckOnline
    <2>1. CASE core_online[core_id]
      BY <1>4, <2>1 DEF CheckOnline, Requested, Awaited
    <2>2. CASE ~core_online[core_id]
      <3>1. t \in Funcs \X Args
        BY <1>4 DEF CheckOnline, IInv, IssueInv
      <3>2. TD!Refuse(core_id, t)
        BY <1>4, <2>2 DEF CheckOnline, TD!Refuse, Requested, Awaited, NoReq
      <3> QED
        BY <3>1, <3>2 DEF TD!Next
    <2> QED
      BY <2>1, <2>2
  <1>5. CASE CheckBusy
    <2>1. CASE ~Outstanding(core_id)
      BY <1>5, <2>1 DEF CheckBusy, Requested, Awaited, Outstanding
    <2>2. CASE Outstanding(core_id)
      <3>1. t \in Funcs \X Args
        BY <1>5 DEF CheckBusy, IInv, IssueInv
      <3>2. Phase(core_id) # "idle"
        BY <2>2 DEF Phase
      <3>3. TD!Refuse(core_id, t)
        BY <1>5, <2>2, <3>2 DEF CheckBusy, TD!Refuse, Requested, Awaited, NoReq, Outstanding
      <3> QED
        BY <3>1, <3>3 DEF TD!Next
    <2> QED
      BY <2>1, <2>2
  <1>6. CASE StoreFunc
    BY <1>6 DEF StoreFunc, Requested, Awaited, IInv, IssueInv, Outstanding
  <1>7. CASE StoreArg
    BY <1>7 DEF StoreArg, Requested, Awaited, IInv, IssueInv, Outstanding
  <1>8. CASE StoreSeq
    <2>1. t \in Funcs \X Args
      BY <1>8 DEF StoreSeq, IInv, IssueInv
    <2>2. ~Outstanding(core_id) /\ pc[core_id] \notin {"run", "done"}
      BY <1>8, SuccType DEF StoreSeq, IInv, IssueInv, SlotHeld, Engaged, Outstanding
    <2>3. Outstanding(core_id)' /\ <<cmd_funcs, cmd_args>>' = <<cmd_funcs, cmd_args>>
          /\ cmd_funcs[core_id] = func /\ cmd_args[core_id] = arg
      BY <1>8, SuccType, <2>2 DEF StoreSeq, IInv, IssueInv, Outstanding
    <2>4. [w \in Workers |-> Phase(w)]' = [[w \in Workers |-> Phase(w)] EXCEPT ![core_id] = "posted"]
      BY <1>8, <2>2, <2>3 DEF StoreSeq, Phase, Outstanding
    <2>5. [w \in Workers |-> Task(w)]' = [[w \in Workers |-> Task(w)] EXCEPT ![core_id] = t]
      BY <1>8, <2>2, <2>3 DEF StoreSeq, Task, Outstanding
    <2>6. Phase(core_id) = "idle" /\ core_online[core_id]
      BY <1>8, <2>2 DEF StoreSeq, Phase, IInv, IssueInv
    <2>7. TD!Post(core_id, t)
      BY <1>8, <2>4, <2>5, <2>6 DEF StoreSeq, TD!Post, Requested, Awaited, NoReq
    <2> QED
      BY <2>1, <2>7 DEF TD!Next
  <1>9. CASE CallSev
    <2>1. UNCHANGED <<[w \in Workers |-> Phase(w)], [w \in Workers |-> Task(w)], Requested>>
      BY <1>9 DEF CallSev, Requested
    <2>2. TD!Await(Awaited')
      BY <1>9, <2>1 DEF CallSev, TD!Await, Requested, Awaited, NoReq
    <2>3. Awaited' \in Workers \cup {0}
      BY <1>9 DEF CallSev, Awaited
    <2> QED
      BY <2>2, <2>3 DEF TD!Next
  <1>10. CASE ReadExpected
    BY <1>10 DEF ReadExpected, Requested, Awaited
  <1>11. CASE WaitLoop
    <2>1. UNCHANGED <<[w \in Workers |-> Phase(w)], [w \in Workers |-> Task(w)], Requested>>
      BY <1>11 DEF WaitLoop, Requested
    <2>2. CASE cmd_done[core_id] # expected_seq
      BY <1>11, <2>1, <2>2 DEF WaitLoop, Awaited
    <2>3. CASE cmd_done[core_id] = expected_seq
      <3>1. ~Outstanding(core_id) /\ pc[core_id] \notin {"run", "done"}
        BY <1>11, <2>3, SuccType
           DEF WaitLoop, IInv, WaitInv, SlotHeld, Engaged, Outstanding
      <3>2. Phase(core_id) = "idle"
        BY <3>1 DEF Phase
      <3>3. TD!Await(Awaited')
        BY <1>11, <2>1, <3>2 DEF WaitLoop, TD!Await, Requested, Awaited, NoReq
      <3>4. Awaited' \in Workers \cup {0}
        <4>1. core_id + 1 < NumCores => core_id + 1 \in Workers
          BY MulticoreConstants DEF Workers
        <4>2. CASE op = "wait_all" /\ core_id + 1 < NumCores
          <5>1. core_id' = core_id + 1 /\ pc'[0] = "expect"
            BY <1>11, <2>3, <4>2 DEF WaitLoop
          <5> QED
            BY <4>1, <4>2, <5>1 DEF Awaited
        <4>3. CASE ~(op = "wait_all" /\ core_id + 1 < NumCores)
          BY <1>11, <2>3, <4>3 DEF WaitLoop, Awaited
        <4> QED
          BY <4>2, <4>3
      <3> QED
        BY <3>3, <3>4 DEF TD!Next
    <2> QED
      BY <2>2, <2>3
  <1>12. CASE WaitWfe
    BY <1>12 DEF WaitWfe, Requested, Awaited
  <1> QED
    BY <1>1, <1>2, <1>3, <1>4, <1>5, <1>6, <1>7, <1>8, <1>9, <1>10, <1>11, <1>12 DEF HostStep

\* A worker's steps start, finish and retire the one task it has.
LEMMA WorkerRefines == ASSUME NEW w \in Workers, IInv, WorkerStep(w) PROVE [TD!Next]_(TD!vars)
  <1>0. TypeOK
    BY DEF IInv
  <1>a. Requested' = Requested /\ Awaited' = Awaited
    BY <1>0, CoreZero
       DEF TypeOK, WorkerStep, LeavePen, StoreOnline, OnlineSev, Poll, PollWfe, LoadSeq, LoadFunc,
           LoadArg, FuncReturns, StoreDone, DoneSev, Goto, SevAt, WfeAt, call, Requested, Awaited
  <1> USE CoreZero, <1>0, <1>a, Untouched
      DEF TypeOK, Goto, Sev, SevAt, WfeAt, TD!vars, shared, locals, call
  <1>1. CASE LeavePen(w)
    BY <1>1 DEF LeavePen
  <1>2. CASE StoreOnline(w)
    <2>1. TD!ComeOnline(w)
      BY <1>2 DEF StoreOnline, TD!ComeOnline
    <2> QED
      BY <2>1 DEF TD!Next
  <1>3. CASE OnlineSev(w)
    BY <1>3 DEF OnlineSev
  <1>4. CASE Poll(w)
    BY <1>4 DEF Poll
  <1>5. CASE PollWfe(w)
    BY <1>5 DEF PollWfe
  <1>6. CASE LoadSeq(w)
    BY <1>6 DEF LoadSeq, Phase, Task, Outstanding
  <1>7. CASE LoadFunc(w)
    BY <1>7 DEF LoadFunc, Phase, Task, Outstanding
  <1>8. CASE LoadArg(w)
    <2>1. Outstanding(w) /\ w_func[w] = cmd_funcs[w] /\ w_func[w] \in Funcs
      BY <1>8, SuccType DEF LoadArg, IInv, SlotHeld, Engaged, PostedInv, Outstanding
    <2>2. pc' = [pc EXCEPT ![w] = "run"] /\ w_arg' = [w_arg EXCEPT ![w] = cmd_args[w]]
      BY <1>8, <2>1, MulticoreConstants DEF LoadArg
    <2>3. [v \in Workers |-> Phase(v)]' = [[v \in Workers |-> Phase(v)] EXCEPT ![w] = "running"]
      BY <1>8, <2>2 DEF LoadArg, Phase, Outstanding
    <2>4. [v \in Workers |-> Task(v)]' = [v \in Workers |-> Task(v)]
      BY <1>8, <2>1, <2>2 DEF LoadArg, Task, Outstanding
    <2>5. Phase(w) = "posted"
      BY <1>8, <2>1 DEF LoadArg, Phase
    <2>6. TD!Start(w)
      BY <1>8, <2>3, <2>4, <2>5 DEF LoadArg, TD!Start
    <2> QED
      BY <2>6 DEF TD!Next
  <1>9. CASE FuncReturns(w)
    <2>1. [v \in Workers |-> Phase(v)]' = [[v \in Workers |-> Phase(v)] EXCEPT ![w] = "ran"]
      BY <1>9 DEF FuncReturns, Phase, Outstanding
    <2>2. [v \in Workers |-> Task(v)]' = [v \in Workers |-> Task(v)]
      BY <1>9 DEF FuncReturns, Task, Outstanding
    <2>3. TD!Finish(w)
      BY <1>9, <2>1, <2>2 DEF FuncReturns, TD!Finish, Phase
    <2> QED
      BY <2>3 DEF TD!Next
  <1>10. CASE StoreDone(w)
    <2>1. ~Outstanding(w)'
      BY <1>10 DEF StoreDone, IInv, SlotHeld, Engaged, Outstanding
    <2>2. [v \in Workers |-> Phase(v)]' = [[v \in Workers |-> Phase(v)] EXCEPT ![w] = "idle"]
      BY <1>10, <2>1 DEF StoreDone, Phase, Outstanding
    <2>3. [v \in Workers |-> Task(v)]' = [[v \in Workers |-> Task(v)] EXCEPT ![w] = NoTask]
      BY <1>10, <2>1 DEF StoreDone, Task, Outstanding
    <2>4. TD!Retire(w)
      BY <1>10, <2>2, <2>3 DEF StoreDone, TD!Retire, Phase
    <2> QED
      BY <2>4 DEF TD!Next
  <1>11. CASE DoneSev(w)
    BY <1>11 DEF DoneSev
  <1> QED
    BY <1>1, <1>2, <1>3, <1>4, <1>5, <1>6, <1>7, <1>8, <1>9, <1>10, <1>11 DEF WorkerStep

\* Every behaviour of the dispatcher, its steps mapped as Phase, Task, Requested
\* and Awaited say, is one TaskDispatch allows.
THEOREM DispatcherImplements == Spec => ImplementsTaskDispatch
  <1>1. IInv /\ [Next]_vars => [TD!Next]_(TD!vars)
    <2>1. UNCHANGED vars => UNCHANGED TD!vars
      BY DEF vars, shared, locals, call, TD!vars, Phase, Task, Outstanding, Requested, Awaited
    <2> QED
      BY <2>1, ClientRefines, HostRefines, WorkerRefines DEF Next
  <1> QED
    BY <1>1, InitRefines, Invariance, PTL DEF Spec, ImplementsTaskDispatch, TD!Spec

-----------------------------------------------------------------------------
(* The program on the dispatcher.                                          *)

\* Integer division rounds down.
LEMMA Division ==
  ASSUME NEW m \in Nat, NEW k \in Nat, k > 0
  PROVE  m \div k \in Nat /\ (m \div k) * k <= m /\ m < (m \div k) * k + k
  OBVIOUS

\* The length of a share is rounded up, so the shares together are long enough.
LEMMA ChunkCovers ==
  ASSUME NEW n \in Nat
  PROVE  Chunk(n) \in Nat /\ NumCores * Chunk(n) >= n
  <1>1. NumCores \in Nat /\ NumCores > 1
    BY MulticoreConstants
  <1>2. n + NumCores - 1 \in Nat /\ NumCores > 0
    BY <1>1
  <1>3. /\ Chunk(n) \in Nat
        /\ n + NumCores - 1 < Chunk(n) * NumCores + NumCores
    BY <1>1, <1>2, Division DEF Chunk
  <1>4. NumCores * Chunk(n) = Chunk(n) * NumCores
    BY <1>1, <1>3
  <1> QED
    BY <1>1, <1>3, <1>4

\* Two shares never overlap, whatever the numbers of rows and cores.
THEOREM SharesAreDisjoint ==
  ASSUME NEW n \in Nat, NEW c \in Cores, NEW e \in Cores, c < e
  PROVE  Hi(c, n) <= Lo(e, n)
  <1>1. Chunk(n) \in Nat
    BY ChunkCovers
  <1>2. c \in Nat /\ e \in Nat /\ c + 1 <= e
    BY MulticoreConstants DEF Cores
  <1>3. (c + 1) * Chunk(n) <= e * Chunk(n)
    BY <1>1, <1>2
  <1>4. (c + 1) * Chunk(n) = c * Chunk(n) + Chunk(n)
    BY <1>1, <1>2
  <1>5. c * Chunk(n) \in Nat /\ e * Chunk(n) \in Nat
    BY <1>1, <1>2
  <1> QED
    BY <1>1, <1>3, <1>4, <1>5 DEF Hi, Lo, Smaller

\* Every row is in the share of some core.
THEOREM SharesCoverTheRows ==
  ASSUME NEW n \in Nat, NEW i \in 0 .. (n - 1)
  PROVE  \E c \in Cores : Lo(c, n) <= i /\ i < Hi(c, n)
  <1> DEFINE k == Chunk(n)
             c == i \div k
  <1>1. k \in Nat /\ NumCores * k >= n
    BY ChunkCovers
  <1>2. NumCores \in Nat /\ i \in Nat /\ i < n
    BY MulticoreConstants
  <1>3. k > 0
    BY <1>1, <1>2
  <1>4. c \in Nat /\ c * k <= i /\ i < c * k + k
    BY <1>1, <1>2, <1>3, Division
  <1> HIDE DEF k, c
  <1>6. c < NumCores
    <2>1. SUFFICES ASSUME c >= NumCores PROVE FALSE
      BY <1>2, <1>4
    <2>2. c * k >= NumCores * k
      BY <1>1, <1>2, <1>4, <2>1
    <2> QED
      BY <1>1, <1>2, <1>4, <2>2
  <1>7. c \in Cores
    BY <1>2, <1>4, <1>6 DEF Cores
  <1>8. Lo(c, n) <= i /\ i < Hi(c, n)
    BY <1>1, <1>2, <1>4 DEF Lo, Hi, Smaller, k
  <1> QED
    BY <1>7, <1>8

-----------------------------------------------------------------------------
(* The program uses the dispatcher.                                        *)

\* The types of the program's own variables, and the bound of its loop.
ProgramType ==
  /\ mpc \in {"boot", "vfp", "ready", "fill", "dispatch", "own", "wait", "returned"}
  /\ mc \in 0 .. NumCores
  /\ mpc = "fill" => mc < NumCores
  /\ d \in Nat
  /\ d \in Ds \cup {0}
  /\ stamp \in {0, 1}
  /\ matmul_args \in [Cores -> MatmulArgs]
  /\ row \in [Cores -> Nat \cup {NoRow}]
  /\ xout \in [RowIds -> {0, 1}]
  /\ hits \in [RowIds -> Nat]
  /\ vfp \in [Cores -> BOOLEAN]

\* A worker does one of its steps, or computes rows inside one.
LEMMA WorkerUsesDispatcher ==
  ASSUME NEW w \in Workers, Worker(w)
  PROVE  WorkerStep(w) \/ UNCHANGED vars
  BY DEF Worker, WorkerRows, WorkerEnableVfp, WorkerLoop, EnterRows, ComputeRow, WorkerStep

\* The program on core 0 is one of the dispatcher's clients.
LEMMA CoreUsesDispatcher ==
  ASSUME ProgramType, Core0
  PROVE  Client \/ HostStep \/ UNCHANGED vars
  <1>1. ASSUME NEW o \in {"async", "call"}, NEW f \in Funcs, NEW a \in Args, BeginCall(o, mc, f, a)
        PROVE  Client
    <2>1. mc \in CoreIds
      BY DEF ProgramType, CoreIds
    <2> QED
      BY <1>1, <2>1 DEF Client
  <1>2. CASE BootInit
    BY <1>2 DEF BootInit, Client
  <1>3. CASE CallEnableVfp
    BY <1>1, <1>3, MatmulConstants, MulticoreConstants DEF CallEnableVfp
  <1>4. CASE \E n \in Ds : BeginMatmul(n)
    BY <1>4 DEF BeginMatmul
  <1>5. CASE FillArgs
    BY <1>5 DEF FillArgs
  <1>6. CASE Dispatch
    <2>1. BeginCall("async", mc, MatmulWorker, mc)
      BY <1>6 DEF Dispatch
    <2>2. mc \in Args /\ MatmulWorker \in Funcs
      BY <2>1, MatmulConstants, MulticoreConstants DEF BeginCall, IsCoreIdValid, Cores, ProgramType
    <2> QED
      BY <1>1, <2>1, <2>2
  <1>7. CASE OwnRows
    BY <1>7 DEF OwnRows, EnterRows, ComputeRow
  <1>8. CASE AwaitWorkers
    <2>1. BeginWait("wait_all", 1)
      BY <1>8 DEF AwaitWorkers
    <2>2. 1 \in CoreIds
      BY MulticoreConstants DEF CoreIds
    <2> QED
      BY <2>1, <2>2 DEF Client
  <1> QED
    BY <1>2, <1>3, <1>4, <1>5, <1>6, <1>7, <1>8 DEF Core0

\* Every step is a step of the dispatcher, or leaves it as it is.
LEMMA StepUsesDispatcher ==
  ProgramType /\ [MatmulNext]_all_vars => [Next]_vars
  BY CoreUsesDispatcher, WorkerUsesDispatcher DEF MatmulNext, Next, all_vars

\* The share of a core is a range of row numbers.
LEMMA SharesAreNumbers ==
  ASSUME NEW n \in Nat, NEW c \in Nat
  PROVE  Lo(c, n) \in Nat /\ Hi(c, n) \in Nat
  <1>1. Chunk(n) \in Nat
    BY ChunkCovers
  <1>2. c * Chunk(n) \in Nat
    BY <1>1
  <1> QED
    BY <1>1, <1>2 DEF Lo, Hi, Smaller

\* A turn of matmul_worker's loop keeps the types of what it writes.
LEMMA RowsType ==
  ASSUME NEW c \in Cores, NEW a \in Cores, ProgramType,
         EnterRows(c, a) \/ ComputeRow(c, a) \/ LeaveRows(c, a)
  PROVE  /\ row' \in [Cores -> Nat \cup {NoRow}]
         /\ xout' \in [RowIds -> {0, 1}]
         /\ hits' \in [RowIds -> Nat]
         /\ vfp' = vfp /\ matmul_args' = matmul_args
  <1> USE DEF ProgramType, MatmulArgs, NoRow
  <1>1. CASE EnterRows(c, a)
    BY <1>1 DEF EnterRows
  <1>2. CASE ComputeRow(c, a)
    <2>1. row[c] \in Nat /\ matmul_args[a].stamp \in {0, 1}
      BY <1>2 DEF ComputeRow
    <2>2. row' \in [Cores -> Nat \cup {NoRow}]
      BY <1>2, <2>1 DEF ComputeRow
    <2>3. xout' \in [RowIds -> {0, 1}]
      BY <1>2, <2>1 DEF ComputeRow
    <2>4. hits' \in [RowIds -> Nat]
      <3>1. hits' = [i \in RowIds |-> IF i = row[c] THEN hits[i] + 1 ELSE hits[i]]
        BY <1>2 DEF ComputeRow
      <3>2. \A i \in RowIds : hits[i] \in Nat /\ hits[i] + 1 \in Nat
        OBVIOUS
      <3> QED
        BY <3>1, <3>2
    <2> QED
      BY <1>2, <2>2, <2>3, <2>4 DEF ComputeRow
  <1>3. CASE LeaveRows(c, a)
    BY <1>3 DEF LeaveRows
  <1> QED
    BY <1>1, <1>2, <1>3

\* The program's variables keep their types.
LEMMA ProgramTypeStep ==
  TypeOK /\ ProgramType /\ [MatmulNext]_all_vars => ProgramType'
  <1> SUFFICES ASSUME TypeOK, ProgramType, [MatmulNext]_all_vars PROVE ProgramType'
    OBVIOUS
  <1> USE MulticoreConstants DEF progress, rows
  <1>1. CASE UNCHANGED matmul_vars
    BY <1>1 DEF matmul_vars, ProgramType
  <1>2. CASE BootInit
    BY <1>2 DEF BootInit, ProgramType
  <1>3. CASE CallEnableVfp
    BY <1>3 DEF CallEnableVfp, BeginCall, IsCoreIdValid, ProgramType
  <1>4. CASE \E n \in Ds : BeginMatmul(n)
    BY <1>4, MatmulConstants DEF BeginMatmul, ProgramType
  <1>5. CASE FillArgs
    <2>0. mc \in Nat /\ d \in Nat
      BY DEF ProgramType
    <2>1. Lo(mc, d) \in Nat /\ Hi(mc, d) \in Nat
      BY <2>0, SharesAreNumbers
    <2>2. matmul_args' \in [Cores -> MatmulArgs]
      BY <1>5, <2>1 DEF FillArgs, ProgramType, MatmulArgs
    <2> QED
      BY <1>5, <2>2 DEF FillArgs, ProgramType
  <1>6. CASE Dispatch
    BY <1>6 DEF Dispatch, BeginCall, IsCoreIdValid, ProgramType
  <1>7. CASE OwnRows
    <2>1. 0 \in Cores
      BY CoreZero
    <2> QED
      BY <1>7, <2>1, RowsType DEF OwnRows, EnterRows, ComputeRow, LeaveRows, ProgramType
  <1>8. CASE AwaitWorkers
    BY <1>8 DEF AwaitWorkers, ProgramType
  <1>9. ASSUME NEW w \in Workers, WorkerRows(w) PROVE ProgramType'
    <2>1. w \in Cores /\ w_arg[w] \in Cores
      BY CoreZero, MatmulConstants DEF TypeOK
    <2> QED
      BY <1>9, <2>1, RowsType DEF WorkerRows, EnterRows, ComputeRow, LeaveRows, ProgramType
  <1>10. ASSUME NEW w \in Workers, WorkerEnableVfp(w) PROVE ProgramType'
    BY <1>10 DEF WorkerEnableVfp, ProgramType
  <1> QED
    BY <1>1, <1>2, <1>3, <1>4, <1>5, <1>6, <1>7, <1>8, <1>9, <1>10
       DEF MatmulNext, Core0, Worker, WorkerLoop, all_vars

-----------------------------------------------------------------------------
(* How far the program is, and what that says of the dispatcher.           *)

BringUp == {"boot", "vfp", "ready"}
Initialising == {"init_sev", "init_check", "init_wfe"}
Issuing == {"online?", "busy?", "func", "arg", "seq"}
Waiting == {"expect", "done?", "wait_wfe"}

\* The call of the bring-up for w is still on its way to w.
Coming(w) == core_id = w /\ pc[0] \in Issuing

\* What core 0 is doing in each phase of the program, and that no worker has a
\* command when matmul begins or has returned.
PhaseInv ==
  /\ mpc \in {"boot", "fill"} => pc[0] = "idle"
  /\ pc[0] \in Initialising => mpc = "vfp"
  /\ mpc \in BringUp /\ pc[0] \in Issuing \cup {"call_sev"} \cup Waiting => op = "call"
  /\ mpc = "returned" => pc[0] = "idle" \/ (pc[0] \in Waiting /\ op = "wait_all")
  /\ mpc \in BringUp \cup {"fill"} =>
       \A w \in Workers : Outstanding(w) => core_id = w /\ pc[0] \in {"call_sev"} \cup Waiting
  /\ mpc = "returned" /\ pc[0] = "idle" => \A w \in Workers : ~Outstanding(w)

\* Floating point is enabled on every worker the bring-up has passed, unless
\* the call is still being made or the worker has not finished it.
VfpInv ==
  /\ vfp[0]
  /\ mpc # "boot" /\ pc[0] \notin Initialising => \A w \in Workers : core_online[w]
  /\ mpc \in BringUp =>
       /\ pc[0] \in Issuing => func = EnableVfp
       /\ \A w \in Workers : Outstanding(w) => cmd_funcs[w] = EnableVfp
  /\ mpc # "boot" =>
       \A w \in Workers : \/ mpc = "vfp" /\ mc <= w
                          \/ vfp[w]
                          \/ mpc \in BringUp /\ (Coming(w) \/ (Outstanding(w) /\ pc[w] # "done"))

\* A worker is in the loop of matmul_worker only while it runs matmul_worker.
RowInv == \A w \in Workers : row[w] # NoRow => pc[w] = "run" /\ w_func[w] = MatmulWorker

MInv == IInv /\ ProgramType /\ PhaseInv /\ VfpInv /\ RowInv

\* Before the program starts there is neither a command nor an online worker.
LEMMA InitMInv == MatmulInit => MInv
  <1> SUFFICES ASSUME MatmulInit PROVE MInv
    OBVIOUS
  <1>1. IInv
    BY InitIInv DEF MatmulInit
  <1>2. ProgramType
    BY MulticoreConstants, CoreZero DEF MatmulInit, ProgramType, MatmulArgs, NoRow
  <1>3. PhaseInv /\ VfpInv /\ RowInv
    BY CoreZero DEF MatmulInit, Init, PhaseInv, VfpInv, RowInv, Outstanding, Initialising,
         Issuing, Waiting
  <1> QED
    BY <1>1, <1>2, <1>3 DEF MInv

\* The steps inside a call on core 0: a call of the bring-up finds its worker
\* online and idle, so that it is neither refused nor left half done.
LEMMA CallKeeps ==
  ASSUME MInv, TypeOK', HostStep, UNCHANGED matmul_vars
  PROVE  PhaseInv' /\ VfpInv' /\ RowInv'
  <1> USE CoreZero, SuccType
      DEF MInv, IInv, TypeOK, ProgramType, SeqInv, IssueInv, WaitInv, SlotHeld, Engaged, Outstanding,
          PhaseInv, VfpInv, RowInv, Coming, BringUp, Initialising, Issuing, Waiting,
          shared, locals, call, progress, rows, matmul_vars,
          Goto, Sev, SevAt, WfeAt, Return
  <1>1. CASE InitSev
    BY <1>1 DEF InitSev
  <1>2. CASE InitCheck
    BY <1>2 DEF InitCheck
  <1>3. CASE InitWfe
    BY <1>3 DEF InitWfe
  <1>4. CASE CheckOnline
    BY <1>4 DEF CheckOnline
  <1>5. CASE CheckBusy
    BY <1>5 DEF CheckBusy
  <1>6. CASE StoreFunc
    BY <1>6 DEF StoreFunc
  <1>7. CASE StoreArg
    BY <1>7 DEF StoreArg
  <1>8. CASE StoreSeq
    BY <1>8 DEF StoreSeq
  <1>9. CASE CallSev
    BY <1>9 DEF CallSev
  <1>10. CASE ReadExpected
    BY <1>10 DEF ReadExpected
  <1>11. CASE WaitLoop
    <2>1. \A w \in Workers : w < core_id \/ w = core_id \/ core_id + 1 <= w
      BY MulticoreConstants DEF Workers
    <2>2. \A w \in Workers : ~(core_id + 1 < NumCores) => ~(core_id + 1 <= w)
      BY MulticoreConstants DEF Workers
    <2> QED
      BY <1>11, <2>1, <2>2 DEF WaitLoop
  <1>12. CASE WaitWfe
    BY <1>12 DEF WaitWfe
  <1> QED
    BY <1>1, <1>2, <1>3, <1>4, <1>5, <1>6, <1>7, <1>8, <1>9, <1>10, <1>11, <1>12 DEF HostStep

\* The steps of a worker outside the function it runs: only commands of the
\* bring-up can be there while it lasts, and none of them is null.
LEMMA LoopKeeps ==
  ASSUME NEW w \in Workers, MInv, TypeOK', WorkerLoop(w)
  PROVE  PhaseInv' /\ VfpInv' /\ RowInv'
  <1> USE CoreZero, SuccType, MulticoreConstants, MatmulConstants
      DEF MInv, IInv, TypeOK, ProgramType, SeqInv, PostedInv, SlotHeld, Engaged, Outstanding,
          PhaseInv, VfpInv, RowInv, Coming, BringUp, Initialising, Issuing, Waiting,
          shared, locals, call, progress, rows, matmul_vars,
          Goto, Sev, SevAt, WfeAt
  <1>0. pc[w] # "run" /\ UNCHANGED matmul_vars
    BY DEF WorkerLoop
  <1>1. CASE LeavePen(w)
    BY <1>0, <1>1 DEF LeavePen
  <1>2. CASE StoreOnline(w)
    BY <1>0, <1>2 DEF StoreOnline
  <1>3. CASE OnlineSev(w)
    BY <1>0, <1>3 DEF OnlineSev
  <1>4. CASE Poll(w)
    BY <1>0, <1>4 DEF Poll
  <1>5. CASE PollWfe(w)
    BY <1>0, <1>5 DEF PollWfe
  <1>6. CASE LoadSeq(w)
    BY <1>0, <1>6 DEF LoadSeq
  <1>7. CASE LoadFunc(w)
    BY <1>0, <1>7 DEF LoadFunc
  <1>8. CASE LoadArg(w)
    BY <1>0, <1>8 DEF LoadArg
  <1>9. CASE FuncReturns(w)
    BY <1>0, <1>9 DEF FuncReturns
  <1>10. CASE StoreDone(w)
    BY <1>0, <1>10 DEF StoreDone
  <1>11. CASE DoneSev(w)
    BY <1>0, <1>11 DEF DoneSev
  <1> QED
    BY <1>1, <1>2, <1>3, <1>4, <1>5, <1>6, <1>7, <1>8, <1>9, <1>10, <1>11 DEF WorkerLoop, WorkerStep

\* The functions a worker runs: matmul_worker is none of the bring-up's, and
\* worker_enable_vfp enables floating point before it returns.
LEMMA FunctionKeeps ==
  ASSUME NEW w \in Workers, MInv, TypeOK', WorkerRows(w) \/ WorkerEnableVfp(w)
  PROVE  PhaseInv' /\ VfpInv' /\ RowInv'
  <1> USE CoreZero, SuccType, MulticoreConstants, MatmulConstants
      DEF MInv, IInv, TypeOK, ProgramType, SeqInv, SlotHeld, Engaged, Outstanding,
          PhaseInv, VfpInv, RowInv, Coming, BringUp, Initialising, Issuing, Waiting,
          vars, shared, locals, call, progress, rows, Goto, FuncReturns
  <1>1. ASSUME WorkerRows(w), EnterRows(w, w_arg[w]) PROVE PhaseInv' /\ VfpInv' /\ RowInv'
    BY <1>1 DEF WorkerRows, EnterRows
  <1>2. ASSUME WorkerRows(w), ComputeRow(w, w_arg[w]) PROVE PhaseInv' /\ VfpInv' /\ RowInv'
    BY <1>2 DEF WorkerRows, ComputeRow
  <1>3. ASSUME WorkerRows(w), LeaveRows(w, w_arg[w]), FuncReturns(w), UNCHANGED progress
        PROVE  PhaseInv' /\ VfpInv' /\ RowInv'
    BY <1>3 DEF WorkerRows, LeaveRows
  <1>4. CASE WorkerEnableVfp(w)
    BY <1>4 DEF WorkerEnableVfp
  <1> QED
    BY <1>1, <1>2, <1>3, <1>4 DEF WorkerRows

\* The program's own steps on core 0.
LEMMA ProgramKeeps ==
  ASSUME MInv, TypeOK', Core0, ~(HostStep /\ UNCHANGED matmul_vars)
  PROVE  PhaseInv' /\ VfpInv' /\ RowInv'
  <1> USE CoreZero, MulticoreConstants, MatmulConstants
      DEF MInv, IInv, TypeOK, ProgramType, Outstanding,
          PhaseInv, VfpInv, RowInv, Coming, BringUp, Initialising, Issuing, Waiting,
          vars, shared, locals, call, progress, rows, Goto
  <1>1. CASE BootInit
    BY <1>1 DEF BootInit, InitMailbox, Workers
  <1>2. CASE CallEnableVfp
    BY <1>2 DEF CallEnableVfp, BeginCall, IsCoreIdValid, Workers
  <1>3. CASE \E n \in Ds : BeginMatmul(n)
    BY <1>3 DEF BeginMatmul
  <1>4. CASE FillArgs
    BY <1>4 DEF FillArgs
  <1>5. CASE Dispatch
    BY <1>5 DEF Dispatch, BeginCall
  <1>6. CASE OwnRows
    BY <1>6 DEF OwnRows, EnterRows, ComputeRow, LeaveRows
  <1>7. CASE AwaitWorkers
    BY <1>7 DEF AwaitWorkers, BeginWait
  <1> QED
    BY <1>1, <1>2, <1>3, <1>4, <1>5, <1>6, <1>7 DEF Core0

\* Every step of the program preserves its invariant.
LEMMA StepMInv == MInv /\ [MatmulNext]_all_vars => MInv'
  <1> SUFFICES ASSUME MInv, [MatmulNext]_all_vars PROVE MInv'
    OBVIOUS
  <1>1. IInv' /\ TypeOK'
    BY StepUsesDispatcher, StepIInv DEF MInv, IInv
  <1>2. ProgramType'
    BY ProgramTypeStep DEF MInv, IInv
  <1>3. PhaseInv' /\ VfpInv' /\ RowInv'
    <2>1. CASE UNCHANGED all_vars
      BY <2>1 DEF all_vars, vars, matmul_vars, shared, locals, call, progress, rows, MInv,
           PhaseInv, VfpInv, RowInv, Coming, Outstanding
    <2>2. CASE Core0
      BY <1>1, <2>2, CallKeeps, ProgramKeeps
    <2>3. ASSUME NEW w \in Workers, Worker(w) PROVE PhaseInv' /\ VfpInv' /\ RowInv'
      BY <1>1, <2>3, LoopKeeps, FunctionKeeps DEF Worker
    <2> QED
      BY <2>1, <2>2, <2>3 DEF MatmulNext
  <1> QED
    BY <1>1, <1>2, <1>3 DEF MInv

\* The inductive invariant holds in every reachable state.
THEOREM MatmulInvariance == MatmulSpec => []MInv
  BY InitMInv, StepMInv, PTL DEF MatmulSpec

\* run.c uses the dispatcher as one of its clients: what Multicore's
\* specification says holds for it.
THEOREM MatmulUsesDispatcher == MatmulSpec => Spec
  <1>1. MInv /\ [MatmulNext]_all_vars => [Next]_vars
    BY StepUsesDispatcher DEF MInv
  <1>2. MatmulInit => Init
    BY DEF MatmulInit
  <1> QED
    BY <1>1, <1>2, MatmulInvariance, PTL DEF MatmulSpec, Spec

\* No core reaches the vector instructions of matmul_worker before floating
\* point was enabled on it.
THEOREM VfpIsEnabled == MatmulSpec => []VfpBeforeRows
  <1>1. MInv => VfpBeforeRows
    <2> SUFFICES ASSUME MInv, NEW c \in Cores, row[c] # NoRow PROVE vfp[c]
      BY DEF VfpBeforeRows
    <2>1. CASE c = 0
      BY <2>1 DEF MInv, VfpInv
    <2>2. CASE c # 0
      <3>1. c \in Workers
        BY <2>2, MulticoreConstants DEF Cores, Workers
      <3> QED
        BY <3>1, CoreZero, SuccType, MatmulConstants
           DEF MInv, IInv, TypeOK, RowInv, VfpInv, PhaseInv, SeqInv, SlotHeld, Engaged, Outstanding,
               Coming, BringUp, Issuing, Waiting
    <2> QED
      BY <2>1, <2>2
  <1> QED
    BY <1>1, MatmulInvariance, PTL

\* matmul writes an argument record only while its worker has no command, hence
\* never under the hands of matmul_worker.
THEOREM ArgsAreKept == MatmulSpec => ArgsNotOverwritten
  <1>1. MInv /\ [MatmulNext]_all_vars =>
          [\A w \in Workers : matmul_args'[w] # matmul_args[w] => ~Outstanding(w)]_all_vars
    <2> SUFFICES ASSUME MInv, MatmulNext, NEW w \in Workers, matmul_args'[w] # matmul_args[w]
                 PROVE  ~Outstanding(w)
      OBVIOUS
    <2>1. FillArgs
      BY DEF MatmulNext, Core0, Worker, WorkerRows, WorkerEnableVfp, WorkerLoop, BootInit, CallEnableVfp,
             BeginMatmul, Dispatch, OwnRows, AwaitWorkers, EnterRows, ComputeRow, LeaveRows, matmul_vars
    <2> QED
      BY <2>1 DEF FillArgs, MInv, PhaseInv, BringUp, Waiting
  <1> QED
    BY <1>1, MatmulInvariance, PTL DEF MatmulSpec, ArgsNotOverwritten

\* The variables of the program keep their types.
THEOREM MatmulTypeCorrect == MatmulSpec => []MatmulTypeOK
  <1>1. MInv => MatmulTypeOK
    BY DEF MInv, IInv, ProgramType, MatmulTypeOK
  <1> QED
    BY <1>1, MatmulInvariance, PTL

-----------------------------------------------------------------------------
(* Every row is computed once.                                             *)

Working == {"fill", "dispatch", "own", "wait", "returned"}
Record(c) == [stamp |-> stamp, d_start |-> Lo(c, d), d_end |-> Hi(c, d)]
Share(c) == {i \in RowIds : Lo(c, d) <= i /\ i < Hi(c, d)}

\* The dispatch of the shares: every command is for a worker that has none, with
\* the worker's own record, and the records are those of the current call.
DispatchInv ==
  /\ mpc \in {"dispatch", "own"} => pc[0] \in {"idle", "call_sev"} \cup Issuing
  /\ mpc = "dispatch" => mc \in Workers
  /\ mpc = "wait" => pc[0] = "idle"
  /\ mpc \in Working /\ pc[0] \in {"call_sev"} \cup Issuing =>
       op = "async" /\ (mpc = "dispatch" => core_id < mc)
  /\ mpc \in Working /\ pc[0] \in Issuing => func = MatmulWorker /\ arg = core_id
  /\ mpc \in Working =>
       \A w \in Workers :
         /\ Coming(w) => ~Outstanding(w)
         /\ Outstanding(w) => /\ cmd_funcs[w] = MatmulWorker /\ cmd_args[w] = w
                              /\ mpc = "dispatch" => w < mc
  /\ mpc \in Working \ {"fill"} => \A c \in Cores : matmul_args[c] = Record(c)
  /\ mpc = "fill" => \A c \in Cores : c < mc => matmul_args[c] = Record(c)

\* Core c has not begun its share of the current call.
Fresh(c) ==
  \/ mpc = "fill"
  \/ c = 0 /\ (mpc = "dispatch" \/ (mpc = "own" /\ row[0] = NoRow))
  \/ c # 0 /\ (\/ mpc = "dispatch" /\ mc <= c
               \/ Coming(c)
               \/ Outstanding(c) /\ pc[c] # "done" /\ row[c] = NoRow)

\* A core that is inside the loop is inside its share.
LoopInv ==
  /\ row[0] # NoRow => mpc = "own"
  /\ mpc \in Working => \A c \in Cores : row[c] # NoRow => Lo(c, d) <= row[c] /\ row[c] <= Hi(c, d)

\* How often each row has been computed follows from where the core is that it
\* belongs to.
Computed(c, i) ==
  hits[i] = IF Fresh(c) \/ (row[c] # NoRow /\ row[c] <= i) THEN 0 ELSE 1

ComputedInv ==
  mpc \in Working =>
    /\ \A c \in Cores : \A i \in Share(c) : Computed(c, i)
    /\ \A i \in RowIds : i >= d => hits[i] = 0
    /\ \A i \in RowIds : hits[i] # 0 => xout[i] = stamp

\* The steps inside a call on core 0: the calls of the dispatch are accepted.
LEMMA CallDispatch ==
  ASSUME MInv, DispatchInv, TypeOK', HostStep, UNCHANGED matmul_vars
  PROVE  DispatchInv'
  <1> USE CoreZero, SuccType
      DEF MInv, IInv, TypeOK, ProgramType, SeqInv, IssueInv, SlotHeld, Engaged, Outstanding,
          PhaseInv, VfpInv, DispatchInv, Coming, BringUp, Initialising, Issuing, Waiting,
          Working, Record,
          shared, locals, call, progress, rows, matmul_vars,
          Goto, Sev, SevAt, WfeAt, Return
  <1>1. CASE InitSev
    BY <1>1 DEF InitSev
  <1>2. CASE InitCheck
    BY <1>2 DEF InitCheck
  <1>3. CASE InitWfe
    BY <1>3 DEF InitWfe
  <1>4. CASE CheckOnline
    BY <1>4 DEF CheckOnline
  <1>5. CASE CheckBusy
    BY <1>5 DEF CheckBusy
  <1>6. CASE StoreFunc
    BY <1>6 DEF StoreFunc
  <1>7. CASE StoreArg
    BY <1>7 DEF StoreArg
  <1>8. CASE StoreSeq
    BY <1>8 DEF StoreSeq
  <1>9. CASE CallSev
    BY <1>9 DEF CallSev
  <1>10. CASE ReadExpected
    BY <1>10 DEF ReadExpected
  <1>11. CASE WaitLoop
    BY <1>11 DEF WaitLoop
  <1>12. CASE WaitWfe
    BY <1>12 DEF WaitWfe
  <1> QED
    BY <1>1, <1>2, <1>3, <1>4, <1>5, <1>6, <1>7, <1>8, <1>9, <1>10, <1>11, <1>12 DEF HostStep

\* The workers' steps issue no command.
LEMMA WorkerDispatch ==
  ASSUME NEW w \in Workers, MInv, DispatchInv, TypeOK', Worker(w)
  PROVE  DispatchInv'
  <1>1. UNCHANGED <<progress, matmul_args, call, cmd_funcs, cmd_args, cmd_seq>> /\ pc'[0] = pc[0]
    BY CoreZero DEF Worker, WorkerRows, WorkerEnableVfp, WorkerLoop, EnterRows, ComputeRow, LeaveRows,
         WorkerStep, LeavePen, StoreOnline, OnlineSev, Poll, PollWfe, LoadSeq, LoadFunc, LoadArg,
         FuncReturns, StoreDone, DoneSev, SevAt, WfeAt, Goto, MInv, IInv, TypeOK,
         vars, shared, matmul_vars
  <1>2. \A v \in Workers : Outstanding(v)' => Outstanding(v)
    <2>1. CASE StoreDone(w)
      BY <1>1, <2>1 DEF StoreDone, MInv, IInv, TypeOK, SlotHeld, Engaged, Outstanding
    <2>2. CASE ~StoreDone(w)
      BY <2>2 DEF Outstanding, Worker, WorkerRows, WorkerEnableVfp, WorkerLoop, EnterRows,
         ComputeRow, LeaveRows, WorkerStep, LeavePen, StoreOnline, OnlineSev, Poll, PollWfe, LoadSeq,
         LoadFunc, LoadArg, FuncReturns, DoneSev, SevAt, WfeAt, vars, shared, matmul_vars
    <2> QED
      BY <2>1, <2>2
  <1> QED
    BY <1>1, <1>2 DEF DispatchInv, Coming, Record, progress, call, Working, Issuing

\* The program's own steps.
LEMMA ProgramDispatch ==
  ASSUME MInv, DispatchInv, TypeOK', Core0, ~(HostStep /\ UNCHANGED matmul_vars)
  PROVE  DispatchInv'
  <1> USE CoreZero, MulticoreConstants, MatmulConstants
      DEF MInv, IInv, TypeOK, ProgramType, Outstanding, PhaseInv, DispatchInv,
          Coming, BringUp, Initialising, Issuing, Waiting, Working, Record,
          vars, shared, locals, call, progress, rows, Goto
  <1>1. CASE BootInit
    BY <1>1 DEF BootInit, InitMailbox
  <1>2. CASE CallEnableVfp
    BY <1>2 DEF CallEnableVfp, BeginCall
  <1>3. CASE \E n \in Ds : BeginMatmul(n)
    BY <1>3 DEF BeginMatmul, Cores
  <1>4. CASE FillArgs
    <2>1. matmul_args'[mc] = Record(mc) /\ mc \in Cores
      BY <1>4 DEF FillArgs, Cores
    <2>2. \A c \in Cores : c # mc => matmul_args'[c] = matmul_args[c]
      BY <1>4 DEF FillArgs
    <2>3. \A c \in Cores : c < mc + 1 => c < mc \/ c = mc
      BY <1>4 DEF Cores
    <2>4. \A c \in Cores : c < mc + 1 => matmul_args'[c] = Record(c)
      BY <1>4, <2>1, <2>2, <2>3 DEF FillArgs
    <2>5. mc = NumCores - 1 => \A c \in Cores : c < mc + 1
      BY DEF Cores
    <2>6. \A c \in Cores : Record(c)' = Record(c)
      BY <1>4 DEF FillArgs
    <2> HIDE DEF Record
    <2> QED
      BY <1>4, <2>4, <2>5, <2>6 DEF FillArgs
  <1>5. CASE Dispatch
    <2>1. IsCoreIdValid(mc) /\ mc + 1 > mc
      BY <1>5 DEF Dispatch, BeginCall
    <2>2. mc # NumCores - 1 => mc + 1 \in Workers
      BY <2>1 DEF Workers, IsCoreIdValid
    <2> QED
      BY <1>5, <2>1, <2>2 DEF Dispatch, BeginCall, Workers
  <1>6. CASE OwnRows
    BY <1>6 DEF OwnRows, EnterRows, ComputeRow, LeaveRows
  <1>7. CASE AwaitWorkers
    BY <1>7 DEF AwaitWorkers, BeginWait
  <1> QED
    BY <1>1, <1>2, <1>3, <1>4, <1>5, <1>6, <1>7 DEF Core0

\* Every step of the program preserves DispatchInv.
LEMMA StepDispatch == MInv /\ DispatchInv /\ [MatmulNext]_all_vars => DispatchInv'
  <1> SUFFICES ASSUME MInv, DispatchInv, [MatmulNext]_all_vars PROVE DispatchInv'
    OBVIOUS
  <1>1. TypeOK'
    BY StepUsesDispatcher, StepIInv DEF MInv, IInv
  <1>2. CASE UNCHANGED all_vars
    BY <1>2 DEF all_vars, vars, matmul_vars, shared, locals, call, progress, rows,
         DispatchInv, Coming, Outstanding, Record
  <1>3. CASE Core0
    BY <1>1, <1>3, CallDispatch, ProgramDispatch
  <1>4. ASSUME NEW w \in Workers, Worker(w) PROVE DispatchInv'
    BY <1>1, <1>4, WorkerDispatch
  <1> QED
    BY <1>2, <1>3, <1>4 DEF MatmulNext

RowsInv == MInv /\ DispatchInv /\ LoopInv /\ ComputedInv

\* The shares as sets of rows: disjoint, and rows of the current call.
LEMMA SharesApart ==
  ASSUME ProgramType, NEW c \in Cores, NEW e \in Cores, c # e, NEW i \in Share(c)
  PROVE  i \notin Share(e) /\ i < d
  <1>1. c \in Nat /\ e \in Nat /\ d \in Nat /\ i \in RowIds
    BY MulticoreConstants DEF Cores, ProgramType, Share
  <1>2. i \in Int
    BY <1>1, MatmulConstants DEF RowIds
  <1>3. /\ Lo(c, d) \in Nat /\ Hi(c, d) \in Nat /\ Lo(e, d) \in Nat /\ Hi(e, d) \in Nat
    BY <1>1, SharesAreNumbers
  <1>4. Hi(c, d) <= d
    <2>1. c * Chunk(d) \in Nat /\ Chunk(d) \in Nat
      BY <1>1, ChunkCovers
    <2> QED
      BY <1>1, <2>1 DEF Hi, Smaller
  <1>5. Hi(c, d) <= Lo(e, d) \/ Hi(e, d) <= Lo(c, d)
    BY <1>1, SharesAreDisjoint
  <1> QED
    BY <1>1, <1>2, <1>3, <1>4, <1>5 DEF Share

\* Between calls, and while floating point is being enabled, nobody computes.
LEMMA NobodyComputes ==
  ASSUME RowsInv, \A w \in Workers : ~Outstanding(w), mpc # "own"
  PROVE  \A c \in Cores : row[c] = NoRow
  <1> SUFFICES ASSUME NEW c \in Cores, row[c] # NoRow PROVE FALSE
    OBVIOUS
  <1>1. CASE c = 0
    BY <1>1 DEF RowsInv, LoopInv
  <1>2. CASE c # 0
    <2>1. c \in Workers
      BY <1>2, MulticoreConstants DEF Cores, Workers
    <2> QED
      BY <2>1, SuccType DEF RowsInv, MInv, IInv, TypeOK, RowInv, SlotHeld, Engaged, Outstanding
  <1> QED
    BY <1>1, <1>2

\* A step that computes nothing leaves the counts right if the same cores have
\* begun after it as before it.
LEMMA NothingComputed ==
  ASSUME RowsInv, UNCHANGED <<d, stamp, row, xout, hits>>, mpc' \in Working => mpc \in Working,
         mpc \in Working => \A c \in Cores : Fresh(c)' <=> Fresh(c),
         row'[0] # NoRow => mpc' = "own"
  PROVE  LoopInv' /\ ComputedInv'
  <1>1. LoopInv'
    BY DEF RowsInv, LoopInv
  <1>2. \A c \in Cores : Share(c)' = Share(c)
    BY DEF Share
  <1>3. ComputedInv'
    BY <1>2 DEF RowsInv, ComputedInv, Computed
  <1> QED
    BY <1>1, <1>3

\* The steps inside a call on core 0.
LEMMA CallRows ==
  ASSUME RowsInv, TypeOK', HostStep, UNCHANGED matmul_vars
  PROVE  LoopInv' /\ ComputedInv'
  <1> SUFFICES ASSUME mpc \in Working, NEW c \in Cores PROVE Fresh(c)' <=> Fresh(c)
    BY NothingComputed DEF RowsInv, LoopInv, matmul_vars, progress, rows
  <1>0. c # 0 => c \in Workers
    BY MulticoreConstants DEF Cores, Workers
  <1> USE <1>0, CoreZero, SuccType
      DEF RowsInv, MInv, IInv, TypeOK, ProgramType, SeqInv, SlotHeld, Engaged, Outstanding,
          PhaseInv, VfpInv, DispatchInv, RowInv, LoopInv, Coming, BringUp, Initialising, Issuing,
          Waiting, Working, Fresh,
          shared, locals, call, progress, rows, matmul_vars,
          Goto, Sev, SevAt, WfeAt, Return
  <1>1. CASE InitSev
    BY <1>1 DEF InitSev
  <1>2. CASE InitCheck
    BY <1>2 DEF InitCheck
  <1>3. CASE InitWfe
    BY <1>3 DEF InitWfe
  <1>4. CASE CheckOnline
    BY <1>4 DEF CheckOnline
  <1>5. CASE CheckBusy
    BY <1>5 DEF CheckBusy
  <1>6. CASE StoreFunc
    BY <1>6 DEF StoreFunc
  <1>7. CASE StoreArg
    BY <1>7 DEF StoreArg
  <1>8. CASE StoreSeq
    BY <1>8 DEF StoreSeq
  <1>9. CASE CallSev
    BY <1>9 DEF CallSev
  <1>10. CASE ReadExpected
    BY <1>10 DEF ReadExpected
  <1>11. CASE WaitLoop
    BY <1>11 DEF WaitLoop
  <1>12. CASE WaitWfe
    BY <1>12 DEF WaitWfe
  <1> QED
    BY <1>1, <1>2, <1>3, <1>4, <1>5, <1>6, <1>7, <1>8, <1>9, <1>10, <1>11, <1>12 DEF HostStep

\* The steps of a worker outside the function it runs.
LEMMA WorkerLoopRows ==
  ASSUME NEW w \in Workers, RowsInv, TypeOK', WorkerLoop(w)
  PROVE  LoopInv' /\ ComputedInv'
  <1>0. pc[w] # "run" /\ UNCHANGED matmul_vars
    BY DEF WorkerLoop
  <1> SUFFICES ASSUME mpc \in Working, NEW c \in Cores PROVE Fresh(c)' <=> Fresh(c)
    BY <1>0, NothingComputed DEF RowsInv, LoopInv, matmul_vars, progress, rows
  <1>a. c # 0 => c \in Workers
    BY MulticoreConstants DEF Cores, Workers
  <1> USE <1>0, <1>a, CoreZero, SuccType, MulticoreConstants, MatmulConstants
      DEF RowsInv, MInv, IInv, TypeOK, ProgramType, SeqInv, SlotHeld, Engaged, Outstanding,
          DispatchInv, RowInv, Coming, Issuing, Working, Fresh,
          shared, locals, call, progress, rows, matmul_vars,
          Goto, Sev, SevAt, WfeAt
  <1>1. CASE LeavePen(w)
    BY <1>1 DEF LeavePen
  <1>2. CASE StoreOnline(w)
    BY <1>2 DEF StoreOnline
  <1>3. CASE OnlineSev(w)
    BY <1>3 DEF OnlineSev
  <1>4. CASE Poll(w)
    BY <1>4 DEF Poll
  <1>5. CASE PollWfe(w)
    BY <1>5 DEF PollWfe
  <1>6. CASE LoadSeq(w)
    BY <1>6 DEF LoadSeq
  <1>7. CASE LoadFunc(w)
    BY <1>7 DEF LoadFunc
  <1>8. CASE LoadArg(w)
    BY <1>8 DEF LoadArg
  <1>9. CASE FuncReturns(w)
    BY <1>9 DEF FuncReturns
  <1>10. CASE StoreDone(w)
    BY <1>10 DEF StoreDone
  <1>11. CASE DoneSev(w)
    BY <1>11 DEF DoneSev
  <1> QED
    BY <1>1, <1>2, <1>3, <1>4, <1>5, <1>6, <1>7, <1>8, <1>9, <1>10, <1>11 DEF WorkerLoop, WorkerStep

\* A core in its share of a call, with its own record of that call.
InShare(c) ==
  /\ mpc \in Working \ {"fill"}
  /\ c = 0 => mpc = "own"
  /\ c # 0 => /\ pc[c] = "run" /\ Outstanding(c)
              /\ mpc = "dispatch" => c < mc
              /\ ~Coming(c)
  /\ matmul_args[c] = Record(c)

\* A turn of the loop counts the row it computes, which is no other core's.
LEMMA TurnOfLoop ==
  ASSUME RowsInv, NEW c \in Cores, InShare(c), ComputeRow(c, c)
  PROVE  LoopInv' /\ ComputedInv'
  <1> DEFINE r == row[c]
  <1>1. c \in Nat /\ d \in Nat /\ r \in Nat /\ mpc \in Working
    BY MulticoreConstants DEF RowsInv, MInv, ProgramType, ComputeRow, NoRow, Cores, InShare
  <1>2. Lo(c, d) \in Nat /\ Hi(c, d) \in Nat
    BY <1>1, SharesAreNumbers
  <1>3. Lo(c, d) <= r /\ r < Hi(c, d) /\ r # NoRow /\ r + 1 # NoRow
    BY <1>1 DEF RowsInv, LoopInv, InShare, Record, ComputeRow, NoRow
  <1>4. Hi(c, d) <= d
    <2>1. c * Chunk(d) \in Nat /\ Chunk(d) \in Nat
      BY <1>1, ChunkCovers
    <2> QED
      BY <1>1, <2>1 DEF Hi, Smaller
  <1>5. r \in RowIds /\ r < d
    <2>1. d \in Ds
      BY <1>1, <1>2, <1>3, <1>4 DEF RowsInv, MInv, ProgramType
    <2> QED
      BY <1>1, <1>2, <1>3, <1>4, <2>1 DEF RowIds
  <1>6. r \in Share(c) /\ \A e \in Cores : e # c => r \notin Share(e)
    <2>1. r \in Share(c)
      BY <1>3, <1>5 DEF Share
    <2> QED
      BY <2>1, SharesApart DEF RowsInv, MInv
  <1>7. ~Fresh(c) /\ hits[r] = 0
    <2>1. ~Fresh(c)
      BY <1>1, <1>3 DEF Fresh, InShare, RowsInv, MInv, ProgramType, Working
    <2> QED
      BY <1>1, <1>3, <1>6, <2>1 DEF RowsInv, ComputedInv, Computed
  <1>8. /\ UNCHANGED <<vars, mpc, mc, d, stamp>>
        /\ row' = [row EXCEPT ![c] = r + 1]
        /\ hits' = [hits EXCEPT ![r] = 1]
        /\ xout' = [xout EXCEPT ![r] = stamp]
    BY <1>7 DEF ComputeRow, InShare, Record, progress
  <1>9. /\ row'[c] = r + 1 /\ \A e \in Cores : e # c => row'[e] = row[e]
        /\ hits'[r] = 1 /\ \A i \in RowIds : i # r => hits'[i] = hits[i]
        /\ xout'[r] = stamp /\ \A i \in RowIds : i # r => xout'[i] = xout[i]
    BY <1>5, <1>8 DEF RowsInv, MInv, ProgramType
  <1>10. \A e \in Cores : Share(e)' = Share(e)
    BY <1>8 DEF Share
  <1>11. \A e \in Cores : Fresh(e)' <=> Fresh(e)
    BY <1>3, <1>8, <1>9, CoreZero DEF Fresh, Coming, Outstanding, vars, shared, call, InShare
  <1>12. LoopInv'
    <2>1. row'[0] # NoRow => mpc' = "own"
      BY <1>3, <1>8, <1>9, CoreZero DEF RowsInv, LoopInv, InShare
    <2> QED
      BY <1>1, <1>2, <1>3, <1>8, <1>9, <2>1 DEF RowsInv, LoopInv
  <1>13. ASSUME NEW e \in Cores, NEW i \in Share(e) PROVE Computed(e, i)'
    <2>0. i \in RowIds /\ Computed(e, i)
      BY <1>1 DEF RowsInv, ComputedInv, Share
    <2>1. i \in Int
      BY <2>0, MatmulConstants DEF RowIds
    <2>2. CASE e # c
      BY <1>6, <1>9, <1>11, <2>0, <2>2 DEF Computed
    <2>3. CASE e = c /\ i = r
      BY <1>1, <1>3, <1>7, <1>9, <1>11, <2>3 DEF Computed
    <2>4. CASE e = c /\ i # r
      BY <1>1, <1>3, <1>7, <1>9, <1>11, <2>0, <2>1, <2>4 DEF Computed
    <2> QED
      BY <2>2, <2>3, <2>4
  <1>14. /\ \A i \in RowIds : i >= d => hits'[i] = 0
         /\ \A i \in RowIds : hits'[i] # 0 => xout'[i] = stamp
    BY <1>1, <1>5, <1>9 DEF RowsInv, ComputedInv
  <1>15. ComputedInv'
    BY <1>8, <1>10, <1>13, <1>14 DEF ComputedInv
  <1> QED
    BY <1>12, <1>15

\* A core begins its share.
LEMMA BeginShare ==
  ASSUME RowsInv, NEW c \in Cores, InShare(c), EnterRows(c, c)
  PROVE  LoopInv' /\ ComputedInv'
  <1>1. c \in Nat /\ d \in Nat /\ mpc \in Working
    BY MulticoreConstants DEF RowsInv, MInv, ProgramType, Cores, InShare
  <1>2. Lo(c, d) \in Nat /\ Hi(c, d) \in Nat /\ Lo(c, d) <= Hi(c, d)
    <2>1. c * Chunk(d) \in Nat /\ Chunk(d) \in Nat
      BY <1>1, ChunkCovers
    <2> QED
      BY <1>1, <2>1 DEF Lo, Hi, Smaller
  <1>3. row[c] = NoRow /\ row' = [row EXCEPT ![c] = Lo(c, d)]
        /\ UNCHANGED <<vars, mpc, mc, d, stamp, xout, hits>>
    BY DEF EnterRows, InShare, Record, progress
  <1>4. /\ row'[c] = Lo(c, d) /\ row'[c] # NoRow
        /\ \A e \in Cores : e # c => row'[e] = row[e]
    BY <1>2, <1>3 DEF RowsInv, MInv, ProgramType, NoRow
  <1>5. Fresh(c) /\ ~Fresh(c)'
    BY <1>1, <1>3, <1>4, CoreZero
       DEF Fresh, InShare, Coming, Outstanding, RowsInv, MInv, ProgramType, Working, vars, shared, call
  <1>6. \A e \in Cores : e # c => (Fresh(e)' <=> Fresh(e))
    BY <1>3, <1>4, CoreZero DEF Fresh, Coming, Outstanding, vars, shared, call
  <1>7. LoopInv'
    BY <1>2, <1>3, <1>4, CoreZero DEF RowsInv, LoopInv, InShare
  <1>8. \A e \in Cores : Share(e)' = Share(e)
    BY <1>3 DEF Share
  <1>9. ASSUME NEW e \in Cores, NEW i \in Share(e) PROVE Computed(e, i)'
    <2>1. Computed(e, i)
      BY <1>1 DEF RowsInv, ComputedInv
    <2>2. CASE e # c
      BY <1>3, <1>4, <1>6, <2>1, <2>2 DEF Computed
    <2>3. CASE e = c
      BY <1>3, <1>4, <1>5, <2>1, <2>3 DEF Computed, Share
    <2> QED
      BY <2>2, <2>3
  <1>10. ComputedInv'
    BY <1>3, <1>8, <1>9 DEF RowsInv, ComputedInv
  <1> QED
    BY <1>7, <1>10

\* A core is through with its share, and core 0 goes on to wait or the worker's
\* function returns.
LEMMA EndShare ==
  ASSUME RowsInv, NEW c \in Cores, InShare(c), LeaveRows(c, c), UNCHANGED <<mc, d, stamp>>,
         \/ c = 0 /\ mpc' = "wait" /\ UNCHANGED vars
         \/ c \in Workers /\ FuncReturns(c) /\ UNCHANGED mpc
  PROVE  LoopInv' /\ ComputedInv'
  <1>1. c \in Nat /\ d \in Nat /\ mpc \in Working /\ mpc' \in Working /\ row[c] \in Nat
    BY MulticoreConstants
       DEF RowsInv, MInv, ProgramType, Cores, InShare, LeaveRows, NoRow, Working
  <1>2. Lo(c, d) \in Nat /\ Hi(c, d) \in Nat /\ row[c] >= Hi(c, d)
    <2>1. Lo(c, d) \in Nat /\ Hi(c, d) \in Nat
      BY <1>1, SharesAreNumbers
    <2>2. matmul_args[c].d_end = Hi(c, d)
      BY DEF InShare, Record
    <2> QED
      BY <2>1, <2>2 DEF LeaveRows
  <1>3. /\ row[c] # NoRow /\ row'[c] = NoRow
        /\ \A e \in Cores : e # c => row'[e] = row[e]
        /\ UNCHANGED <<xout, hits>>
    BY DEF LeaveRows, RowsInv, MInv, ProgramType
  <1>4. UNCHANGED <<core_id, cmd_seq, cmd_done>> /\ pc'[0] = pc[0]
        /\ \A e \in Cores : e # c => pc'[e] = pc[e]
    BY CoreZero DEF FuncReturns, Goto, vars, shared, call, RowsInv, MInv, IInv, TypeOK
  <1>5. ~Fresh(c) /\ ~Fresh(c)'
    <2>1. CASE c = 0
      BY <1>3, <2>1, CoreZero DEF Fresh, InShare
    <2>2. CASE c # 0
      <3>1. pc'[c] = "done" /\ mpc' = mpc
        BY <2>2, CoreZero DEF FuncReturns, Goto, RowsInv, MInv, IInv, TypeOK
      <3>2. (mpc = "dispatch" => c < mc) /\ mc \in Nat
        BY <2>2 DEF InShare, RowsInv, MInv, ProgramType
      <3> QED
        BY <1>1, <1>3, <1>4, <2>2, <3>1, <3>2 DEF Fresh, InShare, Coming, Outstanding, Working
    <2> QED
      BY <2>1, <2>2
  <1>6. \A e \in Cores : e # c => (Fresh(e)' <=> Fresh(e))
    <2>1. CASE c = 0
      BY <1>3, <1>4, <2>1 DEF Fresh, InShare, Coming, Outstanding
    <2>2. CASE c # 0
      BY <1>3, <1>4, <2>2, CoreZero DEF Fresh, Coming, Outstanding
    <2> QED
      BY <2>1, <2>2
  <1>7. LoopInv'
    <2>1. row'[0] # NoRow => mpc' = "own"
      BY <1>3, CoreZero DEF RowsInv, LoopInv
    <2> QED
      BY <1>1, <1>3, <2>1 DEF RowsInv, LoopInv
  <1>8. \A e \in Cores : Share(e)' = Share(e)
    BY DEF Share
  <1>9. ASSUME NEW e \in Cores, NEW i \in Share(e) PROVE Computed(e, i)'
    <2>1. Computed(e, i)
      BY <1>1 DEF RowsInv, ComputedInv
    <2>2. CASE e # c
      BY <1>3, <1>6, <2>1, <2>2 DEF Computed
    <2>3. CASE e = c
      <3>1. i \in Int /\ i < Hi(c, d)
        BY <2>3, MatmulConstants DEF Share, RowIds
      <3> QED
        BY <1>1, <1>2, <1>3, <1>5, <2>1, <2>3, <3>1 DEF Computed
    <2> QED
      BY <2>2, <2>3
  <1>10. ComputedInv'
    BY <1>1, <1>3, <1>8, <1>9 DEF RowsInv, ComputedInv
  <1> QED
    BY <1>7, <1>10

\* A worker that runs matmul_worker during a call of matmul is in its share.
LEMMA WorkerInShare ==
  ASSUME RowsInv, NEW w \in Workers, pc[w] = "run", w_func[w] = MatmulWorker, mpc \in Working
  PROVE  InShare(w) /\ w_arg[w] = w
  <1>1. Outstanding(w) /\ w_arg[w] = cmd_args[w]
    BY SuccType DEF RowsInv, MInv, IInv, TypeOK, SlotHeld, Engaged, Outstanding
  <1>2. mpc # "fill"
    BY <1>1 DEF RowsInv, MInv, PhaseInv, BringUp, Waiting
  <1>3. w_arg[w] = w /\ ~Coming(w) /\ (mpc = "dispatch" => w < mc)
    BY <1>1 DEF RowsInv, DispatchInv
  <1>4. matmul_args[w] = Record(w)
    BY <1>2, CoreZero DEF RowsInv, DispatchInv
  <1> QED
    BY <1>1, <1>2, <1>3, <1>4, CoreZero DEF InShare

\* The functions a worker runs.
LEMMA FunctionRows ==
  ASSUME NEW w \in Workers, RowsInv, WorkerRows(w) \/ WorkerEnableVfp(w)
  PROVE  LoopInv' /\ ComputedInv'
  <1>1. w \in Cores /\ w # 0
    BY CoreZero
  <1>2. CASE mpc \notin Working
    <2>1. mpc' = mpc /\ row'[0] = row[0]
      BY <1>1, CoreZero
              DEF WorkerRows, WorkerEnableVfp, EnterRows, ComputeRow, LeaveRows, progress, rows,
                  RowsInv, MInv, ProgramType
    <2> QED
      BY <1>2, <2>1 DEF RowsInv, LoopInv, ComputedInv
  <1>3. CASE mpc \in Working /\ WorkerRows(w)
    <2>1. InShare(w) /\ w_arg[w] = w
      BY <1>3, WorkerInShare DEF WorkerRows
    <2>2. CASE EnterRows(w, w)
      BY <1>1, <2>1, <2>2, BeginShare
    <2>3. CASE ComputeRow(w, w)
      BY <1>1, <2>1, <2>3, TurnOfLoop
    <2>4. CASE LeaveRows(w, w) /\ FuncReturns(w) /\ UNCHANGED progress
      BY <1>1, <2>1, <2>4, EndShare DEF progress
    <2> QED
      BY <1>3, <2>1, <2>2, <2>3, <2>4 DEF WorkerRows
  <1>4. CASE mpc \in Working /\ WorkerEnableVfp(w)
    <2>1. Outstanding(w) /\ w_func[w] = cmd_funcs[w]
      BY <1>4, SuccType
         DEF WorkerEnableVfp, FuncReturns, RowsInv, MInv, IInv, TypeOK, SlotHeld, Engaged, Outstanding
    <2> QED
      BY <1>4, <2>1, MatmulConstants DEF RowsInv, DispatchInv, WorkerEnableVfp
  <1> QED
    BY <1>2, <1>3, <1>4

\* The program's own steps.
LEMMA ProgramRows ==
  ASSUME RowsInv, Core0, ~(HostStep /\ UNCHANGED matmul_vars)
  PROVE  LoopInv' /\ ComputedInv'
  <1>0. \A c \in Cores : c # 0 => c \in Workers
    BY MulticoreConstants DEF Cores, Workers
  <1>1. CASE BootInit \/ CallEnableVfp
    <2>1. mpc' \notin Working /\ UNCHANGED <<d, stamp, row, xout, hits>> /\ mpc # "own"
      BY <1>1 DEF BootInit, CallEnableVfp, Working, rows
    <2>2. mpc \notin Working
      BY <1>1 DEF BootInit, CallEnableVfp, Working
    <2> QED
      BY <2>1, <2>2, NothingComputed DEF RowsInv, LoopInv
  <1>2. ASSUME NEW n \in Ds, BeginMatmul(n) PROVE LoopInv' /\ ComputedInv'
    <2>1. \A w \in Workers : ~Outstanding(w)
      BY <1>2 DEF BeginMatmul, RowsInv, MInv, PhaseInv, BringUp, Waiting
    <2>2. \A c \in Cores : row'[c] = NoRow
      BY <1>2, <2>1, NobodyComputes DEF BeginMatmul
    <2>3. \A c \in Cores : Fresh(c)'
      BY <1>2 DEF BeginMatmul, Fresh
    <2>4. \A i \in RowIds : hits'[i] = 0
      BY <1>2 DEF BeginMatmul
    <2>5. LoopInv'
      BY <2>2, CoreZero DEF LoopInv
    <2>6. ComputedInv'
      BY <2>3, <2>4 DEF ComputedInv, Computed, Share
    <2> QED
      BY <2>5, <2>6
  <1>3. CASE FillArgs
    <2>1. \A c \in Cores : Fresh(c)'
      BY <1>3, <1>0 DEF FillArgs, Fresh, Workers
    <2>2. row[0] = NoRow
      BY <1>3 DEF FillArgs, RowsInv, LoopInv
    <2> QED
      BY <1>3, <2>1, <2>2, NothingComputed DEF FillArgs, Fresh, Working, rows
  <1>4. CASE Dispatch
    <2>1. /\ pc[0] = "idle" /\ pc'[0] = "online?" /\ core_id' = mc /\ mc' = mc + 1
          /\ mpc = "dispatch" /\ mc \in Workers
          /\ mpc' = IF mc = NumCores - 1 THEN "own" ELSE "dispatch"
          /\ UNCHANGED <<cmd_seq, cmd_done, d, stamp, row, xout, hits>>
          /\ \A w \in Workers : pc'[w] = pc[w]
      BY <1>4, CoreZero
         DEF Dispatch, BeginCall, Goto, RowsInv, DispatchInv, MInv, IInv, TypeOK, shared, rows
    <2>2. row[0] = NoRow
      BY <2>1 DEF RowsInv, LoopInv
    <2>3. ASSUME NEW c \in Cores PROVE Fresh(c)' <=> Fresh(c)
      <3>1. CASE c = 0
        BY <2>1, <2>2, <3>1 DEF Fresh
      <3>2. CASE c # 0
        BY <1>0, <2>1, <3>2, MulticoreConstants DEF Fresh, Coming, Outstanding, Issuing, Workers
      <3> QED
        BY <3>1, <3>2
    <2> QED
      BY <2>1, <2>2, <2>3, NothingComputed DEF Working
  <1>5. CASE OwnRows
    <2>1. InShare(0)
      BY <1>5, CoreZero DEF OwnRows, InShare, RowsInv, DispatchInv, Working
    <2>2. CASE EnterRows(0, 0)
      BY <2>1, <2>2, BeginShare, CoreZero
    <2>3. CASE ComputeRow(0, 0)
      BY <2>1, <2>3, TurnOfLoop, CoreZero
    <2>4. CASE LeaveRows(0, 0) /\ mpc' = "wait" /\ UNCHANGED <<vars, mc, d, stamp>>
      BY <2>1, <2>4, EndShare, CoreZero
    <2> QED
      BY <1>5, <2>2, <2>3, <2>4 DEF OwnRows
  <1>6. CASE AwaitWorkers
    <2>1. /\ pc[0] = "idle" /\ pc'[0] = "expect" /\ mpc = "wait" /\ mpc' = "returned"
          /\ UNCHANGED <<cmd_seq, cmd_done, mc, d, stamp, row, xout, hits>>
          /\ \A w \in Workers : pc'[w] = pc[w]
      BY <1>6, CoreZero DEF AwaitWorkers, BeginWait, Goto, RowsInv, MInv, IInv, TypeOK, shared, rows
    <2>2. row[0] = NoRow
      BY <2>1 DEF RowsInv, LoopInv
    <2>3. \A c \in Cores : Fresh(c)' <=> Fresh(c)
      BY <1>0, <2>1 DEF Fresh, Coming, Outstanding, Issuing
    <2> QED
      BY <2>1, <2>2, <2>3, NothingComputed DEF Working
  <1> QED
    BY <1>1, <1>2, <1>3, <1>4, <1>5, <1>6 DEF Core0

\* In the beginning nothing is being computed.
LEMMA InitRows == MatmulInit => RowsInv
  <1> SUFFICES ASSUME MatmulInit PROVE RowsInv
    OBVIOUS
  <1>1. MInv
    BY InitMInv
  <1>2. DispatchInv
    BY DEF MatmulInit, DispatchInv, Working
  <1>3. LoopInv /\ ComputedInv
    BY CoreZero DEF MatmulInit, LoopInv, ComputedInv, Working
  <1> QED
    BY <1>1, <1>2, <1>3 DEF RowsInv

\* RowsInv is inductive.
LEMMA StepRows == RowsInv /\ [MatmulNext]_all_vars => RowsInv'
  <1> SUFFICES ASSUME RowsInv, [MatmulNext]_all_vars PROVE RowsInv'
    OBVIOUS
  <1>1. MInv' /\ DispatchInv'
    BY StepMInv, StepDispatch DEF RowsInv
  <1>2. TypeOK'
    BY <1>1 DEF MInv, IInv
  <1>3. CASE UNCHANGED all_vars
    <2>1. \A c \in Cores : Fresh(c)' <=> Fresh(c)
      BY <1>3 DEF all_vars, vars, shared, call, matmul_vars, progress, rows, Fresh, Coming, Outstanding
    <2> QED
      BY <1>1, <1>3, <2>1, NothingComputed
         DEF all_vars, matmul_vars, progress, rows, RowsInv, LoopInv
  <1>4. CASE Core0
    BY <1>1, <1>2, <1>4, CallRows, ProgramRows DEF RowsInv
  <1>5. ASSUME NEW w \in Workers, Worker(w) PROVE RowsInv'
    BY <1>1, <1>2, <1>5, FunctionRows, WorkerLoopRows DEF RowsInv, Worker
  <1> QED
    BY <1>3, <1>4, <1>5 DEF MatmulNext

\* When matmul returns, every row of its output has been computed exactly once
\* in this call, from its operands, and no row beyond the output at all: for
\* every number of cores and every number of rows.
THEOREM RowsAreComputed == MatmulSpec => []MatmulComplete
  <1>1. RowsInv => MatmulComplete
    <2> SUFFICES ASSUME RowsInv, mpc = "returned", pc[0] = "idle", NEW i \in RowIds
                 PROVE  /\ i < d => hits[i] = 1 /\ xout[i] = stamp
                        /\ i >= d => hits[i] = 0
      BY DEF MatmulComplete
    <2>1. \A w \in Workers : ~Outstanding(w)
      BY DEF RowsInv, MInv, PhaseInv
    <2>2. \A c \in Cores : row[c] = NoRow /\ ~Fresh(c)
      <3>1. \A c \in Cores : row[c] = NoRow
        BY <2>1, NobodyComputes
      <3>2. \A c \in Cores : c # 0 => c \in Workers
        BY MulticoreConstants DEF Cores, Workers
      <3> QED
        BY <2>1, <3>1, <3>2 DEF Fresh, Coming, Issuing
    <2>3. CASE i < d
      <3>1. d \in Nat /\ i \in 0 .. (d - 1)
        BY <2>3, MatmulConstants DEF RowsInv, MInv, ProgramType, RowIds
      <3>2. PICK c \in Cores : Lo(c, d) <= i /\ i < Hi(c, d)
        BY <3>1, SharesCoverTheRows
      <3>3. hits[i] = 1
        BY <2>2, <3>2 DEF Share, RowsInv, ComputedInv, Computed, Working
      <3>4. xout[i] = stamp
        BY <3>3 DEF RowsInv, ComputedInv, Working
      <3> QED
        BY <2>3, <3>1, <3>3, <3>4
    <2>4. CASE i >= d
      BY <2>4, MatmulConstants DEF RowsInv, ComputedInv, Working, MInv, ProgramType, RowIds
    <2>5. i < d \/ i >= d
      BY MatmulConstants DEF RowIds, RowsInv, MInv, ProgramType
    <2>6. ~(i < d /\ i >= d)
      BY MatmulConstants DEF RowIds, RowsInv, MInv, ProgramType
    <2> QED
      BY <2>3, <2>4, <2>5, <2>6
  <1> QED
    BY <1>1, InitRows, StepRows, PTL DEF MatmulSpec
=============================================================================

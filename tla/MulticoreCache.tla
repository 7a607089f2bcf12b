--------------------------- MODULE MulticoreCache ---------------------------
(***************************************************************************)
(* The dispatcher of libpi/multicore/multicore.c while the cores' MMUs and *)
(* data caches are being turned on (setup_vm and worker_enable_mmu in      *)
(* libpi/src/run.c), so that some cores reach the command words through a  *)
(* cache and others do not.                                                *)
(*                                                                         *)
(* The caches of all cores whose MMU and C bit are on are kept coherent by *)
(* the hardware (CPUECTLR.SMPEN is set, sections are mapped shareable), so *)
(* they are one cache here.  A core whose MMU is off reads and writes      *)
(* memory directly and does not look into that cache.  Lines may be        *)
(* evicted and filled at any moment.  multicore_coherent is 0: nothing in  *)
(* the repository ever sets it.                                            *)
(*                                                                         *)
(* cmd_funcs and cmd_args are written, cleaned and read one right after    *)
(* the other and never apart; one line stands for both.  core_online is    *)
(* constant after multicore_init, with which the model starts.             *)
(***************************************************************************)
EXTENDS Integers

CONSTANTS
  NumCores,
  Work,               \* a worker function that leaves the caches alone
  EnableMmu,          \* worker_enable_mmu
  NullFunc,
  SeqMod,
  EvictsInWindow      \* a cmd_seq line may leave the cache between the store to
                      \* it and the dc_clean of the function before it

ASSUME CacheConstants ==
  /\ NumCores \in Nat \ {0, 1}
  /\ SeqMod \in Nat \ {0, 1}
  /\ EvictsInWindow \in BOOLEAN
  /\ NullFunc \notin {Work, EnableMmu}

Cores == 0 .. (NumCores - 1)
Workers == 1 .. (NumCores - 1)
Funcs == {Work, EnableMmu}

\* The cache lines: cmd_funcs (with cmd_args), cmd_seq and cmd_done of a worker.
Lines == {"func", "seq", "done"} \X Workers
Func(w) == <<"func", w>>
Seq(w) == <<"seq", w>>
Done(w) == <<"done", w>>

VARIABLES
  mem,      \* mem[l]: what memory holds
  cache,    \* cache[l]: what the coherent cache holds, or Absent
  cached,   \* cached[c]: core c's MMU and data cache are on
  event,    \* the event registers of sev and wfe
  pc, core_id, func, expected_seq,  \* core 0's call
  status,   \* what it returned
  w_seq, w_func,  \* multicore_main's locals
  issued,   \* issued[w]: the function of the last command issued to w
  ran       \* ran[w]: the functions w has run since then

call == <<core_id, func, expected_seq>>
locals == <<w_seq, w_func>>
history == <<issued, ran>>
vars == <<mem, cache, cached, event, pc, call, status, locals, history>>

Absent == [v |-> NullFunc, dirty |-> FALSE, valid |-> FALSE]
Clean(v) == [v |-> v, dirty |-> FALSE, valid |-> TRUE]
Dirty(v) == [v |-> v, dirty |-> TRUE, valid |-> TRUE]

\* cmd_seq[core_id].v++ on a uint32_t.
Succ(s) == IF s = SeqMod - 1 THEN 0 ELSE s + 1

Init ==
  /\ mem = [l \in Lines |-> IF l[1] = "func" THEN NullFunc ELSE 0]
  /\ cache = [l \in Lines |-> Absent]
  /\ cached = [c \in Cores |-> FALSE]
  /\ event = [c \in Cores |-> FALSE]
  /\ pc = [c \in Cores |-> IF c = 0 THEN "idle" ELSE "poll"]
  /\ core_id = 1 /\ func = NullFunc /\ expected_seq = 0
  /\ status = "NONE"
  /\ w_seq = [w \in Workers |-> 0]
  /\ w_func = [w \in Workers |-> NullFunc]
  /\ issued = [w \in Workers |-> NullFunc]
  /\ ran = [w \in Workers |-> {}]

-----------------------------------------------------------------------------
\* Memory as a core sees it.

\* What core c reads from line l.
Read(c, l) == IF cached[c] /\ cache[l].valid THEN cache[l].v ELSE mem[l]

\* A read through the cache brings the lines in.
Touch(c, ls) ==
  cache' = [l \in Lines |-> IF cached[c] /\ l \in ls /\ ~cache[l].valid
                              THEN Clean(mem[l]) ELSE cache[l]]

\* A write goes into the cache, or past it into memory.
Write(c, l, v) ==
  IF cached[c] THEN cache' = [cache EXCEPT ![l] = Dirty(v)] /\ mem' = mem
               ELSE mem' = [mem EXCEPT ![l] = v] /\ cache' = cache

\* DCCMVAC: a dirty line is written back and stays.
DcClean(l) ==
  IF cache[l].dirty
    THEN mem' = [mem EXCEPT ![l] = cache[l].v] /\ cache' = [cache EXCEPT ![l].dirty = FALSE]
    ELSE UNCHANGED <<mem, cache>>

\* A line is written back if dirty, and dropped: an eviction, and DCIMVAC on the
\* assumption that it cleans before it invalidates.  (Were it to discard a dirty
\* cmd_done, multicore_wait would throw the acknowledgement away.)
Drop(l) ==
  /\ mem' = IF cache[l].dirty THEN [mem EXCEPT ![l] = cache[l].v] ELSE mem
  /\ cache' = [cache EXCEPT ![l] = Absent]

Goto(c, label) == pc' = [pc EXCEPT ![c] = label]
Sev == event' = [c \in Cores |-> TRUE]

\* cmd_seq is dirty in the cache and the function may not have reached memory.
InWindow(l) == pc[0] = "clean_func" /\ l = Seq(core_id)

\* The hardware writes back and drops a line on its own account ...
Evict(l) ==
  /\ cache[l].valid
  /\ EvictsInWindow \/ ~InWindow(l)
  /\ Drop(l)
  /\ UNCHANGED <<cached, event, pc, call, status, locals, history>>

\* ... or fetches one it expects to be used.
Fill(l) ==
  /\ \E c \in Cores : cached[c]
  /\ ~cache[l].valid
  /\ cache' = [cache EXCEPT ![l] = Clean(mem[l])]
  /\ UNCHANGED <<mem, cached, event, pc, call, status, locals, history>>

-----------------------------------------------------------------------------
\* Core 0.

\* setup_vm turns core 0's own MMU and caches on.
SetupVm ==
  /\ pc[0] = "idle"
  /\ ~cached[0]
  /\ cached' = [cached EXCEPT ![0] = TRUE]
  /\ UNCHANGED <<mem, cache, event, pc, call, status, locals, history>>

\* multicore_call_async.  The workers' MMUs are only enabled after core 0's,
\* and a worker that has its MMU on is not told to turn it on again.
BeginCall(w, f) ==
  /\ pc[0] = "idle"
  /\ f = EnableMmu => cached[0] /\ ~cached[w] /\ issued[w] # EnableMmu
  /\ core_id' = w /\ func' = f
  /\ Goto(0, "busy?")
  /\ status' = "NONE"
  /\ UNCHANGED <<mem, cache, cached, event, expected_seq, locals, history>>

\* Slip: the test for a task that is still running is left out.
CheckBusyDropped ==
  /\ pc[0] = "busy?"
  /\ Goto(0, "func")
  /\ UNCHANGED <<mem, cache, cached, event, call, status, locals, history>>

\* cmd_seq and cmd_done are read without invalidating either.
CheckBusy ==
  /\ pc[0] = "busy?"
  /\ Touch(0, {Seq(core_id), Done(core_id)})
  /\ IF Read(0, Seq(core_id)) = Read(0, Done(core_id))
       THEN Goto(0, "func") /\ status' = status
       ELSE Goto(0, "idle") /\ status' = "ERR_BUSY"
  /\ UNCHANGED <<mem, cached, event, call, locals, history>>

StoreFunc ==
  /\ pc[0] = "func"
  /\ Write(0, Func(core_id), func)
  /\ Goto(0, "seq")
  /\ issued' = [issued EXCEPT ![core_id] = func]
  /\ ran' = [ran EXCEPT ![core_id] = {}]
  /\ UNCHANGED <<cached, event, call, status, locals>>

StoreSeq ==
  /\ pc[0] = "seq"
  /\ Write(0, Seq(core_id), Succ(Read(0, Seq(core_id))))
  /\ Goto(0, "clean_func")
  /\ UNCHANGED <<cached, event, call, status, locals, history>>

\* Slip: the function pointer is not written back.
CleanFuncDropped ==
  /\ pc[0] = "clean_func"
  /\ Goto(0, "clean_seq")
  /\ UNCHANGED <<mem, cache, cached, event, call, status, locals, history>>

CleanFunc ==
  /\ pc[0] = "clean_func"
  /\ DcClean(Func(core_id))
  /\ Goto(0, "clean_seq")
  /\ UNCHANGED <<cached, event, call, status, locals, history>>

\* Slip: the sequence number is not written back.
CleanSeqDropped ==
  /\ pc[0] = "clean_seq"
  /\ Goto(0, "call_sev")
  /\ UNCHANGED <<mem, cache, cached, event, call, status, locals, history>>

CleanSeq ==
  /\ pc[0] = "clean_seq"
  /\ DcClean(Seq(core_id))
  /\ Goto(0, "call_sev")
  /\ UNCHANGED <<cached, event, call, status, locals, history>>

CallSev ==
  /\ pc[0] = "call_sev"
  /\ Sev
  /\ Goto(0, "idle")
  /\ status' = "OK"
  /\ UNCHANGED <<mem, cache, cached, call, locals, history>>

\* Slip: "done" is taken to mean that the worker has picked the command up.
CheckDonePicked(w) ==
  /\ pc[0] = "idle"
  /\ Touch(0, {Seq(w), Done(w)})
  /\ status' = IF Read(0, Seq(w)) = Read(0, Done(w)) \/ w_seq[w] = Read(0, Seq(w))
                 THEN "DONE" ELSE "NOT_DONE"
  /\ core_id' = w
  /\ UNCHANGED <<mem, cached, event, pc, func, expected_seq, locals, history>>

\* multicore_check_done, which invalidates nothing either.
CheckDone(w) ==
  /\ pc[0] = "idle"
  /\ Touch(0, {Seq(w), Done(w)})
  /\ status' = IF Read(0, Seq(w)) = Read(0, Done(w)) THEN "DONE" ELSE "NOT_DONE"
  /\ core_id' = w
  /\ UNCHANGED <<mem, cached, event, pc, func, expected_seq, locals, history>>

\* multicore_wait.
BeginWait(w) ==
  /\ pc[0] = "idle"
  /\ core_id' = w
  /\ status' = "NONE"
  /\ Goto(0, "expect")
  /\ UNCHANGED <<mem, cache, cached, event, func, expected_seq, locals, history>>

ReadExpected ==
  /\ pc[0] = "expect"
  /\ Touch(0, {Seq(core_id)})
  /\ expected_seq' = Read(0, Seq(core_id))
  /\ Goto(0, "inv")
  /\ UNCHANGED <<mem, cached, event, core_id, func, status, locals, history>>

InvDone ==
  /\ pc[0] = "inv"
  /\ Drop(Done(core_id))
  /\ Goto(0, "done?")
  /\ UNCHANGED <<cached, event, call, status, locals, history>>

WaitLoop ==
  /\ pc[0] = "done?"
  /\ Touch(0, {Done(core_id)})
  /\ IF Read(0, Done(core_id)) = expected_seq
       THEN Goto(0, "idle") /\ status' = "OK" /\ expected_seq' = 0
       ELSE Goto(0, "wait_wfe") /\ UNCHANGED <<status, expected_seq>>
  /\ UNCHANGED <<mem, cached, event, core_id, func, locals, history>>

WaitWfe ==
  /\ pc[0] = "wait_wfe"
  /\ event[0]
  /\ event' = [event EXCEPT ![0] = FALSE]
  /\ Goto(0, "inv")
  /\ UNCHANGED <<mem, cache, cached, call, status, locals, history>>

HostStep ==
  \/ CheckBusy \/ StoreFunc \/ StoreSeq \/ CleanFunc \/ CleanSeq \/ CallSev
  \/ ReadExpected \/ InvDone \/ WaitLoop \/ WaitWfe

Client ==
  \/ SetupVm
  \/ \E w \in Workers : \/ \E f \in Funcs : BeginCall(w, f)
                        \/ CheckDone(w)
                        \/ BeginWait(w)

-----------------------------------------------------------------------------
\* multicore_main on worker w.

Poll(w) ==
  /\ pc[w] = "poll"
  /\ Touch(w, {Seq(w), Done(w)})
  /\ Goto(w, IF Read(w, Seq(w)) # Read(w, Done(w)) THEN "ld_seq" ELSE "wfe")
  /\ UNCHANGED <<mem, cached, event, call, status, locals, history>>

PollWfe(w) ==
  /\ pc[w] = "wfe"
  /\ event[w]
  /\ event' = [event EXCEPT ![w] = FALSE]
  /\ Goto(w, "poll")
  /\ UNCHANGED <<mem, cache, cached, call, status, locals, history>>

LoadSeq(w) ==
  /\ pc[w] = "ld_seq"
  /\ Touch(w, {Seq(w)})
  /\ w_seq' = [w_seq EXCEPT ![w] = Read(w, Seq(w))]
  /\ Goto(w, "ld_func")
  /\ UNCHANGED <<mem, cached, event, call, status, w_func, history>>

LoadFunc(w) ==
  /\ pc[w] = "ld_func"
  /\ Touch(w, {Func(w)})
  /\ w_func' = [w_func EXCEPT ![w] = Read(w, Func(w))]
  /\ Goto(w, IF Read(w, Func(w)) # NullFunc THEN "run" ELSE "done")
  /\ UNCHANGED <<mem, cached, event, call, status, w_seq, history>>

\* The function runs; worker_enable_mmu turns the worker's MMU and caches on.
Run(w) ==
  /\ pc[w] = "run"
  /\ cached' = [cached EXCEPT ![w] = cached[w] \/ w_func[w] = EnableMmu]
  /\ ran' = [ran EXCEPT ![w] = @ \cup {w_func[w]}]
  /\ Goto(w, "done")
  /\ UNCHANGED <<mem, cache, event, call, status, locals, issued>>

StoreDone(w) ==
  /\ pc[w] = "done"
  /\ Write(w, Done(w), w_seq[w])
  /\ w_seq' = [w_seq EXCEPT ![w] = 0]
  /\ w_func' = [w_func EXCEPT ![w] = NullFunc]
  /\ Goto(w, "done_sev")
  /\ UNCHANGED <<cached, event, call, status, history>>

DoneSev(w) ==
  /\ pc[w] = "done_sev"
  /\ Sev
  /\ Goto(w, "poll")
  /\ UNCHANGED <<mem, cache, cached, call, status, locals, history>>

WorkerStep(w) ==
  \/ Poll(w) \/ PollWfe(w) \/ LoadSeq(w) \/ LoadFunc(w) \/ Run(w) \/ StoreDone(w) \/ DoneSev(w)

Next ==
  \/ Client \/ HostStep
  \/ \E w \in Workers : WorkerStep(w)
  \/ \E l \in Lines : Evict(l) \/ Fill(l)

Spec == Init /\ [][Next]_vars

\* The cores run.  No line is ever sure to be evicted or filled.
FairSpec == Spec /\ WF_vars(HostStep) /\ \A w \in Workers : WF_vars(WorkerStep(w))

-----------------------------------------------------------------------------
\* What must hold.

\* When multicore_wait returns for a core, that core has run the function that
\* was last issued to it, and no other one in its place (multicore.h: "Runs
\* worker function on a core").
CallRunsFunction ==
  [][ pc[0] = "done?" /\ pc'[0] = "idle" => ran[core_id] \subseteq {issued[core_id]}
        /\ (issued[core_id] # NullFunc => ran[core_id] # {}) ]_vars

\* multicore_check_done reads lines that may be stale, but never reports a
\* command finished whose function has not run.
CheckDoneSound ==
  status = "DONE" /\ issued[core_id] # NullFunc => issued[core_id] \in ran[core_id]

\* Once every core is cached, no clean line disagrees with memory: nothing that
\* a worker wrote past the cache is still hidden by it when the worker starts to
\* look into the cache itself (it would run its last command again).  This rests
\* on the busy test, which lets no call through while cmd_done is stale.
NoStaleLine ==
  (\A c \in Cores : cached[c]) =>
    \A l \in Lines : cache[l].valid /\ ~cache[l].dirty => cache[l].v = mem[l]

\* multicore_wait returns, however the caches are set up and whatever they
\* choose to evict or fill.
WaitReturns == pc[0] = "expect" ~> pc[0] = "idle"
=============================================================================

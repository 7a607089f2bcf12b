------------------------------- MODULE Matmul -------------------------------
(***************************************************************************)
(* libpi/src/run.c on top of the dispatcher: core 0 brings the workers     *)
(* online, enables floating point on each, and then calls matmul again and *)
(* again.  matmul splits the d rows of its output over all the cores,      *)
(* writes one argument record per core, issues a command to each worker    *)
(* without looking at the status, computes its own share and waits.        *)
(*                                                                         *)
(* The dispatcher is Multicore itself, action by action; its arbitrary     *)
(* client is replaced by this program.  A row is abstracted to the number  *)
(* of times it has been computed in the current call and to which call it  *)
(* was computed for.                                                       *)
(***************************************************************************)
EXTENDS Multicore

CONSTANTS
  MatmulWorker,  \* matmul_worker
  EnableVfp,     \* worker_enable_vfp
  Ds             \* the numbers of rows matmul is called with

ASSUME MatmulConstants ==
  /\ Funcs = {MatmulWorker, EnableVfp}
  /\ MatmulWorker # EnableVfp
  /\ Args = Cores /\ NullArg = 0  \* &matmul_args[c] is c; a worker is never given 0
  /\ Ds \subseteq Nat

VARIABLES
  mpc,          \* where core 0 is in the program
  mc,           \* its loop variable c
  d,            \* rows of the current call
  stamp,        \* tells the current call's operands from the previous call's
  matmul_args,  \* matmul_args[c]: the record core c works from
  row,          \* row[c]: the loop variable i of matmul_worker, NoRow outside it
  xout,         \* xout[i]: the call row i was last computed for
  hits,         \* hits[i]: how often row i was computed in the current call
  vfp           \* vfp[c]: core c may execute floating-point instructions

progress == <<mpc, mc, d, stamp>>
rows == <<row, xout, hits>>
matmul_vars == <<progress, matmul_args, rows, vfp>>
all_vars == <<vars, matmul_vars>>

NoRow == -1
RowIds == UNION {0 .. (n - 1) : n \in Ds}
Smaller(a, b) == IF a < b THEN a ELSE b

\* Slip: the last, partial chunk is rounded away.
ChunkDown(n) == n \div NumCores

Chunk(n) == (n + NumCores - 1) \div NumCores
Lo(c, n) == Smaller(c * Chunk(n), n)
Hi(c, n) == Smaller(c * Chunk(n) + Chunk(n), n)

MatmulArgs == [stamp : {0, 1}, d_start : Nat, d_end : Nat]

MatmulTypeOK ==
  /\ TypeOK
  /\ mpc \in {"boot", "vfp", "ready", "fill", "dispatch", "own", "wait", "returned"}
  /\ mc \in 0 .. NumCores
  /\ d \in Ds \cup {0}
  /\ stamp \in {0, 1}
  /\ matmul_args \in [Cores -> MatmulArgs]
  /\ row \in [Cores -> Nat \cup {NoRow}]
  /\ xout \in [RowIds -> {0, 1}]
  /\ hits \in [RowIds -> Nat]
  /\ vfp \in [Cores -> BOOLEAN]

MatmulInit ==
  /\ Init
  /\ mpc = "boot"
  /\ mc = 0
  /\ d = 0
  /\ stamp = 0
  /\ matmul_args = [c \in Cores |-> [stamp |-> 0, d_start |-> 0, d_end |-> 0]]
  /\ row = [c \in Cores |-> NoRow]
  /\ xout = [i \in RowIds |-> 0]
  /\ hits = [i \in RowIds |-> 0]
  /\ vfp = [c \in Cores |-> c = 0]

-----------------------------------------------------------------------------
\* notmain_llama_inference up to the first matmul.

BootInit ==
  /\ mpc = "boot"
  /\ InitMailbox
  /\ mpc' = "vfp"
  /\ mc' = 1
  /\ UNCHANGED <<d, stamp, matmul_args, rows, vfp>>

\* Slip: the loop over the workers stops one short.
CallEnableVfpShort ==
  /\ mpc = "vfp"
  /\ mc < NumCores - 1
  /\ BeginCall("call", mc, EnableVfp, NullArg)
  /\ mc' = mc + 1
  /\ mpc' = IF mc = NumCores - 2 THEN "ready" ELSE mpc
  /\ UNCHANGED <<d, stamp, matmul_args, rows, vfp>>

CallEnableVfp ==
  /\ mpc = "vfp"
  /\ BeginCall("call", mc, EnableVfp, NullArg)
  /\ mc' = mc + 1
  /\ mpc' = IF mc = NumCores - 1 THEN "ready" ELSE mpc
  /\ UNCHANGED <<d, stamp, matmul_args, rows, vfp>>

-----------------------------------------------------------------------------
\* matmul on core 0.

BeginMatmul(n) ==
  /\ mpc \in {"ready", "returned"}
  /\ pc[0] = "idle"
  /\ mpc' = "fill"
  /\ mc' = 0
  /\ d' = n
  /\ stamp' = 1 - stamp
  /\ hits' = [i \in RowIds |-> 0]
  /\ UNCHANGED <<vars, matmul_args, row, xout, vfp>>

FillArgs ==
  /\ mpc = "fill"
  /\ matmul_args' = [matmul_args EXCEPT ![mc] =
                       [stamp |-> stamp, d_start |-> Lo(mc, d), d_end |-> Hi(mc, d)]]
  /\ IF mc = NumCores - 1 THEN mpc' = "dispatch" /\ mc' = 1
                          ELSE mpc' = mpc /\ mc' = mc + 1
  /\ UNCHANGED <<vars, d, stamp, rows, vfp>>

\* The status of the call is ignored.
Dispatch ==
  /\ mpc = "dispatch"
  /\ BeginCall("async", mc, MatmulWorker, mc)
  /\ mc' = mc + 1
  /\ mpc' = IF mc = NumCores - 1 THEN "own" ELSE mpc
  /\ UNCHANGED <<d, stamp, matmul_args, rows, vfp>>

\* Slip: matmul returns without waiting for the workers.
AwaitWorkersDropped ==
  /\ mpc = "wait"
  /\ mpc' = "returned"
  /\ UNCHANGED <<vars, mc, d, stamp, matmul_args, rows, vfp>>

AwaitWorkers ==
  /\ mpc = "wait"
  /\ BeginWait("wait_all", 1)
  /\ mpc' = "returned"
  /\ UNCHANGED <<mc, d, stamp, matmul_args, rows, vfp>>

-----------------------------------------------------------------------------
\* matmul_worker on core c with the record matmul_args[a]; it reads the record
\* again on every turn of its loop.

EnterRows(c, a) ==
  /\ row[c] = NoRow
  /\ row' = [row EXCEPT ![c] = matmul_args[a].d_start]
  /\ UNCHANGED <<vars, progress, matmul_args, xout, hits, vfp>>

ComputeRow(c, a) ==
  /\ row[c] # NoRow
  /\ row[c] < matmul_args[a].d_end
  /\ xout' = [xout EXCEPT ![row[c]] = matmul_args[a].stamp]
  /\ hits' = [hits EXCEPT ![row[c]] = @ + 1]
  /\ row' = [row EXCEPT ![c] = @ + 1]
  /\ UNCHANGED <<vars, progress, matmul_args, vfp>>

LeaveRows(c, a) ==
  /\ row[c] # NoRow
  /\ row[c] >= matmul_args[a].d_end
  /\ row' = [row EXCEPT ![c] = NoRow]
  /\ UNCHANGED <<matmul_args, xout, hits, vfp>>

OwnRows ==
  /\ mpc = "own"
  /\ pc[0] = "idle"
  /\ \/ EnterRows(0, 0)
     \/ ComputeRow(0, 0)
     \/ LeaveRows(0, 0) /\ mpc' = "wait" /\ UNCHANGED <<vars, mc, d, stamp>>

WorkerRows(w) ==
  /\ pc[w] = "run"
  /\ w_func[w] = MatmulWorker
  /\ \/ EnterRows(w, w_arg[w])
     \/ ComputeRow(w, w_arg[w])
     \/ LeaveRows(w, w_arg[w]) /\ FuncReturns(w) /\ UNCHANGED progress

WorkerEnableVfp(w) ==
  /\ w_func[w] = EnableVfp
  /\ FuncReturns(w)
  /\ vfp' = [vfp EXCEPT ![w] = TRUE]
  /\ UNCHANGED <<progress, matmul_args, rows>>

WorkerLoop(w) ==
  /\ pc[w] # "run"
  /\ WorkerStep(w)
  /\ UNCHANGED matmul_vars

Core0 ==
  \/ BootInit \/ CallEnableVfp
  \/ \E n \in Ds : BeginMatmul(n)
  \/ FillArgs \/ Dispatch \/ OwnRows \/ AwaitWorkers
  \/ HostStep /\ UNCHANGED matmul_vars

Worker(w) == WorkerRows(w) \/ WorkerEnableVfp(w) \/ WorkerLoop(w)

MatmulNext == Core0 \/ \E w \in Workers : Worker(w)

MatmulSpec == MatmulInit /\ [][MatmulNext]_all_vars

\* Every core runs.
FairMatmulSpec ==
  /\ MatmulSpec
  /\ WF_all_vars(Core0)
  /\ \A w \in Workers : WF_all_vars(Worker(w))

-----------------------------------------------------------------------------
\* What must hold.

\* When matmul returns, every row of the output has been computed exactly once,
\* from this call's operands, and nothing beyond it has been written, although
\* matmul never looks at a status and reuses the argument records.
MatmulComplete ==
  mpc = "returned" /\ pc[0] = "idle" =>
    \A i \in RowIds : /\ i < d => hits[i] = 1 /\ xout[i] = stamp
                      /\ i >= d => hits[i] = 0

\* matmul never rewrites a record that a worker still has a command for.
ArgsNotOverwritten ==
  [][ \A w \in Workers : matmul_args'[w] # matmul_args[w] => ~Outstanding(w) ]_all_vars

\* No core reaches matmul_worker, which is compiled to floating-point vector
\* instructions, before floating point was enabled on it.
VfpBeforeRows == \A c \in Cores : row[c] # NoRow => vfp[c]

\* Every call of matmul returns, and another one is made.
MatmulReturns == mpc = "fill" ~> mpc = "returned" /\ pc[0] = "idle"
=============================================================================

------------------------------ MODULE MatmulMC ------------------------------
\* The dispatcher under both its clients: any program, of which one function with two
\* arguments is enough, and matmul.
EXTENDS Matmul

VARIABLE client   \* which of the two runs on core 0

MCVars == <<all_vars, client>>

MCInit == MatmulInit /\ client \in {"any", "matmul"}

\* One worker is given either of two arguments, the other always the same.
AnyClient == Client /\ func' # MatmulWorker /\ (arg' = 0 \/ (core_id' = 1 /\ arg' = 1))

CoreZero ==
  /\ IF client = "any" THEN HostStep /\ UNCHANGED matmul_vars ELSE Core0
  /\ UNCHANGED client

CoreN(w) ==
  /\ IF client = "any" THEN WorkerStep(w) /\ UNCHANGED matmul_vars ELSE Worker(w)
  /\ UNCHANGED client

MCNext ==
  \/ client = "any" /\ AnyClient /\ UNCHANGED <<matmul_vars, client>>
  \/ CoreZero
  \/ \E w \in Workers : CoreN(w)

\* As in FairSpec and in FairMatmulSpec.
MCSpec ==
  /\ MCInit /\ [][MCNext]_MCVars
  /\ WF_MCVars(CoreZero)
  /\ \A w \in Workers : WF_MCVars(CoreN(w))
=============================================================================

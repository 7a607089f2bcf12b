\* Three cores: 1 row leaves two of them without work, 4 rows leave the last one
\* with an empty share, 5 rows with a short one.  Sequence numbers that wrap.
SPECIFICATION MCSpec
CONSTANTS
  NumCores = 3
  MatmulWorker = matmul_worker
  EnableVfp = worker_enable_vfp
  Funcs = {matmul_worker, worker_enable_vfp}
  NullFunc = null
  Args = {0, 1, 2}
  NullArg = 0
  SeqMod = 2
  Ds = {1, 4, 5}
INVARIANTS SlotHeld NoLostWakeup MatmulComplete VfpBeforeRows
PROPERTIES WaitAllQuiesces ImplementsTaskDispatch CommandAcknowledged ArgsNotOverwritten MatmulReturns

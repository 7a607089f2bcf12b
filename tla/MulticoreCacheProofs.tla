------------------------ MODULE MulticoreCacheProofs ------------------------
(***************************************************************************)
(* Proofs about MulticoreCache, for any number of workers and any width of *)
(* the sequence numbers: while caches are being turned on, and whatever    *)
(* the hardware evicts or fetches outside the window, no stale line is     *)
(* left behind, and neither multicore_check_done nor multicore_wait takes  *)
(* a command for finished whose function has not run.                      *)
(***************************************************************************)
EXTENDS MulticoreCache, TLAPS

Seqs == 0 .. (SeqMod - 1)
Tasks == Funcs \cup {NullFunc}
Vals == Tasks \cup Seqs

Labels ==
  {"idle", "busy?", "func", "seq", "clean_func", "clean_seq", "call_sev", "expect", "inv",
   "done?", "wait_wfe", "poll", "wfe", "ld_seq", "ld_func", "run", "done", "done_sev"}

TypeOK ==
  /\ mem \in [Lines -> Vals]
  /\ cache \in [Lines -> [v : Vals, dirty : BOOLEAN, valid : BOOLEAN]]
  /\ cached \in [Cores -> BOOLEAN]
  /\ pc \in [Cores -> Labels]
  /\ core_id \in Workers
  /\ func \in Tasks
  /\ expected_seq \in Seqs
  /\ w_seq \in [Workers -> Seqs]
  /\ w_func \in [Workers -> Tasks]
  /\ issued \in [Workers -> Tasks]
  /\ ran \in [Workers -> SUBSET Tasks]

-----------------------------------------------------------------------------
\* Lines.

\* The core that writes a line.
Owner(l) == IF l[1] = "done" THEN l[2] ELSE 0

\* What its owner last wrote.
Latest(l) == IF cache[l].dirty THEN cache[l].v ELSE mem[l]

\* The cache holds a line only once core 0 looks into it, a dirty one only if its owner
\* does, and then a clean one agrees with memory.
Coherent(l) ==
  /\ cache[l].valid => cached[0]
  /\ cache[l].dirty => cache[l].valid /\ cached[Owner(l)]
  /\ cached[Owner(l)] /\ cache[l].valid /\ ~cache[l].dirty => cache[l].v = mem[l]

\* Core 0 is the first to turn its MMU on.
Coherence ==
  /\ \A c \in Cores : cached[c] => cached[0]
  /\ \A l \in Lines : Coherent(l)

\* What moving a line between cache and memory may do to it.
Same(l) == mem'[l] = mem[l] /\ cache'[l] = cache[l]
Fetched(l) == cached[0] /\ ~cache[l].valid /\ mem'[l] = mem[l] /\ cache'[l] = Clean(mem[l])
Cleaned(l) == mem'[l] = Latest(l) /\ cache'[l] = [cache[l] EXCEPT !.dirty = FALSE]
Dropped(l) == mem'[l] = Latest(l) /\ cache'[l] = Absent
Moved(l) == Same(l) \/ Fetched(l) \/ Cleaned(l) \/ Dropped(l)

\* What that means for the command words of worker w.
Kept(w) ==
  /\ Latest(Func(w))' = Latest(Func(w))
  /\ Latest(Seq(w))' = Latest(Seq(w))
  /\ Latest(Done(w))' = Latest(Done(w))
  /\ mem'[Func(w)] = mem[Func(w)] \/ mem'[Func(w)] = Latest(Func(w))
  /\ mem'[Seq(w)] = mem[Seq(w)] \/ mem'[Seq(w)] = Latest(Seq(w))
  /\ cache'[Done(w)].valid =>
       \/ cache[Done(w)].valid /\ cache'[Done(w)].v = cache[Done(w)].v
       \/ ~cache[Done(w)].valid /\ cache'[Done(w)].v = Latest(Done(w))

\* The three lines of a worker are lines, and distinct from each other and from every
\* other worker's.
LEMMA LineFacts ==
  ASSUME NEW w \in Workers
  PROVE  /\ Func(w) \in Lines /\ Seq(w) \in Lines /\ Done(w) \in Lines
         /\ Owner(Func(w)) = 0 /\ Owner(Seq(w)) = 0 /\ Owner(Done(w)) = w
         /\ 0 \in Cores /\ w \in Cores /\ w # 0
         /\ \A u \in Workers : /\ Func(u) # Seq(w) /\ Func(u) # Done(w) /\ Seq(u) # Done(w)
                               /\ Seq(u) # Func(w) /\ Done(u) # Func(w) /\ Done(u) # Seq(w)
                               /\ u # w => /\ Func(u) # Func(w) /\ Seq(u) # Seq(w)
                                           /\ Done(u) # Done(w)
  BY CacheConstants DEF Lines, Func, Seq, Done, Owner, Workers, Cores

\* Every line has an owner among the cores.
LEMMA OwnerIsCore == ASSUME NEW l \in Lines PROVE Owner(l) \in Cores
  BY CacheConstants DEF Lines, Owner, Workers, Cores

LEMMA SuccFacts ==
  ASSUME NEW s \in Seqs
  PROVE  Succ(s) \in Seqs /\ Succ(s) # s
         /\ \A t \in Seqs : Succ(t) = Succ(s) => t = s
  BY CacheConstants DEF Seqs, Succ

\* A moved line stays coherent and keeps its value.
LEMMA MoveKeeps ==
  ASSUME TypeOK, Coherence, NEW l \in Lines, Moved(l), cached' = cached
  PROVE  /\ Coherent(l)'
         /\ Latest(l)' = Latest(l)
         /\ mem'[l] = mem[l] \/ mem'[l] = Latest(l)
         /\ cache'[l].valid => \/ cache[l].valid /\ cache'[l].v = cache[l].v
                               \/ ~cache[l].valid /\ cache'[l].v = Latest(l)
         /\ mem'[l] \in Vals
         /\ cache'[l] \in [v : Vals, dirty : BOOLEAN, valid : BOOLEAN]
  <1>1. /\ cache[l] \in [v : Vals, dirty : BOOLEAN, valid : BOOLEAN] /\ mem[l] \in Vals
        /\ Coherent(l) /\ NullFunc \in Vals /\ Latest(l) \in Vals
    BY DEF TypeOK, Coherence, Vals, Tasks, Latest
  <1>2. CASE Same(l)
    BY <1>1, <1>2 DEF Same, Coherent, Latest
  <1>3. CASE Fetched(l)
    BY <1>1, <1>3 DEF Fetched, Coherent, Latest, Clean
  <1>4. CASE Cleaned(l)
    BY <1>1, <1>4 DEF Cleaned, Coherent, Latest
  <1>5. CASE Dropped(l)
    BY <1>1, <1>5 DEF Dropped, Coherent, Latest, Absent
  <1> QED
    BY <1>2, <1>3, <1>4, <1>5 DEF Moved

\* So memory as a whole stays coherent, and the command words keep what they say.
LEMMA MovesKeep ==
  ASSUME TypeOK, Coherence, \A l \in Lines : Moved(l), cached' = cached
  PROVE  Coherence' /\ \A w \in Workers : Kept(w)
  <1>1. Coherence'
    BY MoveKeeps DEF Coherence
  <1>2. ASSUME NEW w \in Workers PROVE Kept(w)
    BY MoveKeeps, LineFacts DEF Kept
  <1> QED
    BY <1>1, <1>2

-----------------------------------------------------------------------------
\* The inductive invariant.

Sent(w) == Latest(Seq(w))
Acked(w) == Latest(Done(w))
Pending(w) == Acked(w) # Sent(w)

\* Core 0 is at one of the labels in a call about w.
About(w, labels) == pc[0] \in labels /\ core_id = w

Working(w) == pc[w] \in {"ld_seq", "ld_func", "run", "done"}

\* The command words count together, by at most one apart; what has run is what was issued, and
\* has run once it is acknowledged.
Counts(w) ==
  /\ Sent(w) \in Seqs /\ Acked(w) \in Seqs
  /\ Latest(Func(w)) = issued[w]
  /\ ran[w] \subseteq {issued[w]}
  /\ issued[w] = EnableMmu => cached[0]
  /\ Pending(w) => Succ(Acked(w)) = Sent(w) /\ issued[w] \in Funcs
  /\ ~Pending(w) /\ issued[w] # NullFunc /\ ~About(w, {"seq"}) => issued[w] \in ran[w]

\* The copy of cmd_done that a cached core 0 sees of a worker that writes past the cache: it may
\* be one acknowledgement behind, but only while no command is pending.
DoneCopy(w) ==
  ~cached[w] /\ cache[Done(w)].valid =>
    \/ cache[Done(w)].v = Acked(w)
    \/ ~Pending(w) /\ cache[Done(w)].v \in Seqs /\ Succ(cache[Done(w)].v) = Sent(w)

\* What a worker that reads past the cache finds in memory: the command, whose number may still
\* be on its way when the function is not.
CommandInMemory(w) ==
  ~cached[w] =>
    /\ \/ mem[Seq(w)] = Sent(w)
       \/ mem[Seq(w)] = Acked(w) /\ About(w, {"clean_func", "clean_seq"})
    /\ \/ mem[Func(w)] = issued[w]
       \/ cached[0] /\ About(w, {"seq"})
       \/ cached[0] /\ About(w, {"clean_func"}) /\ mem[Seq(w)] # Sent(w)

WorkerInv(w) ==
  /\ Working(w) => Pending(w) /\ (cached[w] \/ mem[Seq(w)] = Sent(w))
  /\ pc[w] \in {"ld_func", "run", "done"} => w_seq[w] = Sent(w)
  /\ pc[w] = "run" => w_func[w] = issued[w]
  /\ pc[w] = "done" => issued[w] \in ran[w]

\* Core 0 issues a command only when none is pending, and then its copy of cmd_done is up to date.
HostInv(w) ==
  /\ About(w, {"func", "seq"}) =>
       ~Pending(w) /\ (cache[Done(w)].valid => cache[Done(w)].v = Sent(w))
  /\ About(w, {"seq"}) => issued[w] \in Funcs
  /\ About(w, {"inv", "done?", "wait_wfe"}) => expected_seq = Sent(w)

CallInv ==
  /\ pc[0] \in {"busy?", "func"} => func \in Funcs
  /\ func = EnableMmu => cached[0]
  /\ status = "DONE" => /\ pc[0] = "idle"
                        /\ issued[core_id] # NullFunc => issued[core_id] \in ran[core_id]

PerWorker(w) ==
  Counts(w) /\ DoneCopy(w) /\ CommandInMemory(w) /\ WorkerInv(w) /\ HostInv(w)

Inv == TypeOK /\ Coherence /\ CallInv /\ \A w \in Workers : PerWorker(w)

-----------------------------------------------------------------------------
\* The ways to reach a line only move lines.

CacheType == [v : Vals, dirty : BOOLEAN, valid : BOOLEAN]

Moves == /\ \A l \in Lines : Moved(l)
         /\ mem' \in [Lines -> Vals] /\ cache' \in [Lines -> CacheType]

LEMMA StillMoves ==
  ASSUME TypeOK, UNCHANGED <<mem, cache>>
  PROVE  Moves
  BY DEF Moves, Moved, Same, TypeOK, CacheType

LEMMA TouchMoves ==
  ASSUME TypeOK, Coherence, NEW c \in Cores, NEW ls, Touch(c, ls), mem' = mem
  PROVE  /\ Moves
         /\ \A l \in Lines : l \notin ls => cache'[l] = cache[l]
         /\ \A l \in Lines : l \in ls /\ cached[c] => cache'[l].valid
  <1>1. cache' \in [Lines -> CacheType]
    BY DEF Touch, TypeOK, CacheType, Clean
  <1>2. ASSUME NEW l \in Lines
        PROVE  /\ Moved(l)
               /\ l \notin ls => cache'[l] = cache[l]
               /\ l \in ls /\ cached[c] => cache'[l].valid
    <2>1. cache'[l] = IF cached[c] /\ l \in ls /\ ~cache[l].valid THEN Clean(mem[l]) ELSE cache[l]
      BY DEF Touch
    <2>2. mem'[l] = mem[l] /\ (cached[c] => cached[0])
      BY DEF Coherence
    <2> QED
      BY <2>1, <2>2 DEF Moved, Same, Fetched, Clean
  <1> QED
    BY <1>1, <1>2 DEF Moves, TypeOK

LEMMA FillMoves ==
  ASSUME TypeOK, Coherence, NEW k \in Lines, Fill(k)
  PROVE  Moves
  <1>1. cached[0] /\ ~cache[k].valid /\ cache' = [cache EXCEPT ![k] = Clean(mem[k])] /\ mem' = mem
    BY DEF Fill, Coherence
  <1>2. Clean(mem[k]) \in CacheType
    BY DEF TypeOK, Clean, CacheType
  <1>3. cache' \in [Lines -> CacheType]
    BY <1>1, <1>2 DEF TypeOK, CacheType
  <1>4. \A l \in Lines : Moved(l)
    BY <1>1 DEF Moved, Same, Fetched, TypeOK
  <1> QED
    BY <1>1, <1>3, <1>4 DEF Moves, TypeOK

LEMMA DropMoves ==
  ASSUME TypeOK, Coherence, NEW k \in Lines, Drop(k)
  PROVE  /\ Moves
         /\ \A l \in Lines : l # k => mem'[l] = mem[l] /\ cache'[l] = cache[l]
  <1>1. mem[k] \in Vals /\ cache[k] \in CacheType /\ Absent \in CacheType
    BY DEF TypeOK, CacheType, Absent, Vals, Tasks
  <1>2. mem' = [mem EXCEPT ![k] = Latest(k)] /\ Latest(k) \in Vals
    BY <1>1 DEF Drop, Latest, TypeOK, CacheType
  <1>3. cache' = [cache EXCEPT ![k] = Absent]
    BY DEF Drop
  <1>4. mem' \in [Lines -> Vals] /\ cache' \in [Lines -> CacheType]
    BY <1>1, <1>2, <1>3 DEF TypeOK, CacheType
  <1>5. \A l \in Lines : Moved(l)
    BY <1>2, <1>3 DEF Moved, Same, Dropped, TypeOK
  <1> QED
    BY <1>2, <1>3, <1>4, <1>5 DEF Moves, TypeOK

LEMMA DcCleanMoves ==
  ASSUME TypeOK, Coherence, NEW k \in Lines, DcClean(k)
  PROVE  /\ Moves
         /\ mem'[k] = Latest(k)
         /\ \A l \in Lines : l # k => mem'[l] = mem[l] /\ cache'[l] = cache[l]
  <1>1. mem[k] \in Vals /\ cache[k] \in CacheType
    BY DEF TypeOK, CacheType
  <1>2. CASE cache[k].dirty
    <2>1. mem' = [mem EXCEPT ![k] = Latest(k)] /\ Latest(k) \in Vals
      BY <1>1, <1>2 DEF DcClean, Latest, CacheType
    <2>2. cache' = [cache EXCEPT ![k] = [cache[k] EXCEPT !.dirty = FALSE]]
      BY <1>2 DEF DcClean
    <2>3. mem' \in [Lines -> Vals] /\ cache' \in [Lines -> CacheType]
      BY <1>1, <2>1, <2>2 DEF TypeOK, CacheType
    <2>4. \A l \in Lines : Moved(l)
      BY <2>1, <2>2 DEF Moved, Same, Cleaned, TypeOK
    <2> QED
      BY <2>1, <2>2, <2>3, <2>4 DEF Moves, TypeOK
  <1>3. CASE ~cache[k].dirty
    BY <1>3, StillMoves DEF DcClean, Latest
  <1> QED
    BY <1>2, <1>3

\* A write by its owner makes a value the latest, and leaves the other lines alone.
LEMMA WriteLatest ==
  ASSUME TypeOK, Coherence, NEW k \in Lines, NEW v \in Vals, Write(Owner(k), k, v),
         cached' = cached
  PROVE  /\ Coherence'
         /\ Latest(k)' = v
         /\ \A l \in Lines : l # k => mem'[l] = mem[l] /\ cache'[l] = cache[l]
         /\ IF cached[Owner(k)] THEN mem'[k] = mem[k] ELSE mem'[k] = v /\ cache'[k] = cache[k]
         /\ mem' \in [Lines -> Vals] /\ cache' \in [Lines -> CacheType]
  <1>1. Owner(k) \in Cores /\ cache[k] \in CacheType /\ Coherent(k) /\ Dirty(v) \in CacheType
    BY OwnerIsCore DEF TypeOK, CacheType, Dirty, Coherence
  <1>2. CASE cached[Owner(k)]
    <2>1. mem' = mem /\ cache' = [cache EXCEPT ![k] = Dirty(v)]
      BY <1>2 DEF Write
    <2>2. cached[0]
      BY <1>1, <1>2 DEF Coherence
    <2>3. cache'[k] = Dirty(v)
      BY <2>1 DEF TypeOK
    <2>4. Coherent(k)' /\ Latest(k)' = v
      BY <1>2, <2>2, <2>3 DEF Coherent, Latest, Dirty
    <2>5. \A l \in Lines : l # k => mem'[l] = mem[l] /\ cache'[l] = cache[l]
      BY <2>1 DEF TypeOK
    <2>6. \A l \in Lines : l # k => Coherent(l)'
      BY <2>5 DEF Coherence, Coherent
    <2>7. cache' \in [Lines -> CacheType]
      BY <1>1, <2>1 DEF TypeOK, CacheType
    <2> QED
      BY <1>2, <2>1, <2>4, <2>5, <2>6, <2>7 DEF Coherence, TypeOK
  <1>3. CASE ~cached[Owner(k)]
    <2>1. cache' = cache /\ mem' = [mem EXCEPT ![k] = v]
      BY <1>3 DEF Write
    <2>2. Coherent(k)' /\ Latest(k)' = v
      BY <1>1, <1>3, <2>1 DEF Coherent, Latest, TypeOK
    <2>3. \A l \in Lines : l # k => mem'[l] = mem[l] /\ cache'[l] = cache[l]
      BY <2>1 DEF TypeOK
    <2>4. \A l \in Lines : l # k => Coherent(l)'
      BY <2>3 DEF Coherence, Coherent
    <2>5. mem'[k] = v /\ mem' \in [Lines -> Vals]
      BY <2>1 DEF TypeOK
    <2> QED
      BY <1>3, <2>1, <2>2, <2>3, <2>4, <2>5 DEF Coherence, TypeOK, CacheType
  <1> QED
    BY <1>2, <1>3

-----------------------------------------------------------------------------
\* What reads find.

LEMMA ReadFacts ==
  ASSUME Inv, NEW w \in Workers
  PROVE  /\ Read(0, Seq(w)) = Sent(w)
         /\ Read(w, Done(w)) = Acked(w)
         /\ cached[w] => Read(w, Seq(w)) = Sent(w) /\ Read(w, Func(w)) = issued[w]
         /\ ~cached[w] => Read(w, Seq(w)) = mem[Seq(w)] /\ Read(w, Func(w)) = mem[Func(w)]
         /\ ~cache[Done(w)].valid => Read(0, Done(w)) = Acked(w)
         /\ cache[Done(w)].valid => Read(0, Done(w)) = cache[Done(w)].v
         /\ cached[w] => Read(0, Done(w)) = Acked(w)
  <1>1. /\ Coherent(Func(w)) /\ Coherent(Seq(w)) /\ Coherent(Done(w))
        /\ Latest(Func(w)) = issued[w] /\ (cached[w] => cached[0])
    BY LineFacts DEF Inv, Coherence, PerWorker, Counts
  <1>2. /\ cache[Func(w)].valid \in BOOLEAN /\ cache[Func(w)].dirty \in BOOLEAN
        /\ cache[Seq(w)].valid \in BOOLEAN /\ cache[Seq(w)].dirty \in BOOLEAN
        /\ cache[Done(w)].valid \in BOOLEAN /\ cache[Done(w)].dirty \in BOOLEAN
    BY LineFacts DEF Inv, TypeOK
  <1>3. Owner(Func(w)) = 0 /\ Owner(Seq(w)) = 0 /\ Owner(Done(w)) = w
    BY LineFacts
  <1>4. Read(0, Seq(w)) = Sent(w)
    BY <1>1, <1>2, <1>3 DEF Coherent, Latest, Read, Sent
  <1>5. Read(w, Done(w)) = Acked(w)
    BY <1>1, <1>2, <1>3 DEF Coherent, Latest, Read, Acked
  <1>6. cached[w] => Read(w, Seq(w)) = Sent(w) /\ Read(w, Func(w)) = issued[w]
    BY <1>1, <1>2, <1>3 DEF Coherent, Latest, Read, Sent
  <1>7. ~cached[w] => Read(w, Seq(w)) = mem[Seq(w)] /\ Read(w, Func(w)) = mem[Func(w)]
    BY DEF Read
  <1>8. /\ ~cache[Done(w)].valid => Read(0, Done(w)) = Acked(w)
        /\ cache[Done(w)].valid => Read(0, Done(w)) = cache[Done(w)].v
        /\ cached[w] => Read(0, Done(w)) = Acked(w)
    BY <1>1, <1>2, <1>3 DEF Coherent, Latest, Read, Acked
  <1> QED
    BY <1>4, <1>5, <1>6, <1>7, <1>8

\* A cmd_done that equals cmd_seq is no stale copy: nothing is pending.
LEMMA DoneRead ==
  ASSUME Inv, NEW w \in Workers, Read(0, Done(w)) = Sent(w)
  PROVE  ~Pending(w) /\ (cache[Done(w)].valid => cache[Done(w)].v = Sent(w))
  BY ReadFacts, SuccFacts DEF Inv, PerWorker, DoneCopy, Pending

-----------------------------------------------------------------------------
\* What stays true of a worker while lines move.

LEMMA CountsKept ==
  ASSUME Inv, NEW w \in Workers, Kept(w), UNCHANGED <<cached, history>>,
         About(w, {"seq"}) => About(w, {"seq"})'
  PROVE  Counts(w)'
  <1>1. Counts(w) /\ Sent(w)' = Sent(w) /\ Acked(w)' = Acked(w) /\ Latest(Func(w))' = Latest(Func(w))
    BY DEF Inv, PerWorker, Kept, Sent, Acked
  <1>2. issued' = issued /\ ran' = ran
    BY DEF history
  <1> QED
    BY <1>1, <1>2 DEF Counts, Pending

LEMMA DoneCopyKept ==
  ASSUME Inv, NEW w \in Workers, Kept(w), cached' = cached
  PROVE  DoneCopy(w)'
  <1>1. DoneCopy(w) /\ Sent(w)' = Sent(w) /\ Acked(w)' = Acked(w)
    BY DEF Inv, PerWorker, Kept, Sent, Acked
  <1>2. cache'[Done(w)].valid =>
          \/ cache[Done(w)].valid /\ cache'[Done(w)].v = cache[Done(w)].v
          \/ cache'[Done(w)].v = Acked(w)
    BY DEF Kept, Acked
  <1> QED
    BY <1>1, <1>2 DEF DoneCopy, Pending

LEMMA CommandKept ==
  ASSUME Inv, NEW w \in Workers, Kept(w), UNCHANGED <<cached, history>>,
         About(w, {"seq"}) => About(w, {"seq"})',
         About(w, {"clean_func"}) => About(w, {"clean_func"})' /\ mem'[Seq(w)] = mem[Seq(w)],
         About(w, {"clean_func", "clean_seq"}) =>
           About(w, {"clean_func", "clean_seq"})' \/ mem'[Seq(w)] = Sent(w)
  PROVE  CommandInMemory(w)'
  <1>1. /\ CommandInMemory(w) /\ Latest(Func(w)) = issued[w]
        /\ Sent(w)' = Sent(w) /\ Acked(w)' = Acked(w)
    BY DEF Inv, PerWorker, Kept, Sent, Acked, Counts
  <1>2. /\ mem'[Func(w)] = mem[Func(w)] \/ mem'[Func(w)] = issued[w]
        /\ mem'[Seq(w)] = mem[Seq(w)] \/ mem'[Seq(w)] = Sent(w)
        /\ issued' = issued
    BY <1>1 DEF Kept, Sent, history
  <1> QED
    BY <1>1, <1>2 DEF CommandInMemory

LEMMA WorkerKept ==
  ASSUME Inv, NEW w \in Workers, Kept(w), UNCHANGED <<cached, history>>,
         pc'[w] = pc[w], w_seq'[w] = w_seq[w], w_func'[w] = w_func[w]
  PROVE  WorkerInv(w)'
  <1>1. WorkerInv(w) /\ Sent(w)' = Sent(w) /\ Acked(w)' = Acked(w)
    BY DEF Inv, PerWorker, Kept, Sent, Acked
  <1>2. issued' = issued /\ ran' = ran
    BY DEF history
  <1>3. mem'[Seq(w)] = mem[Seq(w)] \/ mem'[Seq(w)] = Sent(w)
    BY DEF Kept, Sent
  <1> QED
    BY <1>1, <1>2, <1>3 DEF WorkerInv, Working, Pending

LEMMA HostKept ==
  ASSUME Inv, NEW w \in Workers, Kept(w), UNCHANGED <<cached, history>>,
         About(w, {"func", "seq"})' => About(w, {"func", "seq"}),
         About(w, {"seq"})' => About(w, {"seq"}),
         About(w, {"inv", "done?", "wait_wfe"})' =>
           About(w, {"inv", "done?", "wait_wfe"}) /\ expected_seq' = expected_seq
  PROVE  HostInv(w)'
  <1>1. HostInv(w) /\ Sent(w)' = Sent(w) /\ Acked(w)' = Acked(w)
    BY DEF Inv, PerWorker, Kept, Sent, Acked
  <1>2. cache'[Done(w)].valid =>
          \/ cache[Done(w)].valid /\ cache'[Done(w)].v = cache[Done(w)].v
          \/ cache'[Done(w)].v = Acked(w)
    BY DEF Kept, Acked
  <1>3. issued' = issued
    BY DEF history
  <1> QED
    BY <1>1, <1>2, <1>3 DEF HostInv, Pending

\* A step in which core 0 neither goes on nor returns.
LEMMA HostStays ==
  ASSUME Inv, NEW w \in Workers, Kept(w),
         UNCHANGED <<cached, history, core_id, expected_seq>>, pc'[0] = pc[0],
         About(w, {"clean_func"}) => mem'[Seq(w)] = mem[Seq(w)]
  PROVE  Counts(w)' /\ DoneCopy(w)' /\ CommandInMemory(w)' /\ HostInv(w)'
  <1>1. \A L : About(w, L)' <=> About(w, L)
    BY DEF About
  <1>2. Counts(w)'
    BY <1>1, CountsKept
  <1>3. CommandInMemory(w)'
    BY <1>1, CommandKept
  <1>4. HostInv(w)'
    BY <1>1, HostKept
  <1> QED
    BY <1>2, <1>3, <1>4, DoneCopyKept

\* A step that core 0 takes from where the words are settled to where they still are.
LEMMA HostCalm ==
  ASSUME Inv, NEW w \in Workers, Kept(w), UNCHANGED <<cached, history, locals>>, pc'[w] = pc[w],
         pc[0] \notin {"seq", "clean_func", "clean_seq"}
  PROVE  Counts(w)' /\ DoneCopy(w)' /\ CommandInMemory(w)' /\ WorkerInv(w)'
  <1>2. ~About(w, {"seq"}) /\ ~About(w, {"clean_func"}) /\ ~About(w, {"clean_func", "clean_seq"})
    BY DEF About
  <1>3. Counts(w)'
    BY <1>2, CountsKept
  <1>4. CommandInMemory(w)'
    BY <1>2, CommandKept
  <1>5. WorkerInv(w)'
    BY WorkerKept DEF locals
  <1> QED
    BY <1>3, <1>4, <1>5, DoneCopyKept

-----------------------------------------------------------------------------
\* The hardware's own steps.

LEMMA EvictStep ==
  ASSUME Inv, EvictsInWindow = FALSE, NEW l \in Lines, Evict(l)
  PROVE  Inv'
  <1>0. TypeOK /\ Coherence /\ Drop(l) /\ UNCHANGED <<cached, event, pc, call, status, locals, history>>
    BY DEF Inv, Evict
  <1>1. Moves /\ \A k \in Lines : k # l => mem'[k] = mem[k]
    BY <1>0, DropMoves
  <1>2. TypeOK'
    BY <1>0, <1>1 DEF Moves, TypeOK, CacheType, call, locals, history
  <1>3. Coherence' /\ \A w \in Workers : Kept(w)
    BY <1>0, <1>1, MovesKeep DEF Moves
  <1>4. CallInv'
    BY <1>0 DEF Inv, CallInv, call, history
  <1>5. ASSUME NEW w \in Workers PROVE PerWorker(w)'
    <2>1. About(w, {"clean_func"}) => mem'[Seq(w)] = mem[Seq(w)]
      BY <1>1, LineFacts DEF About, Evict, InWindow
    <2>2. Counts(w)' /\ DoneCopy(w)' /\ CommandInMemory(w)' /\ HostInv(w)'
      BY <1>0, <1>3, <2>1, HostStays DEF call
    <2>3. WorkerInv(w)'
      BY <1>0, <1>3, WorkerKept DEF locals
    <2> QED
      BY <2>2, <2>3 DEF PerWorker
  <1> QED
    BY <1>2, <1>3, <1>4, <1>5 DEF Inv

LEMMA FillStep ==
  ASSUME Inv, NEW l \in Lines, Fill(l)
  PROVE  Inv'
  <1>0. /\ TypeOK /\ Coherence /\ mem' = mem
        /\ UNCHANGED <<cached, event, pc, call, status, locals, history>>
    BY DEF Inv, Fill
  <1>1. Moves
    BY <1>0, FillMoves
  <1>2. TypeOK'
    BY <1>0, <1>1 DEF Moves, TypeOK, CacheType, call, locals, history
  <1>3. Coherence' /\ \A w \in Workers : Kept(w)
    BY <1>0, <1>1, MovesKeep DEF Moves
  <1>4. CallInv'
    BY <1>0 DEF Inv, CallInv, call, history
  <1>5. ASSUME NEW w \in Workers PROVE PerWorker(w)'
    <2>1. Counts(w)' /\ DoneCopy(w)' /\ CommandInMemory(w)' /\ HostInv(w)'
      BY <1>0, <1>3, HostStays DEF call
    <2>2. WorkerInv(w)'
      BY <1>0, <1>3, WorkerKept DEF locals
    <2> QED
      BY <2>1, <2>2 DEF PerWorker
  <1> QED
    BY <1>2, <1>3, <1>4, <1>5 DEF Inv

-----------------------------------------------------------------------------
\* Core 0's steps that only look.

\* What such a step leaves to show: its own part of the call, and what core 0 then relies on.
LEMMA Looks ==
  ASSUME Inv, Moves, UNCHANGED <<cached, history, locals>>,
         pc[0] \notin {"seq", "clean_func", "clean_seq"},
         NEW next \in Labels, pc' = [pc EXCEPT ![0] = next],
         core_id' \in Workers, func' \in Tasks, expected_seq' \in Seqs,
         CallInv', \A w \in Workers : HostInv(w)'
  PROVE  Inv'
  <1>1. TypeOK /\ Coherence
    BY DEF Inv
  <1>2. TypeOK'
    BY <1>1, LineFacts DEF Moves, TypeOK, CacheType, locals, history
  <1>3. Coherence' /\ \A w \in Workers : Kept(w)
    BY <1>1, MovesKeep DEF Moves
  <1>4. ASSUME NEW w \in Workers PROVE PerWorker(w)'
    <2>1. pc'[w] = pc[w]
      BY <1>1, LineFacts DEF TypeOK
    <2>2. Kept(w)
      BY <1>3
    <2>3. Counts(w)' /\ DoneCopy(w)' /\ CommandInMemory(w)' /\ WorkerInv(w)'
      BY <2>1, <2>2, HostCalm
    <2> QED
      BY <2>3 DEF PerWorker
  <1> QED
    BY <1>2, <1>3, <1>4 DEF Inv

\* Core 0 is then at none of the labels at which it relies on anything.
LEMMA ReliesOnNothing ==
  ASSUME NEW w \in Workers, pc'[0] \notin {"func", "seq", "inv", "done?", "wait_wfe"}
  PROVE  HostInv(w)'
  BY DEF HostInv, About

LEMMA BeginStep ==
  ASSUME Inv, NEW w \in Workers, (\E f \in Funcs : BeginCall(w, f)) \/ BeginWait(w)
  PROVE  Inv'
  <1>1. /\ TypeOK /\ Moves /\ pc[0] = "idle" /\ core_id' = w /\ status' = "NONE"
        /\ UNCHANGED <<cached, history, locals, expected_seq>>
    BY StillMoves DEF Inv, BeginCall, BeginWait
  <1>2. PICK next \in {"busy?", "expect"} : pc' = [pc EXCEPT ![0] = next]
    BY DEF BeginCall, BeginWait, Goto
  <1>3. pc'[0] = next /\ next \in Labels
    BY <1>1, <1>2, LineFacts DEF TypeOK, Labels
  <1>4. \/ func' = func /\ next = "expect"
        \/ func' \in Funcs /\ (func' = EnableMmu => cached[0])
    BY <1>1, <1>2, <1>3, LineFacts DEF BeginCall, BeginWait, Goto, TypeOK
  <1>5. func' \in Tasks /\ CallInv'
    BY <1>1, <1>3, <1>4 DEF Inv, CallInv, TypeOK, Tasks
  <1>6. \A u \in Workers : HostInv(u)'
    BY <1>2, <1>3, ReliesOnNothing
  <1> QED
    BY <1>1, <1>2, <1>3, <1>5, <1>6, Looks DEF TypeOK

LEMMA CheckBusyStep ==
  ASSUME Inv, CheckBusy
  PROVE  Inv'
  <1>1. /\ TypeOK /\ Coherence /\ core_id \in Workers /\ 0 \in Cores /\ pc[0] = "busy?"
        /\ UNCHANGED <<mem, cached, core_id, func, expected_seq, locals, history>>
    BY LineFacts DEF Inv, TypeOK, CheckBusy, call
  <1>2. Moves
    BY <1>1, TouchMoves DEF CheckBusy
  <1>3. \A w \in Workers : Kept(w)
    BY <1>1, <1>2, MovesKeep DEF Moves
  <1>4. PICK next \in {"func", "idle"} :
          /\ pc' = [pc EXCEPT ![0] = next]
          /\ next = "func" => Read(0, Done(core_id)) = Sent(core_id) /\ status' = status
          /\ next = "idle" => status' = "ERR_BUSY"
    BY <1>1, ReadFacts DEF CheckBusy, Goto
  <1>5. pc'[0] = next /\ next \in Labels
    BY <1>1, <1>4 DEF TypeOK, Labels
  <1>6. CallInv'
    BY <1>1, <1>4, <1>5 DEF Inv, CallInv
  <1>7. ASSUME NEW w \in Workers PROVE HostInv(w)'
    <2>1. CASE next = "idle"
      BY <1>5, <2>1, ReliesOnNothing
    <2>2. CASE next = "func" /\ w # core_id
      BY <1>1, <1>5, <2>2 DEF HostInv, About
    <2>3. CASE next = "func" /\ w = core_id
      <3>1. ~Pending(w) /\ (cache[Done(w)].valid => cache[Done(w)].v = Sent(w))
        BY <1>4, <2>3, DoneRead
      <3>2. Sent(w)' = Sent(w) /\ Acked(w)' = Acked(w)
        BY <1>3 DEF Kept, Sent, Acked
      <3>3. cache'[Done(w)].valid => cache'[Done(w)].v = Sent(w)
        BY <1>3, <3>1 DEF Kept, Acked, Pending
      <3> QED
        BY <1>5, <2>3, <3>1, <3>2, <3>3 DEF HostInv, About, Pending
    <2> QED
      BY <2>1, <2>2, <2>3
  <1> QED
    BY <1>1, <1>2, <1>4, <1>5, <1>6, <1>7, Looks DEF TypeOK

\* What is acknowledged has run.
LEMMA DoneRan ==
  ASSUME Inv, NEW w \in Workers, Read(0, Done(w)) = Sent(w), pc[0] # "seq"
  PROVE  issued[w] # NullFunc => issued[w] \in ran[w]
  BY DoneRead DEF Inv, PerWorker, Counts, About

LEMMA CheckDoneStep ==
  ASSUME Inv, NEW w \in Workers, CheckDone(w)
  PROVE  Inv'
  <1>1. /\ TypeOK /\ Coherence /\ 0 \in Cores /\ pc[0] = "idle" /\ core_id' = w
        /\ UNCHANGED <<mem, cached, pc, func, expected_seq, locals, history>>
    BY LineFacts DEF Inv, CheckDone
  <1>2. Moves
    BY <1>1, TouchMoves DEF CheckDone
  <1>3. "idle" \in Labels /\ pc' = [pc EXCEPT ![0] = "idle"]
    BY <1>1 DEF TypeOK, Labels
  <1>4. status' = "DONE" => Read(0, Done(w)) = Sent(w)
    BY ReadFacts DEF CheckDone
  <1>5. CallInv'
    BY <1>1, <1>4, DoneRan DEF Inv, CallInv, history
  <1>6. \A u \in Workers : HostInv(u)'
    BY <1>1, ReliesOnNothing
  <1> QED
    BY <1>1, <1>2, <1>3, <1>5, <1>6, Looks DEF TypeOK

LEMMA ReadExpectedStep ==
  ASSUME Inv, ReadExpected
  PROVE  Inv'
  <1>1. /\ TypeOK /\ Coherence /\ core_id \in Workers /\ 0 \in Cores /\ pc[0] = "expect"
        /\ UNCHANGED <<mem, cached, core_id, func, status, locals, history>>
    BY LineFacts DEF Inv, TypeOK, ReadExpected
  <1>2. Moves
    BY <1>1, TouchMoves DEF ReadExpected
  <1>3. /\ expected_seq' = Sent(core_id) /\ Sent(core_id) \in Seqs
        /\ pc' = [pc EXCEPT ![0] = "inv"] /\ "inv" \in Labels /\ pc'[0] = "inv"
    BY <1>1, ReadFacts DEF ReadExpected, Goto, TypeOK, Labels, Inv, PerWorker, Counts
  <1>4. \A w \in Workers : Sent(w)' = Sent(w)
    BY <1>1, <1>2, MovesKeep DEF Moves, Kept, Sent
  <1>5. CallInv'
    BY <1>1, <1>3 DEF Inv, CallInv
  <1>6. ASSUME NEW w \in Workers PROVE HostInv(w)'
    BY <1>1, <1>3, <1>4 DEF HostInv, About
  <1> QED
    BY <1>1, <1>2, <1>3, <1>5, <1>6, Looks DEF TypeOK

\* multicore_wait's loop: cmd_done is dropped and read again until it is the expected number.
LEMMA WaitStep ==
  ASSUME Inv, InvDone \/ WaitLoop \/ WaitWfe
  PROVE  Inv'
  <1>1. /\ TypeOK /\ Coherence /\ core_id \in Workers /\ 0 \in Cores
        /\ pc[0] \in {"inv", "done?", "wait_wfe"}
        /\ UNCHANGED <<cached, core_id, func, locals, history>>
    BY LineFacts DEF Inv, TypeOK, InvDone, WaitLoop, WaitWfe, call
  <1>2. Moves
    <2>1. CASE InvDone
      BY <1>1, <2>1, DropMoves, LineFacts DEF InvDone
    <2>2. CASE WaitLoop
      BY <1>1, <2>2, TouchMoves DEF WaitLoop
    <2>3. CASE WaitWfe
      BY <1>1, <2>3, StillMoves DEF WaitWfe
    <2> QED
      BY <2>1, <2>2, <2>3
  <1>3. PICK next \in {"done?", "idle", "wait_wfe", "inv"} :
          /\ pc' = [pc EXCEPT ![0] = next]
          /\ IF next = "idle" THEN status' = "OK" /\ expected_seq' = 0
             ELSE status' = status /\ expected_seq' = expected_seq
    BY DEF InvDone, WaitLoop, WaitWfe, Goto, call
  <1>4. pc'[0] = next /\ next \in Labels /\ expected_seq' \in Seqs
    BY <1>1, <1>3, CacheConstants DEF TypeOK, Labels, Seqs
  <1>5. CallInv'
    BY <1>1, <1>3, <1>4 DEF Inv, CallInv
  <1>6. ASSUME NEW w \in Workers PROVE HostInv(w)'
    <2>1. CASE next = "idle"
      BY <1>4, <2>1, ReliesOnNothing
    <2>2. CASE next # "idle"
      <3>1. Kept(w)
        BY <1>1, <1>2, MovesKeep DEF Moves
      <3>2. expected_seq' = expected_seq
        BY <1>3, <2>2
      <3> QED
        BY <1>1, <1>3, <1>4, <3>1, <3>2, HostKept DEF About
    <2> QED
      BY <2>1, <2>2
  <1> QED
    BY <1>1, <1>2, <1>3, <1>4, <1>5, <1>6, Looks DEF TypeOK

LEMMA CallSevStep ==
  ASSUME Inv, CallSev
  PROVE  Inv'
  <1>1. /\ TypeOK /\ 0 \in Cores /\ pc[0] = "call_sev" /\ pc' = [pc EXCEPT ![0] = "idle"]
        /\ status' = "OK" /\ "idle" \in Labels
        /\ UNCHANGED <<mem, cache, cached, core_id, func, expected_seq, locals, history>>
    BY LineFacts DEF Inv, TypeOK, CallSev, Goto, call, Labels
  <1>2. Moves
    BY <1>1, StillMoves
  <1>3. pc'[0] = "idle"
    BY <1>1 DEF TypeOK
  <1>4. CallInv'
    BY <1>1, <1>3 DEF Inv, CallInv
  <1>5. \A u \in Workers : HostInv(u)'
    BY <1>3, ReliesOnNothing
  <1> QED
    BY <1>1, <1>2, <1>4, <1>5, Looks DEF TypeOK

\* setup_vm finds nothing in the cache.
LEMMA SetupVmStep ==
  ASSUME Inv, SetupVm
  PROVE  Inv'
  <1>1. /\ TypeOK /\ Coherence /\ 0 \in Cores /\ pc[0] = "idle" /\ ~cached[0]
        /\ cached' = [cached EXCEPT ![0] = TRUE]
        /\ UNCHANGED <<mem, cache, pc, core_id, func, expected_seq, status, w_seq, w_func, issued, ran>>
    BY LineFacts DEF Inv, SetupVm, TypeOK, call, locals, history
  <1>2. cached'[0] /\ \A w \in Workers : cached'[w] = cached[w]
    BY <1>1, LineFacts DEF TypeOK
  <1>3. \A l \in Lines : ~cache[l].valid /\ ~cache[l].dirty
    BY <1>1 DEF Coherence, Coherent, TypeOK
  <1>4. TypeOK'
    BY <1>1 DEF TypeOK
  <1>5. Coherence'
    BY <1>1, <1>2, <1>3 DEF Coherence, Coherent, Cores, Workers
  <1>6. CallInv'
    BY <1>1, <1>2 DEF Inv, CallInv
  <1>7. ASSUME NEW w \in Workers PROVE PerWorker(w)'
    <2>1. PerWorker(w) /\ cached'[w] = cached[w]
      BY <1>2 DEF Inv
    <2>2. Sent(w)' = Sent(w) /\ Acked(w)' = Acked(w) /\ Latest(Func(w))' = Latest(Func(w))
      BY <1>1 DEF Sent, Acked, Latest
    <2>3. Counts(w)'
      BY <1>1, <1>2, <2>1, <2>2 DEF PerWorker, Counts, Pending, About
    <2>4. DoneCopy(w)'
      BY <1>1, <2>1, <2>2 DEF PerWorker, DoneCopy, Pending
    <2>5. CommandInMemory(w)'
      BY <1>1, <1>2, <2>1, <2>2 DEF PerWorker, CommandInMemory, About
    <2>6. WorkerInv(w)'
      BY <1>1, <2>1, <2>2 DEF PerWorker, WorkerInv, Working, Pending
    <2>7. HostInv(w)'
      BY <1>1, <2>1, <2>2 DEF PerWorker, HostInv, About, Pending
    <2> QED
      BY <2>3, <2>4, <2>5, <2>6, <2>7 DEF PerWorker
  <1> QED
    BY <1>4, <1>5, <1>6, <1>7 DEF Inv

-----------------------------------------------------------------------------
\* Core 0's steps that issue a command.

LEMMA CleanFuncStep ==
  ASSUME Inv, CleanFunc
  PROVE  Inv'
  <1>1. /\ TypeOK /\ Coherence /\ core_id \in Workers /\ pc[0] = "clean_func" /\ 0 \in Cores
        /\ DcClean(Func(core_id)) /\ pc' = [pc EXCEPT ![0] = "clean_seq"]
        /\ UNCHANGED <<cached, core_id, func, expected_seq, status, locals, history>>
    BY LineFacts DEF Inv, CleanFunc, TypeOK, Goto, call
  <1>2. /\ Moves /\ mem'[Func(core_id)] = Latest(Func(core_id))
        /\ \A l \in Lines : l # Func(core_id) => mem'[l] = mem[l]
    BY <1>1, DcCleanMoves, LineFacts
  <1>3. Coherence' /\ \A w \in Workers : Kept(w)
    BY <1>1, <1>2, MovesKeep DEF Moves
  <1>4. "clean_seq" \in Labels /\ pc'[0] = "clean_seq" /\ \A w \in Workers : pc'[w] = pc[w]
    BY <1>1, LineFacts DEF TypeOK, Labels
  <1>5. TypeOK'
    BY <1>1, <1>2, <1>4 DEF Moves, TypeOK, CacheType, locals, history
  <1>6. CallInv'
    BY <1>1, <1>4 DEF Inv, CallInv
  <1>7. ASSUME NEW w \in Workers PROVE PerWorker(w)'
    <2>1. Kept(w) /\ pc'[w] = pc[w]
      BY <1>3, <1>4
    <2>2. Counts(w)'
      BY <1>1, <1>4, <2>1, CountsKept DEF About
    <2>3. WorkerInv(w)'
      BY <1>1, <2>1, WorkerKept DEF locals
    <2>4. HostInv(w)'
      BY <1>4, ReliesOnNothing
    <2>5. CommandInMemory(w)'
      <3>1. /\ CommandInMemory(w) /\ Latest(Func(w)) = issued[w] /\ issued' = issued
            /\ Sent(w)' = Sent(w) /\ Acked(w)' = Acked(w)
        BY <1>1, <2>1 DEF Inv, PerWorker, Kept, Sent, Acked, Counts, history
      <3>2. mem'[Seq(w)] = mem[Seq(w)]
        BY <1>1, <1>2, LineFacts
      <3>3. IF w = core_id THEN mem'[Func(w)] = issued[w] ELSE mem'[Func(w)] = mem[Func(w)]
        BY <1>1, <1>2, <3>1, LineFacts
      <3> QED
        BY <1>1, <1>4, <3>1, <3>2, <3>3 DEF CommandInMemory, About
    <2> QED
      BY <1>1, <2>1, <2>2, <2>3, <2>4, <2>5, DoneCopyKept DEF PerWorker
  <1> QED
    BY <1>3, <1>5, <1>6, <1>7 DEF Inv

LEMMA CleanSeqStep ==
  ASSUME Inv, CleanSeq
  PROVE  Inv'
  <1>1. /\ TypeOK /\ Coherence /\ core_id \in Workers /\ pc[0] = "clean_seq" /\ 0 \in Cores
        /\ DcClean(Seq(core_id)) /\ pc' = [pc EXCEPT ![0] = "call_sev"]
        /\ UNCHANGED <<cached, core_id, func, expected_seq, status, locals, history>>
    BY LineFacts DEF Inv, CleanSeq, TypeOK, Goto, call
  <1>2. Moves /\ mem'[Seq(core_id)] = Latest(Seq(core_id))
    BY <1>1, DcCleanMoves, LineFacts
  <1>3. Coherence' /\ \A w \in Workers : Kept(w)
    BY <1>1, <1>2, MovesKeep DEF Moves
  <1>4. "call_sev" \in Labels /\ pc'[0] = "call_sev" /\ \A w \in Workers : pc'[w] = pc[w]
    BY <1>1, LineFacts DEF TypeOK, Labels
  <1>5. TypeOK'
    BY <1>1, <1>2, <1>4 DEF Moves, TypeOK, CacheType, locals, history
  <1>6. CallInv'
    BY <1>1, <1>4 DEF Inv, CallInv
  <1>7. ASSUME NEW w \in Workers PROVE PerWorker(w)'
    <2>1. Kept(w) /\ pc'[w] = pc[w]
      BY <1>3, <1>4
    <2>2. Counts(w)'
      BY <1>1, <1>4, <2>1, CountsKept DEF About
    <2>3. WorkerInv(w)'
      BY <1>1, <2>1, WorkerKept DEF locals
    <2>4. HostInv(w)'
      BY <1>4, ReliesOnNothing
    <2>5. CommandInMemory(w)'
      BY <1>1, <1>2, <2>1, CommandKept DEF About, Sent
    <2> QED
      BY <1>1, <2>1, <2>2, <2>3, <2>4, <2>5, DoneCopyKept DEF PerWorker
  <1> QED
    BY <1>3, <1>5, <1>6, <1>7 DEF Inv

\* A worker to which nothing happens.
LEMMA Untouched ==
  ASSUME Inv, NEW u \in Workers,
         mem'[Func(u)] = mem[Func(u)], cache'[Func(u)] = cache[Func(u)],
         mem'[Seq(u)] = mem[Seq(u)], cache'[Seq(u)] = cache[Seq(u)],
         mem'[Done(u)] = mem[Done(u)], cache'[Done(u)] = cache[Done(u)],
         cached'[u] = cached[u], cached'[0] = cached[0],
         issued'[u] = issued[u], ran'[u] = ran[u],
         pc'[u] = pc[u], w_seq'[u] = w_seq[u], w_func'[u] = w_func[u],
         expected_seq' = expected_seq, core_id' = core_id, core_id # u \/ pc'[0] = pc[0]
  PROVE  PerWorker(u)'
  <1>1. PerWorker(u)
    BY DEF Inv
  <1>2. Sent(u)' = Sent(u) /\ Acked(u)' = Acked(u) /\ Latest(Func(u))' = Latest(Func(u))
    BY DEF Sent, Acked, Latest, Func, Seq, Done
  <1>3. Pending(u)' <=> Pending(u)
    BY <1>2 DEF Pending
  <1>4. \A L : About(u, L)' <=> About(u, L)
    BY DEF About
  <1>5. Counts(u)'
    BY <1>1, <1>2, <1>3, <1>4 DEF PerWorker, Counts
  <1>6. DoneCopy(u)'
    BY <1>1, <1>2, <1>3 DEF PerWorker, DoneCopy
  <1>7. CommandInMemory(u)'
    BY <1>1, <1>2, <1>4 DEF PerWorker, CommandInMemory
  <1>8. WorkerInv(u)'
    BY <1>1, <1>2, <1>3 DEF PerWorker, WorkerInv, Working
  <1>9. HostInv(u)'
    BY <1>1, <1>2, <1>3, <1>4 DEF PerWorker, HostInv
  <1> QED
    BY <1>5, <1>6, <1>7, <1>8, <1>9 DEF PerWorker

LEMMA StoreFuncStep ==
  ASSUME Inv, StoreFunc
  PROVE  Inv'
  <1> DEFINE w == core_id
  <1>1. /\ TypeOK /\ Coherence /\ w \in Workers /\ pc[0] = "func" /\ 0 \in Cores
        /\ func \in Funcs /\ func \in Vals /\ func # NullFunc /\ (func = EnableMmu => cached[0])
        /\ pc' = [pc EXCEPT ![0] = "seq"] /\ issued' = [issued EXCEPT ![w] = func]
        /\ ran' = [ran EXCEPT ![w] = {}]
        /\ UNCHANGED <<cached, core_id, func, expected_seq, status, w_seq, w_func>>
    BY LineFacts, CacheConstants
       DEF Inv, StoreFunc, TypeOK, Goto, call, locals, CallInv, Vals, Tasks, Funcs
  <1>2. /\ Coherence' /\ Latest(Func(w))' = func
        /\ \A l \in Lines : l # Func(w) => mem'[l] = mem[l] /\ cache'[l] = cache[l]
        /\ ~cached[0] => mem'[Func(w)] = func
        /\ mem' \in [Lines -> Vals] /\ cache' \in [Lines -> CacheType]
    <2>1. Write(Owner(Func(w)), Func(w), func) /\ Owner(Func(w)) = 0 /\ Func(w) \in Lines
      BY <1>1, LineFacts DEF StoreFunc
    <2>2. PICK k \in Lines : k = Func(w)
      BY <2>1
    <2>3. /\ Coherence' /\ Latest(k)' = func
          /\ \A l \in Lines : l # k => mem'[l] = mem[l] /\ cache'[l] = cache[l]
          /\ IF cached[Owner(k)] THEN mem'[k] = mem[k] ELSE mem'[k] = func /\ cache'[k] = cache[k]
          /\ mem' \in [Lines -> Vals] /\ cache' \in [Lines -> CacheType]
      BY <1>1, <2>1, <2>2, WriteLatest
    <2> QED
      BY <1>1, <2>1, <2>2, <2>3 DEF Latest
  <1>3. pc'[0] = "seq" /\ "seq" \in Labels /\ \A u \in Workers : pc'[u] = pc[u]
    BY <1>1, LineFacts DEF TypeOK, Labels
  <1>4. TypeOK'
    BY <1>1, <1>2, <1>3 DEF TypeOK, CacheType, Tasks
  <1>5. CallInv'
    BY <1>1, <1>3 DEF Inv, CallInv
  <1>6. ASSUME NEW u \in Workers, u # w PROVE PerWorker(u)'
    <2>1. issued'[u] = issued[u] /\ ran'[u] = ran[u]
      BY <1>1, <1>6 DEF TypeOK
    <2> QED
      BY <1>1, <1>2, <1>3, <1>6, <2>1, LineFacts, Untouched
  <1>7. ASSUME NEW u \in Workers, u = w PROVE PerWorker(u)'
    <2>1. /\ PerWorker(u) /\ Sent(u)' = Sent(u) /\ Acked(u)' = Acked(u) /\ Latest(Func(u))' = func
          /\ mem'[Seq(u)] = mem[Seq(u)] /\ cache'[Done(u)] = cache[Done(u)]
          /\ issued'[u] = func /\ ran'[u] = {}
      <3>1. /\ mem'[Seq(u)] = mem[Seq(u)] /\ cache'[Seq(u)] = cache[Seq(u)]
            /\ mem'[Done(u)] = mem[Done(u)] /\ cache'[Done(u)] = cache[Done(u)]
        BY <1>1, <1>2, <1>7, LineFacts
      <3>2. Latest(Func(u))' = func
        BY <1>1, <1>2, <1>7 DEF Latest
      <3> QED
        BY <1>1, <1>7, <3>1, <3>2 DEF Inv, Sent, Acked, Latest, TypeOK
    <2>2. ~Pending(u) /\ ~Pending(u)' /\ (cache[Done(u)].valid => cache[Done(u)].v = Sent(u))
      BY <1>1, <1>7, <2>1 DEF PerWorker, HostInv, About, Pending
    <2>3. Counts(u)'
      BY <1>1, <1>3, <1>7, <2>1, <2>2 DEF PerWorker, Counts, About
    <2>4. DoneCopy(u)'
      BY <1>1, <2>1, <2>2 DEF PerWorker, DoneCopy, Pending
    <2>5. CommandInMemory(u)'
      BY <1>1, <1>2, <1>3, <1>7, <2>1 DEF PerWorker, CommandInMemory, About
    <2>6. WorkerInv(u)'
      BY <1>3, <2>1, <2>2 DEF PerWorker, WorkerInv, Working
    <2>7. HostInv(u)'
      BY <1>1, <1>3, <1>7, <2>1, <2>2 DEF HostInv, About
    <2> QED
      BY <2>3, <2>4, <2>5, <2>6, <2>7 DEF PerWorker
  <1> QED
    BY <1>2, <1>4, <1>5, <1>6, <1>7 DEF Inv

LEMMA StoreSeqStep ==
  ASSUME Inv, StoreSeq
  PROVE  Inv'
  <1> DEFINE w == core_id
  <1> DEFINE s == Succ(Sent(w))
  <1>1. /\ TypeOK /\ Coherence /\ w \in Workers /\ pc[0] = "seq" /\ 0 \in Cores
        /\ pc' = [pc EXCEPT ![0] = "clean_func"]
        /\ UNCHANGED <<cached, core_id, func, expected_seq, status, w_seq, w_func, issued, ran>>
    BY LineFacts DEF Inv, StoreSeq, TypeOK, Goto, call, locals, history
  <1>2. PerWorker(w) /\ Sent(w) \in Seqs /\ s \in Seqs /\ s \in Vals /\ s # Sent(w)
    BY <1>1, SuccFacts DEF Inv, PerWorker, Counts, Vals
  <1>3. /\ Coherence' /\ Latest(Seq(w))' = s
        /\ \A l \in Lines : l # Seq(w) => mem'[l] = mem[l] /\ cache'[l] = cache[l]
        /\ IF cached[0] THEN mem'[Seq(w)] = mem[Seq(w)] ELSE mem'[Seq(w)] = s
        /\ mem' \in [Lines -> Vals] /\ cache' \in [Lines -> CacheType]
    <2>1. Write(Owner(Seq(w)), Seq(w), s) /\ Owner(Seq(w)) = 0 /\ Seq(w) \in Lines
      BY <1>1, LineFacts, ReadFacts DEF StoreSeq
    <2>2. PICK k \in Lines : k = Seq(w)
      BY <2>1
    <2>3. PICK v \in Vals : v = s
      BY <1>2
    <2>4. /\ Coherence' /\ Latest(k)' = v
          /\ \A l \in Lines : l # k => mem'[l] = mem[l] /\ cache'[l] = cache[l]
          /\ IF cached[Owner(k)] THEN mem'[k] = mem[k] ELSE mem'[k] = v /\ cache'[k] = cache[k]
          /\ mem' \in [Lines -> Vals] /\ cache' \in [Lines -> CacheType]
      BY <1>1, <2>1, <2>2, <2>3, WriteLatest
    <2> QED
      BY <1>1, <2>1, <2>2, <2>3, <2>4 DEF Latest
  <1>4. pc'[0] = "clean_func" /\ "clean_func" \in Labels /\ \A u \in Workers : pc'[u] = pc[u]
    BY <1>1, LineFacts DEF TypeOK, Labels
  <1>5. TypeOK'
    BY <1>1, <1>3, <1>4 DEF TypeOK, CacheType
  <1>6. CallInv'
    BY <1>1, <1>4 DEF Inv, CallInv
  <1>7. ASSUME NEW u \in Workers, u # w PROVE PerWorker(u)'
    BY <1>1, <1>3, <1>4, <1>7, LineFacts, Untouched
  <1>8. ASSUME NEW u \in Workers, u = w PROVE PerWorker(u)'
    <2>1. /\ mem'[Func(u)] = mem[Func(u)] /\ cache'[Func(u)] = cache[Func(u)]
          /\ mem'[Done(u)] = mem[Done(u)] /\ cache'[Done(u)] = cache[Done(u)]
      BY <1>1, <1>3, <1>8, LineFacts
    <2>2. PICK t \in Seqs : t = Sent(u) /\ t = Acked(u)
      BY <1>1, <1>2, <1>8 DEF PerWorker, HostInv, About, Pending
    <2>3. Sent(u)' = Succ(t)
      BY <1>1, <1>3, <1>8, <2>2 DEF Sent, Latest
    <2>4. Acked(u)' = t /\ Latest(Func(u))' = Latest(Func(u)) /\ Succ(t) \in Seqs /\ Succ(t) # t
      BY <2>1, <2>2, SuccFacts DEF Acked, Latest
    <2>5. Pending(u)' /\ issued[u] \in Funcs
      BY <1>1, <1>2, <1>8, <2>3, <2>4 DEF Pending, PerWorker, HostInv, About
    <2>6. cache[Done(u)].valid => cache[Done(u)].v = t
      BY <1>1, <1>2, <1>8, <2>2 DEF PerWorker, HostInv, About
    <2>7. Counts(u)'
      BY <1>1, <1>2, <1>8, <2>3, <2>4, <2>5 DEF PerWorker, Counts
    <2>8. DoneCopy(u)'
      BY <2>1, <2>4, <2>6 DEF DoneCopy
    <2>9. CommandInMemory(u)'
      <3>1. CommandInMemory(u) /\ ~About(u, {"clean_func", "clean_seq"}) /\ ~About(u, {"clean_func"})
        BY <1>1, <1>2, <1>8 DEF PerWorker, About
      <3>2. ~cached[u] => mem[Seq(u)] = t /\ (cached[0] \/ mem[Func(u)] = issued[u])
        BY <2>2, <3>1 DEF CommandInMemory
      <3>3. IF cached[0] THEN mem'[Seq(u)] = mem[Seq(u)] ELSE mem'[Seq(u)] = Succ(t)
        BY <1>3, <1>8, <2>2
      <3>4. About(u, {"clean_func", "clean_seq"})' /\ About(u, {"clean_func"})'
        BY <1>1, <1>4, <1>8 DEF About
      <3> QED
        BY <1>1, <2>1, <2>3, <2>4, <3>2, <3>3, <3>4 DEF CommandInMemory
    <2>10. WorkerInv(u)'
      BY <1>1, <1>2, <1>4, <1>8, <2>2 DEF PerWorker, WorkerInv, Working, Pending
    <2>11. HostInv(u)'
      BY <1>4, ReliesOnNothing
    <2> QED
      BY <2>7, <2>8, <2>9, <2>10, <2>11 DEF PerWorker
  <1> QED
    BY <1>3, <1>5, <1>6, <1>7, <1>8 DEF Inv

-----------------------------------------------------------------------------
\* The workers' steps.

\* What a step of worker w that only looks leaves to show.
LEMMA WorkerLooks ==
  ASSUME Inv, NEW w \in Workers, Moves, mem' = mem, NEW next \in Labels,
         pc' = [pc EXCEPT ![w] = next], w_seq' \in [Workers -> Seqs], w_func' \in [Workers -> Tasks],
         \A u \in Workers : u # w => w_seq'[u] = w_seq[u] /\ w_func'[u] = w_func[u],
         UNCHANGED <<cached, core_id, func, expected_seq, status, issued, ran>>,
         WorkerInv(w)'
  PROVE  Inv'
  <1>1. TypeOK /\ Coherence
    BY DEF Inv
  <1>2. TypeOK'
    BY <1>1, LineFacts DEF Moves, TypeOK, CacheType
  <1>3. Coherence' /\ \A u \in Workers : Kept(u)
    BY <1>1, MovesKeep DEF Moves
  <1>4. pc'[0] = pc[0] /\ pc'[w] = next /\ \A u \in Workers : u # w => pc'[u] = pc[u]
    BY <1>1, LineFacts DEF TypeOK
  <1>5. CallInv'
    BY <1>4 DEF Inv, CallInv
  <1>6. ASSUME NEW u \in Workers PROVE PerWorker(u)'
    <2>1. Kept(u)
      BY <1>3
    <2>2. Counts(u)' /\ DoneCopy(u)' /\ CommandInMemory(u)' /\ HostInv(u)'
      BY <1>4, <2>1, HostStays DEF history
    <2>3. WorkerInv(u)'
      BY <1>4, <2>1, WorkerKept DEF history
    <2> QED
      BY <2>2, <2>3 DEF PerWorker
  <1> QED
    BY <1>2, <1>3, <1>5, <1>6 DEF Inv

\* The values a looking step leaves.
LEMMA StillSent ==
  ASSUME Inv, NEW w \in Workers, Moves, cached' = cached
  PROVE  Sent(w)' = Sent(w) /\ Acked(w)' = Acked(w) /\ (Pending(w)' <=> Pending(w))
  BY MovesKeep DEF Inv, Moves, Kept, Sent, Acked, Pending

\* A worker only starts on a command that is in memory, if it reads it from there.
LEMMA PollStep ==
  ASSUME Inv, NEW w \in Workers, Poll(w)
  PROVE  Inv'
  <1>1. /\ TypeOK /\ Coherence /\ w \in Cores /\ mem' = mem
        /\ UNCHANGED <<cached, core_id, func, expected_seq, status, w_seq, w_func, issued, ran>>
    BY LineFacts DEF Inv, Poll, call, locals, history
  <1>2. Moves
    BY <1>1, TouchMoves DEF Poll
  <1>3. PICK next \in {"ld_seq", "wfe"} :
          /\ pc' = [pc EXCEPT ![w] = next]
          /\ next = "ld_seq" => Read(w, Seq(w)) # Acked(w)
    BY ReadFacts DEF Poll, Goto
  <1>4. pc'[w] = next /\ next \in Labels
    BY <1>1, <1>3 DEF TypeOK, Labels
  <1>5. next = "ld_seq" => Pending(w) /\ (cached[w] \/ mem[Seq(w)] = Sent(w))
    BY <1>3, ReadFacts DEF Inv, PerWorker, CommandInMemory, Pending
  <1>6. WorkerInv(w)'
    BY <1>1, <1>2, <1>4, <1>5, StillSent DEF WorkerInv, Working
  <1> QED
    BY <1>1, <1>2, <1>3, <1>4, <1>6, WorkerLooks DEF TypeOK

LEMMA WakeOrSignalStep ==
  ASSUME Inv, NEW w \in Workers, PollWfe(w) \/ DoneSev(w)
  PROVE  Inv'
  <1>1. /\ TypeOK /\ w \in Cores /\ "poll" \in Labels /\ pc' = [pc EXCEPT ![w] = "poll"]
        /\ UNCHANGED <<mem, cache, cached, core_id, func, expected_seq, status, w_seq, w_func,
                       issued, ran>>
    BY LineFacts DEF Inv, PollWfe, DoneSev, Goto, call, locals, history, Labels
  <1>2. Moves
    BY <1>1, StillMoves
  <1>3. pc'[w] = "poll"
    BY <1>1 DEF TypeOK
  <1>4. WorkerInv(w)'
    BY <1>3 DEF WorkerInv, Working
  <1> QED
    BY <1>1, <1>2, <1>4, WorkerLooks DEF TypeOK

LEMMA LoadSeqStep ==
  ASSUME Inv, NEW w \in Workers, LoadSeq(w)
  PROVE  Inv'
  <1>1. /\ TypeOK /\ Coherence /\ w \in Cores /\ mem' = mem /\ pc[w] = "ld_seq"
        /\ pc' = [pc EXCEPT ![w] = "ld_func"] /\ "ld_func" \in Labels
        /\ w_seq' = [w_seq EXCEPT ![w] = Read(w, Seq(w))]
        /\ UNCHANGED <<cached, core_id, func, expected_seq, status, w_func, issued, ran>>
    BY LineFacts DEF Inv, LoadSeq, Goto, call, history, Labels
  <1>2. Moves
    BY <1>1, TouchMoves DEF LoadSeq
  <1>3. Read(w, Seq(w)) = Sent(w) /\ Sent(w) \in Seqs
    BY <1>1, ReadFacts DEF Inv, PerWorker, WorkerInv, Working, Counts
  <1>4. /\ pc'[w] = "ld_func" /\ w_seq'[w] = Sent(w) /\ w_seq' \in [Workers -> Seqs]
        /\ \A u \in Workers : u # w => w_seq'[u] = w_seq[u]
    BY <1>1, <1>3 DEF TypeOK
  <1>5. Pending(w) /\ (cached[w] \/ mem[Seq(w)] = Sent(w))
    BY <1>1 DEF Inv, PerWorker, WorkerInv, Working
  <1>6. WorkerInv(w)'
    BY <1>1, <1>2, <1>4, <1>5, StillSent DEF WorkerInv, Working
  <1> QED
    BY <1>1, <1>2, <1>4, <1>6, WorkerLooks DEF TypeOK

LEMMA LoadFuncStep ==
  ASSUME Inv, NEW w \in Workers, LoadFunc(w)
  PROVE  Inv'
  <1>1. /\ TypeOK /\ Coherence /\ w \in Cores /\ mem' = mem /\ pc[w] = "ld_func"
        /\ w_func' = [w_func EXCEPT ![w] = Read(w, Func(w))]
        /\ UNCHANGED <<cached, core_id, func, expected_seq, status, w_seq, issued, ran>>
    BY LineFacts DEF Inv, LoadFunc, call, history
  <1>2. Moves
    BY <1>1, TouchMoves DEF LoadFunc
  <1>3. /\ Pending(w) /\ (cached[w] \/ mem[Seq(w)] = Sent(w)) /\ w_seq[w] = Sent(w)
        /\ issued[w] \in Funcs /\ Acked(w) # Sent(w)
    BY <1>1 DEF Inv, PerWorker, WorkerInv, Working, Counts, Pending
  <1>4. Read(w, Func(w)) = issued[w]
    <2>1. ~cached[w] => mem[Func(w)] = issued[w]
      BY <1>3 DEF Inv, PerWorker, CommandInMemory, HostInv, About
    <2> QED
      BY <2>1, ReadFacts, <1>1 DEF TypeOK
  <1>5. pc' = [pc EXCEPT ![w] = "run"] /\ "run" \in Labels
    BY <1>3, <1>4, CacheConstants DEF LoadFunc, Goto, Labels, Funcs
  <1>6. /\ pc'[w] = "run" /\ w_func'[w] = issued[w] /\ w_func' \in [Workers -> Tasks]
        /\ \A u \in Workers : u # w => w_func'[u] = w_func[u]
    BY <1>1, <1>4, <1>5 DEF TypeOK
  <1>7. WorkerInv(w)'
    BY <1>1, <1>2, <1>3, <1>6, StillSent DEF WorkerInv, Working
  <1> QED
    BY <1>1, <1>2, <1>5, <1>6, <1>7, WorkerLooks DEF TypeOK

\* A worker that turns its caches on finds its own cmd_done in them as memory has it: its
\* command is pending.
LEMMA RunStep ==
  ASSUME Inv, NEW w \in Workers, Run(w)
  PROVE  Inv'
  <1>1. /\ TypeOK /\ Coherence /\ w \in Cores /\ w # 0 /\ 0 \in Cores /\ pc[w] = "run"
        /\ cached' = [cached EXCEPT ![w] = cached[w] \/ w_func[w] = EnableMmu]
        /\ ran' = [ran EXCEPT ![w] = ran[w] \cup {w_func[w]}]
        /\ pc' = [pc EXCEPT ![w] = "done"] /\ "done" \in Labels
        /\ UNCHANGED <<mem, cache, core_id, func, expected_seq, status, w_seq, w_func, issued>>
    BY LineFacts DEF Inv, Run, TypeOK, Goto, call, locals, Labels
  <1>2. /\ PerWorker(w) /\ w_func[w] = issued[w] /\ Pending(w) /\ w_seq[w] = Sent(w)
        /\ (cached[w] \/ mem[Seq(w)] = Sent(w)) /\ issued[w] \in Tasks
        /\ (issued[w] = EnableMmu => cached[0])
    BY <1>1 DEF Inv, PerWorker, WorkerInv, Working, Counts, TypeOK
  <1>3. /\ cached'[w] = (cached[w] \/ issued[w] = EnableMmu)
        /\ \A c \in Cores : c # w => cached'[c] = cached[c]
        /\ cached' \in [Cores -> BOOLEAN]
    BY <1>1, <1>2 DEF TypeOK
  <1>4. /\ ran'[w] = ran[w] \cup {issued[w]} /\ ran' \in [Workers -> SUBSET Tasks]
        /\ \A u \in Workers : u # w => ran'[u] = ran[u]
    BY <1>1, <1>2 DEF TypeOK
  <1>5. pc'[w] = "done" /\ \A c \in Cores : c # w => pc'[c] = pc[c]
    BY <1>1 DEF TypeOK
  <1>6. TypeOK'
    BY <1>1, <1>3, <1>4 DEF TypeOK
  <1>7. CallInv'
    <2>1. ran[core_id] \subseteq ran'[core_id] /\ cached'[0] = cached[0] /\ pc'[0] = pc[0]
      BY <1>1, <1>3, <1>4, <1>5 DEF TypeOK
    <2> QED
      BY <1>1, <2>1 DEF Inv, CallInv
  <1>8. Coherence'
    <2>1. ASSUME NEW c \in Cores, cached'[c] PROVE cached'[0]
      BY <1>1, <1>2, <1>3, <2>1 DEF Coherence
    <2>2. ASSUME NEW l \in Lines, Owner(l) # w PROVE Coherent(l)'
      BY <1>1, <1>3, <2>2, OwnerIsCore DEF Coherence, Coherent, Owner
    <2>3. ASSUME NEW l \in Lines, Owner(l) = w PROVE Coherent(l)'
      <3>1. l = Done(w)
        BY <1>1, <2>3 DEF Owner, Lines, Done
      <3>2. Coherent(Done(w)) /\ cache[Done(w)] \in CacheType
        BY <1>1, <2>3, <3>1 DEF Coherence, TypeOK, CacheType
      <3>3. ~cached[w] /\ cache[Done(w)].valid =>
              ~cache[Done(w)].dirty /\ cache[Done(w)].v = mem[Done(w)]
        BY <1>2, <2>3, <3>1, <3>2 DEF PerWorker, DoneCopy, Acked, Latest, Coherent, CacheType
      <3>4. cached[w] => cached'[w]
        BY <1>3
      <3>5. Coherent(Done(w))'
        BY <1>1, <1>3, <2>3, <3>1, <3>2, <3>3, <3>4 DEF Coherent, CacheType
      <3> QED
        BY <3>1, <3>5 DEF Coherent, Done, Owner
    <2> QED
      BY <2>1, <2>2, <2>3 DEF Coherence
  <1>9. ASSUME NEW u \in Workers, u # w PROVE PerWorker(u)'
    BY <1>1, <1>3, <1>4, <1>5, <1>9, LineFacts, Untouched
  <1>10. PerWorker(w)'
    <2>1. /\ Sent(w)' = Sent(w) /\ Acked(w)' = Acked(w) /\ Latest(Func(w))' = Latest(Func(w))
          /\ pc'[0] = pc[0] /\ cached'[0] = cached[0] /\ (cached[w] => cached'[w])
      BY <1>1, <1>3, <1>5 DEF Sent, Acked, Latest
    <2>2. Counts(w)'
      BY <1>1, <1>2, <1>4, <2>1 DEF PerWorker, Counts, Pending
    <2>3. DoneCopy(w)'
      BY <1>1, <1>2, <2>1 DEF PerWorker, DoneCopy, Pending
    <2>4. CommandInMemory(w)'
      BY <1>1, <1>2, <2>1 DEF PerWorker, CommandInMemory, About
    <2>5. WorkerInv(w)'
      BY <1>1, <1>2, <1>4, <1>5, <2>1 DEF WorkerInv, Working, Pending
    <2>6. HostInv(w)'
      BY <1>1, <1>2, <2>1 DEF PerWorker, HostInv, About, Pending
    <2> QED
      BY <2>2, <2>3, <2>4, <2>5, <2>6 DEF PerWorker
  <1> QED
    BY <1>6, <1>7, <1>8, <1>9, <1>10 DEF Inv

LEMMA StoreDoneStep ==
  ASSUME Inv, NEW w \in Workers, StoreDone(w)
  PROVE  Inv'
  <1> DEFINE s == w_seq[w]
  <1>1. /\ TypeOK /\ Coherence /\ w \in Cores /\ w # 0 /\ 0 \in Cores /\ pc[w] = "done"
        /\ pc' = [pc EXCEPT ![w] = "done_sev"] /\ "done_sev" \in Labels
        /\ w_seq' = [w_seq EXCEPT ![w] = 0] /\ w_func' = [w_func EXCEPT ![w] = NullFunc]
        /\ UNCHANGED <<cached, core_id, func, expected_seq, status, issued, ran>>
    BY LineFacts DEF Inv, StoreDone, TypeOK, Goto, call, history, Labels
  <1>2. /\ PerWorker(w) /\ s = Sent(w) /\ Pending(w) /\ issued[w] \in ran[w]
        /\ (cached[w] \/ mem[Seq(w)] = Sent(w)) /\ s \in Seqs /\ s \in Vals
        /\ Acked(w) \in Seqs /\ Succ(Acked(w)) = s
    BY <1>1 DEF Inv, PerWorker, WorkerInv, Working, Counts, Vals
  <1>3. /\ Coherence' /\ Latest(Done(w))' = s
        /\ \A l \in Lines : l # Done(w) => mem'[l] = mem[l] /\ cache'[l] = cache[l]
        /\ ~cached[w] => cache'[Done(w)] = cache[Done(w)]
        /\ mem' \in [Lines -> Vals] /\ cache' \in [Lines -> CacheType]
    <2>1. Write(Owner(Done(w)), Done(w), s) /\ Owner(Done(w)) = w
      BY LineFacts DEF StoreDone
    <2>2. PICK k \in Lines : k = Done(w)
      BY LineFacts
    <2>3. PICK v \in Vals : v = s
      BY <1>2
    <2>4. /\ Coherence' /\ Latest(k)' = v
          /\ \A l \in Lines : l # k => mem'[l] = mem[l] /\ cache'[l] = cache[l]
          /\ IF cached[Owner(k)] THEN mem'[k] = mem[k] ELSE mem'[k] = v /\ cache'[k] = cache[k]
          /\ mem' \in [Lines -> Vals] /\ cache' \in [Lines -> CacheType]
      BY <1>1, <2>1, <2>2, <2>3, WriteLatest
    <2> QED
      BY <2>1, <2>2, <2>3, <2>4 DEF Latest
  <1>4. /\ pc'[w] = "done_sev" /\ \A c \in Cores : c # w => pc'[c] = pc[c]
        /\ \A u \in Workers : u # w => w_seq'[u] = w_seq[u] /\ w_func'[u] = w_func[u]
    BY <1>1, LineFacts DEF TypeOK
  <1>5. TypeOK'
    <2>1. w_seq' \in [Workers -> Seqs] /\ w_func' \in [Workers -> Tasks]
      BY <1>1, CacheConstants DEF TypeOK, Seqs, Tasks
    <2> QED
      BY <1>1, <1>3, <2>1 DEF TypeOK, CacheType
  <1>6. CallInv'
    BY <1>1, <1>4 DEF Inv, CallInv
  <1>7. ASSUME NEW u \in Workers, u # w PROVE PerWorker(u)'
    BY <1>1, <1>3, <1>4, <1>7, LineFacts, Untouched
  <1>8. PerWorker(w)'
    <2>1. /\ mem'[Func(w)] = mem[Func(w)] /\ cache'[Func(w)] = cache[Func(w)]
          /\ mem'[Seq(w)] = mem[Seq(w)] /\ cache'[Seq(w)] = cache[Seq(w)]
      BY <1>3, LineFacts
    <2>2. /\ Sent(w)' = s /\ Acked(w)' = s /\ Latest(Func(w))' = Latest(Func(w)) /\ pc'[0] = pc[0]
      BY <1>1, <1>2, <1>3, <1>4, <2>1 DEF Sent, Acked, Latest
    <2>3. Counts(w)'
      BY <1>1, <1>2, <2>2 DEF PerWorker, Counts, Pending
    <2>4. DoneCopy(w)'
      BY <1>1, <1>2, <1>3, <2>2 DEF PerWorker, DoneCopy, Pending
    <2>5. CommandInMemory(w)'
      BY <1>1, <1>2, <2>1, <2>2 DEF PerWorker, CommandInMemory, About
    <2>6. WorkerInv(w)'
      BY <1>4 DEF WorkerInv, Working
    <2>7. HostInv(w)'
      BY <1>1, <1>2, <2>2 DEF PerWorker, HostInv, About, Pending
    <2> QED
      BY <2>3, <2>4, <2>5, <2>6, <2>7 DEF PerWorker
  <1> QED
    BY <1>3, <1>5, <1>6, <1>7, <1>8 DEF Inv

-----------------------------------------------------------------------------
\* The theorems.

LEMMA InitInv == Init => Inv
  <1> SUFFICES ASSUME Init PROVE Inv
    OBVIOUS
  <1>1. /\ mem = [l \in Lines |-> IF l[1] = "func" THEN NullFunc ELSE 0]
        /\ cache = [l \in Lines |-> Absent] /\ cached = [c \in Cores |-> FALSE]
        /\ pc = [c \in Cores |-> IF c = 0 THEN "idle" ELSE "poll"]
        /\ issued = [w \in Workers |-> NullFunc] /\ ran = [w \in Workers |-> {}]
    BY DEF Init
  <1>2. 0 \in Seqs /\ 1 \in Workers
    BY CacheConstants DEF Seqs, Workers
  <1>3. TypeOK
    <2>1. mem \in [Lines -> Vals] /\ cache \in [Lines -> CacheType]
      BY <1>1, <1>2 DEF Vals, Tasks, CacheType, Absent
    <2>2. cached \in [Cores -> BOOLEAN] /\ pc \in [Cores -> Labels]
      BY <1>1 DEF Labels
    <2>3. /\ issued \in [Workers -> Tasks] /\ ran \in [Workers -> SUBSET Tasks]
          /\ w_seq \in [Workers -> Seqs] /\ w_func \in [Workers -> Tasks]
      BY <1>1, <1>2 DEF Init, Tasks
    <2> QED
      BY <1>2, <2>1, <2>2, <2>3 DEF Init, TypeOK, CacheType, Tasks
  <1>4. Coherence
    BY <1>1, LineFacts, OwnerIsCore DEF Coherence, Coherent, Absent
  <1>5. CallInv
    BY <1>1, LineFacts, <1>2, CacheConstants DEF Init, CallInv
  <1>6. ASSUME NEW w \in Workers PROVE PerWorker(w)
    <2>1. /\ mem[Func(w)] = NullFunc /\ mem[Seq(w)] = 0 /\ mem[Done(w)] = 0
          /\ Latest(Func(w)) = NullFunc /\ Sent(w) = 0 /\ Acked(w) = 0 /\ ~cache[Done(w)].valid
      BY <1>1, LineFacts DEF Latest, Sent, Acked, Absent, Func, Seq, Done
    <2>2. pc[w] = "poll" /\ pc[0] = "idle" /\ issued[w] = NullFunc /\ ran[w] = {}
      BY <1>1, LineFacts
    <2>3. Counts(w)
      BY <1>2, <2>1, <2>2, CacheConstants DEF Counts, Pending
    <2>4. DoneCopy(w) /\ CommandInMemory(w)
      BY <2>1, <2>2 DEF DoneCopy, CommandInMemory
    <2>5. WorkerInv(w) /\ HostInv(w)
      BY <2>2 DEF WorkerInv, Working, HostInv, About
    <2> QED
      BY <2>3, <2>4, <2>5 DEF PerWorker
  <1> QED
    BY <1>3, <1>4, <1>5, <1>6 DEF Inv

LEMMA NextInv ==
  ASSUME EvictsInWindow = FALSE, Inv, [Next]_vars
  PROVE  Inv'
  <1>1. CASE Client
    BY <1>1, SetupVmStep, BeginStep, CheckDoneStep DEF Client
  <1>2. CASE HostStep
    BY <1>2, CheckBusyStep, StoreFuncStep, StoreSeqStep, CleanFuncStep, CleanSeqStep, CallSevStep,
       ReadExpectedStep, WaitStep DEF HostStep
  <1>3. ASSUME NEW w \in Workers, WorkerStep(w) PROVE Inv'
    BY <1>3, PollStep, WakeOrSignalStep, LoadSeqStep, LoadFuncStep, RunStep, StoreDoneStep
       DEF WorkerStep
  <1>4. ASSUME NEW l \in Lines, Evict(l) \/ Fill(l) PROVE Inv'
    BY <1>4, EvictStep, FillStep
  <1>5. CASE UNCHANGED vars
    <2>1. UNCHANGED <<mem, cache, cached, pc, core_id, func, expected_seq, status, w_seq, w_func,
                      issued, ran>>
      BY <1>5 DEF vars, call, locals, history
    <2> QED
      BY <2>1 DEF Inv, TypeOK, Coherence, Coherent, CallInv, PerWorker, Counts, DoneCopy,
                  CommandInMemory, WorkerInv, Working, HostInv, Sent, Acked, Latest, Pending, About
  <1> QED
    BY <1>1, <1>2, <1>3, <1>4, <1>5 DEF Next

\* Outside the window in which a command may overtake its function, the dispatcher's state
\* satisfies the inductive invariant: what a worker reads past the cache is the command that was
\* issued, and core 0's copy of cmd_done is at most one acknowledgement behind.
THEOREM CacheInvariant ==
  ASSUME EvictsInWindow = FALSE
  PROVE  Spec => []Inv
  <1>1. Inv /\ [Next]_vars => Inv'
    BY NextInv
  <1> QED
    BY <1>1, InitInv, PTL DEF Spec

\* Once every core is cached, no clean line disagrees with memory.
THEOREM CachesSettle ==
  ASSUME EvictsInWindow = FALSE
  PROVE  Spec => []NoStaleLine
  <1>1. Inv => NoStaleLine
    BY OwnerIsCore DEF Inv, Coherence, Coherent, NoStaleLine
  <1> QED
    BY <1>1, CacheInvariant, PTL

\* multicore_check_done reports no command finished whose function has not run.
THEOREM CheckDoneIsSound ==
  ASSUME EvictsInWindow = FALSE
  PROVE  Spec => []CheckDoneSound
  <1>1. Inv => CheckDoneSound
    BY DEF Inv, CallInv, CheckDoneSound
  <1> QED
    BY <1>1, CacheInvariant, PTL

\* multicore_wait returns once the function last issued has run, and no other one in its place.
THEOREM WaitMeansRan ==
  ASSUME EvictsInWindow = FALSE
  PROVE  Spec => CallRunsFunction
  <1>1. ASSUME Inv, [Next]_vars
        PROVE  [ pc[0] = "done?" /\ pc'[0] = "idle" =>
                   /\ ran[core_id] \subseteq {issued[core_id]}
                   /\ issued[core_id] # NullFunc => ran[core_id] # {} ]_vars
    <2>1. SUFFICES ASSUME pc[0] = "done?", pc'[0] = "idle"
                   PROVE  /\ ran[core_id] \subseteq {issued[core_id]}
                          /\ issued[core_id] # NullFunc => ran[core_id] # {}
      OBVIOUS
    <2>2. core_id \in Workers /\ TypeOK
      BY <1>1 DEF Inv, TypeOK
    <2>3. ran[core_id] \subseteq {issued[core_id]}
      BY <1>1, <2>2 DEF Inv, PerWorker, Counts
    <2>4. Read(0, Done(core_id)) = expected_seq
      <3>1. WaitLoop
        <4>1. \A w \in Workers : WorkerStep(w) => pc'[0] = pc[0]
          BY <2>2, LineFacts DEF WorkerStep, Poll, PollWfe, LoadSeq, LoadFunc, Run, StoreDone, DoneSev,
                                 Goto, TypeOK
        <4>2. \A l \in Lines : Evict(l) \/ Fill(l) => pc' = pc
          BY DEF Evict, Fill
        <4>3. Client => pc[0] = "idle"
          BY DEF Client, SetupVm, BeginCall, CheckDone, BeginWait
        <4>4. HostStep => pc[0] # "done?" \/ WaitLoop
          BY DEF HostStep, CheckBusy, StoreFunc, StoreSeq, CleanFunc, CleanSeq, CallSev,
                 ReadExpected, InvDone, WaitWfe
        <4>5. UNCHANGED vars => pc' = pc
          BY DEF vars
        <4> QED
          BY <1>1, <2>1, <4>1, <4>2, <4>3, <4>4, <4>5 DEF Next
      <3> QED
        BY <2>1, <2>2, <3>1, LineFacts DEF WaitLoop, Goto, TypeOK
    <2>5. expected_seq = Sent(core_id)
      BY <1>1, <2>1, <2>2 DEF Inv, PerWorker, HostInv, About
    <2> QED
      BY <1>1, <2>1, <2>2, <2>3, <2>4, <2>5, DoneRan
  <1> QED
    BY <1>1, CacheInvariant, PTL DEF Spec, CallRunsFunction
=============================================================================

---------------------------- MODULE MemoryProofs ----------------------------
(***************************************************************************)
(* Proofs about memory.  The blocks of Heap are safe for every word size,  *)
(* heap and sequence of requests below MaxAsk; the programs of Llama are   *)
(* among those that make such requests; and the page table that setup_vm   *)
(* fills takes every core to all of the memory in use at its own address.  *)
(***************************************************************************)
EXTENDS Llama, SequenceTheorems, TLAPS

\* Division with remainder, by a divisor that is not a literal.
LEMMA DivMod ==
  ASSUME NEW m \in Nat, NEW a \in Nat \ {0}
  PROVE  /\ m % a \in 0 .. a - 1
         /\ m \div a \in Nat
         /\ m = a * (m \div a) + (m % a)
  BY Z3

LEMMA MultipleIsMultiple ==
  ASSUME NEW q \in Nat, NEW a \in Nat \ {0}
  PROVE  (a * q) % a = 0
  BY Z3

\* RoundUp(n, a) is the least multiple of a that is not below n, unless the sum wraps.
LEMMA RoundUpLeast ==
  ASSUME NEW n \in Nat, NEW a \in Nat \ {0}, n + a < WordMod, WordMod \in Nat
  PROVE  /\ RoundUp(n, a) \in n .. n + a - 1
         /\ RoundUp(n, a) % a = 0
         /\ \A p \in Nat : n <= p /\ p % a = 0 => RoundUp(n, a) <= p
PROOF
<1> DEFINE m == n + a - 1
           q == m \div a
<1>1. m \in Nat /\ m % WordMod = m
  BY Z3
<1>2. m % a \in 0 .. a - 1 /\ q \in Nat /\ m = a * q + (m % a)
  BY <1>1, DivMod
<1>3. RoundUp(n, a) = a * q
  <2>1. RoundUp(n, a) = m - (m % a)
    BY <1>1 DEF RoundUp
  <2> QED  BY <2>1, <1>1, <1>2, Z3
<1>4. a * q \in n .. n + a - 1
  BY <1>1, <1>2, Z3
<1>5. (a * q) % a = 0
  BY <1>2, MultipleIsMultiple
<1>6. ASSUME NEW p \in Nat, n <= p, p % a = 0
      PROVE  a * q <= p
  <2> DEFINE k == p \div a
  <2>1. k \in Nat /\ p = a * k
    BY <1>6, DivMod, Z3
  <2>2. CASE q <= k
    BY <2>1, <2>2, <1>2, Z3
  <2>3. CASE k < q
    <3>1. k + 1 <= q
      BY <2>1, <2>3, <1>2
    <3>2. a * (k + 1) <= a * q
      BY <3>1, <2>1, <1>2, Z3
    <3>3. a * (k + 1) = p + a
      BY <2>1, Z3
    <3> QED  BY <3>2, <3>3, <1>1, <1>2, <1>6, Z3
  <2> QED  BY <2>1, <2>2, <2>3, <1>2
<1> QED  BY <1>3, <1>4, <1>5, <1>6

-----------------------------------------------------------------------------
Block == [addr : Nat, len : Nat, align : Nat \ {0}]

\* A heap is set up, and its pointer is not beyond the first multiple of MaxAlign past the end.
SetUp(h) ==
  /\ h \in [start : Nat \ {0}, ptr : Nat \ {0}, end : Nat]
  /\ h.start <= h.ptr
  /\ h.start <= h.end
  /\ h.end + MaxAsk + 3 * MaxAlign < WordMod
  /\ h.ptr <= RoundUp(h.end, MaxAlign)

HeapInv ==
  /\ blocks \in Seq(Block)
  /\ heap # NoHeap => SetUp(heap)
  /\ heap = NoHeap => blocks = <<>>
  /\ ret \in Nat
  /\ BlocksSafe

\* What an allocation starts from: a heap that holds all the blocks below its pointer.
LEMMA ReadyIsSetUp ==
  ASSUME HeapInv
  PROVE  /\ SetUp(Ready)
         /\ \A k \in DOMAIN blocks :
              /\ Ready.start <= blocks[k].addr
              /\ blocks[k].addr + blocks[k].len <= Ready.ptr
              /\ blocks[k].addr + blocks[k].len <= Ready.end
PROOF
<1>1. CASE heap = NoHeap
  <2>1. heap.ptr = 0 /\ blocks = <<>>
    BY <1>1 DEF NoHeap, HeapInv
  <2>2. Ready = [start |-> LinkStart, ptr |-> LinkStart, end |-> LinkStart + DefaultSize]
    BY <2>1 DEF Ready
  <2>3. RoundUp(Ready.end, MaxAlign) \in Ready.end .. Ready.end + MaxAlign - 1
    <3>1. Ready.end \in Nat /\ MaxAlign \in Nat \ {0} /\ Ready.end + MaxAlign < WordMod
      BY <2>2, HeapConstants
    <3> QED  BY <3>1, RoundUpLeast, HeapConstants
  <2>4. SetUp(Ready)
    BY <2>2, <2>3, HeapConstants DEF SetUp
  <2> QED  BY <2>1, <2>4
<1>2. CASE heap # NoHeap
  <2>1. SetUp(heap) /\ heap.ptr # 0
    BY <1>2 DEF HeapInv, SetUp
  <2>2. Ready = heap
    BY <2>1 DEF Ready
  <2> QED  BY <2>1, <2>2 DEF HeapInv, BlocksSafe
<1> QED  BY <1>1, <1>2

\* An allocation of n bytes at p, above the pointer of the heap it starts from, keeps the
\* invariant, whether it succeeds or not.
LEMMA CarveSafe ==
  ASSUME HeapInv,
         NEW p \in Nat, NEW size \in Nat, NEW n \in Nat, NEW a \in Nat \ {0},
         n <= size, size <= MaxAsk + MaxAlign,
         Ready.ptr <= p, p <= RoundUp(Ready.end, MaxAlign), p % a = 0,
         Carve(Ready, p, size, n, a)
  PROVE  HeapInv'
PROOF
<1> DEFINE h == Ready
           b == [addr |-> p, len |-> n, align |-> a]
<1>1. /\ SetUp(h)
      /\ \A k \in DOMAIN blocks :
           /\ h.start <= blocks[k].addr
           /\ blocks[k].addr + blocks[k].len <= h.ptr
           /\ blocks[k].addr + blocks[k].len <= h.end
  BY ReadyIsSetUp
<1>2. RoundUp(h.end, MaxAlign) \in h.end .. h.end + MaxAlign - 1
  <2>1. h.end \in Nat /\ MaxAlign \in Nat \ {0} /\ h.end + MaxAlign < WordMod
    BY <1>1, HeapConstants DEF SetUp
  <2> QED  BY <2>1, RoundUpLeast, HeapConstants
<1>3. (p + size) % WordMod = p + size
  <2>1. p + size \in Nat /\ p + size < WordMod
    BY <1>1, <1>2, HeapConstants DEF SetUp
  <2> QED  BY <2>1, HeapConstants
<1>4. blocks \in Seq(Block)
  BY DEF HeapInv
<1>5. CASE p + size > h.end
  <2>1. heap' = [h EXCEPT !.ptr = p] /\ blocks' = blocks
    BY <1>3, <1>5 DEF Carve
  <2>2. heap'.start = h.start /\ heap'.ptr = p /\ heap'.end = h.end
    BY <2>1, <1>1 DEF SetUp
  <2>3. SetUp(heap')
    BY <2>1, <2>2, <1>1 DEF SetUp
  <2>4. BlocksSafe'
    <3>1. ASSUME NEW k \in DOMAIN blocks
          PROVE  /\ heap'.start <= blocks[k].addr
                 /\ blocks[k].addr + blocks[k].len <= heap'.ptr
                 /\ blocks[k].addr + blocks[k].len <= heap'.end
      <4>1. blocks[k] \in Block
        BY <1>4
      <4> QED  BY <4>1, <2>2, <1>1 DEF SetUp, Block
    <3>2. \A k \in DOMAIN blocks : blocks[k].addr % blocks[k].align = 0
      BY DEF HeapInv, BlocksSafe
    <3>3. \A k, j \in DOMAIN blocks : k # j => Apart(blocks[k], blocks[j])
      BY DEF HeapInv, BlocksSafe
    <3> HIDE DEF h
    <3> QED  BY <2>1, <3>1, <3>2, <3>3 DEF BlocksSafe, Apart
  <2>5. heap' # NoHeap
    BY <2>2, <1>1 DEF NoHeap, SetUp
  <2>6. blocks' \in Seq(Block)
    BY <2>1, <1>4
  <2>7. ret' \in Nat
    BY <1>3, <1>5 DEF Carve
  <2> QED  BY <2>3, <2>4, <2>5, <2>6, <2>7 DEF HeapInv, SetUp
<1>6. CASE p + size <= h.end
  <2>1. heap' = [h EXCEPT !.ptr = p + size] /\ blocks' = Append(blocks, b)
    <3>1. ~((p + size) % WordMod > h.end)
      BY <1>1, <1>3, <1>6 DEF SetUp
    <3> QED  BY <3>1, <1>3 DEF Carve
  <2>2. heap'.start = h.start /\ heap'.ptr = p + size /\ heap'.end = h.end
    BY <2>1, <1>1 DEF SetUp
  <2>3. SetUp(heap')
    <3>1. heap' \in [start : Nat \ {0}, ptr : Nat \ {0}, end : Nat]
      BY <2>1, <1>1 DEF SetUp
    <3>2. heap'.start <= heap'.ptr /\ heap'.ptr <= RoundUp(heap'.end, MaxAlign)
      BY <2>2, <1>1, <1>2, <1>6 DEF SetUp
    <3> QED  BY <3>1, <3>2, <2>2, <1>1 DEF SetUp
  <2>4. blocks' \in Seq(Block)
    BY <2>1, <1>4 DEF Block
  <2>5. /\ DOMAIN blocks' = 1 .. Len(blocks) + 1
        /\ \A k \in DOMAIN blocks : blocks'[k] = blocks[k] /\ blocks[k] \in Block
        /\ blocks'[Len(blocks) + 1] = b
        /\ DOMAIN blocks = 1 .. Len(blocks) /\ Len(blocks) \in Nat
    BY <2>1, <1>4
  <2>6. ASSUME NEW k \in DOMAIN blocks'
        PROVE  /\ heap'.start <= blocks'[k].addr
               /\ blocks'[k].addr + blocks'[k].len <= heap'.ptr
               /\ blocks'[k].addr + blocks'[k].len <= heap'.end
               /\ blocks'[k].addr % blocks'[k].align = 0
    <3>1. CASE k \in DOMAIN blocks
      <4>1. blocks[k].addr % blocks[k].align = 0
        BY <3>1 DEF HeapInv, BlocksSafe
      <4> QED  BY <4>1, <3>1, <2>5, <2>2, <1>1 DEF SetUp, Block
    <3>2. CASE k = Len(blocks) + 1
      BY <3>2, <2>5, <2>2, <1>1, <1>6 DEF SetUp
    <3> QED  BY <2>5, <3>1, <3>2
  <2>7. ASSUME NEW k \in DOMAIN blocks
        PROVE  Apart(blocks[k], b)
    BY <2>5, <1>1 DEF SetUp, Apart, Block
  <2>8. ASSUME NEW k \in DOMAIN blocks', NEW j \in DOMAIN blocks', k # j
        PROVE  Apart(blocks'[k], blocks'[j])
    <3>1. CASE k \in DOMAIN blocks /\ j \in DOMAIN blocks
      BY <3>1, <2>5, <2>8 DEF HeapInv, BlocksSafe
    <3>2. CASE k \in DOMAIN blocks /\ j = Len(blocks) + 1
      BY <3>2, <2>5, <2>7
    <3>3. CASE k = Len(blocks) + 1 /\ j \in DOMAIN blocks
      BY <3>3, <2>5, <2>7 DEF Apart
    <3> QED  BY <2>5, <2>8, <3>1, <3>2, <3>3
  <2>9. BlocksSafe'
    BY <2>6, <2>8 DEF BlocksSafe, Apart
  <2>10. heap' # NoHeap
    BY <2>2, <1>1 DEF NoHeap, SetUp
  <2>11. ret' \in Nat
    BY DEF Carve
  <2> QED  BY <2>3, <2>4, <2>9, <2>10, <2>11 DEF HeapInv, SetUp
<1>7. p + size \in Nat /\ h.end \in Nat
  BY <1>1 DEF SetUp
<1> QED  BY <1>5, <1>6, <1>7

\* The requests: kmalloc rounds to four bytes, kmalloc_aligned to the alignment.
LEMMA KmallocSafe ==
  ASSUME HeapInv, NEW n \in 0 .. MaxAsk, kmalloc(n)
  PROVE  HeapInv'
PROOF
<1>1. SetUp(Ready)
  BY ReadyIsSetUp
<1>2. RoundUp(n, 4) \in n .. n + 4 - 1
  <2>1. n \in Nat /\ n + 4 < WordMod /\ WordMod \in Nat /\ 4 \in Nat \ {0}
    BY HeapConstants
  <2> QED  BY <2>1, RoundUpLeast
<1>3. Ready.ptr \in Nat /\ Ready.ptr % 1 = 0 /\ Ready.ptr <= RoundUp(Ready.end, MaxAlign)
  BY <1>1 DEF SetUp
<1>4. Carve(Ready, Ready.ptr, RoundUp(n, 4), n, 1)
  BY DEF kmalloc
<1>5. RoundUp(n, 4) \in Nat /\ n <= RoundUp(n, 4) /\ RoundUp(n, 4) <= MaxAsk + MaxAlign
  BY <1>2, HeapConstants
<1> HIDE DEF RoundUp, Carve, Ready
<1> QED  BY <1>3, <1>4, <1>5, CarveSafe

LEMMA AlignedSafe ==
  ASSUME HeapInv, NEW n \in 0 .. MaxAsk, NEW a \in Alignments, kmalloc_aligned(n, a)
  PROVE  HeapInv'
PROOF
<1> DEFINE top == RoundUp(Ready.end, MaxAlign)
           p == RoundUp(Ready.ptr, a)
<1>1. SetUp(Ready)
  BY ReadyIsSetUp
<1>2. a \in Nat \ {0} /\ a <= MaxAlign /\ MaxAlign % a = 0 /\ MaxAlign \in Nat \ {0}
  BY HeapConstants
<1>3. top \in Ready.end .. Ready.end + MaxAlign - 1 /\ top % MaxAlign = 0
  <2>1. Ready.end \in Nat /\ Ready.end + MaxAlign < WordMod
    BY <1>1, HeapConstants DEF SetUp
  <2> QED  BY <2>1, <1>2, RoundUpLeast, HeapConstants
<1>4. top % a = 0
  <2>1. top \in Nat
    BY <1>3, <1>1 DEF SetUp
  <2> HIDE DEF top
  <2> DEFINE j == top \div MaxAlign
             k == MaxAlign \div a
  <2>2. j \in Nat /\ top = MaxAlign * j + (top % MaxAlign)
    BY <2>1, <1>2, DivMod
  <2>3. k \in Nat /\ MaxAlign = a * k + (MaxAlign % a)
    BY <1>2, DivMod
  <2> HIDE DEF j, k
  <2>4. top = MaxAlign * j /\ MaxAlign = a * k
    BY <2>1, <2>2, <2>3, <1>2, <1>3, Z3
  <2>5. top = a * (k * j) /\ k * j \in Nat
    BY <2>2, <2>3, <2>4, <1>2, Z3
  <2>6. (a * (k * j)) % a = 0
    BY <2>5, <1>2, MultipleIsMultiple
  <2> QED  BY <2>5, <2>6
<1>5. Ready.ptr \in Nat /\ Ready.ptr <= top /\ top \in Nat /\ Ready.ptr + a < WordMod
  BY <1>1, <1>2, <1>3, HeapConstants DEF SetUp
<1>6. p \in Ready.ptr .. Ready.ptr + a - 1 /\ p % a = 0 /\ p <= top
  BY <1>2, <1>4, <1>5, RoundUpLeast, HeapConstants
<1>7. RoundUp(n, a) \in n .. n + a - 1
  <2>1. n + a < WordMod /\ n \in Nat
    BY <1>2, HeapConstants
  <2> QED  BY <2>1, <1>2, RoundUpLeast, HeapConstants
<1>8. Carve(Ready, p, RoundUp(n, a), n, a)
  BY DEF kmalloc_aligned
<1>9. /\ RoundUp(n, a) \in Nat /\ n <= RoundUp(n, a) /\ RoundUp(n, a) <= MaxAsk + MaxAlign
      /\ p \in Nat /\ Ready.ptr <= p /\ n \in Nat
  BY <1>2, <1>5, <1>6, <1>7, HeapConstants
<1> HIDE DEF RoundUp, Carve, Ready
<1> QED  BY <1>2, <1>6, <1>8, <1>9, CarveSafe

LEMMA InitSetStartSafe ==
  ASSUME HeapInv, heap = NoHeap,
         NEW r \in Regions, kmalloc_init_set_start(r.addr, r.bytes)
  PROVE  HeapInv'
PROOF
<1> DEFINE e == r.addr + r.bytes
<1>1. WordMod \in Nat /\ MaxAsk \in Nat /\ MaxAlign \in Nat \ {0}
  BY HeapConstants
<1>2. /\ r.addr \in Nat \ {0} /\ e \in Nat /\ r.addr <= e
      /\ e + MaxAsk + 3 * MaxAlign < WordMod /\ e + MaxAlign < WordMod
  BY HeapConstants, <1>1
<1>3. e % WordMod = e
  BY <1>1, <1>2
<1>4. heap' = [start |-> r.addr, ptr |-> r.addr, end |-> e] /\ blocks' = blocks
  BY <1>3 DEF kmalloc_init_set_start
<1> HIDE DEF e
<1>5. RoundUp(e, MaxAlign) \in e .. e + MaxAlign - 1
  BY <1>1, <1>2, RoundUpLeast
<1>6. SetUp(heap')
  BY <1>1, <1>2, <1>4, <1>5 DEF SetUp
<1>7. blocks' = <<>>
  BY <1>4 DEF HeapInv
<1>8. ret' \in Nat
  BY DEF HeapInv, kmalloc_init_set_start
<1> QED  BY <1>4, <1>6, <1>7, <1>8 DEF HeapInv, BlocksSafe, NoHeap, SetUp

LEMMA HeapInvStep ==
  ASSUME HeapInv, [HeapNext]_heap_vars
  PROVE  HeapInv'
PROOF
<1>1. CASE UNCHANGED heap_vars
  BY <1>1 DEF heap_vars, HeapInv, BlocksSafe, SetUp
<1>2. CASE HeapNext
  <2>1. ASSUME heap = NoHeap, NEW r \in Regions, kmalloc_init_set_start(r.addr, r.bytes)
        PROVE  HeapInv'
    BY <2>1, InitSetStartSafe
  <2>2. ASSUME NEW n \in 0 .. MaxAsk, kmalloc(n)
        PROVE  HeapInv'
    BY <2>2, KmallocSafe
  <2>3. ASSUME NEW n \in 0 .. MaxAsk, NEW a \in Alignments, kmalloc_aligned(n, a)
        PROVE  HeapInv'
    BY <2>3, AlignedSafe
  <2> QED  BY <1>2, <2>1, <2>2, <2>3 DEF HeapNext
<1> QED  BY <1>1, <1>2

THEOREM HeapInvHolds == HeapSpec => []HeapInv
PROOF
<1>1. HeapInit => HeapInv
  BY DEF HeapInit, HeapInv, BlocksSafe, NoHeap
<1>2. HeapInv /\ [HeapNext]_heap_vars => HeapInv'
  BY HeapInvStep
<1> QED  BY <1>1, <1>2, PTL DEF HeapSpec

\* Every block the allocator of kmalloc.c hands out lies inside the heap, is aligned, and shares
\* no byte with another one.
THEOREM BlocksAreSafe == HeapSpec => []BlocksSafe
PROOF
<1>1. HeapInv => BlocksSafe
  BY DEF HeapInv
<1> QED  BY <1>1, HeapInvHolds, PTL

-----------------------------------------------------------------------------
(***************************************************************************)
(* The inference programs are clients of the allocator within HeapNext.    *)
(***************************************************************************)

\* The lists of requests are sequences.
LEMMA ConcatShape ==
  ASSUME NEW S, NEW s \in Seq(S), NEW t \in Seq(S)
  PROVE  /\ s \o t \in Seq(S)
         /\ Len(s \o t) = Len(s) + Len(t)
         /\ DOMAIN (s \o t) = 1 .. Len(s \o t)
         /\ \A k \in DOMAIN s : k \in DOMAIN (s \o t) /\ (s \o t)[k] = s[k]
         /\ \A k \in DOMAIN t : Len(s) + k \in DOMAIN (s \o t) /\ (s \o t)[Len(s) + k] = t[k]
         /\ \A k \in DOMAIN (s \o t) :
              \/ k \in DOMAIN s /\ (s \o t)[k] = s[k]
              \/ \E j \in DOMAIN t : k = Len(s) + j /\ (s \o t)[k] = t[j]
  OBVIOUS

LEMMA TablesShape ==
  ASSUME NEW p, NEW shared
  PROVE  /\ Len(WeightTables(p, shared)) \in Nat \ {0}
         /\ DOMAIN WeightTables(p, shared) = 1 .. Len(WeightTables(p, shared))
PROOF
<1> DEFINE S == {8, 4 * p.vocab_size * p.dim, 8 * p.n_layers}
           a == <<8, 4 * p.vocab_size * p.dim>>
           b == [k \in 1 .. 7 |-> 8 * p.n_layers]
           c == IF shared THEN <<>> ELSE <<8>>
<1>1. a \in Seq(S) /\ Len(a) = 2
  OBVIOUS
<1>2. b \in Seq(S) /\ Len(b) = 7
  OBVIOUS
<1>3. c \in Seq(S)
  <2>1. <<8>> \in Seq(S) /\ <<>> \in Seq(S)
    OBVIOUS
  <2> HIDE DEF S
  <2> QED  BY <2>1
<1>4. WeightTables(p, shared) = a \o b \o c
  BY DEF WeightTables
<1> HIDE DEF S, a, b, c
<1>5. a \o b \in Seq(S) /\ Len(a \o b) = 9
  <2>1. a \o b \in Seq(S) /\ Len(a \o b) = Len(a) + Len(b)
    BY <1>1, <1>2, ConcatShape
  <2> QED  BY <2>1, <1>1, <1>2
<1>6. /\ Len((a \o b) \o c) = 9 + Len(c) /\ Len(c) \in Nat
      /\ DOMAIN ((a \o b) \o c) = 1 .. Len((a \o b) \o c)
  BY <1>3, <1>5, ConcatShape
<1> QED
  BY <1>4, <1>6

LEMMA RunStateShape ==
  ASSUME NEW prog, NEW p
  PROVE  /\ Len(RunState(prog, p)) \in Nat \ {0}
         /\ DOMAIN RunState(prog, p) = 1 .. Len(RunState(prog, p))
PROOF
<1>1. CASE prog = "runq"
  BY <1>1 DEF RunState, RunStateQ
<1>2. CASE prog # "runq"
  <2> DEFINE n == RunStateFloats(p)
  <2>1. DOMAIN n = 1 .. 10
    BY DEF RunStateFloats
  <2>2. RunState(prog, p) = [k \in DOMAIN n |-> [bytes |-> n[k] * Float, checked |-> TRUE]]
    BY <1>2 DEF RunState
  <2> HIDE DEF n
  <2>3. RunState(prog, p) = [k \in 1 .. 10 |-> [bytes |-> n[k] * Float, checked |-> TRUE]]
    BY <2>1, <2>2
  <2> QED
    BY <2>3
<1> QED
  BY <1>1, <1>2

\* What a run was given is one of the runs.
GivenInv ==
  /\ \E r \in Runs : program = r.program /\ model = r.model /\ prompt = r.prompt
  /\ vocabulary \in Tokenizers

\* From the acceptance of the checkpoint on, config is its Config, and where a loop allocates, its
\* index is within its list.
Begun == pc \notin {"start", "checkpoint", "panic", "rebooted", "undefined"}

PlaceInv ==
  /\ pc = "start" => heap = NoHeap
  /\ Begun => /\ model.there /\ Accepted(program, model)
              /\ config = IF program = "run" THEN [model.config EXCEPT !.vocab_size = Abs(@)]
                          ELSE model.config
  /\ pc \in {"start", "checkpoint", "vocab", "scores", "file"} => i = 1
  /\ pc = "tables" => i \in DOMAIN WeightTables(config, model.shared)
  /\ pc = "state" => i \in DOMAIN RunState(program, config)
  /\ pc = "entries" => i \in Nat \ {0}
  /\ pc \in {"tables", "profile", "timer", "histogram"} => program = "runq"

UseInv == GivenInv /\ PlaceInv

LEMMA UseInit == Init => HeapInit /\ UseInv
  BY DEF Init, HeapInit, UseInv, GivenInv, PlaceInv, Begun

\* The requests of a run that has begun are those that LlamaConstants bounds.
LEMMA Asked ==
  ASSUME UseInv, Begun
  PROVE  /\ config.vocab_size \in Int
         /\ vocabulary.n_data \in 0 .. MaxAsk
         /\ config.vocab_size * Pointer \in 0 .. MaxAsk
         /\ config.vocab_size * Float \in 0 .. MaxAsk
         /\ config.vocab_size * Pair \in 0 .. MaxAsk
         /\ PromptBytes(prompt) \in 0 .. MaxAsk
         /\ BufferBytes(vocabulary) \in 0 .. MaxAsk
         /\ \A k \in DOMAIN RunState(program, config) :
              RunState(program, config)[k].bytes \in 0 .. MaxAsk
         /\ \A k \in 1 .. config.vocab_size : Len(vocabulary.entries[k].str) + 1 \in 0 .. MaxAsk
         /\ program = "runq" =>
              /\ CodeWords * 4 \in 0 .. MaxAsk
              /\ \A k \in DOMAIN WeightTables(config, model.shared) :
                   WeightTables(config, model.shared)[k] \in 0 .. MaxAsk
PROOF
<1>1. PICK r \in Runs : program = r.program /\ model = r.model /\ prompt = r.prompt
  BY DEF UseInv, GivenInv
<1> DEFINE p == IF r.program = "run" THEN [r.model.config EXCEPT !.vocab_size = Abs(@)]
                ELSE r.model.config
<1>2. config = p /\ r.model.there /\ Accepted(r.program, r.model)
  BY <1>1 DEF UseInv, PlaceInv
<1>3. vocabulary \in Tokenizers
  BY DEF UseInv, GivenInv
<1>4. Requests(r, vocabulary) \subseteq 0 .. MaxAsk
  BY <1>2, <1>3, LlamaConstants
<1>5. r.program \in {"run", "runq"} /\ r.model.config.vocab_size \in Int
  BY <1>3, LlamaConstants
<1>6. p.vocab_size \in Int
  BY <1>5 DEF Abs
<1> HIDE DEF p
<1> QED
  BY <1>1, <1>2, <1>4, <1>5, <1>6 DEF Requests, Range, p

\* What a step does to the heap.
MayUse == UNCHANGED heap_vars \/ HeapNext

LEMMA KmallocMayUse ==
  ASSUME NEW n \in 0 .. MaxAsk, kmalloc(n)
  PROVE  MayUse
  BY DEF MayUse, HeapNext

\* The groups of variables that a step leaves alone.
USE DEF Unchanged, NoMore, given, heap_vars, infer_vars

LEMMA UseStep ==
  ASSUME UseInv, [Next]_vars
  PROVE  UseInv' /\ MayUse
PROOF
<1> DEFINE Goal == PlaceInv' /\ MayUse /\ UNCHANGED given
<1>1. ASSUME KmallocInit PROVE Goal
  <2>1. heap = NoHeap /\ kmalloc_init_set_start(SEG_HEAP, HeapBytes)
    BY <1>1 DEF KmallocInit, UseInv, PlaceInv
  <2>2. MayUse
    <3> DEFINE r == [addr |-> SEG_HEAP, bytes |-> HeapBytes]
    <3>1. r \in Regions /\ kmalloc_init_set_start(r.addr, r.bytes)
      BY <2>1, LlamaConstants
    <3> QED  BY <2>1, <3>1 DEF MayUse, HeapNext
  <2> QED  BY <1>1, <2>2 DEF KmallocInit, UseInv, PlaceInv, Begun
<1>2. ASSUME read_checkpoint PROVE Goal
  <2>1. model.n_data \in 0 .. MaxAsk
    BY <1>2, LlamaConstants DEF read_checkpoint, UseInv, GivenInv
  <2>2. MayUse
    BY <1>2, <2>1, KmallocMayUse DEF read_checkpoint
  <2>3. 1 \in DOMAIN RunState(program, config')
    BY RunStateShape
  <2> QED  BY <1>2, <2>2, <2>3 DEF read_checkpoint, UseInv, PlaceInv, Begun, After, memory_map_weights
<1>3. ASSUME read_checkpointQ PROVE Goal
  <2>1. model.n_data \in 0 .. MaxAsk
    BY <1>3, LlamaConstants DEF read_checkpointQ, UseInv, GivenInv
  <2>2. MayUse
    BY <1>3, <2>1, KmallocMayUse DEF read_checkpointQ
  <2>3. 1 \in DOMAIN WeightTables(config', model.shared)
    BY TablesShape
  <2> QED  BY <1>3, <2>2, <2>3 DEF read_checkpointQ, UseInv, PlaceInv, Begun, After
<1>4. ASSUME memory_map_weightsQ PROVE Goal
  <2> DEFINE tables == WeightTables(config, model.shared)
  <2>1. Begun /\ program = "runq" /\ i \in DOMAIN tables /\ kmalloc(tables[i])
    BY <1>4 DEF memory_map_weightsQ, UseInv, PlaceInv, Begun
  <2>2. tables[i] \in 0 .. MaxAsk
    BY <2>1, Asked
  <2>3. MayUse
    BY <2>1, <2>2, KmallocMayUse
  <2>4. 1 \in DOMAIN RunState(program, config)
    BY RunStateShape
  <2>5. i < Len(tables) => i + 1 \in DOMAIN tables
    BY <2>1, TablesShape
  <2> HIDE DEF tables
  <2>6. /\ UNCHANGED <<given, config>>
        /\ \/ pc' = "undefined"
           \/ i < Len(tables) /\ pc' = "tables" /\ i' = i + 1
           \/ pc' = "state" /\ i' = 1
    BY <1>4 DEF memory_map_weightsQ, After, tables
  <2> QED  BY <2>1, <2>3, <2>4, <2>5, <2>6 DEF UseInv, PlaceInv, Begun, tables
<1>5. ASSUME malloc_run_state PROVE Goal
  <2> DEFINE buffers == RunState(program, config)
  <2>1. Begun /\ i \in DOMAIN buffers /\ kmalloc(buffers[i].bytes)
    BY <1>5 DEF malloc_run_state, UseInv, PlaceInv, Begun
  <2>2. buffers[i].bytes \in 0 .. MaxAsk
    BY <2>1, Asked
  <2>3. MayUse
    BY <2>1, <2>2, KmallocMayUse
  <2>4. i < Len(buffers) => i + 1 \in DOMAIN buffers
    BY <2>1, RunStateShape
  <2> HIDE DEF buffers
  <2>5. /\ UNCHANGED <<given, config>>
        /\ \/ i < Len(buffers) /\ pc' = pc /\ i' = i + 1
           \/ pc' \in {"panic", "undefined", "vocab"} /\ i' = 1
    BY <1>5 DEF malloc_run_state, buffers
  <2> QED  BY <1>5, <2>1, <2>3, <2>4, <2>5 DEF UseInv, PlaceInv, Begun, malloc_run_state, buffers
<1>6. ASSUME GprofTable PROVE Goal
  <2>1. Begun /\ program = "runq" /\ kmalloc(CodeWords * 4)
    BY <1>6 DEF GprofTable, UseInv, PlaceInv, Begun
  <2>2. MayUse
    BY <2>1, Asked, KmallocMayUse
  <2> QED  BY <1>6, <2>2 DEF GprofTable, UseInv, PlaceInv, Begun, After
<1>7. ASSUME AllocVocab PROVE Goal
  <2>1. Begun
    BY <1>7 DEF AllocVocab, Begun
  <2>2. MayUse
    BY <1>7, <2>1, Asked, KmallocMayUse DEF AllocVocab
  <2>3. pc' \in {"undefined", "scores", "file", "entries"}
    BY <1>7 DEF AllocVocab, After
  <2>4. i = 1 /\ UNCHANGED <<given, i, config>>
    BY <1>7 DEF AllocVocab, UseInv, PlaceInv
  <2> QED  BY <2>1, <2>2, <2>3, <2>4 DEF UseInv, PlaceInv, Begun
<1>8. ASSUME BuildEntry PROVE Goal
  <2>1. Begun /\ i \in Nat \ {0} /\ i <= config.vocab_size
    BY <1>8 DEF BuildEntry, UseInv, PlaceInv, Begun
  <2>2. Len(vocabulary.entries[i].str) + 1 \in 0 .. MaxAsk
    BY <2>1, Asked
  <2>3. UNCHANGED heap_vars \/ kmalloc(Len(vocabulary.entries[i].str) + 1)
    BY <1>8 DEF BuildEntry
  <2>4. MayUse
    BY <2>2, <2>3, KmallocMayUse DEF MayUse
  <2> QED  BY <1>8, <2>1, <2>4 DEF BuildEntry, UseInv, PlaceInv, Begun, After
<1>9. ASSUME build_sampler PROVE Goal
  <2>1. Begun
    BY <1>9 DEF build_sampler, Begun
  <2>2. MayUse
    BY <1>9, <2>1, Asked, KmallocMayUse DEF build_sampler
  <2>3. program \in {"run", "runq"}
    BY LlamaConstants DEF UseInv, GivenInv
  <2> QED  BY <1>9, <2>2, <2>3 DEF build_sampler, UseInv, PlaceInv, Begun, After
<1>10. ASSUME VmPtAlloc PROVE Goal
  <2>1. MayUse
    BY <1>10, LlamaConstants, VmConstants DEF VmPtAlloc, MayUse, HeapNext
  <2> QED  BY <1>10, <2>1 DEF VmPtAlloc, UseInv, PlaceInv, Begun, Asserting
<1>11. ASSUME AllocPrompt PROVE Goal
  <2>1. Begun
    BY <1>11 DEF AllocPrompt, Begun
  <2>2. MayUse
    BY <1>11, <2>1, Asked, KmallocMayUse DEF AllocPrompt
  <2> QED  BY <1>11, <2>2 DEF AllocPrompt, UseInv, PlaceInv, Begun, After
<1>12. ASSUME SortStep PROVE Goal
  <2>1. Begun
    BY <1>12 DEF SortStep, Begun
  <2>2. MayUse
    BY <1>12, <2>1, Asked, KmallocMayUse DEF SortStep
  <2> QED  BY <1>12, <2>2 DEF SortStep, UseInv, PlaceInv, Begun, After
<1>13. ASSUME AllocBuffer PROVE Goal
  <2>1. Begun
    BY <1>13 DEF AllocBuffer, Begun
  <2>2. MayUse
    BY <1>13, <2>1, Asked, KmallocMayUse DEF AllocBuffer
  <2> QED  BY <1>13, <2>2 DEF AllocBuffer, UseInv, PlaceInv, Begun, After
<1>14. ASSUME NoCheckpoint PROVE Goal
  BY <1>14 DEF UseInv, PlaceInv, Begun, MayUse, NoCheckpoint
<1>15. ASSUME InterruptInit PROVE Goal
  BY <1>15 DEF UseInv, PlaceInv, Begun, MayUse, InterruptInit
<1>16. ASSUME TimerInit PROVE Goal
  BY <1>16 DEF UseInv, PlaceInv, Begun, MayUse, TimerInit
<1>17. ASSUME EnableInterrupts PROVE Goal
  BY <1>17 DEF UseInv, PlaceInv, Begun, MayUse, EnableInterrupts
<1>18. ASSUME Interrupt PROVE Goal
  BY <1>18 DEF UseInv, PlaceInv, Begun, MayUse, Interrupt
<1>19. ASSUME GprofDumpStep PROVE Goal
  BY <1>19 DEF UseInv, PlaceInv, Begun, MayUse, GprofDumpStep
<1>20. ASSUME VmInitStep PROVE Goal
  BY <1>20 DEF UseInv, PlaceInv, Begun, MayUse, VmInitStep, Asserting
<1>21. ASSUME VmMapSec PROVE Goal
  BY <1>21 DEF UseInv, PlaceInv, Begun, MayUse, VmMapSec, Asserting
<1>22. ASSUME VmSwitch PROVE Goal
  BY <1>22 DEF UseInv, PlaceInv, Begun, MayUse, VmSwitch, Asserting
<1>23. ASSUME VmSync PROVE Goal
  BY <1>23 DEF UseInv, PlaceInv, Begun, MayUse, VmSync
<1>24. ASSUME VmEnable PROVE Goal
  BY <1>24 DEF UseInv, PlaceInv, Begun, MayUse, VmEnable, Asserting
<1>25. ASSUME EnableCaches PROVE Goal
  BY <1>25 DEF UseInv, PlaceInv, Begun, MayUse, EnableCaches
<1>26. ASSUME EncodeStep PROVE Goal
  BY <1>26 DEF UseInv, PlaceInv, Begun, MayUse, EncodeStep
<1>27. ASSUME MergeStep PROVE Goal
  BY <1>27 DEF UseInv, PlaceInv, Begun, MayUse, MergeStep
<1>28. ASSUME StartGenerating PROVE Goal
  BY <1>28 DEF UseInv, PlaceInv, Begun, MayUse, StartGenerating
<1>29. ASSUME EmbedStep PROVE Goal
  BY <1>29 DEF UseInv, PlaceInv, Begun, MayUse, EmbedStep, Embed, EmbedQ
<1>30. ASSUME LayerStep PROVE Goal
  BY <1>30 DEF UseInv, PlaceInv, Begun, MayUse, LayerStep, ForwardLayer, ForwardLayerQ, Layer
<1>31. ASSUME LogitsStep PROVE Goal
  BY <1>31 DEF UseInv, PlaceInv, Begun, MayUse, LogitsStep, Classify, ClassifyQ, Classified
<1>32. ASSUME NextOfPrompt PROVE Goal
  BY <1>32 DEF UseInv, PlaceInv, Begun, MayUse, NextOfPrompt, Advance
<1>33. ASSUME SampleNext PROVE Goal
  BY <1>33 DEF UseInv, PlaceInv, Begun, MayUse, SampleNext, Advance
<1>34. ASSUME StepsUsedUp PROVE Goal
  BY <1>34 DEF UseInv, PlaceInv, Begun, MayUse, StepsUsedUp
<1>35. ASSUME clean_reboot PROVE Goal
  BY <1>35 DEF UseInv, PlaceInv, Begun, MayUse, clean_reboot
<1>36. ASSUME UNCHANGED vars PROVE Goal
  BY <1>36 DEF UseInv, PlaceInv, Begun, MayUse, vars, main_vars
<1>37. Goal
  <2> HIDE DEF Goal
  <2> QED  BY <1>1, <1>2, <1>3, <1>4, <1>5, <1>6, <1>7, <1>8, <1>9, <1>10, <1>11, <1>12, <1>13, <1>14, <1>15, <1>16, <1>17, <1>18, <1>19, <1>20, <1>21, <1>22, <1>23, <1>24, <1>25, <1>26, <1>27, <1>28, <1>29, <1>30, <1>31, <1>32, <1>33, <1>34, <1>35, <1>36 DEF Next, Rebooted
<1> QED  BY <1>37 DEF UseInv, GivenInv

\* In every run, what the program asks of the allocator is within what BlocksAreSafe is about.
THEOREM UsesHeap == Spec => UsesHeapAsProved
PROOF
<1>1. Init => HeapInit /\ UseInv
  BY UseInit
<1>2. UseInv /\ [Next]_vars => UseInv'
  BY UseStep
<1>3. UseInv /\ [Next]_vars => [UNCHANGED heap_vars \/ HeapNext]_heap_vars
  BY UseStep DEF MayUse
<1> QED  BY <1>1, <1>2, <1>3, PTL DEF Spec, UsesHeapAsProved

\* So its blocks are apart from each other and inside the heap.
THEOREM RunBlocksAreSafe == Spec => []BlocksSafe
PROOF
<1>1. UsesHeapAsProved => HeapSpec
  BY PTL DEF UsesHeapAsProved, HeapSpec
<1> QED  BY <1>1, UsesHeap, BlocksAreSafe, PTL

-----------------------------------------------------------------------------
(***************************************************************************)
(* The page table that setup_vm fills, and the cores that come to use it.  *)
(***************************************************************************)

\* Addresses by their sections of m bytes.
LEMMA DivUnique ==
  ASSUME NEW m \in Nat \ {0}, NEW q \in Nat, NEW r \in 0 .. m - 1
  PROVE  (m * q + r) \div m = q /\ (m * q + r) % m = r
PROOF
<1> DEFINE a == m * q + r
           p == a \div m
<1>1. a \in Nat
  BY Z3
<1>2. a % m \in 0 .. m - 1 /\ p \in Nat /\ a = m * p + (a % m)
  BY <1>1, DivMod
<1>3. ~(p < q)
  <2>1. ASSUME p + 1 <= q PROVE m * p + m <= m * q
    BY <2>1, <1>2, Z3
  <2>2. m * p \in Nat /\ m * q \in Nat
    BY <1>2, Z3
  <2> HIDE DEF p
  <2> QED  BY <2>1, <2>2, <1>2
<1>4. ~(q < p)
  <2>1. ASSUME q + 1 <= p PROVE m * q + m <= m * p
    BY <2>1, <1>2, Z3
  <2>2. m * p \in Nat /\ m * q \in Nat
    BY <1>2, Z3
  <2> HIDE DEF p
  <2> QED  BY <2>1, <2>2, <1>2
<1>5. p = q
  BY <1>2, <1>3, <1>4
<1>6. m * q \in Nat
  BY Z3
<1> QED  BY <1>2, <1>5, <1>6

LEMMA SameSection ==
  ASSUME NEW m \in Nat \ {0}, NEW v \in Nat, v % m = 0, NEW a \in v .. v + m - 1
  PROVE  a \div m = v \div m
PROOF
<1> DEFINE q == v \div m
<1>1. q \in Nat /\ v = m * q
  BY DivMod, Z3
<1>2. a - v \in 0 .. m - 1
  OBVIOUS
<1>3. a = m * q + (a - v)
  BY <1>1
<1> HIDE DEF q
<1>4. (m * q + (a - v)) \div m = q
  BY <1>1, <1>2, DivUnique
<1> QED  BY <1>3, <1>4 DEF q

LEMMA OtherSection ==
  ASSUME NEW m \in Nat \ {0}, NEW v \in Nat, NEW d \in Nat,
         v % m = 0, d % m = 0, v < d
  PROVE  v \div m # d \div m
PROOF
<1> DEFINE p == v \div m
           q == d \div m
<1>1. v = m * p + (v % m) /\ d = m * q + (d % m)
  BY DivMod
<1>2. ~(p = q)
  <2> HIDE DEF p, q
  <2> QED  BY <1>1
<1> QED  BY <1>2

LEMMA RangeConcat ==
  ASSUME NEW S, NEW s \in Seq(S), NEW t \in Seq(S)
  PROVE  s \o t \in Seq(S) /\ Range(s \o t) = Range(s) \cup Range(t)
PROOF
<1> DEFINE st == s \o t
<1>1. /\ st \in Seq(S)
      /\ \A k \in DOMAIN s : k \in DOMAIN st /\ st[k] = s[k]
      /\ \A k \in DOMAIN t : Len(s) + k \in DOMAIN st /\ st[Len(s) + k] = t[k]
      /\ \A k \in DOMAIN st : \/ k \in DOMAIN s /\ st[k] = s[k]
                             \/ \E j \in DOMAIN t : k = Len(s) + j /\ st[k] = t[j]
  BY ConcatShape
<1> HIDE DEF st
<1>2. Range(st) = Range(s) \cup Range(t)
  BY <1>1 DEF Range
<1> QED  BY <1>1, <1>2 DEF st

\* The heap is where the program put it.
HeapPlaced == heap.start = SEG_HEAP /\ heap.end = SEG_HEAP + HeapBytes

LEMMA Layout ==
  /\ OneMB \in Nat \ {0} /\ SEG_HEAP \in Nat \ {0} /\ HeapBytes \in Nat
  /\ SEG_HEAP + HeapBytes \in Nat /\ (SEG_HEAP + HeapBytes) % WordMod = SEG_HEAP + HeapBytes
PROOF
<1> DEFINE r == [addr |-> SEG_HEAP, bytes |-> HeapBytes]
<1>1. r \in Regions
  BY LlamaConstants
<1>2. /\ r.addr \in Nat \ {0} /\ r.bytes \in Nat
      /\ r.addr + r.bytes + MaxAsk + 3 * MaxAlign < WordMod
  BY <1>1, HeapConstants
<1>3. SEG_HEAP + HeapBytes \in 0 .. WordMod - 1 /\ WordMod \in Nat
  BY <1>2, HeapConstants
<1> QED  BY <1>2, <1>3, VmConstants

HeapSections == (HeapBytes + OneMB - 1) \div OneMB

\* Where setup_vm maps cached memory.
CachedAt == {0, STACK_ADDR - OneMB, INT_STACK_ADDR - OneMB}
              \cup {SEG_HEAP + (k - 1) * OneMB : k \in 1 .. HeapSections}

\* Each section of the heap begins below the heap's end, and every byte of the heap is in one.
LEMMA SectionsCoverHeap ==
  /\ HeapSections \in Nat
  /\ \A k \in 1 .. HeapSections : (k - 1) * OneMB \in 0 .. HeapBytes - 1
  /\ \A n \in 0 .. HeapBytes - 1 :
       \E k \in 1 .. HeapSections : n \in (k - 1) * OneMB .. (k - 1) * OneMB + OneMB - 1
PROOF
<1> DEFINE m == HeapBytes + OneMB - 1
           q == HeapSections
<1>1. m \in Nat /\ OneMB \in Nat \ {0} /\ HeapBytes \in Nat
  BY Layout
<1>2. m % OneMB \in 0 .. OneMB - 1 /\ q \in Nat /\ m = OneMB * q + (m % OneMB)
  BY <1>1, DivMod DEF HeapSections
<1>3. HeapBytes <= OneMB * q /\ OneMB * q < HeapBytes + OneMB /\ OneMB * q \in Nat
  <2>1. OneMB * q \in Nat
    BY <1>1, <1>2, Z3
  <2> HIDE DEF q
  <2> QED  BY <1>1, <1>2, <2>1
<1>4. ASSUME NEW k \in 1 .. q PROVE (k - 1) * OneMB \in 0 .. HeapBytes - 1
  <2>1. (k - 1) * OneMB + OneMB <= OneMB * q /\ (k - 1) * OneMB \in Nat
    BY <1>1, <1>2, Z3
  <2> HIDE DEF q
  <2> QED  BY <1>1, <1>3, <2>1
<1>5. ASSUME NEW n \in 0 .. HeapBytes - 1
      PROVE  \E k \in 1 .. q : n \in (k - 1) * OneMB .. (k - 1) * OneMB + OneMB - 1
  <2> DEFINE j == n \div OneMB
  <2>0. n \in Nat
    BY <1>1
  <2>1. n % OneMB \in 0 .. OneMB - 1 /\ j \in Nat /\ n = OneMB * j + (n % OneMB) /\ n \in Nat
    BY <2>0, <1>1, DivMod
  <2> HIDE DEF j, q
  <2>2. j < q
    <3>1. ASSUME q <= j PROVE OneMB * q <= OneMB * j
      BY <3>1, <1>1, <1>2, <2>1, Z3
    <3>2. OneMB * j \in Nat
      BY <1>1, <2>1, Z3
    <3> QED  BY <3>1, <3>2, <1>1, <1>2, <1>3, <2>1
  <2>3. ((j + 1) - 1) * OneMB = OneMB * j /\ OneMB * j \in Nat
    BY <1>1, <2>1, Z3
  <2>4. n \in ((j + 1) - 1) * OneMB .. ((j + 1) - 1) * OneMB + OneMB - 1
    BY <1>1, <2>1, <2>3
  <2>5. j + 1 \in 1 .. q
    BY <2>1, <2>2, <1>2
  <2> QED  BY <2>4, <2>5
<1> QED  BY <1>2, <1>4, <1>5

LEMMA MappingsAre ==
  ASSUME HeapPlaced
  PROVE  /\ Len(Mappings) \in Nat /\ DOMAIN Mappings = 1 .. Len(Mappings)
         /\ Range(Mappings) = {[va |-> v, attr |-> Cached] : v \in CachedAt}
                              \cup {[va |-> d, attr |-> Device] : d \in Range(Peripherals)}
PROOF
<1> DEFINE S == [va : Int, attr : {Cached, Device}]
           c(v) == [va |-> v, attr |-> Cached]
           s1 == <<c(0)>>
           s2 == [k \in 1 .. HeapSections |-> c(SEG_HEAP + (k - 1) * OneMB)]
           s3 == <<c(STACK_ADDR - OneMB), c(INT_STACK_ADDR - OneMB)>>
           s4 == [k \in DOMAIN Peripherals |-> [va |-> Peripherals[k], attr |-> Device]]
<1>1. OneMB \in Nat \ {0} /\ SEG_HEAP \in Nat \ {0} /\ HeapBytes \in Nat
  BY Layout
<1>2. HeapSections \in Nat
  BY SectionsCoverHeap
<1>3. Mappings = s1 \o s2 \o s3 \o s4
  <2>1. kmalloc_heap_start = SEG_HEAP /\ kmalloc_heap_end = SEG_HEAP + HeapBytes
    BY <1>1 DEF HeapPlaced, kmalloc_heap_start, kmalloc_heap_end
  <2>2. (SEG_HEAP + HeapBytes) - SEG_HEAP + OneMB - 1 = HeapBytes + OneMB - 1
    BY <1>1
  <2> QED  BY <2>1, <2>2 DEF Mappings, HeapSections
<1>4. s1 \in Seq(S) /\ Range(s1) = {c(0)}
  BY DEF Range
<1>5. s2 \in Seq(S) /\ Range(s2) = {c(SEG_HEAP + (k - 1) * OneMB) : k \in 1 .. HeapSections}
  <2>1. \A k \in 1 .. HeapSections : SEG_HEAP + (k - 1) * OneMB \in Int
    BY <1>1, Z3
  <2> QED  BY <1>2, <2>1 DEF Range
<1>6. s3 \in Seq(S) /\ Range(s3) = {c(STACK_ADDR - OneMB), c(INT_STACK_ADDR - OneMB)}
  BY <1>1, LlamaConstants DEF Range
<1>7. s4 \in Seq(S) /\ Range(s4) = {[va |-> d, attr |-> Device] : d \in Range(Peripherals)}
  <2>1. /\ Len(Peripherals) \in Nat /\ DOMAIN Peripherals = 1 .. Len(Peripherals)
        /\ \A k \in DOMAIN Peripherals : Peripherals[k] \in Int
    BY LlamaConstants
  <2>2. s4 \in Seq(S)
    BY <2>1
  <2>3. Range(s4) = {[va |-> d, attr |-> Device] : d \in Range(Peripherals)}
    BY DEF Range
  <2> QED  BY <2>2, <2>3
<1> HIDE DEF S, s1, s2, s3, s4
<1> DEFINE s12 == s1 \o s2
           s123 == s12 \o s3
<1>8. s12 \in Seq(S) /\ Range(s12) = Range(s1) \cup Range(s2)
  BY <1>4, <1>5, RangeConcat
<1> HIDE DEF s12
<1>9. s123 \in Seq(S) /\ Range(s123) = Range(s12) \cup Range(s3)
  BY <1>6, <1>8, RangeConcat
<1> HIDE DEF s123
<1>10. s123 \o s4 \in Seq(S) /\ Range(s123 \o s4) = Range(s123) \cup Range(s4)
  BY <1>7, <1>9, RangeConcat
<1>11. Mappings = s123 \o s4
  BY <1>3 DEF s12, s123
<1>12. {c(v) : v \in CachedAt} = Range(s1) \cup Range(s2) \cup Range(s3)
  BY <1>4, <1>5, <1>6 DEF CachedAt
<1>13. Mappings \in Seq(S)
       /\ Range(Mappings) = Range(s1) \cup Range(s2) \cup Range(s3) \cup Range(s4)
  BY <1>8, <1>9, <1>10, <1>11
<1> QED  BY <1>7, <1>12, <1>13

\* The table translates a to itself, with these attributes.
Mapped(a, attr) == a \div OneMB \in Sections /\ pt.entry[a \div OneMB] = Section(a, attr)

\* The first n mappings are made, and none of them was undone by another.
Filled(n) ==
  \A k \in DOMAIN Mappings :
    k <= n => Mappings[k].va % OneMB = 0 /\ Mapped(Mappings[k].va, Mappings[k].attr)

\* All that the program uses is in the table.
Covered ==
  /\ \A a \in 0 .. OneMB - 1 : Mapped(a, Cached)
  /\ \A a \in SEG_HEAP .. SEG_HEAP + HeapBytes - 1 : Mapped(a, Cached)
  /\ Mapped(STACK_ADDR - 1, Cached) /\ Mapped(INT_STACK_ADDR - 1, Cached)
  /\ \A d \in Range(Peripherals) : Mapped(d, Device)

\* Cached and device mappings are never of the same section.
LEMMA MappingsDoNotClash ==
  ASSUME HeapPlaced, NEW j \in DOMAIN Mappings, NEW k \in DOMAIN Mappings,
         Mappings[j].va % OneMB = 0, Mappings[k].va % OneMB = 0,
         Mappings[j].va \div OneMB = Mappings[k].va \div OneMB
  PROVE  Mappings[j].attr = Mappings[k].attr
PROOF
<1>1. /\ Mappings[j] \in Range(Mappings) /\ Mappings[k] \in Range(Mappings)
      /\ Range(Mappings) = {[va |-> v, attr |-> Cached] : v \in CachedAt}
                             \cup {[va |-> d, attr |-> Device] : d \in Range(Peripherals)}
  BY MappingsAre DEF Range
<1>2. ASSUME NEW v \in CachedAt, NEW d \in Range(Peripherals), v % OneMB = 0, d % OneMB = 0
      PROVE  v \div OneMB # d \div OneMB
  <2>1. /\ OneMB \in Nat \ {0} /\ SEG_HEAP \in Nat /\ HeapBytes \in Nat
        /\ STACK_ADDR \in Nat /\ INT_STACK_ADDR \in Nat
        /\ OneMB <= STACK_ADDR /\ OneMB <= INT_STACK_ADDR
        /\ SEG_HEAP + HeapBytes <= d /\ STACK_ADDR <= d /\ INT_STACK_ADDR <= d
    BY Layout, LlamaConstants
  <2>2. d \in Nat
    BY LlamaConstants DEF Range
  <2>3. v \in Nat /\ v < d
    <3>1. CASE v \in {0, STACK_ADDR - OneMB, INT_STACK_ADDR - OneMB}
      BY <2>1, <2>2, <3>1
    <3>2. CASE \E n \in 1 .. HeapSections : v = SEG_HEAP + (n - 1) * OneMB
      <4>1. PICK n \in 1 .. HeapSections : v = SEG_HEAP + (n - 1) * OneMB
        BY <3>2
      <4>2. (n - 1) * OneMB \in 0 .. HeapBytes - 1
        BY SectionsCoverHeap
      <4> QED  BY <2>1, <2>2, <4>1, <4>2
    <3> QED  BY <3>1, <3>2 DEF CachedAt
  <2> QED  BY <1>2, <2>1, <2>2, <2>3, OtherSection
<1>3. PICK v \in CachedAt \cup Range(Peripherals), w \in CachedAt \cup Range(Peripherals) :
        /\ \/ v \in CachedAt /\ Mappings[j] = [va |-> v, attr |-> Cached]
           \/ v \in Range(Peripherals) /\ Mappings[j] = [va |-> v, attr |-> Device]
        /\ \/ w \in CachedAt /\ Mappings[k] = [va |-> w, attr |-> Cached]
           \/ w \in Range(Peripherals) /\ Mappings[k] = [va |-> w, attr |-> Device]
  BY <1>1
<1>4. /\ Mappings[j].va = v /\ Mappings[k].va = w
      /\ v \in CachedAt => Mappings[j].attr = Cached \/ v \in Range(Peripherals)
  BY <1>3
<1>5. CASE v \in CachedAt /\ Mappings[j].attr = Cached /\ w \in CachedAt /\ Mappings[k].attr = Cached
  BY <1>5
<1>6. CASE v \in CachedAt /\ w \in Range(Peripherals)
  BY <1>2, <1>4, <1>6
<1>7. CASE w \in CachedAt /\ v \in Range(Peripherals)
  BY <1>2, <1>4, <1>7
<1>8. CASE Mappings[j].attr = Device /\ Mappings[k].attr = Device
  BY <1>8
<1> QED  BY <1>3, <1>5, <1>6, <1>7, <1>8

\* When the last mapping is made, all is covered.
LEMMA FilledCovers ==
  ASSUME HeapPlaced, Filled(Len(Mappings))
  PROVE  Covered
PROOF
<1>1. /\ OneMB \in Nat \ {0} /\ SEG_HEAP \in Nat /\ HeapBytes \in Nat
      /\ STACK_ADDR \in Nat /\ INT_STACK_ADDR \in Nat
      /\ OneMB <= STACK_ADDR /\ OneMB <= INT_STACK_ADDR
  BY Layout, LlamaConstants
<1>2. ASSUME NEW v \in CachedAt PROVE v % OneMB = 0 /\ Mapped(v, Cached)
  <2>1. PICK k \in DOMAIN Mappings : Mappings[k] = [va |-> v, attr |-> Cached]
    BY MappingsAre DEF Range
  <2>2. k <= Len(Mappings)
    BY MappingsAre
  <2> QED  BY <2>1, <2>2 DEF Filled
<1>3. ASSUME NEW d \in Range(Peripherals) PROVE Mapped(d, Device)
  <2>1. PICK k \in DOMAIN Mappings : Mappings[k] = [va |-> d, attr |-> Device]
    BY MappingsAre DEF Range
  <2>2. k <= Len(Mappings)
    BY MappingsAre
  <2> QED  BY <2>1, <2>2 DEF Filled
<1>4. ASSUME NEW v \in CachedAt, v \in Nat, NEW a \in v .. v + OneMB - 1 PROVE Mapped(a, Cached)
  <2>1. a \div OneMB = v \div OneMB
    BY <1>1, <1>2, <1>4, SameSection
  <2> QED  BY <1>2, <2>1 DEF Mapped, Section
<1>5. \A a \in 0 .. OneMB - 1 : Mapped(a, Cached)
  BY <1>1, <1>4 DEF CachedAt
<1>6. Mapped(STACK_ADDR - 1, Cached) /\ Mapped(INT_STACK_ADDR - 1, Cached)
  <2>1. ASSUME NEW s \in {STACK_ADDR, INT_STACK_ADDR} PROVE Mapped(s - 1, Cached)
    <3>1. s - OneMB \in CachedAt /\ s - OneMB \in Nat
      BY <1>1 DEF CachedAt
    <3>2. s - 1 \in (s - OneMB) .. (s - OneMB) + OneMB - 1
      BY <1>1
    <3> QED  BY <1>4, <3>1, <3>2
  <2> QED  BY <2>1
<1>7. ASSUME NEW a \in SEG_HEAP .. SEG_HEAP + HeapBytes - 1 PROVE Mapped(a, Cached)
  <2>1. a - SEG_HEAP \in 0 .. HeapBytes - 1
    BY <1>1
  <2>2. PICK k \in 1 .. HeapSections :
          a - SEG_HEAP \in (k - 1) * OneMB .. (k - 1) * OneMB + OneMB - 1
    BY <2>1, SectionsCoverHeap
  <2> DEFINE o == (k - 1) * OneMB
  <2>3. o \in Nat /\ SEG_HEAP + o \in CachedAt
    BY SectionsCoverHeap DEF CachedAt
  <2> HIDE DEF o
  <2>4. a \in SEG_HEAP + o .. SEG_HEAP + o + OneMB - 1
    BY <1>1, <2>2, <2>3 DEF o
  <2>5. SEG_HEAP + o \in Nat
    BY <1>1, <2>3
  <2> QED  BY <1>4, <2>3, <2>4, <2>5
<1> QED  BY <1>3, <1>5, <1>6, <1>7 DEF Covered

\* The heap stays where it is.
LEMMA HeapStaysPlaced ==
  ASSUME HeapInv, HeapPlaced, MayUse
  PROVE  HeapPlaced'
PROOF
<1>1. SEG_HEAP # 0
  BY Layout
<1>2. heap # NoHeap /\ SetUp(heap) /\ Ready = heap
  BY <1>1 DEF HeapPlaced, HeapInv, NoHeap, SetUp, Ready
<1>3. CASE \E n \in 0 .. MaxAsk : kmalloc(n)
  BY <1>2, <1>3 DEF kmalloc, Carve, HeapPlaced, SetUp
<1>4. CASE \E n \in 0 .. MaxAsk, a \in Alignments : kmalloc_aligned(n, a)
  BY <1>2, <1>4 DEF kmalloc_aligned, Carve, HeapPlaced, SetUp
<1>5. CASE UNCHANGED heap_vars
  BY <1>5 DEF HeapPlaced
<1> QED  BY <1>2, <1>3, <1>4, <1>5 DEF MayUse, HeapNext

LEMMA SameMappings ==
  ASSUME HeapPlaced, HeapPlaced'
  PROVE  Mappings' = Mappings
  BY DEF HeapPlaced, Mappings, kmalloc_heap_start, kmalloc_heap_end

-----------------------------------------------------------------------------
\* The places from which the table is still to be filled.
Early == {"start", "checkpoint", "tables", "state", "vocab", "scores", "file", "entries", "pt", "map"}

\* The places where a core is turning on its MMU.
Enabling == {"vm_init", "pt", "map", "switch", "sync", "enable", "caches"}

AllOff == \A c \in Cpus : ~cp15[c].M

Registers == [M : BOOLEAN, C : BOOLEAN, XP : BOOLEAN, domain : [Domains -> 0 .. 3],
              ttbr0 : Nat, asid : Nat, procid : Nat]

VmShape ==
  /\ cpu \in Cpus
  /\ pt = [addr |-> pt.addr, entry |-> [s \in Sections |-> pt.entry[s]]] /\ pt.addr \in Nat
  /\ cp15 \in [Cpus -> Registers]
  /\ stale = [c \in Cpus |-> stale[c]]

\* How far the table and the core at hand are.
VmPlace ==
  /\ Begun \/ pc = "checkpoint" => HeapPlaced
  /\ pc \in Early => cpu = 0 /\ AllOff
  /\ pc = "vm_init" => (cpu = 0 /\ AllOff /\ i = 1) \/ (cpu # 0 /\ Covered)
  /\ pc = "pt" => i = 1
  /\ pc = "map" => i \in Nat \ {0} /\ Filled(i - 1)
  /\ pc \in {"pt", "map", "switch", "sync", "enable"} => cp15[cpu].domain = DomReg
  /\ pc \in {"switch", "sync", "enable", "caches"} => Covered
  /\ pc \in {"sync", "enable"} => cp15[cpu].ttbr0 = pt.addr

\* A core whose MMU is on uses the table, which is complete, and remembers nothing else.
Enabled(c) ==
  /\ HeapPlaced /\ Covered
  /\ ~stale[c] /\ cp15[c].ttbr0 = pt.addr /\ cp15[c].domain = DomReg

VmInv == VmShape /\ VmPlace /\ \A c \in Cpus : cp15[c].M => Enabled(c)

LEMMA RegistersWritten ==
  ASSUME VmShape
  PROVE  /\ [cp15 EXCEPT ![cpu].XP = TRUE, ![cpu].domain = DomReg] \in [Cpus -> Registers]
         /\ [cp15 EXCEPT ![cpu].ttbr0 = pt.addr, ![cpu].asid = kern_asid, ![cpu].procid = kern_pid]
              \in [Cpus -> Registers]
         /\ [cp15 EXCEPT ![cpu].M = TRUE] \in [Cpus -> Registers]
         /\ [cp15 EXCEPT ![cpu].C = TRUE] \in [Cpus -> Registers]
PROOF
<1>1. DomReg \in [Domains -> 0 .. 3]
  BY DEF DomReg, Domains, DOM_client
<1>2. cp15 \in [Cpus -> Registers] /\ cpu \in Cpus /\ pt.addr \in Nat
  BY DEF VmShape
<1>3. [cp15 EXCEPT ![cpu].XP = TRUE, ![cpu].domain = DomReg] \in [Cpus -> Registers]
  BY <1>1, <1>2 DEF Registers
<1>4. [cp15 EXCEPT ![cpu].ttbr0 = pt.addr, ![cpu].asid = kern_asid, ![cpu].procid = kern_pid]
        \in [Cpus -> Registers]
  BY <1>2 DEF Registers, kern_asid, kern_pid
<1>5. [cp15 EXCEPT ![cpu].M = TRUE] \in [Cpus -> Registers]
  BY <1>2 DEF Registers
<1>6. [cp15 EXCEPT ![cpu].C = TRUE] \in [Cpus -> Registers]
  BY <1>2 DEF Registers
<1> QED  BY <1>3, <1>4, <1>5, <1>6

LEMMA VmInvInit == Init => VmInv
  BY LlamaConstants
  DEF Init, VmInit, VmInv, VmShape, VmPlace, AllOff, Begun, Early, Registers, Domains

\* A step that is none of setup_vm's or worker_enable_mmu's.
LEMMA Elsewhere ==
  ASSUME VmInv, HeapInv, MayUse, UNCHANGED <<pt, cp15, stale, cpu>>,
         \/ pc' = pc /\ i' = i
         \/ /\ pc' \notin Enabling
            /\ pc' \in Early => pc \in Early
            /\ Begun' \/ pc' = "checkpoint" => Begun \/ pc = "checkpoint"
  PROVE  VmInv'
PROOF
<1>1. VmShape'
  BY DEF VmInv, VmShape
<1>2. Covered' = Covered /\ AllOff' = AllOff
  BY DEF Covered, Mapped, AllOff
<1>3. HeapPlaced => HeapPlaced'
  BY HeapStaysPlaced
<1>4. ASSUME NEW c \in Cpus, cp15'[c].M PROVE Enabled(c)'
  BY <1>2, <1>3, <1>4 DEF VmInv, Enabled
<1>5. pc' = "map" => i' \in Nat \ {0} /\ Filled(i - 1)'
  <2>1. SUFFICES ASSUME pc' = "map" PROVE i' \in Nat \ {0} /\ Filled(i - 1)'
    OBVIOUS
  <2>2. pc = "map" /\ i' = i
    BY <2>1 DEF Enabling
  <2>3. HeapPlaced /\ Filled(i - 1) /\ i \in Nat \ {0}
    BY <2>2 DEF VmInv, VmPlace, Begun
  <2>4. Mappings' = Mappings
    BY <1>3, <2>3, SameMappings
  <2>5. Filled(i - 1)'
    BY <2>2, <2>3, <2>4 DEF Filled, Mapped
  <2> QED  BY <2>2, <2>3, <2>5
<1>6. VmPlace'
  BY <1>2, <1>3, <1>5 DEF VmInv, VmPlace, Begun, Early, Enabling
<1> QED  BY <1>1, <1>4, <1>6 DEF VmInv


\* One more mapping is made.
LEMMA FillStep ==
  ASSUME HeapPlaced, Mappings' = Mappings, i \in Nat \ {0}, i \in DOMAIN Mappings, i' = i + 1,
         Filled(i - 1), pt = [addr |-> pt.addr, entry |-> [s \in Sections |-> pt.entry[s]]],
         VmMapSecOk(Mappings[i].va, Mappings[i].va, Mappings[i].attr),
         pt' = [pt EXCEPT !.entry[Mappings[i].va \div OneMB]
                            = Section(Mappings[i].va, Mappings[i].attr)]
  PROVE  Filled(i - 1)'
PROOF
<1> DEFINE m == Mappings[i]
           n == m.va \div OneMB
<1>1. m.va % OneMB = 0 /\ n \in Sections
  <2>1. CachedAt \subseteq Nat
    <3>1. \A k \in 1 .. HeapSections : SEG_HEAP + (k - 1) * OneMB \in Nat
      <4>1. \A k \in 1 .. HeapSections : (k - 1) * OneMB \in Nat
        BY Layout, SectionsCoverHeap
      <4> QED  BY <4>1, Layout
    <3>2. STACK_ADDR - OneMB \in Nat /\ INT_STACK_ADDR - OneMB \in Nat
      BY Layout, LlamaConstants
    <3> QED  BY <3>1, <3>2 DEF CachedAt
  <2>2. Range(Peripherals) \subseteq Nat
    BY LlamaConstants DEF Range
  <2>3. m \in Range(Mappings)
    BY DEF Range
  <2>4. m.va \in Nat
    BY <2>1, <2>2, <2>3, MappingsAre
  <2>5. n \in Nat
    BY <2>4, Layout, DivMod
  <2> QED  BY <2>5, VmConstants DEF VmMapSecOk, Sections
<1>2. /\ pt'.entry = [pt.entry EXCEPT ![n] = Section(m.va, m.attr)]
      /\ pt.entry = [s \in Sections |-> pt.entry[s]]
  OBVIOUS
<1>3. /\ pt'.entry[n] = Section(m.va, m.attr)
      /\ \A s \in Sections : s # n => pt'.entry[s] = pt.entry[s]
  BY <1>1, <1>2
<1>4. ASSUME NEW k \in DOMAIN Mappings, k <= i
      PROVE  Mappings[k].va % OneMB = 0 /\ Mapped(Mappings[k].va, Mappings[k].attr)'
  <2>1. CASE k = i
    BY <1>1, <1>3, <2>1 DEF Mapped
  <2>2. CASE k # i
    <3>1. k <= i - 1
      BY <1>4, <2>2, MappingsAre
    <3>2. Mappings[k].va % OneMB = 0 /\ Mapped(Mappings[k].va, Mappings[k].attr)
      BY <3>1 DEF Filled
    <3>3. CASE Mappings[k].va \div OneMB = n
      <4>1. Mappings[k].attr = m.attr
        BY <1>1, <3>2, <3>3, MappingsDoNotClash
      <4>2. Section(Mappings[k].va, m.attr) = Section(m.va, m.attr)
        BY <3>3 DEF Section
      <4> QED  BY <1>1, <1>3, <3>2, <3>3, <4>1, <4>2 DEF Mapped
    <3>4. CASE Mappings[k].va \div OneMB # n
      BY <1>3, <3>2, <3>4 DEF Mapped
    <3> QED  BY <3>3, <3>4
  <2> QED  BY <2>1, <2>2
<1>5. i' - 1 = i
  OBVIOUS
<1> HIDE DEF m, n
<1> QED  BY <1>4, <1>5 DEF Filled

\* One step keeps what is said of the table and the cores.
LEMMA VmStep ==
  ASSUME UseInv, HeapInv, VmInv, [Next]_vars
  PROVE  VmInv'
PROOF
<1> USE DEF VmInv, VmShape, VmPlace, Enabled, AllOff, Early, Enabling, Begun, Covered, Mapped, vm_vars
<1>1. MayUse
  BY UseStep
<1>2. HeapPlaced => HeapPlaced'
  BY <1>1, HeapStaysPlaced
<1>3. CASE KmallocInit
  <2>1. HeapPlaced'
    BY <1>3, Layout DEF KmallocInit, kmalloc_init_set_start, HeapPlaced
  <2> QED  BY <1>3, <2>1 DEF KmallocInit
<1>4. CASE build_sampler
  <2>1. pc' \in {"undefined", "vm_init", "profile"} /\ i' = 1 /\ UNCHANGED <<vm_vars, cpu>>
    BY <1>4 DEF build_sampler, After
  <2>2. pc = "entries"
    BY <1>4 DEF build_sampler
  <2> QED  BY <1>2, <2>1, <2>2
<1>5. CASE VmInitStep
  <2>1. CASE VmMmuInitOk(cpu)
    <3>1. /\ pc = "vm_init" /\ UNCHANGED <<pt, cpu, i, heap>>
          /\ pc' = IF cpu = 0 THEN "pt" ELSE "switch"
          /\ stale' = [stale EXCEPT ![cpu] = FALSE]
          /\ cp15' = [cp15 EXCEPT ![cpu].XP = TRUE, ![cpu].domain = DomReg]
      BY <1>5, <2>1 DEF VmInitStep, Asserting, vm_mmu_init, InvalidateTlb
    <3>2. VmShape' /\ cp15'[cpu].domain = DomReg
      <4>1. VmShape'
        BY <3>1, RegistersWritten
      <4>2. cpu \in Cpus /\ cp15 \in [Cpus -> Registers]
        OBVIOUS
      <4>3. cp15'[cpu].domain = DomReg
        BY <3>1, <4>2 DEF Registers
      <4> QED  BY <4>1, <4>3
    <3>3. Covered' = Covered /\ HeapPlaced' = HeapPlaced
      BY <3>1 DEF HeapPlaced
    <3>4. \A c \in Cpus : /\ cp15'[c].M = cp15[c].M /\ cp15'[c].ttbr0 = cp15[c].ttbr0
                         /\ cp15'[c].domain \in {cp15[c].domain, DomReg}
                         /\ stale'[c] => stale[c]
      BY <3>1
    <3> QED  BY <3>1, <3>2, <3>3, <3>4
  <2>2. CASE ~VmMmuInitOk(cpu)
    BY <1>5, <2>2 DEF VmInitStep, Asserting, HeapPlaced
  <2> QED  BY <2>1, <2>2
<1>6. CASE VmPtAlloc
  <2>1. pc = "pt" /\ HeapPlaced /\ HeapPlaced' /\ AllOff /\ i = 1
    BY <1>2, <1>6 DEF VmPtAlloc
  <2>2. CASE VmPtAllocOk(ret')
    <3>1. /\ UNCHANGED <<cp15, stale, cpu, i>> /\ pc' = "map"
          /\ pt' = [addr |-> ret', entry |-> [s \in Sections |-> Unmapped]]
      BY <1>6, <2>2 DEF VmPtAlloc, Asserting, vm_pt_alloc
    <3>2. Filled(i - 1)'
      BY <2>1, <3>1, MappingsAre, SameMappings DEF Filled
    <3>3. ret' \in Nat
      BY <1>1, HeapInvStep DEF MayUse, HeapInv
    <3> QED  BY <2>1, <3>1, <3>2, <3>3
  <2>3. CASE ~VmPtAllocOk(ret')
    BY <1>6, <2>1, <2>3 DEF VmPtAlloc, Asserting
  <2> QED  BY <2>2, <2>3
<1>7. CASE VmMapSec
  <2> DEFINE m == Mappings[i]
  <2>1. /\ pc = "map" /\ HeapPlaced /\ AllOff /\ i \in DOMAIN Mappings /\ i \in Nat \ {0}
        /\ Filled(i - 1) /\ cpu = 0 /\ cp15[cpu].domain = DomReg
    BY <1>7, MappingsAre DEF VmMapSec
  <2>2. UNCHANGED <<heap, cpu>> /\ i' = i + 1 /\ HeapPlaced' /\ Mappings' = Mappings
    BY <1>7, <2>1, SameMappings DEF VmMapSec, HeapPlaced
  <2>3. CASE VmMapSecOk(m.va, m.va, m.attr)
    <3>1. /\ pt' = [pt EXCEPT !.entry[m.va \div OneMB] = Section(m.va, m.attr)]
          /\ stale' = [d \in Cpus |-> d # 0 /\ (stale[d] \/ cp15[d].M)]
          /\ UNCHANGED cp15 /\ pc' = "map"
      BY <1>7, <2>3 DEF VmMapSec, Asserting, vm_map_sec
    <3>2. Filled(i - 1)'
      BY <2>1, <2>2, <2>3, <3>1, FillStep
    <3> QED  BY <2>1, <2>2, <3>1, <3>2
  <2>4. CASE ~VmMapSecOk(m.va, m.va, m.attr)
    BY <1>7, <2>1, <2>2, <2>4 DEF VmMapSec, Asserting
  <2> QED  BY <2>3, <2>4
<1>8. CASE VmSwitch
  <2>1. HeapPlaced /\ Covered
    <3>1. CASE pc = "switch"
      BY <3>1
    <3>2. CASE pc = "map" /\ i > Len(Mappings)
      <4>1. HeapPlaced /\ Filled(i - 1) /\ i \in Nat \ {0}
        BY <3>2
      <4>2. Filled(Len(Mappings))
        BY <3>2, <4>1, MappingsAre DEF Filled
      <4> QED  BY <4>1, <4>2, FilledCovers
    <3> QED  BY <1>8, <3>1, <3>2 DEF VmSwitch
  <2>2. UNCHANGED <<pt, stale, cpu, heap>> /\ pc' \in {"sync", "panic"}
    BY <1>8 DEF VmSwitch, Asserting, vm_mmu_switch
  <2>3. CASE VmMmuSwitchOk(kern_asid)
    <3>1. /\ pc' = "sync" /\ cp15[cpu].domain = DomReg
          /\ cp15' = [cp15 EXCEPT ![cpu].ttbr0 = pt.addr, ![cpu].asid = kern_asid,
                                  ![cpu].procid = kern_pid]
      BY <1>8, <2>3 DEF VmSwitch, Asserting, vm_mmu_switch
    <3>2. VmShape' /\ cp15'[cpu].ttbr0 = pt.addr
      <4>1. VmShape'
        BY <2>2, <3>1, RegistersWritten
      <4>2. cpu \in Cpus /\ cp15 \in [Cpus -> Registers]
        OBVIOUS
      <4>3. cp15'[cpu].ttbr0 = pt.addr
        BY <3>1, <4>2 DEF Registers
      <4> QED  BY <4>1, <4>3
    <3>3. Covered' /\ HeapPlaced'
      BY <2>1, <2>2 DEF HeapPlaced
    <3>4. \A c \in Cpus : /\ cp15'[c].M = cp15[c].M /\ cp15'[c].domain = cp15[c].domain
                         /\ cp15'[c].ttbr0 \in {cp15[c].ttbr0, pt.addr}
      BY <3>1
    <3> QED  BY <2>1, <2>2, <3>1, <3>2, <3>3, <3>4
  <2>4. CASE ~VmMmuSwitchOk(kern_asid)
    BY <1>8, <2>1, <2>2, <2>4 DEF VmSwitch, Asserting, HeapPlaced
  <2> QED  BY <2>3, <2>4
<1>9. CASE VmSync
  BY <1>9 DEF VmSync, mmu_sync_pte_mods, InvalidateTlb, HeapPlaced
<1>10. CASE VmEnable
  <2>1. HeapPlaced /\ Covered /\ UNCHANGED <<pt, cpu, heap>> /\ pc' \in {"caches", "panic"}
    BY <1>10 DEF VmEnable, Asserting, vm_mmu_enable
  <2>2. CASE VmMmuEnableOk(cpu)
    <3>1. /\ pc' = "caches" /\ cp15[cpu].domain = DomReg /\ cp15[cpu].ttbr0 = pt.addr
          /\ stale' = [stale EXCEPT ![cpu] = FALSE]
          /\ cp15' = [cp15 EXCEPT ![cpu].M = TRUE]
      BY <1>10, <2>2 DEF VmEnable, Asserting, vm_mmu_enable, InvalidateTlb
    <3>2. VmShape' /\ ~stale'[cpu]
      BY <2>1, <3>1, RegistersWritten
    <3>3. Covered' /\ HeapPlaced'
      BY <2>1 DEF HeapPlaced
    <3>4. \A c \in Cpus : /\ c # cpu => cp15'[c].M = cp15[c].M
                         /\ cp15'[c].domain = cp15[c].domain
                         /\ cp15'[c].ttbr0 = cp15[c].ttbr0
                         /\ stale'[c] => stale[c]
      BY <3>1
    <3> QED  BY <2>1, <3>1, <3>2, <3>3, <3>4
  <2>3. CASE ~VmMmuEnableOk(cpu)
    BY <1>10, <2>1, <2>3 DEF VmEnable, Asserting, HeapPlaced
  <2> QED  BY <2>2, <2>3
<1>11. CASE EnableCaches
  <2>1. /\ HeapPlaced /\ Covered /\ UNCHANGED <<pt, stale, heap>>
        /\ cp15' = [cp15 EXCEPT ![cpu].C = TRUE]
        /\ \/ cpu + 1 \in Cpus /\ cpu' = cpu + 1 /\ pc' = "vm_init"
           \/ cpu' = 0 /\ pc' = "prompt"
    BY <1>11 DEF EnableCaches, cp15_ctrl_reg1_wr
  <2>2. cpu' \in Cpus /\ (pc' = "vm_init" => cpu' # 0)
    <3>1. cpu \in Nat /\ 0 \in Cpus
      BY LlamaConstants
    <3> QED  BY <2>1, <3>1
  <2>3. VmShape'
    BY <2>1, <2>2, RegistersWritten
  <2>4. Covered' /\ HeapPlaced'
    BY <2>1 DEF HeapPlaced
  <2>5. \A c \in Cpus : /\ cp15'[c].M = cp15[c].M /\ cp15'[c].domain = cp15[c].domain
                       /\ cp15'[c].ttbr0 = cp15[c].ttbr0
    BY <2>1
  <2> QED  BY <2>1, <2>2, <2>3, <2>4, <2>5
<1> USE <1>1, Elsewhere
<1> HIDE DEF VmInv, VmShape, VmPlace, Enabled, AllOff, Covered, Mapped
<1>12. CASE NoCheckpoint
  BY <1>12 DEF NoCheckpoint
<1>13. CASE read_checkpoint
  BY <1>13 DEF read_checkpoint, After
<1>14. CASE read_checkpointQ
  BY <1>14 DEF read_checkpointQ, After
<1>15. CASE memory_map_weightsQ
  BY <1>15 DEF memory_map_weightsQ, After
<1>16. CASE malloc_run_state
  BY <1>16 DEF malloc_run_state
<1>17. CASE AllocVocab
  BY <1>17 DEF AllocVocab, After
<1>18. CASE BuildEntry
  BY <1>18 DEF BuildEntry, After
<1>19. CASE InterruptInit
  BY <1>19 DEF InterruptInit
<1>20. CASE TimerInit
  BY <1>20 DEF TimerInit
<1>21. CASE GprofTable
  BY <1>21 DEF GprofTable, After
<1>22. CASE EnableInterrupts
  BY <1>22 DEF EnableInterrupts
<1>23. CASE Interrupt
  BY <1>23 DEF Interrupt
<1>24. CASE GprofDumpStep
  BY <1>24 DEF GprofDumpStep
<1>25. CASE AllocPrompt
  BY <1>25 DEF AllocPrompt, After
<1>26. CASE SortStep
  BY <1>26 DEF SortStep, After
<1>27. CASE AllocBuffer
  BY <1>27 DEF AllocBuffer, After
<1>28. CASE EncodeStep
  BY <1>28 DEF EncodeStep
<1>29. CASE MergeStep
  BY <1>29 DEF MergeStep
<1>30. CASE StartGenerating
  BY <1>30 DEF StartGenerating
<1>31. CASE EmbedStep
  BY <1>31 DEF EmbedStep
<1>32. CASE LayerStep
  BY <1>32 DEF LayerStep
<1>33. CASE LogitsStep
  BY <1>33 DEF LogitsStep
<1>34. CASE NextOfPrompt
  BY <1>34 DEF NextOfPrompt, Advance
<1>35. CASE SampleNext
  BY <1>35 DEF SampleNext, Advance
<1>36. CASE StepsUsedUp
  BY <1>36 DEF StepsUsedUp
<1>37. CASE clean_reboot
  BY <1>37 DEF clean_reboot
<1>38. CASE UNCHANGED vars
  BY <1>38 DEF vars, main_vars
<1> QED  BY <1>3, <1>4, <1>5, <1>6, <1>7, <1>8, <1>9, <1>10, <1>11, <1>12, <1>13, <1>14, <1>15, <1>16, <1>17, <1>18, <1>19, <1>20, <1>21, <1>22, <1>23, <1>24, <1>25, <1>26, <1>27, <1>28, <1>29, <1>30, <1>31, <1>32, <1>33, <1>34, <1>35, <1>36, <1>37, <1>38 DEF Next, Rebooted

-----------------------------------------------------------------------------
\* What a mapping is for.
LEMMA MappedReaches ==
  ASSUME VmInv, NEW c \in Cpus, cp15[c].M, NEW a \in Nat, NEW attr \in {Cached, Device},
         Mapped(a, attr)
  PROVE  /\ Access(c, a) /\ vm_xlate(a) = a
         /\ attr = Cached => Cacheable(a)
         /\ attr = Device => StronglyOrdered(a)
PROOF
<1> DEFINE e == pt.entry[a \div OneMB]
<1>1. /\ e = Section(a, attr) /\ vm_lookup(a) = e /\ e.tag = 1
      /\ e.sec_base_addr = a \div OneMB /\ e.domain = kern_dom /\ e.AP = 1 /\ e.AP2 = 0
  BY DEF Mapped, vm_lookup, Section, Cached, Device, pin_mk_global, pin_mk_device, pin_mk, kern_dom,
         perm_rw_priv
<1>2. attr = Cached => e.TEX = 1 /\ e.C = 1 /\ e.B = 1
  BY <1>1 DEF Section, Cached, pin_mk_global, pin_mk, MEM_wb_alloc, TEX_C_B
<1>3. attr = Device => e.TEX = 0 /\ e.C = 0 /\ e.B = 0
  BY <1>1 DEF Section, Device, pin_mk_device, pin_mk, MEM_device, TEX_C_B
<1> HIDE DEF e
<1>4. vm_xlate(a) = a
  <2> DEFINE q == a \div OneMB
             r == a % OneMB
  <2>1. OneMB \in Nat \ {0}
    BY Layout
  <2>2. q \in Nat /\ r \in 0 .. OneMB - 1 /\ a = OneMB * q + r
    BY <2>1, DivMod
  <2>3. vm_xlate(a) = q * OneMB + r
    BY <1>1 DEF vm_xlate
  <2> HIDE DEF q, r
  <2>4. q * OneMB = OneMB * q
    BY <2>1, <2>2, Z3
  <2> QED  BY <2>2, <2>3, <2>4
<1>5. ~stale[c] /\ cp15[c].ttbr0 = pt.addr /\ cp15[c].domain[kern_dom] = DOM_client
  <2>1. Enabled(c)
    BY DEF VmInv
  <2>2. kern_dom \in Domains
    BY DEF Domains, kern_dom
  <2>3. DomReg[kern_dom] = DOM_client
    BY <2>2 DEF DomReg
  <2> QED  BY <2>1, <2>3 DEF Enabled
<1>6. Access(c, a)
  BY <1>1, <1>5 DEF Access
<1> QED  BY <1>1, <1>2, <1>3, <1>4, <1>6 DEF Cacheable, StronglyOrdered

\* Every byte of every block, and all else a core uses with its MMU on.
BytesInUse ==
  0 .. OneMB - 1 \cup {STACK_ADDR - 1, INT_STACK_ADDR - 1}
    \cup UNION {b.addr .. b.addr + b.len - 1 : b \in Range(blocks)}

\* A core whose MMU is on reaches all of these at their own addresses.
EveryByteReached ==
  \A c \in Cpus : cp15[c].M =>
    \A a \in BytesInUse : Access(c, a) /\ vm_xlate(a) = a /\ Cacheable(a)

LEMMA BlockShape ==
  ASSUME HeapInv
  PROVE  \A k \in DOMAIN blocks : blocks[k].addr \in Nat /\ blocks[k].len \in Nat
PROOF
<1>1. \A k \in DOMAIN blocks : blocks[k] \in Block
  BY DEF HeapInv
<1> QED  BY <1>1 DEF Block

LEMMA BytesMapped ==
  ASSUME HeapInv, VmInv, NEW c \in Cpus, cp15[c].M, NEW a \in BytesInUse
  PROVE  a \in Nat /\ Mapped(a, Cached)
PROOF
<1>1. Covered /\ HeapPlaced
  BY DEF VmInv, Enabled
<1>2. /\ OneMB \in Nat \ {0} /\ SEG_HEAP \in Nat /\ HeapBytes \in Nat
      /\ STACK_ADDR \in Nat /\ INT_STACK_ADDR \in Nat
      /\ OneMB <= STACK_ADDR /\ OneMB <= INT_STACK_ADDR
  BY Layout, LlamaConstants
<1>3. CASE a \in 0 .. OneMB - 1 \cup {STACK_ADDR - 1, INT_STACK_ADDR - 1}
  <2>1. a \in Nat
    BY <1>2, <1>3
  <2> QED  BY <1>1, <1>3, <2>1 DEF Covered
<1>4. CASE \E b \in Range(blocks) : a \in b.addr .. b.addr + b.len - 1
  <2>1. PICK k \in DOMAIN blocks : a \in blocks[k].addr .. blocks[k].addr + blocks[k].len - 1
    BY <1>4 DEF Range
  <2> DEFINE b == blocks[k]
  <2>2. /\ b.addr \in Nat /\ b.len \in Nat
        /\ heap.start <= b.addr /\ b.addr + b.len <= heap.end
    BY BlockShape DEF HeapInv, BlocksSafe
  <2>3. SEG_HEAP <= b.addr /\ b.addr + b.len <= SEG_HEAP + HeapBytes
    BY <1>1, <2>2 DEF HeapPlaced
  <2> HIDE DEF b
  <2>4. a \in SEG_HEAP .. SEG_HEAP + HeapBytes - 1 /\ a \in Nat
    BY <1>2, <2>1, <2>2, <2>3 DEF b
  <2> QED  BY <1>1, <2>4 DEF Covered
<1> QED  BY <1>3, <1>4 DEF BytesInUse

LEMMA RamIsBytes ==
  ASSUME HeapInv
  PROVE  RamInUse \subseteq BytesInUse
PROOF
<1>1. OneMB \in Nat \ {0} /\ WorkerStacks \subseteq 0 .. OneMB - 1
  BY Layout, LlamaConstants
<1>2. ASSUME NEW b \in Range(blocks), b.len > 0
      PROVE  {b.addr, b.addr + b.len - 1} \subseteq b.addr .. b.addr + b.len - 1
  <2>1. b.addr \in Nat /\ b.len \in Nat
    BY BlockShape DEF Range
  <2> QED  BY <1>2, <2>1
<1>3. {0} \cup WorkerStacks \subseteq 0 .. OneMB - 1
  BY <1>1
<1>4. UNION {{b.addr, b.addr + b.len - 1} : b \in {x \in Range(blocks) : x.len > 0}}
        \subseteq UNION {b.addr .. b.addr + b.len - 1 : b \in Range(blocks)}
  <2> SUFFICES ASSUME NEW b \in Range(blocks), b.len > 0,
                      NEW a \in {b.addr, b.addr + b.len - 1}
               PROVE  \E d \in Range(blocks) : a \in d.addr .. d.addr + d.len - 1
    OBVIOUS
  <2>1. a \in b.addr .. b.addr + b.len - 1
    BY <1>2
  <2> QED  BY <2>1
<1> QED  BY <1>3, <1>4 DEF RamInUse, BytesInUse

LEMMA Identity ==
  ASSUME HeapInv, VmInv
  PROVE  XlateIdentity /\ EveryByteReached
PROOF
<1>1. EveryByteReached
  BY BytesMapped, MappedReaches DEF EveryByteReached
<1>2. ASSUME NEW c \in Cpus, cp15[c].M, NEW d \in Range(Peripherals)
      PROVE  Access(c, d) /\ vm_xlate(d) = d /\ StronglyOrdered(d)
  <2>1. d \in Nat /\ Mapped(d, Device)
    BY <1>2, LlamaConstants DEF VmInv, Enabled, Covered, Range
  <2> QED  BY <1>2, <2>1, MappedReaches
<1> QED  BY <1>1, <1>2, RamIsBytes DEF XlateIdentity, EveryByteReached

\* In every run, of whatever files, on whatever memory map of that layout: a core whose MMU is on
\* reaches what the program uses at its own address, memory through the cache and devices past it.
\* (Not only the ends of a block but every byte of it, which the run does not look at.)
THEOREM CoresTranslateAlike == Spec => [](XlateIdentity /\ EveryByteReached)
PROOF
<1>1. Init => HeapInv /\ UseInv /\ VmInv
  BY UseInit, VmInvInit DEF HeapInit, HeapInv, BlocksSafe
<1>2. HeapInv /\ UseInv /\ VmInv /\ [Next]_vars => (HeapInv /\ UseInv /\ VmInv)'
  <2>1. UseInv /\ HeapInv /\ [Next]_vars => HeapInv'
    BY UseStep, HeapInvStep DEF MayUse
  <2> QED  BY <2>1, UseStep, VmStep
<1>3. HeapInv /\ VmInv => XlateIdentity /\ EveryByteReached
  BY Identity
<1> QED  BY <1>1, <1>2, <1>3, PTL DEF Spec

=============================================================================

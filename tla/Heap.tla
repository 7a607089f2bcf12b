-------------------------------- MODULE Heap --------------------------------
(***************************************************************************)
(* The bump allocator of libpi/libc/kmalloc.c.  Nothing is ever freed: the *)
(* heap is a pointer that moves towards its end, and what it has handed    *)
(* out is remembered in blocks, which only the properties read.            *)
(* Addresses and sizes are 32 bits wide, that is, modulo WordMod.          *)
(***************************************************************************)
EXTENDS Integers, Sequences

CONSTANTS
  WordMod,      \* 2^32
  LinkStart,    \* __heap_start__, where the linker ends the program
  DefaultSize,  \* DEFAULT_HEAP_SIZE
  Regions,      \* the heaps a program may ask for: their address and their bytes
  MaxAsk,       \* no request is larger; a bound of the callers, not of kmalloc
  Alignments,   \* what kmalloc_aligned is asked for, powers of two
  MaxAlign      \* the largest of them

ASSUME HeapConstants ==
  /\ WordMod \in Nat /\ LinkStart \in Nat \ {0} /\ DefaultSize \in Nat /\ MaxAsk \in Nat
  /\ MaxAlign \in Nat /\ 4 <= MaxAlign
  /\ \A a \in Alignments : a \in 1 .. MaxAlign /\ MaxAlign % a = 0
  /\ LinkStart + DefaultSize + MaxAsk + 3 * MaxAlign < WordMod
  /\ \A r \in Regions : /\ r.addr \in Nat \ {0} /\ r.bytes \in Nat
                        /\ r.addr + r.bytes + MaxAsk + 3 * MaxAlign < WordMod

VARIABLES
  heap,    \* heap_start, heap_ptr and heap_end; 0 is the null pointer
  blocks,  \* the blocks handed out: their place, the bytes asked for, the alignment promised
  ret      \* what the last call returned

heap_vars == <<heap, blocks, ret>>

NoHeap == [start |-> 0, ptr |-> 0, end |-> 0]

HeapInit ==
  /\ heap = NoHeap
  /\ blocks = <<>>
  /\ ret = 0

\* (n + a - 1) & ~(a - 1), for a power of two a.
RoundUp(n, a) == LET m == (n + a - 1) % WordMod IN m - (m % a)

\* The default heap is set up by the first allocation.
Ready == IF heap.ptr # 0 THEN heap
         ELSE [start |-> LinkStart, ptr |-> LinkStart, end |-> LinkStart + DefaultSize]

\* Slip: the request is not compared with the end of the heap.
CarveUnchecked(h, p, size, n, a) ==
  /\ heap' = [h EXCEPT !.ptr = (p + size) % WordMod]
  /\ ret' = p
  /\ blocks' = Append(blocks, [addr |-> p, len |-> n, align |-> a])

\* A request of n bytes, rounded to size, at address p of heap h.
Carve(h, p, size, n, a) ==
  IF (p + size) % WordMod > h.end
  THEN /\ heap' = [h EXCEPT !.ptr = p]
       /\ ret' = 0
       /\ UNCHANGED blocks
  ELSE /\ heap' = [h EXCEPT !.ptr = (p + size) % WordMod]
       /\ ret' = p
       /\ blocks' = Append(blocks, [addr |-> p, len |-> n, align |-> a])

-----------------------------------------------------------------------------
\* The program calls this once, before anything is allocated: a later call would start over.
kmalloc_init_set_start(addr, max_nbytes) ==
  /\ heap' = [start |-> addr, ptr |-> addr, end |-> (addr + max_nbytes) % WordMod]
  /\ UNCHANGED <<blocks, ret>>

\* kmalloc, and kmalloc_notzero, which does not clear the block.
kmalloc(nbytes) == Carve(Ready, Ready.ptr, RoundUp(nbytes, 4), nbytes, 1)

\* The pointer is aligned, and stored, before the size is compared with what is left.
kmalloc_aligned(nbytes, alignment) ==
  Carve(Ready, RoundUp(Ready.ptr, alignment), RoundUp(nbytes, alignment), nbytes, alignment)

kmalloc_heap_start == IF heap.start # 0 THEN heap.start ELSE LinkStart
kmalloc_heap_end == IF heap.end # 0 THEN heap.end ELSE (LinkStart + DefaultSize) % WordMod

-----------------------------------------------------------------------------
\* What any program may do with the allocator whose requests stay below MaxAsk.
HeapNext ==
  \/ /\ heap = NoHeap
     /\ \E r \in Regions : kmalloc_init_set_start(r.addr, r.bytes)
  \/ \E n \in 0 .. MaxAsk : kmalloc(n)
  \/ \E n \in 0 .. MaxAsk, a \in Alignments : kmalloc_aligned(n, a)

HeapSpec == HeapInit /\ [][HeapNext]_heap_vars

\* The bytes b[i] and b[j] have none in common.
Apart(b, c) == b.addr + b.len <= c.addr \/ c.addr + c.len <= b.addr

\* Blocks lie inside the heap, below its pointer, where their alignment puts them, and no two of
\* them share a byte, whatever came before, calls of kmalloc_aligned that failed included.
BlocksSafe ==
  /\ \A i \in DOMAIN blocks :
       /\ heap.start <= blocks[i].addr
       /\ blocks[i].addr + blocks[i].len <= heap.ptr
       /\ blocks[i].addr + blocks[i].len <= heap.end
       /\ blocks[i].addr % blocks[i].align = 0
  /\ \A i, j \in DOMAIN blocks : i # j => Apart(blocks[i], blocks[j])

=============================================================================

-------------------------------- MODULE Llama --------------------------------
(***************************************************************************)
(* The inference program, notmain_llama_inference of libpi/src/run.c: it   *)
(* puts its files, buffers and page table on the heap of kmalloc, turns on *)
(* the MMUs of all cores, encodes the prompt, and generates a token at a   *)
(* time until the steps are used up or BOS is drawn.  Then it reboots, as  *)
(* it does when a check fails.  notmain of runq.c does the same with a     *)
(* quantized checkpoint, without the MMUs and under the profiler.          *)
(*                                                                         *)
(* Left to other modules: the SD card and the FAT32 reads (one block       *)
(* stands here for what a read allocates), the dispatcher with which core  *)
(* 0 lets the workers turn on their MMUs and compute their part of a       *)
(* matmul, and the data caches.                                            *)
(***************************************************************************)
EXTENDS Heap, Vm, Tokenizer, Sampler, Quant, Gprof

CONSTANTS
  Runs,           \* what may be run, "run" or "runq", and with what: a checkpoint file (whether
                  \* there is one, its Config, tensors and bytes), a prompt, temperature and topp
  Tokenizers,     \* tokenizer files: max_token_length, the entries' scores and strings, bytes
  Distributions,  \* what softmax may make of the logits
  STEPS,
  SEG_HEAP, HeapBytes,
  STACK_ADDR, INT_STACK_ADDR, WorkerStacks,
  Peripherals,    \* the addresses from 0x3F000000 up to the core's local ones
  SizeofConfig,
  SizeofHeader    \* of runq.c's checkpoints: magic, version, Config, shared_classifier, group size

kern_dom == 1
kern_asid == 1
kern_pid == 2
Float == 4
Pointer == 4
Pair == 8    \* a TokenIndex, a ProbIndex

VARIABLES
  pc,
  cpu,       \* the core that setup_vm or worker_enable_mmu runs on
  i,         \* the index of the loop at hand
  failed,    \* of the allocations of malloc_run_state that returned null: TRUE for those it
             \* looks at, FALSE for the others
  program, model, vocabulary, prompt, setting,  \* what this run was given
  steps,
  cursor,    \* build_tokenizer's place in the file
  token, pos, out,
  fed,       \* the tokens forward has been given
  drawn      \* the distribution and the token of the last call of sample

main_vars == <<pc, cpu, i, failed, steps, cursor, token, pos, out, fed, drawn>>
given == <<program, model, vocabulary, prompt, setting>>
vars == <<heap_vars, vm_vars, tokenizer_vars, infer_vars, GS, gprof_vars, main_vars, given>>

NoDraw == [weights |-> <<>>, next |-> BOS]

Init ==
  /\ HeapInit /\ VmInit /\ TokenizerInit /\ GprofInit
  /\ vocabulary \in Tokenizers
  /\ \E r \in Runs : /\ program = r.program /\ model = r.model
                     /\ prompt = r.prompt /\ setting = r.setting
  /\ config = <<>> /\ weights = <<>> /\ xrow = Zero /\ layer = 0 /\ logits = Zero /\ GS = 0
  /\ caches = [key |-> <<>>, value |-> <<>>]
  /\ pc = "start" /\ cpu = 0 /\ i = 1 /\ failed = {} /\ steps = STEPS /\ cursor = 0
  /\ token = BOS /\ pos = 0 /\ out = <<>> /\ fed = <<>> /\ drawn = NoDraw

\* Every step but the profiler's; GS changes once, in read_checkpoint of runq.c.
Unchanged(S) == UNCHANGED <<given, gprof_vars, GS, S>>
NoMore == <<cpu, i, failed, steps, cursor, token, pos, out, fed, drawn>>

\* What follows a kmalloc whose result is not checked: nothing is known of a program that writes
\* through null.
After(label) == pc' = IF ret' = 0 THEN "undefined" ELSE label

-----------------------------------------------------------------------------
KmallocInit ==
  /\ pc = "start" /\ pc' = "checkpoint"
  /\ kmalloc_init_set_start(SEG_HEAP, HeapBytes)
  /\ Unchanged(<<vm_vars, tokenizer_vars, infer_vars, NoMore>>)

NoCheckpoint ==
  /\ pc = "checkpoint" /\ ~model.there /\ pc' = "panic"
  /\ Unchanged(<<heap_vars, vm_vars, tokenizer_vars, infer_vars, NoMore>>)

\* The header must be there, and of runq.c's version; that the weights are is not checked.
Accepted(prog, m) ==
  IF prog = "run" THEN m.n_data >= SizeofConfig
  ELSE m.n_data >= SizeofHeader /\ m.magic /\ m.version = 2

read_checkpoint ==
  /\ pc = "checkpoint" /\ model.there /\ program = "run"
  /\ kmalloc(model.n_data)
  /\ IF Accepted(program, model)
     THEN After("state") /\ memory_map_weights(model.config)
     ELSE pc' = "panic" /\ UNCHANGED <<config, weights>>
  /\ Unchanged(<<vm_vars, tokenizer_vars, xrow, layer, caches, logits, NoMore>>)

\* The same of runq.c: the header, then the tables of tensors one after the other.
read_checkpointQ ==
  /\ pc = "checkpoint" /\ model.there /\ program = "runq"
  /\ kmalloc(model.n_data)
  /\ IF Accepted(program, model)
     THEN After("tables") /\ config' = model.config /\ GS' = model.group_size
     ELSE pc' = "panic" /\ UNCHANGED <<config, GS>>
  /\ UNCHANGED <<given, gprof_vars, vm_vars, tokenizer_vars, weights, xrow, layer, caches, logits,
                 NoMore>>

memory_map_weightsQ ==
  LET tables == WeightTables(config, model.shared)
  IN  /\ pc = "tables"
      /\ kmalloc(tables[i])
      /\ IF i < Len(tables)
         THEN After("tables") /\ i' = i + 1 /\ UNCHANGED weights
         ELSE After("state") /\ i' = 1 /\ weights' = MapWeightsQ(config, model.shared)
      /\ Unchanged(<<vm_vars, tokenizer_vars, config, xrow, layer, caches, logits, cpu, failed,
                     steps, cursor, token, pos, out, fed, drawn>>)

CacheFloats(p) == p.n_layers * p.seq_len * kv_dim(p)
RunStateFloats(p) ==
  <<p.dim, p.dim, p.dim, p.hidden_dim, p.hidden_dim, p.dim,
    CacheFloats(p), CacheFloats(p), p.n_heads * p.seq_len, p.vocab_size>>

RunState(prog, p) ==
  IF prog = "runq" THEN RunStateQ(p)
  ELSE [k \in DOMAIN RunStateFloats(p) |->
          [bytes |-> RunStateFloats(p)[k] * Float, checked |-> TRUE]]

\* The buffers of malloc_run_state in their order, looked at after the last; then the steps are
\* cut to what the caches hold.
malloc_run_state ==
  LET buffers == RunState(program, config)
  IN  /\ pc = "state"
      /\ kmalloc(buffers[i].bytes)
      /\ failed' = IF ret' = 0 THEN failed \cup {buffers[i].checked} ELSE failed
      /\ IF i < Len(buffers)
         THEN i' = i + 1 /\ UNCHANGED <<pc, steps, caches>>
         ELSE /\ i' = 1
              /\ pc' = CASE TRUE \in failed' -> "panic"
                         [] failed' = {FALSE} -> "undefined"
                         [] OTHER -> "vocab"
              /\ steps' = IF steps = 0 \/ steps > config.seq_len THEN config.seq_len ELSE steps
              /\ caches' = LET zeroed == [o \in 0 .. CacheFloats(config) - 1 |-> Zero]
                           IN  [key |-> zeroed, value |-> zeroed]
      /\ Unchanged(<<vm_vars, tokenizer_vars, config, weights, xrow, layer, logits, cpu, cursor,
                     token, pos, out, fed, drawn>>)

\* build_tokenizer: the two arrays, the file, then an entry at a time.
AllocVocab ==
  /\ pc \in {"vocab", "scores", "file"}
  /\ CASE pc = "vocab"  -> kmalloc(config.vocab_size * Pointer) /\ After("scores")
       [] pc = "scores" -> kmalloc(config.vocab_size * Float) /\ After("file")
       [] pc = "file"   -> kmalloc(vocabulary.n_data) /\ After("entries")
  /\ cursor' = 4
  /\ Unchanged(<<vm_vars, tokenizer_vars, infer_vars, cpu, i, failed, steps, token, pos, out,
                 fed, drawn>>)

\* The string is given its memory before its length is compared with what is left of the file.
BuildEntry ==
  LET e == vocabulary.entries[i]
      len == Len(e.str)
  IN  /\ pc = "entries" /\ i <= config.vocab_size
      /\ IF cursor + 8 > vocabulary.n_data
         THEN pc' = "panic" /\ UNCHANGED <<heap_vars, tokenizer_vars, i, cursor>>
         ELSE /\ kmalloc(len + 1)
              /\ IF cursor + 8 + len > vocabulary.n_data
                 THEN pc' = "panic" /\ UNCHANGED <<tokenizer_vars, i, cursor>>
                 ELSE /\ After("entries") /\ AddEntry(e.score, e.str)
                      /\ i' = i + 1 /\ cursor' = cursor + 8 + len
      /\ Unchanged(<<vm_vars, infer_vars, cpu, failed, steps, token, pos, out, fed, drawn>>)

build_sampler ==
  /\ pc = "entries" /\ i > config.vocab_size
  /\ kmalloc(config.vocab_size * Pair)
  /\ After(IF program = "run" THEN "vm_init" ELSE "profile")
  /\ i' = 1
  /\ Unchanged(<<vm_vars, tokenizer_vars, infer_vars, cpu, failed, steps, cursor, token, pos,
                 out, fed, drawn>>)

\* runq.c turns the timer's interrupts on once the profiler has its table.
InterruptInit ==
  /\ pc = "profile" /\ pc' = "timer" /\ interrupt_init
  /\ UNCHANGED <<given, GS, heap_vars, vm_vars, tokenizer_vars, infer_vars, NoMore>>

TimerInit ==
  /\ pc = "timer" /\ pc' = "histogram" /\ timer_init
  /\ UNCHANGED <<given, GS, heap_vars, vm_vars, tokenizer_vars, infer_vars, NoMore>>

GprofTable ==
  /\ pc = "histogram"
  /\ kmalloc(CodeWords * 4) /\ After("enable_interrupts")
  /\ gprof_init
  /\ UNCHANGED <<given, GS, vm_vars, tokenizer_vars, infer_vars, NoMore>>

EnableInterrupts ==
  /\ pc = "enable_interrupts" /\ pc' = "prompt" /\ enable_interrupts
  /\ UNCHANGED <<given, GS, heap_vars, vm_vars, tokenizer_vars, infer_vars, NoMore>>

\* An interrupt of the timer, until the program is gone: nothing turns them off.  Nothing is known
\* of one that comes before its handler.
Interrupt ==
  /\ pc # "rebooted" /\ Interrupting
  /\ IF Handled THEN interrupt_vector /\ UNCHANGED pc
                ELSE pc' = "undefined" /\ UNCHANGED gprof_vars
  /\ UNCHANGED <<given, GS, heap_vars, vm_vars, tokenizer_vars, infer_vars, NoMore>>

-----------------------------------------------------------------------------
\* setup_vm on core 0, then worker_enable_mmu on the others.  A step of either that fails an
\* assertion does nothing else.
Asserting(ok, op, label) ==
  IF ok THEN op /\ pc' = label ELSE pc' = "panic" /\ UNCHANGED vm_vars

\* DOM_client << (kern_dom * 2)
DomReg == [d \in Domains |-> IF d = kern_dom THEN DOM_client ELSE 0]

Cached == pin_mk_global(kern_dom, perm_rw_priv, MEM_wb_alloc)
Device == pin_mk_device(kern_dom)

\* What setup_vm maps to itself, and how, in its order.
Mappings ==
  LET first == kmalloc_heap_start
      sections == (kmalloc_heap_end - first + OneMB - 1) \div OneMB
      cached(va) == [va |-> va, attr |-> Cached]
  IN  <<cached(0)>>
      \o [k \in 1 .. sections |-> cached(first + (k - 1) * OneMB)]
      \o <<cached(STACK_ADDR - OneMB), cached(INT_STACK_ADDR - OneMB)>>
      \o [k \in DOMAIN Peripherals |-> [va |-> Peripherals[k], attr |-> Device]]

\* Slip: every core goes on to a page table of its own.
VmInitStepOwnTable ==
  /\ pc = "vm_init"
  /\ Asserting(VmMmuInitOk(cpu), vm_mmu_init(cpu, DomReg), "pt")
  /\ Unchanged(<<heap_vars, tokenizer_vars, infer_vars, NoMore>>)

VmInitStep ==
  /\ pc = "vm_init"
  /\ Asserting(VmMmuInitOk(cpu), vm_mmu_init(cpu, DomReg),
               IF cpu = 0 THEN "pt" ELSE "switch")
  /\ Unchanged(<<heap_vars, tokenizer_vars, infer_vars, NoMore>>)

\* Slip: the table is aligned to its number of entries, not to its bytes.
VmPtAllocEntries ==
  /\ pc = "pt"
  /\ kmalloc_aligned(4 * PtLevel1N, PtLevel1N)
  /\ Asserting(VmPtAllocOk(ret'), vm_pt_alloc(ret'), "map")
  /\ Unchanged(<<tokenizer_vars, infer_vars, NoMore>>)

VmPtAlloc ==
  /\ pc = "pt"
  /\ kmalloc_aligned(4 * PtLevel1N, 4 * PtLevel1N)
  /\ Asserting(VmPtAllocOk(ret'), vm_pt_alloc(ret'), "map")
  /\ Unchanged(<<tokenizer_vars, infer_vars, NoMore>>)

VmMapSec ==
  LET m == Mappings[i]
  IN  /\ pc = "map" /\ i <= Len(Mappings)
      /\ Asserting(VmMapSecOk(m.va, m.va, m.attr), vm_map_sec(0, m.va, m.va, m.attr), "map")
      /\ i' = i + 1
      /\ Unchanged(<<heap_vars, tokenizer_vars, infer_vars, cpu, failed, steps, cursor, token,
                     pos, out, fed, drawn>>)

VmSwitch ==
  /\ pc = "switch" \/ (pc = "map" /\ i > Len(Mappings))
  /\ Asserting(VmMmuSwitchOk(kern_asid), vm_mmu_switch(cpu, kern_pid, kern_asid), "sync")
  /\ Unchanged(<<heap_vars, tokenizer_vars, infer_vars, NoMore>>)

VmSync ==
  /\ pc = "sync" /\ mmu_sync_pte_mods(cpu) /\ pc' = "enable"
  /\ Unchanged(<<heap_vars, tokenizer_vars, infer_vars, NoMore>>)

VmEnable ==
  /\ pc = "enable"
  /\ Asserting(VmMmuEnableOk(cpu), vm_mmu_enable(cpu), "caches")
  /\ Unchanged(<<heap_vars, tokenizer_vars, infer_vars, NoMore>>)

\* The core is done; the next one starts over from its vm_mmu_init.
EnableCaches ==
  /\ pc = "caches" /\ cp15_ctrl_reg1_wr(cpu)
  /\ IF cpu + 1 \in Cpus THEN cpu' = cpu + 1 /\ pc' = "vm_init"
                         ELSE cpu' = 0 /\ pc' = "prompt"
  /\ Unchanged(<<heap_vars, tokenizer_vars, infer_vars, i, failed, steps, cursor, token, pos,
                 out, fed, drawn>>)

-----------------------------------------------------------------------------
\* generate: room for the tokens, then encode.
PromptBytes(text) == (Len(text) + 3) * 4

AllocPrompt ==
  /\ pc = "prompt"
  /\ kmalloc(PromptBytes(prompt)) /\ After("sort")
  /\ Unchanged(<<vm_vars, tokenizer_vars, infer_vars, NoMore>>)

SortStep ==
  /\ pc = "sort"
  /\ kmalloc(config.vocab_size * Pair) /\ After("buffer")
  /\ SortVocab
  /\ Unchanged(<<vm_vars, infer_vars, NoMore>>)

BufferBytes(t) == t.max_token_length * 2 + 1 + 2

AllocBuffer ==
  /\ pc = "buffer"
  /\ kmalloc(BufferBytes(vocabulary)) /\ After("encode")
  /\ BeginEncode(prompt)
  /\ Unchanged(<<vm_vars, infer_vars, NoMore>>)

EncodeStep ==
  /\ pc = "encode"
  /\ EncodeByte
  /\ Unchanged(<<heap_vars, vm_vars, infer_vars, pc, NoMore>>)

MergeStep ==
  /\ pc \in {"encode", "merge"} /\ enc.c > Len(enc.text)
  /\ MergePair /\ pc' = "merge"
  /\ Unchanged(<<heap_vars, vm_vars, infer_vars, NoMore>>)

\* No pair is left to merge: generation starts with the first token.
StartGenerating ==
  /\ pc \in {"encode", "merge"} /\ enc.c > Len(enc.text)
  /\ Mergeable = {}
  /\ pc' = IF enc.tokens = <<>> THEN "panic" ELSE "forward"
  /\ token' = IF enc.tokens = <<>> THEN token ELSE enc.tokens[1]
  /\ Unchanged(<<heap_vars, vm_vars, tokenizer_vars, infer_vars, cpu, i, failed, steps, cursor,
                 pos, out, fed, drawn>>)

EmbedStep ==
  /\ pc = "forward" /\ pos < steps /\ pc' = "layer"
  /\ \/ program = "run" /\ Embed(model.tensors, token)
     \/ program = "runq" /\ EmbedQ(model.tensors, token)
  /\ fed' = Append(fed, token)
  /\ Unchanged(<<heap_vars, vm_vars, tokenizer_vars, cpu, i, failed, steps, cursor, token, pos,
                 out, drawn>>)

LayerStep ==
  /\ pc = "layer"
  /\ \/ program = "run" /\ ForwardLayer(model.tensors, pos)
     \/ program = "runq" /\ ForwardLayerQ(model.tensors, pos)
  /\ Unchanged(<<heap_vars, vm_vars, tokenizer_vars, pc, NoMore>>)

LogitsStep ==
  /\ pc = "layer" /\ pc' = "next"
  /\ \/ program = "run" /\ Classify(model.tensors)
     \/ program = "runq" /\ ClassifyQ(model.tensors)
  /\ Unchanged(<<heap_vars, vm_vars, tokenizer_vars, NoMore>>)

\* BOS ends the sequence; any other token is printed and fed back.
Advance(next) ==
  /\ pos' = pos + 1
  /\ IF next = BOS
     THEN pc' = "done" /\ UNCHANGED <<token, out>>
     ELSE /\ pc' = "forward" /\ token' = next
          /\ out' = out \o safe_printf(decode(token, next))
  /\ Unchanged(<<heap_vars, vm_vars, tokenizer_vars, infer_vars, cpu, i, failed, steps, cursor,
                 fed>>)

\* While the prompt lasts its next token is forced.
NextOfPrompt ==
  /\ pc = "next" /\ pos < Len(enc.tokens) - 1
  /\ Advance(enc.tokens[pos + 2])
  /\ UNCHANGED drawn

SampleNext ==
  /\ pc = "next" /\ pos >= Len(enc.tokens) - 1
  /\ \E w \in Distributions, coin \in 0 .. CoinMod - 1 :
       LET next == sample(setting, w, coin)
       IN  Advance(next) /\ drawn' = [weights |-> w, next |-> next]

StepsUsedUp ==
  /\ pc = "forward" /\ pos >= steps /\ pc' = "done"
  /\ Unchanged(<<heap_vars, vm_vars, tokenizer_vars, infer_vars, NoMore>>)

GprofDumpStep ==
  /\ program = "runq" /\ pc = "done"
  /\ \/ DumpScan /\ UNCHANGED pc
     \/ DumpPrint /\ pc' = "dumped"
  /\ UNCHANGED <<given, GS, heap_vars, vm_vars, tokenizer_vars, infer_vars, NoMore>>

clean_reboot ==
  /\ pc = "panic" \/ (pc = IF program = "run" THEN "done" ELSE "dumped")
  /\ pc' = "rebooted"
  /\ Unchanged(<<heap_vars, vm_vars, tokenizer_vars, infer_vars, NoMore>>)

\* The only state the program may stay in.
Rebooted == pc = "rebooted" /\ UNCHANGED vars

Next ==
  \/ KmallocInit \/ NoCheckpoint \/ read_checkpoint \/ read_checkpointQ \/ memory_map_weightsQ
  \/ malloc_run_state
  \/ InterruptInit \/ TimerInit \/ GprofTable \/ EnableInterrupts \/ Interrupt \/ GprofDumpStep
  \/ AllocVocab \/ BuildEntry \/ build_sampler
  \/ VmInitStep \/ VmPtAlloc \/ VmMapSec \/ VmSwitch \/ VmSync \/ VmEnable \/ EnableCaches
  \/ AllocPrompt \/ SortStep \/ AllocBuffer \/ EncodeStep \/ MergeStep \/ StartGenerating
  \/ EmbedStep \/ LayerStep \/ LogitsStep \/ NextOfPrompt \/ SampleNext \/ StepsUsedUp
  \/ clean_reboot \/ Rebooted

Spec == Init /\ [][Next]_vars

-----------------------------------------------------------------------------
\* What a run that gets as far as that asks of the heap, in bytes, after its checkpoint.
Requests(r, t) ==
  LET p == IF r.program = "run" THEN [r.model.config EXCEPT !.vocab_size = Abs(@)] ELSE r.model.config
      state == RunState(r.program, p)
  IN  {t.n_data, p.vocab_size * Pointer, p.vocab_size * Float, p.vocab_size * Pair,
       PromptBytes(r.prompt), BufferBytes(t)}
        \cup {state[k].bytes : k \in DOMAIN state}
        \cup {Len(t.entries[k].str) + 1 : k \in 1 .. p.vocab_size}
        \cup (IF r.program = "run" THEN {}
              ELSE {CodeWords * 4} \cup Range(WeightTables(p, r.model.shared)))

\* The files fit the requests that Heap is about, and the heap is one of its regions.  The memory
\* map: the workers' stacks are in the section of the code, the peripherals above everything else.
ASSUME LlamaConstants ==
  /\ \A r \in Runs, t \in Tokenizers :
       /\ r.program \in {"run", "runq"} /\ r.model.config.vocab_size \in Int
       /\ r.model.there => r.model.n_data \in 0 .. MaxAsk
       /\ r.model.there /\ Accepted(r.program, r.model) => Requests(r, t) \subseteq 0 .. MaxAsk
  /\ [addr |-> SEG_HEAP, bytes |-> HeapBytes] \in Regions
  /\ 4 * PtLevel1N \in Alignments /\ 4 * PtLevel1N <= MaxAsk
  /\ Cpus \subseteq Nat /\ 0 \in Cpus
  /\ WorkerStacks \subseteq 0 .. OneMB - 1
  /\ STACK_ADDR \in Nat /\ INT_STACK_ADDR \in Nat
  /\ OneMB <= STACK_ADDR /\ OneMB <= INT_STACK_ADDR
  /\ Peripherals \in Seq(Nat)
  /\ \A d \in Range(Peripherals) :
       SEG_HEAP + HeapBytes <= d /\ STACK_ADDR <= d /\ INT_STACK_ADDR <= d

\* Every distribution gives each token a weight, and not all 0.  And topp, 0.9 in the code, is no
\* less than the share of a token among equals: below that no token need reach the cut-off, and
\* sample_topp would read a candidate it does not have.
ASSUME SamplerConstants ==
  /\ CoinMod \in Nat \ {0}
  /\ \A r \in Runs : r.setting.topp.num \in Int /\ r.setting.topp.den \in Nat
  /\ \A w \in Distributions :
       LET n == Cardinality(DOMAIN w)
       IN  /\ n \in Nat \ {0} /\ w \in [0 .. n - 1 -> Nat] /\ Mass(w) > 0
           /\ \A r \in Runs : LET topp == r.setting.topp
                              IN  topp.num \in 1 .. topp.den - 1 => topp.num * n >= topp.den

\* A tokenizer file that goes with a checkpoint has a string for each of its tokens: among them a
\* space, and the names of the bytes at token 3 and on, of those bytes at least that the prompt
\* has.  BOS is not spelled like a codepoint.
ASSUME TokenizerConstants ==
  /\ Raw \in Nat /\ Space \in 1 .. Raw - 1
  /\ \A r \in Runs : r.model.config \in Config /\ r.prompt \in Seq(1 .. Raw - 1)
  /\ \A r \in Runs, t \in Tokenizers : r.model.there /\ Accepted(r.program, r.model) =>
       LET n == Abs(r.model.config.vocab_size)
           str == [k \in 1 .. n |-> t.entries[k].str]
       IN  /\ n > BOS /\ str \in Seq(Seq(Nat \ {0})) /\ t.max_token_length \in Nat \ {0}
           /\ <<Space>> \in Range(str)
           /\ \A b \in Range(r.prompt) : b + 4 <= n /\ str[b + 4] = <<Raw + b>>
           /\ Len(str[BOS + 1]) > 4 \/ ~(Range(str[BOS + 1]) \subseteq Range(r.prompt) \cup {Space})

\* A checkpoint that is accepted is whole, and of a shape that a model has: the heads share the
\* dimension evenly, and the query heads the key heads.  softmax has a logit for each token.
ASSUME ModelConstants ==
  /\ STEPS \in Nat
  /\ \A r \in Runs : r.model.there /\ Accepted(r.program, r.model) =>
       LET p == r.model.config
       IN  /\ p.dim > 0 /\ p.hidden_dim > 0 /\ p.n_layers > 0 /\ p.seq_len > 0
           /\ p.n_heads > 0 /\ p.dim % p.n_heads = 0
           /\ p.n_kv_heads > 0 /\ p.n_heads % p.n_kv_heads = 0
           /\ r.program = "run" => r.model.tensors = TensorStarts(p)
           /\ r.program = "runq" =>
                /\ p.vocab_size > 0 /\ r.model.group_size \in Nat \ {0}
                /\ r.model.tensors = ExportedQ(p, r.model.shared, r.model.group_size)
           /\ \A w \in Distributions : DOMAIN w = 0 .. Abs(p.vocab_size) - 1

\* Memory a core uses with its MMU on: code, the workers' stacks, the heap's blocks, the stacks.
RamInUse ==
  {0} \cup WorkerStacks \cup {STACK_ADDR - 1, INT_STACK_ADDR - 1}
    \cup UNION {{b.addr, b.addr + b.len - 1} : b \in {b \in Range(blocks) : b.len > 0}}

\* A core whose MMU is on reaches every byte that the program uses, at its own address, and a
\* device in order and past the cache: the table setup_vm fills while the MMU is off covers all
\* that is allocated before and after, and no core is left with what its TLB held before.
XlateIdentity ==
  \A c \in Cpus : cp15[c].M =>
    /\ \A a \in RamInUse : Access(c, a) /\ vm_xlate(a) = a /\ Cacheable(a)
    /\ \A d \in Range(Peripherals) : Access(c, d) /\ vm_xlate(d) = d /\ StronglyOrdered(d)

\* What forward returns is what the transformer computes from the tokens so far: the offsets find
\* the right weights, every row of a cache is the one its token wrote, in its layer, and no step
\* is taken beyond the caches' last row.
LogitsExact ==
  pc = "next" => logits = IF program = "run" THEN Transformer(model.config, fed)
                          ELSE TransformerQ(model.config, model.shared, fed)

Heavier(w, t) == {u \in DOMAIN w : w[u] > w[t]}

\* The token sample returns is in the vocabulary and possible; with temperature 0 none is more
\* probable, and with 0 < topp < 1 those more probable do not already exceed topp, whatever the
\* cut-off left out and however qsort placed equals.
SampleSound ==
  LET w == drawn.weights
      t == drawn.next
  IN  w # <<>> =>
        /\ t \in DOMAIN w
        /\ w[t] > 0
        /\ setting.temperature = 0 => Heavier(w, t) = {}
        /\ setting.temperature # 0 /\ setting.topp.num \in 1 .. setting.topp.den - 1 =>
             SumOver(w, Heavier(w, t)) * setting.topp.den <= setting.topp.num * Mass(w)

Spelling(id) == IF IsRaw(vocab(id)) THEN <<vocab(id)[1] - Raw>> ELSE vocab(id)

\* While encode reads the text, its tokens and the codepoint it has begun spell what it has read,
\* after one space, byte for byte; the tokens are in the vocabulary and, like the
\* codepoint, fit the room they were given.
EncodeSpells ==
  pc = "encode" =>
    /\ \A k \in DOMAIN enc.tokens : enc.tokens[k] \in 0 .. config.vocab_size - 1
    /\ Len(enc.tokens) <= Len(prompt) + 3
    /\ Len(enc.str_buffer) + 1 <= BufferBytes(vocabulary)
    /\ FlattenSeq([k \in 1 .. Len(enc.tokens) - 1 |-> Spelling(enc.tokens[k + 1])])
         \o SubSeq(enc.str_buffer, 1, enc.str_len)
       = (IF prompt # <<>> THEN <<Space>> ELSE <<>>) \o SubSeq(prompt, 1, enc.c - 1)

\* What encode looks up for every pair is a token, and one that may be merged to.
Collapses == PairToken(1) # -1 /\ vocab_scores(PairToken(1)) > MinScore

\* The text's tokens follow BOS and the space; each stands for a piece of it.
Pieces == [k \in 1 .. Len(enc.tokens) - 2 |-> Spelling(enc.tokens[k + 2])]

\* When the tokens of a prompt, valid UTF-8 or not, have all been forced through, what was
\* printed is the prompt, piece by piece: the space that encode put before it is dropped again,
\* and so are pieces of one byte that cannot be printed.  But if its last codepoint is a token
\* then all tokens have been merged, that codepoint's is all the model is given of the prompt, and
\* nothing is printed.
EchoesPrompt ==
  pc = "forward" /\ prompt # <<>> /\ pos = Len(enc.tokens) - 1 =>
    IF Collapses THEN enc.tokens = <<PairToken(1)>> /\ out = <<>>
    ELSE /\ FlattenSeq(Pieces) = prompt
         /\ out = FlattenSeq([k \in DOMAIN Pieces |-> safe_printf(Pieces[k])])

\* What the program does with the allocator is within what BlocksSafe is proved for.
\* (HeapSpec; that a step may leave the heap alone is said first because TLC tries it first.)
UsesHeapAsProved == HeapInit /\ [][UNCHANGED heap_vars \/ HeapNext]_heap_vars

\* A round of encode replaces two neighbours whose strings, one after the other, are the string of
\* a token: "this merge pair exists in vocab!"
MergesAreVocabPairs ==
  [][\A k \in 1 .. Len(enc.tokens) - 1 :
       MergeStep /\ enc'.tokens[k] # enc.tokens[k]
         /\ (\A m \in 1 .. k - 1 : enc'.tokens[m] = enc.tokens[m])
       => vocab(enc'.tokens[k]) = vocab(enc.tokens[k]) \o vocab(enc.tokens[k + 1])]_vars

=============================================================================

# TLA+ models of pi3-distributed-LLM-inference

A bare-metal Raspberry Pi 3 runs a Llama model on its four cores.  The program
is sent over a serial line by a host tool, reads its weights from an SD card,
turns on the MMU and the caches of the four cores one after the other and then
generates tokens, every matrix product being split over the cores.  A second
path, `pi-comm.c`, links two Pis by GPIO pins.

This directory holds the models of that code, the configurations with which
TLC checks them, and the proofs that TLAPS checks.  Run them here:

    tlc -config MatmulMC.cfg MatmulMC.tla        # section 3 has the other runs
    tlapm MatmulProofs.tla                       # likewise the other *Proofs

Paths below are relative to `src/`; `multicore.c` is
`libpi/multicore/multicore.c`, `run.c` is `libpi/src/run.c`.

## 1. Inventory

| Component | State | Operations | Talks to | What is hard | What makes it correct |
|---|---|---|---|---|---|
| **Multicore dispatch** (`multicore.c`, `multicore-start.S`, `multicore.h`) | `core_online`, `cmd_funcs`, `cmd_args`, `cmd_seq`, `cmd_done` per worker; event registers | `multicore_init`, `_call`, `_call_async`, `_check_done`, `_wait`, `_wait_all` on core 0; `multicore_main` on the workers | its caller on core 0; the worker functions | four cores, no lock, sleep in `wfe`; order of the stores; wrap of the counter | a command is run exactly once with its own function and argument; no lost wake-up; a wait is a barrier |
| **matmul** (`run.c` 254-320, 944-969, 1119-1127) | `matmul_args`, the output vector, floating point enabled per core | split, issue, compute own share, wait; `enable_vfp` on each core | dispatch | statuses ignored; records reused by the next call | each row computed once from this call's operands |
| **MMU and cache bring-up** (`run.c` 976-1042, 1128-1140, `multicore.c` 4-12, 121-127, 156-161) | which cores are cached; cache lines of the command words | `setup_vm`, `worker_enable_mmu`, clean, invalidate | dispatch | cores that look into the cache and cores that do not, at once | a command still works on every core; no stale line when all are cached |
| **Serial bootloader** (`libpi/boot/get-code.h`, `libunix/put-code.c`) | the protocol position of each side; received bytes; the stream between them | request, info, request for code, code, verify, success; timeouts; reboot | UART | misaligned reader, repeats, lost and damaged bytes, reboots | success only if the program that was sent is stored, and at its address; a fault-free boot succeeds |
| **Inference loop** (`run.c`, `libpi/libc/qsort.c`, `bsearch.c`, `strcmp.c`) | the weights' offsets, the KV caches and the position, the tokenizer's tables, the sampler | `build_transformer`, `build_tokenizer`, `encode`, `decode`, `forward`, `sample*`, `generate` | matmul, heap, `bsearch`, `qsort` | offsets and rows found by arithmetic; merge buffer; cut-off and candidates of top-p | the logits are the transformer's of the tokens so far; the prompt's bytes come back; the token drawn is within top-p |
| **Quantized inference** (`libpi/src/runq.c`) | the same over bytes with scales | the version-2 header, the tables of tensors, `quantize`, `matmul` | heap, profiler | the tables' entries are pairs of pointers into one file | as above |
| **Heap** (`libpi/libc/kmalloc.c`) | heap pointer and end | `kmalloc`, `kmalloc_aligned`, init | inference programs, FAT32 | wrap-around, failure after a partial update, results nobody looks at | blocks disjoint, aligned and inside the heap |
| **Pi-to-Pi link** (`libpi/src/pi-comm.c`) | four pins; the position in a message on each side | bit and byte transfer, ready and busy, `comm_send_msg`, `comm_recv_msg`, handshake | GPIO | two clocks, no timeout, level-sensitive ready, early returns | a message arrives whole or is rejected, and the next one is not misread |
| **FAT32** (`libpi/fat32/fat32.c`, `fat32-helpers.c`, `mbr.c`) | the FAT in memory, the clusters on the card (read only), a buffer per read | `mbr_read`, `fat32_mk`, `fat32_get_root`, `_readdir`, `_stat`, `_read` | SD driver, heap | two walks of one chain, ends of chains, deleted entries, empty files, a heap that is never freed, sizes of 32 bits | a file is read as the bytes of its chain, into a buffer that holds it; a name is found if the directory has it |
| **SD card driver** (`libpi/fat32/external-code/emmc.c`, `pi-sd.c`) | last command, error and status, card state | reset, issue command, data command with retry, read | controller | stale errors on retry, ignored results, waits | a read that returns success has transferred every block |
| **Virtual memory** (`libpi/vm/pt-vm.c`, `mmu.c`, `your-mmu-asm.S`) | one page table of sections; each core's control, domain, context and table base registers and its TLB | `vm_pt_alloc`, `vm_map_sec`, `vm_mmu_init`, `_switch`, `_enable`, `vm_xlate` | heap, bring-up | what is allocated after the table was filled; stale TLBs; three cores and one table | every core reaches all that the program uses at its own address, devices past the cache |
| **Drivers and reboot** (`uart.c`, `gpio.c`, `clean-reboot.c`, `reboot.c`, `start.S`, `cstart.c`) | pins, the UART's FIFO and shift register | `uart_init`, `uart_put8`, `uart_flush_tx`, `clean_reboot` | host tools | a reboot over unsent characters | no character is lost |
| **Host tools** (`libunix/pi3-install.c`, `find-ttyusb.c`, `open-tty.c`, `pi-echo.c`) | the tty chosen, the place in the exit string | options, search, open, boot, echo, exit | serial bootloader | ttys that come and go; the exit string cut anywhere by `read` | the host exits when the program has, and only reports what runs |
| **Profiler and interrupts** (`gprof.c`, `interrupts-asm.S`, `timer-int.h`) | the histogram, the interrupt enables, the dump's candidates | `interrupt_init`, `timer_init`, `gprof_init`, `gprof_inc`, `gprof_dump` | `runq.c` | the histogram changes while it is dumped | the dump is not sampled, and is the greatest of what it read |
| **printk, mathematics and memory functions, register tables, `bzt-sd.c`** | | | | | not modelled |

How they interact: `boot` delivers the program; `notmain_llama_inference`
sets up the heap, initialises the SD card and FAT32, reads the files into the heap, then
`multicore_init` wakes the workers, `multicore_call` enables floating point on
them one at a time, `setup_vm` turns on core 0's MMU and caches, and
`multicore_call` runs `worker_enable_mmu` on each worker.  From then on
`generate` calls `forward`, which calls `matmul` some forty times per token.
Everything two cores share passes through the command words of `multicore.c`.

The hazards of this code, each at its line with the properties that watch it,
are in `PROJECT.json`.

## 2. Modules

| Module | What it is | Order |
|---|---|---|
| `TaskDispatch` | abstract: what `multicore.h` promises | done |
| `Multicore` | `multicore.c`, one action per access to a shared word | done |
| `Matmul` (extends `Multicore`) | `matmul` and the bring-up as the dispatcher's client | done |
| `MatmulMC` (extends `Matmul`) | the dispatcher under either client, for TLC | done |
| `MatmulProofs` | invariants of `Multicore`, refinement of `TaskDispatch`; `Matmul` implements `Multicore`; every row computed once | done |
| `MulticoreCache`, `MulticoreCacheProofs` | the dispatcher while caches are being turned on | done |
| `Boot`, `BootProofs` | both ends of the serial boot and the line | done |
| `Install`, `InstallMC` (extends `Boot`) | pi3-install around the boot, and the booted program's output up to its reboot; refines `Boot` | done |
| `Emmc`, `EmmcProofs` | `emmc.c` and `pi-sd.c`: bring-up and reads against a card that fails | done |
| `Comm`, `CommMC`, `CommProofs` | `pi-comm.c`: the handshake of two Pis, bit by bit over their four wires | done |
| `Fat32`, `Fat32MC`, `Fat32Proofs` | the FAT32 reader, turn by turn along the chains, against the files that the card holds | done |
| `Heap` | `kmalloc.c` | done |
| `Vm` | the page table and each core's registers | done |
| `Libc` | `strcmp`, `bsearch`, `qsort` | done |
| `Tokenizer`, `Sampler` (extend `Libc`) | the vocabulary, `encode`, `decode`; the three ways of sampling | done |
| `Infer`, `Quant` | `forward` on floats and on quantized tensors, against the transformer's definition | done |
| `Gprof` | the profiler and its interrupts | done |
| `Llama`, `LlamaMC` (extends the six above) | the programs `run.c` and `runq.c` from `notmain` to the reboot | done |
| `MemoryProofs` | the heap; the programs' use of it; the page table `setup_vm` fills | done |
| `LlamaProofs` (extends `MemoryProofs`) | what the programs compute: the quicksort, the sampler, the tokenizer, the profile, `forward` | done |

`Multicore` implements `TaskDispatch`, `Matmul` implements `Multicore`, `Install`
implements `Boot`, and the heap's variables of `Llama` satisfy `Heap`'s
specification.  What could follow: the workers' stacks while their caches are
turned on.

### Multicore

`NumCores`, `Funcs`, `Args` and the width `SeqMod` of the sequence numbers are
constants.  The shared words have their names in the code.  `pc[c]` is where
core `c` is, one label per access to a word that another core may write, so
that cores interleave between any two such accesses.  The locals are the
variables of their names; those of a call that has returned, and of a command
that has been acknowledged, are reset because they are dead.

| Code | Actions |
|---|---|
| `multicore_init` | `InitMailbox`, `InitSev`, `InitCheck`, `InitWfe` |
| `multicore_call_async` | `RejectCall`, `BeginCall`, `CheckOnline`, `CheckBusy`, `StoreFunc`, `StoreArg`, `StoreSeq`, `CallSev` |
| `multicore_call` | the same with `op = "call"`, then those of `multicore_wait` |
| `multicore_check_done` | `CheckDone`, `RejectWait` |
| `multicore_wait`, `_wait_all` | `BeginWait`, `ReadExpected`, `WaitLoop`, `WaitWfe` |
| `multicore_entry`, `multicore_main` | `LeavePen`, `StoreOnline`, `OnlineSev`, `Poll`, `PollWfe`, `LoadSeq`, `LoadFunc`, `LoadArg`, `FuncReturns`, `StoreDone`, `DoneSev` |

`Client` is any program on core 0.  `sev` sets every core's event register and
`wfe` waits for its own and clears it, as the architecture defines; that, the
firmware's holding pen (`LeavePen`) and the caches are the only things modelled
from outside the repository.  Memory is sequentially consistent in this module:
`dev_barrier` stands between accesses whose order matters.

The refinement to `TaskDispatch` maps a worker's phase to "posted" from the
moment `cmd_seq` is incremented, "running" inside the function, "ran" until
`cmd_done` is stored.  A busy test that refuses is a `Refuse`, the store to
`cmd_seq` is the `Post`, each end of a wait is an `Await`.

### Matmul

`Matmul` extends `Multicore` and replaces `Client` by the program: `boot`,
`vfp` and then calls of `matmul` with any member of `Ds` rows.  `FillArgs` writes one
record, `Dispatch` starts one `multicore_call_async` and ignores what it
returns, `OwnRows` is core 0's share, `AwaitWorkers` is `multicore_wait_all`.
`WorkerRows` is `matmul_worker`, which reads its record again at every turn.  A
row of the result is the number of times it was computed in this call (`hits`)
and the call it was last computed for (`xout`, compared with `stamp`, which
alternates); the dot product of a row is one step.

### MulticoreCache

The same protocol below the level of sequentially consistent memory.  The
cores whose MMU is on share one coherent cache (`CPUECTLR.SMPEN` is set, the
sections are mapped shareable); the others go to memory.  Lines are evicted
(`Evict`) and filled (`Fill`) at any moment.  `DcClean` and `Drop` are the two
maintenance operations; `Drop` writes a dirty line back before it invalidates
it, which is how a Cortex-A53 treats DCIMVAC.  On a core that really discarded
the line, `multicore_wait` would throw away an acknowledgement; this is an
assumption of the model, not a result.  `multicore_coherent` is 0, since nothing
in the repository sets it, so the maintenance always happens.  `issued` and
`ran` are history: what was issued last and what the worker has run since.

### Boot

The two directions of the UART are sequences of bytes, because what goes wrong
is that a reader loses the boundary of a word.  The bytes of the protocol words
are those of `boot-defs.h`; the address, the length, the checksum and the code
are bytes that are only compared.  `Hello` is what the Pi prints at start-up;
the host begins to read at any byte of it.  `Ask` is the repeated
`GET_PROG_INFO`; it is *late* when the host has something to read and will
therefore answer.  `Fault` loses or damages a byte on its way to the Pi.
`Reboot` throws away any part of what is being sent to the Pi.  A damaged
address or length may be anything; `addr` is what the Pi has read, stores at and jumps to.  `SendInfo` sends
ARMBASE, as `simple_boot` does whatever its parameter says.  The checksum is modelled as distinguishing
all contents that occur; collisions of CRC-32 are left out.

### Install

`Install` extends `Boot` with what is before and after it on both sides.

| Code | Actions |
|---|---|
| `pi3-install.c`, `find-ttyusb.c`, `open-tty.c`, `set-tty-8n1.c`, `read-file.c` | `ParseOptions`, `ScanDev`, `StatNext`, `Selected`, `OpenTty`, `SetTty`, `ReadFile` |
| `simple_boot` | `HostInBoot`, and `PiInBoot`, `LineInBoot` for the other end; `StartEcho` when it returns |
| `pi_echo`, `read_timeout`, `write_exact`, `can_read_timeout`, `tty_gone` | `ReadStdin`, `ReadPi`, `NothingToRead`, `TtyGone` |
| `start.S`, `_cstart`, `uart_init` | `EnterProgram`, `DisableUart`, `EnableUart` |
| `putk`, `uart_put8` | `StartPrinting`, `PutChar` |
| `clean_reboot`, `rpi_reboot`, `uart_flush_tx` | `RebootProgram` |
| the UART | `LoadShift`, `Transmit` |

`PlugOrUnplug` changes /dev while no boot is under way.  After `ReadFile` only
whether the chosen tty is there matters; the rest of `args`, `dir` and `dev` is
reset.  `EnterProgram` is for a program that was started where it was linked for; what it does
elsewhere is not followed.  The program prints one of `Outputs` and the exit string; `console` is
the line after the bootloader's last byte, and `ReadPi` takes any part of it.

### Heap

`heap` has the three pointers of `kmalloc.c`; arithmetic is modulo `WordMod`.
`blocks` remembers what was handed out.  `kmalloc_aligned` stores the aligned
pointer before it compares, as the code does.  `HeapNext` is any program that
asks for at most `MaxAsk` bytes at a time; `HeapConstants` says that heap and
request together stay below 2^32, which is where the code's comparison would
wrap.

### Llama and its parts

`Llama` is `notmain_llama_inference` of `run.c` (`program = "run"`) and
`notmain` of `runq.c` (`"runq"`), one action per allocation, check or
operation, in the order of the code.  A `panic` ends in `clean_reboot`; where
the code goes on with a null pointer it does not look at, the model goes to
`"undefined"` and stops, and deadlock is an error in the run: none of the files
and models given leads there.

| Code | Actions |
|---|---|
| `kmalloc_init_set_start`, `read_checkpoint`, `memory_map_weights` | `KmallocInit`, `NoCheckpoint`, `read_checkpoint`, `read_checkpointQ`, `memory_map_weightsQ` |
| `malloc_run_state`, `build_tokenizer`, `build_sampler` | `malloc_run_state`, `AllocVocab`, `BuildEntry`, `build_sampler` |
| `setup_vm`, `worker_enable_mmu` | `VmInitStep`, `VmPtAlloc`, `VmMapSec`, `VmSwitch`, `VmSync`, `VmEnable`, `EnableCaches`, on each core of `Cpus` in turn |
| `encode` | `AllocPrompt`, `SortStep`, `AllocBuffer`, `EncodeStep`, `MergeStep` |
| `generate`, `forward` | `StartGenerating`, `EmbedStep`, `LayerStep`, `LogitsStep`, `NextOfPrompt`, `SampleNext`, `StepsUsedUp` |
| the profiler in `runq.c` | `InterruptInit`, `TimerInit`, `GprofTable`, `EnableInterrupts`, `Interrupt`, `GprofDumpStep` |

Numbers are symbolic: a vector is the term that says how it was computed, a
product with groups of `gs` bytes another one than a product of floats.
Places are not: `Infer` and `Quant` find weights, embeddings and rows of the
caches by the code's offsets in a file (`Exported`, `ExportedQ`: the layout of
the exported files, external), and an offset that does not hit a whole
tensor gives `Junk`.  `Transformer` is the definition they are compared with:
recursive over layers, without caches and by names.  A string is a sequence of
byte codes; the six characters `<0xHH>` are one code, `Raw` + the byte.  A
distribution has whole weights and the coin is a fraction, so that sampling is
exact; what the code's roundings could change is not modelled.

A core of `Vm` may hold stale translations (`stale`) from the start and after
`vm_map_sec`, until its TLB is invalidated.

### Emmc

One step per command of the driver: `emmc_issue_command` up to the response of
the card, while nothing else runs.  The locals `i` of `emmc_init`, `v2_card`
and `retry_count` have their names; `device` keeps the three fields that
outlive a command.

| Code | Actions |
|---|---|
| `pi_sd_init`, `emmc_init` | `StartInit`, `AttemptFails` |
| `emmc_card_reset`, `emmc_setup_clock` | `HostReset`, `GoIdle` |
| `check_v2_card`, `check_usable_card`, `check_ocr`, `check_sdhc_support` | `CheckV2Card`, `CheckUsableCard`, `CheckOcr`, `CheckSdhcSupport` |
| `check_rca`, `select_card`, `set_scr` | `SendCid`, `SendRelativeAddr`, `SelectCard`, `SetBlockLen`, `SendScr` |
| `pi_sd_read`, `emmc_read`, `do_data_command` | `BeginRead`, `IssueRead`, `RefuseRead`, `RetryOrGiveUp` |
| `do_data_transfer`, the end of `emmc_issue_command` | `ReadBlock`, `LoseBlock`, `TransferEnds`, `AwaitDone` |

The card is outside the repository: `Accepts` and `Obeyed` say which of the
driver's commands it answers in which state and what it does then, as the SD
specification has it.  A command may be lost in four ways (`Outcomes`): the
controller reports a timeout, sets no flag at all until the driver's own
timeout, or reports a damaged response, before or after the card has obeyed.
APP_CMD and its command are one exchange; the driver treats the failure of
either in the same way.  The buffer holds for each block the sector its bytes
came from.  `DoneAfterTimeout` is a controller that sets the data-done flag for
a transfer a data timeout has cut short: the driver would take that for success
(line 311), and nothing in it guards against it.  It is FALSE in the
configurations and an assumption of the theorems.

### Comm

`comm_handshake` on both sides, with every edge of the clock and every look at
a wire a step.  `mbit` and `wbit` are the bits of the message the two loops
have come to; of what a side has received only the bits that are wrong are
kept, which is all that `comm_recv_msg` tells apart: wrong ones in the magic
number or in `payload_len` end it after the header, any others spoil the
checksum (CRC-32 detects the few bits that may be misread in 17 bytes).
`Message` is a constant; `CommMC` gives it the bytes of a SYNC.

| Code | Master | Worker |
|---|---|---|
| `comm_init` | `MasterInit` | `WorkerInit` |
| `comm_wait_ready`, `comm_signal_ready`, `comm_signal_busy` | `SeeReady`, `SeeBusy` | `SignalReady`, `SignalBusy` |
| sending: `comm_send_msg`, `comm_send_bytes`, `_send_byte` | `PutMosi`, `Rise`, `Fall`, `NextToSend` | `ComputeCrc`, `PutMiso`, `SeeClock`, `NextSent` |
| receiving: `comm_recv_msg`, `comm_recv_bytes`, `_recv_byte` | `Rise`, `MasterSample`, `Fall`, `NextToReceive` | `SeeClock`, `WorkerSample`, `NextReceived` |

The master's clock is open-loop.  `DelayOver` says what each of its delay loops
of a hundred turns is there for: a worker that only has to look at a wire, or to
set one, has done so by then.  Two places need more than that, and each is a constant:
`CrcInTime`, that the worker computes the checksum of its reply, after it has
raised READY, within the first of those delays; and `PrintIsSlow`, that the
`printk` between busy and ready takes longer than the master's next look at READY.  The
configuration and the theorems assume both.  With `CrcInTime` FALSE, TLC finds
`InStep` violated; with `PrintIsSlow` FALSE, it finds both sides waiting for ever.

### Fat32

The card (`vol`) holds a partition table, a volume id, the FAT, and in each
cluster its number or, if it belongs to a directory, its entries; `chain` says to which clusters each file
was written, and only the properties and the well-formedness look at it.
The two loops along a chain, in `get_cluster_chain_length` and in
`read_cluster_chain`, are taken a turn at a time with the locals of their
names; `data` is the buffer, by clusters, and `room` how many bytes of it kmalloc has given.
`heap_ptr` is kmalloc's: it is anywhere in `HeapStarts` when the reader is first used, since
what else is allocated before differs, and only grows.  Sizes and addresses are
modulo `SizeMod`, 2^32.  Where the code writes through a NULL or behind a buffer the model stops, in
`"null"` or `"overrun"`.

| Code | Actions |
|---|---|
| `mbr_read`, `mbr_check`, the assertion in `run.c` | `MbrRead` |
| `fat32_mk` with its checks, `fat32_get_root` | `Fat32Mk`, `GetRoot` |
| the demands | `DemandFails` |
| `get_dirents`, at the start of `fat32_readdir`, `_stat`, `_read` | `Call`, `CountCluster`, `Allocate`, `ReadCluster` |
| `find_dirent_with_name`, `fat32_stat`, `fat32_read` | `NotFound`, `StatFound`, `ReadFound` |
| the rest of `fat32_read` | `CountCluster`, `Allocate`, `ReadCluster`, `FileRead` |
| the rest of `fat32_readdir` | `ListDirents` |
| `pi_sd_read` | `ReadCluster`; `Panic` where the card has no such sector |
| `fat32_fat_entry_type` | `EntryType`; `Panic` at a reserved value |
| `kmalloc`, and what follows if nobody looks at its result | `Gives`, `AfterAlloc`; `WriteNull`, `Overrun` |

Both loops ask whether the *number* they stand on is an end mark, not whether
its entry is one.  So each takes one turn too many, in which the second reads
what is at the address the end mark gives.  The model keeps this: `UnitLba` is
modulo 2^32 as in the code, what it reads there is foreign to the volume (`past`), and
`EndsAreOutside` says why: with 16 sectors per cluster or more the address
wraps to the sectors just before the data area, which are the FAT's.

Assumed of a card (`WellFormed`): the chains end, no file's chain has a reserved value,
the upper four bits of the entries are clear, entry 0 of the FAT is an end mark (media byte 0xF8) or a
reserved value (0xF0), the length of a file fits its chain.  Of the client: it asks
for no volume label.  What lies behind the end of a directory may look like an entry but not like a
directory, nor have a name that is asked for; the FAT's sectors do not.
The names are those that `fat32_dirent_name` gives, an extension always with
three letters: a subdirectory `SUB` is found under `"SUB.   "`.  A `..` that stands for the root has
cluster 0, which the code does not know; the properties exclude it
(`InDirectory`).  The card is addressed by sectors, as those of high capacity are.

## 3. What the runs check

| Run | Bounds | Shows |
|---|---|---|
| `MatmulMC.cfg` | 3 cores, numbers modulo 2; as client either any calls of one function, with two arguments on one worker and one on the other, or the program with 1, 4 and 5 rows in any order | `SlotHeld`: a worker's slots stay what it read until it acknowledges. `NoLostWakeup`: who sleeps on a true condition has an event or is about to get one. `WaitAllQuiesces`: after `multicore_wait_all` no worker has a task. `ImplementsTaskDispatch`: refinement. `CommandAcknowledged`: even when core 0 never waits. `MatmulComplete`: every row once per call, from its operands. `ArgsNotOverwritten`, `VfpBeforeRows`, `MatmulReturns` |
| `MulticoreCache.cfg` | 1 worker, numbers modulo 3, no eviction of `cmd_seq` in the window described below | `CallRunsFunction`, `CheckDoneSound`: what is reported finished has run. `NoStaleLine` once all are cached. `WaitReturns` |
| `Install.cfg` (module `InstallMC`) | 2 ttys, a change of /dev before and one after the boot; 2 code bytes, texts of 3 bytes, 2 faults, a late request, a reboot; a FIFO of 2 | `DoneMeansRunning`: when the host reports, the Pi has stored the program it sent, and without faults at the address it sent. `NoCharLost`: until after the reboot. `JumpReported`: a started program is reported. `InstallSettles`: without faults the boot succeeds from any offset into the stream, or both sides refuse. `HostExits`: once the program has |
| `BootLate.cfg` (module `Boot`) | no faults, 1 late request | finding 1 |
| `Emmc.cfg` | 3 attempts, 3 tries, reads of 0 to 3 sectors where 2 are allowed, 3 faults | `ReadIsWhole`, `InitMeansReady`, `FaultlessInit`, `ReadEnds` |
| `EmmcRetry.cfg` (module `Emmc`) | 3 attempts, one fault | finding 2 |
| `Comm.cfg` (module `CommMC`) | the real 17 bytes each way, one misread bit | `InStep`, `Faithful`, `DoneMeansAgreed`, `BothComplete`, `DoneTogether` |
| `Fat32.cfg` (module `Fat32MC`) | 33 clusters of data of four bytes and two entries each; chains of up to three clusters in seven placements, and files of 20, 28 and 31 clusters; either media byte; clusters of 8 and 16 sectors; a heap of 36 bytes, of 2 or of none; sizes modulo 128 | `WithinBuffer`: no cluster is stored behind a buffer unless its size or its end wraps. `FileIsWhole`, `LookupExact`, `ListingComplete`: of a call that returns. `CallReturns`: each does while there is heap, on a card that has what the end marks give |
| `Fat32Small.cfg` (module `Fat32MC`) | clusters of 8 sectors | finding 3 |
| `Llama.cfg` (module `LlamaMC`) | twelve tokens; transformers of one and two layers, with shared and own key heads and classifiers; files too small, absent, too large for the heap; a tokenizer cut short; seven prompts, three settings, three distributions and four coins, drawn anew at every step; three words of profiled code | `LogitsExact`: the logits are those of the transformer for the tokens so far. `EncodeSpells`: what `encode` reads is spelled by its tokens, also when it is no UTF-8. `EchoesPrompt`: what is printed of a prompt is its pieces, or nothing if the prompt has collapsed. `SampleSound`: the token is possible and within top-p, whatever was cut off. `XlateIdentity`: every core reaches all memory in use. `BlocksSafe`, `UsesHeapAsProved`. `DumpIsTop`: the profile is the greatest of the counts read |
| `EncodeMerge.cfg` (module `LlamaMC`) | the same | finding 4 |
| `GprofSelf.cfg` (module `LlamaMC`) | the smallest quantized model | finding 5 |

Why the bounds are enough.  Workers never read each other's words: they affect
one another only through core 0 and through the events, so two of them show
every interaction of a worker with core 0 and with another worker; a stale argument shows on one of them.  A number
and its successor are all that two words of a worker can differ by (`IInv` is proved for any
width), so modulo 2 keeps apart what occurs and makes each second command wrap;
`MulticoreCache`, where a stale copy may be one behind, has modulo 3.  One row leaves two of the three cores without work,
four rows give the last core an empty share, five rows a short one; the records
of a call are always overwritten by a call with other shares.  The lines in `MulticoreCache` belong to one worker
each, so one worker is enough.  Texts of three bytes put the start of the
host's reading at every offset from a word.  `MaxAhead` keeps the Pi from
filling the stream while nobody reads.  In `Emmc` three faults are enough to fail every try
of a read or every attempt of the bring-up, and fewer let a retry succeed after
each kind of failure; two blocks make a transfer that is cut in the middle; two sectors to begin at
tell a sector from the one before it and from a byte address; ten attempts would only repeat
the third.  In `Fat32MC` chains of one to three clusters, in
order and out of order, have a first cluster, a link and an end mark; the last cluster of a file has one byte or all; the directories have the name
in the first cluster, in the second and behind deleted entries.  A file of 20 clusters is larger than the heap, the end of the
buffer of one of 28 wraps, and its size does with 31; with the heap at 12 a few calls succeed before it is used up, at 46 and 48 it is used up in the
middle of `mbr_read` or `fat32_mk`.  In `LlamaMC` sections are 1 kB and the heap has three of them, so that
blocks lie in every section, the largest model does not fit, and the stack's
section is the heap's last; two layers, two heads with one key head
and four positions make every factor of an offset differ from 1 somewhere.
The prompts have letters in and out of the vocabulary, with and without one that can be merged at the end, a character of two bytes
and seven bytes that are none.  `EntryMod = 128` and
`AddrMod = 2048` keep the proportion of 2^28 to 2^32, on which it depends at which size of a
cluster the address of an end mark wraps.  Each bound of an action is a constant
named in its guard: `SeqMod`, `MaxFaults`, `MaxLate`, `MaxReboots`, `MaxAhead`, `MaxBusy`, `MaxChanges`, `MaxSamples`.

Fairness.  Each core executes its instructions, and worker functions return:
weak fairness of `HostStep` and of each `WorkerStep(w)`, for every core has its
own processor and no other code runs on it.  The client need not call anything
(`Multicore`); in `Matmul`, where the program is known, all of core 0 is fair.
In `Boot` both programs run and the host's `read` times out after ten seconds,
as the termios settings make it; `Fault`, late requests, evictions and fills
are never fair.
In `Install` likewise every program runs and the UART transmits; the user's commands, the
ttys and the line are free.  `Llama` has no fairness: that it goes on to the reboot is
that no other state of it is without a successor.
In `Comm` each Pi runs its program; that a bit is misread is never forced.
In `Emmc` the driver's steps are fair, since every wait in it has a timeout;
that a block is lost (`LoseBlock`) is not, and the client need not read.
In `Fat32` a call that has begun goes on, since nothing interrupts it.

Every property was also checked against a changed definition of the kind a slip
in the code would give (the operators marked `Slip` in the modules); each run
finds its property violated under that change.

## 4. What is proved

For every value of the constants that satisfies `MulticoreConstants`,
`MatmulConstants`, `CacheConstants`, `BootConstants`, `InstallConstants`, `EmmcConstants`,
`CommConstants`, `Fat32Constants`, `HeapFits`, `HeapConstants`, `VmConstants`, `GprofConstants`,
`LlamaConstants`, `SamplerConstants`, `TokenizerConstants` or `ModelConstants` (type correctness is proved and not
checked again by the runs):

* `MatmulProofs`, about the dispatcher: `TypeCorrect`, `SlotsAreHeld`, `WakeupsAreKept`,
  `WaitAllIsABarrier`, and `DispatcherImplements`, that `Spec` implies
  `TaskDispatch`'s.  The inductive invariant `IInv` joins `TypeOK`, `SlotHeld`
  and `NoLostWakeup` with what they need: that `cmd_seq` is `cmd_done` or its
  successor, that the stores of a call on `w` happen only while `w` has no
  command, and what a waiting core 0 expects.  `SlotHeld` alone is not
  inductive: nothing in it says that a worker that is *not* engaged has seen
  everything that was issued, which is what the busy test relies on.
* `MatmulProofs`, about its client: `MatmulUsesDispatcher`, every behaviour of the program is one of the
  dispatcher under an arbitrary client, so all of the above carries over;
  `SharesAreDisjoint` and `SharesCoverTheRows` about the division of the rows;
  `MatmulTypeCorrect`, `VfpIsEnabled`, `ArgsAreKept`; and `RowsAreComputed`,
  that `MatmulComplete` holds for any number of cores and rows.  Its invariant
  `RowsInv` says how often each row has been computed from where the core is
  whose share it belongs to (`ComputedInv`), which needs that a core in the loop is inside its
  share (`LoopInv`), that the ignored statuses of the dispatch are all OK
  because no worker has a command when `matmul` begins (`DispatchInv`,
  `PhaseInv`), and that a worker is online and has floating point from the bring-up
  on (`VfpInv`).
* `MulticoreCacheProofs`: for any number of workers and any width of the numbers, assuming
  `EvictsInWindow = FALSE`: `CacheInvariant`, and from it `CachesSettle` (`NoStaleLine`),
  `CheckDoneIsSound` (`CheckDoneSound`) and `WaitMeansRan` (`CallRunsFunction`).  The properties speak
  of what has run; the invariant of where the words are: what the owner of a
  line last wrote is in the cache if dirty and otherwise in memory (`Coherence`); a copy of `cmd_done`
  in core 0's cache is current, or one behind while nothing is pending (`DoneCopy`); and
  memory has the function if it has the number (`CommandInMemory`), which is where the window is
  excluded.  Most actions only move lines (`Moves`), and one lemma says what that keeps.
* `BootProofs`: `SuccessIsTrue`, `DoneMeansRunning` for any number of faults,
  late requests and reboots and any length of the texts, for programs of up to four bytes.
  The invariant says that the byte that opens `BOOT_SUCCESS` is in no stream before the Pi has
  verified the program, so that no misaligned reading can take other bytes for it.  That a
  text or the program contains no such byte is an assumption of the model
  (`Bytes` and `Text`).  Of the address nothing of the kind holds, since no checksum covers it (section 5); what
`DoneMeansRunning` says of it, on a line without faults, is `AddressIsKept`: what is under way to the
Pi is then the header from its start, or its rest if the Pi has begun to read it (`AddrInv`).  `TypeCorrect` adds how much of the program is stored in each
  step.  `InstallImplementsBoot`: a run of `Install` is, seen from the
  two boot programs, one of `Boot`, since what surrounds them leaves their variables alone;
  so `InstallSuccessIsTrue` carries over.  `OutputIsKept`: `NoCharLost` for outputs of any length and
  a FIFO of any size; its invariant says where on the way each character is, and that the
  reboot comes only after the FIFO and the shift register are empty.
* `MemoryProofs`, about the heap: `BlocksAreSafe` for every word size, heap, alignment and sequence of
  requests within `HeapConstants`, from `HeapInvHolds`, which adds how far a failed
  `kmalloc_aligned` may have moved the pointer.  About its use: `UsesHeap`
  (`UsesHeapAsProved`), that every allocation of the two programs is one of those, and
  so `RunBlocksAreSafe`.  `LlamaConstants` says of the files, the prompts and the
  settings only that what they ask for (`Requests`) is below `MaxAsk`; the invariant (`UseInv`) keeps
  what has been read from them, up to the allocation it is for.
* `MemoryProofs`, about the page table: `CoresTranslateAlike` (`XlateIdentity`, and `EveryByteReached`,
  the same of every byte of every block and not only its ends), for any size of sections, any heap, any number of
  cores and any memory map in which the workers' stacks are in the section of the
  code and the peripherals are above everything else.  The invariant (`VmInv`)
  says how many of `Mappings` the table holds while it is being filled (`Filled`), that from then on it
  covers all that can be in use (`Covered`), what the registers of the core at hand hold at each place (`VmPlace`),
  and that a core whose MMU is on has the finished table and nothing else in its TLB (`Enabled`).  A section that is
  mapped twice, a stack's that is also the heap's, gets the same entry both times, which the code's comment
  calls harmless.
* `LlamaProofs`: `DumpPrintsTheTop` (`DumpIsTop`) for any size of the code and any number of candidates.
  The invariant of the scan (`ScanInv`) says that what is kept are the greatest of the counts as they were read,
  the one of the selection (`DescendingSorts`) that each turn puts the greatest of the rest in its
  place.  The counts may grow between two turns of the scan.
  `SampleIsSound` (`SampleSound`) for any vocabulary, distributions, coins, temperatures and `topp`, as long as
  `topp` is at least 1 / n: below that no token need reach the cut-off, and `sample_topp` would read
  `probindex[-1]` (`SamplerConstants`; the programs use 0.9).  `qsort` sorts
  (`QsortSorts`): its recursion is well-founded because both parts are shorter than the whole, and
  each pass keeps what is below the boundary below the pivot (`PartlySorted`).  The most probable token always
  reaches the cut-off (`CutoffReached`), so there is a candidate; every token heavier than the one
  drawn is a candidate that stands before it, and what stands before it sums to less than `topp` (`ToppSound`).
  `EncodeSpellsThePrompt` (`EncodeSpells`) and `PromptIsEchoed` (`EchoesPrompt`) for any prompt and any
  vocabulary, with duplicates or not, that has a space, the names of the prompt's bytes at token 3 and on, and a BOS
  that is not spelled like a codepoint of the prompt (`TokenizerConstants`).  `VocabInv` follows the
  vocabulary from the file to the sorted table (`OrderedTable`, by `QsortSorts`); a string that the binary search
  finds is then the string of the token found (`FoundToken`), because the turns keep what is equal to
  it between their bounds.  `EncodeInv` says that the text's tokens stand for text (`TextToken`) and spell, with the
  codepoint begun, what was read; a byte's step appends tokens that spell the codepoint
  (`NewTokensSpell`), and concatenation is flattened piece by piece (`FlattenConcat`).  `EchoInv` carries it
  over to what is printed: every token but the space is printed as it is spelled, if it can be (`PrintsSpelling`).
The prompts whose last codepoint is a token are no exception to the theorem but its other half:
`CollapseInv` says that each merge leaves that token in the list, which goes on until it is
alone (`MergedToOne`).
  `LogitsAreExact` (`LogitsExact`) for any number of layers, heads and key heads, any sizes, group size,
  tokens and steps, with a shared or an own classifier, as long as an accepted checkpoint is
  whole and of a model's shape and `STEPS` is a number (`ModelConstants`): the heads share the dimension evenly, the
  query heads the key heads.
  The file is a list of tensors, so that where one starts is a sum of the sizes before it
  (`StartOf`); a tensor that is put in the list stays at its place (`Keeps`), and two of the same size
  are told apart by where they start (`StartsDiffer`).  Hence every tensor is at the offset that
  `memory_map_weights` adds up (`FileLayout`, `LayoutQ`), and forward's slices are the layer's tensors by
  name (`LayerTensors`, `LayerTensorsQ`).  A row of a cache is disjoint from every other
  (`HeadPlace`, `StoredRow`), and a query head finds the key head of its group (`GroupIs`); so a
  layer of the code is a layer of the reference if the rows of the positions before it are
  held (`LayerIs`).  What a position computes does not depend on what follows it (`LayersAlike`): this
  is why a row, once written, stays right as tokens are fed (`FedOn`).  `LogitsExact` alone says nothing
  of the caches, so the invariant does: `ModelInv`, that the weights, the caches and the number of
  steps are those of the checkpoint; `RangeInv`, that what `encode` and `sample` give are ids of the vocabulary;
  and `ForwardInv`, that the caches hold the rows of all positions before, of this one up to the
  layer at hand, and that `x` is the activation there.
* `EmmcProofs`: `TypeCorrect`, `ReadsAreWhole` and `InitIsReady`, for any
  numbers of attempts, tries, sectors and faults, a card of either kind, and a controller that does not
  report a transfer it has cut short as complete.  The invariant follows the
  driver's picture of the card along the bring-up (`PictureInv`), and through a transfer says that the blocks
  stored so far are the first ones asked for (`TransferInv`); a failed try
  leaves the picture intact but not the card's state, so that a retry can only fail
  or read from the same sector again.
* `CommProofs`: `TypeCorrect`, `ClockInStep`, `BitsArrive` and
  `CompletionIsAgreed`, for a message of any length and content and any number
  of misread bits, assuming `CrcInTime` and `PrintIsSlow`.  The invariant
  `Together` says for each place of the master where the worker can be and at
  which bit; `InStep` is what is left of it while the clock is high.
* `Fat32Proofs`: `TypeCorrect`, `BufferIsLargeEnough`, `FilesAreWhole`,
  `LookupIsExact` and `ListingIsComplete`, for every set of well-formed volumes, of any
  size, any heap and any calls.  The last three speak of a call that returns, since none does that finds the heap
used up.  The invariant `WalkInv` says of the first walk that after n
  turns it stands on the next cluster of the chain or, after the last, on the end mark
  (`Stands`), so that it counts one cluster more than the chain has; of the second, besides, that
  the buffer holds the chain so far (`Holds`), and at the end one foreign cluster.  `RoomInv` ties
the buffer's size to that count: it is the product modulo 2^32, so that a walk runs over it only if that
wrapped.
  The lemmas about the entries of a buffer (`DirentFacts`, `DirentsRead`)
  carry this over to what is found in it.

Only model-checked: everything under fairness (`WaitReturns`,
`CommandAcknowledged`, `MatmulReturns`, `JumpReported`, `InstallSettles`, `HostExits`,
`FaultlessInit`, `ReadEnds`, `BothComplete`, `DoneTogether`, `CallReturns`), which
is out of the prover's reach.  Every invariant that a passing run checks is proved.

## 5. Findings

1. `libunix/put-code.c:245`.  A `GET_PROG_INFO` that crosses the host's answer
   is drained together with one byte too many; the host then reads misaligned
   and panics although nothing was lost.  `BootLate.cfg` shows it.  The comment at line
   242 says that extra requests are drained.

2. `emmc.c:784`.  `device.rca` is cleared when `emmc_init` begins but not when
   `emmc_card_reset` resets the card.  Once an attempt has got past `check_rca` and then fails,
   each further one sends APP_CMD with the old address, the card, whose
   address is 0 again, does not answer, and `pi_sd_init` panics after one
   fault.  `EmmcRetry.cfg` shows it; line 796 says "trying again...".  The same trace
   passes `check_ocr`, whose loop of five tries returns after the first failure (line 477).

3. `fat32.c:152`, and 125.  Both walks of a chain go on until the cluster
   *number* is an end mark, so the second one reads a cluster at the end mark's
   address.  With fewer than 16 sectors per cluster the card has no such sector and
   `pi_sd_read` panics on any directory.  `Fat32Small.cfg` shows it;
   `fat32-helpers.h:26` lists 1, 2, 4 and 8 among the sizes allowed, and
   `fat32_volume_id_check` accepts them.

4. `run.c:683`.  The `sprintf` that would put a pair's string into
   `str_buffer` is commented out at line 681 (and in `runq.c`), so that `encode` looks
   up every pair by what its last codepoint left there.  A prompt whose last codepoint
   is a token of the vocabulary loses its tokens one by one.  `EncodeMerge.cfg` shows it; line 686
   says "this merge pair exists in vocab!".

5. `gprof.c:83`.  Interrupts stay on while `gprof_dump` reads the histogram (`runq.c:1093`, 1098-1100), so the profile
   has samples of the dump.  `GprofSelf.cfg` shows it; line 64 says "make sure gprof does not sample this
   code!".  `DumpIsTop` is therefore stated of the counts as the dump read them.

What follows is in the models, too, and is why some properties say less than one would like.  No run is kept for it;
each shows as soon as the formula given is checked as an invariant.

* `put-code.c:238`.  `simple_boot` sends ARMBASE and ignores its parameter `boot_addr`, which
  `pi3-install` sets from `--addr`, although line 198 says that it is sent (`SendInfo`).
* `get-code.h:261`.  The checksum covers the bytes stored at `addr` but not `addr` (line 215), which is
  not sent back either.  A byte of it that is damaged on the line makes the Pi store, verify and start the
  program elsewhere and report success: `host_pc = "done" => addr = "armbase"`, with `Install.cfg`'s constants.
* `fat32.c:294`, and 186, 201, 268, 300, `pi-sd.c:51`.  kmalloc returns NULL when the heap is used up
  (`kmalloc.c:29`); nothing is ever freed, nobody looks, and the next sector is read to address 0: `pc # "null"`, with
  `Fat32.cfg`.
* `fat32.c:293`, and 184.  The buffer's size is a product in 32 bits, and kmalloc adds it to the heap pointer in 32 bits
  (`kmalloc.c:28`).  For a file of nearly 4 GB, counted with a cluster too many, either wraps: the buffer is empty,
  or clearing it runs over all memory: `pc # "overrun"`, with `Fat32.cfg`.
* `fat32.c:297`.  Reading an empty file walks from cluster 0 to entry 0 of the FAT.  With the media byte 0xF0,
  which `fat32-helpers.h:57` lists, that entry is a reserved value and `fat32_fat_entry_type` panics
  (`fat32-helpers.c:119`): `NeverPanics`, with `Fat32.cfg` and `ClusterSizes = {16}`.
* `fat32.c:208`.  The buffer of a directory has the extra cluster of finding 3 at its end, with 16 sectors the last ones of the
  FAT, and `fat32_readdir` lists what looks like an entry in it: `ListingComplete` without `vol.past`.

An assumption that is no finding: `multicore_call_async` increments `cmd_seq`
(`multicore.c:118`) before it cleans `cmd_funcs` and `cmd_args` (lines 122-123).
Were the dirty line of `cmd_seq` evicted in between, a worker whose MMU is off would see the new
number with the old function, run that or nothing and acknowledge.  With
`EvictsInWindow = TRUE`, TLC finds `CallRunsFunction` violated.  It could only happen
between `setup_vm` and the last `worker_enable_mmu`, three calls per start.

## 6. What is not modelled, and why

* Rounding: the floating-point arithmetic of `forward`, `softmax`, `rmsnorm`, `quantize` and the
  samplers is symbolic or exact.  `quantize` divides 0 by 0 for a group of
  zeroes; terms do not tell such a group from others.  `sample_topp` with `topp` below 1 / n
  could be left without a candidate; the program's is 0.9.
* `runq.c` is modelled from its source, although no Makefile in the repository builds it and its
  `gprof.h` is missing.
* The workers' stacks during `worker_enable_mmu`, whose frame is pushed past the cache and popped through
  it: listed as a hazard without a property.  That the heap's blocks stay clear of the
  stacks' bytes: `kmalloc` compares with the heap's end only, which is chosen
  above `STACK_ADDR`.
* The address test of `get_code` (`get-code.h:236`) is one outcome of two; that its sum may
  wrap modulo 2^32 is not modelled, nor what a program does that was started at a damaged address.
* What a write to address 0 or behind a buffer destroys: the FAT32 reader's model stops there.  Its heap is
  kmalloc's alone; what else the programs allocate is in where it starts.
* Hazards without a property, each with its reason in `PROJECT.json`: a core that discards dirty lines at DCIMVAC, the host that waits
  for ever after a refusal in step 5, the search for a tty that fails.
* `printk`'s formats, mathematics and memory functions, messages, the printing of page tables,
  sectors, entries and long names; the termios settings of the tty.
* `bzt-sd.c`, a third-party alternative driver; `platform.h` and its like, tables of registers.
* `emmc_write` and `pi_sd_write`, which nothing in the build calls; the version number
  that `set_scr` decodes and nothing uses.
* Messages with a payload on the Pi-to-Pi link, which nothing in the repository
  sends or receives, and the reading of the role pin.
* The functions of `fat32.c` that write, which are `unimplemented()` in the
  source or unreachable because of one that is.
* `main.c` and `multicore-demo.c`: their calls are among those that `Multicore`'s `Client` makes.

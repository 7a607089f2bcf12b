--------------------------------- MODULE Vm ---------------------------------
(***************************************************************************)
(* The page table and the MMU of libpi/vm: 1 MB sections, one first-level  *)
(* table for all cores, and each core's coprocessor registers.  Every      *)
(* operation takes the core it runs on; its assertions are the predicate   *)
(* of the same name that ends in Ok, because what a failed assertion does  *)
(* (panic and reboot) is the program's.  The data caches are the subject   *)
(* of MulticoreCache.                                                      *)
(***************************************************************************)
EXTENDS Integers

CONSTANTS
  Cpus,
  OneMB,
  PtLevel1N     \* sections in the address space, entries in the table

ASSUME VmConstants ==
  /\ OneMB \in Nat \ {0}
  /\ PtLevel1N \in Nat \ {0}

VARIABLES
  pt,      \* the table: the address kmalloc_aligned gave it and its entries
  cp15,    \* cp15[c]: the control, domain, context and table base registers of core c; the domain
           \* register by its sixteen fields of two bits
  stale    \* stale[c]: core c's TLB may hold something that is not in the table

vm_vars == <<pt, cp15, stale>>

Sections == 0 .. PtLevel1N - 1

\* mem-attr.h: the TEX, C and B bits, access permissions, domain access.
TEX_C_B(tex, c, b) == tex * 4 + c * 2 + b
MEM_device == TEX_C_B(0, 0, 0)
MEM_wb_alloc == TEX_C_B(1, 1, 1)
perm_rw_priv == 1
DOM_client == 1
DOM_manager == 3
Domains == 0 .. 15
PAGE_1MB == 3

\* pinned-vm.h: the attributes of a mapping, and the calls' demands on them.
pin_mk(G, dom, asid, perm, mem_attr) ==
  [G |-> G, dom |-> dom, asid |-> asid, AP_perm |-> perm, mem_attr |-> mem_attr,
   pagesize |-> PAGE_1MB]
pin_mk_global(dom, perm, mem_attr) == pin_mk(1, dom, 0, perm, mem_attr)
pin_mk_device(dom) == pin_mk(1, dom, 0, perm_rw_priv, MEM_device)
PinOk(pin) ==
  /\ pin.dom <= 16
  /\ IF pin.G = 1 THEN pin.asid = 0 ELSE pin.asid \in 1 .. 63

Unmapped == [tag |-> 0]

\* The section descriptor; its bit fields are 2, 1, 3, 4 and 1 bits wide.
Section(pa, pin) ==
  [tag |-> 1, sec_base_addr |-> pa \div OneMB,
   AP |-> pin.AP_perm % 4, AP2 |-> (pin.AP_perm \div 4) % 2,
   TEX |-> (pin.mem_attr \div 4) % 8, C |-> (pin.mem_attr \div 2) % 2, B |-> pin.mem_attr % 2,
   domain |-> pin.dom % 16, S |-> 1, nG |-> 1 - pin.G]

VmInit ==
  /\ pt = [addr |-> 0, entry |-> [s \in Sections |-> Unmapped]]
  /\ cp15 = [c \in Cpus |-> [M |-> FALSE, C |-> FALSE, XP |-> FALSE, domain |-> [d \in Domains |-> 0],
                             ttbr0 |-> 0, asid |-> 0, procid |-> 0]]
  /\ stale = [c \in Cpus |-> TRUE]

-----------------------------------------------------------------------------
\* The TLB of core c is invalidated; so are its instruction cache and branch predictor.
InvalidateTlb(c) == stale' = [stale EXCEPT ![c] = FALSE]

\* vm_pt_alloc, with what kmalloc_aligned returned: a table of zeroes.  Address 0 is aligned
\* too, so that a failed allocation is not noticed before vm_mmu_switch.
VmPtAllocOk(addr) == addr % (4 * PtLevel1N) = 0
vm_pt_alloc(addr) ==
  /\ pt' = [addr |-> addr, entry |-> [s \in Sections |-> Unmapped]]
  /\ UNCHANGED <<cp15, stale>>

VmMapSecOk(va, pa, pin) ==
  /\ PinOk(pin) /\ pin.pagesize = PAGE_1MB
  /\ va % OneMB = 0 /\ pa % OneMB = 0
  /\ va \div OneMB < PtLevel1N

\* The other cores' TLBs are not told: one with its MMU on may still hold the old entry.
vm_map_sec(c, va, pa, pin) ==
  /\ pt' = [pt EXCEPT !.entry[va \div OneMB] = Section(pa, pin)]
  /\ stale' = [d \in Cpus |-> d # c /\ (stale[d] \/ cp15[d].M)]
  /\ UNCHANGED cp15

\* mmu_reset, then the version and domain registers.
VmMmuInitOk(c) == ~cp15[c].M
vm_mmu_init(c, domain_reg) ==
  /\ InvalidateTlb(c)
  /\ cp15' = [cp15 EXCEPT ![c].XP = TRUE, ![c].domain = domain_reg]
  /\ UNCHANGED pt

VmMmuSwitchOk(asid) == pt.addr # 0 /\ asid \in 1 .. 63
vm_mmu_switch(c, pid, asid) ==
  /\ cp15' = [cp15 EXCEPT ![c].ttbr0 = pt.addr, ![c].asid = asid, ![c].procid = pid]
  /\ UNCHANGED <<pt, stale>>

mmu_sync_pte_mods(c) ==
  /\ InvalidateTlb(c)
  /\ UNCHANGED <<pt, cp15>>

VmMmuEnableOk(c) == ~cp15[c].M
vm_mmu_enable(c) ==
  /\ InvalidateTlb(c)
  /\ cp15' = [cp15 EXCEPT ![c].M = TRUE]
  /\ UNCHANGED pt

\* Data cache, instruction cache and branch prediction.
cp15_ctrl_reg1_wr(c) ==
  /\ cp15' = [cp15 EXCEPT ![c].C = TRUE]
  /\ UNCHANGED <<pt, stale>>

-----------------------------------------------------------------------------
vm_lookup(va) == LET e == pt.entry[va \div OneMB] IN IF e.tag = 1 THEN e ELSE Unmapped

vm_xlate(va) == vm_lookup(va).sec_base_addr * OneMB + (va % OneMB)

\* What the hardware lets a privileged access of core c to va do: its domain must be a client's
\* (or manager's), the permission bits read and write.
Access(c, va) ==
  LET e == vm_lookup(va)
  IN  /\ ~stale[c] /\ cp15[c].ttbr0 = pt.addr
      /\ e.tag = 1
      /\ \/ cp15[c].domain[e.domain] = DOM_client /\ e.AP \in {1, 2, 3} /\ e.AP2 = 0
         \/ cp15[c].domain[e.domain] = DOM_manager

Cacheable(va) == LET e == vm_lookup(va) IN e.C = 1 /\ e.B = 1 /\ e.TEX = 1
StronglyOrdered(va) == LET e == vm_lookup(va) IN e.C = 0 /\ e.B = 0 /\ e.TEX = 0

=============================================================================

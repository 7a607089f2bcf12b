-------------------------------- MODULE Gprof --------------------------------
(***************************************************************************)
(* The sampling profiler of libpi/src/gprof.c: the timer interrupts the    *)
(* program between any two of its steps and counts where it was.  The code *)
(* is the words 0 .. CodeWords - 1.  gprof_dump reads the histogram while  *)
(* the interrupts go on.                                                   *)
(***************************************************************************)
EXTENDS Integers, Sequences, SequencesExt

CONSTANTS
  CodeWords,      \* the instructions between __code_start__ and __code_end__
  MaxCandidates,  \* what gprof_dump prints at most
  MaxSamples      \* bound: no more interrupts than this

ASSUME GprofConstants == CodeWords \in Nat /\ MaxCandidates \in Nat \ {0}

VARIABLES
  irq,      \* whether the table of handlers is at address 0, the timer's interrupt is on, and
            \* the processor takes interrupts
  hist,     \* samples by word; empty before gprof_init
  dump,     \* gprof_dump's locals: the words it has passed, its candidates, and for the
            \* properties what it read of each word
  printed   \* what gprof_dump printed

gprof_vars == <<irq, hist, dump, printed>>

Words == 0 .. CodeWords - 1

GprofInit ==
  /\ irq = [table |-> FALSE, timer |-> FALSE, on |-> FALSE]
  /\ hist = <<>>
  /\ dump = [scanned |-> 0, top |-> <<>>, read |-> <<>>]
  /\ printed = <<>>

\* Every source is off before the handlers are in place.
interrupt_init ==
  /\ irq' = [table |-> TRUE, timer |-> FALSE, on |-> FALSE]
  /\ UNCHANGED <<hist, dump, printed>>

timer_init == irq' = [irq EXCEPT !.timer = TRUE] /\ UNCHANGED <<hist, dump, printed>>

enable_interrupts == irq' = [irq EXCEPT !.on = TRUE] /\ UNCHANGED <<hist, dump, printed>>

gprof_init == hist' = [w \in Words |-> 0] /\ UNCHANGED <<irq, dump, printed>>

\* The processor goes to the handler in the table, and the handler to gprof_inc's table.
Interrupting == irq.timer /\ irq.on
Handled == irq.table /\ hist # <<>>

gprof_inc(w) == hist' = [hist EXCEPT ![w] = @ + 1]

\* The handler counts where the program was; of the sources of interrupts only the timer is on.
interrupt_vector ==
  /\ FoldFunction(+, 0, hist) < MaxSamples
  /\ \E w \in Words : gprof_inc(w)
  /\ UNCHANGED <<irq, dump, printed>>

\* The first of the least.
Least(top) ==
  CHOOSE i \in DOMAIN top : \A j \in DOMAIN top : top[i].cnt < top[j].cnt \/ (top[i].cnt = top[j].cnt /\ i <= j)

\* One word: a count of 0 is no candidate, and a full table's least gives way to a greater count.
DumpScan ==
  LET cnt == hist[dump.scanned]
      new == [pc |-> dump.scanned, cnt |-> cnt]
      top == dump.top
  IN  /\ dump.scanned < CodeWords
      /\ dump' = [scanned |-> dump.scanned + 1,
                  top |-> CASE cnt = 0 -> top
                            [] cnt # 0 /\ Len(top) < MaxCandidates -> Append(top, new)
                            [] OTHER -> IF cnt > top[Least(top)].cnt
                                        THEN [top EXCEPT ![Least(top)] = new] ELSE top,
                  read |-> Append(dump.read, cnt)]
      /\ UNCHANGED <<irq, hist, printed>>

\* From place i on, the first of the greatest.
Greatest(s, i) ==
  CHOOSE m \in i .. Len(s) :
    \A j \in i .. Len(s) : s[m].cnt > s[j].cnt \/ (s[m].cnt = s[j].cnt /\ m <= j)

\* Slip: the entry that makes room for the greatest is not kept.
SelectedOverwritten(s, i) == [s EXCEPT ![i] = s[Greatest(s, i)]]

\* Place i changes places with the greatest from there on.
Selected(s, i) == [s EXCEPT ![i] = s[Greatest(s, i)], ![Greatest(s, i)] = s[i]]

\* The candidates from the greatest count down: selection, the first of equals first.
Descending(top) ==
  LET selection[n \in 0 .. Len(top)] ==
        IF n = 0 THEN top ELSE Selected(selection[n - 1], n)
  IN  selection[Len(top)]

DumpPrint ==
  /\ dump.scanned = CodeWords
  /\ printed' = Descending(dump.top)
  /\ UNCHANGED <<irq, hist, dump>>

\* "make sure gprof does not sample this code!" (gprof.c, before gprof_dump): no interrupt counts
\* while the dump is between the first word of the histogram and its last.  Nothing turns the
\* interrupts off.
DumpNotSampled == [][dump.scanned \in 1 .. CodeWords - 1 => UNCHANGED hist]_gprof_vars

\* What the dump prints is the greatest of the counts it read, each with the address it belongs to
\* and in descending order, though the interrupts change the histogram while it is read: a word
\* that is not printed had no samples, or the table was full of words that had as many.
DumpIsTop ==
  LET isPrinted(w) == \E k \in DOMAIN printed : printed[k].pc = w
  IN  /\ \A k \in DOMAIN printed : /\ printed[k].cnt = dump.read[printed[k].pc + 1]
                                   /\ printed[k].cnt \in 1 .. hist[printed[k].pc]
      /\ \A j, k \in DOMAIN printed : j < k => /\ printed[j].cnt >= printed[k].cnt
                                               /\ printed[j].pc # printed[k].pc
      /\ printed # <<>> =>
           \A w \in Words : isPrinted(w) \/ dump.read[w + 1] = 0
             \/ /\ Len(printed) = MaxCandidates
                /\ \A k \in DOMAIN printed : dump.read[w + 1] <= printed[k].cnt

=============================================================================

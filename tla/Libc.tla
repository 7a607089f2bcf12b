-------------------------------- MODULE Libc --------------------------------
(***************************************************************************)
(* The library routines of libpi/libc that the inference program sorts and *)
(* searches with.  A string is the sequence of its characters' codes       *)
(* without the terminating 0, an array a sequence from 1.                  *)
(***************************************************************************)
EXTENDS Integers, Sequences, SequencesExt, Functions

\* The difference of the first characters in which a and b differ; 0 if they do not.
strcmp(a, b) ==
  LET at(s, k) == IF k <= Len(s) THEN s[k] ELSE 0
      same == Len(LongestCommonPrefix({a, b}))
  IN  at(a, same + 1) - at(b, same + 1)

\* The place of an element that compares equal to key, or 0; compar[e] is key against e, and
\* turn[p] what is left of the array after p turns of the loop.
bsearch(base, compar) ==
  LET mid(r) == r.lo + (r.hi - r.lo) \div 2
      turn[p \in 0 .. Len(base)] ==
        IF p = 0 THEN [lo |-> 1, hi |-> Len(base)]
        ELSE LET r == turn[p - 1]
                 cmp == compar[base[mid(r)]]
             IN  IF r.lo > r.hi \/ cmp = 0 THEN r
                 ELSE IF cmp < 0 THEN [r EXCEPT !.hi = mid(r) - 1]
                 ELSE [r EXCEPT !.lo = mid(r) + 1]
      last == turn[Len(base)]
  IN  IF last.lo > last.hi THEN 0 ELSE mid(last)

Swapped(s, i, j) == [s EXCEPT ![i] = s[j], ![j] = s[i]]

\* Around the middle element, moved to the end: what comes before it is gathered at the front, in
\* the places below store.  before[a][b] says that a compares less than b; pass[p] is the array
\* after p turns of the loop.
Partition(base, before) ==
  LET n == Len(base)
      pass[p \in 0 .. n - 1] ==
        IF p = 0 THEN [s |-> Swapped(base, n \div 2 + 1, n), store |-> 1]
        ELSE LET q == pass[p - 1]
             IN  IF before[q.s[p]][q.s[n]]
                 THEN [s |-> Swapped(q.s, q.store, p), store |-> q.store + 1]
                 ELSE q
      last == pass[n - 1]
  IN  [s |-> Swapped(last.s, last.store, n), store |-> last.store]

\* Not stable: which of two equal elements comes first is decided by the exchanges.
qsort(base, before) ==
  LET Arrays == {s \in Seq(Range(base)) : Len(s) <= Len(base)}
      impl[s \in Arrays] ==
        IF Len(s) <= 1 THEN s
        ELSE LET part == Partition(s, before)
             IN  impl[SubSeq(part.s, 1, part.store - 1)] \o <<part.s[part.store]>>
                   \o impl[SubSeq(part.s, part.store + 1, Len(s))]
  IN  impl[SubSeq(base, 1, Len(base))]

=============================================================================

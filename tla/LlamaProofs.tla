----------------------------- MODULE LlamaProofs -----------------------------
(***************************************************************************)
(* Proofs about what the inference program computes, for all its inputs.   *)
(***************************************************************************)
EXTENDS MemoryProofs, FiniteSetTheorems

\* Induction, with the set of the numbers of which the formula holds.  (A first number that is not
\* in it would make a finite set with one more member than itself.)
LEMMA SetInduction ==
  ASSUME NEW S, 0 \in S, \A n \in Nat : n \in S => n + 1 \in S
  PROVE  \A n \in Nat : n \in S
PROOF
<1> SUFFICES ASSUME NEW n \in Nat, n \notin S PROVE FALSE
  OBVIOUS
<1> DEFINE T == {k \in 0 .. n : k \in S}
           succ == [k \in T |-> k + 1]
<1>1. 0 \in T /\ \A k \in T : k + 1 \in T
  BY DEF T
<1>2. IsFiniteSet(T)
  <2>1. T \in SUBSET (0 .. n) /\ IsFiniteSet(0 .. n)
    BY FS_Interval
  <2> HIDE DEF T
  <2> QED  BY <2>1, FS_Subset
<1>3. succ \in [T -> T \ {0}]
  BY <1>1
<1>4. IsFiniteSet(T \ {0}) /\ Cardinality(T \ {0}) < Cardinality(T)
  <2> HIDE DEF T
  <2>1. IsFiniteSet(T \ {0}) /\ Cardinality(T \ {0}) = Cardinality(T) - 1
    BY <1>1, <1>2, FS_RemoveElement
  <2>2. Cardinality(T) \in Nat
    BY <1>2, FS_CardinalityType
  <2> QED  BY <2>1, <2>2
<1>5. PICK a, b \in T : a # b /\ succ[a] = succ[b]
  <2> HIDE DEF T, succ
  <2> QED  BY <1>2, <1>3, <1>4, FS_PigeonHole
<1> QED  BY <1>5

\* Among finitely many integers is a first greatest one.
LEMMA FirstGreatest ==
  ASSUME NEW a \in Int, NEW b \in Int, a <= b, NEW f, \A k \in a .. b : f[k] \in Int
  PROVE  \E m \in a .. b : \A j \in a .. b : f[m] > f[j] \/ (f[m] = f[j] /\ m <= j)
PROOF
<1> DEFINE First(e, m) == \A j \in a .. e : f[m] > f[j] \/ (f[m] = f[j] /\ m <= j)
           S == {n \in Nat : a + n <= b => \E m \in a .. a + n : First(a + n, m)}
<1>1. 0 \in S
  OBVIOUS
<1>2. ASSUME NEW n \in Nat, n \in S, a + (n + 1) <= b PROVE n + 1 \in S
  <2>1. PICK m \in a .. a + n : First(a + n, m)
    BY <1>2
  <2>2. CASE f[a + (n + 1)] > f[m]
    <3>1. First(a + (n + 1), a + (n + 1))
      BY <1>2, <2>1, <2>2
    <3> QED  BY <3>1
  <2>3. CASE ~(f[a + (n + 1)] > f[m])
    <3>1. First(a + (n + 1), m)
      BY <1>2, <2>1, <2>3
    <3> QED  BY <3>1
  <2> QED  BY <2>2, <2>3
<1>3. \A n \in Nat : n \in S
  <2>1. \A n \in Nat : n \in S => n + 1 \in S
    BY <1>2
  <2> HIDE DEF S
  <2> QED  BY <1>1, <2>1, SetInduction
<1>4. b - a \in Nat /\ a + (b - a) = b /\ b <= b
  OBVIOUS
<1>5. \E m \in a .. a + (b - a) : First(a + (b - a), m)
  <2> HIDE DEF First
  <2> QED  BY <1>3, <1>4
<1> QED  BY <1>4, <1>5

-----------------------------------------------------------------------------
(***************************************************************************)
(* The profiler's dump.                                                    *)
(***************************************************************************)

Candidate == [pc : Nat, cnt : Nat]

LEMMA CandidateCounts ==
  ASSUME NEW s \in Seq(Candidate)
  PROVE  Len(s) \in Nat /\ DOMAIN s = 1 .. Len(s) /\ \A k \in 1 .. Len(s) : s[k].cnt \in Nat
PROOF
<1>1. \A k \in 1 .. Len(s) : s[k] \in Candidate
  OBVIOUS
<1> QED  BY <1>1 DEF Candidate

LEMMA GreatestIs ==
  ASSUME NEW s \in Seq(Candidate), NEW low \in 1 .. Len(s)
  PROVE  /\ Greatest(s, low) \in low .. Len(s)
         /\ \A j \in low .. Len(s) : s[Greatest(s, low)].cnt >= s[j].cnt
PROOF
<1> DEFINE f == [k \in 1 .. Len(s) |-> s[k].cnt]
<1>1. \A k \in 1 .. Len(s) : f[k] \in Nat
  BY CandidateCounts
<1>2. \E m \in low .. Len(s) : \A j \in low .. Len(s) : f[m] > f[j] \/ (f[m] = f[j] /\ m <= j)
  <2>1. low \in Int /\ Len(s) \in Int /\ low <= Len(s) /\ \A k \in low .. Len(s) : f[k] \in Int
    BY <1>1
  <2> HIDE DEF f
  <2> QED  BY <2>1, FirstGreatest
<1>3. \A k \in low .. Len(s) : f[k] = s[k].cnt
  OBVIOUS
<1> DEFINE First(m) == \A j \in low .. Len(s) : s[m].cnt > s[j].cnt \/ (s[m].cnt = s[j].cnt /\ m <= j)
<1>4. \E m \in low .. Len(s) : First(m)
  BY <1>2, <1>3
<1>5. Greatest(s, low) = CHOOSE m \in low .. Len(s) : First(m)
  BY DEF Greatest
<1> HIDE DEF First
<1>6. Greatest(s, low) \in low .. Len(s) /\ First(Greatest(s, low))
  BY <1>4, <1>5
<1>7. \A k \in low .. Len(s) : s[k].cnt \in Nat
  BY <1>1, <1>3
<1> QED  BY <1>6, <1>7 DEF First

LEMMA LeastIs ==
  ASSUME NEW s \in Seq(Candidate), s # <<>>
  PROVE  /\ Least(s) \in DOMAIN s
         /\ \A j \in DOMAIN s : s[Least(s)].cnt <= s[j].cnt
PROOF
<1> DEFINE f == [k \in 1 .. Len(s) |-> 0 - s[k].cnt]
<1>1. \A k \in 1 .. Len(s) : s[k].cnt \in Nat
  BY CandidateCounts
<1>2. 1 <= Len(s) /\ Len(s) \in Nat /\ DOMAIN s = 1 .. Len(s)
  OBVIOUS
<1>3. \A k \in 1 .. Len(s) : f[k] = 0 - s[k].cnt /\ f[k] \in Int
  BY <1>1
<1>4. \E m \in 1 .. Len(s) : \A j \in 1 .. Len(s) : f[m] > f[j] \/ (f[m] = f[j] /\ m <= j)
  <2>1. 1 \in Int /\ Len(s) \in Int /\ 1 <= Len(s) /\ \A k \in 1 .. Len(s) : f[k] \in Int
    BY <1>2, <1>3
  <2> HIDE DEF f
  <2> QED  BY <2>1, FirstGreatest
<1> DEFINE First(m) == \A j \in DOMAIN s : s[m].cnt < s[j].cnt \/ (s[m].cnt = s[j].cnt /\ m <= j)
<1>5. \E m \in DOMAIN s : First(m)
  <2> HIDE DEF f
  <2>1. PICK m \in 1 .. Len(s) : \A j \in 1 .. Len(s) : f[m] > f[j] \/ (f[m] = f[j] /\ m <= j)
    BY <1>4
  <2>2. First(m)
    BY <1>1, <1>2, <1>3, <2>1
  <2> QED  BY <1>2, <2>2
<1>6. Least(s) = CHOOSE m \in DOMAIN s : First(m)
  BY DEF Least
<1> HIDE DEF First
<1>7. Least(s) \in DOMAIN s /\ First(Least(s))
  BY <1>5, <1>6
<1> QED  BY <1>1, <1>2, <1>7 DEF First

\* s are the entries of top in another order, and its first n are in their final places.
Arranged(s, top, n) ==
  /\ s \in Seq(Candidate) /\ Len(s) = Len(top) /\ Range(s) = Range(top)
  /\ \A j, k \in DOMAIN s : j # k => s[j].pc # s[k].pc
  /\ \A j \in 1 .. n, k \in DOMAIN s : j < k => s[j].cnt >= s[k].cnt

LEMMA SelectedArranged ==
  ASSUME NEW top \in Seq(Candidate), NEW s, NEW n \in Nat, n + 1 <= Len(top), Arranged(s, top, n)
  PROVE  Arranged(Selected(s, n + 1), top, n + 1)
PROOF
<1> DEFINE place == n + 1
           g == Greatest(s, place)
           t == Selected(s, place)
<1>1. /\ s \in Seq(Candidate) /\ Len(s) = Len(top) /\ place \in 1 .. Len(s) /\ DOMAIN s = 1 .. Len(s)
      /\ Len(s) \in Nat /\ \A k \in DOMAIN s : s[k] \in Candidate
  BY DEF Arranged
<1>2. g \in place .. Len(s) /\ \A j \in place .. Len(s) : s[g].cnt >= s[j].cnt
  BY <1>1, GreatestIs
<1>3. t = [s EXCEPT ![place] = s[g], ![g] = s[place]]
  BY DEF Selected
<1> HIDE DEF g, t
<1>4. /\ t \in Seq(Candidate) /\ Len(t) = Len(s) /\ DOMAIN t = DOMAIN s
      /\ t[place] = s[g] /\ t[g] = s[place] /\ \A k \in DOMAIN s : k \notin {place, g} => t[k] = s[k]
  BY <1>1, <1>2, <1>3
<1> DEFINE at(k) == IF k = place THEN g ELSE IF k = g THEN place ELSE k
<1>5. /\ \A k \in DOMAIN s : at(k) \in DOMAIN s /\ t[k] = s[at(k)] /\ s[k] = t[at(k)]
      /\ \A j, k \in DOMAIN s : j # k => at(j) # at(k)
      /\ \A k \in DOMAIN s : k >= place => at(k) >= place
      /\ \A k \in DOMAIN s : k < place => at(k) = k
  <2>1. place \in DOMAIN s /\ g \in DOMAIN s /\ g >= place /\ DOMAIN s \subseteq Int
    BY <1>1, <1>2
  <2>2. \A k \in DOMAIN s : at(k) \in DOMAIN s /\ t[k] = s[at(k)] /\ s[k] = t[at(k)]
    BY <1>4, <2>1
  <2>3. \A j, k \in DOMAIN s : j # k => at(j) # at(k)
    OBVIOUS
  <2>4. \A k \in DOMAIN s : (k >= place => at(k) >= place) /\ (k < place => at(k) = k)
    BY <1>1, <2>1
  <2> QED  BY <2>2, <2>3, <2>4
<1> HIDE DEF at
<1>6. Range(t) = Range(s)
  BY <1>4, <1>5, SMTT(20) DEF Range
<1>7. \A j, k \in DOMAIN t : j # k => t[j].pc # t[k].pc
  BY <1>4, <1>5 DEF Arranged
<1>8. ASSUME NEW j \in 1 .. place, NEW k \in DOMAIN t, j < k PROVE t[j].cnt >= t[k].cnt
  <2>1. CASE j = place
    BY <1>1, <1>2, <1>4, <1>5, <1>8, <2>1
  <2>2. CASE j < place
    <3>1. j \in 1 .. n /\ j \in DOMAIN s /\ k \in DOMAIN s /\ k \in Int
      BY <1>1, <1>4, <2>2
    <3>2. at(j) = j /\ at(k) \in DOMAIN s
      BY <1>5, <2>2, <3>1
    <3>3. j < at(k)
      <4>1. CASE k < place
        BY <1>5, <1>8, <3>1, <4>1
      <4>2. CASE k >= place
        BY <1>1, <1>5, <2>2, <3>1, <3>2, <4>2
      <4> QED  BY <3>1, <4>1, <4>2
    <3>4. s[j].cnt >= s[at(k)].cnt
      BY <3>1, <3>2, <3>3 DEF Arranged
    <3> QED  BY <1>4, <1>5, <3>1, <3>2, <3>4
  <2> QED  BY <2>1, <2>2
<1> QED  BY <1>4, <1>6, <1>7, <1>8 DEF Arranged, t

\* Selection sort puts the entries in descending order.
LEMMA DescendingSorts ==
  ASSUME NEW top \in Seq(Candidate), \A j, k \in DOMAIN top : j # k => top[j].pc # top[k].pc
  PROVE  Arranged(Descending(top), top, Len(top))
PROOF
<1> DEFINE L == Len(top)
           Steps(g, e) == g = [n \in 0 .. e |-> IF n = 0 THEN top ELSE Selected(g[n - 1], n)]
           S == {n \in Nat : n <= L => \E g : Steps(g, n)}
<1>1. L \in Nat
  OBVIOUS
<1>2. 0 \in S
  <2>1. Steps([n \in 0 .. 0 |-> top], 0)
    OBVIOUS
  <2> QED  BY <2>1
<1>3. ASSUME NEW n \in Nat, n \in S PROVE n + 1 \in S
  <2>1. SUFFICES ASSUME n + 1 <= L PROVE \E g : Steps(g, n + 1)
    BY SMTT(20)
  <2>2. PICK g : Steps(g, n)
    BY <1>1, <1>3, <2>1
  <2> DEFINE h == [k \in 0 .. n + 1 |-> IF k = n + 1 THEN Selected(g[n], n + 1) ELSE g[k]]
  <2>3. Steps(h, n + 1)
    BY <2>2
  <2> QED  BY <2>3
<1>4. \E g : Steps(g, L)
  <2>1. \A n \in Nat : n \in S
    <3> HIDE DEF S
    <3> QED  BY <1>2, <1>3, SetInduction
  <2> QED  BY <1>1, <2>1
<1> DEFINE f == CHOOSE g : Steps(g, L)
<1>5. Descending(top) = f[L]
  BY DEF Descending
<1>6. Steps(f, L)
  <2> HIDE DEF Steps
  <2> QED  BY <1>4
<1> HIDE DEF f
<1> DEFINE A == {n \in Nat : n <= L => Arranged(f[n], top, n)}
<1>7. 0 \in A
  BY <1>1, <1>6 DEF Arranged
<1>8. ASSUME NEW n \in Nat, n \in A PROVE n + 1 \in A
  <2>1. SUFFICES ASSUME n + 1 <= L PROVE Arranged(f[n + 1], top, n + 1)
    OBVIOUS
  <2>2. Arranged(f[n], top, n)
    BY <1>1, <1>8, <2>1
  <2>3. f[n + 1] = Selected(f[n], n + 1)
    BY <1>1, <1>6, <2>1
  <2> QED  BY <2>1, <2>2, <2>3, SelectedArranged
<1>9. \A n \in Nat : n \in A
  <2> HIDE DEF A
  <2> QED  BY <1>7, <1>8, SetInduction
<1> QED  BY <1>1, <1>5, <1>9

\* t is a table of the greatest of the counts that were read, each with its place.
TableOf(t, read) ==
  /\ t \in Seq(Candidate) /\ read \in Seq(Nat) /\ Len(t) <= MaxCandidates
  /\ \A k \in DOMAIN t :
       t[k].pc + 1 \in DOMAIN read /\ t[k].cnt = read[t[k].pc + 1] /\ t[k].cnt # 0
  /\ \A j, k \in DOMAIN t : j # k => t[j].pc # t[k].pc
  /\ \A w \in DOMAIN read :
       \/ \E k \in DOMAIN t : t[k].pc + 1 = w
       \/ read[w] = 0
       \/ Len(t) = MaxCandidates /\ \A k \in DOMAIN t : read[w] <= t[k].cnt

LEMMA AppendShape ==
  ASSUME NEW S, NEW s \in Seq(S), NEW e \in S
  PROVE  /\ Append(s, e) \in Seq(S) /\ Len(Append(s, e)) = Len(s) + 1
         /\ DOMAIN Append(s, e) = 1 .. Len(s) + 1 /\ Append(s, e)[Len(s) + 1] = e
         /\ \A k \in DOMAIN s : k \in DOMAIN Append(s, e) /\ Append(s, e)[k] = s[k]
         /\ \A k \in DOMAIN Append(s, e) : k \in DOMAIN s \/ k = Len(s) + 1
  OBVIOUS

\* A count that is 0, or not above the least of a full table, is passed over.
LEMMA TableKept ==
  ASSUME NEW t, NEW read, TableOf(t, read), NEW cnt \in Nat,
         cnt = 0 \/ (Len(t) = MaxCandidates /\ \A k \in DOMAIN t : cnt <= t[k].cnt)
  PROVE  TableOf(t, Append(read, cnt))
PROOF
<1> DEFINE read2 == Append(read, cnt)
<1>1. /\ read2 \in Seq(Nat) /\ read2[Len(read) + 1] = cnt
      /\ \A k \in DOMAIN read : k \in DOMAIN read2 /\ read2[k] = read[k]
      /\ \A k \in DOMAIN read2 : k \in DOMAIN read \/ k = Len(read) + 1
  BY AppendShape DEF TableOf
<1> HIDE DEF read2
<1> QED  BY <1>1 DEF TableOf, read2

\* The next word and its count.
Entry(read, cnt) == [pc |-> Len(read), cnt |-> cnt]

LEMMA TableGrows ==
  ASSUME NEW t, NEW read, TableOf(t, read), NEW cnt \in Nat, cnt # 0, Len(t) < MaxCandidates,
         MaxCandidates \in Nat
  PROVE  TableOf(Append(t, Entry(read, cnt)), Append(read, cnt))
PROOF
<1> DEFINE read2 == Append(read, cnt)
           new == Entry(read, cnt)
           t2 == Append(t, new)
<1>1. /\ read2 \in Seq(Nat) /\ read2[Len(read) + 1] = cnt /\ Len(read) + 1 \in DOMAIN read2
      /\ \A k \in DOMAIN read : k \in DOMAIN read2 /\ read2[k] = read[k]
      /\ \A k \in DOMAIN read2 : k \in DOMAIN read \/ k = Len(read) + 1
      /\ Len(read) \in Nat /\ DOMAIN read = 1 .. Len(read)
  BY AppendShape DEF TableOf
<1>2. new \in Candidate /\ new.pc = Len(read) /\ new.cnt = cnt
  BY <1>1 DEF Candidate, Entry
<1> HIDE DEF read2, new
<1>3. /\ t2 \in Seq(Candidate) /\ Len(t2) = Len(t) + 1 /\ Len(t) + 1 \in DOMAIN t2
      /\ t2[Len(t) + 1] = new
      /\ \A k \in DOMAIN t : k \in DOMAIN t2 /\ t2[k] = t[k]
      /\ \A k \in DOMAIN t2 : k \in DOMAIN t \/ k = Len(t) + 1
      /\ Len(t) \in Nat
  BY <1>2, AppendShape DEF TableOf
<1> HIDE DEF t2
<1>4. ASSUME NEW k \in DOMAIN t2
      PROVE  t2[k].pc + 1 \in DOMAIN read2 /\ t2[k].cnt = read2[t2[k].pc + 1] /\ t2[k].cnt # 0
  <2>1. CASE k \in DOMAIN t
    BY <1>1, <1>3, <2>1, SMTT(20) DEF TableOf
  <2>2. CASE k = Len(t) + 1
    BY <1>1, <1>2, <1>3, <2>2
  <2> QED  BY <1>3, <2>1, <2>2
<1>5. \A k \in DOMAIN t : t[k].pc # Len(read)
  BY <1>1, SMTT(20) DEF TableOf
<1>6. \A j, k \in DOMAIN t2 : j # k => t2[j].pc # t2[k].pc
  BY <1>2, <1>3, <1>5, SMTT(20) DEF TableOf
<1>7. ASSUME NEW w \in DOMAIN read2
      PROVE  (\E k \in DOMAIN t2 : t2[k].pc + 1 = w) \/ read2[w] = 0
  <2>1. CASE w = Len(read) + 1
    BY <1>2, <1>3, <2>1
  <2>2. CASE w \in DOMAIN read
    <3>1. Len(t) # MaxCandidates
      BY <1>3
    <3>2. (\E k \in DOMAIN t : t[k].pc + 1 = w) \/ read[w] = 0
      BY <2>2, <3>1 DEF TableOf
    <3> QED  BY <1>1, <1>3, <2>2, <3>2
  <2> QED  BY <1>1, <2>1, <2>2
<1>8. Len(t2) <= MaxCandidates
  BY <1>3
<1> QED  BY <1>1, <1>3, <1>4, <1>6, <1>7, <1>8 DEF TableOf, read2, new, t2

LEMMA TableReplaced ==
  ASSUME NEW t, NEW read, TableOf(t, read), NEW cnt \in Nat, Len(t) = MaxCandidates,
         NEW low \in DOMAIN t, \A k \in DOMAIN t : t[low].cnt <= t[k].cnt, cnt > t[low].cnt
  PROVE  TableOf([t EXCEPT ![low] = Entry(read, cnt)], Append(read, cnt))
PROOF
<1> DEFINE read2 == Append(read, cnt)
           new == Entry(read, cnt)
           t2 == [t EXCEPT ![low] = new]
<1>1. /\ read2 \in Seq(Nat) /\ read2[Len(read) + 1] = cnt /\ Len(read) + 1 \in DOMAIN read2
      /\ \A k \in DOMAIN read : k \in DOMAIN read2 /\ read2[k] = read[k] /\ read[k] \in Nat
      /\ \A k \in DOMAIN read2 : k \in DOMAIN read \/ k = Len(read) + 1
      /\ Len(read) \in Nat /\ DOMAIN read = 1 .. Len(read)
  BY AppendShape DEF TableOf
<1>2. new \in Candidate /\ new.pc = Len(read) /\ new.cnt = cnt
  BY <1>1 DEF Candidate, Entry
<1> HIDE DEF read2, new
<1>3. /\ t2 \in Seq(Candidate) /\ Len(t2) = Len(t) /\ DOMAIN t2 = DOMAIN t
      /\ t2[low] = new /\ \A k \in DOMAIN t : k # low => t2[k] = t[k]
  BY <1>2 DEF TableOf
<1> HIDE DEF t2
<1>4. ASSUME NEW k \in DOMAIN t
      PROVE  t2[k].pc + 1 \in DOMAIN read2 /\ t2[k].cnt = read2[t2[k].pc + 1] /\ t2[k].cnt # 0
  <2>1. CASE k # low
    BY <1>1, <1>3, <2>1, SMTT(20) DEF TableOf
  <2>2. CASE k = low
    <3>1. t[low].cnt \in Nat
      BY CandidateCounts DEF TableOf
    <3> QED  BY <1>1, <1>2, <1>3, <2>2, <3>1, SMTT(20)
  <2> QED  BY <2>1, <2>2
<1>5. \A k \in DOMAIN t : t[k].pc # Len(read)
  BY <1>1 DEF TableOf
<1>6. \A j, k \in DOMAIN t2 : j # k => t2[j].pc # t2[k].pc
  BY <1>2, <1>3, <1>5 DEF TableOf
<1>7. \A k \in DOMAIN t : t[k].cnt \in Nat /\ t2[k].cnt \in Nat /\ t[low].cnt <= t2[k].cnt
  <2>1. \A k \in DOMAIN t : t[k].cnt \in Nat
    BY CandidateCounts DEF TableOf
  <2> QED  BY <1>2, <1>3, <2>1
<1>8. ASSUME NEW w \in DOMAIN read2
      PROVE  \/ \E k \in DOMAIN t : t2[k].pc + 1 = w
             \/ read2[w] = 0
             \/ \A k \in DOMAIN t : read2[w] <= t2[k].cnt
  <2>1. CASE w = Len(read) + 1
    BY <1>2, <1>3, <2>1
  <2>2. CASE w \in DOMAIN read
    <3>1. CASE \E k \in DOMAIN t : k # low /\ t[k].pc + 1 = w
      BY <1>3, <3>1
    <3>2. CASE read[w] <= t[low].cnt
      BY <1>1, <1>7, <2>2, <3>2, SMTT(20)
    <3>3. CASE t[low].pc + 1 = w
      <4>1. read[w] = t[low].cnt
        BY <3>3 DEF TableOf
      <4> QED  BY <1>1, <1>7, <2>2, <4>1
    <3>4. CASE read[w] = 0
      BY <1>1, <2>2, <3>4
    <3> QED  BY <2>2, <3>1, <3>2, <3>3, <3>4 DEF TableOf
  <2> QED  BY <1>1, <2>1, <2>2
<1> QED  BY <1>1, <1>3, <1>4, <1>6, <1>8 DEF TableOf, read2, new, t2

\* After DumpScan has passed some words, the table holds the greatest of the counts it read.
ScanInv ==
  /\ dump \in [scanned : 0 .. CodeWords, top : Seq(Candidate), read : Seq(Nat)]
  /\ Len(dump.read) = dump.scanned
  /\ TableOf(dump.top, dump.read)

\* The counts may have grown since, and what is printed is that table.
DumpInv ==
  /\ ScanInv
  /\ hist = <<>> \/ hist \in [Words -> Nat]
  /\ \A w \in 0 .. dump.scanned - 1 : hist \in [Words -> Nat] /\ dump.read[w + 1] <= hist[w]
  /\ printed # <<>> => dump.scanned = CodeWords /\ printed = Descending(dump.top)

\* What DumpScan makes of the table.
Scanned(t, read, cnt) ==
  CASE cnt = 0 -> t
    [] cnt # 0 /\ Len(t) < MaxCandidates -> Append(t, Entry(read, cnt))
    [] OTHER -> IF cnt > t[Least(t)].cnt THEN [t EXCEPT ![Least(t)] = Entry(read, cnt)] ELSE t

LEMMA TableStep ==
  ASSUME NEW t, NEW read, TableOf(t, read), NEW cnt \in Nat
  PROVE  TableOf(Scanned(t, read, cnt), Append(read, cnt))
PROOF
<1>1. CASE cnt = 0
  BY <1>1, TableKept DEF Scanned
<1>2. CASE cnt # 0 /\ Len(t) < MaxCandidates
  BY <1>2, TableGrows, GprofConstants DEF Scanned
<1>3. CASE cnt # 0 /\ ~(Len(t) < MaxCandidates)
  <2>1. t \in Seq(Candidate) /\ Len(t) = MaxCandidates /\ t # <<>>
    BY <1>3, GprofConstants DEF TableOf
  <2>2. Least(t) \in DOMAIN t /\ \A k \in DOMAIN t : t[Least(t)].cnt <= t[k].cnt
    BY <2>1, LeastIs
  <2>3. CASE cnt > t[Least(t)].cnt
    <3>1. Scanned(t, read, cnt) = [t EXCEPT ![Least(t)] = Entry(read, cnt)]
      BY <1>3, <2>3 DEF Scanned
    <3> DEFINE low == Least(t)
    <3>2. low \in DOMAIN t /\ (\A k \in DOMAIN t : t[low].cnt <= t[k].cnt) /\ cnt > t[low].cnt
      BY <2>2, <2>3
    <3> HIDE DEF low
    <3>3. TableOf([t EXCEPT ![low] = Entry(read, cnt)], Append(read, cnt))
      BY <2>1, <3>2, TableReplaced
    <3> QED  BY <3>1, <3>3 DEF low
  <2>4. CASE ~(cnt > t[Least(t)].cnt)
    <3>1. Scanned(t, read, cnt) = t
      BY <1>3, <2>4 DEF Scanned
    <3>2. \A k \in DOMAIN t : cnt <= t[k].cnt
      <4>1. \A k \in DOMAIN t : t[k].cnt \in Nat
        BY <2>1, CandidateCounts
      <4> QED  BY <2>2, <2>4, <4>1
    <3> QED  BY <2>1, <3>1, <3>2, TableKept
  <2> QED  BY <2>3, <2>4
<1> QED  BY <1>1, <1>2, <1>3

LEMMA ScanStep ==
  ASSUME ScanInv, DumpScan, hist \in [Words -> Nat]
  PROVE  /\ ScanInv' /\ dump'.scanned = dump.scanned + 1
         /\ dump'.read = Append(dump.read, hist[dump.scanned])
PROOF
<1> DEFINE cnt == hist[dump.scanned]
<1>1. /\ dump.scanned \in 0 .. CodeWords /\ dump.scanned < CodeWords /\ CodeWords \in Nat
      /\ dump.read \in Seq(Nat) /\ Len(dump.read) = dump.scanned /\ TableOf(dump.top, dump.read)
  BY GprofConstants DEF ScanInv, DumpScan
<1>2. cnt \in Nat
  BY <1>1 DEF Words
<1>3. dump' = [scanned |-> dump.scanned + 1, top |-> Scanned(dump.top, dump.read, cnt),
               read |-> Append(dump.read, cnt)]
  BY <1>1 DEF DumpScan, Scanned, Entry
<1> HIDE DEF cnt
<1>4. /\ dump'.scanned = dump.scanned + 1 /\ dump'.top = Scanned(dump.top, dump.read, cnt)
      /\ dump'.read = Append(dump.read, cnt)
  BY <1>3
<1>5. TableOf(dump.top, dump.read)' /\ Len(dump'.read) = dump'.scanned
  BY <1>1, <1>2, <1>4, TableStep, AppendShape
<1>6. dump' \in [scanned : 0 .. CodeWords, top : Seq(Candidate), read : Seq(Nat)]
  <2>1. /\ dump.scanned + 1 \in 0 .. CodeWords
        /\ dump'.top \in Seq(Candidate) /\ dump'.read \in Seq(Nat)
    BY <1>1, <1>5 DEF TableOf
  <2> QED  BY <1>3, <1>4, <2>1
<1> QED  BY <1>4, <1>5, <1>6 DEF ScanInv, cnt

\* What is printed is what DumpIsTop says it is.
LEMMA PrintedIsTop ==
  ASSUME DumpInv
  PROVE  DumpIsTop
PROOF
<1>1. CASE printed = <<>>
  BY <1>1 DEF DumpIsTop
<1>2. CASE printed # <<>>
  <2> DEFINE top == dump.top
  <2>1. /\ top \in Seq(Candidate) /\ dump.scanned = CodeWords /\ CodeWords \in Nat
        /\ printed = Descending(top) /\ Len(top) \in Nat /\ DOMAIN top = 1 .. Len(top)
        /\ \A j, k \in DOMAIN top : j # k => top[j].pc # top[k].pc
    BY <1>2, GprofConstants DEF DumpInv, ScanInv, TableOf
  <2> HIDE DEF top
  <2>2. Arranged(printed, top, Len(top))
    BY <2>1, DescendingSorts
  <2>3. /\ Len(printed) = Len(top) /\ DOMAIN printed = DOMAIN top
        /\ \A k \in DOMAIN printed : \E m \in DOMAIN top : printed[k] = top[m]
        /\ \A m \in DOMAIN top : \E k \in DOMAIN printed : printed[k] = top[m]
        /\ \A j, k \in DOMAIN printed : j < k => /\ printed[j].cnt >= printed[k].cnt
                                                 /\ printed[j].pc # printed[k].pc
    <3>1. DOMAIN printed = DOMAIN top
      BY <2>1, <2>2 DEF Arranged
    <3>2. Range(printed) = Range(top) /\ Len(printed) = Len(top)
      BY <2>2 DEF Arranged
    <3>3. /\ \A k \in DOMAIN printed : \E m \in DOMAIN top : printed[k] = top[m]
          /\ \A m \in DOMAIN top : \E k \in DOMAIN printed : printed[k] = top[m]
      BY <3>2, Zenon DEF Range
    <3>4. \A j, k \in DOMAIN printed : j < k => printed[j].cnt >= printed[k].cnt
      BY <2>1, <2>2, <3>1 DEF Arranged
    <3>5. \A j, k \in DOMAIN printed : j < k => printed[j].pc # printed[k].pc
      BY <2>1, <2>2, <3>1 DEF Arranged
    <3> QED  BY <3>1, <3>2, <3>3, <3>4, <3>5
  <2>4. \A m \in DOMAIN top : /\ top[m].cnt = dump.read[top[m].pc + 1]
                              /\ top[m].cnt \in 1 .. hist[top[m].pc]
    <3>1. ASSUME NEW m \in DOMAIN top
          PROVE  top[m].cnt = dump.read[top[m].pc + 1] /\ top[m].cnt \in 1 .. hist[top[m].pc]
      <4>1. /\ top[m].pc \in 0 .. dump.scanned - 1 /\ top[m].cnt = dump.read[top[m].pc + 1]
            /\ top[m].cnt # 0
        <5>1. top[m] \in Candidate
          BY <2>1
        <5>2. top[m].pc \in Nat
          BY <5>1 DEF Candidate
        <5> QED  BY <5>2 DEF DumpInv, ScanInv, TableOf, top
      <4>2. hist \in [Words -> Nat] /\ top[m].cnt <= hist[top[m].pc]
        BY <4>1 DEF DumpInv
      <4>3. hist[top[m].pc] \in Nat /\ top[m].cnt \in Nat
        BY <2>1, <4>1, <4>2, CandidateCounts DEF Words
      <4> QED  BY <4>1, <4>2, <4>3
    <3> QED  BY <3>1
  <2>5. \A w \in Words :
          \/ \E m \in DOMAIN top : top[m].pc = w
          \/ dump.read[w + 1] = 0
          \/ Len(top) = MaxCandidates /\ \A m \in DOMAIN top : dump.read[w + 1] <= top[m].cnt
    <3>1. /\ \A m \in DOMAIN top : top[m] \in Candidate
          /\ \A w \in Words : w \in Int /\ w + 1 \in DOMAIN dump.read
      BY <2>1 DEF DumpInv, ScanInv, Words
    <3>2. \A m \in DOMAIN top : top[m].pc \in Nat
      BY <3>1 DEF Candidate
    <3>3. \A w \in Words :
            \/ \E m \in DOMAIN top : top[m].pc + 1 = w + 1
            \/ dump.read[w + 1] = 0
            \/ Len(top) = MaxCandidates /\ \A m \in DOMAIN top : dump.read[w + 1] <= top[m].cnt
      BY <3>1 DEF DumpInv, ScanInv, TableOf, top
    <3> QED  BY <3>1, <3>2, <3>3
  <2>6. \A k \in DOMAIN printed : /\ printed[k].cnt = dump.read[printed[k].pc + 1]
                                  /\ printed[k].cnt \in 1 .. hist[printed[k].pc]
    <3>1. SUFFICES ASSUME NEW k \in DOMAIN printed
                   PROVE  /\ printed[k].cnt = dump.read[printed[k].pc + 1]
                          /\ printed[k].cnt \in 1 .. hist[printed[k].pc]
      OBVIOUS
    <3>2. PICK m \in DOMAIN top : printed[k] = top[m]
      BY <2>3
    <3> QED  BY <2>4, <3>2
  <2>7. \A w \in Words :
          \/ \E k \in DOMAIN printed : printed[k].pc = w
          \/ dump.read[w + 1] = 0
          \/ Len(printed) = MaxCandidates /\ \A k \in DOMAIN printed : dump.read[w + 1] <= printed[k].cnt
    <3>1. ASSUME NEW w \in Words, NEW m \in DOMAIN top, top[m].pc = w
          PROVE  \E k \in DOMAIN printed : printed[k].pc = w
      BY <2>3, <3>1
    <3>2. ASSUME NEW w \in Words, \A m \in DOMAIN top : dump.read[w + 1] <= top[m].cnt
          PROVE  \A k \in DOMAIN printed : dump.read[w + 1] <= printed[k].cnt
      BY <2>3, <3>2
    <3> QED  BY <2>3, <2>5, <3>1, <3>2
  <2> QED  BY <2>3, <2>6, <2>7 DEF DumpIsTop
<1> QED  BY <1>1, <1>2

\* Before the profiler has its table nothing is dumped, and from then on it has one.
BeforeTable == {"start", "checkpoint", "tables", "state", "vocab", "scores", "file", "entries",
                "profile", "timer", "histogram"}
BringUp == {"vm_init", "pt", "map", "switch", "sync", "enable", "caches"}
Profiled == {"enable_interrupts", "prompt", "sort", "buffer", "encode", "merge", "forward", "layer",
             "next", "done", "dumped"}

ProfileInv ==
  /\ DumpInv
  /\ pc \in BeforeTable => dump.scanned = 0 /\ printed = <<>>
  /\ pc \in BringUp => program = "run"
  /\ pc \in Profiled /\ program = "runq" => hist \in [Words -> Nat]

LEMMA ProfileInit == Init => ProfileInv
PROOF
<1> SUFFICES ASSUME Init PROVE ProfileInv
  OBVIOUS
<1>1. /\ hist = <<>> /\ printed = <<>> /\ pc = "start"
      /\ dump = [scanned |-> 0, top |-> <<>>, read |-> <<>>]
  BY DEF Init, GprofInit
<1>2. ScanInv
  BY <1>1, GprofConstants DEF ScanInv, TableOf
<1> QED  BY <1>1, <1>2 DEF ProfileInv, DumpInv, BeforeTable, BringUp, Profiled

LEMMA DumpScanStep ==
  ASSUME DumpInv, DumpScan, hist \in [Words -> Nat]
  PROVE  DumpInv'
PROOF
<1>1. /\ ScanInv' /\ dump'.scanned = dump.scanned + 1
      /\ dump'.read = Append(dump.read, hist[dump.scanned])
  BY ScanStep DEF DumpInv
<1>2. /\ UNCHANGED <<hist, printed>> /\ dump.scanned \in Nat /\ dump.scanned < CodeWords
      /\ CodeWords \in Nat /\ dump.read \in Seq(Nat) /\ Len(dump.read) = dump.scanned
  BY GprofConstants DEF DumpScan, DumpInv, ScanInv
<1>3. printed = <<>>
  BY <1>2 DEF DumpInv
<1>4. ASSUME NEW w \in 0 .. dump.scanned PROVE dump'.read[w + 1] <= hist[w]
  <2>1. CASE w = dump.scanned
    <3>1. dump'.read[w + 1] = hist[w] /\ hist[w] \in Nat
      BY <1>1, <1>2, <2>1 DEF Words
    <3> QED  BY <3>1
  <2>2. CASE w \in 0 .. dump.scanned - 1
    <3>1. dump.read[w + 1] <= hist[w]
      BY <2>2 DEF DumpInv
    <3>2. dump'.read[w + 1] = dump.read[w + 1]
      BY <1>1, <1>2, <2>2
    <3> QED  BY <3>1, <3>2
  <2> QED  BY <1>2, <2>1, <2>2
<1>5. \A w \in 0 .. dump'.scanned - 1 : hist' \in [Words -> Nat] /\ dump'.read[w + 1] <= hist'[w]
  <2>1. 0 .. dump'.scanned - 1 = 0 .. dump.scanned
    BY <1>1, <1>2
  <2> QED  BY <1>2, <1>4, <2>1
<1>6. hist' = <<>> \/ hist' \in [Words -> Nat]
  BY <1>2
<1>7. printed' = <<>>
  BY <1>2, <1>3
<1> QED  BY <1>1, <1>5, <1>6, <1>7 DEF DumpInv

LEMMA InterruptStep ==
  ASSUME DumpInv, NEW w \in Words, gprof_inc(w), hist \in [Words -> Nat], UNCHANGED <<dump, printed>>
  PROVE  DumpInv' /\ hist' \in [Words -> Nat]
PROOF
<1>1. hist' \in [Words -> Nat] /\ \A v \in Words : hist[v] <= hist'[v]
  BY DEF gprof_inc
<1>2. \A v \in 0 .. dump.scanned - 1 : v \in Words /\ dump.read[v + 1] \in Nat
  <2>1. /\ dump.scanned \in 0 .. CodeWords /\ CodeWords \in Nat /\ dump.read \in Seq(Nat)
        /\ Len(dump.read) = dump.scanned
    BY GprofConstants DEF DumpInv, ScanInv
  <2>2. \A v \in 0 .. dump.scanned - 1 : v \in 0 .. CodeWords - 1 /\ v + 1 \in 1 .. Len(dump.read)
    BY <2>1
  <2>3. \A k \in 1 .. Len(dump.read) : dump.read[k] \in Nat
    BY <2>1
  <2> QED  BY <2>2, <2>3 DEF Words
<1>3. \A v \in 0 .. dump.scanned - 1 : dump.read[v + 1] <= hist'[v]
  BY <1>1, <1>2 DEF DumpInv
<1>4. ScanInv'
  BY DEF DumpInv, ScanInv
<1> QED  BY <1>1, <1>3, <1>4 DEF DumpInv

\* The groups of variables that a step leaves alone.
USE DEF Unchanged, NoMore, given, heap_vars, infer_vars

LEMMA ProfileStep ==
  ASSUME ProfileInv, UseInv, [Next]_vars
  PROVE  ProfileInv'
PROOF
<1> USE DEF BeforeTable, BringUp, Profiled
<1> DEFINE Same == /\ UNCHANGED <<dump, printed, hist, program>>
                   /\ pc' = pc \/ (/\ pc' \in BeforeTable => pc \in BeforeTable
                                   /\ pc' \in BringUp => pc \in BringUp \/ program = "run"
                                   /\ pc' \in Profiled => pc \in Profiled \/ program = "run")
<1>1. ASSUME Same PROVE ProfileInv'
  BY <1>1 DEF ProfileInv, DumpInv, ScanInv
<1>2. CASE GprofTable
  <2>1. /\ pc = "histogram" /\ hist' = [w \in Words |-> 0] /\ UNCHANGED <<dump, printed>>
        /\ pc' \in {"undefined", "enable_interrupts"}
    BY <1>2 DEF GprofTable, gprof_init, After
  <2>2. dump.scanned = 0 /\ printed = <<>> /\ ScanInv /\ ScanInv'
    BY <2>1 DEF ProfileInv, DumpInv, ScanInv
  <2>3. hist' \in [Words -> Nat]
    BY <2>1
  <2> QED  BY <2>1, <2>2, <2>3 DEF ProfileInv, DumpInv
<1>3. CASE Interrupt
  <2>1. CASE Handled
    <3>1. PICK w \in Words : gprof_inc(w)
      BY <1>3, <2>1 DEF Interrupt, interrupt_vector
    <3>2. UNCHANGED <<dump, printed, pc, program>> /\ hist \in [Words -> Nat]
      BY <1>3, <2>1 DEF Interrupt, interrupt_vector, Handled, ProfileInv, DumpInv
    <3>3. DumpInv' /\ hist' \in [Words -> Nat]
      BY <3>1, <3>2, InterruptStep DEF ProfileInv
    <3> QED  BY <3>2, <3>3 DEF ProfileInv
  <2>2. CASE ~Handled
    BY <1>1, <1>3, <2>2 DEF Interrupt, gprof_vars
  <2> QED  BY <2>1, <2>2
<1>4. CASE GprofDumpStep
  <2>1. program = "runq" /\ pc = "done" /\ hist \in [Words -> Nat] /\ UNCHANGED program /\ DumpInv
    BY <1>4 DEF GprofDumpStep, ProfileInv
  <2>2. CASE DumpScan /\ UNCHANGED pc
    <3>1. DumpInv' /\ hist' = hist
      BY <2>1, <2>2, DumpScanStep DEF DumpScan
    <3> QED  BY <2>1, <2>2, <3>1 DEF ProfileInv
  <2>3. CASE DumpPrint /\ pc' = "dumped"
    <3>1. /\ dump.scanned = CodeWords /\ printed' = Descending(dump.top)
          /\ UNCHANGED <<hist, dump>>
      BY <2>3 DEF DumpPrint
    <3>2. DumpInv'
      BY <2>1, <3>1 DEF DumpInv, ScanInv
    <3> QED  BY <2>1, <2>3, <3>1, <3>2 DEF ProfileInv
  <2> QED  BY <1>4, <2>2, <2>3 DEF GprofDumpStep
<1>5. ASSUME EnableCaches PROVE Same
  BY <1>5 DEF EnableCaches, gprof_vars, ProfileInv
<1>6. ASSUME build_sampler PROVE Same
  BY <1>6 DEF build_sampler, gprof_vars, After
<1>7. ASSUME EnableInterrupts PROVE Same
  BY <1>7 DEF EnableInterrupts, enable_interrupts
<1>8. ASSUME TimerInit PROVE Same
  BY <1>8 DEF TimerInit, timer_init
<1>9. ASSUME InterruptInit PROVE Same
  BY <1>9 DEF InterruptInit, interrupt_init
<1>10. ASSUME KmallocInit PROVE Same
  BY <1>10 DEF KmallocInit, gprof_vars
<1>11. ASSUME NoCheckpoint PROVE Same
  BY <1>11 DEF NoCheckpoint, gprof_vars
<1>12. ASSUME read_checkpoint PROVE Same
  BY <1>12 DEF read_checkpoint, After, gprof_vars
<1>13. ASSUME read_checkpointQ PROVE Same
  BY <1>13 DEF read_checkpointQ, After, gprof_vars
<1>14. ASSUME memory_map_weightsQ PROVE Same
  BY <1>14 DEF memory_map_weightsQ, After, gprof_vars
<1>15. ASSUME malloc_run_state PROVE Same
  BY <1>15 DEF malloc_run_state, gprof_vars
<1>16. ASSUME AllocVocab PROVE Same
  BY <1>16 DEF AllocVocab, After, gprof_vars
<1>17. ASSUME BuildEntry PROVE Same
  BY <1>17 DEF BuildEntry, After, gprof_vars
<1>18. ASSUME VmInitStep PROVE Same
  BY <1>18 DEF VmInitStep, Asserting, gprof_vars
<1>19. ASSUME VmPtAlloc PROVE Same
  BY <1>19 DEF VmPtAlloc, Asserting, gprof_vars
<1>20. ASSUME VmMapSec PROVE Same
  BY <1>20 DEF VmMapSec, Asserting, gprof_vars
<1>21. ASSUME VmSwitch PROVE Same
  BY <1>21 DEF VmSwitch, Asserting, gprof_vars
<1>22. ASSUME VmSync PROVE Same
  BY <1>22 DEF VmSync, gprof_vars
<1>23. ASSUME VmEnable PROVE Same
  BY <1>23 DEF VmEnable, Asserting, gprof_vars
<1>24. ASSUME AllocPrompt PROVE Same
  BY <1>24 DEF AllocPrompt, After, gprof_vars
<1>25. ASSUME SortStep PROVE Same
  BY <1>25 DEF SortStep, After, gprof_vars
<1>26. ASSUME AllocBuffer PROVE Same
  BY <1>26 DEF AllocBuffer, After, gprof_vars
<1>27. ASSUME EncodeStep PROVE Same
  BY <1>27 DEF EncodeStep, gprof_vars
<1>28. ASSUME MergeStep PROVE Same
  BY <1>28 DEF MergeStep, gprof_vars
<1>29. ASSUME StartGenerating PROVE Same
  BY <1>29 DEF StartGenerating, gprof_vars
<1>30. ASSUME EmbedStep PROVE Same
  BY <1>30 DEF EmbedStep, gprof_vars
<1>31. ASSUME LayerStep PROVE Same
  BY <1>31 DEF LayerStep, gprof_vars
<1>32. ASSUME LogitsStep PROVE Same
  BY <1>32 DEF LogitsStep, gprof_vars
<1>33. ASSUME NextOfPrompt PROVE Same
  BY <1>33 DEF NextOfPrompt, Advance, gprof_vars
<1>34. ASSUME SampleNext PROVE Same
  BY <1>34 DEF SampleNext, Advance, gprof_vars
<1>35. ASSUME StepsUsedUp PROVE Same
  BY <1>35 DEF StepsUsedUp, gprof_vars
<1>36. ASSUME clean_reboot PROVE Same
  BY <1>36 DEF clean_reboot, gprof_vars
<1>37. ASSUME UNCHANGED vars PROVE Same
  BY <1>37 DEF vars, gprof_vars, main_vars
<1> HIDE DEF Same
<1> QED  BY <1>1, <1>2, <1>3, <1>4, <1>5, <1>6, <1>7, <1>8, <1>9, <1>10, <1>11, <1>12, <1>13, <1>14, <1>15, <1>16, <1>17, <1>18, <1>19, <1>20, <1>21, <1>22, <1>23, <1>24, <1>25, <1>26, <1>27, <1>28, <1>29, <1>30, <1>31, <1>32, <1>33, <1>34, <1>35, <1>36, <1>37 DEF Next, Rebooted

\* What gprof_dump prints is the greatest of the counts it read, in descending order, whatever the
\* code's size, the number of candidates and the interrupts that come while it reads.
THEOREM DumpPrintsTheTop == Spec => []DumpIsTop
PROOF
<1>1. Init => UseInv /\ ProfileInv
  BY UseInit, ProfileInit
<1>2. UseInv /\ ProfileInv /\ [Next]_vars => (UseInv /\ ProfileInv)'
  BY UseStep, ProfileStep
<1>3. ProfileInv => DumpIsTop
  BY PrintedIsTop DEF ProfileInv
<1> QED  BY <1>1, <1>2, <1>3, PTL DEF Spec

-----------------------------------------------------------------------------
(***************************************************************************)
(* Recursive functions.                                                    *)
(***************************************************************************)

\* What B gives at d for a function depends only on what the function gives where mu is less.
LooksBelow(B, D, V, mu) ==
  /\ \A f \in [D -> V], d \in D : B[f][d] \in V
  /\ \A f, g \in [D -> V], d \in D :
       (\A e \in D : mu[e] < mu[d] => f[e] = g[e]) => B[f][d] = B[g][d]

\* Then there is a function that B is the recursive definition of.
LEMMA RecursionExists ==
  ASSUME NEW D, NEW V, NEW v \in V, NEW mu \in [D -> Nat], NEW top \in Nat,
         \A d \in D : mu[d] <= top,
         NEW B, LooksBelow(B, D, V, mu)
  PROVE  \E f \in [D -> V] : \A d \in D : f[d] = B[f][d]
PROOF
<1> DEFINE Below(f, n) == f \in [D -> V] /\ \A d \in D : mu[d] < n => f[d] = B[f][d]
           S == {n \in Nat : \E f : Below(f, n)}
<1>0. \A d \in D : mu[d] \in Nat
  OBVIOUS
<1>1. 0 \in S
  <2> DEFINE f == [d \in D |-> v]
  <2>1. f \in [D -> V] /\ \A d \in D : ~(mu[d] < 0)
    BY <1>0
  <2>2. Below(f, 0)
    <3> HIDE DEF f
    <3> QED  BY <2>1
  <2> HIDE DEF Below
  <2> QED  BY <2>2
<1>2. ASSUME NEW n \in Nat, n \in S PROVE n + 1 \in S
  <2>1. PICK f : Below(f, n)
    BY <1>2
  <2> DEFINE g == [d \in D |-> IF mu[d] < n THEN f[d] ELSE B[f][d]]
  <2>2. \A d \in D : B[f][d] \in V
    BY <2>1 DEF LooksBelow
  <2>3. g \in [D -> V]
    BY <2>1, <2>2
  <2>4. \A d \in D : g[d] = IF mu[d] < n THEN f[d] ELSE B[f][d]
    OBVIOUS
  <2> HIDE DEF g
  <2>5. ASSUME NEW d \in D, mu[d] < n + 1 PROVE g[d] = B[g][d]
    <3>1. \A e \in D : mu[e] < mu[d] => f[e] = g[e]
      BY <2>4, <2>5, <1>0
    <3>2. B[f][d] = B[g][d]
      BY <2>1, <2>3, <3>1 DEF LooksBelow
    <3>3. g[d] = B[f][d]
      BY <2>1, <2>4
    <3> QED  BY <3>2, <3>3
  <2>6. Below(g, n + 1)
    BY <2>3, <2>5
  <2> HIDE DEF Below
  <2> QED  BY <2>6
<1>3. \A n \in Nat : n \in S
  <2> HIDE DEF S
  <2> QED  BY <1>1, <1>2, SetInduction
<1>4. PICK f : Below(f, top + 1)
  <2> HIDE DEF Below
  <2> QED  BY <1>3
<1>5. \A d \in D : mu[d] < top + 1
  BY <1>0
<1> QED  BY <1>4, <1>5

-----------------------------------------------------------------------------
(***************************************************************************)
(* qsort.                                                                  *)
(***************************************************************************)

\* What before, an argument of qsort, says of a and b.
Before(before, a, b) == before[a][b]

\* before orders the members of R; some may be unordered.
StrictOrder(R, before) ==
  \A a, b, c \in R : ~Before(before, a, a) /\ (Before(before, a, b) /\ Before(before, b, c) => Before(before, a, c))

InOrder(s, before) == \A j, k \in DOMAIN s : j < k => ~Before(before, s[k], s[j])

\* t has the elements of s, in any order.
Rearranged(t, s) ==
  /\ t \in Seq(Range(s)) /\ Len(t) = Len(s) /\ Range(t) = Range(s)
  /\ IsInjective(s) => IsInjective(t)

LEMMA ArrayIs ==
  ASSUME NEW R, NEW s \in Seq(R)
  PROVE  /\ Len(s) \in Nat /\ DOMAIN s = 1 .. Len(s) /\ Range(s) \subseteq R
         /\ s \in Seq(Range(s)) /\ \A k \in 1 .. Len(s) : s[k] \in Range(s)
  BY DEF Range

LEMMA RearrangedSelf ==
  ASSUME NEW R, NEW s \in Seq(R)
  PROVE  Rearranged(s, s)
  BY ArrayIs DEF Rearranged

LEMMA RearrangedTwice ==
  ASSUME NEW R, NEW s \in Seq(R), NEW t, NEW u, Rearranged(t, s), Rearranged(u, t)
  PROVE  Rearranged(u, s)
  BY DEF Rearranged

LEMMA SwappedIs ==
  ASSUME NEW R, NEW s \in Seq(R), NEW j \in 1 .. Len(s), NEW k \in 1 .. Len(s)
  PROVE  /\ Rearranged(Swapped(s, j, k), s)
         /\ Swapped(s, j, k)[j] = s[k] /\ Swapped(s, j, k)[k] = s[j]
         /\ \A m \in 1 .. Len(s) : m \notin {j, k} => Swapped(s, j, k)[m] = s[m]
PROOF
<1> DEFINE t == Swapped(s, j, k)
           at(m) == IF m = j THEN k ELSE IF m = k THEN j ELSE m
<1>1. /\ DOMAIN s = 1 .. Len(s) /\ \A m \in 1 .. Len(s) : s[m] \in Range(s)
      /\ s \in Seq(Range(s)) /\ Len(s) \in Nat
  BY ArrayIs
<1>2. t = [s EXCEPT ![j] = s[k], ![k] = s[j]]
  BY DEF Swapped
<1> HIDE DEF t
<1>3. /\ t \in Seq(Range(s)) /\ Len(t) = Len(s) /\ DOMAIN t = DOMAIN s
      /\ t[j] = s[k] /\ t[k] = s[j] /\ \A m \in 1 .. Len(s) : m \notin {j, k} => t[m] = s[m]
  BY <1>1, <1>2
<1>4. /\ \A m \in DOMAIN s : at(m) \in DOMAIN s /\ t[m] = s[at(m)] /\ s[m] = t[at(m)]
      /\ \A m, n \in DOMAIN s : at(m) = at(n) => m = n
  BY <1>1, <1>3
<1> HIDE DEF at
<1>5. Range(t) = Range(s)
  <2>1. \A m \in DOMAIN s : \E n \in DOMAIN s : t[m] = s[n]
    BY <1>4
  <2>2. \A m \in DOMAIN s : \E n \in DOMAIN s : s[m] = t[n]
    BY <1>4
  <2>3. DOMAIN t = DOMAIN s
    BY <1>3
  <2> QED  BY ONLY <2>1, <2>2, <2>3 DEF Range
<1>6. IsInjective(s) => IsInjective(t)
  BY <1>3, <1>4 DEF IsInjective
<1> QED  BY <1>3, <1>5, <1>6 DEF Rearranged, t

\* The array and store after some turns: the elements below store come before the last one, those
\* from store on that have been looked at do not.
PartlySorted(q, base, before, p) ==
  LET n == Len(base)
  IN  /\ q = [s |-> q.s, store |-> q.store]
      /\ Rearranged(q.s, base)
      /\ q.store \in 1 .. p + 1
      /\ \A k \in 1 .. q.store - 1 : Before(before, q.s[k], q.s[n])
      /\ \A k \in q.store .. p : ~Before(before, q.s[k], q.s[n])

LEMMA PartitionTurn ==
  ASSUME NEW R, NEW base \in Seq(R), NEW before, NEW p \in 1 .. Len(base) - 1,
         NEW q, PartlySorted(q, base, before, p - 1)
  PROVE  PartlySorted(IF before[q.s[p]][q.s[Len(base)]]
                      THEN [s |-> Swapped(q.s, q.store, p), store |-> q.store + 1] ELSE q,
                      base, before, p)
PROOF
<1> DEFINE n == Len(base)
           s == q.s
           t == Swapped(s, q.store, p)
<1>1. /\ Rearranged(s, base) /\ q.store \in 1 .. p /\ n \in Nat /\ p \in 1 .. n /\ n \in 1 .. n
      /\ s \in Seq(Range(base)) /\ Len(s) = n
      /\ \A k \in 1 .. q.store - 1 : Before(before, s[k], s[n])
      /\ \A k \in q.store .. p - 1 : ~Before(before, s[k], s[n])
  BY DEF PartlySorted, Rearranged
<1> DEFINE c == before[s[p]][s[n]]
           Turned == PartlySorted(IF c THEN [s |-> t, store |-> q.store + 1] ELSE q, base, before, p)
<1>2. c = Before(before, s[p], s[n])
  BY DEF Before
<1> HIDE DEF c
<1>3. ASSUME Before(before, s[p], s[n]) PROVE Turned
  <2>1. /\ Rearranged(t, s) /\ t[q.store] = s[p] /\ t[p] = s[q.store]
        /\ \A m \in 1 .. n : m \notin {q.store, p} => t[m] = s[m]
    <3>1. s \in Seq(Range(base)) /\ q.store \in 1 .. Len(s) /\ p \in 1 .. Len(s) /\ Len(s) = n
      BY <1>1
    <3>2. /\ Rearranged(t, s) /\ t[q.store] = s[p] /\ t[p] = s[q.store]
          /\ \A m \in 1 .. Len(s) : m \notin {q.store, p} => t[m] = s[m]
      <4> DEFINE j == q.store
      <4>1. s \in Seq(Range(base)) /\ j \in 1 .. Len(s) /\ p \in 1 .. Len(s)
        BY <3>1
      <4> HIDE DEF s, j
      <4>2. /\ Rearranged(Swapped(s, j, p), s)
            /\ Swapped(s, j, p)[j] = s[p] /\ Swapped(s, j, p)[p] = s[j]
            /\ \A m \in 1 .. Len(s) : m \notin {j, p} => Swapped(s, j, p)[m] = s[m]
        BY ONLY <4>1, SwappedIs
      <4> QED  BY <4>2 DEF j
    <3> QED  BY <3>1, <3>2
  <2>2. Rearranged(t, base)
    BY <1>1, <2>1, RearrangedTwice
  <2> HIDE DEF t, s
  <2>3. t[n] = s[n]
    BY <1>1, <2>1
  <2>4. \A k \in 1 .. q.store : Before(before, t[k], t[n])
    BY <1>1, <1>3, <2>1, <2>3, SMTT(20)
  <2>5. \A k \in q.store + 1 .. p : ~Before(before, t[k], t[n])
    BY <1>1, <1>3, <2>1, <2>3, SMTT(20)
  <2> DEFINE r == [s |-> t, store |-> q.store + 1]
  <2>6. r.s = t /\ r.store = q.store + 1 /\ r = [s |-> r.s, store |-> r.store]
    OBVIOUS
  <2> HIDE DEF r
  <2>7. r.store \in 1 .. p + 1 /\ r.store - 1 = q.store
    BY <1>1, <2>6
  <2>8. PartlySorted(r, base, before, p)
    BY <2>2, <2>4, <2>5, <2>6, <2>7 DEF PartlySorted
  <2>9. (IF c THEN r ELSE q) = r
    BY <1>2, <1>3 DEF s
  <2> QED  BY <2>8, <2>9 DEF r
<1>4. ASSUME ~Before(before, s[p], s[n]) PROVE Turned
  <2>1. \A k \in q.store .. p : ~Before(before, s[k], s[n])
    BY <1>1, <1>4
  <2>2. /\ q.store \in 1 .. p + 1 /\ q = [s |-> q.s, store |-> q.store]
    BY <1>1 DEF PartlySorted
  <2>3. PartlySorted(q, base, before, p)
    BY <1>1, <2>1, <2>2 DEF PartlySorted
  <2>4. (IF c THEN [s |-> t, store |-> q.store + 1] ELSE q) = q
    BY <1>2, <1>4
  <2> QED  BY <2>3, <2>4
<1>5. Turned
  <2> HIDE DEF Turned
  <2> QED  BY <1>3, <1>4
<1> QED  BY <1>5 DEF c

LEMMA PartitionIs ==
  ASSUME NEW R, NEW base \in Seq(R), Len(base) > 1, NEW before
  PROVE  LET part == Partition(base, before)
         IN  /\ Rearranged(part.s, base)
             /\ part.store \in 1 .. Len(base)
             /\ \A k \in 1 .. part.store - 1 : Before(before, part.s[k], part.s[part.store])
             /\ \A k \in part.store + 1 .. Len(base) :
                  ~Before(before, part.s[k], part.s[part.store])
PROOF
<1> DEFINE n == Len(base)
           first == [s |-> Swapped(base, n \div 2 + 1, n), store |-> 1]
           Turn(q, p) == IF before[q.s[p]][q.s[n]]
                         THEN [s |-> Swapped(q.s, q.store, p), store |-> q.store + 1]
                         ELSE q
           Turns(g, e) == g = [p \in 0 .. e |-> IF p = 0 THEN first ELSE Turn(g[p - 1], p)]
           S == {m \in Nat : \E g : Turns(g, m)}
<1>1. n \in Nat /\ n > 1 /\ n \div 2 + 1 \in 1 .. n
  OBVIOUS
<1>2. \E g : Turns(g, n - 1)
  <2> HIDE DEF first, Turn
  <2>1. 0 \in S
    <3>1. Turns([p \in 0 .. 0 |-> first], 0)
      OBVIOUS
    <3> QED  BY <3>1
  <2>2. ASSUME NEW m \in Nat, m \in S PROVE m + 1 \in S
    <3>1. PICK g : Turns(g, m)
      BY <2>2
    <3> DEFINE h == [p \in 0 .. m + 1 |-> IF p = m + 1 THEN Turn(g[m], m + 1) ELSE g[p]]
    <3>2. Turns(h, m + 1)
      BY <3>1
    <3> HIDE DEF Turns
    <3> QED  BY <3>2
  <2>3. n - 1 \in S
    <3> HIDE DEF S
    <3> QED  BY <1>1, <2>1, <2>2, SetInduction
  <2> QED  BY <2>3
<1> DEFINE f == CHOOSE g : Turns(g, n - 1)
<1>3. Partition(base, before) =
        [s |-> Swapped(f[n - 1].s, f[n - 1].store, n), store |-> f[n - 1].store]
  BY DEF Partition
<1>4. Turns(f, n - 1)
  <2> HIDE DEF Turns
  <2> QED  BY <1>2
<1> HIDE DEF f
<1>5. f[0] = first /\ \A p \in 1 .. n - 1 : f[p] = Turn(f[p - 1], p)
  <2> HIDE DEF first, Turn
  <2> QED  BY <1>1, <1>4
<1> DEFINE P == {p \in Nat : p <= n - 1 => PartlySorted(f[p], base, before, p)}
<1>6. 0 \in P
  <2>1. base \in Seq(R) /\ n \div 2 + 1 \in 1 .. Len(base) /\ n \in 1 .. Len(base)
    BY <1>1
  <2>2. Rearranged(Swapped(base, n \div 2 + 1, n), base)
    <3> DEFINE j == n \div 2 + 1
               e == n
    <3>1. base \in Seq(R) /\ j \in 1 .. Len(base) /\ e \in 1 .. Len(base)
      BY <2>1
    <3> HIDE DEF j, e
    <3>2. Rearranged(Swapped(base, j, e), base)
      BY ONLY <3>1, SwappedIs
    <3> QED  BY <3>2 DEF j, e
  <2> DEFINE t == Swapped(base, n \div 2 + 1, n)
  <2> HIDE DEF t
  <2>3. f[0] = [s |-> t, store |-> 1]
    BY <1>5 DEF t
  <2>4. f[0].s = t /\ f[0].store = 1 /\ f[0] = [s |-> f[0].s, store |-> f[0].store]
    BY <2>3
  <2>5. Rearranged(t, base)
    BY <2>2 DEF t
  <2>6. PartlySorted(f[0], base, before, 0)
    BY <2>4, <2>5 DEF PartlySorted
  <2> QED  BY <2>6
<1>7. ASSUME NEW p \in Nat, p \in P PROVE p + 1 \in P
  <2>1. SUFFICES ASSUME p + 1 <= n - 1 PROVE PartlySorted(f[p + 1], base, before, p + 1)
    OBVIOUS
  <2> DEFINE q == f[p]
             k == p + 1
  <2>2. k \in 1 .. Len(base) - 1 /\ f[k] = Turn(q, k) /\ k - 1 = p
    <3> HIDE DEF Turn
    <3>1. k \in 1 .. n - 1 /\ k - 1 = p
      BY <1>1, <2>1
    <3> HIDE DEF k
    <3>2. f[k] = Turn(f[k - 1], k)
      BY <1>5, <3>1
    <3> QED  BY <3>1, <3>2
  <2>3. PartlySorted(q, base, before, k - 1)
    <3>1. PartlySorted(f[p], base, before, p) /\ k - 1 = p
      BY <1>1, <1>7, <2>1
    <3> QED  BY <3>1
  <2> HIDE DEF q, k
  <2>4. PartlySorted(Turn(q, k), base, before, k)
    BY <2>2, <2>3, PartitionTurn
  <2>5. PartlySorted(f[k], base, before, k)
    <3> HIDE DEF Turn
    <3> QED  BY <2>2, <2>4
  <2> QED  BY <2>5 DEF k
<1>8. PartlySorted(f[n - 1], base, before, n - 1)
  <2>1. n - 1 \in P
    <3> HIDE DEF P
    <3> QED  BY <1>1, <1>6, <1>7, SetInduction
  <2> QED  BY <1>1, <2>1
<1> DEFINE q == f[n - 1]
           u == q.s
           t == Swapped(u, q.store, n)
           part == Partition(base, before)
<1> HIDE DEF q
<1>9. /\ Rearranged(u, base) /\ q.store \in 1 .. n
      /\ u \in Seq(Range(base)) /\ Len(u) = n
      /\ \A k \in 1 .. q.store - 1 : Before(before, u[k], u[n])
      /\ \A k \in q.store .. n - 1 : ~Before(before, u[k], u[n])
  BY <1>1, <1>8 DEF PartlySorted, Rearranged, q
<1>10. part.s = t /\ part.store = q.store
  BY <1>3 DEF q
<1> HIDE DEF part, u
<1>11. /\ Rearranged(t, u) /\ t[q.store] = u[n] /\ t[n] = u[q.store]
       /\ \A m \in 1 .. Len(u) : m \notin {q.store, n} => t[m] = u[m]
  <2> DEFINE j == q.store
             e == n
  <2>1. u \in Seq(Range(base)) /\ j \in 1 .. Len(u) /\ e \in 1 .. Len(u)
    BY <1>1, <1>9
  <2> HIDE DEF j, e
  <2>2. /\ Rearranged(Swapped(u, j, e), u)
        /\ Swapped(u, j, e)[j] = u[e] /\ Swapped(u, j, e)[e] = u[j]
        /\ \A m \in 1 .. Len(u) : m \notin {j, e} => Swapped(u, j, e)[m] = u[m]
    BY ONLY <2>1, SwappedIs
  <2> QED  BY <2>2 DEF j, e
<1>12. Rearranged(t, base)
  BY <1>9, <1>11, RearrangedTwice
<1> HIDE DEF t
<1>13. \A k \in 1 .. q.store - 1 : Before(before, t[k], t[q.store])
  BY <1>1, <1>9, <1>11
<1>14. \A k \in q.store + 1 .. n : ~Before(before, t[k], t[q.store])
  <2>1. ASSUME NEW k \in q.store + 1 .. n PROVE ~Before(before, t[k], t[q.store])
    <3>1. CASE k = n
      BY <1>1, <1>9, <1>11, <2>1, <3>1
    <3>2. CASE k # n
      BY <1>1, <1>9, <1>11, <2>1, <3>2, SMTT(20)
    <3> QED  BY <3>1, <3>2
  <2> QED  BY <2>1
<1> QED  BY <1>9, <1>10, <1>12, <1>13, <1>14 DEF part

LEMMA SidesAre ==
  ASSUME NEW R, NEW t \in Seq(R), NEW m \in 1 .. Len(t)
  PROVE  LET l == SubSeq(t, 1, m - 1)
             r == SubSeq(t, m + 1, Len(t))
         IN  /\ l \in Seq(R) /\ Len(l) = m - 1 /\ \A k \in 1 .. m - 1 : l[k] = t[k]
             /\ r \in Seq(R) /\ Len(r) = Len(t) - m /\ \A k \in 1 .. Len(t) - m : r[k] = t[m + k]
             /\ Range(l) = {t[k] : k \in 1 .. m - 1}
             /\ Range(r) = {t[k] : k \in m + 1 .. Len(t)}
             /\ IsInjective(t) => IsInjective(l) /\ IsInjective(r)
PROOF
<1> DEFINE l == SubSeq(t, 1, m - 1)
           r == SubSeq(t, m + 1, Len(t))
<1>1. Len(t) \in Nat /\ DOMAIN t = 1 .. Len(t) /\ m \in Nat /\ m >= 1 /\ m <= Len(t)
  OBVIOUS
<1>2. l \in Seq(R) /\ Len(l) = m - 1 /\ \A k \in 1 .. m - 1 : l[k] = t[k]
  BY <1>1
<1>3. r \in Seq(R) /\ Len(r) = Len(t) - m /\ \A k \in 1 .. Len(t) - m : r[k] = t[m + k]
  <2>1. r = [k \in 1 .. Len(t) - m |-> t[m + k]]
    <3>1. (Len(t) - (m + 1)) + 1 = Len(t) - m /\ \A k \in 1 .. Len(t) - m : (k + (m + 1)) - 1 = m + k
      BY <1>1
    <3> QED  BY <1>1, <3>1
  <2>2. \A k \in 1 .. Len(t) - m : t[m + k] \in R
    BY <1>1
  <2>3. Len(t) - m \in Nat
    BY <1>1
  <2> QED  BY <2>1, <2>2, <2>3
<1> HIDE DEF l, r
<1>4. DOMAIN l = 1 .. m - 1 /\ DOMAIN r = 1 .. Len(t) - m
  BY <1>2, <1>3
<1>5. Range(l) = {t[k] : k \in 1 .. m - 1}
  BY <1>2, <1>4 DEF Range
<1>6. Range(r) = {t[k] : k \in m + 1 .. Len(t)}
  <2>1. ASSUME NEW x \in Range(r) PROVE x \in {t[k] : k \in m + 1 .. Len(t)}
    <3>1. PICK k \in 1 .. Len(t) - m : x = r[k]
      BY <1>4, <2>1 DEF Range
    <3>2. m + k \in m + 1 .. Len(t) /\ x = t[m + k]
      BY <1>1, <1>3, <3>1
    <3> QED  BY <3>2
  <2>2. ASSUME NEW k \in m + 1 .. Len(t) PROVE t[k] \in Range(r)
    <3>1. k - m \in 1 .. Len(t) - m /\ m + (k - m) = k
      BY <1>1
    <3>2. r[k - m] = t[k]
      BY <1>3, <3>1
    <3> QED  BY <1>4, <3>1, <3>2 DEF Range
  <2> QED  BY <2>1, <2>2
<1>7. IsInjective(t) => IsInjective(l)
  BY <1>1, <1>2, <1>4 DEF IsInjective
<1>8. IsInjective(t) => IsInjective(r)
  <2>1. ASSUME IsInjective(t), NEW j \in DOMAIN r, NEW k \in DOMAIN r, r[j] = r[k] PROVE j = k
    <3>1. t[m + j] = t[m + k] /\ m + j \in DOMAIN t /\ m + k \in DOMAIN t /\ j \in Int /\ k \in Int
      BY <1>1, <1>3, <1>4, <2>1
    <3>2. m + j = m + k
      BY <2>1, <3>1 DEF IsInjective
    <3> QED  BY <1>1, <3>1, <3>2
  <2> QED  BY <2>1 DEF IsInjective
<1> QED  BY <1>2, <1>3, <1>5, <1>6, <1>7, <1>8 DEF l, r

\* u is t with what is on either side of m rearranged into a and b.
Joined(u, a, t, m, b) ==
  /\ Rearranged(a, SubSeq(t, 1, m - 1)) /\ Rearranged(b, SubSeq(t, m + 1, Len(t)))
  /\ u = a \o <<t[m]>> \o b

\* The element at m stays there while what is on either side of it is rearranged.
LEMMA JoinedIs ==
  ASSUME NEW R, NEW t \in Seq(R), NEW m \in 1 .. Len(t), NEW a, NEW b, NEW u, Joined(u, a, t, m, b)
  PROVE  /\ Rearranged(u, t)
         /\ u[m] = t[m]
         /\ \A k \in 1 .. m - 1 : \E j \in 1 .. m - 1 : u[k] = t[j]
         /\ \A k \in m + 1 .. Len(t) : \E j \in m + 1 .. Len(t) : u[k] = t[j]
         /\ Len(a) = m - 1 /\ \A k \in 1 .. m - 1 : u[k] = a[k]
         /\ Len(b) = Len(t) - m /\ \A k \in m + 1 .. Len(t) : u[k] = b[k - m]
PROOF
<1> DEFINE l == SubSeq(t, 1, m - 1)
           r == SubSeq(t, m + 1, Len(t))
           n == Len(t)
<1>1. n \in Nat /\ DOMAIN t = 1 .. n /\ m \in 1 .. n /\ \A k \in 1 .. n : t[k] \in Range(t)
  BY ArrayIs
<1>2. /\ Len(l) = m - 1 /\ Len(r) = n - m
      /\ Range(l) = {t[k] : k \in 1 .. m - 1} /\ Range(r) = {t[k] : k \in m + 1 .. n}
      /\ IsInjective(t) => IsInjective(l) /\ IsInjective(r)
  BY SidesAre
<1> HIDE DEF l, r
<1>3. /\ Rearranged(a, l) /\ Rearranged(b, r)
  BY DEF Joined, l, r
<1>4. /\ Len(a) = m - 1 /\ Len(b) = n - m /\ DOMAIN a = 1 .. m - 1 /\ DOMAIN b = 1 .. n - m
      /\ Range(a) = {t[k] : k \in 1 .. m - 1} /\ Range(b) = {t[k] : k \in m + 1 .. n}
      /\ IsInjective(t) => IsInjective(a) /\ IsInjective(b)
      /\ a \in Seq(Range(l)) /\ b \in Seq(Range(r))
  <2>1. /\ a \in Seq(Range(l)) /\ Len(a) = Len(l) /\ Range(a) = Range(l)
        /\ IsInjective(l) => IsInjective(a)
    BY <1>3 DEF Rearranged
  <2>2. /\ b \in Seq(Range(r)) /\ Len(b) = Len(r) /\ Range(b) = Range(r)
        /\ IsInjective(r) => IsInjective(b)
    BY <1>3 DEF Rearranged
  <2>3. DOMAIN a = 1 .. Len(a) /\ DOMAIN b = 1 .. Len(b)
    BY <2>1, <2>2
  <2> QED  BY <1>2, <2>1, <2>2, <2>3
<1>5. a \in Seq(Range(t)) /\ b \in Seq(Range(t)) /\ <<t[m]>> \in Seq(Range(t))
  <2>1. Range(l) \subseteq Range(t) /\ Range(r) \subseteq Range(t)
    BY <1>1, <1>2
  <2> QED  BY <1>1, <1>4, <2>1
<1>6. /\ u \in Seq(Range(t)) /\ Len(u) = n /\ DOMAIN u = 1 .. n
      /\ \A k \in 1 .. m - 1 : u[k] = a[k]
      /\ u[m] = t[m]
      /\ \A k \in m + 1 .. n : u[k] = b[k - m]
  <2> HIDE DEF n
  <2>1. Len(a) + 1 = m /\ Len(a) \in Nat /\ Len(b) \in Nat /\ m + Len(b) = n
    BY <1>1, <1>4
  <2> DEFINE v == a \o <<t[m]>>
  <2>2. /\ v \in Seq(Range(t)) /\ Len(v) = m
        /\ \A k \in 1 .. m : v[k] = IF k <= m - 1 THEN a[k] ELSE <<t[m]>>[k - (m - 1)]
    <3>1. Len(a) = m - 1 /\ Len(<<t[m]>>) = 1 /\ (m - 1) + 1 = m
      BY <1>1, <1>4
    <3> DEFINE c == <<t[m]>>
    <3> HIDE DEF c
    <3> QED  BY <1>5, <3>1, ConcatProperties DEF c
  <2>3. v[m] = t[m] /\ \A k \in 1 .. m - 1 : v[k] = a[k]
    BY <2>2, <1>1
  <2> HIDE DEF v
  <2>4. /\ v \o b \in Seq(Range(t)) /\ Len(v \o b) = n
        /\ \A k \in 1 .. n : (v \o b)[k] = IF k <= m THEN v[k] ELSE b[k - m]
    <3>1. Len(v) + Len(b) = n /\ Len(v) = m
      BY <2>1, <2>2
    <3>2. /\ v \o b \in Seq(Range(t)) /\ Len(v \o b) = Len(v) + Len(b)
          /\ \A k \in 1 .. Len(v) + Len(b) : (v \o b)[k] = IF k <= Len(v) THEN v[k] ELSE b[k - Len(v)]
      BY <1>5, <2>2, ConcatProperties
    <3> QED  BY <3>1, <3>2
  <2>5. u = v \o b
    BY DEF v, Joined
  <2>6. u \in Seq(Range(t)) /\ Len(u) = n /\ \A k \in 1 .. n : u[k] = IF k <= m THEN v[k] ELSE b[k - m]
    BY <2>4, <2>5
  <2>7. m \in 1 .. n /\ n \in Nat
    BY <1>1 DEF n
  <2>8. DOMAIN u = 1 .. n
    BY <2>6
  <2>9. \A k \in 1 .. n : u[k] = IF k <= m THEN v[k] ELSE b[k - m]
    BY <2>6
  <2>10. \A k \in 1 .. m - 1 : u[k] = a[k]
    BY <2>3, <2>7, <2>9
  <2>11. u[m] = t[m]
    BY <2>3, <2>7, <2>9
  <2>12. ASSUME NEW k \in m + 1 .. n PROVE u[k] = b[k - m]
    <3>1. k \in 1 .. n /\ ~(k <= m)
      BY <2>7
    <3> QED  BY <2>9, <3>1
  <2> QED  BY <2>6, <2>8, <2>10, <2>11, <2>12
<1>7. \A k \in 1 .. m - 1 : \E j \in 1 .. m - 1 : u[k] = t[j]
  <2>1. ASSUME NEW k \in 1 .. m - 1 PROVE a[k] \in Range(a)
    BY <1>4 DEF Range
  <2>2. \A k \in 1 .. m - 1 : \E j \in 1 .. m - 1 : a[k] = t[j]
    BY <1>4, <2>1
  <2>3. \A k \in 1 .. m - 1 : u[k] = a[k]
    BY <1>6
  <2> QED  BY <2>2, <2>3
<1>8. \A k \in m + 1 .. n : \E j \in m + 1 .. n : u[k] = t[j]
  <2>1. ASSUME NEW k \in m + 1 .. n PROVE b[k - m] \in Range(b)
    <3>1. k - m \in 1 .. n - m
      BY <1>1
    <3> QED  BY <1>4, <3>1 DEF Range
  <2> QED  BY <1>4, <1>6, <2>1
<1>9. Range(u) = Range(t)
  <2>1. Range(u) \subseteq Range(t)
    <3>1. \A k \in 1 .. n : u[k] \in Range(t)
      BY <1>6
    <3> QED  BY <1>6, <3>1 DEF Range
  <2>2. ASSUME NEW k \in 1 .. n PROVE t[k] \in Range(u)
    <3>1. CASE k < m
      <4>1. t[k] \in Range(a)
        BY <1>1, <1>4, <3>1
      <4>2. PICK j \in 1 .. m - 1 : a[j] = t[k]
        BY <1>4, <4>1 DEF Range
      <4>3. j \in 1 .. n /\ u[j] = t[k]
        BY <1>1, <1>6, <4>2
      <4> QED  BY <1>6, <4>3 DEF Range
    <3>2. CASE k = m
      BY <1>6, <3>2 DEF Range
    <3>3. CASE k > m
      <4>1. t[k] \in Range(b)
        BY <1>1, <1>4, <3>3
      <4>2. PICK j \in 1 .. n - m : b[j] = t[k]
        BY <1>4, <4>1 DEF Range
      <4>3. m + j \in m + 1 .. n /\ (m + j) - m = j /\ m + j \in 1 .. n
        BY <1>1, <4>2
      <4>4. u[m + j] = t[k]
        BY <1>6, <4>2, <4>3
      <4> QED  BY <1>6, <4>3, <4>4 DEF Range
    <3> QED  BY <1>1, <3>1, <3>2, <3>3
  <2> QED  BY <1>1, <2>1, <2>2 DEF Range
<1>10. ASSUME IsInjective(t), NEW j \in 1 .. n, NEW k \in 1 .. n, u[j] = u[k], j < k PROVE FALSE
  <2>1. \A x, y \in 1 .. n : t[x] = t[y] => x = y
    BY <1>1, <1>10 DEF IsInjective
  <2>2. /\ \A x, y \in 1 .. m - 1 : a[x] = a[y] => x = y
        /\ \A x, y \in 1 .. n - m : b[x] = b[y] => x = y
    BY <1>4, <1>10 DEF IsInjective
  <2>3. CASE k < m
    BY <1>1, <1>6, <1>10, <2>2, <2>3
  <2>4. CASE j > m
    <3>1. j - m \in 1 .. n - m /\ k - m \in 1 .. n - m /\ j - m # k - m
      BY <1>1, <1>10, <2>4
    <3>2. u[j] = b[j - m] /\ u[k] = b[k - m]
      BY <1>1, <1>6, <1>10, <2>4
    <3> QED  BY <1>10, <2>2, <3>1, <3>2
  <2>5. CASE j <= m /\ k >= m
    <3>1. PICK x \in 1 .. m : u[j] = t[x] /\ (j < m => x < m) /\ (j = m => x = m)
      <4>1. CASE j = m
        BY <1>1, <1>6, <4>1
      <4>2. CASE j < m
        <5>1. j \in 1 .. m - 1
          BY <1>1, <4>2
        <5>2. PICK x \in 1 .. m - 1 : u[j] = t[x]
          BY <1>7, <5>1
        <5> QED  BY <1>1, <4>2, <5>2
      <4> QED  BY <1>1, <2>5, <4>1, <4>2
    <3>2. PICK y \in m .. n : u[k] = t[y] /\ (k > m => y > m) /\ (k = m => y = m)
      <4>1. CASE k = m
        BY <1>1, <1>6, <4>1
      <4>2. CASE k > m
        <5>1. k \in m + 1 .. n
          BY <1>1, <4>2
        <5>2. PICK y \in m + 1 .. n : u[k] = t[y]
          BY <1>8, <5>1
        <5> QED  BY <1>1, <4>2, <5>2
      <4> QED  BY <1>1, <2>5, <4>1, <4>2
    <3>3. x # y
      BY <1>1, <1>10, <2>5, <3>1, <3>2
    <3>4. x \in 1 .. n
      BY <1>1, <3>1
    <3>5. y \in 1 .. n
      BY <1>1, <3>2
    <3>6. t[x] = t[y]
      BY <1>10, <3>1, <3>2
    <3> QED  BY <2>1, <3>3, <3>4, <3>5, <3>6
  <2> QED  BY <1>1, <2>3, <2>4, <2>5
<1>11. IsInjective(t) => IsInjective(u)
  <2>1. ASSUME IsInjective(t), NEW j \in 1 .. n, NEW k \in 1 .. n, u[j] = u[k] PROVE j = k
    BY <1>1, <1>10, <2>1
  <2> QED  BY <1>6, <2>1 DEF IsInjective
<1>12. Rearranged(u, t)
  BY <1>6, <1>9, <1>11 DEF Rearranged
<1> QED  BY <1>4, <1>6, <1>7, <1>8, <1>12

\* Two parts, each in order, make one if what is between them comes before nothing in the first and
\* nothing in the second before it.
LEMMA JoinedInOrder ==
  ASSUME NEW R, NEW t \in Seq(R), NEW m \in 1 .. Len(t), NEW a, NEW b, NEW before,
         InOrder(a, before), InOrder(b, before), StrictOrder(R, before),
         \A k \in 1 .. m - 1 : Before(before, t[k], t[m]),
         \A k \in m + 1 .. Len(t) : ~Before(before, t[k], t[m]),
         NEW u, Joined(u, a, t, m, b)
  PROVE  InOrder(u, before)
PROOF
<1> DEFINE n == Len(t)
<1>0. t \in Seq(R) /\ m \in 1 .. n /\ Joined(u, a, t, m, b)
  OBVIOUS
<1>1. /\ Rearranged(u, t)
      /\ u[m] = t[m]
      /\ \A k \in 1 .. m - 1 : \E j \in 1 .. m - 1 : u[k] = t[j]
      /\ \A k \in m + 1 .. n : \E j \in m + 1 .. n : u[k] = t[j]
      /\ Len(a) = m - 1 /\ \A k \in 1 .. m - 1 : u[k] = a[k]
      /\ Len(b) = n - m /\ \A k \in m + 1 .. n : u[k] = b[k - m]
  <2>1. Rearranged(u, t)
    BY ONLY <1>0, JoinedIs
  <2>2. u[m] = t[m]
    BY ONLY <1>0, JoinedIs
  <2>3. ASSUME NEW k \in 1 .. m - 1 PROVE \E j \in 1 .. m - 1 : u[k] = t[j]
    BY ONLY <1>0, <2>3, JoinedIs
  <2>4. ASSUME NEW k \in m + 1 .. n PROVE \E j \in m + 1 .. n : u[k] = t[j]
    BY ONLY <1>0, <2>4, JoinedIs
  <2>5. Len(a) = m - 1 /\ \A k \in 1 .. m - 1 : u[k] = a[k]
    BY ONLY <1>0, JoinedIs
  <2>6. Len(b) = n - m /\ \A k \in m + 1 .. n : u[k] = b[k - m]
    BY ONLY <1>0, JoinedIs
  <2> QED  BY <2>1, <2>2, <2>3, <2>4, <2>5, <2>6
<1>2. n \in Nat /\ m \in 1 .. n /\ DOMAIN u = 1 .. n /\ \A k \in 1 .. n : t[k] \in R
  BY <1>1 DEF Rearranged
<1>3. DOMAIN a = 1 .. m - 1 /\ DOMAIN b = 1 .. n - m
  BY <1>1 DEF Rearranged
<1>4. \A x, y, z \in R : ~Before(before, x, x) /\ (Before(before, x, y) /\ Before(before, y, z) => Before(before, x, z))
  BY DEF StrictOrder
<1>5. ASSUME NEW j \in 1 .. n, NEW k \in 1 .. n, j < k PROVE ~Before(before, u[k], u[j])
  <2>1. CASE k < m
    <3>1. j \in 1 .. m - 1 /\ k \in 1 .. m - 1
      BY <1>2, <1>5, <2>1
    <3>2. ~Before(before, a[k], a[j])
      BY <1>3, <1>5, <3>1 DEF InOrder
    <3> QED  BY <1>1, <3>1, <3>2
  <2>2. CASE j > m
    <3>1. /\ j \in m + 1 .. n /\ k \in m + 1 .. n
          /\ j - m \in 1 .. n - m /\ k - m \in 1 .. n - m /\ j - m < k - m
      BY <1>2, <1>5, <2>2
    <3>2. ~Before(before, b[k - m], b[j - m])
      BY <1>3, <3>1 DEF InOrder
    <3> QED  BY <1>1, <3>1, <3>2
  <2>3. CASE j < m /\ k > m
    <3>0. j \in 1 .. m - 1 /\ k \in m + 1 .. n
      BY <1>2, <2>3
    <3>1. PICK x \in 1 .. m - 1 : u[j] = t[x]
      BY <1>1, <3>0
    <3>2. PICK y \in m + 1 .. n : u[k] = t[y]
      BY <1>1, <3>0
    <3>3. Before(before, t[x], t[m]) /\ ~Before(before, t[y], t[m])
      BY <3>1, <3>2
    <3>4. x \in 1 .. n /\ y \in 1 .. n
      BY <1>2
    <3>5. t[x] \in R /\ t[y] \in R /\ t[m] \in R
      BY <1>2, <3>4
    <3> QED  BY <1>4, <3>1, <3>2, <3>3, <3>5
  <2>4. CASE j = m
    <3>0. k \in m + 1 .. n
      BY <1>2, <1>5, <2>4
    <3>1. PICK y \in m + 1 .. n : u[k] = t[y]
      BY <1>1, <3>0
    <3> QED  BY <1>1, <2>4, <3>1
  <2>5. CASE k = m
    <3>0. j \in 1 .. m - 1
      BY <1>2, <1>5, <2>5
    <3>1. PICK x \in 1 .. m - 1 : u[j] = t[x]
      BY <1>1, <3>0
    <3>2. Before(before, t[x], t[m]) /\ x \in 1 .. n
      BY <1>2, <3>1
    <3>3. t[x] \in R /\ t[m] \in R
      BY <1>2, <3>2
    <3> QED  BY <1>1, <1>4, <2>5, <3>1, <3>2, <3>3
  <2> QED  BY <1>2, <1>5, <2>1, <2>2, <2>3, <2>4, <2>5
<1> QED  BY <1>2, <1>5 DEF InOrder

\* What the recursion of qsort makes of an array, for any function in the place of impl.
Sorting(f, s, before) ==
  IF Len(s) <= 1 THEN s
  ELSE LET part == Partition(s, before)
       IN  f[SubSeq(part.s, 1, part.store - 1)] \o <<part.s[part.store]>>
             \o f[SubSeq(part.s, part.store + 1, Len(s))]

\* The parts of an array after Partition.
LEMMA PartsAre ==
  ASSUME NEW R, NEW s \in Seq(R), Len(s) > 1, NEW before
  PROVE  LET part == Partition(s, before)
             l == SubSeq(part.s, 1, part.store - 1)
             r == SubSeq(part.s, part.store + 1, Len(s))
         IN  /\ part.s \in Seq(R) /\ Len(part.s) = Len(s) /\ part.store \in 1 .. Len(s)
             /\ part.s[part.store] \in R
             /\ l \in Seq(R) /\ Len(l) \in Nat /\ Len(l) < Len(s)
             /\ r \in Seq(R) /\ Len(r) \in Nat /\ Len(r) < Len(s)
             /\ Rearranged(part.s, s)
PROOF
<1> DEFINE part == Partition(s, before)
           t == part.s
           m == part.store
           l == SubSeq(t, 1, m - 1)
           r == SubSeq(t, m + 1, Len(s))
<1>1. Rearranged(t, s) /\ m \in 1 .. Len(s)
  BY PartitionIs
<1> HIDE DEF part
<1>2. t \in Seq(R) /\ Len(t) = Len(s) /\ Len(s) \in Nat
  <2>1. t \in Seq(Range(s)) /\ Range(s) \subseteq R /\ Len(t) = Len(s) /\ Len(s) \in Nat
    BY <1>1, ArrayIs DEF Rearranged
  <2> HIDE DEF t
  <2> QED  BY <2>1
<1>3. m \in 1 .. Len(t) /\ r = SubSeq(t, m + 1, Len(t))
  BY <1>1, <1>2
<1> HIDE DEF t, m
<1>4. /\ SubSeq(t, 1, m - 1) \in Seq(R) /\ Len(SubSeq(t, 1, m - 1)) = m - 1
      /\ SubSeq(t, m + 1, Len(t)) \in Seq(R) /\ Len(SubSeq(t, m + 1, Len(t))) = Len(t) - m
  BY <1>2, <1>3, SidesAre
<1>5. /\ l \in Seq(R) /\ Len(l) = m - 1 /\ r \in Seq(R) /\ Len(r) = Len(s) - m
  BY <1>2, <1>3, <1>4
<1> HIDE DEF l, r
<1>6. Len(l) \in Nat /\ Len(l) < Len(s) /\ Len(r) \in Nat /\ Len(r) < Len(s)
  BY <1>1, <1>2, <1>5
<1>7. t[m] \in R
  BY <1>2, <1>3
<1> QED  BY <1>1, <1>2, <1>5, <1>6, <1>7 DEF part, t, m, l, r

Arrays(base) == {s \in Seq(Range(base)) : Len(s) <= Len(base)}

\* The recursion of qsort defines a function.
LEMMA ImplExists ==
  ASSUME NEW R, NEW base \in Seq(R), NEW before
  PROVE  \E f : f = [s \in Arrays(base) |-> Sorting(f, s, before)]
PROOF
<1> DEFINE D == Arrays(base)
           V == Seq(Range(base))
           mu == [s \in D |-> Len(s)]
           B == [f \in [D -> V] |-> [s \in D |-> Sorting(f, s, before)]]
<1>1. \A s \in D : s \in V /\ Len(s) \in Nat /\ Len(s) <= Len(base)
  BY DEF Arrays
<1>2. \A s \in V : Len(s) \in Nat /\ Len(s) <= Len(base) => s \in D
  BY DEF Arrays
<1> HIDE DEF D
<1>3. \A f \in [D -> V], s \in D : B[f][s] = Sorting(f, s, before)
  OBVIOUS
<1>4. \A s \in D : mu[s] = Len(s)
  OBVIOUS
<1>5. mu \in [D -> Nat] /\ (\A s \in D : mu[s] <= Len(base)) /\ Len(base) \in Nat /\ <<>> \in V
  BY <1>1
<1> HIDE DEF B, mu
<1> DEFINE Left(s) == SubSeq(Partition(s, before).s, 1, Partition(s, before).store - 1)
           Right(s) == SubSeq(Partition(s, before).s, Partition(s, before).store + 1, Len(s))
           Middle(s) == Partition(s, before).s[Partition(s, before).store]
<1>6. ASSUME NEW s \in D, Len(s) > 1
      PROVE  /\ Left(s) \in D /\ Len(Left(s)) < Len(s)
             /\ Right(s) \in D /\ Len(Right(s)) < Len(s)
             /\ Middle(s) \in Range(base)
  <2>1. /\ Left(s) \in V /\ Len(Left(s)) \in Nat /\ Len(Left(s)) < Len(s)
        /\ Right(s) \in V /\ Len(Right(s)) \in Nat /\ Len(Right(s)) < Len(s)
        /\ Middle(s) \in Range(base)
    <3>1. s \in Seq(Range(base)) /\ Len(s) > 1
      BY <1>1, <1>6
    <3> QED  BY ONLY <3>1, PartsAre
  <2> HIDE DEF Left, Right, Middle
  <2> QED  BY <1>1, <1>2, <1>5, <2>1
<1>7. \A f, s : Sorting(f, s, before) =
        IF Len(s) <= 1 THEN s ELSE f[Left(s)] \o <<Middle(s)>> \o f[Right(s)]
  BY DEF Sorting
<1> HIDE DEF Left, Right, Middle
<1>8. ASSUME NEW f \in [D -> V], NEW s \in D PROVE B[f][s] \in V
  <2>1. CASE Len(s) <= 1
    <3>1. Sorting(f, s, before) = s
      BY <1>7, <2>1
    <3> QED  BY <1>1, <1>3, <3>1
  <2>2. CASE ~(Len(s) <= 1)
    <3>1. Left(s) \in D /\ Right(s) \in D /\ Middle(s) \in Range(base)
      BY <1>1, <1>6, <2>2
    <3>2. f[Left(s)] \in V /\ f[Right(s)] \in V /\ <<Middle(s)>> \in V
      BY <3>1
    <3>3. f[Left(s)] \o <<Middle(s)>> \o f[Right(s)] \in V
      <4> DEFINE x == f[Left(s)]
                 y == <<Middle(s)>>
                 z == f[Right(s)]
      <4>1. x \in V /\ y \in V /\ z \in V
        BY <3>2
      <4> HIDE DEF x, y, z
      <4>2. x \o y \in V
        BY <4>1
      <4>3. (x \o y) \o z \in V
        BY <4>1, <4>2
      <4> QED  BY <4>3 DEF x, y, z
    <3> QED  BY <1>3, <1>7, <2>2, <3>3
  <2> QED  BY <2>1, <2>2
<1>9. ASSUME NEW f \in [D -> V], NEW g \in [D -> V], NEW s \in D,
             \A e \in D : mu[e] < mu[s] => f[e] = g[e]
      PROVE  B[f][s] = B[g][s]
  <2>1. CASE Len(s) <= 1
    <3>1. Sorting(f, s, before) = s
      BY <1>7, <2>1
    <3>2. Sorting(g, s, before) = s
      BY <1>7, <2>1
    <3> QED  BY <1>3, <3>1, <3>2
  <2>2. CASE ~(Len(s) <= 1)
    <3>1. Left(s) \in D /\ Right(s) \in D /\ Len(Left(s)) < Len(s) /\ Len(Right(s)) < Len(s)
      BY <1>1, <1>6, <2>2
    <3>2. f[Left(s)] = g[Left(s)] /\ f[Right(s)] = g[Right(s)]
      BY <1>4, <1>9, <3>1
    <3>3. Sorting(f, s, before) = f[Left(s)] \o <<Middle(s)>> \o f[Right(s)]
      BY <1>7, <2>2
    <3>4. Sorting(g, s, before) = g[Left(s)] \o <<Middle(s)>> \o g[Right(s)]
      BY <1>7, <2>2
    <3>5. Sorting(f, s, before) = Sorting(g, s, before)
      BY ONLY <3>2, <3>3, <3>4
    <3> QED  BY <1>3, <3>5
  <2> QED  BY <2>1, <2>2
<1>10. LooksBelow(B, D, V, mu)
  BY <1>8, <1>9 DEF LooksBelow
<1> HIDE DEF V
<1>11. PICK f \in [D -> V] : \A s \in D : f[s] = B[f][s]
  BY <1>5, <1>10, RecursionExists
<1>12. f = [s \in D |-> Sorting(f, s, before)]
  BY <1>3, <1>11
<1> QED  BY <1>12 DEF D

\* qsort rearranges an array, and puts it in order if before is one.
LEMMA QsortSorts ==
  ASSUME NEW R, NEW base \in Seq(R), NEW before
  PROVE  /\ Rearranged(qsort(base, before), base)
         /\ StrictOrder(Range(base), before) => InOrder(qsort(base, before), before)
PROOF
<1> DEFINE D == Arrays(base)
           Q == Range(base)
           Impl(g) == g = [s \in D |-> Sorting(g, s, before)]
           f == CHOOSE g : Impl(g)
<1>1. qsort(base, before) = f[SubSeq(base, 1, Len(base))]
  BY DEF qsort, Sorting, Arrays
<1>2. \A s \in D : f[s] = Sorting(f, s, before)
  <2>1. \E g : Impl(g)
    BY ImplExists
  <2> HIDE DEF Impl
  <2>2. Impl(f)
    BY <2>1
  <2> HIDE DEF f
  <2> QED  BY <2>2 DEF Impl
<1> HIDE DEF f
<1>3. \A s \in D : s \in Seq(Q) /\ Len(s) \in Nat /\ Len(s) <= Len(base)
  BY DEF Arrays
<1>4. \A s \in Seq(Q) : Len(s) <= Len(base) => s \in D
  BY DEF Arrays
<1> HIDE DEF D
<1> DEFINE Good(s) == Rearranged(f[s], s) /\ (StrictOrder(Q, before) => InOrder(f[s], before))
           S == {n \in Nat : \A s \in D : Len(s) <= n => Good(s)}
<1>5. ASSUME NEW s \in D, Len(s) <= 1 PROVE Good(s)
  <2>1. f[s] = s
    BY <1>2, <1>5 DEF Sorting
  <2>2. Rearranged(s, s)
    BY <1>3, RearrangedSelf
  <2>3. InOrder(s, before)
    BY <1>3, <1>5 DEF InOrder
  <2> QED  BY <2>1, <2>2, <2>3
<1>6. 0 \in S
  BY <1>3, <1>5
<1>7. ASSUME NEW n \in Nat, n \in S PROVE n + 1 \in S
  <2>1. SUFFICES ASSUME NEW s \in D, Len(s) <= n + 1, Len(s) > 1 PROVE Good(s)
    BY <1>3, <1>5
  <2> DEFINE part == Partition(s, before)
             t == part.s
             m == part.store
             l == SubSeq(t, 1, m - 1)
             r == SubSeq(t, m + 1, Len(s))
             a == f[l]
             b == f[r]
  <2>2. s \in Seq(Q) /\ Len(s) > 1 /\ Len(s) \in Nat /\ Len(s) <= Len(base)
    BY <1>3, <2>1
  <2>3. f[s] = a \o <<t[m]>> \o b
    <3>1. f[s] = Sorting(f, s, before)
      BY <1>2
    <3>2. ~(Len(s) <= 1)
      BY <2>2
    <3>3. Sorting(f, s, before) = a \o <<t[m]>> \o b
      BY ONLY <3>2 DEF Sorting
    <3> QED  BY <3>1, <3>3
  <2>4. /\ t \in Seq(Q) /\ Len(t) = Len(s) /\ m \in 1 .. Len(s)
        /\ l \in Seq(Q) /\ Len(l) \in Nat /\ Len(l) < Len(s)
        /\ r \in Seq(Q) /\ Len(r) \in Nat /\ Len(r) < Len(s)
        /\ Rearranged(t, s)
    BY ONLY <2>2, PartsAre
  <2>5. /\ \A k \in 1 .. m - 1 : Before(before, t[k], t[m])
        /\ \A k \in m + 1 .. Len(s) : ~Before(before, t[k], t[m])
    BY ONLY <2>2, PartitionIs
  <2> HIDE DEF part
  <2>6. l \in D /\ r \in D /\ Len(l) <= n /\ Len(r) <= n
    <3> HIDE DEF l, r
    <3>1. Len(base) \in Nat
      OBVIOUS
    <3> QED  BY <1>4, <2>1, <2>2, <2>4, <3>1
  <2>7. Good(l) /\ Good(r)
    <3> HIDE DEF l, r, Good
    <3> QED  BY <1>7, <2>6
  <2>8. r = SubSeq(t, m + 1, Len(t)) /\ m \in 1 .. Len(t)
    BY <2>4
  <2> HIDE DEF t, m
  <2>9. Rearranged(a, SubSeq(t, 1, m - 1)) /\ Rearranged(b, SubSeq(t, m + 1, Len(t)))
    BY <2>7, <2>8
  <2> HIDE DEF l, r, a, b
  <2>10. Joined(f[s], a, t, m, b)
    BY <2>3, <2>9 DEF Joined
  <2>11. Rearranged(f[s], s)
    <3>1. t \in Seq(Q) /\ m \in 1 .. Len(t)
      BY <2>4, <2>8
    <3> HIDE DEF Q
    <3>2. Rearranged(f[s], t)
      BY ONLY <3>1, <2>10, JoinedIs
    <3> QED  BY <2>2, <2>4, <3>2, RearrangedTwice
  <2>12. ASSUME StrictOrder(Q, before) PROVE InOrder(f[s], before)
    <3>1. InOrder(a, before) /\ InOrder(b, before)
      BY <2>7, <2>12 DEF a, b
    <3>2. /\ t \in Seq(Q) /\ m \in 1 .. Len(t)
          /\ \A k \in m + 1 .. Len(t) : ~Before(before, t[k], t[m])
      BY <2>4, <2>5, <2>8
    <3> HIDE DEF Q
    <3> QED  BY ONLY <2>5, <2>10, <2>12, <3>1, <3>2, JoinedInOrder
  <2> QED  BY <2>11, <2>12
<1>8. base \in D /\ SubSeq(base, 1, Len(base)) = base
  <2>1. base \in Seq(Q) /\ Len(base) \in Nat
    BY ArrayIs
  <2> QED  BY <1>4, <2>1
<1>9. Good(base)
  <2>1. Len(base) \in S
    <3> HIDE DEF S
    <3>1. Len(base) \in Nat
      OBVIOUS
    <3> QED  BY <1>6, <1>7, <3>1, SetInduction
  <2> HIDE DEF Good
  <2> QED  BY <1>8, <2>1
<1> QED  BY <1>1, <1>8, <1>9

-----------------------------------------------------------------------------
(***************************************************************************)
(* Sums.                                                                   *)
(***************************************************************************)

\* Induction over the subsets of a finite set, with the set of those the formula holds of.
LEMMA SubsetInduction ==
  ASSUME NEW S, IsFiniteSet(S), NEW A, {} \in A,
         \A T \in SUBSET S : T # {} /\ (\A x \in T : T \ {x} \in A) => T \in A
  PROVE  \A T \in SUBSET S : T \in A
PROOF
<1> DEFINE N == {n \in Nat : \A T \in SUBSET S : Cardinality(T) = n => T \in A}
<1>1. \A T \in SUBSET S : IsFiniteSet(T) /\ Cardinality(T) \in Nat
  BY FS_Subset, FS_CardinalityType
<1>2. 0 \in N
  BY <1>1, FS_EmptySet
<1>3. ASSUME NEW n \in Nat, n \in N PROVE n + 1 \in N
  <2>1. SUFFICES ASSUME NEW T \in SUBSET S, Cardinality(T) = n + 1 PROVE T \in A
    OBVIOUS
  <2>2. T # {}
    <3>1. Cardinality({}) = 0
      BY FS_EmptySet
    <3> QED  BY <2>1, <3>1
  <2>3. ASSUME NEW x \in T PROVE T \ {x} \in A
    <3>1. Cardinality(T \ {x}) = n /\ T \ {x} \in SUBSET S
      BY <1>1, <2>1, <2>3, FS_RemoveElement
    <3> QED  BY <1>3, <3>1
  <2> QED  BY <2>2, <2>3
<1>4. \A n \in Nat : n \in N
  <2> HIDE DEF N
  <2> QED  BY <1>2, <1>3, SetInduction
<1> QED  BY <1>1, <1>4

Weighs(w, S) == IsFiniteSet(S) /\ \A x \in S : w[x] \in Nat

\* it is the recursion of the fold that sums the weights in S.
Sums(w, it, S) ==
  it = [s \in SUBSET S |-> IF s = {} THEN 0
                           ELSE w[CHOOSE x \in s : TRUE] + it[s \ {CHOOSE x \in s : TRUE}]]

Some(s) == CHOOSE x \in s : TRUE

Adds(w, it, S) ==
  /\ it[{}] = 0
  /\ \A T \in SUBSET S : T # {} => Some(T) \in T /\ it[T] = w[Some(T)] + it[T \ {Some(T)}]

LEMMA SumsAre ==
  ASSUME NEW w, NEW S, NEW it, Sums(w, it, S)
  PROVE  Adds(w, it, S)
PROOF
<1>1. \A T \in SUBSET S : T # {} => Some(T) \in T
  BY DEF Some
<1>2. \A T \in SUBSET S : it[T] = IF T = {} THEN 0 ELSE w[Some(T)] + it[T \ {Some(T)}]
  BY DEF Sums, Some
<1> QED  BY <1>1, <1>2 DEF Adds

LEMMA SumsExist ==
  ASSUME NEW w, NEW S, Weighs(w, S)
  PROVE  \E it : Sums(w, it, S)
PROOF
<1> DEFINE D == SUBSET S
           mu == [s \in D |-> Cardinality(s)]
           B == [f \in [D -> Nat] |-> [s \in D |-> IF s = {} THEN 0 ELSE w[Some(s)] + f[s \ {Some(s)}]]]
<1>1. \A s \in D : /\ Cardinality(s) \in Nat /\ Cardinality(s) <= Cardinality(S)
                   /\ \A x \in s : Cardinality(s \ {x}) < Cardinality(s) /\ s \ {x} \in D
  <2>1. ASSUME NEW s \in D PROVE Cardinality(s) \in Nat /\ Cardinality(s) <= Cardinality(S)
    BY FS_Subset, FS_CardinalityType DEF Weighs
  <2>2. ASSUME NEW s \in D, NEW x \in s PROVE Cardinality(s \ {x}) < Cardinality(s) /\ s \ {x} \in D
    <3>1. IsFiniteSet(s)
      BY FS_Subset DEF Weighs
    <3>2. Cardinality(s \ {x}) = Cardinality(s) - 1
      BY <3>1, FS_RemoveElement
    <3> QED  BY <2>1, <3>2
  <2> QED  BY <2>1, <2>2
<1>2. mu \in [D -> Nat] /\ (\A s \in D : mu[s] <= Cardinality(S)) /\ Cardinality(S) \in Nat
  BY <1>1, FS_CardinalityType DEF Weighs
<1>3. \A s \in D : \A x \in s : mu[s \ {x}] < mu[s] /\ s \ {x} \in D
  BY <1>1
<1>4. \A s \in D : s # {} => Some(s) \in s /\ w[Some(s)] \in Nat
  BY DEF Some, Weighs
<1>5. \A f \in [D -> Nat], s \in D : B[f][s] = IF s = {} THEN 0 ELSE w[Some(s)] + f[s \ {Some(s)}]
  OBVIOUS
<1> HIDE DEF B, mu, D
<1>6. ASSUME NEW f \in [D -> Nat], NEW s \in D PROVE B[f][s] \in Nat
  <2>1. CASE s = {}
    BY <1>5, <2>1
  <2>2. CASE s # {}
    <3>1. w[Some(s)] \in Nat /\ f[s \ {Some(s)}] \in Nat
      BY <1>3, <1>4, <2>2
    <3> QED  BY <1>5, <2>2, <3>1
  <2> QED  BY <2>1, <2>2
<1>7. ASSUME NEW f \in [D -> Nat], NEW g \in [D -> Nat], NEW s \in D,
             \A e \in D : mu[e] < mu[s] => f[e] = g[e]
      PROVE  B[f][s] = B[g][s]
  <2>1. CASE s = {}
    BY <1>5, <2>1
  <2>2. CASE s # {}
    BY <1>3, <1>4, <1>5, <1>7, <2>2
  <2> QED  BY <2>1, <2>2
<1>8. LooksBelow(B, D, Nat, mu)
  BY <1>6, <1>7 DEF LooksBelow
<1>9. PICK f \in [D -> Nat] : \A s \in D : f[s] = B[f][s]
  <2> DEFINE V == Nat
             top == Cardinality(S)
  <2>1. 0 \in V /\ mu \in [D -> Nat] /\ (\A s \in D : mu[s] <= top) /\ top \in Nat /\ LooksBelow(B, D, V, mu)
    BY <1>2, <1>8
  <2>2. V = Nat
    OBVIOUS
  <2> HIDE DEF V, top
  <2>3. \E f \in [D -> V] : \A s \in D : f[s] = B[f][s]
    BY ONLY <2>1, RecursionExists
  <2> QED  BY <2>2, <2>3
<1>10. f = [s \in D |-> IF s = {} THEN 0 ELSE w[Some(s)] + f[s \ {Some(s)}]]
  BY <1>5, <1>9
<1> QED  BY <1>10 DEF Sums, Some, D

\* The order in which the fold takes the members does not matter.
LEMMA SumsTake ==
  ASSUME NEW w, NEW S, Weighs(w, S), NEW it, Sums(w, it, S)
  PROVE  \A T \in SUBSET S : it[T] \in Nat /\ \A x \in T : it[T] = w[x] + it[T \ {x}]
PROOF
<1> DEFINE N == {T \in SUBSET S : it[T] \in Nat}
           A == {T \in SUBSET S : \A x \in T : it[T] = w[x] + it[T \ {x}]}
<1>0. IsFiniteSet(S)
  BY DEF Weighs
<1>1. \A T \in SUBSET S : it[T] \in Nat
  <2>1. {} \in N
    BY SumsAre DEF Adds
  <2>2. ASSUME NEW T \in SUBSET S, T # {}, \A x \in T : T \ {x} \in N PROVE T \in N
    <3>1. Some(T) \in T /\ it[T] = w[Some(T)] + it[T \ {Some(T)}]
      BY <2>2, SumsAre DEF Adds
    <3>2. w[Some(T)] \in Nat /\ it[T \ {Some(T)}] \in Nat
      BY <2>2, <3>1 DEF Weighs
    <3> QED  BY <3>1, <3>2
  <2>3. \A T \in SUBSET S : T \in N
    <3> HIDE DEF N
    <3> QED  BY <1>0, <2>1, <2>2, SubsetInduction
  <2> QED  BY <2>3
<1>2. {} \in A
  OBVIOUS
<1>3. ASSUME NEW T \in SUBSET S, T # {}, \A x \in T : T \ {x} \in A PROVE T \in A
  <2> DEFINE y == Some(T)
  <2>1. y \in T /\ it[T] = w[y] + it[T \ {y}]
    BY <1>3, SumsAre, SMTT(20) DEF Adds
  <2> HIDE DEF y
  <2>2. ASSUME NEW x \in T, x # y PROVE it[T] = w[x] + it[T \ {x}]
    <3> DEFINE U == (T \ {x}) \ {y}
    <3>1. /\ it[T \ {y}] = w[x] + it[(T \ {y}) \ {x}]
          /\ it[T \ {x}] = w[y] + it[U]
      BY <1>3, <2>1, <2>2
    <3>2. it[T \ {y}] = w[x] + it[U]
      <4>1. (T \ {y}) \ {x} = U
        OBVIOUS
      <4> HIDE DEF U
      <4> QED  BY <3>1, <4>1
    <3>3. w[x] \in Nat /\ w[y] \in Nat /\ it[U] \in Nat
      BY <1>1, <2>1, <2>2 DEF Weighs
    <3> HIDE DEF U
    <3>4. it[T] = w[y] + it[T \ {y}] /\ it[T \ {x}] = w[y] + it[U]
      BY <2>1, <3>1
    <3> QED  BY ONLY <3>2, <3>3, <3>4
  <2> QED  BY <2>1, <2>2
<1>4. \A T \in SUBSET S : T \in A
  <2> HIDE DEF A
  <2> QED  BY <1>0, <1>2, <1>3, SubsetInduction
<1> QED  BY <1>1, <1>4

\* What is summed over a set is the same in every set that contains it.
LEMMA SumsAgree ==
  ASSUME NEW w, NEW S, NEW R \in SUBSET S, Weighs(w, S), NEW f, Sums(w, f, S), NEW g, Sums(w, g, R)
  PROVE  f[R] = g[R]
PROOF
<1> DEFINE A == {T \in SUBSET R : f[T] = g[T]}
<1>0. IsFiniteSet(R) /\ Weighs(w, R)
  BY FS_Subset DEF Weighs
<1>1. Adds(w, f, S) /\ Adds(w, g, R)
  BY SumsAre
<1>2. {} \in A
  BY <1>1 DEF Adds
<1>3. ASSUME NEW T \in SUBSET R, T # {}, \A x \in T : T \ {x} \in A PROVE T \in A
  <2>1. Some(T) \in T /\ f[T] = w[Some(T)] + f[T \ {Some(T)}]
    BY <1>1, <1>3 DEF Adds
  <2>2. g[T] = w[Some(T)] + g[T \ {Some(T)}]
    BY <1>1, <1>3 DEF Adds
  <2> QED  BY <1>3, <2>1, <2>2
<1>4. \A T \in SUBSET R : T \in A
  <2> HIDE DEF A
  <2> QED  BY <1>0, <1>2, <1>3, SubsetInduction
<1> QED  BY <1>4

LEMMA SumIs ==
  ASSUME NEW w, NEW S, Weighs(w, S)
  PROVE  \E it : Sums(w, it, S) /\ \A T \in SUBSET S : it[T] = SumOver(w, T)
PROOF
<1>1. PICK it : Sums(w, it, S)
  BY SumsExist
<1>2. ASSUME NEW T \in SUBSET S PROVE it[T] = SumOver(w, T)
  <2> DEFINE g == CHOOSE f : Sums(w, f, T)
  <2>1. SumOver(w, T) = g[T]
    BY DEF SumOver, FoldFunctionOnSet, MapThenFoldSet, Sums
  <2>2. Weighs(w, T)
    BY FS_Subset DEF Weighs
  <2>3. Sums(w, g, T)
    BY <2>2, SumsExist
  <2> HIDE DEF g
  <2> QED  BY <1>1, <2>1, <2>3, SumsAgree
<1> QED  BY <1>1, <1>2

LEMMA SumFacts ==
  ASSUME NEW w, NEW S, Weighs(w, S)
  PROVE  /\ SumOver(w, S) \in Nat
         /\ SumOver(w, {}) = 0
         /\ \A x \in S : SumOver(w, S) = w[x] + SumOver(w, S \ {x})
PROOF
<1>1. PICK it : Sums(w, it, S) /\ \A T \in SUBSET S : it[T] = SumOver(w, T)
  BY SumIs
<1>2. \A T \in SUBSET S : it[T] \in Nat /\ \A x \in T : it[T] = w[x] + it[T \ {x}]
  BY <1>1, SumsTake
<1>3. it[{}] = 0
  BY <1>1, SumsAre DEF Adds
<1>4. S \in SUBSET S /\ {} \in SUBSET S /\ \A x \in S : S \ {x} \in SUBSET S
  OBVIOUS
<1> QED  BY <1>1, <1>2, <1>3, <1>4

LEMMA SumOfPart ==
  ASSUME NEW w, NEW S, NEW R \in SUBSET S, Weighs(w, S)
  PROVE  SumOver(w, R) <= SumOver(w, S)
PROOF
<1> DEFINE A == {T \in SUBSET S : R \subseteq T => SumOver(w, R) <= SumOver(w, T)}
<1>0. \A T \in SUBSET S : Weighs(w, T) /\ SumOver(w, T) \in Nat
  <2>1. ASSUME NEW T \in SUBSET S PROVE Weighs(w, T)
    BY FS_Subset DEF Weighs
  <2> QED  BY <2>1, SumFacts
<1>1. {} \in A
  <2>1. R \subseteq {} => R = {}
    OBVIOUS
  <2>2. SumOver(w, {}) \in Nat
    BY <1>0
  <2> QED  BY <2>1, <2>2
<1>2. ASSUME NEW T \in SUBSET S, T # {}, \A x \in T : T \ {x} \in A PROVE T \in A
  <2>1. CASE R = T
    BY <1>0, <2>1
  <2>2. CASE R \subseteq T /\ R # T
    <3>1. PICK x \in T : x \notin R
      BY <2>2
    <3>2. SumOver(w, T) = w[x] + SumOver(w, T \ {x})
      BY <1>0, SumFacts
    <3>3. SumOver(w, R) <= SumOver(w, T \ {x})
      BY <1>2, <2>2, <3>1
    <3>4. w[x] \in Nat /\ SumOver(w, T \ {x}) \in Nat /\ SumOver(w, R) \in Nat
      BY <1>0, <3>1 DEF Weighs
    <3> QED  BY <3>2, <3>3, <3>4
  <2> QED  BY <2>1, <2>2
<1>3. \A T \in SUBSET S : T \in A
  <2>1. IsFiniteSet(S)
    BY DEF Weighs
  <2> HIDE DEF A
  <2> QED  BY <1>1, <1>2, <2>1, SubsetInduction
<1> QED  BY <1>3

\* No more than every member having the greatest weight.
LEMMA SumAtMost ==
  ASSUME NEW w, NEW S, Weighs(w, S), NEW m \in Nat, \A x \in S : w[x] <= m
  PROVE  SumOver(w, S) <= Cardinality(S) * m
PROOF
<1> DEFINE A == {T \in SUBSET S : SumOver(w, T) <= Cardinality(T) * m}
<1>0. \A T \in SUBSET S : Weighs(w, T) /\ SumOver(w, T) \in Nat /\ Cardinality(T) \in Nat
  <2>1. ASSUME NEW T \in SUBSET S PROVE Weighs(w, T)
    BY FS_Subset DEF Weighs
  <2>2. ASSUME NEW T \in SUBSET S PROVE Cardinality(T) \in Nat
    BY <2>1, FS_CardinalityType DEF Weighs
  <2> QED  BY <2>1, <2>2, SumFacts
<1>1. {} \in A
  <2>1. SumOver(w, {}) = 0 /\ Cardinality({}) = 0 /\ 0 * m = 0
    BY SumFacts, FS_EmptySet
  <2> QED  BY <2>1
<1>2. ASSUME NEW T \in SUBSET S, T # {}, \A x \in T : T \ {x} \in A PROVE T \in A
  <2>1. PICK x \in T : TRUE
    BY <1>2
  <2>2. SumOver(w, T) = w[x] + SumOver(w, T \ {x})
    BY <1>0, SumFacts
  <2>3. SumOver(w, T \ {x}) <= Cardinality(T \ {x}) * m
    BY <1>2
  <2>4. Cardinality(T \ {x}) = Cardinality(T) - 1
    <3>1. IsFiniteSet(T)
      BY <1>0 DEF Weighs
    <3> QED  BY <3>1, FS_RemoveElement
  <2>5. w[x] \in Nat /\ w[x] <= m /\ SumOver(w, T \ {x}) \in Nat /\ Cardinality(T) \in Nat
    BY <1>0 DEF Weighs
  <2> DEFINE n == Cardinality(T)
  <2>6. (n - 1) * m + m = n * m
    <3> HIDE DEF n
    <3>1. n \in Nat
      BY <2>5 DEF n
    <3> QED  BY <3>1
  <2>7. (n - 1) * m \in Int /\ n * m \in Int
    BY <2>5
  <2> QED  BY <2>2, <2>3, <2>4, <2>5, <2>6, <2>7
<1>3. \A T \in SUBSET S : T \in A
  <2>1. IsFiniteSet(S)
    BY DEF Weighs
  <2> HIDE DEF A
  <2> QED  BY <1>1, <1>2, <2>1, SubsetInduction
<1> QED  BY <1>3

-----------------------------------------------------------------------------
(***************************************************************************)
(* The sampler.                                                            *)
(***************************************************************************)

LEMMA MinIs ==
  ASSUME NEW S \in SUBSET Nat, S # {}
  PROVE  Min(S) \in S /\ \A x \in S : Min(S) <= x
PROOF
<1> DEFINE None == {n \in Nat : \A x \in S : ~(x <= n)}
<1>1. \E m \in S : \A x \in S : m <= x
  <2>1. SUFFICES ASSUME \A m \in S : \E x \in S : ~(m <= x) PROVE FALSE
    OBVIOUS
  <2>2. 0 \in None
    BY <2>1
  <2>3. ASSUME NEW n \in Nat, n \in None PROVE n + 1 \in None
    <3>1. n + 1 \notin S
      <4>1. SUFFICES ASSUME n + 1 \in S PROVE FALSE
        OBVIOUS
      <4>2. PICK x \in S : ~(n + 1 <= x)
        BY <2>1, <4>1
      <4> QED  BY <2>3, <4>2
    <3>2. \A x \in S : ~(x <= n)
      BY <2>3
    <3> QED  BY <3>1, <3>2
  <2>4. \A n \in Nat : n \in None
    <3> HIDE DEF None
    <3> QED  BY <2>2, <2>3, SetInduction
  <2>5. PICK x : x \in S
    OBVIOUS
  <2>6. x \in Nat /\ x <= x
    BY <2>5
  <2> QED  BY <2>4, <2>5, <2>6
<1> QED  BY <1>1 DEF Min

LEMMA TimesAtMost ==
  ASSUME NEW a \in Nat, NEW b \in Nat, a <= b, NEW c \in Nat
  PROVE  c * a <= c * b
PROOF
<1>1. PICK d \in Nat : b = a + d
  <2>1. b - a \in Nat /\ b = a + (b - a)
    OBVIOUS
  <2> QED  BY <2>1
<1>2. c * b = c * a + c * d
  BY <1>1
<1>3. c * d \in Nat /\ c * a \in Nat
  OBVIOUS
<1> QED  BY <1>2, <1>3

\* w weighs the tokens below n, and not all of them with 0.
Distribution(w, n) == n \in Nat \ {0} /\ w \in [0 .. n - 1 -> Nat] /\ Mass(w) > 0

LEMMA DistributionIs ==
  ASSUME NEW w, NEW n, Distribution(w, n)
  PROVE  /\ n \in Nat /\ n > 0 /\ DOMAIN w = 0 .. n - 1 /\ Cardinality(DOMAIN w) = n
         /\ \A t \in 0 .. n - 1 : w[t] \in Nat
         /\ \A S \in SUBSET (0 .. n - 1) : Weighs(w, S)
         /\ Mass(w) \in Nat /\ Mass(w) > 0 /\ Mass(w) = SumOver(w, 0 .. n - 1)
PROOF
<1>1. n \in Nat /\ n > 0 /\ DOMAIN w = 0 .. n - 1 /\ \A t \in 0 .. n - 1 : w[t] \in Nat
  BY DEF Distribution
<1>2. IsFiniteSet(0 .. n - 1) /\ Cardinality(0 .. n - 1) = n
  BY <1>1, FS_Interval
<1>3. ASSUME NEW S \in SUBSET (0 .. n - 1) PROVE Weighs(w, S)
  BY <1>1, <1>2, FS_Subset DEF Weighs
<1>4. Mass(w) = SumOver(w, 0 .. n - 1)
  BY <1>1 DEF Mass
<1>5. Mass(w) \in Nat
  BY <1>3, <1>4, SumFacts
<1> QED  BY <1>1, <1>2, <1>3, <1>4, <1>5 DEF Distribution

LEMMA ArgmaxSound ==
  ASSUME NEW w, NEW n, Distribution(w, n)
  PROVE  LET t == sample_argmax(w)
         IN  t \in 0 .. n - 1 /\ w[t] > 0 /\ \A u \in 0 .. n - 1 : w[u] <= w[t]
PROOF
<1> DEFINE First(t) == \A u \in 0 .. n - 1 : w[u] < w[t] \/ (w[u] = w[t] /\ t <= u)
           t == sample_argmax(w)
<1>1. /\ n \in Nat /\ n > 0 /\ \A u \in 0 .. n - 1 : w[u] \in Nat
      /\ DOMAIN w = 0 .. n - 1 /\ Weighs(w, 0 .. n - 1) /\ Mass(w) = SumOver(w, 0 .. n - 1) /\ Mass(w) > 0
  BY DistributionIs
<1>2. \E m \in 0 .. n - 1 : First(m)
  <2>1. 0 \in Int /\ n - 1 \in Int /\ 0 <= n - 1 /\ \A k \in 0 .. n - 1 : w[k] \in Int
    BY <1>1
  <2>2. PICK m \in 0 .. n - 1 : \A j \in 0 .. n - 1 : w[m] > w[j] \/ (w[m] = w[j] /\ m <= j)
    BY ONLY <2>1, FirstGreatest
  <2>3. First(m)
    BY <1>1, <2>2
  <2> QED  BY <2>3
<1>3. t = CHOOSE m \in 0 .. n - 1 : First(m)
  BY <1>1 DEF sample_argmax
<1> HIDE DEF t
<1>4. t \in 0 .. n - 1 /\ First(t)
  <2> HIDE DEF First
  <2> QED  BY <1>2, <1>3
<1>5. \A u \in 0 .. n - 1 : w[u] <= w[t]
  BY <1>1, <1>4
<1>6. w[t] # 0
  <2>1. SUFFICES ASSUME w[t] = 0 PROVE FALSE
    OBVIOUS
  <2>2. SumOver(w, 0 .. n - 1) <= Cardinality(0 .. n - 1) * 0
    BY <1>1, <1>5, <2>1, SumAtMost
  <2>3. Cardinality(0 .. n - 1) \in Nat
    BY <1>1, FS_CardinalityType DEF Weighs
  <2>4. Cardinality(0 .. n - 1) * 0 = 0
    BY <2>3
  <2>5. Mass(w) <= 0
    BY <1>1, <2>2, <2>4
  <2>6. Mass(w) \in Nat
    BY DistributionIs
  <2> QED  BY <1>1, <2>5, <2>6
<1> QED  BY <1>1, <1>4, <1>5, <1>6 DEF t

LEMMA MultSound ==
  ASSUME NEW w, NEW n, Distribution(w, n), CoinMod \in Nat \ {0}, NEW coin \in 0 .. CoinMod - 1
  PROVE  sample_mult(w, coin) \in 0 .. n - 1 /\ w[sample_mult(w, coin)] > 0
PROOF
<1> DEFINE sum(k) == SumOver(w, 0 .. k)
           M == Mass(w)
           passed == {k \in 0 .. n - 1 : coin * M < sum(k) * CoinMod}
           t == Min(passed)
<1>1. /\ n \in Nat /\ n > 0 /\ DOMAIN w = 0 .. n - 1 /\ \A u \in 0 .. n - 1 : w[u] \in Nat
      /\ \A S \in SUBSET (0 .. n - 1) : Weighs(w, S)
      /\ M \in Nat /\ M > 0 /\ M = sum(n - 1)
  BY DistributionIs
<1>2. n - 1 \in passed
  <2>1. coin * M < M * CoinMod
    <3> HIDE DEF M
    <3>1. M * (coin + 1) <= M * CoinMod
      <4>1. coin + 1 \in Nat /\ CoinMod \in Nat /\ coin + 1 <= CoinMod /\ M \in Nat
        BY <1>1
      <4> QED  BY ONLY <4>1, TimesAtMost
    <3>2. M * (coin + 1) = coin * M + M /\ coin * M \in Nat /\ M * CoinMod \in Nat
      BY <1>1
    <3> QED  BY <1>1, <3>1, <3>2
  <2> QED  BY <1>1, <2>1
<1>3. sample_mult(w, coin) = t
  BY <1>1, <1>2 DEF sample_mult
<1>4. t \in passed /\ \A k \in passed : t <= k
  <2>1. passed \in SUBSET Nat /\ passed # {}
    BY <1>1, <1>2, SMTT(20)
  <2> HIDE DEF passed
  <2> QED  BY <2>1, MinIs
<1>5. t \in 0 .. n - 1 /\ coin * M < sum(t) * CoinMod
  BY <1>4
<1> HIDE DEF t
<1>6. \A k \in 0 .. n - 1 : k < t => ~(coin * M < sum(k) * CoinMod)
  BY <1>1, <1>4, <1>5
<1>7. w[t] # 0
  <2>1. SUFFICES ASSUME w[t] = 0 PROVE FALSE
    OBVIOUS
  <2> DEFINE rest == SumOver(w, (0 .. t) \ {t})
  <2>2. sum(t) = rest
    <3>0. sum(t) = w[t] + rest /\ rest \in Nat
      <4>1. Weighs(w, 0 .. t) /\ Weighs(w, (0 .. t) \ {t}) /\ t \in 0 .. t
        BY <1>1, <1>5
      <4> QED  BY <4>1, SumFacts
    <3> HIDE DEF rest, sum
    <3> QED  BY <2>1, <3>0
  <2>3. CASE t = 0
    <3>1. (0 .. t) \ {t} = {} /\ SumOver(w, {}) = 0
      BY <1>1, <2>3, SumFacts
    <3>2. sum(t) = 0
      BY <2>2, <3>1
    <3>3. coin * M \in Nat
      BY <1>1
    <3> HIDE DEF sum
    <3> QED  BY <1>5, <3>2, <3>3
  <2>4. CASE t > 0
    <3>1. (0 .. t) \ {t} = 0 .. t - 1 /\ t - 1 \in 0 .. n - 1 /\ t - 1 < t
      BY <1>1, <1>5, <2>4
    <3>2. sum(t) = sum(t - 1)
      BY <2>2, <3>1
    <3>3. ~(coin * M < sum(t - 1) * CoinMod)
      BY <1>6, <3>1
    <3> HIDE DEF sum, M
    <3> QED  BY <1>5, <3>2, <3>3
  <2> QED  BY <1>5, <2>3, <2>4
<1> QED  BY <1>1, <1>3, <1>5, <1>7

\* What Candidates finds, in the order of the tokens.
LEMMA CandidatesAre ==
  ASSUME NEW w, NEW n, Distribution(w, n), NEW topp
  PROVE  LET p == Candidates(w, topp)
         IN  /\ p \in Seq(0 .. n - 1) /\ IsInjective(p)
             /\ \A t \in 0 .. n - 1 : t \in Range(p) <=> AboveCutoff(w, topp, t)
PROOF
<1> DEFINE above(k) == AboveCutoff(w, topp, k)
           Turn(p, k) == IF above(k - 1) THEN Append(p, k - 1) ELSE p
           Found(g, e) == g = [k \in 0 .. e |-> IF k = 0 THEN <<>> ELSE Turn(g[k - 1], k)]
           S == {e \in Nat : \E g : Found(g, e)}
<1>1. n \in Nat /\ n > 0 /\ Cardinality(DOMAIN w) = n
  BY DistributionIs
<1>2. \E g : Found(g, n)
  <2> HIDE DEF Turn
  <2>1. 0 \in S
    <3>1. Found([k \in 0 .. 0 |-> <<>>], 0)
      OBVIOUS
    <3> QED  BY <3>1
  <2>2. ASSUME NEW e \in Nat, e \in S PROVE e + 1 \in S
    <3>1. PICK g : Found(g, e)
      BY <2>2
    <3> DEFINE h == [k \in 0 .. e + 1 |-> IF k = e + 1 THEN Turn(g[e], e + 1) ELSE g[k]]
    <3>2. Found(h, e + 1)
      BY <3>1
    <3>3. \E a : Found(a, e + 1)
      <4> HIDE DEF Found, h
      <4> QED  BY <3>2
    <3> HIDE DEF Found
    <3> QED  BY <3>3
  <2>3. \A e \in Nat : e \in S
    <3> HIDE DEF S
    <3> QED  BY <2>1, <2>2, SetInduction
  <2> QED  BY <1>1, <2>3
<1> DEFINE f == CHOOSE g : Found(g, n)
<1>3. Candidates(w, topp) = f[n]
  BY <1>1 DEF Candidates
<1>4. Found(f, n)
  <2> HIDE DEF Found
  <2> QED  BY <1>2
<1> HIDE DEF f, Turn
<1>5. f[0] = <<>> /\ \A k \in 1 .. n : f[k] = Turn(f[k - 1], k)
  BY <1>1, <1>4
<1> HIDE DEF above
<1> HIDE DEF Found
<1> DEFINE Good(p, e) == /\ p \in Seq(0 .. n - 1) /\ (\A j \in 1 .. Len(p) : p[j] < e)
                         /\ \A j, k \in 1 .. Len(p) : p[j] = p[k] => j = k
                         /\ \A t \in 0 .. e - 1 : (\E j \in 1 .. Len(p) : p[j] = t) <=> above(t)
           A == {e \in Nat : e <= n => Good(f[e], e)}
<1>6. 0 \in A
  <2>1. Good(<<>>, 0)
    OBVIOUS
  <2> HIDE DEF Good
  <2> QED  BY <1>5, <2>1
<1>7. ASSUME NEW e \in Nat, e \in A PROVE e + 1 \in A
  <2>1. SUFFICES ASSUME e + 1 <= n PROVE Good(f[e + 1], e + 1)
    OBVIOUS
  <2> DEFINE p == f[e]
             u == f[e + 1]
  <2>2. Good(p, e) /\ u = (IF above(e) THEN Append(p, e) ELSE p)
    <3>1. e + 1 \in 1 .. n /\ (e + 1) - 1 = e
      BY <1>1, <2>1
    <3>2. u = Turn(p, e + 1)
      BY <1>5, <3>1
    <3>3. Turn(p, e + 1) = IF above(e) THEN Append(p, e) ELSE p
      BY <3>1 DEF Turn
    <3>4. Good(p, e)
      <4> HIDE DEF Good
      <4> QED  BY <1>1, <1>7, <2>1
    <3> QED  BY ONLY <3>2, <3>3, <3>4
  <2> HIDE DEF p, u
  <2>3. CASE above(e)
    <3> DEFINE m == Len(p)
    <3>1. /\ p \in Seq(0 .. n - 1) /\ m \in Nat /\ \A j \in 1 .. m : p[j] \in 0 .. n - 1 /\ p[j] < e
          /\ e \in 0 .. n - 1
      BY <1>1, <2>1, <2>2
    <3>2. /\ u \in Seq(0 .. n - 1) /\ Len(u) = m + 1 /\ u[m + 1] = e
          /\ \A j \in 1 .. m : u[j] = p[j]
      BY <2>2, <2>3, <3>1
    <3>3. \A j, k \in 1 .. m : p[j] = p[k] => j = k
      BY <2>2
    <3>4. \A t \in 0 .. e - 1 : (\E j \in 1 .. m : p[j] = t) <=> above(t)
      BY <2>2
    <3> HIDE DEF m
    <3>5. \A j \in 1 .. m + 1 : u[j] < e + 1
      BY <3>1, <3>2
    <3>6. \A j, k \in 1 .. m + 1 : u[j] = u[k] => j = k
      BY <3>1, <3>2, <3>3
    <3>7. ASSUME NEW t \in 0 .. (e + 1) - 1 PROVE (\E j \in 1 .. m + 1 : u[j] = t) <=> above(t)
      <4>1. CASE t = e
        BY <2>3, <3>1, <3>2, <4>1
      <4>2. CASE t # e
        <5>1. t \in 0 .. e - 1
          BY <3>7, <4>2
        <5>2. (\E j \in 1 .. m + 1 : u[j] = t) <=> (\E j \in 1 .. m : p[j] = t)
          BY <3>1, <3>2, <4>2
        <5> QED  BY <3>4, <5>1, <5>2
      <4> QED  BY <4>1, <4>2
    <3> QED  BY <3>2, <3>5, <3>6, <3>7 DEF u
  <2>4. CASE ~above(e)
    <3>1. u = p
      BY <2>2, <2>4
    <3>2. p \in Seq(0 .. n - 1) /\ \A j \in 1 .. Len(p) : p[j] \in 0 .. n - 1 /\ p[j] < e
      <4> DEFINE R == 0 .. n - 1
      <4>1. p \in Seq(R) /\ \A j \in 1 .. Len(p) : p[j] < e
        BY <2>2
      <4> HIDE DEF R
      <4>2. \A j \in 1 .. Len(p) : p[j] \in R
        BY <4>1
      <4> QED  BY <4>1, <4>2 DEF R
    <3>3. \A j \in 1 .. Len(p) : p[j] < e + 1
      BY <3>2
    <3>4. ASSUME NEW t \in 0 .. (e + 1) - 1 PROVE (\E j \in 1 .. Len(p) : p[j] = t) <=> above(t)
      <4>1. CASE t = e
        BY <2>4, <3>2, <4>1
      <4>2. CASE t # e
        <5>1. t \in 0 .. e - 1
          BY <3>4, <4>2
        <5> QED  BY <2>2, <5>1
      <4> QED  BY <4>1, <4>2
    <3> QED  BY <2>2, <3>1, <3>2, <3>3, <3>4 DEF u
  <2> QED  BY <2>3, <2>4
<1>8. Good(f[n], n)
  <2>1. \A e \in Nat : e \in A
    <3> HIDE DEF A
    <3> QED  BY <1>6, <1>7, SetInduction
  <2> HIDE DEF Good
  <2> QED  BY <1>1, <2>1
<1> DEFINE p == Candidates(w, topp)
<1>9. Good(p, n)
  BY <1>3, <1>8
<1> HIDE DEF p
<1>10. p \in Seq(0 .. n - 1) /\ DOMAIN p = 1 .. Len(p)
  BY <1>9
<1>11. IsInjective(p)
  BY <1>9, <1>10 DEF IsInjective
<1>12. ASSUME NEW t \in 0 .. n - 1 PROVE t \in Range(p) <=> above(t)
  <2>1. t \in Range(p) <=> \E j \in 1 .. Len(p) : p[j] = t
    BY <1>10 DEF Range
  <2> QED  BY <1>9, <2>1
<1> QED  BY <1>10, <1>11, <1>12 DEF p, above

\* v are the weights of the tokens in p.
Weighted(v, w, p) == v = [j \in 1 .. Len(p) |-> w[p[j]]]

Cumulates(v, w, p) ==
  \A k \in 0 .. Len(p) : /\ SumOver(v, 1 .. k) \in Nat
                         /\ SumOver(v, 1 .. k) = SumOver(w, {p[j] : j \in 1 .. k})

\* The sum of the first k of an order is the sum over the tokens in it.
LEMMA CumulativeIs ==
  ASSUME NEW w, NEW n, Distribution(w, n), NEW p \in Seq(0 .. n - 1), IsInjective(p),
         NEW v, Weighted(v, w, p)
  PROVE  Cumulates(v, w, p)
PROOF
<1> DEFINE m == Len(p)
           first(k) == {p[j] : j \in 1 .. k}
<1>1. /\ \A t \in 0 .. n - 1 : w[t] \in Nat
      /\ \A S \in SUBSET (0 .. n - 1) : Weighs(w, S)
  BY DistributionIs
<1>2. m \in Nat /\ \A j \in 1 .. m : p[j] \in 0 .. n - 1
  <2> DEFINE R == 0 .. n - 1
  <2>1. p \in Seq(R)
    OBVIOUS
  <2> HIDE DEF R
  <2>2. Len(p) \in Nat /\ \A j \in 1 .. Len(p) : p[j] \in R
    BY <2>1
  <2> QED  BY <2>2 DEF R
<1>3. \A j, k \in 1 .. m : p[j] = p[k] => j = k
  BY DEF IsInjective
<1>4. \A j \in 1 .. m : v[j] = w[p[j]] /\ v[j] \in Nat
  BY <1>1, <1>2 DEF Weighted
<1> HIDE DEF m
<1>5. ASSUME NEW k \in 0 .. m PROVE Weighs(v, 1 .. k) /\ Weighs(w, first(k))
  <2>1. IsFiniteSet(1 .. k)
    BY <1>2, FS_Interval
  <2>2. first(k) \in SUBSET (0 .. n - 1)
    BY <1>2
  <2> QED  BY <1>1, <1>2, <1>4, <2>1, <2>2 DEF Weighs
<1>6. ASSUME NEW k \in 1 .. m
      PROVE  /\ SumOver(v, 1 .. k) = v[k] + SumOver(v, 1 .. k - 1)
             /\ SumOver(w, first(k)) = v[k] + SumOver(w, first(k - 1))
  <2>1. k \in 0 .. m /\ k \in 1 .. k /\ (1 .. k) \ {k} = 1 .. k - 1
    BY <1>2
  <2>2. p[k] \in first(k)
    BY <2>1
  <2>3. first(k) \ {p[k]} = first(k - 1)
    <3>1. \A j \in 1 .. k - 1 : p[j] # p[k] /\ j \in 1 .. k
      BY <1>2, <1>3
    <3>2. \A j \in 1 .. k : j = k \/ j \in 1 .. k - 1
      BY <1>2
    <3> QED  BY <3>1, <3>2
  <2>4. SumOver(v, 1 .. k) = v[k] + SumOver(v, 1 .. k - 1)
    <3>1. SumOver(v, 1 .. k) = v[k] + SumOver(v, (1 .. k) \ {k})
      <4>1. Weighs(v, 1 .. k)
        BY <1>5, <2>1
      <4> QED  BY <4>1, <2>1, SumFacts
    <3> QED  BY <2>1, <3>1
  <2>5. SumOver(w, first(k)) = v[k] + SumOver(w, first(k - 1))
    <3> HIDE DEF first
    <3>1. SumOver(w, first(k)) = w[p[k]] + SumOver(w, first(k) \ {p[k]})
      BY <1>5, <2>1, <2>2, SumFacts
    <3> QED  BY <1>4, <2>3, <3>1
  <2> QED  BY <2>4, <2>5
<1> DEFINE A == {k \in Nat : k <= m => SumOver(v, 1 .. k) = SumOver(w, first(k))}
<1>7. 0 \in A
  <2>1. 1 .. 0 = {} /\ first(0) = {} /\ 0 \in 0 .. m
    BY <1>2
  <2>2. SumOver(v, {}) = 0
    BY <1>5, <2>1, SumFacts
  <2>3. SumOver(w, {}) = 0
    BY <1>5, <2>1, SumFacts
  <2> HIDE DEF first
  <2> QED  BY <2>1, <2>2, <2>3
<1> HIDE DEF first
<1>8. ASSUME NEW k \in Nat, k \in A PROVE k + 1 \in A
  <2>1. SUFFICES ASSUME k + 1 <= m PROVE SumOver(v, 1 .. k + 1) = SumOver(w, first(k + 1))
    OBVIOUS
  <2>2. k + 1 \in 1 .. m /\ (k + 1) - 1 = k /\ k <= m
    BY <1>2, <2>1
  <2>3. SumOver(v, 1 .. k) = SumOver(w, first(k))
    BY <1>8, <2>2
  <2> QED  BY <1>6, <2>2, <2>3
<1>9. \A k \in 0 .. m : SumOver(v, 1 .. k) = SumOver(w, first(k))
  <2>1. \A k \in Nat : k \in A
    <3> HIDE DEF A
    <3> QED  BY <1>7, <1>8, SetInduction
  <2> QED  BY <1>2, <2>1
<1>10. \A k \in 0 .. m : SumOver(v, 1 .. k) \in Nat
  BY <1>5, SumFacts
<1> QED  BY <1>9, <1>10 DEF Cumulates, m, first

\* The cut-off is no more than the greatest probability, if topp is no less than 1 / n.
LEMMA CutoffReached ==
  ASSUME NEW n \in Nat, n > 0, NEW m \in Nat, NEW M \in Nat, M <= n * m,
         NEW num \in Nat, NEW den \in Nat, num <= den, num * n >= den
  PROVE  (m * den) * (n - 1) >= (den - num) * M
PROOF
<1> DEFINE d == den - num
           a == d * n
           b == den * (n - 1)
<1>1. d \in Nat /\ n * m \in Nat
  OBVIOUS
<1>2. d * M <= d * (n * m)
  <2> HIDE DEF d
  <2> DEFINE e == n * m
  <2>1. e \in Nat /\ M <= e
    BY <1>1
  <2> HIDE DEF e
  <2>2. d * M <= d * e
    BY ONLY <1>1, <2>1, M \in Nat, TimesAtMost
  <2> QED  BY <2>2 DEF e
<1>3. a \in Nat /\ b \in Nat /\ a <= b
  <2>1. a = den * n - num * n
    OBVIOUS
  <2>2. b = den * n - den
    OBVIOUS
  <2>3. den * n \in Nat /\ num * n \in Nat
    OBVIOUS
  <2>4. a <= b
    <3> HIDE DEF a, b
    <3> QED  BY <2>1, <2>2, <2>3
  <2>5. a \in Nat
    <3> HIDE DEF d
    <3> QED  BY <1>1
  <2>6. b \in Nat
    <3>1. n - 1 \in Nat
      OBVIOUS
    <3> DEFINE k == n - 1
    <3> HIDE DEF k
    <3>2. den * k \in Nat
      BY <3>1 DEF k
    <3> QED  BY <3>2 DEF k
  <2> QED  BY <2>4, <2>5, <2>6
<1>4. m * a <= m * b
  <2> HIDE DEF a, b
  <2> QED  BY <1>3, TimesAtMost
<1>5. d * (n * m) = m * a
  <2> HIDE DEF d
  <2> QED  BY <1>1
<1>6. (m * den) * (n - 1) = m * b
  OBVIOUS
<1>7. d * M \in Nat /\ m * a \in Nat /\ m * b \in Nat
  <2> HIDE DEF d, a, b
  <2> QED  BY <1>1, <1>3
<1> HIDE DEF a, b
<1> QED  BY <1>2, <1>4, <1>5, <1>6, <1>7

LEMMA ToppSound ==
  ASSUME NEW w, NEW n, Distribution(w, n), CoinMod \in Nat \ {0}, NEW coin \in 0 .. CoinMod - 1,
         NEW topp, topp.den \in Nat, topp.num \in 1 .. topp.den - 1, topp.num * n >= topp.den
  PROVE  LET t == sample_topp(w, topp, coin)
         IN  /\ t \in 0 .. n - 1 /\ w[t] > 0
             /\ SumOver(w, {u \in 0 .. n - 1 : w[u] > w[t]}) * topp.den <= topp.num * Mass(w)
PROOF
<1> DEFINE R == 0 .. n - 1
           M == Mass(w)
           num == topp.num
           den == topp.den
           before == [a \in DOMAIN w |-> [b \in DOMAIN w |-> w[a] > w[b]]]
           c == Candidates(w, topp)
           p == qsort(c, before)
           n0 == Len(p)
           v == [j \in 1 .. n0 |-> w[p[j]]]
           cum(k) == SumOver(v, 1 .. k)
           exceeds == {k \in 1 .. n0 : cum(k) * den > num * M}
           last_idx == IF exceeds # {} THEN Min(exceeds) ELSE n0
           passed == {k \in 1 .. last_idx : coin * cum(last_idx) < cum(k) * CoinMod}
           k0 == IF passed # {} THEN Min(passed) ELSE last_idx
<1>1. /\ n \in Nat /\ n > 0 /\ DOMAIN w = R /\ Cardinality(DOMAIN w) = n /\ \A u \in R : w[u] \in Nat
      /\ \A S \in SUBSET R : Weighs(w, S)
      /\ M \in Nat /\ M > 0 /\ M = SumOver(w, R)
  BY DistributionIs
<1>2. num \in Nat /\ den \in Nat /\ num > 0 /\ num < den /\ den - num \in Nat /\ den - num > 0
  OBVIOUS
<1>3. n # 1
  BY <1>2
<1>4. c \in Seq(R) /\ IsInjective(c) /\ \A t \in R : t \in Range(c) <=> AboveCutoff(w, topp, t)
  BY CandidatesAre
<1>5. sample_topp(w, topp, coin) = IF n0 = 0 THEN -1 ELSE p[k0]
  BY DEF sample_topp
<1> HIDE DEF c
<1>6. \A a, b \in R : Before(before, a, b) <=> w[a] > w[b]
  BY <1>1 DEF Before
<1> HIDE DEF before
<1>7. StrictOrder(Range(c), before)
  <2>1. Range(c) \subseteq R
    BY <1>4, ArrayIs
  <2> HIDE DEF R
  <2> QED  BY <1>1, <1>6, <2>1 DEF StrictOrder
<1>8. Rearranged(p, c) /\ InOrder(p, before)
  <2> HIDE DEF R
  <2> QED  BY <1>4, <1>7, QsortSorts
<1> HIDE DEF p
<1>9. p \in Seq(R) /\ n0 \in Nat /\ DOMAIN p = 1 .. n0 /\ IsInjective(p) /\ Range(p) = Range(c)
  <2>1. Range(c) \subseteq R
    BY <1>4, ArrayIs
  <2> HIDE DEF R
  <2> QED  BY <1>4, <1>8, <2>1 DEF Rearranged
<1>10. \A j \in 1 .. n0 : p[j] \in R /\ AboveCutoff(w, topp, p[j])
  <2>1. \A j \in 1 .. n0 : p[j] \in R /\ p[j] \in Range(p)
    <3> HIDE DEF R
    <3> QED  BY <1>9, ArrayIs
  <2> QED  BY <1>4, <1>9, <2>1
<1> HIDE DEF R, M
<1>11. \A t \in R : AboveCutoff(w, topp, t) <=> (w[t] * den) * (n - 1) >= (den - num) * M
  BY <1>1, <1>3 DEF AboveCutoff, M
<1> HIDE DEF num, den
<1>12. n0 > 0
  <2>1. PICK t \in R : \A u \in R : w[u] <= w[t]
    BY ArgmaxSound DEF R
  <2>2. w[t] \in Nat
    BY <1>1, <2>1
  <2>3. M <= n * w[t]
    <3>1. Weighs(w, R) /\ SumOver(w, R) = M
      BY <1>1
    <3>2. M <= Cardinality(R) * w[t]
      BY <2>1, <2>2, <3>1, SumAtMost
    <3> QED  BY <1>1, <3>2
  <2>4. (w[t] * den) * (n - 1) >= (den - num) * M
    <3> DEFINE m == w[t]
    <3>1. /\ n \in Nat /\ n > 0 /\ m \in Nat /\ M \in Nat /\ M <= n * m
          /\ num \in Nat /\ den \in Nat /\ num <= den /\ num * n >= den
      BY <1>1, <1>2, <2>2, <2>3 DEF num, den
    <3> HIDE DEF m
    <3>2. (m * den) * (n - 1) >= (den - num) * M
      BY ONLY <3>1, CutoffReached
    <3> QED  BY <3>2 DEF m
  <2>5. t \in Range(p)
    BY <1>4, <1>9, <1>11, <2>1, <2>4
  <2> QED  BY <1>9, <2>5 DEF Range
<1>13. \A t \in R : AboveCutoff(w, topp, t) => w[t] > 0
  <2>1. SUFFICES ASSUME NEW t \in R, AboveCutoff(w, topp, t), ~(w[t] > 0) PROVE FALSE
    OBVIOUS
  <2>2. w[t] = 0
    BY <1>1, <2>1
  <2>3. (0 * den) * (n - 1) >= (den - num) * M
    BY <1>11, <2>1, <2>2
  <2>4. (0 * den) * (n - 1) = 0
    BY <1>1, <1>2
  <2> DEFINE d == den - num
  <2>5x. 0 >= d * M
    BY <2>3, <2>4
  <2>5. d \in Nat /\ d > 0 /\ M \in Nat /\ M > 0
    BY <1>1, <1>2
  <2> HIDE DEF d
  <2>6. d * M > 0
    BY <2>5
  <2>7. d * M \in Nat
    BY <2>5
  <2> QED  BY <2>5x, <2>6, <2>7
<1>14. \A k \in 0 .. n0 : /\ cum(k) \in Nat
                          /\ cum(k) = SumOver(w, {p[j] : j \in 1 .. k})
  <2>1. Weighted(v, w, p)
    BY DEF Weighted
  <2>2. p \in Seq(0 .. n - 1) /\ IsInjective(p)
    BY <1>9 DEF R
  <2> HIDE DEF v
  <2>3. Cumulates(v, w, p)
    BY ONLY <2>1, <2>2, Distribution(w, n), CumulativeIs
  <2> QED  BY <2>3 DEF Cumulates
<1>15. cum(0) = 0
  <2>1. 1 .. 0 = {} /\ {p[j] : j \in 1 .. 0} = {}
    OBVIOUS
  <2>2. cum(0) = SumOver(w, {})
    BY <1>9, <1>14, <2>1
  <2>3. SumOver(w, {}) = 0
    BY <1>1, SumFacts
  <2> QED  BY <2>2, <2>3
<1> HIDE DEF v, cum
<1>16. last_idx \in 1 .. n0 /\ \A k \in 1 .. last_idx - 1 : cum(k) * den <= num * M
  <2>1. \A k \in 1 .. n0 : k \notin exceeds => cum(k) * den <= num * M
    <3>1. ASSUME NEW k \in 1 .. n0, k \notin exceeds PROVE cum(k) * den <= num * M
      <4>1. cum(k) \in Nat
        <5>1. k \in 0 .. n0
          BY <1>9
        <5> QED  BY <1>14, <5>1
      <4>2. ~(cum(k) * den > num * M)
        BY <3>1 DEF exceeds
      <4> DEFINE s == cum(k)
      <4> HIDE DEF s
      <4>3. s * den \in Nat /\ num * M \in Nat
        BY <1>1, <1>2, <4>1 DEF s
      <4> QED  BY <4>2, <4>3 DEF s
    <3> QED  BY <3>1
  <2>2. CASE exceeds # {}
    <3>1. exceeds \in SUBSET Nat /\ exceeds \in SUBSET (1 .. n0)
      OBVIOUS
    <3> HIDE DEF exceeds
    <3>2. last_idx \in exceeds /\ \A k \in exceeds : last_idx <= k
      BY <2>2, <3>1, MinIs
    <3> HIDE DEF last_idx
    <3>3. last_idx \in 1 .. n0
      BY <3>1, <3>2
    <3>4. \A k \in 1 .. last_idx - 1 : k \in 1 .. n0 /\ k \notin exceeds
      BY <1>9, <3>2, <3>3
    <3> QED  BY <2>1, <3>3, <3>4
  <2>3. CASE exceeds = {}
    <3> HIDE DEF exceeds
    <3>1. last_idx = n0
      BY <2>3
    <3> HIDE DEF last_idx
    <3> QED  BY <1>9, <1>12, <2>1, <2>3, <3>1
  <2> QED  BY <2>2, <2>3
<1> HIDE DEF exceeds, last_idx
<1>17. k0 \in 1 .. last_idx
  <2>1. passed \in SUBSET (1 .. last_idx) /\ last_idx \in 1 .. last_idx /\ passed \in SUBSET Nat
    BY <1>16
  <2> HIDE DEF passed
  <2>2. CASE passed # {}
    BY <2>1, <2>2, MinIs
  <2>3. CASE passed = {}
    BY <2>1, <2>3
  <2> QED  BY <2>2, <2>3
<1> HIDE DEF passed, k0
<1> DEFINE t == p[k0]
           heavier == {u \in R : w[u] > w[t]}
           first == {p[j] : j \in 1 .. k0 - 1}
<1>18. k0 \in 1 .. n0 /\ t \in R /\ AboveCutoff(w, topp, t) /\ w[t] \in Nat
  <2>1. k0 \in 1 .. n0
    BY <1>9, <1>16, <1>17
  <2> QED  BY <1>1, <1>10, <2>1
<1>19. heavier \subseteq first
  <2>1. SUFFICES ASSUME NEW u \in R, w[u] > w[t] PROVE u \in first
    OBVIOUS
  <2>2. w[u] \in Nat /\ w[t] \in Nat /\ w[t] <= w[u]
    BY <1>1, <1>18, <2>1
  <2>3. AboveCutoff(w, topp, u)
    <3> DEFINE e == den * (n - 1)
    <3>1. e \in Nat
      <4>1. n - 1 \in Nat
        BY <1>1
      <4> DEFINE k == n - 1
      <4> HIDE DEF k
      <4>2. den * k \in Nat
        BY <1>2, <4>1 DEF k
      <4> QED  BY <4>2 DEF k
    <3>2. (w[u] * den) * (n - 1) = e * w[u] /\ (w[t] * den) * (n - 1) = e * w[t]
      BY <1>1, <1>2, <2>2
    <3> HIDE DEF e
    <3>3. e * w[t] <= e * w[u]
      BY <2>2, <3>1, TimesAtMost
    <3>4. (w[t] * den) * (n - 1) >= (den - num) * M
      BY <1>11, <1>18
    <3>5. e * w[t] \in Int /\ e * w[u] \in Int /\ (den - num) * M \in Int
      BY <1>1, <1>2, <2>2, <3>1
    <3>6. (w[u] * den) * (n - 1) >= (den - num) * M
      BY <3>2, <3>3, <3>4, <3>5
    <3> QED  BY <1>11, <3>6
  <2>4. u \in Range(p)
    BY <1>4, <1>9, <2>3
  <2>5. PICK j \in 1 .. n0 : p[j] = u
    BY <1>9, <2>4 DEF Range
  <2>6. ~(k0 < j)
    <3>1. SUFFICES ASSUME k0 < j PROVE FALSE
      OBVIOUS
    <3>2. ~Before(before, p[j], p[k0])
      BY <1>8, <1>9, <1>18, <2>5, <3>1 DEF InOrder
    <3> QED  BY <1>6, <1>18, <2>1, <2>5, <3>2
  <2>7. j # k0
    BY <2>1, <2>2, <2>5
  <2> QED  BY <1>9, <1>18, <2>5, <2>6, <2>7
<1>20. SumOver(w, heavier) * den <= num * M
  <2>1. first \in SUBSET R
    BY <1>9, <1>10, <1>18
  <2>2. Weighs(w, first) /\ Weighs(w, heavier)
    BY <1>1, <2>1
  <2> DEFINE a == SumOver(w, heavier)
             b == SumOver(w, first)
  <2>3. a \in Nat /\ b \in Nat /\ a <= b
    <3> HIDE DEF heavier, first
    <3> QED  BY <1>19, <2>2, SumFacts, SumOfPart
  <2>4. b = cum(k0 - 1)
    <3>1. k0 - 1 \in 0 .. n0
      BY <1>9, <1>18
    <3> QED  BY <1>14, <3>1
  <2> HIDE DEF a, b
  <2>5. b * den <= num * M
    <3>1. CASE k0 = 1
      <4>1. b = 0
        BY <1>15, <2>4, <3>1
      <4>2. 0 * den = 0 /\ num * M \in Nat
        BY <1>1, <1>2
      <4> QED  BY <4>1, <4>2
    <3>2. CASE k0 > 1
      <4>1. k0 - 1 \in 1 .. last_idx - 1
        BY <1>16, <1>17, <3>2
      <4> QED  BY <1>16, <2>4, <4>1
    <3> QED  BY <1>18, <3>1, <3>2
  <2>6. a * den <= b * den
    <3>1. den * a <= den * b
      BY <1>2, <2>3, TimesAtMost
    <3> QED  BY <1>2, <2>3, <3>1
  <2>7. a * den \in Int /\ b * den \in Int /\ num * M \in Int
    BY <1>1, <1>2, <2>3
  <2>8. a * den <= num * M
    BY <2>5, <2>6, <2>7
  <2> QED  BY <2>8 DEF a
<1>21. sample_topp(w, topp, coin) = t
  BY <1>5, <1>12
<1> HIDE DEF t
<1>22. t \in R /\ w[t] > 0
  BY <1>13, <1>18 DEF t
<1> QED  BY <1>20, <1>21, <1>22 DEF R, M, num, den, t

\* What sample does with a distribution of the run.
LEMMA SampledSound ==
  ASSUME NEW r \in Runs, NEW w \in Distributions, NEW coin \in 0 .. CoinMod - 1
  PROVE  LET t == sample(r.setting, w, coin)
             topp == r.setting.topp
         IN  /\ t \in DOMAIN w /\ w[t] > 0
             /\ r.setting.temperature = 0 => Heavier(w, t) = {}
             /\ r.setting.temperature # 0 /\ topp.num \in 1 .. topp.den - 1 =>
                  SumOver(w, Heavier(w, t)) * topp.den <= topp.num * Mass(w)
PROOF
<1> DEFINE t == sample(r.setting, w, coin)
           topp == r.setting.topp
           zero == r.setting.temperature = 0
           within == topp.num \in 1 .. topp.den - 1
<1>1. CoinMod \in Nat \ {0} /\ topp.num \in Int /\ topp.den \in Nat
  BY SamplerConstants
<1>2. PICK n \in Nat \ {0} : w \in [0 .. n - 1 -> Nat] /\ Mass(w) > 0 /\ (within => topp.num * n >= topp.den)
  BY SamplerConstants
<1>3. Distribution(w, n) /\ DOMAIN w = 0 .. n - 1 /\ \A u \in 0 .. n - 1 : w[u] \in Nat
  BY <1>2 DEF Distribution
<1>4. t = IF zero THEN sample_argmax(w)
          ELSE IF topp.num <= 0 \/ topp.num >= topp.den THEN sample_mult(w, coin)
          ELSE sample_topp(w, topp, coin)
  BY DEF sample
<1> HIDE DEF t, topp
<1>5. CASE zero
  <2>1. t \in 0 .. n - 1 /\ w[t] > 0 /\ \A u \in 0 .. n - 1 : w[u] <= w[t]
    BY <1>3, <1>4, <1>5, ArgmaxSound
  <2>2. Heavier(w, t) = {}
    BY <1>3, <2>1 DEF Heavier
  <2> QED  BY <1>3, <1>5, <2>1, <2>2 DEF t, topp
<1>6. CASE ~zero /\ ~within
  <2>1. t = sample_mult(w, coin)
    BY <1>1, <1>4, <1>6
  <2>2. t \in 0 .. n - 1 /\ w[t] > 0
    BY <1>1, <1>3, <2>1, MultSound
  <2> QED  BY <1>3, <1>6, <2>2 DEF t, topp
<1>7. CASE ~zero /\ within
  <2>1. t = sample_topp(w, topp, coin)
    BY <1>1, <1>4, <1>7
  <2>2. topp.num * n >= topp.den
    BY <1>2, <1>7
  <2>3. /\ t \in 0 .. n - 1 /\ w[t] > 0
        /\ SumOver(w, {u \in 0 .. n - 1 : w[u] > w[t]}) * topp.den <= topp.num * Mass(w)
    BY <1>1, <1>3, <1>7, <2>1, <2>2, ToppSound
  <2>4. Heavier(w, t) = {u \in 0 .. n - 1 : w[u] > w[t]}
    BY <1>3 DEF Heavier
  <2> QED  BY <1>3, <1>7, <2>3, <2>4 DEF t, topp
<1> QED  BY <1>5, <1>6, <1>7

SampleInv ==
  /\ \E r \in Runs : setting = r.setting
  /\ SampleSound

LEMMA SampleInit == Init => SampleInv
  BY DEF Init, NoDraw, SampleInv, SampleSound

LEMMA SampleStep ==
  ASSUME SampleInv, [Next]_vars
  PROVE  SampleInv'
PROOF
<1> DEFINE Same == UNCHANGED <<setting, drawn>>
<1>1. ASSUME Same PROVE SampleInv'
  BY <1>1 DEF SampleInv, SampleSound
<1>2. CASE SampleNext
  <2>1. PICK r \in Runs : setting = r.setting
    BY DEF SampleInv
  <2>2. PICK w \in Distributions, coin \in 0 .. CoinMod - 1 :
          drawn' = [weights |-> w, next |-> sample(setting, w, coin)] /\ setting' = setting
    BY <1>2 DEF SampleNext, Advance
  <2> DEFINE t == sample(r.setting, w, coin)
  <2>3. /\ t \in DOMAIN w /\ w[t] > 0
        /\ r.setting.temperature = 0 => Heavier(w, t) = {}
        /\ r.setting.temperature # 0 /\ r.setting.topp.num \in 1 .. r.setting.topp.den - 1 =>
             SumOver(w, Heavier(w, t)) * r.setting.topp.den <= r.setting.topp.num * Mass(w)
    BY SampledSound
  <2>4. drawn'.weights = w /\ drawn'.next = t /\ setting' = r.setting
    BY <2>1, <2>2
  <2> HIDE DEF t
  <2>5. SampleSound'
    BY <2>3, <2>4 DEF SampleSound
  <2> QED  BY <2>4, <2>5 DEF SampleInv
<1>3. ASSUME KmallocInit PROVE Same
  BY <1>3 DEF KmallocInit
<1>4. ASSUME NoCheckpoint PROVE Same
  BY <1>4 DEF NoCheckpoint
<1>5. ASSUME read_checkpoint PROVE Same
  BY <1>5 DEF read_checkpoint
<1>6. ASSUME read_checkpointQ PROVE Same
  BY <1>6 DEF read_checkpointQ
<1>7. ASSUME memory_map_weightsQ PROVE Same
  BY <1>7 DEF memory_map_weightsQ
<1>8. ASSUME malloc_run_state PROVE Same
  BY <1>8 DEF malloc_run_state
<1>9. ASSUME InterruptInit PROVE Same
  BY <1>9 DEF InterruptInit
<1>10. ASSUME TimerInit PROVE Same
  BY <1>10 DEF TimerInit
<1>11. ASSUME GprofTable PROVE Same
  BY <1>11 DEF GprofTable
<1>12. ASSUME EnableInterrupts PROVE Same
  BY <1>12 DEF EnableInterrupts
<1>13. ASSUME Interrupt PROVE Same
  BY <1>13 DEF Interrupt
<1>14. ASSUME GprofDumpStep PROVE Same
  BY <1>14 DEF GprofDumpStep
<1>15. ASSUME AllocVocab PROVE Same
  BY <1>15 DEF AllocVocab
<1>16. ASSUME BuildEntry PROVE Same
  BY <1>16 DEF BuildEntry
<1>17. ASSUME build_sampler PROVE Same
  BY <1>17 DEF build_sampler
<1>18. ASSUME VmInitStep PROVE Same
  BY <1>18 DEF VmInitStep
<1>19. ASSUME VmPtAlloc PROVE Same
  BY <1>19 DEF VmPtAlloc
<1>20. ASSUME VmMapSec PROVE Same
  BY <1>20 DEF VmMapSec
<1>21. ASSUME VmSwitch PROVE Same
  BY <1>21 DEF VmSwitch
<1>22. ASSUME VmSync PROVE Same
  BY <1>22 DEF VmSync
<1>23. ASSUME VmEnable PROVE Same
  BY <1>23 DEF VmEnable
<1>24. ASSUME EnableCaches PROVE Same
  BY <1>24 DEF EnableCaches
<1>25. ASSUME AllocPrompt PROVE Same
  BY <1>25 DEF AllocPrompt
<1>26. ASSUME SortStep PROVE Same
  BY <1>26 DEF SortStep
<1>27. ASSUME AllocBuffer PROVE Same
  BY <1>27 DEF AllocBuffer
<1>28. ASSUME EncodeStep PROVE Same
  BY <1>28 DEF EncodeStep
<1>29. ASSUME MergeStep PROVE Same
  BY <1>29 DEF MergeStep
<1>30. ASSUME StartGenerating PROVE Same
  BY <1>30 DEF StartGenerating
<1>31. ASSUME EmbedStep PROVE Same
  BY <1>31 DEF EmbedStep
<1>32. ASSUME LayerStep PROVE Same
  BY <1>32 DEF LayerStep
<1>33. ASSUME LogitsStep PROVE Same
  BY <1>33 DEF LogitsStep
<1>34. ASSUME NextOfPrompt PROVE Same
  BY <1>34 DEF NextOfPrompt, Advance
<1>35. ASSUME StepsUsedUp PROVE Same
  BY <1>35 DEF StepsUsedUp
<1>36. ASSUME clean_reboot PROVE Same
  BY <1>36 DEF clean_reboot
<1>37. ASSUME UNCHANGED vars PROVE Same
  BY <1>37 DEF vars, main_vars
<1> HIDE DEF Same
<1> QED  BY <1>1, <1>2, <1>3, <1>4, <1>5, <1>6, <1>7, <1>8, <1>9, <1>10, <1>11, <1>12, <1>13, <1>14, <1>15, <1>16, <1>17, <1>18, <1>19, <1>20, <1>21, <1>22, <1>23, <1>24, <1>25, <1>26, <1>27, <1>28, <1>29, <1>30, <1>31, <1>32, <1>33, <1>34, <1>35, <1>36, <1>37 DEF Next, Rebooted

\* Whatever the distributions, coins, temperature and topp: the token sample returns is one of the
\* vocabulary and possible, none is more probable if the temperature is 0, and with 0 < topp < 1
\* those more probable do not already exceed topp.
THEOREM SampleIsSound == Spec => []SampleSound
PROOF
<1>1. SampleInv => SampleSound
  BY DEF SampleInv
<1> QED  BY <1>1, SampleInit, SampleStep, PTL DEF Spec

Text == Seq(Nat \ {0})

\* The character at k, or the 0 behind the last one.
CharAt(s, k) == IF k <= Len(s) THEN s[k] ELSE 0

\* a and b begin with the same k characters and no more.
AlikeUpTo(a, b, k) ==
  /\ k <= Len(a) /\ k <= Len(b)
  /\ \A j \in 1 .. k : a[j] = b[j]
  /\ k < Len(a) /\ k < Len(b) => a[k + 1] # b[k + 1]

LEMMA StrcmpIs ==
  ASSUME NEW a \in Text, NEW b \in Text
  PROVE  \E k \in Nat : AlikeUpTo(a, b, k) /\ strcmp(a, b) = CharAt(a, k + 1) - CharAt(b, k + 1)
PROOF
<1> USE DEF Text
<1> DEFINE Common(l) == l <= Len(a) /\ l <= Len(b) /\ \A j \in 1 .. l : a[j] = b[j]
           f == [l \in 0 .. Len(a) |-> IF Common(l) THEN l ELSE 0]
<1>1. PICK m \in 0 .. Len(a) : Common(m) /\ \A l \in Nat : Common(l) => l <= m
  <2>1. \A l \in 0 .. Len(a) : f[l] = IF Common(l) THEN l ELSE 0
    OBVIOUS
  <2> HIDE DEF f
  <2>2. Common(0)
    OBVIOUS
  <2>3. \A l \in 0 .. Len(a) : f[l] \in Int
    BY <2>1
  <2>4. \A l \in Nat : Common(l) => l \in 0 .. Len(a)
    OBVIOUS
  <2> HIDE DEF Common
  <2>5. PICK m \in 0 .. Len(a) : \A l \in 0 .. Len(a) : f[m] > f[l] \/ (f[m] = f[l] /\ m <= l)
    <3>1. 0 \in Int /\ Len(a) \in Int /\ 0 <= Len(a)
      OBVIOUS
    <3> QED  BY ONLY <3>1, <2>3, FirstGreatest
  <2> DEFINE k == f[m]
  <2>6. k \in 0 .. Len(a) /\ Common(k)
    BY <2>1, <2>2
  <2>7. \A l \in 0 .. Len(a) : Common(l) => l <= k
    BY <2>1, <2>5, <2>3
  <2> HIDE DEF k
  <2> QED  BY <2>4, <2>6, <2>7
<1>2. \A p : p \in CommonPrefixes({a, b}) <=> \E l \in 0 .. Len(a) : Common(l) /\ p = SubSeq(a, 1, l)
  <2>1. ASSUME NEW p, p \in CommonPrefixes({a, b})
        PROVE  \E l \in 0 .. Len(a) : Common(l) /\ p = SubSeq(a, 1, l)
    <3>1. PICK s \in {a, b} : \E l \in 0 .. Len(s) : p = SubSeq(s, 1, l)
      BY <2>1 DEF CommonPrefixes, Prefixes
    <3>7. PICK l \in 0 .. Len(s) : p = SubSeq(s, 1, l)
      BY <3>1
    <3>2. IsPrefix(p, a) /\ IsPrefix(p, b)
      BY <2>1 DEF CommonPrefixes
    <3>3. p \in Seq(Nat \ {0}) /\ Len(p) = l /\ \A j \in 1 .. l : p[j] = s[j]
      BY <3>1, <3>7
    <3>4. SubSeq(p, 1, l) = p
      BY <3>1, <3>3
    <3>5. l <= Len(a) /\ l <= Len(b) /\ p = SubSeq(a, 1, l) /\ p = SubSeq(b, 1, l)
      BY <3>2, <3>3, <3>4 DEF IsPrefix
    <3>6. \A j \in 1 .. l : a[j] = p[j] /\ b[j] = p[j]
      BY <3>5
    <3>8. l \in 0 .. Len(a) /\ Common(l)
      BY <3>5, <3>6
    <3> QED  BY <3>5, <3>8
  <2>2. ASSUME NEW l \in 0 .. Len(a), Common(l) PROVE SubSeq(a, 1, l) \in CommonPrefixes({a, b})
    <3> DEFINE p == SubSeq(a, 1, l)
    <3>1. p \in Seq(Nat \ {0}) /\ Len(p) = l /\ SubSeq(p, 1, l) = p /\ p = SubSeq(b, 1, l)
      BY <2>2
    <3>2. p \in Prefixes(a)
      BY DEF Prefixes
    <3>3. IsPrefix(p, a) /\ IsPrefix(p, b)
      BY <2>2, <3>1 DEF IsPrefix
    <3> QED  BY <3>2, <3>3 DEF CommonPrefixes
  <2> QED  BY <2>1, <2>2
<1> DEFINE q == LongestCommonPrefix({a, b})
<1>3. Len(q) = m
  <2> DEFINE Best(p) == p \in CommonPrefixes({a, b})
                        /\ \A other \in CommonPrefixes({a, b}) : Len(other) <= Len(p)
  <2>1. \A l \in 0 .. Len(a) : Len(SubSeq(a, 1, l)) = l
    OBVIOUS
  <2> HIDE DEF Common
  <2>2. Best(SubSeq(a, 1, m))
    <3>1. SubSeq(a, 1, m) \in CommonPrefixes({a, b})
      BY <1>1, <1>2
    <3>2. ASSUME NEW other \in CommonPrefixes({a, b}) PROVE Len(other) <= Len(SubSeq(a, 1, m))
      <4>1. PICK l \in 0 .. Len(a) : Common(l) /\ other = SubSeq(a, 1, l)
        BY <1>2
      <4> QED  BY <1>1, <2>1, <4>1
    <3> QED  BY <3>1, <3>2
  <2>3. Best(q)
    BY <2>2 DEF LongestCommonPrefix
  <2>4. PICK l \in 0 .. Len(a) : Common(l) /\ q = SubSeq(a, 1, l)
    BY <1>2, <2>3
  <2>5. m <= l
    <3>1. Len(SubSeq(a, 1, m)) <= Len(q)
      BY <2>2, <2>3
    <3> QED  BY <2>1, <2>4, <3>1
  <2> QED  BY <1>1, <2>1, <2>4, <2>5
<1>4. strcmp(a, b) = CharAt(a, m + 1) - CharAt(b, m + 1)
  BY <1>3 DEF strcmp, CharAt
<1>5. AlikeUpTo(a, b, m)
  <2>1. ASSUME m < Len(a), m < Len(b), a[m + 1] = b[m + 1] PROVE FALSE
    <3>1. Common(m + 1)
      BY <1>1, <2>1
    <3> QED  BY <1>1, <3>1
  <2> QED  BY <1>1, <2>1 DEF AlikeUpTo
<1> QED  BY <1>4, <1>5

\* strcmp orders texts: 0 for equal ones, and one way round for two that differ.
LEMMA StrcmpOrders ==
  ASSUME NEW a \in Text, NEW b \in Text
  PROVE  /\ strcmp(a, b) \in Int
         /\ strcmp(a, b) = 0 <=> a = b
         /\ strcmp(a, b) < 0 <=> strcmp(b, a) > 0
PROOF
<1>1. PICK k \in Nat : AlikeUpTo(a, b, k) /\ strcmp(a, b) = CharAt(a, k + 1) - CharAt(b, k + 1)
  BY StrcmpIs
<1>2. PICK l \in Nat : AlikeUpTo(b, a, l) /\ strcmp(b, a) = CharAt(b, l + 1) - CharAt(a, l + 1)
  BY StrcmpIs
<1>3. k = l
  BY <1>1, <1>2 DEF AlikeUpTo, Text
<1>4. \A j \in 1 .. Len(a) : a[j] \in Nat \ {0}
  BY DEF Text
<1>5. \A j \in 1 .. Len(b) : b[j] \in Nat \ {0}
  BY DEF Text
<1>6. Len(a) \in Nat /\ Len(b) \in Nat
  BY DEF Text
<1>7. CharAt(a, k + 1) \in Nat /\ CharAt(b, k + 1) \in Nat
  BY <1>4, <1>5, <1>6 DEF CharAt
<1>8. CharAt(a, k + 1) = CharAt(b, k + 1) => k = Len(a) /\ k = Len(b)
  BY <1>1, <1>4, <1>5, <1>6 DEF CharAt, AlikeUpTo
<1>9. k = Len(a) /\ k = Len(b) => a = b
  <2>1. a = [j \in 1 .. Len(a) |-> a[j]] /\ b = [j \in 1 .. Len(b) |-> b[j]]
    BY DEF Text
  <2>2. \A j \in 1 .. k : a[j] = b[j]
    BY <1>1 DEF AlikeUpTo
  <2> QED  BY <2>1, <2>2
<1>10. a = b => CharAt(a, k + 1) = CharAt(b, k + 1)
  OBVIOUS
<1> QED  BY <1>1, <1>2, <1>3, <1>7, <1>8, <1>9, <1>10

LEMMA StrcmpTransitive ==
  ASSUME NEW a \in Text, NEW b \in Text, NEW c \in Text, strcmp(a, b) < 0, strcmp(b, c) < 0
  PROVE  strcmp(a, c) < 0
PROOF
<1>1. PICK k \in Nat : AlikeUpTo(a, b, k) /\ strcmp(a, b) = CharAt(a, k + 1) - CharAt(b, k + 1)
  BY StrcmpIs
<1>2. PICK l \in Nat : AlikeUpTo(b, c, l) /\ strcmp(b, c) = CharAt(b, l + 1) - CharAt(c, l + 1)
  BY StrcmpIs
<1>3. PICK m \in Nat : AlikeUpTo(a, c, m) /\ strcmp(a, c) = CharAt(a, m + 1) - CharAt(c, m + 1)
  BY StrcmpIs
<1>4. /\ \A j \in 1 .. Len(a) : a[j] \in Nat \ {0}
      /\ \A j \in 1 .. Len(b) : b[j] \in Nat \ {0}
      /\ \A j \in 1 .. Len(c) : c[j] \in Nat \ {0}
      /\ Len(a) \in Nat /\ Len(b) \in Nat /\ Len(c) \in Nat
  BY DEF Text
<1>5. \A j \in Nat \ {0} : CharAt(a, j) \in Nat /\ CharAt(b, j) \in Nat /\ CharAt(c, j) \in Nat
  BY <1>4 DEF CharAt
<1>6. CharAt(a, k + 1) < CharAt(b, k + 1) /\ CharAt(b, l + 1) < CharAt(c, l + 1)
  BY <1>1, <1>2, <1>5
<1>7. CASE k < l
  <2>1. CharAt(b, k + 1) = CharAt(c, k + 1)
    BY <1>2, <1>4, <1>7 DEF CharAt, AlikeUpTo
  <2>2. m = k
    BY <1>1, <1>2, <1>3, <1>4, <1>6, <1>7, <2>1, SMTT(20) DEF CharAt, AlikeUpTo
  <2> QED  BY <1>3, <1>5, <1>6, <2>1, <2>2
<1>8. CASE k > l
  <2>1. CharAt(a, l + 1) = CharAt(b, l + 1)
    BY <1>1, <1>4, <1>8 DEF CharAt, AlikeUpTo
  <2>2. m = l
    BY <1>1, <1>2, <1>3, <1>4, <1>6, <1>8, <2>1 DEF CharAt, AlikeUpTo
  <2> QED  BY <1>3, <1>5, <1>6, <2>1, <2>2
<1>9. CASE k = l
  <2>1. CharAt(a, k + 1) < CharAt(c, k + 1)
    BY <1>5, <1>6, <1>9
  <2>2. m = k
    BY <1>1, <1>2, <1>3, <1>4, <1>9, <2>1 DEF CharAt, AlikeUpTo
  <2> QED  BY <1>3, <1>5, <2>1, <2>2
<1> QED  BY <1>7, <1>8, <1>9

\* What is left of the array: the place looked at is the one searched for, or n - p elements at
\* most are left; and a place q at which the search is to end has not been left out.
Left(r, base, compar, p, q) ==
  LET n == Len(base)
  IN  /\ r = [lo |-> r.lo, hi |-> r.hi] /\ r.lo \in 1 .. n + 1 /\ r.hi \in 0 .. n
      /\ \/ r.lo > r.hi
         \/ compar[base[r.lo + (r.hi - r.lo) \div 2]] = 0
         \/ r.hi - r.lo + 1 <= n - p
      /\ q # 0 => r.lo <= q /\ q <= r.hi

\* q is 0 or a place that compares equal, with what is less before it and what is greater behind.
Guided(base, compar, q) ==
  \/ q = 0
  \/ /\ q \in 1 .. Len(base)
     /\ compar[base[q]] = 0
     /\ \A j \in 1 .. Len(base) : /\ compar[base[j]] < 0 => q < j
                                  /\ compar[base[j]] > 0 => j < q

LEMMA BsearchTurn ==
  ASSUME NEW base, Len(base) \in Nat, NEW compar, \A j \in 1 .. Len(base) : compar[base[j]] \in Int,
         NEW q \in Nat, Guided(base, compar, q),
         NEW p \in Nat, NEW r, Left(r, base, compar, p, q)
  PROVE  LET mid == r.lo + (r.hi - r.lo) \div 2
             cmp == compar[base[mid]]
         IN  Left(IF r.lo > r.hi \/ cmp = 0 THEN r
                  ELSE IF cmp < 0 THEN [r EXCEPT !.hi = mid - 1] ELSE [r EXCEPT !.lo = mid + 1],
                  base, compar, p + 1, q)
PROOF
<1> DEFINE n == Len(base)
           mid == r.lo + (r.hi - r.lo) \div 2
           cmp == compar[base[mid]]
<1>1. /\ r = [lo |-> r.lo, hi |-> r.hi] /\ r.lo \in 1 .. n + 1 /\ r.hi \in 0 .. n /\ n \in Nat
      /\ r.lo > r.hi \/ cmp = 0 \/ r.hi - r.lo + 1 <= n - p
      /\ q # 0 => r.lo <= q /\ q <= r.hi
  BY DEF Left
<1>2. r.lo <= r.hi => mid \in r.lo .. r.hi
  BY <1>1
<1>3. r.lo <= r.hi => cmp \in Int
  BY <1>1, <1>2
<1>4. r.lo <= r.hi /\ q # 0 => (cmp < 0 => q < mid) /\ (cmp > 0 => mid < q)
  <2>1. r.lo <= r.hi => mid \in 1 .. Len(base)
    <3> HIDE DEF mid
    <3> QED  BY <1>1, <1>2
  <2> HIDE DEF mid
  <2> QED  BY <2>1 DEF Guided
<1> DEFINE l == [r EXCEPT !.hi = mid - 1]
           h == [r EXCEPT !.lo = mid + 1]
<1>5. l = [lo |-> r.lo, hi |-> mid - 1] /\ h = [lo |-> mid + 1, hi |-> r.hi]
  <2> HIDE DEF mid
  <2> QED  BY <1>1
<1>6. CASE r.lo > r.hi \/ cmp = 0
  <2>1. Left(r, base, compar, p + 1, q)
    <3> HIDE DEF cmp
    <3> QED  BY <1>1, <1>6 DEF Left, cmp
  <2> HIDE DEF cmp
  <2> QED  BY <1>6, <2>1 DEF cmp
<1>7. CASE r.lo <= r.hi /\ cmp < 0
  <2>1. l.lo = r.lo /\ l.hi = mid - 1 /\ l = [lo |-> l.lo, hi |-> l.hi]
    BY <1>5
  <2>2. mid - 1 - r.lo + 1 <= n - (p + 1) /\ mid - 1 \in 0 .. n
    <3> HIDE DEF cmp, mid
    <3>1. mid \in r.lo .. r.hi /\ r.hi - r.lo + 1 <= n - p
      BY <1>1, <1>2, <1>3, <1>7
    <3> QED  BY <1>1, <3>1
  <2>3. q # 0 => r.lo <= q /\ q <= mid - 1
    <3> HIDE DEF cmp
    <3> QED  BY <1>1, <1>2, <1>4, <1>7
  <2>4. Left(l, base, compar, p + 1, q)
    <3> HIDE DEF l, mid
    <3> QED  BY <1>1, <2>1, <2>2, <2>3 DEF Left
  <2>5. ~(r.lo > r.hi \/ cmp = 0)
    <3> HIDE DEF cmp
    <3> QED  BY <1>1, <1>3, <1>7
  <2> HIDE DEF Left
  <2> QED  BY <1>7, <2>4, <2>5
<1>8. CASE r.lo <= r.hi /\ cmp > 0
  <2>1. h.lo = mid + 1 /\ h.hi = r.hi /\ h = [lo |-> h.lo, hi |-> h.hi]
    BY <1>5
  <2>2. r.hi - (mid + 1) + 1 <= n - (p + 1) /\ mid + 1 \in 1 .. n + 1
    <3> HIDE DEF cmp, mid
    <3>1. mid \in r.lo .. r.hi /\ r.hi - r.lo + 1 <= n - p
      BY <1>1, <1>2, <1>3, <1>8
    <3> QED  BY <1>1, <3>1, SMTT(20)
  <2>3. q # 0 => mid + 1 <= q /\ q <= r.hi
    <3> HIDE DEF cmp
    <3> QED  BY <1>1, <1>2, <1>4, <1>8
  <2>4. Left(h, base, compar, p + 1, q)
    <3> HIDE DEF h, mid
    <3> QED  BY <1>1, <2>1, <2>2, <2>3 DEF Left
  <2>5. ~(r.lo > r.hi \/ cmp = 0) /\ ~(cmp < 0)
    <3> HIDE DEF cmp
    <3> QED  BY <1>1, <1>3, <1>8
  <2> HIDE DEF Left
  <2> QED  BY <1>8, <2>4, <2>5
<1>9. r.lo > r.hi \/ cmp = 0 \/ (r.lo <= r.hi /\ cmp < 0) \/ (r.lo <= r.hi /\ cmp > 0)
  <2> HIDE DEF cmp
  <2> QED  BY <1>1, <1>3
<1> QED  BY ONLY <1>6, <1>7, <1>8, <1>9

\* bsearch returns a place that compares equal, and does find one in an array that is in order.
LEMMA BsearchFinds ==
  ASSUME NEW base, Len(base) \in Nat, NEW compar, \A j \in 1 .. Len(base) : compar[base[j]] \in Int,
         NEW q \in Nat, Guided(base, compar, q)
  PROVE  LET m == bsearch(base, compar)
         IN  /\ m \in 0 .. Len(base)
             /\ m # 0 => compar[base[m]] = 0
             /\ q # 0 => m # 0
PROOF
<1> DEFINE n == Len(base)
           first == [lo |-> 1, hi |-> n]
           Mid(r) == r.lo + (r.hi - r.lo) \div 2
           Turn(r) == LET cmp == compar[base[Mid(r)]]
                      IN  IF r.lo > r.hi \/ cmp = 0 THEN r
                          ELSE IF cmp < 0 THEN [r EXCEPT !.hi = Mid(r) - 1]
                          ELSE [r EXCEPT !.lo = Mid(r) + 1]
           Turns(g, e) == g = [p \in 0 .. e |-> IF p = 0 THEN first ELSE Turn(g[p - 1])]
           S == {m \in Nat : \E g : Turns(g, m)}
<1>2. \E g : Turns(g, n)
  <2> HIDE DEF first, Turn
  <2>1. 0 \in S
    <3>1. Turns([p \in 0 .. 0 |-> first], 0)
      OBVIOUS
    <3> QED  BY <3>1
  <2>2. ASSUME NEW m \in Nat, m \in S PROVE m + 1 \in S
    <3>1. PICK g : Turns(g, m)
      BY <2>2
    <3> DEFINE h == [p \in 0 .. m + 1 |-> IF p = m + 1 THEN Turn(g[m]) ELSE g[p]]
    <3>2. Turns(h, m + 1)
      BY <3>1
    <3> HIDE DEF Turns
    <3> QED  BY <3>2
  <2>3. n \in S
    <3> HIDE DEF S
    <3> QED  BY <2>1, <2>2, SetInduction
  <2> QED  BY <2>3
<1> DEFINE f == CHOOSE g : Turns(g, n)
<1>3. bsearch(base, compar) = IF f[n].lo > f[n].hi THEN 0 ELSE Mid(f[n])
  BY DEF bsearch
<1>4. Turns(f, n)
  <2> HIDE DEF Turns
  <2> QED  BY <1>2
<1> HIDE DEF f
<1>5. f[0] = first /\ \A p \in 1 .. n : f[p] = Turn(f[p - 1])
  <2> HIDE DEF first, Turn
  <2> QED  BY <1>4, SMTT(20)
<1> DEFINE P == {p \in Nat : p <= n => Left(f[p], base, compar, p, q)}
<1>6. 0 \in P
  <2>1. f[0].lo = 1 /\ f[0].hi = n /\ f[0] = [lo |-> f[0].lo, hi |-> f[0].hi]
    BY <1>5
  <2>2. q # 0 => q \in 1 .. n
    BY DEF Guided
  <2>3. Left(f[0], base, compar, 0, q)
    BY <2>1, <2>2 DEF Left
  <2> QED  BY <2>3
<1>7. ASSUME NEW p \in Nat, p \in P PROVE p + 1 \in P
  <2>1. SUFFICES ASSUME p + 1 <= n PROVE Left(f[p + 1], base, compar, p + 1, q)
    OBVIOUS
  <2> DEFINE r == f[p]
  <2>2. f[p + 1] = Turn(r)
    <3> HIDE DEF Turn
    <3>1. p + 1 \in 1 .. n /\ (p + 1) - 1 = p
      BY <2>1
    <3> QED  BY <1>5, <3>1
  <2>3. Left(r, base, compar, p, q)
    BY <1>7, <2>1
  <2> HIDE DEF r
  <2>4. Left(Turn(r), base, compar, p + 1, q)
    BY <2>3, BsearchTurn
  <2> QED
    <3> HIDE DEF Turn
    <3> QED  BY <2>2, <2>4
<1>8. Left(f[n], base, compar, n, q)
  <2>1. n \in P
    <3> HIDE DEF P
    <3> QED  BY <1>6, <1>7, SetInduction
  <2> QED  BY <2>1
<1> DEFINE r == f[n]
<1> HIDE DEF r
<1>9. /\ r.lo \in 1 .. n + 1 /\ r.hi \in 0 .. n
      /\ r.lo > r.hi \/ compar[base[Mid(r)]] = 0 \/ r.hi - r.lo + 1 <= n - n
      /\ q # 0 => r.lo <= q /\ q <= r.hi
  BY <1>8 DEF Left, r
<1>10. bsearch(base, compar) = IF r.lo > r.hi THEN 0 ELSE Mid(r)
  BY <1>3 DEF r
<1>11. ~(r.lo > r.hi) => Mid(r) \in 1 .. n /\ compar[base[Mid(r)]] = 0
  BY <1>9
<1>12. q # 0 => ~(r.lo > r.hi)
  BY <1>9
<1> QED
  <2> HIDE DEF Mid
  <2> QED  BY <1>10, <1>11, <1>12

\* The tokenizer's three fields.
TokShape == tok = [vocab |-> tok.vocab, scores |-> tok.scores, sorted |-> tok.sorted]

\* A sequence by its length and elements.
LEMMA SequenceOf ==
  ASSUME NEW R, NEW n \in Nat, NEW s, s = [k \in 1 .. n |-> s[k]], \A k \in 1 .. n : s[k] \in R
  PROVE  s \in Seq(R) /\ Len(s) = n
  OBVIOUS

\* sorted has exactly the strings of voc, each with its token, in strcmp's order.
OrderedTable(sorted, voc) ==
  /\ sorted \in Seq([str : Text, id : Int])
  /\ \A j \in 1 .. Len(sorted) : \E k \in 1 .. Len(voc) : sorted[j].str = voc[k] /\ sorted[j].id = k - 1
  /\ \A k \in 1 .. Len(voc) : \E j \in 1 .. Len(sorted) : sorted[j].str = voc[k]
  /\ \A j, k \in 1 .. Len(sorted) : j < k => ~(strcmp(sorted[k].str, sorted[j].str) < 0)

LEMMA SortVocabOrders ==
  ASSUME SortVocab, TokShape, tok.vocab \in Seq(Text)
  PROVE  OrderedTable(tok'.sorted, tok.vocab)
PROOF
<1> DEFINE voc == tok.vocab
           entries == [k \in DOMAIN voc |-> [str |-> voc[k], id |-> k - 1]]
           before == [a \in Range(entries) |-> [b \in Range(entries) |-> compare_tokens(a, b) < 0]]
           sorted == qsort(entries, before)
           E == [str : Text, id : Int]
<1>1. tok'.sorted = sorted
  <2>1. tok' = [tok EXCEPT !.sorted = sorted]
    BY DEF SortVocab
  <2> HIDE DEF sorted
  <2> QED  BY <2>1 DEF TokShape
<1>2. /\ entries \in Seq(E) /\ Len(entries) = Len(voc) /\ DOMAIN entries = 1 .. Len(voc)
      /\ \A k \in 1 .. Len(voc) : entries[k].str = voc[k] /\ entries[k].id = k - 1
  <2>1. DOMAIN voc = 1 .. Len(voc) /\ Len(voc) \in Nat /\ \A k \in 1 .. Len(voc) : voc[k] \in Text
    OBVIOUS
  <2>2. \A k \in 1 .. Len(voc) : entries[k] = [str |-> voc[k], id |-> k - 1]
    BY <2>1
  <2>3. \A k \in 1 .. Len(voc) : entries[k] \in E
    <3>1. ASSUME NEW k \in 1 .. Len(voc) PROVE [str |-> voc[k], id |-> k - 1] \in E
      <4>1. voc[k] \in Text /\ k - 1 \in Int
        BY <2>1
      <4> QED  BY <4>1
    <3> HIDE DEF entries, E
    <3> QED  BY <2>2, <3>1
  <2>4. entries = [k \in 1 .. Len(voc) |-> entries[k]]
    BY <2>1
  <2>5. entries \in Seq(E) /\ Len(entries) = Len(voc)
    <3> HIDE DEF entries, E
    <3> QED  BY <2>1, <2>3, <2>4, SequenceOf
  <2>6. DOMAIN entries = 1 .. Len(voc)
    BY <2>1
  <2> HIDE DEF entries, E
  <2>7. ASSUME NEW k \in 1 .. Len(voc) PROVE entries[k].str = voc[k] /\ entries[k].id = k - 1
    <3>1. entries[k] = [str |-> voc[k], id |-> k - 1]
      BY <2>2
    <3> QED  BY <3>1
  <2> QED  BY <2>5, <2>6, <2>7
<1> HIDE DEF entries
<1>3. Range(entries) \subseteq E
  <2> HIDE DEF E
  <2> QED  BY <1>2, ArrayIs
<1>4. \A a, b \in Range(entries) : Before(before, a, b) <=> strcmp(a.str, b.str) < 0
  BY DEF Before, compare_tokens
<1> HIDE DEF before
<1>5. StrictOrder(Range(entries), before)
  <2>1. ASSUME NEW a \in Range(entries), NEW b \in Range(entries), NEW c \in Range(entries)
        PROVE  /\ ~Before(before, a, a)
               /\ Before(before, a, b) /\ Before(before, b, c) => Before(before, a, c)
    <3>1. a.str \in Text /\ b.str \in Text /\ c.str \in Text
      BY <1>3
    <3>2. strcmp(a.str, a.str) = 0
      BY <3>1, StrcmpOrders
    <3>3. strcmp(a.str, b.str) < 0 /\ strcmp(b.str, c.str) < 0 => strcmp(a.str, c.str) < 0
      BY <3>1, StrcmpTransitive
    <3> QED  BY <1>4, <3>2, <3>3
  <2> QED  BY <2>1 DEF StrictOrder
<1>6. Rearranged(sorted, entries) /\ InOrder(sorted, before)
  BY <1>2, <1>5, QsortSorts
<1> HIDE DEF sorted
<1>7. sorted \in Seq(Range(entries)) /\ Range(sorted) = Range(entries)
  BY <1>6 DEF Rearranged
<1>8. DOMAIN sorted = 1 .. Len(sorted) /\ \A j \in 1 .. Len(sorted) : sorted[j] \in Range(entries)
  BY <1>7
<1>9. sorted \in Seq(E)
  <2> HIDE DEF E
  <2> QED  BY <1>3, <1>7
<1>10. \A j \in 1 .. Len(sorted) : \E k \in 1 .. Len(voc) : sorted[j].str = voc[k] /\ sorted[j].id = k - 1
  BY <1>2, <1>8 DEF Range
<1>11. \A k \in 1 .. Len(voc) : \E j \in 1 .. Len(sorted) : sorted[j].str = voc[k]
  <2>1. ASSUME NEW k \in 1 .. Len(voc) PROVE \E j \in 1 .. Len(sorted) : sorted[j].str = voc[k]
    <3>1. entries[k] \in Range(sorted)
      BY <1>2, <1>7 DEF Range
    <3>2. PICK j \in 1 .. Len(sorted) : sorted[j] = entries[k]
      BY <1>8, <3>1 DEF Range
    <3> QED  BY <1>2, <3>2
  <2> QED  BY <2>1
<1>12. \A j, k \in 1 .. Len(sorted) : j < k => ~(strcmp(sorted[k].str, sorted[j].str) < 0)
  BY <1>4, <1>6, <1>8 DEF InOrder
<1> QED  BY <1>1, <1>9, <1>10, <1>11, <1>12 DEF OrderedTable

\* str_lookup returns a token whose string is the one looked up, and -1 only if no token has it.
LEMMA LookupIs ==
  ASSUME tok.vocab \in Seq(Text), OrderedTable(tok.sorted, tok.vocab), NEW str \in Text
  PROVE  LET id == str_lookup(str)
         IN  /\ id # -1 => id \in 0 .. Len(tok.vocab) - 1 /\ vocab(id) = str
             /\ (\E k \in 1 .. Len(tok.vocab) : tok.vocab[k] = str) => id # -1
PROOF
<1> DEFINE base == tok.sorted
           compar == [e \in Range(base) |-> compare_tokens([str |-> str], e)]
           m == bsearch(base, compar)
           id == str_lookup(str)
<1>1. id = IF m # 0 THEN base[m].id ELSE -1
  BY DEF str_lookup
<1>2. /\ base \in Seq([str : Text, id : Int]) /\ Len(base) \in Nat
      /\ \A j \in 1 .. Len(base) : base[j] \in Range(base) /\ base[j].str \in Text
  <2> DEFINE E == [str : Text, id : Int]
  <2>1. base \in Seq(E)
    BY DEF OrderedTable
  <2> HIDE DEF E
  <2>2. /\ Len(base) \in Nat /\ \A j \in 1 .. Len(base) : base[j] \in Range(base)
        /\ Range(base) \subseteq E
    BY <2>1, ArrayIs
  <2> QED  BY <2>1, <2>2 DEF E
<1>3. \A j \in 1 .. Len(base) : compar[base[j]] = strcmp(str, base[j].str)
  BY <1>2 DEF compare_tokens
<1> HIDE DEF compar
<1>4. \A j \in 1 .. Len(base) : compar[base[j]] \in Int /\ (compar[base[j]] = 0 <=> str = base[j].str)
  <2>1. ASSUME NEW j \in 1 .. Len(base)
        PROVE  strcmp(str, base[j].str) \in Int /\ (strcmp(str, base[j].str) = 0 <=> str = base[j].str)
    BY <1>2, StrcmpOrders
  <2> QED  BY <1>3, <2>1
<1>5. Guided(base, compar, 0) /\ 0 \in Nat
  BY DEF Guided
<1>6. m \in 0 .. Len(base) /\ (m # 0 => compar[base[m]] = 0)
  <2> HIDE DEF base
  <2> QED  BY ONLY <1>2, <1>4, <1>5, BsearchFinds
<1>7. ASSUME id # -1 PROVE id \in 0 .. Len(tok.vocab) - 1 /\ vocab(id) = str
  <2> HIDE DEF m, id
  <2>1. m \in 1 .. Len(base) /\ id = base[m].id /\ str = base[m].str
    BY <1>1, <1>4, <1>6, <1>7
  <2>2. PICK k \in 1 .. Len(tok.vocab) : base[m].str = tok.vocab[k] /\ base[m].id = k - 1
    BY <2>1 DEF OrderedTable
  <2>3. Len(tok.vocab) \in Nat
    OBVIOUS
  <2> QED  BY <2>1, <2>2, <2>3 DEF vocab
<1>8. ASSUME NEW k \in 1 .. Len(tok.vocab), tok.vocab[k] = str PROVE id # -1
  <2>1. PICK q \in 1 .. Len(base) : base[q].str = str
    BY <1>8 DEF OrderedTable
  <2>2. ASSUME NEW j \in 1 .. Len(base)
        PROVE  (compar[base[j]] < 0 => q < j) /\ (compar[base[j]] > 0 => j < q)
    <3>1. base[j].str \in Text
      BY <1>2
    <3>2. strcmp(str, base[j].str) \in Int /\ (strcmp(base[j].str, str) < 0 <=> strcmp(str, base[j].str) > 0)
      BY <3>1, StrcmpOrders
    <3>3. /\ j < q => ~(strcmp(str, base[j].str) < 0)
          /\ q < j => ~(strcmp(base[j].str, str) < 0)
      BY <2>1 DEF OrderedTable
    <3>4. j = q => strcmp(str, base[j].str) = 0
      BY <1>3, <1>4, <2>1
    <3>5. compar[base[j]] = strcmp(str, base[j].str) /\ q \in Nat /\ j \in Nat
      BY <1>2, <1>3
    <3> QED  BY <3>2, <3>3, <3>4, <3>5
  <2>3. compar[base[q]] = 0
    BY <1>4, <2>1
  <2>4. Guided(base, compar, q) /\ q \in Nat /\ q # 0
    BY <2>1, <2>2, <2>3 DEF Guided
  <2>5. m # 0
    <3> HIDE DEF base
    <3> QED  BY ONLY <1>2, <1>4, <2>4, BsearchFinds
  <2>6. base[m].id \in Nat
    <3> HIDE DEF m
    <3>1. m \in 1 .. Len(base)
      BY <1>6, <2>5
    <3>2. PICK l \in 1 .. Len(tok.vocab) : base[m].id = l - 1
      BY <3>1 DEF OrderedTable
    <3>3. Len(tok.vocab) \in Nat
      OBVIOUS
    <3> QED  BY <3>2, <3>3
  <2> HIDE DEF m, id, base
  <2> QED  BY <1>1, <2>5, <2>6
<1> QED
  <2> HIDE DEF id
  <2> QED  BY <1>7, <1>8 DEF id

-----------------------------------------------------------------------------
(***************************************************************************)
(* The concatenation of strings.                                           *)
(***************************************************************************)

\* flat[k] is the concatenation of the first k members of s.
Cat(a, b) == a \o b
FlattenedBy(flat, s) ==
  /\ flat[1] = s[1]
  /\ \A k \in 2 .. Len(s) : flat[k] = Cat(flat[k - 1], s[k])

LEMMA FlattenIs ==
  ASSUME NEW s, Len(s) \in Nat \ {0}
  PROVE  \E flat : FlattenedBy(flat, s) /\ FlattenSeq(s) = flat[Len(s)]
PROOF
<1> DEFINE n == Len(s)
           Flats(g, e) == g = [k \in 1 .. e |-> IF k = 1 THEN s[k] ELSE Cat(g[k - 1], s[k])]
           S == {m \in Nat : \E g : Flats(g, m + 1)}
<1>1. \E g : Flats(g, n)
  <2>1. 0 \in S
    <3>1. Flats([k \in 1 .. 1 |-> s[1]], 0 + 1)
      OBVIOUS
    <3> QED  BY <3>1
  <2>2. ASSUME NEW m \in Nat, m \in S PROVE m + 1 \in S
    <3>1. PICK g : Flats(g, m + 1)
      BY <2>2
    <3> DEFINE h == [k \in 1 .. m + 1 + 1 |-> IF k = m + 1 + 1 THEN Cat(g[m + 1], s[m + 1 + 1]) ELSE g[k]]
    <3>2. Flats(h, m + 1 + 1)
      BY <3>1
    <3> HIDE DEF Flats
    <3> QED  BY <3>2
  <2>3. n - 1 \in S
    <3> HIDE DEF S
    <3>1. n - 1 \in Nat
      OBVIOUS
    <3> QED  BY <2>1, <2>2, <3>1, SetInduction
  <2>4. n - 1 + 1 = n
    OBVIOUS
  <2> QED  BY <2>3, <2>4
<1> DEFINE f == CHOOSE g : Flats(g, n)
<1>2. FlattenSeq(s) = f[n]
  BY DEF FlattenSeq, Cat
<1>3. Flats(f, n)
  <2> HIDE DEF Flats
  <2> QED  BY <1>1
<1> HIDE DEF f
<1>4. FlattenedBy(f, s)
  BY <1>3 DEF FlattenedBy
<1> QED  BY <1>2, <1>4

LEMMA FlattenEmpty == FlattenSeq(<<>>) = <<>>
  BY DEF FlattenSeq

LEMMA FlattenAppend ==
  ASSUME NEW R, NEW s \in Seq(Seq(R)), NEW x \in Seq(R)
  PROVE  FlattenSeq(Append(s, x)) = FlattenSeq(s) \o x
PROOF
<1> DEFINE t == Append(s, x)
           n == Len(s)
<1>1. n \in Nat /\ Len(t) = n + 1 /\ t[n + 1] = x /\ \A k \in 1 .. n : t[k] = s[k]
  OBVIOUS
<1> HIDE DEF t
<1>2. PICK g : FlattenedBy(g, t) /\ FlattenSeq(t) = g[n + 1]
  BY <1>1, FlattenIs
<1>3. CASE n = 0
  <2>1. s = <<>>
    BY <1>3
  <2>2. <<>> \o x = x
    OBVIOUS
  <2> QED  BY <1>1, <1>2, <1>3, <2>1, <2>2, FlattenEmpty DEF FlattenedBy, t
<1>4. CASE n # 0
  <2>1. PICK h : FlattenedBy(h, s) /\ FlattenSeq(s) = h[n]
    BY <1>1, <1>4, FlattenIs
  <2> DEFINE S == {m \in Nat : m + 1 <= n => g[m + 1] = h[m + 1]}
  <2>2. 0 \in S
    BY <1>1, <1>2, <1>4, <2>1 DEF FlattenedBy
  <2>3. ASSUME NEW m \in Nat, m \in S PROVE m + 1 \in S
    <3>1. SUFFICES ASSUME m + 1 + 1 <= n PROVE g[m + 1 + 1] = h[m + 1 + 1]
      OBVIOUS
    <3>2. g[m + 1] = h[m + 1]
      BY <1>1, <2>3, <3>1
    <3> DEFINE k == m + 1 + 1
    <3>3. k \in 2 .. n /\ k \in 2 .. Len(t) /\ k - 1 = m + 1
      BY <1>1, <3>1
    <3> HIDE DEF k
    <3>4. g[k] = Cat(g[k - 1], t[k]) /\ h[k] = Cat(h[k - 1], s[k]) /\ t[k] = s[k]
      BY <1>1, <1>2, <2>1, <3>3 DEF FlattenedBy
    <3> QED  BY <3>2, <3>3, <3>4 DEF k
  <2>4. g[n] = h[n]
    <3>1. n - 1 \in S
      <4> HIDE DEF S
      <4>1. n - 1 \in Nat
        BY <1>1, <1>4
      <4> QED  BY <2>2, <2>3, <4>1, SetInduction
    <3>2. (n - 1) + 1 = n
      BY <1>1
    <3> QED  BY <1>1, <3>1, <3>2
  <2>5. g[n + 1] = g[n] \o x
    <3>1. n + 1 \in 2 .. Len(t) /\ (n + 1) - 1 = n
      BY <1>1, <1>4
    <3> QED  BY <1>1, <1>2, <3>1 DEF FlattenedBy, Cat
  <2> QED  BY <1>2, <2>1, <2>4, <2>5 DEF t
<1> QED  BY <1>3, <1>4

\* A sequence is its beginning and its last member.
LEMMA SplitLast ==
  ASSUME NEW R, NEW n \in Nat, NEW s \in Seq(R), Len(s) = n + 1
  PROVE  /\ SubSeq(s, 1, n) \in Seq(R) /\ Len(SubSeq(s, 1, n)) = n /\ s[n + 1] \in R
         /\ s = Append(SubSeq(s, 1, n), s[n + 1])
PROOF
<1> DEFINE a == SubSeq(s, 1, n)
           b == Append(a, s[n + 1])
<1>1. a \in Seq(R) /\ Len(a) = n /\ s[n + 1] \in R /\ \A k \in 1 .. n : a[k] = s[k]
  OBVIOUS
<1> HIDE DEF a
<1>2. /\ b \in Seq(R) /\ Len(b) = n + 1 /\ b[n + 1] = s[n + 1]
      /\ \A k \in 1 .. n : b[k] = s[k]
  BY <1>1
<1> HIDE DEF b
<1>3. \A k \in 1 .. n + 1 : b[k] = s[k]
  BY <1>2
<1>4. b = s
  <2>1. b = [k \in 1 .. n + 1 |-> b[k]] /\ s = [k \in 1 .. n + 1 |-> s[k]]
    BY <1>2
  <2> QED  BY <1>3, <2>1
<1> QED  BY <1>1, <1>4 DEF a, b

LEMMA FlattenSeqOf ==
  ASSUME NEW R, NEW s \in Seq(Seq(R))
  PROVE  FlattenSeq(s) \in Seq(R)
PROOF
<1> DEFINE S == {n \in Nat : \A t \in Seq(Seq(R)) : Len(t) = n => FlattenSeq(t) \in Seq(R)}
<1>1. 0 \in S
  <2>1. \A t \in Seq(Seq(R)) : Len(t) = 0 => t = <<>>
    OBVIOUS
  <2> QED  BY <2>1, FlattenEmpty
<1>2. ASSUME NEW n \in Nat, n \in S PROVE n + 1 \in S
  <2>1. ASSUME NEW t \in Seq(Seq(R)), Len(t) = n + 1 PROVE FlattenSeq(t) \in Seq(R)
    <3> DEFINE a == SubSeq(t, 1, n)
    <3>1. a \in Seq(Seq(R)) /\ Len(a) = n /\ t[n + 1] \in Seq(R) /\ t = Append(a, t[n + 1])
      BY <2>1, SplitLast
    <3> HIDE DEF a
    <3>2. FlattenSeq(a) \in Seq(R)
      BY <1>2, <3>1
    <3>3. FlattenSeq(Append(a, t[n + 1])) = FlattenSeq(a) \o t[n + 1]
      BY <3>1, FlattenAppend
    <3>4. FlattenSeq(a) \o t[n + 1] \in Seq(R)
      BY <3>1, <3>2
    <3> QED  BY <3>1, <3>3, <3>4
  <2> QED  BY <2>1
<1>3. Len(s) \in S
  <2> HIDE DEF S
  <2>1. Len(s) \in Nat
    OBVIOUS
  <2> QED  BY <1>1, <1>2, <2>1, SetInduction
<1> QED  BY <1>3

LEMMA FlattenConcat ==
  ASSUME NEW R, NEW s \in Seq(Seq(R)), NEW u \in Seq(Seq(R))
  PROVE  FlattenSeq(s \o u) = FlattenSeq(s) \o FlattenSeq(u)
PROOF
<1> DEFINE Good(t) == FlattenSeq(s \o t) = FlattenSeq(s) \o FlattenSeq(t)
           S == {n \in Nat : \A t \in Seq(Seq(R)) : Len(t) = n => Good(t)}
<1>0. FlattenSeq(s) \in Seq(R)
  BY FlattenSeqOf
<1>1. 0 \in S
  <2>1. ASSUME NEW t \in Seq(Seq(R)), Len(t) = 0 PROVE Good(t)
    <3>1. t = <<>> /\ s \o t = s
      BY <2>1
    <3>2. FlattenSeq(s) \o <<>> = FlattenSeq(s)
      BY <1>0
    <3> QED  BY <3>1, <3>2, FlattenEmpty
  <2> QED  BY <2>1
<1>2. ASSUME NEW n \in Nat, n \in S PROVE n + 1 \in S
  <2>1. ASSUME NEW t \in Seq(Seq(R)), Len(t) = n + 1 PROVE Good(t)
    <3> DEFINE a == SubSeq(t, 1, n)
               x == t[n + 1]
    <3>1. a \in Seq(Seq(R)) /\ Len(a) = n /\ x \in Seq(R) /\ t = Append(a, x)
      BY <2>1, SplitLast
    <3> HIDE DEF a, x
    <3>2. s \o Append(a, x) = Append(s \o a, x) /\ s \o a \in Seq(Seq(R))
      BY <3>1, SMTT(20)
    <3>3. FlattenSeq(Append(s \o a, x)) = FlattenSeq(s \o a) \o x
      BY <3>1, <3>2, FlattenAppend
    <3>4. FlattenSeq(Append(a, x)) = FlattenSeq(a) \o x
      BY <3>1, FlattenAppend
    <3>5. FlattenSeq(s \o a) = FlattenSeq(s) \o FlattenSeq(a)
      BY <1>2, <3>1
    <3>6. FlattenSeq(a) \in Seq(R)
      BY <3>1, FlattenSeqOf
    <3>7. (FlattenSeq(s) \o FlattenSeq(a)) \o x = FlattenSeq(s) \o (FlattenSeq(a) \o x)
      BY <1>0, <3>1, <3>6, SMTT(20)
    <3> QED  BY <3>1, <3>2, <3>3, <3>4, <3>5, <3>7
  <2> HIDE DEF Good
  <2> QED  BY <2>1
<1>3. Len(u) \in S
  <2> HIDE DEF S
  <2>1. Len(u) \in Nat
    OBVIOUS
  <2> QED  BY <1>1, <1>2, <2>1, SetInduction
<1> QED  BY <1>3

LEMMA FlattenOne ==
  ASSUME NEW R, NEW x \in Seq(R)
  PROVE  FlattenSeq(<<x>>) = x
PROOF
<1>1. Append(<<>>, x) = <<x>> /\ <<>> \o x = x /\ <<>> \in Seq(Seq(R))
  OBVIOUS
<1>2. FlattenSeq(Append(<<>>, x)) = FlattenSeq(<<>>) \o x
  BY <1>1, FlattenAppend
<1> QED  BY <1>1, <1>2, FlattenEmpty

\* Strings of one character each.
LEMMA FlattenSingles ==
  ASSUME NEW R, NEW b \in Seq(R)
  PROVE  FlattenSeq([k \in 1 .. Len(b) |-> <<b[k]>>]) = b
PROOF
<1> DEFINE Ones(c) == [k \in 1 .. Len(c) |-> <<c[k]>>]
           S == {n \in Nat : \A c \in Seq(R) : Len(c) = n => FlattenSeq(Ones(c)) = c}
<1>1. 0 \in S
  <2>1. ASSUME NEW c \in Seq(R), Len(c) = 0 PROVE FlattenSeq(Ones(c)) = c
    <3>1. c = <<>> /\ Ones(c) = <<>>
      BY <2>1
    <3> QED  BY <3>1, FlattenEmpty
  <2> QED  BY <2>1
<1>2. ASSUME NEW n \in Nat, n \in S PROVE n + 1 \in S
  <2>1. ASSUME NEW c \in Seq(R), Len(c) = n + 1 PROVE FlattenSeq(Ones(c)) = c
    <3> DEFINE a == SubSeq(c, 1, n)
               x == c[n + 1]
    <3>1. a \in Seq(R) /\ Len(a) = n /\ x \in R /\ c = Append(a, x)
      BY <2>1, SplitLast
    <3> HIDE DEF a, x
    <3>2. Ones(a) \in Seq(Seq(R)) /\ Len(Ones(a)) = n /\ <<x>> \in Seq(R)
      BY <3>1
    <3>3. Ones(c) = Append(Ones(a), <<x>>)
      <4>1. Ones(c) \in Seq(Seq(R)) /\ Len(Ones(c)) = n + 1
        BY <2>1
      <4>2. SubSeq(Ones(c), 1, n) = Ones(a)
        BY <2>1, <3>1
      <4>3. Ones(c)[n + 1] = <<x>>
        BY <2>1 DEF x
      <4> HIDE DEF Ones
      <4> QED  BY <4>1, <4>2, <4>3, SplitLast
    <3> HIDE DEF Ones
    <3>4. FlattenSeq(Ones(c)) = FlattenSeq(Ones(a)) \o <<x>>
      BY <3>2, <3>3, FlattenAppend
    <3>5. FlattenSeq(Ones(a)) = a
      BY <1>2, <3>1
    <3>6. a \o <<x>> = Append(a, x)
      BY <3>1
    <3> QED  BY <3>1, <3>4, <3>5, <3>6
  <2> HIDE DEF Ones
  <2> QED  BY <2>1
<1>3. Len(b) \in S
  <2> HIDE DEF S
  <2>1. Len(b) \in Nat
    OBVIOUS
  <2> QED  BY <1>1, <1>2, <2>1, SetInduction
<1> QED  BY <1>3

-----------------------------------------------------------------------------
(***************************************************************************)
(* encode, and what is printed of the prompt.                              *)
(***************************************************************************)

ReadUpTo(n) == tok.vocab = [k \in 1 .. n |-> vocabulary.entries[k].str]

Unread == {"start", "checkpoint", "tables", "state", "vocab", "scores", "file"}
Generating == {"forward", "layer", "next"}
Encoding == {"buffer", "encode", "merge"} \cup Generating

\* The vocabulary is what has been read of the file, and from SortStep on the table is made of it.
VocabInv ==
  /\ TokShape
  /\ pc \in Unread => tok.vocab = <<>>
  /\ pc = "entries" => i - 1 <= config.vocab_size /\ ReadUpTo(i - 1)
  /\ Begun /\ pc \notin Unread \cup {"entries"} => ReadUpTo(config.vocab_size)
  /\ pc \in Encoding => OrderedTable(tok.sorted, tok.vocab)

\* A token that stands for text of the prompt.
TextToken(id) ==
  /\ id # BOS /\ Spelling(id) \in Seq(Range(prompt))
  /\ IsRaw(vocab(id)) => vocab(id)[1] # Raw

\* The tokens before the text's: BOS, and a space if there is a text.
Start == IF prompt = <<>> THEN 1 ELSE 2

TokensInv ==
  /\ enc.tokens \in Seq(0 .. config.vocab_size - 1)
  /\ Len(enc.tokens) >= Start /\ enc.tokens[1] = BOS
  /\ prompt # <<>> => enc.tokens[2] # BOS /\ vocab(enc.tokens[2]) = <<Space>>
  /\ \A k \in Start + 1 .. Len(enc.tokens) : TextToken(enc.tokens[k])

\* What m tokens of u after those before the text spell, and what all of u do.
SpelledIn(u, m) == FlattenSeq([k \in 1 .. m |-> Spelling(u[k + Start])])
Spells(u) == FlattenSeq([k \in 1 .. Len(u) |-> Spelling(u[k])])

SpelledBy(n) == SpelledIn(enc.tokens, n)

\* What is printed of n tokens after those before the text.
PrintedBy(n) == FlattenSeq([k \in 1 .. n |-> safe_printf(Spelling(enc.tokens[k + Start]))])

EncodeInv ==
  /\ enc.text = prompt /\ enc.c \in 1 .. Len(prompt) + 1
  /\ TokensInv
  /\ Len(enc.tokens) - Start + enc.str_len <= enc.c - 1
  /\ enc.str_buffer \in Seq(Range(prompt)) /\ Len(enc.str_buffer) <= 4
  /\ enc.str_len \in {0, Len(enc.str_buffer)}
  /\ enc.str_len # 0 => Len(enc.str_buffer) < 4 /\ IsContinuation(enc.c)
  /\ SpelledBy(Len(enc.tokens) - Start) \o SubSeq(enc.str_buffer, 1, enc.str_len)
       = SubSeq(prompt, 1, enc.c - 1)

EncShape == enc = [text |-> enc.text, c |-> enc.c, str_buffer |-> enc.str_buffer,
                   str_len |-> enc.str_len, tokens |-> enc.tokens]

\* As long as nothing was merged and the prompt lasts, its next token is the one to be fed, and
\* those before it have been printed.
EchoInv ==
  /\ pos \in Nat /\ TokensInv /\ SpelledBy(Len(enc.tokens) - Start) = prompt
  /\ pos <= Len(enc.tokens) - 1 =>
       /\ token = enc.tokens[pos + 1]
       /\ prompt # <<>> => out = PrintedBy(pos - 1)

SpellInv ==
  /\ VocabInv /\ EncShape
  /\ pc \notin Generating \cup {"done", "dumped", "panic", "undefined", "rebooted"} => pos = 0 /\ out = <<>>
  /\ pc = "encode" => EncodeInv
  /\ pc = "merge" => Collapses
  /\ pc \in Generating /\ ~Collapses => EchoInv

LEMMA TokenizerFacts ==
  ASSUME UseInv, Begun
  PROVE  LET n == config.vocab_size
             str(k) == vocabulary.entries[k].str
         IN  /\ n \in Nat /\ n > BOS
             /\ Raw \in Nat /\ Space \in 1 .. Raw - 1 /\ prompt \in Seq(1 .. Raw - 1)
             /\ vocabulary.max_token_length \in Nat \ {0}
             /\ \A k \in 1 .. n : str(k) \in Text
             /\ \E k \in 1 .. n : str(k) = <<Space>>
             /\ \A b \in Range(prompt) : b + 4 <= n /\ str(b + 4) = <<Raw + b>>
             /\ Len(str(BOS + 1)) > 4 \/ ~(Range(str(BOS + 1)) \subseteq Range(prompt) \cup {Space})
PROOF
<1>1. PICK r \in Runs : program = r.program /\ model = r.model /\ prompt = r.prompt
  BY DEF UseInv, GivenInv
<1>2. /\ r.model.there /\ Accepted(r.program, r.model) /\ vocabulary \in Tokenizers
      /\ config.vocab_size \in Int /\ config.vocab_size * Pointer \in 0 .. MaxAsk
  BY <1>1, Asked DEF UseInv, PlaceInv, GivenInv
<1>3. config = IF r.program = "run" THEN [r.model.config EXCEPT !.vocab_size = Abs(@)] ELSE r.model.config
  BY <1>1 DEF UseInv, PlaceInv
<1> DEFINE n == Abs(r.model.config.vocab_size)
           str == [k \in 1 .. n |-> vocabulary.entries[k].str]
<1>4. r.model.config.vocab_size \in Int
  BY <1>2, LlamaConstants
<1>5. /\ n > BOS /\ str \in Seq(Text) /\ vocabulary.max_token_length \in Nat \ {0}
      /\ <<Space>> \in Range(str)
      /\ \A b \in Range(r.prompt) : b + 4 <= n /\ str[b + 4] = <<Raw + b>>
      /\ Len(str[BOS + 1]) > 4 \/ ~(Range(str[BOS + 1]) \subseteq Range(r.prompt) \cup {Space})
  BY <1>2, TokenizerConstants DEF Text
<1>6. Raw \in Nat /\ Space \in 1 .. Raw - 1 /\ prompt \in Seq(1 .. Raw - 1)
  BY <1>1, TokenizerConstants
<1>7. config.vocab_size = n
  <2>1. CASE r.program = "run"
    <3>1. config.vocab_size = n \/ "vocab_size" \notin DOMAIN r.model.config
      BY <1>3, <2>1
    <3>2. "vocab_size" \in DOMAIN r.model.config
      <4>1. r.model.config \in Config
        BY TokenizerConstants
      <4> QED  BY <4>1 DEF Config
    <3> QED  BY <3>1, <3>2
  <2>2. CASE r.program # "run"
    <3>1. config.vocab_size >= 0
      BY <1>2, LlamaConstants DEF Pointer
    <3> QED  BY <1>3, <1>4, <2>2, <3>1 DEF Abs
  <2> QED  BY <2>1, <2>2
<1>8. n \in Nat
  BY <1>4 DEF Abs
<1> HIDE DEF n
<1>9. \A k \in 1 .. n : str[k] = vocabulary.entries[k].str /\ str[k] \in Text
  <2>1. DOMAIN str = 1 .. n
    OBVIOUS
  <2>2. \A k \in 1 .. n : str[k] = vocabulary.entries[k].str
    OBVIOUS
  <2> HIDE DEF str
  <2>3. \A k \in DOMAIN str : str[k] \in Text
    BY <1>5
  <2> QED  BY <2>1, <2>2, <2>3
<1>10. \A b \in Range(r.prompt) : b + 4 \in 1 .. n
  <2>1. \A b \in Range(r.prompt) : b \in 1 .. Raw - 1
    BY <1>1, <1>6 DEF Range
  <2>2. \A b \in Range(r.prompt) : b + 4 <= n
    BY <1>5
  <2> QED  BY <1>6, <1>8, <2>1, <2>2
<1>11. PICK k \in 1 .. n : str[k] = <<Space>>
  <2>1. DOMAIN str = 1 .. n
    OBVIOUS
  <2> HIDE DEF str
  <2> QED  BY <1>5, <2>1 DEF Range
<1>12. BOS + 1 \in 1 .. n
  BY <1>5, <1>8 DEF BOS
<1> HIDE DEF str
<1> QED  BY <1>1, <1>5, <1>6, <1>7, <1>8, <1>9, <1>10, <1>11, <1>12

\* The vocabulary once it has been read.
Vocabulary ==
  /\ UseInv /\ Begun
  /\ ReadUpTo(config.vocab_size)
  /\ OrderedTable(tok.sorted, tok.vocab)

LEMMA VocabularyIs ==
  ASSUME UseInv, Begun, ReadUpTo(config.vocab_size)
  PROVE  /\ tok.vocab \in Seq(Text) /\ Len(tok.vocab) = config.vocab_size
         /\ \A id \in 0 .. config.vocab_size - 1 : vocab(id) = vocabulary.entries[id + 1].str
PROOF
<1> DEFINE n == config.vocab_size
<1>1. n \in Nat /\ \A k \in 1 .. n : vocabulary.entries[k].str \in Text
  BY TokenizerFacts
<1>2. tok.vocab = [k \in 1 .. n |-> vocabulary.entries[k].str]
  BY DEF ReadUpTo
<1> HIDE DEF n
<1>3. \A k \in 1 .. n : tok.vocab[k] = vocabulary.entries[k].str
  BY <1>2
<1>4. tok.vocab = [k \in 1 .. n |-> tok.vocab[k]] /\ \A k \in 1 .. n : tok.vocab[k] \in Text
  BY <1>1, <1>2
<1>5. tok.vocab \in Seq(Text) /\ Len(tok.vocab) = n
  BY <1>1, <1>4, SequenceOf
<1>6. \A id \in 0 .. n - 1 : id + 1 \in 1 .. n
  BY <1>1
<1> QED  BY <1>3, <1>5, <1>6 DEF vocab, n

\* A string of text codes that is found is the string of the token found.
LEMMA FoundToken ==
  ASSUME Vocabulary, NEW str \in Seq(1 .. Raw - 1), str_lookup(str) # -1
  PROVE  LET id == str_lookup(str)
         IN  /\ id \in 0 .. config.vocab_size - 1
             /\ vocab(id) = str /\ ~IsRaw(vocab(id)) /\ Spelling(id) = str
             /\ Len(str) <= 4 /\ Range(str) \subseteq Range(prompt) \cup {Space} => id # BOS
PROOF
<1> DEFINE id == str_lookup(str)
<1>1. tok.vocab \in Seq(Text) /\ Len(tok.vocab) = config.vocab_size
      /\ \A k \in 0 .. config.vocab_size - 1 : vocab(k) = vocabulary.entries[k + 1].str
  BY VocabularyIs DEF Vocabulary
<1>2. Raw \in Nat /\ config.vocab_size \in Nat /\ config.vocab_size > BOS
      /\ LET s == vocabulary.entries[BOS + 1].str
         IN  Len(s) > 4 \/ ~(Range(s) \subseteq Range(prompt) \cup {Space})
  BY TokenizerFacts DEF Vocabulary
<1>3. str \in Text
  BY <1>2 DEF Text
<1>4. id \in 0 .. config.vocab_size - 1 /\ vocab(id) = str
  BY <1>1, <1>3, LookupIs DEF Vocabulary
<1> HIDE DEF id
<1>5. ASSUME Len(str) = 1 PROVE str[1] \in 1 .. Raw - 1
  <2> DEFINE R == 1 .. Raw - 1
  <2>1. str \in Seq(R)
    OBVIOUS
  <2> HIDE DEF R
  <2>2. str[1] \in R
    BY <1>5, <2>1
  <2> QED  BY <2>2 DEF R
<1>6. ~IsRaw(vocab(id))
  BY <1>2, <1>4, <1>5 DEF IsRaw
<1>7. Spelling(id) = str
  BY <1>4, <1>6 DEF Spelling
<1>8. ASSUME Len(str) <= 4, Range(str) \subseteq Range(prompt) \cup {Space} PROVE id # BOS
  <2>1. SUFFICES ASSUME id = BOS PROVE FALSE
    OBVIOUS
  <2>2. str = vocabulary.entries[BOS + 1].str
    BY <1>1, <1>4, <2>1
  <2>3. Len(str) \in Nat
    OBVIOUS
  <2> QED  BY <1>2, <1>8, <2>2, <2>3
<1> QED  BY <1>4, <1>6, <1>7, <1>8 DEF id

\* The token that stands for a byte by its name.
LEMMA ByteToken ==
  ASSUME Vocabulary, NEW b \in Range(prompt)
  PROVE  /\ b + 3 \in 0 .. config.vocab_size - 1 /\ b + 3 # BOS
         /\ IsRaw(vocab(b + 3)) /\ vocab(b + 3)[1] # Raw /\ Spelling(b + 3) = <<b>>
PROOF
<1> DEFINE n == config.vocab_size
<1>1. n \in Nat /\ Raw \in Nat /\ prompt \in Seq(1 .. Raw - 1)
      /\ b + 4 <= n /\ vocabulary.entries[b + 4].str = <<Raw + b>>
  BY TokenizerFacts DEF Vocabulary
<1>2. b \in 1 .. Raw - 1
  BY <1>1 DEF Range
<1>3. b + 3 \in 0 .. n - 1 /\ (b + 3) + 1 = b + 4
  BY <1>1, <1>2
<1>4. vocab(b + 3) = <<Raw + b>>
  <2>1. \A k \in 0 .. n - 1 : vocab(k) = vocabulary.entries[k + 1].str
    BY VocabularyIs DEF Vocabulary
  <2> QED  BY <1>1, <1>3, <2>1
<1>5. <<Raw + b>>[1] = Raw + b /\ Len(<<Raw + b>>) = 1 /\ (Raw + b) - Raw = b
  BY <1>1, <1>2
<1>6. IsRaw(vocab(b + 3)) /\ vocab(b + 3)[1] # Raw
  BY <1>1, <1>2, <1>4, <1>5 DEF IsRaw
<1>7. Spelling(b + 3) = <<b>>
  BY <1>4, <1>5, <1>6 DEF Spelling
<1> QED  BY <1>2, <1>3, <1>6, <1>7 DEF BOS

LEMMA StartIs == Start \in 1 .. 2 /\ (prompt # <<>> => Start = 2) /\ (prompt = <<>> => Start = 1)
  BY DEF Start

\* More tokens spell more.
LEMMA SpelledMore ==
  ASSUME NEW n \in Nat, NEW T, T \in Seq(0 .. n - 1), Len(T) >= Start,
         NEW new \in Seq(0 .. n - 1),
         \A k \in Start + 1 .. Len(T) : TextToken(T[k]),
         \A k \in 1 .. Len(new) : TextToken(new[k])
  PROVE  LET all == T \o new
         IN  /\ all \in Seq(0 .. n - 1) /\ Len(all) = Len(T) + Len(new)
             /\ \A k \in 1 .. Len(T) : all[k] = T[k]
             /\ \A k \in Start + 1 .. Len(all) : TextToken(all[k])
             /\ SpelledIn(all, Len(all) - Start) = SpelledIn(T, Len(T) - Start) \o Spells(new)
             /\ Spells(new) \in Seq(Range(prompt))
             /\ SpelledIn(T, Len(T) - Start) \in Seq(Range(prompt))
PROOF
<1> DEFINE all == T \o new
           R == Range(prompt)
           m == Len(T) - Start
           l == Len(new)
           a == [k \in 1 .. m |-> Spelling(T[k + Start])]
           b == [k \in 1 .. l |-> Spelling(new[k])]
           c == [k \in 1 .. m + l |-> Spelling(all[k + Start])]
<1>1. /\ all \in Seq(0 .. n - 1) /\ Len(all) = Len(T) + Len(new)
      /\ \A k \in 1 .. Len(T) : all[k] = T[k]
      /\ \A k \in 1 .. Len(new) : all[Len(T) + k] = new[k]
      /\ Len(T) \in Nat /\ Len(new) \in Nat
  OBVIOUS
<1> HIDE DEF all
<1>2. m \in Nat /\ l \in Nat /\ Len(all) - Start = m + l /\ Start \in 1 .. 2
  BY <1>1, StartIs
<1>3. \A k \in Start + 1 .. Len(all) : TextToken(all[k])
  <2>1. ASSUME NEW k \in Start + 1 .. Len(all) PROVE TextToken(all[k])
    <3>1. CASE k <= Len(T)
      BY <1>1, <1>2, <2>1, <3>1
    <3>2. CASE k > Len(T)
      <4> DEFINE j == k - Len(T)
      <4>1. j \in 1 .. Len(new) /\ Len(T) + j = k
        BY <1>1, <1>2, <2>1, <3>2
      <4> HIDE DEF j
      <4>2. all[k] = new[j]
        BY <1>1, <4>1
      <4> QED  BY <4>1, <4>2
    <3> QED  BY <1>1, <1>2, <2>1, <3>1, <3>2
  <2> QED  BY <2>1
<1>4. a \in Seq(Seq(R)) /\ b \in Seq(Seq(R)) /\ Len(a) = m /\ Len(b) = l
  <2>1. ASSUME NEW k \in 1 .. m PROVE Spelling(T[k + Start]) \in Seq(R)
    <3>1. k + Start \in Start + 1 .. Len(T)
      BY <1>1, <1>2, <2>1
    <3> QED  BY <3>1 DEF TextToken
  <2>2. ASSUME NEW k \in 1 .. l PROVE Spelling(new[k]) \in Seq(R)
    BY DEF TextToken
  <2> DEFINE Q == Seq(R)
  <2>3. /\ a = [k \in 1 .. m |-> a[k]] /\ \A k \in 1 .. m : a[k] \in Q
        /\ b = [k \in 1 .. l |-> b[k]] /\ \A k \in 1 .. l : b[k] \in Q
    <3> HIDE DEF m, l
    <3> QED  BY <2>1, <2>2
  <2> HIDE DEF a, b, m, l, Q
  <2>4. a \in Seq(Q) /\ Len(a) = m
    BY <1>2, <2>3, SequenceOf
  <2>5. b \in Seq(Q) /\ Len(b) = l
    BY <1>2, <2>3, SequenceOf
  <2> QED  BY <2>4, <2>5 DEF Q
<1>5. c = a \o b
  <2>1. \A k \in 1 .. m : all[k + Start] = T[k + Start]
    BY <1>1, <1>2
  <2>2. ASSUME NEW k \in m + 1 .. m + l PROVE all[k + Start] = new[k - m] /\ k - m \in 1 .. l
    <3> DEFINE j == k - m
    <3>1. j \in 1 .. Len(new) /\ Len(T) + j = k + Start
      BY <1>1, <1>2, <2>2
    <3> HIDE DEF j
    <3>2. all[Len(T) + j] = new[j]
      BY <1>1, <3>1
    <3> QED  BY <3>1, <3>2 DEF j
  <2>3. /\ \A k \in 1 .. m : a[k] = Spelling(T[k + Start])
        /\ \A k \in 1 .. l : b[k] = Spelling(new[k])
        /\ \A k \in 1 .. m + l : c[k] = Spelling(all[k + Start])
        /\ c = [k \in 1 .. m + l |-> c[k]]
    OBVIOUS
  <2> DEFINE d == a \o b
  <2>4. /\ d = [k \in 1 .. m + l |-> d[k]]
        /\ \A k \in 1 .. m : d[k] = a[k]
        /\ \A k \in m + 1 .. m + l : d[k] = b[k - m]
    <3> DEFINE Q == Seq(R)
    <3>1. a \in Seq(Q) /\ b \in Seq(Q) /\ DOMAIN a = 1 .. m /\ DOMAIN b = 1 .. l
      BY <1>4
    <3> HIDE DEF a, b, m, l, Q
    <3>2. /\ d \in Seq(Q) /\ Len(d) = m + l
          /\ \A k \in 1 .. m : d[k] = a[k]
          /\ \A k \in 1 .. l : d[m + k] = b[k]
      <4>1. a \in Seq(Q) /\ b \in Seq(Q)
        BY <3>1
      <4>2. /\ a \o b \in Seq(Q) /\ Len(a \o b) = Len(a) + Len(b)
            /\ \A k \in DOMAIN a : (a \o b)[k] = a[k]
            /\ \A k \in DOMAIN b : (a \o b)[Len(a) + k] = b[k]
        BY ONLY <4>1, ConcatShape
      <4> QED  BY <1>4, <3>1, <4>2
    <3> HIDE DEF d
    <3>3. \A k \in m + 1 .. m + l : k - m \in 1 .. l /\ m + (k - m) = k
      BY <1>2
    <3>4. d = [k \in 1 .. Len(d) |-> d[k]]
      BY <3>2
    <3> QED  BY <3>2, <3>3, <3>4
  <2> HIDE DEF a, b, c, d, m, l
  <2>5. ASSUME NEW k \in 1 .. m + l PROVE c[k] = d[k]
    <3>1. CASE k \in 1 .. m
      BY <2>1, <2>3, <2>4, <3>1, ZenonT(30)
    <3>2. CASE k \in m + 1 .. m + l
      BY <2>2, <2>3, <2>4, <3>2, ZenonT(30)
    <3> QED  BY <1>2, <3>1, <3>2
  <2> QED  BY <2>3, <2>4, <2>5 DEF d
<1> HIDE DEF a, b, c
<1>6. FlattenSeq(c) = FlattenSeq(a) \o FlattenSeq(b)
  BY <1>4, <1>5, FlattenConcat
<1>7. FlattenSeq(a) \in Seq(R) /\ FlattenSeq(b) \in Seq(R)
  BY <1>4, FlattenSeqOf
<1>8. /\ FlattenSeq(a) = SpelledIn(T, Len(T) - Start) /\ FlattenSeq(b) = Spells(new)
      /\ FlattenSeq(c) = SpelledIn(all, m + l)
  BY DEF a, b, c, SpelledIn, Spells
<1> QED  BY <1>1, <1>2, <1>3, <1>6, <1>7, <1>8 DEF all

LEMMA Associates ==
  ASSUME NEW R, NEW s \in Seq(R), NEW t \in Seq(R), NEW u \in Seq(R)
  PROVE  (s \o t) \o u = s \o (t \o u)
  BY ConcatAssociative

LEMMA AppendsLast ==
  ASSUME NEW R, NEW p \in Seq(R), NEW n \in 1 .. Len(p)
  PROVE  p[n] \in R /\ SubSeq(p, 1, n - 1) \in Seq(R) /\ Append(SubSeq(p, 1, n - 1), p[n]) = SubSeq(p, 1, n)
PROOF
<1> DEFINE u == SubSeq(p, 1, n)
<1>1. u \in Seq(R) /\ Len(u) = n /\ p[n] \in R /\ SubSeq(p, 1, n - 1) \in Seq(R)
  OBVIOUS
<1>2. SubSeq(u, 1, n - 1) = SubSeq(p, 1, n - 1) /\ u[n] = p[n]
  OBVIOUS
<1>3. n - 1 \in Nat /\ (n - 1) + 1 = n
  OBVIOUS
<1> HIDE DEF u
<1>4. u = Append(SubSeq(u, 1, n - 1), u[n])
  BY <1>1, <1>3, SplitLast
<1> QED  BY <1>1, <1>2, <1>4 DEF u

LEMMA AppendsBehind ==
  ASSUME NEW R, NEW s \in Seq(R), NEW k \in Seq(R), NEW x \in R
  PROVE  s \o Append(k, x) = Append(s \o k, x)
PROOF
<1>2. Append(k, x) = k \o <<x>> /\ <<x>> \in Seq(R) /\ s \o k \in Seq(R)
  BY AppendIsConcat
<1>3. (s \o k) \o <<x>> = s \o (k \o <<x>>)
  BY ONLY <1>2, Associates
<1>4. Append(s \o k, x) = (s \o k) \o <<x>>
  BY <1>2, AppendIsConcat
<1> QED  BY <1>2, <1>3, <1>4

\* What the tokens mean depends on the vocabulary and the prompt alone.
LEMMA SameMeaning ==
  ASSUME UNCHANGED <<tok, prompt>>, NEW id
  PROVE  /\ vocab(id)' = vocab(id) /\ Spelling(id)' = Spelling(id)
         /\ TextToken(id)' <=> TextToken(id)
         /\ Start' = Start
  BY DEF vocab, IsRaw, Spelling, TextToken, Start

\* The tokens for a codepoint.
NewTokens(buffer) ==
  IF str_lookup(buffer) # -1 THEN <<str_lookup(buffer)>> ELSE [k \in DOMAIN buffer |-> buffer[k] + 3]

LEMMA NewTokensSpell ==
  ASSUME Vocabulary, NEW buffer \in Seq(Range(prompt)), Len(buffer) \in 1 .. 4
  PROVE  LET new == NewTokens(buffer)
         IN  /\ new \in Seq(0 .. config.vocab_size - 1) /\ Len(new) <= Len(buffer)
             /\ \A k \in 1 .. Len(new) : TextToken(new[k])
             /\ Spells(new) = buffer
PROOF
<1> DEFINE n == config.vocab_size
           R == Range(prompt)
           new == NewTokens(buffer)
           id == str_lookup(buffer)
           l == Len(buffer)
<1>0. l \in 1 .. 4
  OBVIOUS
<1> HIDE DEF l
<1>1. n \in Nat /\ n > BOS /\ Raw \in Nat /\ prompt \in Seq(1 .. Raw - 1)
  BY TokenizerFacts DEF Vocabulary
<1>2. R \subseteq 1 .. Raw - 1
  BY <1>1 DEF Range
<1>3. buffer \in Seq(1 .. Raw - 1) /\ Range(buffer) \subseteq R
  <2>1. \A k \in 1 .. l : buffer[k] \in R
    BY DEF l
  <2>2. DOMAIN buffer = 1 .. l /\ buffer = [k \in 1 .. l |-> buffer[k]]
    BY DEF l
  <2> HIDE DEF R
  <2>3. Range(buffer) \subseteq R
    BY <2>1, <2>2 DEF Range
  <2> DEFINE Q == 1 .. Raw - 1
  <2>4. \A k \in 1 .. l : buffer[k] \in Q
    BY <1>2, <2>1
  <2>5. l \in Nat
    BY <1>0
  <2> HIDE DEF Q
  <2>6. buffer \in Seq(Q)
    BY <2>2, <2>4, <2>5, SequenceOf DEF l
  <2> QED  BY <2>3, <2>6 DEF Q
<1>4. CASE id # -1
  <2>1. /\ id \in 0 .. n - 1 /\ ~IsRaw(vocab(id)) /\ Spelling(id) = buffer
        /\ Len(buffer) <= 4 /\ Range(buffer) \subseteq R \cup {Space} => id # BOS
    BY <1>3, <1>4, FoundToken
  <2>2. TextToken(id)
    <3> HIDE DEF id, n
    <3>4. l <= 4
      BY <1>0
    <3>0. Len(buffer) <= 4
      BY <3>4 DEF l
    <3>1. Range(buffer) \subseteq R \cup {Space}
      BY <1>3
    <3> HIDE DEF R
    <3>2. id # BOS /\ Spelling(id) \in Seq(R) /\ ~IsRaw(vocab(id))
      BY <2>1, <3>0, <3>1 DEF R
    <3> QED  BY <3>2 DEF TextToken, R
  <2>3. new = <<id>>
    BY <1>4 DEF NewTokens
  <2> HIDE DEF id, new, n
  <2>4. Len(new) = 1 /\ new[1] = id /\ new \in Seq(0 .. n - 1)
    BY <2>1, <2>3
  <2>5. [k \in 1 .. 1 |-> Spelling(new[k])] = <<buffer>>
    BY <2>1, <2>4
  <2>6. FlattenSeq(<<buffer>>) = buffer
    BY FlattenOne
  <2>7. \A k \in 1 .. Len(new) : TextToken(new[k])
    BY <2>2, <2>4
  <2>8. Len(new) <= l
    BY <1>0, <2>4
  <2> QED  BY <2>4, <2>5, <2>6, <2>7, <2>8 DEF n, new, l, Spells
<1>5. CASE id = -1
  <2>1. new = [k \in 1 .. l |-> buffer[k] + 3]
    <3>1. DOMAIN buffer = 1 .. l
      BY DEF l
    <3> QED  BY <1>5, <3>1 DEF NewTokens
  <2>2. \A k \in 1 .. l : buffer[k] \in R
    BY DEF l
  <2>3. l \in Nat
    BY <1>0
  <2> HIDE DEF new, n, R
  <2>4. ASSUME NEW k \in 1 .. l
        PROVE  new[k] \in 0 .. n - 1 /\ TextToken(new[k]) /\ Spelling(new[k]) = <<buffer[k]>>
    <3> DEFINE b == buffer[k]
    <3>1. b \in R
      BY <2>2
    <3>2. new[k] = b + 3
      BY <2>1
    <3> HIDE DEF b
    <3>3. /\ b + 3 \in 0 .. n - 1 /\ b + 3 # BOS /\ IsRaw(vocab(b + 3))
          /\ vocab(b + 3)[1] # Raw /\ Spelling(b + 3) = <<b>>
      BY <3>1, ByteToken DEF n, R
    <3>4. <<b>> \in Seq(R)
      BY <3>1
    <3> QED  BY <3>2, <3>3, <3>4 DEF TextToken, b, R
  <2>5. new \in Seq(0 .. n - 1) /\ Len(new) = l
    <3> DEFINE Q == 0 .. n - 1
    <3>1. new = [k \in 1 .. l |-> new[k]] /\ \A k \in 1 .. l : new[k] \in Q
      BY <2>1, <2>4
    <3> HIDE DEF Q
    <3>2. new \in Seq(Q) /\ Len(new) = l
      BY <2>3, <3>1, SequenceOf
    <3> QED  BY <3>2 DEF Q
  <2>6. [k \in 1 .. l |-> Spelling(new[k])] = [k \in 1 .. l |-> <<buffer[k]>>]
    BY <2>4
  <2>7. FlattenSeq([k \in 1 .. l |-> <<buffer[k]>>]) = buffer
    BY FlattenSingles DEF l
  <2>8. \A k \in 1 .. Len(new) : TextToken(new[k])
    BY <2>4, <2>5
  <2>9. Len(new) <= l
    BY <2>3, <2>5
  <2> QED  BY <2>5, <2>6, <2>7, <2>8, <2>9 DEF n, new, l, Spells
<1> QED  BY <1>4, <1>5

\* A byte that is read adds to what the tokens and the codepoint begun spell.
LEMMA EncodeByteSpells ==
  ASSUME Vocabulary, EncShape, EncodeInv, EncodeByte, UNCHANGED <<prompt, config>>
  PROVE  EncShape' /\ EncodeInv'
PROOF
<1> DEFINE n == config.vocab_size
           R == Range(prompt)
           T == enc.tokens
           c == enc.c
           kept == IF IsContinuation(c) THEN SubSeq(enc.str_buffer, 1, enc.str_len) ELSE <<>>
           buffer == Append(kept, enc.text[c])
           ends == ~(IsContinuation(c + 1) /\ Len(buffer) < 4)
           new == IF ends THEN NewTokens(buffer) ELSE <<>>
           len == IF ends THEN 0 ELSE Len(buffer)
           rest == SubSeq(buffer, 1, len)
<1>1. /\ tok' = tok /\ c <= Len(enc.text)
      /\ enc' = [enc EXCEPT !.c = c + 1, !.str_buffer = buffer, !.str_len = len, !.tokens = T \o new]
  <2>1. new = IF ~ends THEN <<>>
              ELSE IF str_lookup(buffer) # -1 THEN <<str_lookup(buffer)>>
              ELSE [k \in DOMAIN buffer |-> buffer[k] + 3]
    BY DEF NewTokens
  <2> HIDE DEF new
  <2> QED  BY <2>1 DEF EncodeByte
<1> HIDE DEF new, len, ends, buffer, kept
<1>2. enc' = [text |-> enc.text, c |-> c + 1, str_buffer |-> buffer, str_len |-> len, tokens |-> T \o new]
  BY <1>1 DEF EncShape
<1>3. /\ enc'.text = enc.text /\ enc'.c = c + 1 /\ enc'.str_buffer = buffer /\ enc'.str_len = len
      /\ enc'.tokens = T \o new
  BY <1>2
<1>4. EncShape'
  BY <1>2, <1>3 DEF EncShape
<1>5. n \in Nat /\ n > BOS /\ Raw \in Nat /\ prompt \in Seq(1 .. Raw - 1) /\ prompt \in Seq(R)
  <2>1. n \in Nat /\ n > BOS /\ Raw \in Nat /\ prompt \in Seq(1 .. Raw - 1)
    BY TokenizerFacts DEF Vocabulary
  <2>2. prompt = [k \in 1 .. Len(prompt) |-> prompt[k]] /\ \A k \in 1 .. Len(prompt) : prompt[k] \in R
    BY <2>1 DEF Range
  <2> HIDE DEF R
  <2>3. prompt \in Seq(R)
    BY <2>1, <2>2, SequenceOf
  <2> QED  BY <2>1, <2>3
<1>6. /\ enc.text = prompt /\ c \in 1 .. Len(prompt)
      /\ T \in Seq(0 .. n - 1) /\ Len(T) >= Start /\ T[1] = BOS
      /\ prompt # <<>> => T[2] # BOS /\ vocab(T[2]) = <<Space>>
      /\ \A k \in Start + 1 .. Len(T) : TextToken(T[k])
      /\ Len(T) - Start + enc.str_len <= c - 1
      /\ SpelledBy(Len(T) - Start) \o SubSeq(enc.str_buffer, 1, enc.str_len) = SubSeq(prompt, 1, c - 1)
  <2>1. c \in 1 .. Len(prompt) + 1 /\ enc.text = prompt /\ Len(prompt) \in Nat
    BY <1>5 DEF EncodeInv
  <2>2. c \in 1 .. Len(prompt)
    <3> HIDE DEF c
    <3> QED  BY <1>1, <2>1
  <2> QED  BY <2>1, <2>2 DEF EncodeInv, TokensInv
<1>7. /\ enc.str_buffer \in Seq(R) /\ enc.str_len \in {0, Len(enc.str_buffer)}
      /\ enc.str_len # 0 => Len(enc.str_buffer) < 4 /\ IsContinuation(c)
  BY DEF EncodeInv
<1> HIDE DEF R, c, T, n
<1>8. kept = SubSeq(enc.str_buffer, 1, enc.str_len) /\ kept \in Seq(R) /\ Len(kept) = enc.str_len
      /\ Len(kept) \in 0 .. 3
  <2>1. SubSeq(enc.str_buffer, 1, enc.str_len) \in Seq(R)
        /\ Len(SubSeq(enc.str_buffer, 1, enc.str_len)) = enc.str_len /\ enc.str_len \in 0 .. 3
    BY <1>7
  <2>2. ~IsContinuation(c) => SubSeq(enc.str_buffer, 1, enc.str_len) = <<>>
    BY <1>7, <2>1
  <2> QED  BY <2>1, <2>2 DEF kept
<1>9. prompt[c] \in R /\ buffer = Append(kept, prompt[c])
  BY <1>5, <1>6 DEF buffer
<1>10. buffer \in Seq(R) /\ Len(buffer) = enc.str_len + 1 /\ Len(buffer) \in 1 .. 4
  BY <1>8, <1>9
<1>11. /\ new \in Seq(0 .. n - 1) /\ len \in {0, Len(buffer)} /\ Len(new) + len <= Len(buffer)
       /\ \A k \in 1 .. Len(new) : TextToken(new[k])
       /\ Spells(new) \o rest = buffer
       /\ rest \in Seq(R)
  <2>1. CASE ends
    <3>1. new = NewTokens(buffer) /\ len = 0
      BY <2>1 DEF new, len
    <3>2. rest = <<>> /\ buffer \o <<>> = buffer
      BY <1>10, <3>1
    <3>3. /\ new \in Seq(0 .. n - 1) /\ Len(new) <= Len(buffer)
          /\ \A k \in 1 .. Len(new) : TextToken(new[k])
          /\ Spells(new) = buffer
      BY <1>10, <3>1, NewTokensSpell DEF n, R
    <3>4. rest \in Seq(R) /\ Len(new) + len <= Len(buffer)
      BY <1>10, <3>1, <3>2, <3>3
    <3> HIDE DEF rest
    <3> QED  BY <3>1, <3>2, <3>3, <3>4
  <2>2. CASE ~ends
    <3>1. new = <<>> /\ len = Len(buffer)
      BY <2>2 DEF new, len
    <3>2. rest = buffer /\ <<>> \o buffer = buffer
      BY <1>10, <3>1
    <3>3. Spells(new) = <<>> /\ Len(new) = 0
      <4>1. [k \in 1 .. Len(new) |-> Spelling(new[k])] = <<>> /\ Len(new) = 0
        BY <3>1
      <4> QED  BY <4>1, FlattenEmpty DEF Spells
    <3> HIDE DEF rest
    <3> QED  BY <1>10, <3>1, <3>2, <3>3, FlattenEmpty
  <2> QED  BY <2>1, <2>2
<1> DEFINE all == T \o new
           old == SpelledBy(Len(T) - Start)
           more == Spells(new)
           total == SpelledIn(all, Len(all) - Start)
<1>12. /\ all \in Seq(0 .. n - 1) /\ Len(all) = Len(T) + Len(new)
       /\ \A k \in 1 .. Len(T) : all[k] = T[k]
       /\ \A k \in Start + 1 .. Len(all) : TextToken(all[k])
       /\ total = old \o more /\ old \in Seq(R) /\ more \in Seq(R)
  <2>1. old = SpelledIn(T, Len(T) - Start)
    BY DEF SpelledBy, T
  <2>2. /\ n \in Nat /\ T \in Seq(0 .. n - 1) /\ Len(T) >= Start /\ new \in Seq(0 .. n - 1)
        /\ \A k \in Start + 1 .. Len(T) : TextToken(T[k])
        /\ \A k \in 1 .. Len(new) : TextToken(new[k])
    BY <1>5, <1>6, <1>11
  <2> HIDE DEF old
  <2> QED  BY ONLY <2>1, <2>2, SpelledMore DEF R
<1> HIDE DEF all, more, total, rest
<1>13. total \o rest = SubSeq(prompt, 1, c)
  <2>1. old \o kept = SubSeq(prompt, 1, c - 1)
    BY <1>6, <1>8
  <2>2. more \o rest = Append(kept, prompt[c])
    BY <1>9, <1>11 DEF more
  <2> HIDE DEF old
  <2> DEFINE x == prompt[c]
  <2>3. /\ x \in R /\ Append(SubSeq(prompt, 1, c - 1), x) = SubSeq(prompt, 1, c)
    BY <1>5, <1>6, AppendsLast
  <2>4. more \o rest = Append(kept, x)
    BY <2>2
  <2> HIDE DEF x
  <2>5. /\ old \in Seq(R) /\ kept \in Seq(R) /\ more \in Seq(R) /\ rest \in Seq(R)
        /\ total = old \o more
    BY <1>8, <1>11, <1>12
  <2>6. (old \o more) \o rest = Append(old \o kept, x)
    <3>1. x \in R /\ old \in Seq(R) /\ kept \in Seq(R) /\ more \in Seq(R) /\ rest \in Seq(R)
      BY <2>3, <2>5
    <3>2. (old \o more) \o rest = old \o (more \o rest)
      BY ONLY <3>1, Associates
    <3>3. old \o Append(kept, x) = Append(old \o kept, x)
      BY ONLY <3>1, AppendsBehind
    <3> QED  BY <2>4, <3>2, <3>3
  <2> QED  BY <2>1, <2>3, <2>5, <2>6
<1> HIDE DEF old
<1>14. PICK A : A = all
  OBVIOUS
<1>15. enc'.tokens = A /\ prompt' = prompt /\ config' = config /\ Start' = Start
  BY <1>1, <1>3, <1>14, SameMeaning DEF all
<1>16. TokensInv'
  <2>2. Len(A) >= Start /\ 1 \in 1 .. Len(T) /\ (prompt # <<>> => 2 \in 1 .. Len(T))
    <3>1. Len(T) \in Nat /\ Len(T) >= Start /\ Len(new) \in Nat /\ Len(all) = Len(T) + Len(new)
      <4> DEFINE Q == 0 .. n - 1
      <4>1. T \in Seq(Q) /\ new \in Seq(Q) /\ Len(T) >= Start /\ Len(all) = Len(T) + Len(new)
        BY <1>6, <1>11, <1>12
      <4> HIDE DEF Q
      <4> QED  BY <4>1
    <3> QED  BY ONLY <1>14, <3>1, StartIs
  <2>3. A[1] = BOS /\ (prompt # <<>> => A[2] # BOS /\ vocab(A[2]) = <<Space>>)
    BY <1>6, <1>12, <1>14, <2>2
  <2>4. prompt' # <<>> => A[2] # BOS /\ vocab(A[2])' = <<Space>>
    BY <1>1, <1>15, <2>3, SameMeaning
  <2>5. ASSUME NEW k \in Start + 1 .. Len(A) PROVE TextToken(A[k])'
    <3>1. TextToken(A[k])
      BY <1>12, <1>14
    <3> QED  BY <1>1, <3>1, SameMeaning
  <2>6. A \in Seq(0 .. config.vocab_size - 1)'
    BY <1>12, <1>14, <1>15 DEF n
  <2> HIDE DEF TextToken
  <2> QED  BY <1>15, <2>2, <2>3, <2>4, <2>5, <2>6 DEF TokensInv, BOS
<1>17. SpelledBy(Len(enc.tokens) - Start)' = total
  <2>1. \A k : Spelling(k)' = Spelling(k)
    BY <1>1, SameMeaning
  <2>2. SpelledBy(Len(enc.tokens) - Start)' = FlattenSeq([k \in 1 .. Len(A) - Start |-> Spelling(A[k + Start])'])
    BY <1>15 DEF SpelledBy, SpelledIn
  <2>3. \A k : Spelling(A[k + Start])' = Spelling(A[k + Start])
    BY <1>15, <2>1
  <2>4. SpelledBy(Len(enc.tokens) - Start)' = SpelledIn(A, Len(A) - Start)
    BY <2>2, <2>3 DEF SpelledIn
  <2> QED  BY <1>14, <2>4 DEF total
<1>18. enc'.str_len # 0 => Len(buffer) < 4 /\ IsContinuation(enc.c)'
  BY <1>3, <1>10 DEF len, ends, IsContinuation
<1>19. Len(A) - Start + len <= c
  <2>1. Len(A) = Len(T) + Len(new) /\ Len(new) \in Nat /\ Len(T) \in Nat
    <3> DEFINE Q == 0 .. n - 1
    <3>1. T \in Seq(Q) /\ new \in Seq(Q) /\ Len(A) = Len(T) + Len(new)
      BY <1>6, <1>11, <1>12, <1>14
    <3> HIDE DEF Q
    <3> QED  BY <3>1
  <2>2. Len(T) - Start + enc.str_len <= c - 1 /\ Len(new) + len <= enc.str_len + 1
        /\ c \in Int /\ enc.str_len \in Int /\ len \in Int
    BY <1>6, <1>7, <1>8, <1>10, <1>11
  <2> QED  BY ONLY <2>1, <2>2, StartIs
<1>20. enc'.text = prompt' /\ enc'.c \in 1 .. Len(prompt) + 1
  BY <1>3, <1>6, <1>15
<1>21. /\ enc'.str_buffer \in Seq(Range(prompt)) /\ Len(enc'.str_buffer) <= 4
       /\ enc'.str_len \in {0, Len(enc'.str_buffer)}
       /\ enc'.str_len # 0 => Len(enc'.str_buffer) < 4
  BY <1>3, <1>10, <1>11, <1>18 DEF R
<1>22. SpelledBy(Len(enc.tokens) - Start)' \o SubSeq(enc'.str_buffer, 1, enc'.str_len)
         = SubSeq(prompt, 1, enc'.c - 1)
  <2>1. enc'.c - 1 = c
    BY <1>3, <1>6
  <2> QED  BY <1>3, <1>13, <1>17, <2>1 DEF rest
<1>23. (Len(enc.tokens) - Start + enc.str_len <= enc.c - 1)'
  <2>1. (Len(enc.tokens) - Start + enc.str_len)' = Len(A) - Start + len
    BY <1>3, <1>15
  <2>2. (enc.c - 1)' = c
    BY <1>3, <1>6
  <2> QED  BY <1>19, <2>1, <2>2
<1> QED
  <2> HIDE DEF TokensInv, SpelledBy, IsContinuation, Start
  <2>1. enc'.text = prompt' /\ enc'.c \in 1 .. Len(prompt') + 1 /\ TokensInv'
    BY <1>15, <1>16, <1>20
  <2>2. /\ enc'.str_buffer \in Seq(Range(prompt')) /\ Len(enc'.str_buffer) <= 4
        /\ enc'.str_len \in {0, Len(enc'.str_buffer)}
        /\ enc'.str_len # 0 => Len(enc'.str_buffer) < 4 /\ IsContinuation(enc.c)'
    BY <1>15, <1>18, <1>21
  <2>3. SpelledBy(Len(enc.tokens) - Start)' \o SubSeq(enc'.str_buffer, 1, enc'.str_len)
         = SubSeq(prompt', 1, enc'.c - 1)
    BY <1>15, <1>22
  <2> QED  BY ONLY <1>4, <1>23, <2>1, <2>2, <2>3 DEF EncodeInv

LEMMA PairIs == \A a, b : <<a>> \o <<b>> = <<a, b>>
PROOF
<1> SUFFICES ASSUME NEW a, NEW b PROVE <<a>> \o <<b>> = <<a, b>>
  OBVIOUS
<1>1. <<a>> \in Seq({a, b}) /\ b \in {a, b}
  OBVIOUS
<1>2. Append(<<a>>, b) = <<a>> \o <<b>>
  BY <1>1, AppendIsConcat
<1>3. Append(<<a>>, b) = <<a, b>>
  <2> DEFINE R == {a, b}
             s == <<a>>
             c == Append(s, b)
             d == <<a, b>>
  <2>1. s \in Seq(R) /\ b \in R /\ Len(s) = 1 /\ s[1] = a
    BY <1>1
  <2>2. d = [k \in 1 .. 2 |-> d[k]] /\ d[1] = a /\ d[2] = b
    OBVIOUS
  <2> HIDE DEF R, s, d
  <2>3. c \in Seq(R) /\ Len(c) = 2 /\ c[1] = a /\ c[2] = b
    <3>1. /\ c \in Seq(R) /\ Len(c) = Len(s) + 1 /\ c[Len(s) + 1] = b
          /\ \A k \in DOMAIN s : c[k] = s[k]
      BY <2>1, AppendShape
    <3>2. DOMAIN s = 1 .. 1
      BY <2>1
    <3> HIDE DEF c
    <3> QED  BY <2>1, <3>1, <3>2
  <2> HIDE DEF c
  <2>4. c = [k \in 1 .. 2 |-> c[k]]
    BY <2>3
  <2>5. \A k \in 1 .. 2 : c[k] = d[k]
    BY <2>2, <2>3
  <2>6. c = d
    BY <2>2, <2>4, <2>5
  <2> QED  BY <2>6 DEF c, d, s
<1> QED  BY <1>2, <1>3

\* encode begins with BOS, and the vocabulary has the space.
LEMMA BeginSpells ==
  ASSUME Vocabulary, BeginEncode(prompt), UNCHANGED <<prompt, config>>
  PROVE  EncShape' /\ EncodeInv'
PROOF
<1> DEFINE n == config.vocab_size
           R == Range(prompt)
           id == str_lookup(<<Space>>)
           T == <<BOS>> \o (IF prompt # <<>> THEN <<id>> ELSE <<>>)
<1>1. tok' = tok /\ enc' = [text |-> prompt, c |-> 1, str_buffer |-> <<>>, str_len |-> 0, tokens |-> T]
  BY DEF BeginEncode
<1>2. n \in Nat /\ n > BOS /\ Raw \in Nat /\ Space \in 1 .. Raw - 1 /\ prompt \in Seq(1 .. Raw - 1)
      /\ \E k \in 1 .. n : vocabulary.entries[k].str = <<Space>>
  BY TokenizerFacts DEF Vocabulary
<1>3. id \in 0 .. n - 1 /\ vocab(id) = <<Space>> /\ id # BOS
  <2>1. <<Space>> \in Seq(1 .. Raw - 1) /\ <<Space>> \in Text /\ Len(<<Space>>) <= 4
    BY <1>2 DEF Text
  <2>2. tok.vocab \in Seq(Text) /\ Len(tok.vocab) = n /\ \A k \in 1 .. n : tok.vocab[k] = vocabulary.entries[k].str
    BY VocabularyIs DEF Vocabulary, ReadUpTo
  <2>3. id # -1
    <3>1. \E k \in 1 .. Len(tok.vocab) : tok.vocab[k] = <<Space>>
      BY <1>2, <2>2
    <3> QED  BY <2>1, <2>2, <3>1, LookupIs DEF Vocabulary
  <2>4. Range(<<Space>>) \subseteq R \cup {Space}
    BY DEF Range
  <2> QED  BY <2>1, <2>3, <2>4, FoundToken
<1> HIDE DEF id, n
<1>4. /\ T \in Seq(0 .. n - 1) /\ Len(T) = Start /\ T[1] = BOS
      /\ prompt # <<>> => T[2] # BOS /\ vocab(T[2]) = <<Space>>
  <2>1. BOS \in 0 .. n - 1
    BY <1>2 DEF BOS
  <2>2. CASE prompt = <<>>
    <3>1. T = <<BOS>>
      BY <2>2
    <3> HIDE DEF T
    <3> QED  BY <2>1, <2>2, <3>1, StartIs
  <2>3. CASE prompt # <<>>
    <3>1. T = <<BOS, id>>
      <4>1. T = <<BOS>> \o <<id>>
        BY <2>3
      <4>2. <<BOS>> \o <<id>> = <<BOS, id>>
        BY PairIs
      <4> QED  BY <4>1, <4>2
    <3> HIDE DEF T
    <3> QED  BY <1>3, <2>1, <2>3, <3>1, StartIs
  <2> QED  BY <2>2, <2>3
<1> HIDE DEF T
<1>5. PICK A : A = T
  OBVIOUS
<1>6. /\ enc'.text = prompt /\ enc'.c = 1 /\ enc'.str_buffer = <<>> /\ enc'.str_len = 0
      /\ enc'.tokens = A /\ prompt' = prompt /\ config' = config /\ Start' = Start /\ EncShape'
  BY <1>1, <1>5, SameMeaning DEF EncShape
<1>7. TokensInv'
  <2>1. A \in Seq(0 .. config.vocab_size - 1)'
    BY <1>4, <1>5, <1>6 DEF n
  <2>2. prompt' # <<>> => A[2] # BOS /\ vocab(A[2])' = <<Space>>
    BY <1>1, <1>4, <1>5, <1>6, SameMeaning
  <2>3. \A k \in Start + 1 .. Len(A) : TextToken(A[k])'
    BY <1>4, <1>5, StartIs
  <2> HIDE DEF TextToken
  <2> QED  BY <1>4, <1>5, <1>6, <2>1, <2>2, <2>3, StartIs DEF TokensInv, BOS
<1>8. SpelledBy(Len(enc.tokens) - Start)' = <<>>
  <2>1. (Len(enc.tokens) - Start)' = 0
    BY <1>4, <1>5, <1>6, StartIs
  <2>2. SpelledBy(Len(enc.tokens) - Start)' = FlattenSeq([k \in 1 .. 0 |-> Spelling(A[k + Start])'])
    BY <1>6, <2>1 DEF SpelledBy, SpelledIn
  <2>3. [k \in 1 .. 0 |-> Spelling(A[k + Start])'] = <<>>
    OBVIOUS
  <2> QED  BY <2>2, <2>3, FlattenEmpty
<1> QED
  <2>1. enc'.text = prompt' /\ enc'.c \in 1 .. Len(prompt') + 1
    BY <1>2, <1>6
  <2>2. /\ enc'.str_buffer \in Seq(Range(prompt')) /\ Len(enc'.str_buffer) <= 4
        /\ enc'.str_len \in {0, Len(enc'.str_buffer)} /\ enc'.str_len = 0
    BY <1>6
  <2>3. (Len(enc.tokens) - Start + enc.str_len <= enc.c - 1)'
    BY <1>4, <1>5, <1>6, StartIs
  <2>4. SpelledBy(Len(enc.tokens) - Start)' \o SubSeq(enc'.str_buffer, 1, enc'.str_len)
         = SubSeq(prompt', 1, enc'.c - 1)
    <3>1. SubSeq(enc'.str_buffer, 1, enc'.str_len) = <<>> /\ SubSeq(prompt', 1, enc'.c - 1) = <<>>
      BY <1>2, <1>6
    <3>2. <<>> \o <<>> = <<>>
      OBVIOUS
    <3> QED  BY ONLY <1>8, <3>1, <3>2
  <2> HIDE DEF TokensInv, SpelledBy, IsContinuation, Start
  <2> QED  BY ONLY <1>6, <1>7, <2>1, <2>2, <2>3, <2>4 DEF EncodeInv

\* A token of the text is decoded to what it spells.
LEMMA DecodesSpelling ==
  ASSUME NEW id, TextToken(id), NEW prev, prev # BOS
  PROVE  decode(prev, id) = Spelling(id)
  BY DEF decode, Spelling, TextToken

\* The space after BOS is not printed.
LEMMA PrintsNoSpace ==
  ASSUME NEW id, vocab(id) = <<Space>>
  PROVE  safe_printf(decode(BOS, id)) = <<>>
PROOF
<1>1. Tail(<<Space>>) = <<>> /\ <<Space>> # <<>> /\ <<Space>>[1] = Space /\ Len(<<>>) = 0
  OBVIOUS
<1>2. decode(BOS, id) = <<>>
  BY <1>1 DEF decode, IsRaw
<1> QED  BY <1>1, <1>2 DEF safe_printf

\* One token more.
LEMMA PrintedNext ==
  ASSUME TokensInv, NEW m \in Nat, m + 1 + Start <= Len(enc.tokens)
  PROVE  PrintedBy(m + 1) = PrintedBy(m) \o safe_printf(Spelling(enc.tokens[m + 1 + Start]))
PROOF
<1> DEFINE T == enc.tokens
           R == Range(prompt)
           a == [k \in 1 .. m |-> safe_printf(Spelling(T[k + Start]))]
           b == [k \in 1 .. m + 1 |-> safe_printf(Spelling(T[k + Start]))]
           x == safe_printf(Spelling(T[m + 1 + Start]))
<1>1. ASSUME NEW k \in 1 .. m + 1 PROVE safe_printf(Spelling(T[k + Start])) \in Seq(R)
  <2>1. Len(T) \in Nat /\ m + 1 + Start <= Len(T)
    <3> DEFINE Q == 0 .. config.vocab_size - 1
    <3>1. T \in Seq(Q) /\ m + 1 + Start <= Len(T)
      BY DEF TokensInv
    <3> HIDE DEF Q, T
    <3> QED  BY <3>1
  <2>2. k + Start \in Start + 1 .. Len(T)
    BY ONLY <1>1, <2>1, StartIs
  <2>3. Spelling(T[k + Start]) \in Seq(R) /\ <<>> \in Seq(R)
    BY <2>2 DEF TokensInv, TextToken
  <2> QED  BY <2>3 DEF safe_printf
<1>2. a \in Seq(Seq(R)) /\ Len(a) = m
  <2> DEFINE Q == Seq(R)
  <2>1. a = [k \in 1 .. m |-> a[k]] /\ \A k \in 1 .. m : a[k] \in Q
    BY <1>1
  <2> HIDE DEF Q, a
  <2>2. a \in Seq(Q) /\ Len(a) = m
    BY <2>1, SequenceOf
  <2> QED  BY <2>2 DEF Q
<1>3. x \in Seq(R)
  BY <1>1
<1>4. b = Append(a, x)
  <2>1. b = [k \in 1 .. m + 1 |-> b[k]] /\ \A k \in 1 .. m + 1 : b[k] = IF k = m + 1 THEN x ELSE a[k]
    OBVIOUS
  <2> DEFINE Q == Seq(R)
  <2>2. a \in Seq(Q) /\ Len(a) = m /\ x \in Q
    BY <1>2, <1>3
  <2> HIDE DEF a, b, x, Q
  <2> DEFINE c == Append(a, x)
  <2>3. /\ c \in Seq(Q) /\ Len(c) = m + 1 /\ c[m + 1] = x
        /\ \A k \in 1 .. m : c[k] = a[k]
    BY ONLY <2>2, m \in Nat
  <2> HIDE DEF c
  <2>4. c = [k \in 1 .. m + 1 |-> c[k]]
    BY <2>3
  <2>5. \A k \in 1 .. m + 1 : b[k] = c[k]
    BY <2>1, <2>3
  <2> QED  BY <2>1, <2>4, <2>5 DEF c
<1> HIDE DEF a, b, x
<1>5. FlattenSeq(b) = FlattenSeq(a) \o x
  BY <1>2, <1>3, <1>4, FlattenAppend
<1>6. PrintedBy(m + 1) = FlattenSeq(b) /\ PrintedBy(m) = FlattenSeq(a)
  BY DEF PrintedBy, a, b
<1> QED  BY <1>5, <1>6 DEF x

Ended == {"panic", "undefined", "rebooted"}
Loading == Unread \cup {"entries"}
Silent == Generating \cup {"done", "dumped"} \cup Ended

\* What a step has to do with the vocabulary: nothing.
KeepsTable ==
  /\ tok' = tok /\ vocabulary' = vocabulary
  /\ \/ pc' \in Ended
     \/ pc \in Unread /\ pc' \in Unread
     \/ UNCHANGED <<pc, i, config>>
     \/ /\ Begun /\ pc \notin Loading /\ pc' \notin Loading \cup Ended /\ config' = config
        /\ pc' \in Encoding => pc \in Encoding

\* A step before encode, after the end, or one that is not about the prompt.
KeepsText ==
  \/ /\ UNCHANGED <<enc, pos, out>>
     /\ pc' \notin {"encode", "merge"} \cup Generating
     /\ pc' \notin Silent => pc \notin Silent
  \/ /\ UNCHANGED <<tok, enc, prompt, config, token, pos, out>>
     /\ pc' = pc \/ (pc' \in Generating /\ pc \in Generating)

LEMMA OtherSteps ==
  ASSUME UseInv, [Next]_vars
  PROVE  \/ KeepsTable /\ KeepsText
         \/ KeepsText /\ (AllocVocab \/ BuildEntry \/ build_sampler \/ SortStep)
         \/ KeepsTable /\ (AllocBuffer \/ EncodeStep \/ MergeStep \/ StartGenerating
                             \/ NextOfPrompt \/ SampleNext)
PROOF
<1> DEFINE Same == KeepsTable /\ KeepsText
<1> USE DEF tokenizer_vars, KeepsTable, KeepsText, Unread, Generating, Encoding, Ended, Loading, Silent, Begun
<1>1. ASSUME KmallocInit PROVE Same
  BY <1>1 DEF KmallocInit
<1>2. ASSUME NoCheckpoint PROVE Same
  BY <1>2 DEF NoCheckpoint
<1>3. ASSUME read_checkpoint PROVE Same
  BY <1>3 DEF read_checkpoint, After, memory_map_weights
<1>4. ASSUME read_checkpointQ PROVE Same
  BY <1>4 DEF read_checkpointQ, After
<1>5. ASSUME memory_map_weightsQ PROVE Same
  BY <1>5 DEF memory_map_weightsQ, After
<1>6. ASSUME malloc_run_state PROVE Same
  BY <1>6 DEF malloc_run_state
<1>7. ASSUME InterruptInit PROVE Same
  BY <1>7 DEF InterruptInit
<1>8. ASSUME TimerInit PROVE Same
  BY <1>8 DEF TimerInit
<1>9. ASSUME GprofTable PROVE Same
  BY <1>9 DEF GprofTable, After
<1>10. ASSUME EnableInterrupts PROVE Same
  BY <1>10 DEF EnableInterrupts
<1>11. ASSUME Interrupt PROVE Same
  BY <1>11 DEF Interrupt
<1>12. ASSUME GprofDumpStep PROVE Same
  BY <1>12 DEF GprofDumpStep
<1>13. ASSUME VmInitStep PROVE Same
  BY <1>13 DEF VmInitStep, Asserting
<1>14. ASSUME VmPtAlloc PROVE Same
  BY <1>14 DEF VmPtAlloc, Asserting
<1>15. ASSUME VmMapSec PROVE Same
  BY <1>15 DEF VmMapSec, Asserting
<1>16. ASSUME VmSwitch PROVE Same
  BY <1>16 DEF VmSwitch, Asserting
<1>17. ASSUME VmSync PROVE Same
  BY <1>17 DEF VmSync
<1>18. ASSUME VmEnable PROVE Same
  BY <1>18 DEF VmEnable, Asserting
<1>19. ASSUME EnableCaches PROVE Same
  BY <1>19 DEF EnableCaches
<1>20. ASSUME AllocPrompt PROVE Same
  BY <1>20 DEF AllocPrompt, After
<1>21. ASSUME EmbedStep PROVE Same
  BY <1>21, SMTT(30) DEF EmbedStep, Embed, EmbedQ
<1>22. ASSUME LayerStep PROVE Same
  BY <1>22, ZenonT(30) DEF LayerStep, ForwardLayer, ForwardLayerQ, Layer
<1>23. ASSUME LogitsStep PROVE Same
  BY <1>23 DEF LogitsStep, Classify, ClassifyQ, Classified
<1>24. ASSUME StepsUsedUp PROVE Same
  BY <1>24 DEF StepsUsedUp
<1>25. ASSUME clean_reboot PROVE Same
  BY <1>25 DEF clean_reboot
<1>26. ASSUME UNCHANGED vars PROVE Same
  BY <1>26 DEF vars, main_vars, tokenizer_vars
<1>27. ASSUME AllocVocab PROVE KeepsText
  BY <1>27 DEF AllocVocab, After
<1>28. ASSUME BuildEntry PROVE KeepsText
  BY <1>28 DEF BuildEntry, After, AddEntry
<1>29. ASSUME build_sampler PROVE KeepsText
  BY <1>29 DEF build_sampler, After
<1>30. ASSUME SortStep PROVE KeepsText
  BY <1>30 DEF SortStep, After, SortVocab
<1>31. ASSUME AllocBuffer PROVE KeepsTable
  BY <1>31 DEF AllocBuffer, After, BeginEncode
<1>32. ASSUME EncodeStep PROVE KeepsTable
  BY <1>32 DEF EncodeStep, EncodeByte
<1>33. ASSUME MergeStep PROVE KeepsTable
  BY <1>33 DEF MergeStep, MergePair
<1>34. ASSUME StartGenerating PROVE KeepsTable
  BY <1>34 DEF StartGenerating
<1>35. ASSUME NextOfPrompt PROVE KeepsTable
  BY <1>35 DEF NextOfPrompt, Advance
<1>36. ASSUME SampleNext PROVE KeepsTable
  BY <1>36 DEF SampleNext, Advance
<1> HIDE DEF KeepsTable, KeepsText, Same
<1> QED  BY <1>1, <1>2, <1>3, <1>4, <1>5, <1>6, <1>7, <1>8, <1>9, <1>10, <1>11, <1>12, <1>13, <1>14, <1>15, <1>16, <1>17, <1>18, <1>19, <1>20, <1>21, <1>22, <1>23, <1>24, <1>25, <1>26, <1>27, <1>28, <1>29, <1>30, <1>31, <1>32, <1>33, <1>34, <1>35, <1>36 DEF Next, Rebooted, Same

LEMMA VocabStep ==
  ASSUME UseInv, UseInv', VocabInv, [Next]_vars
  PROVE  VocabInv'
PROOF
<1> USE DEF Unread, Generating, Encoding, Ended, Loading, Begun
<1>1. CASE KeepsTable
  <2>1. TokShape'
    BY <1>1 DEF KeepsTable, VocabInv, TokShape
  <2>2. CASE pc' \in Ended
    BY <2>1, <2>2 DEF VocabInv
  <2>3. CASE pc \in Unread /\ pc' \in Unread
    BY <1>1, <2>1, <2>3 DEF VocabInv, KeepsTable
  <2>4. CASE UNCHANGED <<pc, i, config>>
    BY <1>1, <2>1, <2>4 DEF VocabInv, KeepsTable, ReadUpTo
  <2>5. CASE /\ Begun /\ pc \notin Loading /\ pc' \notin Loading \cup Ended /\ config' = config
             /\ pc' \in Encoding => pc \in Encoding
    BY <1>1, <2>1, <2>5 DEF VocabInv, KeepsTable, ReadUpTo
  <2> QED  BY <1>1, <2>2, <2>3, <2>4, <2>5 DEF KeepsTable
<1>2. CASE AllocVocab
  <2>1. tok' = tok /\ UNCHANGED <<config, vocabulary>> /\ i' = 1 /\ pc \in Unread
        /\ pc' \in Unread \cup {"undefined", "entries"}
    BY <1>2 DEF AllocVocab, After, UseInv, PlaceInv, tokenizer_vars
  <2>2. tok.vocab = <<>> /\ TokShape
    BY <2>1 DEF VocabInv
  <2>3. config.vocab_size \in Nat
    BY <2>1, TokenizerFacts, <1>2 DEF AllocVocab
  <2>4. ReadUpTo(0)'
    BY <2>1, <2>2 DEF ReadUpTo
  <2> QED  BY <2>1, <2>2, <2>3, <2>4 DEF VocabInv, TokShape
<1>3. CASE BuildEntry
  <2> DEFINE e == vocabulary.entries[i]
  <2>1. pc = "entries" /\ i <= config.vocab_size /\ UNCHANGED <<config, vocabulary>> /\ i \in Nat \ {0}
    BY <1>3 DEF BuildEntry, UseInv, PlaceInv
  <2>2. \/ pc' = "panic" /\ UNCHANGED tok
        \/ pc' \in {"undefined", "entries"} /\ AddEntry(e.score, e.str) /\ i' = i + 1
    BY <1>3 DEF BuildEntry, After, tokenizer_vars
  <2>3. ReadUpTo(i - 1) /\ TokShape /\ config.vocab_size \in Nat
    BY <2>1, TokenizerFacts DEF VocabInv
  <2>4. CASE UNCHANGED tok /\ pc' = "panic"
    BY <2>3, <2>4 DEF VocabInv, TokShape
  <2>5. CASE pc' \in {"undefined", "entries"} /\ AddEntry(e.score, e.str) /\ i' = i + 1
    <3>1. tok' = [vocab |-> Append(tok.vocab, e.str), scores |-> Append(tok.scores, e.score),
                  sorted |-> tok.sorted]
      BY <2>3, <2>5 DEF AddEntry, TokShape
    <3>2. TokShape' /\ tok'.vocab = Append(tok.vocab, e.str)
      BY <3>1 DEF TokShape
    <3>3. Append(tok.vocab, e.str) = [k \in 1 .. i |-> vocabulary.entries[k].str]
      <4> DEFINE v == [k \in 1 .. i - 1 |-> vocabulary.entries[k].str]
                 w == [k \in 1 .. i |-> vocabulary.entries[k].str]
      <4>1. tok.vocab = v
        BY <2>3 DEF ReadUpTo
      <4>2. \A k \in 1 .. i : vocabulary.entries[k].str \in Text
        BY <2>1, TokenizerFacts
      <4>3. /\ v = [k \in 1 .. i - 1 |-> v[k]] /\ \A k \in 1 .. i - 1 : v[k] = w[k]
            /\ w = [k \in 1 .. i |-> w[k]] /\ \A k \in 1 .. i : w[k] \in Text
            /\ w[i] = e.str
        BY <2>1, <4>2
      <4> DEFINE x == e.str
      <4> HIDE DEF v, w, x, e
      <4>4. i \in Nat /\ i - 1 \in Nat /\ i \in 1 .. i /\ \A k \in 1 .. i - 1 : k \in 1 .. i
        BY <2>1
      <4>5. v \in Seq(Text) /\ Len(v) = i - 1 /\ w \in Seq(Text) /\ Len(w) = i
        BY <4>3, <4>4, SequenceOf
      <4>6. x \in Text /\ w[i] = x
        BY <4>3, <4>4 DEF x
      <4> DEFINE u == Append(v, x)
      <4>7. u \in Seq(Text) /\ Len(u) = i /\ u[i] = x /\ \A k \in 1 .. i - 1 : u[k] = v[k]
        <5> HIDE DEF Text
        <5>1. u \in Seq(Text) /\ Len(u) = (i - 1) + 1 /\ u[(i - 1) + 1] = x
              /\ \A k \in 1 .. i - 1 : u[k] = v[k]
          BY <4>5, <4>6
        <5>2. (i - 1) + 1 = i
          BY <2>1
        <5> QED  BY <5>1, <5>2
      <4> HIDE DEF u
      <4>8. u = [k \in 1 .. i |-> u[k]]
        BY <4>7
      <4>9. ASSUME NEW k \in 1 .. i PROVE u[k] = w[k]
        <5>1. CASE k = i
          BY <4>6, <4>7, <5>1
        <5>2. CASE k \in 1 .. i - 1
          BY <4>3, <4>7, <5>2
        <5> QED  BY <2>1, <5>1, <5>2
      <4> QED  BY <4>1, <4>3, <4>8, <4>9 DEF u, w, x
    <3>4. i' - 1 = i /\ ReadUpTo(i - 1)'
      BY <2>1, <2>5, <3>2, <3>3 DEF ReadUpTo
    <3> QED  BY <2>1, <2>3, <2>5, <3>2, <3>4 DEF VocabInv
  <2> QED  BY <2>2, <2>4, <2>5
<1>4. CASE build_sampler
  <2>1. /\ pc = "entries" /\ i > config.vocab_size /\ UNCHANGED <<config, vocabulary, tok>>
        /\ pc' \in {"undefined", "vm_init", "profile"}
    BY <1>4 DEF build_sampler, After, tokenizer_vars
  <2>2. i \in Nat /\ config.vocab_size \in Nat
    BY <2>1, TokenizerFacts DEF UseInv, PlaceInv
  <2>3. i - 1 = config.vocab_size /\ ReadUpTo(i - 1) /\ TokShape
    BY <2>1, <2>2 DEF VocabInv
  <2>4. ReadUpTo(config.vocab_size)'
    BY <2>1, <2>3 DEF ReadUpTo
  <2> QED  BY <2>1, <2>3, <2>4 DEF VocabInv, TokShape
<1>5. CASE SortStep
  <2>1. /\ pc = "sort" /\ pc' \in {"undefined", "buffer"} /\ SortVocab /\ UNCHANGED <<config, vocabulary>>
    BY <1>5 DEF SortStep, After
  <2>2. ReadUpTo(config.vocab_size) /\ TokShape
    BY <2>1 DEF VocabInv
  <2>3. tok.vocab \in Seq(Text)
    BY <2>1, <2>2, VocabularyIs
  <2>4. tok'.vocab = tok.vocab /\ TokShape'
    <3>1. PICK s : tok' = [tok EXCEPT !.sorted = s]
      BY <2>1 DEF SortVocab
    <3>2. tok' = [vocab |-> tok.vocab, scores |-> tok.scores, sorted |-> s]
      BY <2>2, <3>1 DEF TokShape
    <3> QED  BY <3>2 DEF TokShape
  <2>5. OrderedTable(tok.sorted, tok.vocab)'
    <3>1. OrderedTable(tok'.sorted, tok.vocab)
      BY <2>1, <2>2, <2>3, SortVocabOrders
    <3> QED  BY <2>4, <3>1
  <2>6. ReadUpTo(config.vocab_size)'
    BY <2>1, <2>2, <2>4 DEF ReadUpTo
  <2> QED  BY <2>1, <2>4, <2>5, <2>6 DEF VocabInv
<1> QED  BY <1>1, <1>2, <1>3, <1>4, <1>5, OtherSteps

LEMMA SameTokens ==
  ASSUME UNCHANGED <<tok, prompt, config, enc>>
  PROVE  /\ TokensInv => TokensInv'
         /\ \A n : SpelledBy(n)' = SpelledBy(n) /\ PrintedBy(n)' = PrintedBy(n)
         /\ PairToken(1)' = PairToken(1) /\ (Collapses' <=> Collapses)
PROOF
<1>1. Start' = Start
  BY SameMeaning
<1>2. ASSUME TokensInv PROVE TokensInv'
  <2>1. PICK T : T = enc.tokens
    OBVIOUS
  <2>2. enc'.tokens = T
    BY <2>1
  <2>3. \A k \in Start + 1 .. Len(T) : TextToken(T[k])'
    BY <1>2, <2>1, SameMeaning DEF TokensInv
  <2>4. prompt # <<>> => vocab(T[2])' = <<Space>>
    BY <1>2, <2>1, SameMeaning DEF TokensInv
  <2>5. /\ T \in Seq(0 .. config.vocab_size - 1) /\ Len(T) >= Start /\ T[1] = BOS
        /\ prompt # <<>> => T[2] # BOS
    BY <1>2, <2>1 DEF TokensInv
  <2> HIDE DEF TextToken, vocab
  <2> QED  BY <1>1, <2>2, <2>3, <2>4, <2>5 DEF TokensInv, BOS
<1>3. ASSUME NEW n PROVE SpelledBy(n)' = SpelledBy(n) /\ PrintedBy(n)' = PrintedBy(n)
  <2>1. PICK T : T = enc.tokens
    OBVIOUS
  <2>2. /\ SpelledBy(n)' = FlattenSeq([k \in 1 .. n |-> Spelling(T[k + Start])'])
        /\ PrintedBy(n)' = FlattenSeq([k \in 1 .. n |-> safe_printf(Spelling(T[k + Start])')])
    BY <1>1, <2>1 DEF SpelledBy, SpelledIn, PrintedBy, safe_printf
  <2>3. \A k : Spelling(T[k + Start])' = Spelling(T[k + Start])
    <3>1. \A id : Spelling(id)' = Spelling(id)
      BY SameMeaning
    <3> QED  BY <1>1, <3>1
  <2> QED  BY <2>1, <2>2, <2>3 DEF SpelledBy, SpelledIn, PrintedBy
<1>4. PairToken(1)' = PairToken(1)
  BY DEF PairToken, str_lookup, compare_tokens
<1>5. Collapses' <=> Collapses
  BY <1>4 DEF Collapses, vocab_scores
<1> QED  BY <1>2, <1>3, <1>4, <1>5

LEMMA SameEncode ==
  ASSUME UNCHANGED <<tok, prompt, config, enc>>, EncodeInv
  PROVE  EncodeInv'
PROOF
<1>1. TokensInv'
  BY SameTokens DEF EncodeInv
<1>2. Start' = Start /\ (IsContinuation(enc.c)' <=> IsContinuation(enc.c))
  BY SameMeaning DEF IsContinuation
<1>3. SpelledBy(Len(enc.tokens) - Start)' = SpelledBy(Len(enc.tokens) - Start)
  <2>1. PICK n : n = Len(enc.tokens) - Start
    OBVIOUS
  <2>2. SpelledBy(n)' = SpelledBy(n)
    BY SameTokens
  <2>3. SpelledBy(Len(enc.tokens) - Start)' = SpelledBy(n)'
    BY <1>2, <2>1 DEF SpelledBy
  <2> QED  BY <2>1, <2>2, <2>3
<1> QED
  <2> HIDE DEF TokensInv, SpelledBy, Start, IsContinuation
  <2> QED  BY <1>1, <1>2, <1>3 DEF EncodeInv

LEMMA SameEcho ==
  ASSUME UNCHANGED <<tok, prompt, config, enc, token, pos, out>>, EchoInv
  PROVE  EchoInv'
PROOF
<1>1. TokensInv' /\ Start' = Start
  BY SameTokens, SameMeaning DEF EchoInv
<1>2. PICK n, m : n = Len(enc.tokens) - Start /\ m = pos - 1
  OBVIOUS
<1>3. SpelledBy(n)' = SpelledBy(n) /\ PrintedBy(m)' = PrintedBy(m)
  BY SameTokens
<1>4. SpelledBy(Len(enc.tokens) - Start)' = SpelledBy(n)' /\ PrintedBy(pos - 1)' = PrintedBy(m)'
  BY <1>1, <1>2 DEF SpelledBy, PrintedBy
<1> QED
  <2> HIDE DEF TokensInv, SpelledBy, PrintedBy, Start
  <2> QED  BY <1>1, <1>2, <1>3, <1>4 DEF EchoInv

\* The vocabulary is there when encode runs.
LEMMA VocabularyHeld ==
  ASSUME UseInv, VocabInv, pc \in Encoding
  PROVE  Vocabulary
  BY DEF VocabInv, Vocabulary, Encoding, Generating, Begun, Unread

LEMMA MergeKeepsMerging ==
  ASSUME EncShape, MergePair
  PROVE  EncShape' /\ Collapses' /\ PairToken(1)' = PairToken(1)
PROOF
<1>1. PICK k \in Mergeable : PairToken(k) # -1 /\ vocab_scores(PairToken(k)) > MinScore
  BY DEF MergePair, Mergeable
<1>2. Collapses
  BY <1>1 DEF PairToken, Collapses
<1>3. PICK t : enc' = [enc EXCEPT !.tokens = t]
  BY DEF MergePair
<1>4. enc' = [text |-> enc.text, c |-> enc.c, str_buffer |-> enc.str_buffer, str_len |-> enc.str_len,
              tokens |-> t]
  BY <1>3 DEF EncShape
<1>5. EncShape' /\ enc'.str_buffer = enc.str_buffer /\ tok' = tok
  BY <1>4 DEF EncShape, MergePair
<1>6. PairToken(1)' = PairToken(1)
  BY <1>5 DEF PairToken, str_lookup, compare_tokens
<1> QED  BY <1>2, <1>5, <1>6 DEF Collapses, vocab_scores

\* When all is read and nothing to be merged, the tokens spell the prompt.
LEMMA EncodedPrompt ==
  ASSUME Vocabulary, EncodeInv, enc.c > Len(enc.text)
  PROVE  SpelledBy(Len(enc.tokens) - Start) = prompt
PROOF
<1> DEFINE T == enc.tokens
           n == config.vocab_size
           R == Range(prompt)
           s == SpelledBy(Len(T) - Start)
<1>1. n \in Nat /\ prompt \in Seq(1 .. Raw - 1) /\ Len(prompt) \in Nat
  BY TokenizerFacts DEF Vocabulary
<1>2. enc.text = prompt /\ enc.c = Len(prompt) + 1 /\ ~IsContinuation(enc.c)
  BY <1>1 DEF EncodeInv, IsContinuation
<1>3. enc.str_len = 0 /\ s \o SubSeq(enc.str_buffer, 1, 0) = SubSeq(prompt, 1, Len(prompt))
  BY <1>1, <1>2 DEF EncodeInv
<1>4. SubSeq(prompt, 1, Len(prompt)) = prompt /\ SubSeq(enc.str_buffer, 1, 0) = <<>>
  BY <1>1 DEF EncodeInv
<1>5. s \in Seq(R)
  <2>1. /\ T \in Seq(0 .. n - 1) /\ Len(T) >= Start
        /\ \A k \in Start + 1 .. Len(T) : TextToken(T[k])
    BY DEF EncodeInv, TokensInv
  <2> DEFINE new == <<>>
  <2>2. new \in Seq(0 .. n - 1) /\ \A k \in 1 .. Len(new) : TextToken(new[k])
    OBVIOUS
  <2> HIDE DEF T, n, new
  <2>3. SpelledIn(T, Len(T) - Start) \in Seq(R)
    BY <1>1, <2>1, <2>2, SpelledMore
  <2> QED  BY <2>3 DEF SpelledBy, T
<1>6. s \o <<>> = s
  <2> HIDE DEF s
  <2> QED  BY <1>5
<1> QED  BY <1>3, <1>4, <1>6

\* A token of the prompt is forced.
LEMMA EchoStep ==
  ASSUME EchoInv, NextOfPrompt, enc.tokens[pos + 2] # BOS
  PROVE  EchoInv'
PROOF
<1> DEFINE T == enc.tokens
           next == T[pos + 2]
<1>1. /\ UNCHANGED <<tok, prompt, config, enc>> /\ pos' = pos + 1 /\ pos < Len(T) - 1
      /\ token' = next /\ out' = out \o safe_printf(decode(token, next))
  BY DEF NextOfPrompt, Advance, tokenizer_vars
<1>2. Len(T) \in Nat /\ Len(T) >= Start /\ pos \in Nat
  <2> DEFINE Q == 0 .. config.vocab_size - 1
  <2>1. T \in Seq(Q) /\ Len(T) >= Start /\ pos \in Nat
    BY DEF EchoInv, TokensInv
  <2> HIDE DEF Q, T
  <2> QED  BY <2>1
<1>3. token = T[pos + 1] /\ TokensInv
  BY <1>1, <1>2 DEF EchoInv
<1>4. ASSUME prompt # <<>> PROVE out' = PrintedBy(pos)
  <2>1. out = PrintedBy(pos - 1) /\ Start = 2
    BY <1>1, <1>2, <1>4, StartIs DEF EchoInv
  <2>2. CASE pos = 0
    <3>1. token = BOS /\ next = T[2] /\ vocab(T[2]) = <<Space>>
      BY <1>3, <1>4, <2>2 DEF TokensInv
    <3>2. safe_printf(decode(token, next)) = <<>>
      BY <3>1, PrintsNoSpace
    <3>3. PrintedBy(pos) = <<>> /\ PrintedBy(pos - 1) = <<>>
      <4>1. /\ [k \in 1 .. 0 |-> safe_printf(Spelling(T[k + Start]))] = <<>>
            /\ [k \in 1 .. 0 - 1 |-> safe_printf(Spelling(T[k + Start]))] = <<>>
        OBVIOUS
      <4> QED  BY <2>2, <4>1, FlattenEmpty DEF PrintedBy
    <3>4. <<>> \o <<>> = <<>>
      OBVIOUS
    <3> QED  BY <1>1, <2>1, <3>2, <3>3, <3>4
  <2>3. CASE pos # 0
    <3> DEFINE m == pos - 1
    <3>1. m \in Nat /\ m + 1 = pos /\ m + 1 + Start = pos + 2 /\ pos + 2 <= Len(T) /\ pos + 2 \in Start + 1 .. Len(T)
      BY <1>1, <1>2, <2>1, <2>3
    <3>2. TextToken(next)
      BY <1>3, <3>1 DEF TokensInv
    <3>3. token # BOS
      <4>1. CASE pos + 1 = 2
        BY <1>3, <1>4, <4>1 DEF TokensInv
      <4>2. CASE pos + 1 # 2
        <5>1. pos + 1 \in Start + 1 .. Len(T)
          BY <1>1, <1>2, <2>1, <2>3, <4>2
        <5> QED  BY <1>3, <5>1 DEF TokensInv, TextToken
      <4> QED  BY <4>1, <4>2
    <3>4. decode(token, next) = Spelling(next)
      BY <3>2, <3>3, DecodesSpelling
    <3> HIDE DEF m
    <3>5. PrintedBy(m + 1) = PrintedBy(m) \o safe_printf(Spelling(T[m + 1 + Start]))
      BY <1>3, <3>1, PrintedNext
    <3>6. out = PrintedBy(m)
      BY <2>1 DEF m
    <3> QED  BY <1>1, <3>1, <3>4, <3>5, <3>6
  <2> QED  BY <2>2, <2>3
<1>5. PICK p, t, nn : p = pos /\ t = T /\ nn = Len(T) - Start
  OBVIOUS
<1>6. enc'.tokens = t /\ pos' = p + 1 /\ p \in Nat /\ (p + 1) + 1 = p + 2 /\ (p + 1) - 1 = p
  BY <1>1, <1>2, <1>5
<1>7. TokensInv' /\ Start' = Start /\ SpelledBy(nn)' = SpelledBy(nn) /\ PrintedBy(p)' = PrintedBy(p)
  BY <1>1, <1>3, SameTokens, SameMeaning
<1>8. SpelledBy(Len(enc.tokens) - Start)' = prompt' /\ PrintedBy(pos - 1)' = PrintedBy(p)'
  <2>1. (Len(enc.tokens) - Start)' = nn /\ (pos - 1)' = p
    BY <1>5, <1>6, <1>7
  <2>2. SpelledBy(nn) = prompt
    BY <1>5 DEF EchoInv
  <2>3. SpelledBy(Len(enc.tokens) - Start)' = SpelledBy(nn)' /\ PrintedBy(pos - 1)' = PrintedBy(p)'
    BY <2>1 DEF SpelledBy, PrintedBy
  <2> QED  BY <1>1, <1>7, <2>2, <2>3
<1>9. token' = enc'.tokens[pos' + 1]
  BY <1>1, <1>5, <1>6
<1>10. prompt' # <<>> => out' = PrintedBy(pos - 1)'
  BY <1>1, <1>4, <1>5, <1>7, <1>8
<1>11. pos' \in Nat
  BY <1>6
<1> QED
  <2> HIDE DEF TokensInv, SpelledBy, PrintedBy, Start
  <2> QED  BY <1>7, <1>8, <1>9, <1>10, <1>11 DEF EchoInv

LEMMA SpellInit == Init => SpellInv
PROOF
<1> SUFFICES ASSUME Init PROVE SpellInv
  OBVIOUS
<1>1. pc = "start" /\ tok = NoTokenizer /\ enc = NoEncoding /\ pos = 0 /\ out = <<>>
  BY DEF Init, TokenizerInit
<1>2. TokShape /\ EncShape
  BY <1>1 DEF TokShape, EncShape, NoTokenizer, NoEncoding
<1> QED  BY <1>1, <1>2 DEF SpellInv, VocabInv, NoTokenizer, Unread, Generating, Encoding, Begun

LEMMA SpellStep ==
  ASSUME UseInv, UseInv', SpellInv, [Next]_vars
  PROVE  SpellInv'
PROOF
<1>1. VocabInv'
  BY VocabStep DEF SpellInv
<1>2. /\ VocabInv /\ EncShape
      /\ pc \notin Silent => pos = 0 /\ out = <<>>
      /\ pc = "encode" => EncodeInv
      /\ pc = "merge" => Collapses
      /\ pc \in Generating /\ ~Collapses => EchoInv
  BY DEF SpellInv, Silent, Ended
<1> DEFINE Good == /\ EncShape'
                   /\ pc' \notin Silent => pos' = 0 /\ out' = <<>>
                   /\ pc' = "encode" => EncodeInv'
                   /\ pc' = "merge" => Collapses'
                   /\ pc' \in Generating /\ ~Collapses' => EchoInv'
<1> SUFFICES Good
  <2> HIDE DEF EncShape, EncodeInv, EchoInv, VocabInv, Collapses
  <2> QED  BY <1>1 DEF SpellInv, Silent, Ended
<1>3. ASSUME UNCHANGED <<enc, pos, out>>, pc' \notin {"encode", "merge"} \cup Generating,
             pc' \notin Silent => pc \notin Silent
      PROVE  Good
  <2>1. EncShape'
    BY <1>2, <1>3 DEF EncShape
  <2> QED  BY <1>2, <1>3, <2>1
<1>4. ASSUME UNCHANGED <<tok, enc, prompt, config, token, pos, out>>,
             pc' = pc \/ (pc' \in Generating /\ pc \in Generating)
      PROVE  Good
  <2>1. EncShape'
    BY <1>2, <1>4 DEF EncShape
  <2>2. Collapses' <=> Collapses
    BY <1>4, SameTokens
  <2>3. EncodeInv => EncodeInv'
    BY <1>4, SameEncode
  <2>4. EchoInv => EchoInv'
    BY <1>4, SameEcho
  <2> HIDE DEF EncShape, EncodeInv, EchoInv, VocabInv, Collapses
  <2> QED  BY <1>2, <1>4, <2>1, <2>2, <2>3, <2>4 DEF Silent, Generating, Ended
<1>5. ASSUME AllocBuffer PROVE Good
  <2>1. /\ pc = "buffer" /\ pc' \in {"encode", "undefined"} /\ BeginEncode(prompt)
        /\ UNCHANGED <<prompt, config, pos, out>>
    BY <1>5 DEF AllocBuffer, After
  <2>2. Vocabulary
    BY <1>2, <2>1, VocabularyHeld DEF Encoding
  <2>3. EncShape' /\ EncodeInv'
    BY <2>1, <2>2, BeginSpells
  <2>4. pos' = 0 /\ out' = <<>>
    BY <1>2, <2>1 DEF Silent, Generating, Ended
  <2> QED  BY <2>1, <2>3, <2>4 DEF Generating
<1>6. ASSUME EncodeStep PROVE Good
  <2>1. pc = "encode" /\ pc' = "encode" /\ EncodeByte /\ UNCHANGED <<prompt, config, pos, out>>
    BY <1>6 DEF EncodeStep
  <2>2. Vocabulary
    BY <1>2, <2>1, VocabularyHeld DEF Encoding
  <2>3. EncShape' /\ EncodeInv'
    BY <1>2, <2>1, <2>2, EncodeByteSpells
  <2> QED  BY <1>2, <2>1, <2>3 DEF Silent, Generating, Ended
<1>7. ASSUME MergeStep PROVE Good
  <2>1. pc \in {"encode", "merge"} /\ pc' = "merge" /\ MergePair /\ UNCHANGED <<pos, out>>
    BY <1>7 DEF MergeStep
  <2>2. EncShape' /\ Collapses'
    BY <1>2, <2>1, MergeKeepsMerging
  <2> QED  BY <1>2, <2>1, <2>2 DEF Silent, Generating, Ended
<1>8. ASSUME StartGenerating PROVE Good
  <2>1. /\ pc \in {"encode", "merge"} /\ pc' \in {"panic", "forward"} /\ enc.c > Len(enc.text)
        /\ token' = IF enc.tokens = <<>> THEN token ELSE enc.tokens[1]
        /\ UNCHANGED <<tok, enc, prompt, config, pos, out>>
    BY <1>8 DEF StartGenerating, tokenizer_vars
  <2>2. EncShape' /\ (Collapses' <=> Collapses)
    BY <1>2, <2>1, SameTokens DEF EncShape
  <2>3. ASSUME pc = "encode" PROVE EchoInv'
    <3>1. Vocabulary /\ EncodeInv
      BY <1>2, <2>3, VocabularyHeld DEF Encoding
    <3>2. SpelledBy(Len(enc.tokens) - Start) = prompt
      BY <2>1, <3>1, EncodedPrompt
    <3>3. pos' = 0 /\ out' = <<>>
      BY <1>2, <2>1, <2>3 DEF Silent, Generating, Ended
    <3>4. TokensInv
      BY <3>1 DEF EncodeInv
    <3>5. TokensInv' /\ Start' = Start
      BY <2>1, <3>4, SameTokens, SameMeaning
    <3>6. PICK T, n : T = enc.tokens /\ n = Len(T) - Start
      OBVIOUS
    <3>7. SpelledBy(n)' = prompt'
      BY <2>1, <3>2, <3>6, SameTokens
    <3>8. enc'.tokens = T
      BY <2>1, <3>6
    <3>9. SpelledBy(Len(enc.tokens) - Start)' = prompt'
      <4>1. (Len(enc.tokens) - Start)' = n
        BY <3>5, <3>6, <3>8
      <4> QED  BY <3>7, <4>1 DEF SpelledBy
    <3>10. token' = T[1] /\ T # <<>>
      <4>1. Len(T) >= Start
        BY <3>4, <3>6 DEF TokensInv
      <4>2. T # <<>>
        BY <4>1, StartIs
      <4> QED  BY <2>1, <3>6, <4>2
    <3>11. PrintedBy(0 - 1)' = <<>>
      <4>1. PrintedBy(0 - 1) = <<>>
        <5>1. [k \in 1 .. 0 - 1 |-> safe_printf(Spelling(T[k + Start]))] = <<>>
          OBVIOUS
        <5> QED  BY <3>6, <5>1, FlattenEmpty DEF PrintedBy
      <4>2. PrintedBy(0 - 1)' = PrintedBy(0 - 1)
        BY <2>1, SameTokens
      <4> QED  BY <4>1, <4>2
    <3>12. (out = PrintedBy(pos - 1))'
      <4>1. PrintedBy(pos - 1)' = PrintedBy(0 - 1)'
        BY <3>3 DEF PrintedBy
      <4> QED  BY <3>3, <3>11, <4>1
    <3>13. (token = enc.tokens[pos + 1])'
      BY <3>3, <3>8, <3>10
    <3> QED
      <4> HIDE DEF TokensInv, SpelledBy, PrintedBy, Start
      <4> QED  BY <3>3, <3>5, <3>9, <3>12, <3>13 DEF EchoInv
  <2>4. pc = "merge" => Collapses'
    BY <1>2, <2>2
  <2> HIDE DEF EncShape, EncodeInv, EchoInv, VocabInv, Collapses
  <2> QED  BY <2>1, <2>2, <2>3, <2>4 DEF Silent, Generating, Ended
<1>9. ASSUME NextOfPrompt PROVE Good
  <2>1. /\ pc = "next" /\ UNCHANGED <<tok, enc, prompt, config>>
        /\ pc' = IF enc.tokens[pos + 2] = BOS THEN "done" ELSE "forward"
    BY <1>9 DEF NextOfPrompt, Advance, tokenizer_vars
  <2>2. EncShape' /\ (Collapses' <=> Collapses)
    BY <1>2, <2>1, SameTokens DEF EncShape
  <2>3. enc.tokens[pos + 2] # BOS /\ EchoInv => EchoInv'
    BY <1>9, EchoStep
  <2> HIDE DEF EncShape, EncodeInv, EchoInv, VocabInv, Collapses, BOS
  <2> QED  BY <1>2, <2>1, <2>2, <2>3 DEF Silent, Generating, Ended
<1>10. ASSUME SampleNext PROVE Good
  <2>1. /\ pc = "next" /\ UNCHANGED <<tok, enc, prompt, config>> /\ pos' = pos + 1
        /\ pc' \in {"done", "forward"} /\ pos >= Len(enc.tokens) - 1
    BY <1>10 DEF SampleNext, Advance, tokenizer_vars
  <2>2. EncShape' /\ (Collapses' <=> Collapses)
    BY <1>2, <2>1, SameTokens DEF EncShape
  <2>3. ASSUME EchoInv PROVE EchoInv'
    <3>1. TokensInv' /\ Start' = Start
      BY <2>1, <2>3, SameTokens, SameMeaning DEF EchoInv
    <3>2. PICK T, n : T = enc.tokens /\ n = Len(T) - Start
      OBVIOUS
    <3>3. SpelledBy(n)' = prompt'
      BY <2>1, <2>3, <3>2, SameTokens DEF EchoInv
    <3>4. enc'.tokens = T
      BY <2>1, <3>2
    <3>5. SpelledBy(Len(enc.tokens) - Start)' = prompt'
      <4>1. (Len(enc.tokens) - Start)' = n
        BY <3>1, <3>2, <3>4
      <4> QED  BY <3>3, <4>1 DEF SpelledBy
    <3>6. Len(T) \in Nat
      <4> DEFINE Q == 0 .. config.vocab_size - 1
      <4>1. T \in Seq(Q)
        BY <2>3, <3>2 DEF EchoInv, TokensInv
      <4> HIDE DEF Q
      <4> QED  BY <4>1
    <3>7. pos' \in Nat /\ ~(pos' <= Len(enc'.tokens) - 1)
      <4>1. pos \in Nat
        BY <2>3 DEF EchoInv
      <4> QED  BY <2>1, <3>2, <3>4, <3>6, <4>1
    <3> QED
      <4> HIDE DEF TokensInv, SpelledBy, PrintedBy, Start
      <4> QED  BY <3>1, <3>5, <3>7 DEF EchoInv
  <2> HIDE DEF EncShape, EncodeInv, EchoInv, VocabInv, Collapses
  <2> QED  BY <1>2, <2>1, <2>2, <2>3 DEF Silent, Generating, Ended
<1>11. KeepsText => Good
  BY <1>3, <1>4 DEF KeepsText
<1> HIDE DEF Good
<1> QED  BY <1>5, <1>6, <1>7, <1>8, <1>9, <1>10, <1>11, OtherSteps

\* What all tokens but BOS spell: a space if there is a text, then what those of the text do.
LEMMA SpelledAfterSpace ==
  ASSUME Vocabulary, TokensInv, prompt # <<>>
  PROVE  LET T == enc.tokens
             s == SpelledBy(Len(T) - Start)
         IN  /\ FlattenSeq([k \in 1 .. Len(T) - 1 |-> Spelling(T[k + 1])]) = <<Space>> \o s
             /\ s \in Seq(Range(prompt) \cup {Space})
PROOF
<1> DEFINE T == enc.tokens
           n == config.vocab_size
           m == Len(T) - Start
           R == Range(prompt) \cup {Space}
           a == [k \in 1 .. m |-> Spelling(T[k + Start])]
           one == <<Space>>
           b == <<one>>
           c == [k \in 1 .. Len(T) - 1 |-> Spelling(T[k + 1])]
           d == b \o a
<1>1. /\ T \in Seq(0 .. n - 1) /\ Len(T) >= 2 /\ Start = 2 /\ vocab(T[2]) = <<Space>>
      /\ \A k \in Start + 1 .. Len(T) : TextToken(T[k])
      /\ Raw \in Nat /\ Space \in 1 .. Raw - 1
  BY StartIs, TokenizerFacts DEF TokensInv, Vocabulary
<1>2. Len(T) \in Nat
  <2> DEFINE Q == 0 .. n - 1
  <2>1. T \in Seq(Q)
    BY <1>1
  <2> HIDE DEF Q, T
  <2> QED  BY <2>1
<1>3. m \in Nat /\ Len(T) - 1 = m + 1 /\ Len(T) = m + 2
  BY <1>1, <1>2
<1>4. Spelling(T[2]) = one
  BY <1>1 DEF Spelling, IsRaw
<1>5. \A k \in 1 .. m : Spelling(T[k + Start]) \in Seq(R)
  <2>1. ASSUME NEW k \in 1 .. m PROVE Spelling(T[k + Start]) \in Seq(R)
    <3>1. k + Start \in Start + 1 .. Len(T)
      BY <1>1, <1>3
    <3>2. Spelling(T[k + Start]) \in Seq(Range(prompt))
      BY <1>1, <3>1 DEF TextToken
    <3> HIDE DEF T
    <3> DEFINE P == Range(prompt)
    <3>3. P \subseteq R
      OBVIOUS
    <3> HIDE DEF P, R
    <3> QED  BY <3>2, <3>3 DEF P
  <2> QED  BY <2>1
<1>6. a \in Seq(Seq(R)) /\ Len(a) = m
  <2> DEFINE Q == Seq(R)
  <2>1. a = [k \in 1 .. m |-> a[k]] /\ \A k \in 1 .. m : a[k] \in Q
    <3> HIDE DEF m, R
    <3> QED  BY <1>5
  <2> HIDE DEF a, m, Q
  <2> QED  BY <1>3, <2>1, SequenceOf DEF Q
<1>7. one \in Seq(R) /\ b \in Seq(Seq(R)) /\ Len(b) = 1 /\ b[1] = one
  <2>1. one \in Seq(R)
    OBVIOUS
  <2> DEFINE Q == Seq(R)
  <2> HIDE DEF Q, one
  <2>2. b \in Seq(Q) /\ Len(b) = 1 /\ b[1] = one
    <3>1. one \in Q
      BY <2>1 DEF Q
    <3> QED  BY <3>1
  <2> QED  BY <2>1, <2>2 DEF Q
<1>8. c = d
  <2>1. /\ \A k \in 1 .. m : a[k] = Spelling(T[k + Start])
        /\ c = [k \in 1 .. m + 1 |-> c[k]]
        /\ \A k \in 1 .. m + 1 : c[k] = Spelling(T[k + 1])
    <3> HIDE DEF m, T
    <3> QED  BY <1>3
  <2> DEFINE Q == Seq(R)
  <2>2. /\ d \in Seq(Q) /\ Len(d) = 1 + m /\ d[1] = one
        /\ \A k \in 1 .. m : d[1 + k] = a[k]
    <3>1. b \in Seq(Q) /\ a \in Seq(Q) /\ DOMAIN b = 1 .. 1 /\ DOMAIN a = 1 .. m /\ Len(b) = 1
          /\ b[1] = one /\ 1 \in 1 .. 1
      <4> HIDE DEF a, b, m, one
      <4> QED  BY <1>6, <1>7
    <3> HIDE DEF a, b, m, Q, one
    <3>2. /\ b \o a \in Seq(Q) /\ Len(b \o a) = Len(b) + Len(a)
          /\ \A k \in DOMAIN b : (b \o a)[k] = b[k]
          /\ \A k \in DOMAIN a : (b \o a)[Len(b) + k] = a[k]
      <4>1. b \in Seq(Q) /\ a \in Seq(Q)
        BY <3>1
      <4> QED  BY ONLY <4>1, ConcatShape
    <3> QED  BY <1>6, <3>1, <3>2
  <2>3. d = [k \in 1 .. 1 + m |-> d[k]]
    <3> HIDE DEF d, Q, m
    <3> QED  BY <2>2
  <2> HIDE DEF a, c, d, m, one, T
  <2>4. ASSUME NEW k \in 1 .. m + 1 PROVE c[k] = d[k]
    <3>1. CASE k = 1
      <4>1. c[1] = Spelling(T[1 + 1]) /\ 1 + 1 = 2
        BY <1>3, <2>1, <3>1
      <4> QED  BY <1>4, <2>2, <3>1, <4>1
    <3>2. CASE k # 1
      <4> DEFINE j == k - 1
      <4>1. j \in 1 .. m /\ 1 + j = k /\ j + Start = k + 1
        BY <1>1, <1>3, <3>2
      <4> HIDE DEF j
      <4>2. d[k] = a[j] /\ a[j] = Spelling(T[k + 1])
        BY <2>1, <2>2, <4>1
      <4> QED  BY <2>1, <4>2
    <3> QED  BY <3>1, <3>2
  <2>5. 1 + m = m + 1
    BY <1>3
  <2> QED  BY <2>1, <2>3, <2>4, <2>5
<1>9. SpelledBy(Len(T) - Start) = FlattenSeq(a)
  BY DEF SpelledBy, SpelledIn
<1> HIDE DEF a, b, c, R, one
<1>10. FlattenSeq(d) = FlattenSeq(b) \o FlattenSeq(a)
  BY <1>6, <1>7, FlattenConcat
<1>11. FlattenSeq(b) = one
  BY <1>7, FlattenOne DEF b
<1>12. FlattenSeq(a) \in Seq(R)
  BY <1>6, FlattenSeqOf
<1> QED  BY <1>8, <1>9, <1>10, <1>11, <1>12 DEF c, R, one

LEMMA EncodeInvSpells ==
  ASSUME Vocabulary, EncodeInv
  PROVE  FlattenSeq([k \in 1 .. Len(enc.tokens) - 1 |-> Spelling(enc.tokens[k + 1])])
           \o SubSeq(enc.str_buffer, 1, enc.str_len)
         = (IF prompt # <<>> THEN <<Space>> ELSE <<>>) \o SubSeq(prompt, 1, enc.c - 1)
PROOF
<1> DEFINE T == enc.tokens
           s == SpelledBy(Len(T) - Start)
           q == SubSeq(enc.str_buffer, 1, enc.str_len)
           text == SubSeq(prompt, 1, enc.c - 1)
           all == FlattenSeq([k \in 1 .. Len(T) - 1 |-> Spelling(T[k + 1])])
<1>1. s \o q = text /\ TokensInv
  BY DEF EncodeInv
<1>2. CASE prompt # <<>>
  <2> DEFINE R == Range(prompt) \cup {Space}
  <2>1. all = <<Space>> \o s /\ s \in Seq(R)
    BY <1>1, <1>2, SpelledAfterSpace
  <2>2. q \in Seq(R) /\ <<Space>> \in Seq(R)
    <3>1. enc.str_buffer \in Seq(R)
      <4> DEFINE P == Range(prompt)
      <4>1. enc.str_buffer \in Seq(P) /\ P \subseteq R
        BY DEF EncodeInv
      <4> HIDE DEF P, R
      <4> QED  BY <4>1
    <3>2. enc.str_len \in 0 .. Len(enc.str_buffer)
      BY <3>1 DEF EncodeInv
    <3>3. <<Space>> \in Seq(R)
      OBVIOUS
    <3> HIDE DEF R
    <3>4. q \in Seq(R)
      BY <3>1, <3>2
    <3> QED  BY <3>3, <3>4
  <2> HIDE DEF R, s, q, text, all
  <2>3. (<<Space>> \o s) \o q = <<Space>> \o (s \o q)
    BY ONLY <2>1, <2>2, Associates
  <2> QED  BY <1>1, <1>2, <2>1, <2>3 DEF all, q, text
<1>3. CASE prompt = <<>>
  <2>1. all = s
    BY <1>3, StartIs DEF SpelledBy, SpelledIn
  <2>2. <<>> \o text = text
    <3>1. prompt \in Seq(1 .. Raw - 1)
      BY TokenizerFacts DEF Vocabulary
    <3>2. text = <<>>
      BY <1>3 DEF EncodeInv
    <3> QED  BY <3>2
  <2> HIDE DEF s, q, text, all
  <2> QED  BY <1>1, <1>3, <2>1, <2>2 DEF all, q, text
<1> QED  BY <1>2, <1>3

\* While encode reads the prompt, its tokens and the codepoint it has begun spell what it has
\* read, after one space, byte for byte; the tokens are in the vocabulary, whatever it is, and the
\* tokens and the codepoint fit the room encode and its caller gave them.
THEOREM EncodeSpellsThePrompt == Spec => []EncodeSpells
PROOF
<1>1. Init => UseInv /\ SpellInv
  BY UseInit, SpellInit
<1>2. UseInv /\ SpellInv /\ [Next]_vars => (UseInv /\ SpellInv)'
  BY UseStep, SpellStep
<1>3. UseInv /\ SpellInv => EncodeSpells
  <2> SUFFICES ASSUME UseInv, SpellInv, pc = "encode" PROVE EncodeSpells
    BY DEF EncodeSpells
  <2>1. VocabInv /\ EncodeInv
    BY DEF SpellInv
  <2>2. Vocabulary
    BY <2>1, VocabularyHeld DEF Encoding
  <2> DEFINE T == enc.tokens
             Q == 0 .. config.vocab_size - 1
  <2>3. T \in Seq(Q) /\ Len(T) >= Start
    BY <2>1 DEF EncodeInv, TokensInv
  <2>4. Len(T) \in Nat /\ \A k \in DOMAIN T : T[k] \in Q
    <3> HIDE DEF T, Q
    <3> QED  BY <2>3
  <2>5. Len(T) <= Len(prompt) + 3
    <3>1. prompt \in Seq(1 .. Raw - 1) /\ Len(prompt) \in Nat
      BY <2>2, TokenizerFacts DEF Vocabulary
    <3>2. /\ enc.c \in 1 .. Len(prompt) + 1 /\ Len(T) - Start + enc.str_len <= enc.c - 1
          /\ enc.str_len \in {0, Len(enc.str_buffer)} /\ enc.str_buffer \in Seq(Range(prompt))
      BY <2>1 DEF EncodeInv
    <3>3. enc.str_len \in Nat
      <4> DEFINE P == Range(prompt)
      <4> HIDE DEF P
      <4>1. enc.str_buffer \in Seq(P)
        BY <3>2 DEF P
      <4> QED  BY <3>2, <4>1
    <3> HIDE DEF T
    <3> QED  BY <2>4, <3>1, <3>2, <3>3, StartIs
  <2>6. Len(enc.str_buffer) + 1 <= BufferBytes(vocabulary)
    <3>1. vocabulary.max_token_length \in Nat \ {0}
      BY <2>2, TokenizerFacts DEF Vocabulary
    <3>2. Len(enc.str_buffer) <= 4 /\ Len(enc.str_buffer) \in Nat
      <4> DEFINE P == Range(prompt)
      <4> HIDE DEF P
      <4>1. enc.str_buffer \in Seq(P) /\ Len(enc.str_buffer) <= 4
        BY <2>1 DEF EncodeInv, P
      <4> QED  BY <4>1
    <3> QED  BY <3>1, <3>2 DEF BufferBytes
  <2>7. FlattenSeq([k \in 1 .. Len(enc.tokens) - 1 |-> Spelling(enc.tokens[k + 1])])
          \o SubSeq(enc.str_buffer, 1, enc.str_len)
        = (IF prompt # <<>> THEN <<Space>> ELSE <<>>) \o SubSeq(prompt, 1, enc.c - 1)
    BY <2>1, <2>2, EncodeInvSpells
  <2> QED  BY <2>4, <2>5, <2>6, <2>7 DEF EncodeSpells
<1> QED  BY <1>1, <1>2, <1>3, PTL DEF Spec

-----------------------------------------------------------------------------
(***************************************************************************)
(* Sums over lists.                                                        *)
(***************************************************************************)

\* What a sum over a list is, by its recursive function.
LEMMA SumSeqIs ==
  ASSUME NEW s, Len(s) \in Nat
  PROVE  \E sum : /\ sum = [n \in 0 .. Len(s) |-> IF n = 0 THEN 0 ELSE sum[n - 1] + s[n]]
                  /\ SumSeq(s) = sum[Len(s)]
PROOF
<1> DEFINE l == Len(s)
           Partial(g, m) == g = [n \in 0 .. m |-> IF n = 0 THEN 0 ELSE g[n - 1] + s[n]]
           S == {m \in Nat : \E g : Partial(g, m)}
<1>1. \E g : Partial(g, l)
  <2>1. 0 \in S
    <3>1. Partial([n \in 0 .. 0 |-> 0], 0)
      OBVIOUS
    <3> QED  BY <3>1
  <2>2. ASSUME NEW m \in Nat, m \in S PROVE m + 1 \in S
    <3>1. PICK g : Partial(g, m)
      BY <2>2
    <3> DEFINE h == [n \in 0 .. m + 1 |-> IF n = m + 1 THEN g[m] + s[m + 1] ELSE g[n]]
    <3>2. Partial(h, m + 1)
      BY <3>1
    <3> HIDE DEF Partial
    <3> QED  BY <3>2
  <2>3. l \in S
    <3> HIDE DEF S
    <3> QED  BY <2>1, <2>2, SetInduction
  <2> QED  BY <2>3
<1> DEFINE f == CHOOSE g : Partial(g, l)
<1>2. SumSeq(s) = f[l]
  BY DEF SumSeq
<1>3. Partial(f, l)
  <2> HIDE DEF Partial
  <2> QED  BY <1>1
<1> QED  BY <1>2, <1>3

\* A sum over one term more.
LEMMA SumNext ==
  ASSUME NEW f, NEW n \in Nat
  PROVE  /\ SumSeq([j \in 1 .. 0 |-> f[j]]) = 0
         /\ SumSeq([j \in 1 .. n + 1 |-> f[j]]) = SumSeq([j \in 1 .. n |-> f[j]]) + f[n + 1]
PROOF
<1> DEFINE F(m) == [j \in 1 .. m |-> f[j]]
<1>1. \A m \in Nat : Len(F(m)) = m /\ \A j \in 1 .. m : F(m)[j] = f[j]
  OBVIOUS
<1> HIDE DEF F
<1>2. \A m \in Nat : \E g : /\ \A k \in 0 .. m : g[k] = IF k = 0 THEN 0 ELSE g[k - 1] + f[k]
                            /\ SumSeq(F(m)) = g[m]
  <2> SUFFICES ASSUME NEW m \in Nat
               PROVE  \E g : /\ \A k \in 0 .. m : g[k] = IF k = 0 THEN 0 ELSE g[k - 1] + f[k]
                             /\ SumSeq(F(m)) = g[m]
    OBVIOUS
  <2>1. Len(F(m)) = m /\ Len(F(m)) \in Nat
    BY <1>1
  <2>2. PICK g : /\ g = [k \in 0 .. Len(F(m)) |-> IF k = 0 THEN 0 ELSE g[k - 1] + F(m)[k]]
                 /\ SumSeq(F(m)) = g[Len(F(m))]
    BY <2>1, SumSeqIs
  <2>3. g = [k \in 0 .. m |-> IF k = 0 THEN 0 ELSE g[k - 1] + F(m)[k]]
    BY <2>1, <2>2
  <2>4. \A k \in 0 .. m : g[k] = IF k = 0 THEN 0 ELSE g[k - 1] + F(m)[k]
    BY <2>3
  <2>5. \A k \in 0 .. m : k # 0 => F(m)[k] = f[k]
    BY <1>1
  <2> QED  BY <2>1, <2>2, <2>4, <2>5
<1>3. SumSeq(F(0)) = 0
  BY <1>2
<1>4. PICK g : /\ \A k \in 0 .. n : g[k] = IF k = 0 THEN 0 ELSE g[k - 1] + f[k]
               /\ SumSeq(F(n)) = g[n]
  BY <1>2
<1>5. PICK h : /\ \A k \in 0 .. n + 1 : h[k] = IF k = 0 THEN 0 ELSE h[k - 1] + f[k]
               /\ SumSeq(F(n + 1)) = h[n + 1]
  BY <1>2, n + 1 \in Nat
<1>6. \A k \in Nat : k <= n => g[k] = h[k]
  <2> DEFINE S == {k \in Nat : k <= n => g[k] = h[k]}
  <2>1. 0 \in S
    BY <1>4, <1>5
  <2>2. \A k \in Nat : k \in S => k + 1 \in S
    <3> SUFFICES ASSUME NEW k \in Nat, k <= n => g[k] = h[k], k + 1 <= n PROVE g[k + 1] = h[k + 1]
      OBVIOUS
    <3>1. g[k + 1] = g[k] + f[k + 1]
      BY <1>4
    <3>2. h[k + 1] = h[k] + f[k + 1]
      BY <1>5
    <3> QED  BY <3>1, <3>2
  <2>3. \A k \in Nat : k \in S
    <3> HIDE DEF S
    <3> QED  BY <2>1, <2>2, SetInduction
  <2> QED  BY <2>3
<1>7. h[n + 1] = h[n] + f[n + 1]
  BY <1>5
<1> QED  BY <1>3, <1>4, <1>5, <1>6, <1>7 DEF F

-----------------------------------------------------------------------------
(***************************************************************************)
(* Lists of tensors, and where they are.                                   *)
(***************************************************************************)

\* Of a list e of things: how much those before the k-th take, if w says how much each does.
StartOf(w, e, k) == SumSeq([j \in 1 .. k - 1 |-> w[e[j]]])
Total(w, e) == StartOf(w, e, Len(e) + 1)

\* x is in the list, behind st.
Has(w, e, x, st) == \E k \in 1 .. Len(e) : e[k] = x /\ StartOf(w, e, k) = st

\* The next of a list starts where this one ends.
LEMMA StartNext ==
  ASSUME NEW w, NEW e, NEW k \in Nat \ {0}
  PROVE  StartOf(w, e, 1) = 0 /\ StartOf(w, e, k + 1) = StartOf(w, e, k) + w[e[k]]
PROOF
<1> DEFINE n == k - 1
           f == [j \in 1 .. k |-> w[e[j]]]
<1>1. n \in Nat /\ n + 1 = k /\ (k + 1) - 1 = n + 1 /\ 1 - 1 = 0
  OBVIOUS
<1>2. /\ [j \in 1 .. n + 1 |-> f[j]] = [j \in 1 .. n + 1 |-> w[e[j]]]
      /\ [j \in 1 .. n |-> f[j]] = [j \in 1 .. n |-> w[e[j]]]
      /\ [j \in 1 .. 0 |-> f[j]] = [j \in 1 .. 0 |-> w[e[j]]]
      /\ f[n + 1] = w[e[k]]
  BY <1>1
<1> HIDE DEF f, n
<1>3. /\ SumSeq([j \in 1 .. 0 |-> f[j]]) = 0
      /\ SumSeq([j \in 1 .. n + 1 |-> f[j]]) = SumSeq([j \in 1 .. n |-> f[j]]) + f[n + 1]
  BY <1>1, SumNext
<1> QED  BY <1>1, <1>2, <1>3 DEF StartOf, n

\* Where something starts depends on what is before it only.
LEMMA StartAgrees ==
  ASSUME NEW w, NEW e, NEW a, NEW k, \A j \in 1 .. k - 1 : e[j] = a[j]
  PROVE  StartOf(w, e, k) = StartOf(w, a, k)
PROOF
<1>1. [j \in 1 .. k - 1 |-> w[e[j]]] = [j \in 1 .. k - 1 |-> w[a[j]]]
  OBVIOUS
<1> QED  BY <1>1 DEF StartOf

\* Something starts where or behind where what is before it ends.
LEMMA StartGrows ==
  ASSUME NEW R, NEW w \in [R -> Nat], NEW e \in Seq(R)
  PROVE  /\ \A k \in 1 .. Len(e) + 1 : StartOf(w, e, k) \in Nat
         /\ \A j, k \in 1 .. Len(e) + 1 :
              j < k => StartOf(w, e, j) + w[e[j]] <= StartOf(w, e, k)
PROOF
<1> DEFINE S == {n \in Nat : n + 1 <= Len(e) + 1 =>
                   /\ \A j \in 1 .. n + 1 : StartOf(w, e, j) \in Nat
                   /\ \A j \in 1 .. n : StartOf(w, e, j) + w[e[j]] <= StartOf(w, e, n + 1)}
<1>1. Len(e) \in Nat /\ \A k \in 1 .. Len(e) : w[e[k]] \in Nat
  OBVIOUS
<1>2. 0 \in S
  <2>1. StartOf(w, e, 1) = 0
    BY StartNext, 1 \in Nat \ {0}
  <2> QED  BY <2>1
<1>3. ASSUME NEW n \in Nat, n \in S PROVE n + 1 \in S
  <2> SUFFICES ASSUME n + 1 + 1 <= Len(e) + 1
               PROVE  /\ \A j \in 1 .. n + 1 + 1 : StartOf(w, e, j) \in Nat
                      /\ \A j \in 1 .. n + 1 : StartOf(w, e, j) + w[e[j]] <= StartOf(w, e, n + 1 + 1)
    OBVIOUS
  <2>1. /\ \A j \in 1 .. n + 1 : StartOf(w, e, j) \in Nat
        /\ \A j \in 1 .. n : StartOf(w, e, j) + w[e[j]] <= StartOf(w, e, n + 1)
    BY <1>1, <1>3
  <2>2. StartOf(w, e, n + 1 + 1) = StartOf(w, e, n + 1) + w[e[n + 1]]
    BY StartNext, n + 1 \in Nat \ {0}
  <2>3. w[e[n + 1]] \in Nat /\ StartOf(w, e, n + 1) \in Nat
    BY <1>1, <2>1
  <2>4. ASSUME NEW j \in 1 .. n + 1 PROVE StartOf(w, e, j) + w[e[j]] <= StartOf(w, e, n + 1 + 1)
    <3>1. CASE j = n + 1
      BY <2>2, <2>3, <3>1
    <3>2. CASE j \in 1 .. n
      <4>1. w[e[j]] \in Nat /\ StartOf(w, e, j) \in Nat
        BY <1>1, <2>1, <3>2
      <4>2. StartOf(w, e, j) + w[e[j]] <= StartOf(w, e, n + 1)
        BY <2>1, <3>2
      <4> HIDE DEF S
      <4> QED  BY <2>2, <2>3, <4>1, <4>2
    <3> QED  BY <3>1, <3>2
  <2> QED  BY <2>1, <2>2, <2>3, <2>4
<1>4. \A n \in Nat : n \in S
  <2> HIDE DEF S
  <2> QED  BY <1>2, <1>3, SetInduction
<1>5. ASSUME NEW k \in 1 .. Len(e) + 1
      PROVE  /\ StartOf(w, e, k) \in Nat
             /\ \A j \in 1 .. k - 1 : StartOf(w, e, j) + w[e[j]] <= StartOf(w, e, k)
  <2>1. k - 1 \in Nat /\ k - 1 + 1 = k /\ k <= Len(e) + 1
    BY <1>1
  <2>2. k - 1 \in S
    BY <1>4, <2>1
  <2> QED  BY <2>1, <2>2
<1> QED  BY <1>1, <1>5

\* A list goes on with n things that take c each.
LEMMA GroupAdded ==
  ASSUME NEW R, NEW w \in [R -> Nat], NEW e \in Seq(R), NEW g \in Seq(R), NEW c \in Nat,
         \A k \in 1 .. Len(g) : w[g[k]] = c
  PROVE  LET a == e \o g
         IN  /\ a \in Seq(R)
             /\ Total(w, a) = Total(w, e) + Len(g) * c
             /\ \A x, st : Has(w, e, x, st) => Has(w, a, x, st)
             /\ \A k \in 1 .. Len(g) : Has(w, a, g[k], Total(w, e) + (k - 1) * c)
PROOF
<1> DEFINE a == e \o g
           l == Len(e)
           S == {n \in Nat : n <= Len(g) => StartOf(w, a, l + 1 + n) = Total(w, e) + n * c}
<1>1. /\ a \in Seq(R) /\ Len(a) = l + Len(g) /\ l \in Nat /\ Len(g) \in Nat
      /\ \A k \in 1 .. l : a[k] = e[k]
      /\ \A k \in 1 .. Len(g) : a[l + k] = g[k]
  OBVIOUS
<1> HIDE DEF a, l
<1>2. \A k \in 1 .. l + 1 : StartOf(w, a, k) = StartOf(w, e, k)
  <2> SUFFICES ASSUME NEW k \in 1 .. l + 1 PROVE StartOf(w, a, k) = StartOf(w, e, k)
    OBVIOUS
  <2>1. \A j \in 1 .. k - 1 : a[j] = e[j]
    BY <1>1
  <2> QED  BY <2>1, StartAgrees
<1>3. Total(w, e) \in Nat /\ Total(w, e) = StartOf(w, e, l + 1)
  <2>1. l + 1 \in 1 .. l + 1
    BY ONLY <1>1
  <2>2. \A k \in 1 .. l + 1 : StartOf(w, e, k) \in Nat
    BY ONLY w \in [R -> Nat], e \in Seq(R), StartGrows DEF l
  <2>3. StartOf(w, e, l + 1) \in Nat
    BY ONLY <2>1, <2>2
  <2>4. Total(w, e) = StartOf(w, e, l + 1)
    BY DEF Total, l
  <2> QED  BY ONLY <2>3, <2>4
<1>4. 0 \in S
  BY <1>1, <1>2, <1>3
<1>5. ASSUME NEW n \in Nat, n \in S PROVE n + 1 \in S
  <2> SUFFICES ASSUME n + 1 <= Len(g) PROVE StartOf(w, a, l + 1 + (n + 1)) = Total(w, e) + (n + 1) * c
    OBVIOUS
  <2>1. StartOf(w, a, l + 1 + n) = Total(w, e) + n * c
    BY <1>1, <1>5
  <2>2. l + 1 + n \in Nat \ {0} /\ l + 1 + n + 1 = l + 1 + (n + 1) /\ l + 1 + n = l + (n + 1)
        /\ n + 1 \in 1 .. Len(g)
    <3>1. l \in Nat /\ Len(g) \in Nat /\ n + 1 <= Len(g)
      BY <1>1
    <3> QED  BY ONLY <3>1, n \in Nat
  <2>3. StartOf(w, a, l + 1 + n + 1) = StartOf(w, a, l + 1 + n) + w[a[l + 1 + n]]
    BY <2>2, StartNext
  <2>4. w[a[l + 1 + n]] = c
    BY <1>1, <2>2
  <2>5. (n + 1) * c = n * c + c /\ n * c \in Nat
    OBVIOUS
  <2> HIDE DEF S
  <2> QED  BY <1>3, <2>1, <2>2, <2>3, <2>4, <2>5
<1>6. \A n \in Nat : n <= Len(g) => StartOf(w, a, l + 1 + n) = Total(w, e) + n * c
  <2>1. \A n \in Nat : n \in S
    <3> HIDE DEF S
    <3> QED  BY <1>4, <1>5, SetInduction
  <2> QED  BY <2>1
<1>7. Total(w, a) = Total(w, e) + Len(g) * c
  <2>1. Len(a) + 1 = l + 1 + Len(g)
    BY <1>1
  <2> QED  BY <1>1, <1>6, <2>1 DEF Total
<1>8. ASSUME NEW x, NEW st, Has(w, e, x, st) PROVE Has(w, a, x, st)
  <2>1. PICK k \in 1 .. l : e[k] = x /\ StartOf(w, e, k) = st
    BY <1>8 DEF Has, l
  <2>2. k \in 1 .. Len(a) /\ k \in 1 .. l + 1
    BY <1>1
  <2> QED  BY <1>1, <1>2, <2>1, <2>2 DEF Has
<1>9. ASSUME NEW k \in 1 .. Len(g) PROVE Has(w, a, g[k], Total(w, e) + (k - 1) * c)
  <2>1. l + k \in 1 .. Len(a) /\ k - 1 \in Nat /\ l + 1 + (k - 1) = l + k /\ k - 1 <= Len(g)
    BY <1>1, SMTT(20)
  <2>2. StartOf(w, a, l + k) = Total(w, e) + (k - 1) * c
    BY <1>6, <2>1
  <2> QED  BY <1>1, <2>1, <2>2 DEF Has
<1> QED  BY <1>1, <1>7, <1>8, <1>9 DEF a

\* The sum of the first k.
SumTo(s, k) == SumSeq(SubSeq(s, 1, k))

\* The sum of one more.
LEMMA SumTake ==
  ASSUME NEW s, s \in Seq(Int), NEW k \in 0 .. Len(s) - 1
  PROVE  SumTo(s, 0) = 0 /\ SumTo(s, k + 1) = SumTo(s, k) + s[k + 1]
PROOF
<1>1. /\ SubSeq(s, 1, 0) = [j \in 1 .. 0 |-> s[j]]
      /\ SubSeq(s, 1, k) = [j \in 1 .. k |-> s[j]]
      /\ SubSeq(s, 1, k + 1) = [j \in 1 .. k + 1 |-> s[j]]
  OBVIOUS
<1>2. k \in Nat
  OBVIOUS
<1>3. /\ SumSeq([j \in 1 .. 0 |-> s[j]]) = 0
      /\ SumSeq([j \in 1 .. k + 1 |-> s[j]]) = SumSeq([j \in 1 .. k |-> s[j]]) + s[k + 1]
  BY ONLY <1>2, SumNext
<1> QED  BY <1>1, <1>3 DEF SumTo

\* The entries of the lists of tensors, and what they take.
Kinds == {"embedding", "rms_att", "wq", "wk", "wv", "wo", "rms_ffn", "w1", "w2", "w3", "rms_final",
          "freq_cis_real", "freq_cis_imag", "wcls", "q_tokens"}
TensorName == (Kinds \X Nat) \cup {<<name>> : name \in Kinds}
Tensor == [name : TensorName, size : Nat]
Floats == [x \in Tensor |-> x.size]
T(name, size) == [name |-> name, size |-> size]

\* What is in the list e is in the list a, at the same place.
Keeps(w, e, a) == \A x, st : Has(w, e, x, st) => Has(w, a, x, st)

\* n tensors of a kind, or one: a is e and them.
Each(name, n, c) == [k \in 1 .. n |-> [name |-> <<name, k - 1>>, size |-> c]]
One(name, c) == <<[name |-> <<name>>, size |-> c]>>
Then(e, g) == e \o g

\* A list of tensors. The name keeps the provers from the theory of sequences.
IsList(e) == e \in Seq(Tensor)

\* The list a is e and n tensors of a kind, at the places behind e.
Added(e, a, name, n, c) ==
  /\ IsList(a) /\ Total(Floats, a) = Total(Floats, e) + n * c /\ Keeps(Floats, e, a)
  /\ \A l \in 0 .. n - 1 : Has(Floats, a, T(<<name, l>>, c), Total(Floats, e) + l * c)

\* The list a is e and a tensor, behind e.
AddedOne(e, a, name, c) ==
  /\ IsList(a) /\ Total(Floats, a) = Total(Floats, e) + c /\ Keeps(Floats, e, a)
  /\ Has(Floats, a, T(<<name>>, c), Total(Floats, e))

\* Exported's lists go on so: with the tensors of every layer,
LEMMA EachAdded ==
  ASSUME NEW e, e \in Seq(Tensor), NEW name \in Kinds, NEW n \in Nat, NEW c \in Nat
  PROVE  Added(e, Then(e, Each(name, n, c)), name, n, c)
PROOF
<1> DEFINE g == Each(name, n, c)
<1> USE DEF Each
<1>1. \A k \in 1 .. n : g[k] = T(<<name, k - 1>>, c)
  BY DEF T
<1>2. \A l \in 0 .. n - 1 : T(<<name, l>>, c) \in Tensor /\ Floats[T(<<name, l>>, c)] = c
  <2> SUFFICES ASSUME NEW l \in 0 .. n - 1
               PROVE  T(<<name, l>>, c) \in Tensor /\ Floats[T(<<name, l>>, c)] = c
    OBVIOUS
  <2>1. <<name, l>> \in TensorName
    <3>1. l \in Nat
      OBVIOUS
    <3>2. <<name, l>> \in Kinds \X Nat
      BY <3>1
    <3> QED  BY <3>2 DEF TensorName
  <2>2. T(<<name, l>>, c) \in Tensor /\ T(<<name, l>>, c).size = c
    BY <2>1 DEF T, Tensor
  <2> QED  BY <2>2 DEF Floats
<1>3. \A k \in 1 .. n : k - 1 \in 0 .. n - 1
  OBVIOUS
<1>4. g = [k \in 1 .. n |-> g[k]]
  OBVIOUS
<1> HIDE DEF g
<1>5. g \in Seq(Tensor) /\ Len(g) = n
  <2> DEFINE R == Tensor
  <2>1. \A k \in 1 .. n : g[k] \in R
    BY <1>1, <1>2, <1>3
  <2> HIDE DEF R
  <2> QED  BY <1>4, <2>1, SequenceOf DEF R
<1>6. Floats \in [Tensor -> Nat]
  BY DEF Floats, Tensor
<1>7. \A k \in 1 .. Len(g) : Floats[g[k]] = c
  BY <1>1, <1>2, <1>3, <1>5
<1> DEFINE a == e \o g
<1>8. /\ a \in Seq(Tensor)
      /\ Total(Floats, a) = Total(Floats, e) + Len(g) * c
      /\ \A x, st : Has(Floats, e, x, st) => Has(Floats, a, x, st)
      /\ \A k \in 1 .. Len(g) : Has(Floats, a, g[k], Total(Floats, e) + (k - 1) * c)
  BY <1>5, <1>6, <1>7, GroupAdded
<1> HIDE DEF a
<1>9. \A l \in 0 .. n - 1 : Has(Floats, a, T(<<name, l>>, c), Total(Floats, e) + l * c)
  <2> SUFFICES ASSUME NEW l \in 0 .. n - 1
               PROVE  Has(Floats, a, T(<<name, l>>, c), Total(Floats, e) + l * c)
    OBVIOUS
  <2>1. l + 1 \in 1 .. n /\ (l + 1) - 1 = l
    OBVIOUS
  <2>2. g[l + 1] = T(<<name, l>>, c)
    BY <1>1, <2>1
  <2> QED  BY <1>5, <1>8, <2>1, <2>2
<1>10. Keeps(Floats, e, a)
  BY <1>8 DEF Keeps
<1>11. a = Then(e, Each(name, n, c))
  BY DEF a, g, Then
<1> HIDE DEF Each
<1> QED  BY <1>5, <1>8, <1>9, <1>10, <1>11 DEF Added, IsList

\* and with one tensor.
LEMMA OneAdded ==
  ASSUME NEW e, e \in Seq(Tensor), NEW name \in Kinds, NEW c \in Nat
  PROVE  AddedOne(e, Then(e, One(name, c)), name, c)
PROOF
<1> DEFINE x == T(<<name>>, c)
           g == <<x>>
           a == e \o g
<1>1. x \in Tensor /\ Floats[x] = c
  <2>1. <<name>> \in TensorName
    BY DEF TensorName
  <2>2. x \in Tensor /\ x.size = c
    BY <2>1 DEF T, Tensor
  <2> QED  BY <2>2 DEF Floats
<1>2. Floats \in [Tensor -> Nat]
  BY DEF Floats, Tensor
<1> HIDE DEF x
<1>3. g \in Seq(Tensor) /\ Len(g) = 1 /\ g[1] = x /\ 1 \in 1 .. Len(g)
  <2> DEFINE R == Tensor
  <2> HIDE DEF R
  <2>1. x \in R
    BY <1>1 DEF R
  <2>2. g \in Seq(R) /\ Len(g) = 1 /\ g[1] = x
    BY <2>1
  <2> QED  BY <2>2 DEF R
<1>4. \A k \in 1 .. Len(g) : Floats[g[k]] = c
  BY <1>1, <1>3
<1> HIDE DEF g
<1>5. /\ a \in Seq(Tensor)
      /\ Total(Floats, a) = Total(Floats, e) + Len(g) * c
      /\ \A y, st : Has(Floats, e, y, st) => Has(Floats, a, y, st)
      /\ \A k \in 1 .. Len(g) : Has(Floats, a, g[k], Total(Floats, e) + (k - 1) * c)
  BY <1>2, <1>3, <1>4, GroupAdded
<1>6. Total(Floats, e) \in Nat
  <2>1. Len(e) + 1 \in 1 .. Len(e) + 1
    OBVIOUS
  <2> QED  BY <1>2, <2>1, StartGrows DEF Total
<1>7. Has(Floats, a, g[1], Total(Floats, e) + (1 - 1) * c)
  BY <1>3, <1>5
<1>8. Total(Floats, e) + (1 - 1) * c = Total(Floats, e) /\ 1 * c = c
  BY <1>6
<1> HIDE DEF a
<1>9. Keeps(Floats, e, a)
  BY <1>5 DEF Keeps
<1>10. a = Then(e, One(name, c))
  BY DEF a, g, x, T, One, Then
<1>11. Has(Floats, a, T(<<name>>, c), Total(Floats, e))
  BY <1>3, <1>7, <1>8 DEF x
<1> QED  BY <1>3, <1>5, <1>8, <1>9, <1>10, <1>11 DEF AddedOne, IsList

\* Both, in one formula for the provers.
LEMMA ListAdded ==
  \A e, name, n, c : IsList(e) /\ name \in Kinds /\ n \in Nat /\ c \in Nat =>
    /\ Added(e, Then(e, Each(name, n, c)), name, n, c)
    /\ AddedOne(e, Then(e, One(name, c)), name, c)
PROOF
<1> SUFFICES ASSUME NEW e, e \in Seq(Tensor), NEW name \in Kinds, NEW n \in Nat, NEW c \in Nat
             PROVE  /\ Added(e, Then(e, Each(name, n, c)), name, n, c)
                    /\ AddedOne(e, Then(e, One(name, c)), name, c)
  BY DEF IsList
<1>1. Added(e, Then(e, Each(name, n, c)), name, n, c)
  BY EachAdded
<1>2. AddedOne(e, Then(e, One(name, c)), name, c)
  BY OneAdded
<1> QED  BY <1>1, <1>2

\* The list that a file starts from.
LEMMA NoTensors == <<>> \in Seq(Tensor) /\ Total(Floats, <<>>) = 0
PROOF
<1>1. Len(<<>>) + 1 = 1 /\ 1 \in Nat \ {0}
  OBVIOUS
<1> QED  BY <1>1, StartNext DEF Total

\* Two places with something at them are told apart by where they start.
LEMMA StartsDiffer ==
  ASSUME NEW R, NEW w \in [R -> Nat], NEW e \in Seq(R),
         NEW j \in 1 .. Len(e), NEW k \in 1 .. Len(e), w[e[j]] > 0, w[e[k]] > 0,
         StartOf(w, e, j) = StartOf(w, e, k)
  PROVE  j = k
PROOF
<1>1. Len(e) \in Nat /\ w[e[j]] \in Nat /\ w[e[k]] \in Nat
  OBVIOUS
<1>2. j \in 1 .. Len(e) + 1 /\ k \in 1 .. Len(e) + 1
  BY <1>1
<1>3. StartOf(w, e, j) \in Nat /\ StartOf(w, e, k) \in Nat
  BY <1>2, StartGrows
<1>4. j < k => StartOf(w, e, j) + w[e[j]] <= StartOf(w, e, k)
  BY <1>2, StartGrows
<1>5. k < j => StartOf(w, e, k) + w[e[k]] <= StartOf(w, e, j)
  BY <1>2, StartGrows
<1> QED  BY <1>1, <1>2, <1>3, <1>4, <1>5

\* What the file says of its tensors.
LEMMA FileIs ==
  ASSUME NEW p, Exported(p) \in Seq(Tensor)
  PROVE  LET e == Exported(p)
             file == TensorStarts(p)
         IN  /\ DOMAIN file = 1 .. Len(e) /\ Len(e) \in Nat /\ Floats \in [Tensor -> Nat]
             /\ \A k \in 1 .. Len(e) :
                  /\ file[k].name = e[k].name /\ file[k].size = e[k].size
                  /\ file[k].start = StartOf(Floats, e, k) /\ Floats[e[k]] = e[k].size
PROOF
<1> DEFINE e == Exported(p)
           file == TensorStarts(p)
<1>1. Floats \in [Tensor -> Nat]
  BY DEF Floats, Tensor
<1>2. e \in Seq(Tensor) /\ DOMAIN e = 1 .. Len(e) /\ Len(e) \in Nat
  <2> DEFINE R == Tensor
  <2> HIDE DEF R, e
  <2>1. e \in Seq(R)
    BY DEF R, e
  <2>2. DOMAIN e = 1 .. Len(e) /\ Len(e) \in Nat
    BY <2>1
  <2> QED  BY <2>1, <2>2 DEF R
<1>3. /\ DOMAIN file = 1 .. Len(e)
      /\ \A k \in 1 .. Len(e) : /\ file[k].name = e[k].name /\ file[k].size = e[k].size
                                /\ file[k].start = SumSeq([j \in 1 .. k - 1 |-> e[j].size])
  BY <1>2 DEF TensorStarts
<1> HIDE DEF e, file
<1>4. \A k \in 1 .. Len(e) : e[k] \in Tensor /\ Floats[e[k]] = e[k].size
  <2>1. \A k \in 1 .. Len(e) : e[k] \in Tensor
    <3> DEFINE R == Tensor
    <3> HIDE DEF R
    <3>1. e \in Seq(R)
      BY <1>2 DEF R
    <3>2. \A k \in 1 .. Len(e) : e[k] \in R
      BY <3>1
    <3> QED  BY <3>2 DEF R
  <2> QED  BY <2>1 DEF Floats
<1>5. \A k \in 1 .. Len(e) : file[k].start = StartOf(Floats, e, k)
  <2> SUFFICES ASSUME NEW k \in 1 .. Len(e) PROVE file[k].start = StartOf(Floats, e, k)
    OBVIOUS
  <2>1. \A j \in 1 .. k - 1 : j \in 1 .. Len(e)
    BY <1>2
  <2>2. [j \in 1 .. k - 1 |-> e[j].size] = [j \in 1 .. k - 1 |-> Floats[e[j]]]
    BY <1>4, <2>1
  <2> QED  BY <1>3, <2>2 DEF StartOf
<1>6. \A k \in 1 .. Len(e) : file[k].name = e[k].name /\ file[k].size = e[k].size
  BY <1>3
<1>7. DOMAIN file = 1 .. Len(e)
  BY <1>3
<1> QED  BY <1>1, <1>2, <1>4, <1>5, <1>6, <1>7 DEF e, file

\* The tensor found at a place and of a size is the one of the list that is there.
LEMMA SlabIs ==
  ASSUME NEW p, Exported(p) \in Seq(Tensor), NEW name, NEW size \in Nat \ {0}, NEW st,
         Has(Floats, Exported(p), T(name, size), st)
  PROVE  Slab(TensorStarts(p), st, size) = name
PROOF
<1> DEFINE e == Exported(p)
           file == TensorStarts(p)
           whole == {k \in DOMAIN file : file[k].start = st /\ file[k].size = size}
<1>1. /\ DOMAIN file = 1 .. Len(e) /\ Len(e) \in Nat /\ Floats \in [Tensor -> Nat]
      /\ \A k \in 1 .. Len(e) :
           /\ file[k].name = e[k].name /\ file[k].size = e[k].size
           /\ file[k].start = StartOf(Floats, e, k) /\ Floats[e[k]] = e[k].size
  BY FileIs
<1>2. e \in Seq(Tensor)
  OBVIOUS
<1> HIDE DEF e, file
<1>7. PICK k \in 1 .. Len(e) : e[k] = T(name, size) /\ StartOf(Floats, e, k) = st
  BY DEF Has, e
<1>8. e[k].name = name /\ e[k].size = size
  BY <1>7 DEF T
<1>9. file[k].name = name /\ file[k].size = size /\ file[k].start = st
  BY <1>1, <1>7, <1>8
<1>11. k \in whole
  BY <1>1, <1>9
<1>12. \A j \in whole : j = k
  <2> SUFFICES ASSUME NEW j \in DOMAIN file, file[j].start = st, file[j].size = size PROVE j = k
    OBVIOUS
  <2>1. j \in 1 .. Len(e)
    BY <1>1
  <2>2. StartOf(Floats, e, j) = StartOf(Floats, e, k)
    BY <1>1, <1>7, <2>1
  <2>4. Floats[e[j]] > 0 /\ Floats[e[k]] > 0
    BY <1>1, <1>8, <2>1
  <2>5. Floats \in [Tensor -> Nat]
    BY <1>1
  <2> QED  BY ONLY <1>2, <2>1, <2>2, <2>4, <2>5, k \in 1 .. Len(e), StartsDiffer
<1> HIDE DEF whole
<1>13. (CHOOSE j \in whole : TRUE) = k
  BY <1>11, <1>12
<1> QED  BY <1>9, <1>11, <1>13 DEF Slab, whole, file

\* Where a tensor starts there is none of another size.
LEMMA NoSlab ==
  ASSUME NEW p, Exported(p) \in Seq(Tensor), NEW name, NEW c \in Nat \ {0}, NEW size \in Nat \ {0},
         NEW st, Has(Floats, Exported(p), T(name, c), st), size # c
  PROVE  {k \in DOMAIN TensorStarts(p) :
            TensorStarts(p)[k].start = st /\ TensorStarts(p)[k].size = size} = {}
PROOF
<1> DEFINE e == Exported(p)
           file == TensorStarts(p)
<1>1. /\ DOMAIN file = 1 .. Len(e) /\ Len(e) \in Nat /\ Floats \in [Tensor -> Nat]
      /\ \A k \in 1 .. Len(e) :
           /\ file[k].name = e[k].name /\ file[k].size = e[k].size
           /\ file[k].start = StartOf(Floats, e, k) /\ Floats[e[k]] = e[k].size
  BY FileIs
<1>2. e \in Seq(Tensor)
  OBVIOUS
<1> HIDE DEF e, file
<1>3. PICK k \in 1 .. Len(e) : e[k] = T(name, c) /\ StartOf(Floats, e, k) = st
  BY DEF Has, e
<1>4. e[k].size = c
  BY <1>3 DEF T
<1> SUFFICES ASSUME NEW j \in DOMAIN file, file[j].start = st, file[j].size = size PROVE FALSE
  BY DEF file
<1>5. j \in 1 .. Len(e)
  BY <1>1
<1>6. StartOf(Floats, e, j) = StartOf(Floats, e, k)
  BY <1>1, <1>3, <1>5
<1>7. Floats[e[j]] > 0 /\ Floats[e[k]] > 0
  BY <1>1, <1>4, <1>5
<1>8. Floats \in [Tensor -> Nat]
  BY <1>1
<1>9. j = k
  BY ONLY <1>2, <1>5, <1>6, <1>7, <1>8, k \in 1 .. Len(e), StartsDiffer
<1> QED  BY <1>1, <1>4, <1>5, <1>9

\* The shape of a model.
Shaped(p) ==
  /\ p \in Config
  /\ p.dim > 0 /\ p.hidden_dim > 0 /\ p.n_layers > 0 /\ p.seq_len > 0
  /\ p.n_heads > 0 /\ p.dim % p.n_heads = 0
  /\ p.n_kv_heads > 0 /\ p.n_heads % p.n_kv_heads = 0

\* A division without remainder, undone.
LEMMA Quotient ==
  ASSUME NEW a \in Nat \ {0}, NEW b \in Nat \ {0}, a % b = 0
  PROVE  a \div b \in Nat \ {0} /\ a = b * (a \div b)
PROOF
<1> DEFINE q == a \div b
<1>1. q \in Int /\ a = (b * q) + (a % b)
  OBVIOUS
<1>2. a = b * q
  BY <1>1
<1> HIDE DEF q
<1>3. q > 0
  <2>1. SUFFICES ASSUME q <= 0 PROVE FALSE
    BY <1>1
  <2>2. b * q <= 0
    BY <1>1, <2>1
  <2> QED  BY <1>2, <2>2
<1> QED  BY <1>1, <1>2, <1>3 DEF q

\* A product, divided.
LEMMA QuotientOf ==
  ASSUME NEW b \in Nat \ {0}, NEW q \in Nat
  PROVE  (b * q) \div b = q /\ (q * b) \div b = q /\ (q * b) % b = 0
PROOF
<1> DEFINE a == q * b
           d == a \div b
           r == a % b
<1>1. a \in Nat /\ a = b * q
  OBVIOUS
<1> HIDE DEF a
<1>2. d \in Int /\ a = b * d + r /\ r \in 0 .. b - 1
  BY <1>1
<1> HIDE DEF d, r
<1>3. b * (q - d) = r
  BY <1>1, <1>2
<1>4. q - d = 0
  <2> DEFINE x == q - d
  <2>1. x \in Int /\ b * x = r
    BY <1>2, <1>3
  <2> HIDE DEF x
  <2>2. ~(x >= 1)
    <3>1. SUFFICES ASSUME x >= 1 PROVE FALSE
      OBVIOUS
    <3>2. b * x >= b
      BY <2>1, <3>1
    <3> QED  BY <1>2, <2>1, <3>2
  <2>3. ~(x <= -1)
    <3>1. SUFFICES ASSUME x <= -1 PROVE FALSE
      OBVIOUS
    <3>2. b * x <= -b
      BY <2>1, <3>1
    <3> QED  BY <1>2, <2>1, <3>2
  <2>4. x = 0
    BY <2>1, <2>2, <2>3
  <2> QED  BY <2>4 DEF x
<1>5. d = q /\ r = 0
  BY <1>2, <1>3, <1>4
<1> QED  BY <1>1, <1>5 DEF a, d, r

\* Heads, key-value heads and their groups divide a model's dimensions.
LEMMA ShapeFacts ==
  ASSUME NEW p, Shaped(p)
  PROVE  /\ p.dim \in Nat \ {0} /\ p.hidden_dim \in Nat \ {0} /\ p.n_layers \in Nat \ {0}
         /\ p.seq_len \in Nat \ {0} /\ p.n_heads \in Nat \ {0} /\ p.n_kv_heads \in Nat \ {0}
         /\ head_size(p) \in Nat \ {0} /\ p.dim = p.n_heads * head_size(p)
         /\ kv_dim(p) \in Nat \ {0} /\ kv_dim(p) = p.n_kv_heads * head_size(p)
         /\ kv_mul(p) \in Nat \ {0} /\ p.n_heads = p.n_kv_heads * kv_mul(p)
         /\ p.vocab_size \in Int
PROOF
<1> DEFINE d == p.dim
           n == p.n_heads
           k == p.n_kv_heads
           hs == head_size(p)
           mul == kv_mul(p)
<1>1. /\ d \in Nat \ {0} /\ p.hidden_dim \in Nat \ {0} /\ p.n_layers \in Nat \ {0}
      /\ p.seq_len \in Nat \ {0} /\ n \in Nat \ {0} /\ k \in Nat \ {0} /\ p.vocab_size \in Int
      /\ d % n = 0 /\ n % k = 0
  BY DEF Shaped, Config
<1>2. hs = d \div n /\ mul = n \div k /\ kv_dim(p) = (d * k) \div n
  BY DEF head_size, kv_mul, kv_dim
<1> HIDE DEF d, n, k, hs, mul
<1>3. hs \in Nat \ {0} /\ d = n * hs
  BY <1>1, <1>2, Quotient
<1>4. mul \in Nat \ {0} /\ n = k * mul
  BY <1>1, <1>2, Quotient
<1>5. kv_dim(p) = k * hs
  <2>1. d * k = n * (k * hs) /\ k * hs \in Nat
    BY <1>1, <1>3
  <2>2. (n * (k * hs)) \div n = k * hs
    BY <1>1, <2>1, QuotientOf
  <2> QED  BY <1>2, <2>1, <2>2
<1>6. k * hs \in Nat \ {0}
  BY <1>1, <1>3
<1> QED  BY <1>1, <1>3, <1>4, <1>5, <1>6 DEF d, n, k, hs, mul

\* n tensors of a kind are one behind the other from st on.
Placed(a, name, n, c, st) == \A l \in 0 .. n - 1 : Has(Floats, a, T(<<name, l>>, c), st + l * c)
PlacedOne(a, name, c, st) == Has(Floats, a, T(<<name>>, c), st)

\* What is put in the list has its place in the whole.
LEMMA AddedPlaced ==
  \A e, a, z, name, n, c, st : Keeps(Floats, a, z) /\ Total(Floats, e) = st =>
    /\ Added(e, a, name, n, c) => Placed(z, name, n, c, st)
    /\ AddedOne(e, a, name, c) => PlacedOne(z, name, c, st)
PROOF
<1> SUFFICES ASSUME NEW e, NEW a, NEW z, NEW name, NEW n, NEW c, NEW st,
                    Keeps(Floats, a, z), Total(Floats, e) = st
             PROVE  /\ Added(e, a, name, n, c) => Placed(z, name, n, c, st)
                    /\ AddedOne(e, a, name, c) => PlacedOne(z, name, c, st)
  OBVIOUS
<1>1. Added(e, a, name, n, c) => Placed(z, name, n, c, st)
  BY DEF Added, Placed, Keeps
<1>2. AddedOne(e, a, name, c) => PlacedOne(z, name, c, st)
  BY DEF AddedOne, PlacedOne, Keeps
<1> QED  BY <1>1, <1>2

\* Every tensor of the file is where MapWeights puts it.
LEMMA FileLayout ==
  ASSUME NEW p, Shaped(p)
  PROVE  LET e == Exported(p)
             m == MapWeights(p)
             hs == head_size(p)
             d == p.dim
             h == p.hidden_dim
             n == Abs(p.vocab_size)
             L == p.n_layers
         IN  /\ e \in Seq(Tensor)
             /\ Placed(e, "embedding", n, d, m.token_embedding_table)
             /\ Placed(e, "rms_att", L, d, m.rms_att_weight)
             /\ Placed(e, "wq", L, d * p.n_heads * hs, m.wq)
             /\ Placed(e, "wk", L, d * p.n_kv_heads * hs, m.wk)
             /\ Placed(e, "wv", L, d * p.n_kv_heads * hs, m.wv)
             /\ Placed(e, "wo", L, p.n_heads * hs * d, m.wo)
             /\ Placed(e, "rms_ffn", L, d, m.rms_ffn_weight)
             /\ Placed(e, "w1", L, d * h, m.w1)
             /\ Placed(e, "w2", L, h * d, m.w2)
             /\ Placed(e, "w3", L, d * h, m.w3)
             /\ PlacedOne(e, "rms_final", d, m.rms_final_weight)
             /\ p.vocab_size < 0 => PlacedOne(e, "wcls", n * d, m.wcls)
             /\ m.token_embedding_table = 0
             /\ p.vocab_size > 0 => m.wcls = 0
PROOF
<1> DEFINE d == p.dim
           h == p.hidden_dim
           L == p.n_layers
           hs == head_size(p)
           n == Abs(p.vocab_size)
           cq == d * p.n_heads * hs
           ck == d * p.n_kv_heads * hs
           co == p.n_heads * hs * d
           cf == (p.seq_len * hs) \div 2
           e0 == Each("embedding", n, d)
           e1 == Then(e0, Each("rms_att", L, d))
           e2 == Then(e1, Each("wq", L, cq))
           e3 == Then(e2, Each("wk", L, ck))
           e4 == Then(e3, Each("wv", L, ck))
           e5 == Then(e4, Each("wo", L, co))
           e6 == Then(e5, Each("rms_ffn", L, d))
           e7 == Then(e6, Each("w1", L, d * h))
           e8 == Then(e7, Each("w2", L, h * d))
           e9 == Then(e8, Each("w3", L, d * h))
           e10 == Then(e9, One("rms_final", d))
           e11 == Then(e10, One("freq_cis_real", cf))
           e12 == Then(e11, One("freq_cis_imag", cf))
           e13 == Then(e12, IF p.vocab_size < 0 THEN One("wcls", n * d) ELSE <<>>)
           W == Floats
<1>1. Exported(p) = e13
  BY DEF Exported, Each, One, Then
<1>2. /\ d \in Nat /\ h \in Nat /\ L \in Nat /\ n \in Nat /\ cq \in Nat /\ ck \in Nat /\ co \in Nat
      /\ d * h \in Nat /\ h * d \in Nat /\ n * d \in Nat
      /\ hs \in Nat /\ p.n_heads \in Nat /\ p.n_kv_heads \in Nat
  BY ShapeFacts DEF Abs
<1>3. cf \in Nat
  <2>1. p.seq_len * hs \in Nat
    BY ShapeFacts
  <2> HIDE DEF hs
  <2> QED  BY <2>1
<1> DEFINE s == <<n * d, L * d, L * cq, L * ck, L * ck, L * co, L * d,
                  L * (d * h), L * (h * d), L * (d * h), d, cf, cf>>
           m == MapWeights(p)
           before(k) == SumTo(s, k)
<1>4. /\ m.token_embedding_table = 0 /\ m.rms_att_weight = before(1) /\ m.wq = before(2)
      /\ m.wk = before(3) /\ m.wv = before(4) /\ m.wo = before(5) /\ m.rms_ffn_weight = before(6)
      /\ m.w1 = before(7) /\ m.w2 = before(8) /\ m.w3 = before(9) /\ m.rms_final_weight = before(10)
      /\ p.vocab_size < 0 => m.wcls = before(13)
      /\ p.vocab_size > 0 => m.wcls = 0
  <2> DEFINE z == <<n * d, L * d, L * d * (p.n_heads * hs), L * d * (p.n_kv_heads * hs),
                    L * d * (p.n_kv_heads * hs), L * (p.n_heads * hs) * d, L * d,
                    L * d * h, L * h * d, L * d * h, d, cf, cf>>
             behind(k) == SumTo(z, k)
  <2>1. m = [token_embedding_table |-> 0, rms_att_weight |-> behind(1), wq |-> behind(2),
             wk |-> behind(3), wv |-> behind(4), wo |-> behind(5), rms_ffn_weight |-> behind(6),
             w1 |-> behind(7), w2 |-> behind(8), w3 |-> behind(9), rms_final_weight |-> behind(10),
             wcls |-> IF p.vocab_size > 0 THEN 0 ELSE behind(13)]
    BY DEF MapWeights, SumTo
  <2>2. /\ L * d * (p.n_heads * hs) = L * cq /\ L * d * (p.n_kv_heads * hs) = L * ck
        /\ L * (p.n_heads * hs) * d = L * co /\ L * d * h = L * (d * h) /\ L * h * d = L * (h * d)
    <3> HIDE DEF d, h, L, hs
    <3> QED  BY <1>2
  <2>3. z = s
    BY <2>2
  <2>4. p.vocab_size < 0 => ~(p.vocab_size > 0)
    BY ShapeFacts
  <2> HIDE DEF z, s, m
  <2> QED  BY <2>1, <2>3, <2>4
<1>5. s \in Seq(Int) /\ Len(s) = 13
  <2> HIDE DEF d, h, L, hs, n, cq, ck, co, cf
  <2>1. /\ n * d \in Int /\ L * d \in Int /\ L * cq \in Int /\ L * ck \in Int /\ L * co \in Int
        /\ L * (d * h) \in Int /\ L * (h * d) \in Int /\ d \in Int /\ cf \in Int
    BY <1>2, <1>3
  <2> QED  BY <2>1
<1> HIDE DEF m
<1>6. /\ s[1] = n * d /\ s[2] = L * d /\ s[3] = L * cq /\ s[4] = L * ck /\ s[5] = L * ck /\ s[6] = L * co
      /\ s[7] = L * d /\ s[8] = L * (d * h) /\ s[9] = L * (h * d) /\ s[10] = L * (d * h)
      /\ s[11] = d /\ s[12] = cf /\ s[13] = cf
  OBVIOUS
<1> HIDE DEF s
<1>7. /\ before(0) = 0 /\ before(1) = before(0) + s[1] /\ before(2) = before(1) + s[2]
      /\ before(3) = before(2) + s[3] /\ before(4) = before(3) + s[4] /\ before(5) = before(4) + s[5]
      /\ before(6) = before(5) + s[6] /\ before(7) = before(6) + s[7] /\ before(8) = before(7) + s[8]
      /\ before(9) = before(8) + s[9] /\ before(10) = before(9) + s[10]
      /\ before(11) = before(10) + s[11] /\ before(12) = before(11) + s[12]
      /\ before(13) = before(12) + s[13]
  <2>1. \A k \in 0 .. 12 : before(0) = 0 /\ before(k + 1) = before(k) + s[k + 1]
    <3> SUFFICES ASSUME NEW k \in 0 .. 12
                 PROVE  before(0) = 0 /\ before(k + 1) = before(k) + s[k + 1]
      OBVIOUS
    <3>1. k \in 0 .. Len(s) - 1
      BY <1>5
    <3> QED  BY ONLY <1>5, <3>1, SumTake
  <2>2. /\ 0 + 1 = 1 /\ 1 + 1 = 2 /\ 2 + 1 = 3 /\ 3 + 1 = 4 /\ 4 + 1 = 5 /\ 5 + 1 = 6 /\ 6 + 1 = 7
        /\ 7 + 1 = 8 /\ 8 + 1 = 9 /\ 9 + 1 = 10 /\ 10 + 1 = 11 /\ 11 + 1 = 12 /\ 12 + 1 = 13
    OBVIOUS
  <2> HIDE DEF before
  <2> QED  BY <2>1, <2>2
<1> HIDE DEF before
<1> HIDE DEF d, h, L, hs, n, cq, ck, co, cf
<1> DEFINE IsKind(name) == name \in Kinds
<1>k. /\ IsKind("embedding") /\ IsKind("rms_att") /\ IsKind("wq") /\ IsKind("wk") /\ IsKind("wv")
      /\ IsKind("wo") /\ IsKind("rms_ffn") /\ IsKind("w1") /\ IsKind("w2") /\ IsKind("w3")
      /\ IsKind("rms_final") /\ IsKind("freq_cis_real") /\ IsKind("freq_cis_imag") /\ IsKind("wcls")
  BY DEF Kinds
<1>l. \A e, name, m_, c : IsList(e) /\ IsKind(name) /\ m_ \in Nat /\ c \in Nat =>
        /\ Added(e, Then(e, Each(name, m_, c)), name, m_, c)
        /\ AddedOne(e, Then(e, One(name, c)), name, c)
  BY ListAdded
<1> HIDE DEF IsKind
<1>8. Added(<<>>, e0, "embedding", n, d)
  <2>1. Then(<<>>, e0) = e0
    BY DEF Each, Then
  <2>2. Added(<<>>, Then(<<>>, e0), "embedding", n, d)
    BY <1>2, <1>k, <1>l, NoTensors DEF IsList
  <2> QED  BY <2>1, <2>2
<1>9. IsList(e0)
  BY <1>8 DEF Added
<1> HIDE DEF e0
<1>10. Added(e0, e1, "rms_att", L, d) /\ IsList(e1)
  <2>1. Added(e0, e1, "rms_att", L, d)
    BY <1>2, <1>9, <1>k, <1>l
  <2> QED  BY <2>1 DEF Added
<1> HIDE DEF e1
<1>11. Added(e1, e2, "wq", L, cq) /\ IsList(e2)
  <2>1. Added(e1, e2, "wq", L, cq)
    BY <1>2, <1>10, <1>k, <1>l
  <2> QED  BY <2>1 DEF Added
<1> HIDE DEF e2
<1>12. Added(e2, e3, "wk", L, ck) /\ IsList(e3)
  <2>1. Added(e2, e3, "wk", L, ck)
    BY <1>2, <1>11, <1>k, <1>l
  <2> QED  BY <2>1 DEF Added
<1> HIDE DEF e3
<1>13. Added(e3, e4, "wv", L, ck) /\ IsList(e4)
  <2>1. Added(e3, e4, "wv", L, ck)
    BY <1>2, <1>12, <1>k, <1>l
  <2> QED  BY <2>1 DEF Added
<1> HIDE DEF e4
<1>14. Added(e4, e5, "wo", L, co) /\ IsList(e5)
  <2>1. Added(e4, e5, "wo", L, co)
    BY <1>2, <1>13, <1>k, <1>l
  <2> QED  BY <2>1 DEF Added
<1> HIDE DEF e5
<1>15. Added(e5, e6, "rms_ffn", L, d) /\ IsList(e6)
  <2>1. Added(e5, e6, "rms_ffn", L, d)
    BY <1>2, <1>14, <1>k, <1>l
  <2> QED  BY <2>1 DEF Added
<1> HIDE DEF e6
<1>16. Added(e6, e7, "w1", L, d * h) /\ IsList(e7)
  <2>1. Added(e6, e7, "w1", L, d * h)
    BY <1>2, <1>15, <1>k, <1>l
  <2> QED  BY <2>1 DEF Added
<1> HIDE DEF e7
<1>17. Added(e7, e8, "w2", L, h * d) /\ IsList(e8)
  <2>1. Added(e7, e8, "w2", L, h * d)
    BY <1>2, <1>16, <1>k, <1>l
  <2> QED  BY <2>1 DEF Added
<1> HIDE DEF e8
<1>18. Added(e8, e9, "w3", L, d * h) /\ IsList(e9)
  <2>1. Added(e8, e9, "w3", L, d * h)
    BY <1>2, <1>17, <1>k, <1>l
  <2> QED  BY <2>1 DEF Added
<1> HIDE DEF e9
<1>19. AddedOne(e9, e10, "rms_final", d) /\ IsList(e10)
  <2>1. AddedOne(e9, e10, "rms_final", d)
    BY <1>2, <1>18, <1>k, <1>l
  <2> QED  BY <2>1 DEF AddedOne
<1> HIDE DEF e10
<1>20. AddedOne(e10, e11, "freq_cis_real", cf) /\ IsList(e11)
  <2>1. AddedOne(e10, e11, "freq_cis_real", cf)
    BY <1>2, <1>3, <1>19, <1>k, <1>l
  <2> QED  BY <2>1 DEF AddedOne
<1> HIDE DEF e11
<1>21. AddedOne(e11, e12, "freq_cis_imag", cf) /\ IsList(e12)
  <2>1. AddedOne(e11, e12, "freq_cis_imag", cf)
    BY <1>2, <1>3, <1>20, <1>k, <1>l
  <2> QED  BY <2>1 DEF AddedOne
<1> HIDE DEF e12
<1>22. /\ IsList(e13) /\ Keeps(W, e12, e13)
       /\ p.vocab_size < 0 => Has(W, e13, T(<<"wcls">>, n * d), Total(W, e12))
  <2>1. CASE p.vocab_size < 0
    <3>1. AddedOne(e12, Then(e12, One("wcls", n * d)), "wcls", n * d)
      BY <1>2, <1>21, <1>k, <1>l
    <3> QED  BY <2>1, <3>1 DEF AddedOne
  <2>2. CASE ~(p.vocab_size < 0)
    <3>1. e13 = e12
      <4> DEFINE R == Tensor
      <4> HIDE DEF R
      <4>1. e12 \in Seq(R)
        BY <1>21 DEF R, IsList
      <4>2. e13 = e12 \o <<>>
        BY <2>2 DEF Then
      <4>3. e12 \o <<>> = e12
        BY <4>1
      <4> QED  BY <4>2, <4>3
    <3> QED  BY <1>21, <2>2, <3>1 DEF Keeps
  <2> QED  BY <2>1, <2>2
<1> HIDE DEF e13, W
<1>23. /\ Keeps(W, e11, e13) /\ Keeps(W, e10, e13) /\ Keeps(W, e9, e13) /\ Keeps(W, e8, e13)
       /\ Keeps(W, e7, e13) /\ Keeps(W, e6, e13) /\ Keeps(W, e5, e13) /\ Keeps(W, e4, e13)
       /\ Keeps(W, e3, e13) /\ Keeps(W, e2, e13) /\ Keeps(W, e1, e13) /\ Keeps(W, e0, e13)
  <2>1. \A a, b, c : Keeps(W, a, b) /\ Keeps(W, b, c) => Keeps(W, a, c)
    BY DEF Keeps
  <2>2. /\ Keeps(W, e0, e1) /\ Keeps(W, e1, e2) /\ Keeps(W, e2, e3) /\ Keeps(W, e3, e4)
        /\ Keeps(W, e4, e5) /\ Keeps(W, e5, e6) /\ Keeps(W, e6, e7) /\ Keeps(W, e7, e8)
        /\ Keeps(W, e8, e9)
    BY <1>10, <1>11, <1>12, <1>13, <1>14, <1>15, <1>16, <1>17, <1>18 DEF Added, W
  <2>3. /\ Keeps(W, e9, e10) /\ Keeps(W, e10, e11) /\ Keeps(W, e11, e12)
    BY <1>19, <1>20, <1>21 DEF AddedOne, W
  <2> QED  BY <1>22, <2>1, <2>2, <2>3
<1>24. /\ Total(W, e0) = before(1) /\ Total(W, e1) = before(2) /\ Total(W, e2) = before(3)
       /\ Total(W, e3) = before(4) /\ Total(W, e4) = before(5) /\ Total(W, e5) = before(6)
       /\ Total(W, e6) = before(7) /\ Total(W, e7) = before(8) /\ Total(W, e8) = before(9)
       /\ Total(W, e9) = before(10) /\ Total(W, e12) = before(13)
  <2>1. /\ Total(W, e0) = 0 + n * d
        /\ Total(W, e1) = Total(W, e0) + L * d /\ Total(W, e2) = Total(W, e1) + L * cq
        /\ Total(W, e3) = Total(W, e2) + L * ck /\ Total(W, e4) = Total(W, e3) + L * ck
        /\ Total(W, e5) = Total(W, e4) + L * co /\ Total(W, e6) = Total(W, e5) + L * d
        /\ Total(W, e7) = Total(W, e6) + L * (d * h) /\ Total(W, e8) = Total(W, e7) + L * (h * d)
        /\ Total(W, e9) = Total(W, e8) + L * (d * h)
    BY NoTensors, <1>8, <1>10, <1>11, <1>12, <1>13, <1>14, <1>15, <1>16, <1>17, <1>18 DEF Added, W
  <2>2. /\ Total(W, e10) = Total(W, e9) + d /\ Total(W, e11) = Total(W, e10) + cf
        /\ Total(W, e12) = Total(W, e11) + cf
    BY <1>19, <1>20, <1>21 DEF AddedOne, W
  <2> QED  BY <1>6, <1>7, <2>1, <2>2
<1>25. Keeps(W, e13, e13)
  BY DEF Keeps
<1>26. Total(W, <<>>) = 0
  BY NoTensors DEF W
<1> HIDE DEF m
<1>27. Placed(e13, "embedding", n, d, 0)
  BY <1>8, <1>23, <1>26, AddedPlaced DEF W
<1>28. Placed(e13, "rms_att", L, d, before(1))
  BY <1>10, <1>23, <1>24, AddedPlaced DEF W
<1>29. Placed(e13, "wq", L, cq, before(2))
  BY <1>11, <1>23, <1>24, AddedPlaced DEF W
<1>30. Placed(e13, "wk", L, ck, before(3))
  BY <1>12, <1>23, <1>24, AddedPlaced DEF W
<1>31. Placed(e13, "wv", L, ck, before(4))
  BY <1>13, <1>23, <1>24, AddedPlaced DEF W
<1>32. Placed(e13, "wo", L, co, before(5))
  BY <1>14, <1>23, <1>24, AddedPlaced DEF W
<1>33. Placed(e13, "rms_ffn", L, d, before(6))
  BY <1>15, <1>23, <1>24, AddedPlaced DEF W
<1>34. Placed(e13, "w1", L, d * h, before(7))
  BY <1>16, <1>23, <1>24, AddedPlaced DEF W
<1>35. Placed(e13, "w2", L, h * d, before(8))
  BY <1>17, <1>23, <1>24, AddedPlaced DEF W
<1>36. Placed(e13, "w3", L, d * h, before(9))
  BY <1>18, <1>23, <1>24, AddedPlaced DEF W
<1>37. PlacedOne(e13, "rms_final", d, before(10))
  BY <1>19, <1>23, <1>24, AddedPlaced DEF W
<1>38. p.vocab_size < 0 => PlacedOne(e13, "wcls", n * d, before(13))
  BY <1>22, <1>24 DEF W, PlacedOne
<1>39. e13 \in Seq(Tensor)
  BY <1>22 DEF IsList
<1> QED  BY <1>1, <1>4, <1>27, <1>28, <1>29, <1>30, <1>31, <1>32, <1>33, <1>34, <1>35, <1>36,
            <1>37, <1>38, <1>39 DEF d, h, L, n, hs, cq, ck, co, m

\* Tensor l of a kind is found at its offset.
LEMMA SlabPlaced ==
  ASSUME NEW p, Exported(p) \in Seq(Tensor), NEW name, NEW n, NEW c \in Nat \ {0}, NEW st,
         Placed(Exported(p), name, n, c, st), NEW l \in 0 .. n - 1
  PROVE  Slab(TensorStarts(p), st + l * c, c) = <<name, l>>
PROOF
<1>1. Has(Floats, Exported(p), T(<<name, l>>, c), st + l * c)
  BY DEF Placed
<1> QED  BY <1>1, SlabIs

\* The tensors of a layer, by their names.
Named(l) ==
  [rms_att |-> <<"rms_att", l>>, rms_ffn |-> <<"rms_ffn", l>>,
   wq |-> <<"wq", l>>, wk |-> <<"wk", l>>, wv |-> <<"wv", l>>, wo |-> <<"wo", l>>,
   w1 |-> <<"w1", l>>, w2 |-> <<"w2", l>>, w3 |-> <<"w3", l>>]

\* The checkpoint of run.c that p is of is loaded.
LoadedRun(p) ==
  Shaped(p) /\ config = [p EXCEPT !.vocab_size = Abs(@)] /\ weights = MapWeights(p)

\* run.c changes the sign of vocab_size, nothing else.
LEMMA LoadedConfig ==
  ASSUME NEW p, LoadedRun(p)
  PROVE  /\ config.dim = p.dim /\ config.hidden_dim = p.hidden_dim
         /\ config.n_layers = p.n_layers /\ config.n_heads = p.n_heads
         /\ config.n_kv_heads = p.n_kv_heads /\ config.seq_len = p.seq_len
         /\ config.vocab_size = Abs(p.vocab_size)
         /\ head_size(config) = head_size(p) /\ kv_dim(config) = kv_dim(p)
         /\ kv_mul(config) = kv_mul(p)
PROOF
<1>1. /\ config.dim = p.dim /\ config.hidden_dim = p.hidden_dim
      /\ config.n_layers = p.n_layers /\ config.n_heads = p.n_heads
      /\ config.n_kv_heads = p.n_kv_heads /\ config.seq_len = p.seq_len
      /\ config.vocab_size = Abs(p.vocab_size)
  BY DEF LoadedRun, Shaped, Config
<1> QED  BY <1>1 DEF head_size, kv_dim, kv_mul

\* The tensors that forward takes for a layer are those of the layer.
LEMMA LayerTensors ==
  ASSUME NEW p, LoadedRun(p), layer \in 0 .. p.n_layers - 1
  PROVE  LET d == config.dim
             of(off, size) == Slab(TensorStarts(p), off + layer * size, size)
         IN  [rms_att |-> of(weights.rms_att_weight, d), rms_ffn |-> of(weights.rms_ffn_weight, d),
              wq |-> of(weights.wq, d * d), wk |-> of(weights.wk, d * kv_dim(config)),
              wv |-> of(weights.wv, d * kv_dim(config)), wo |-> of(weights.wo, d * d),
              w1 |-> of(weights.w1, d * config.hidden_dim), w2 |-> of(weights.w2, d * config.hidden_dim),
              w3 |-> of(weights.w3, d * config.hidden_dim)]
             = Named(layer)
PROOF
<1> DEFINE d == p.dim
           h == p.hidden_dim
           kv == kv_dim(p)
           hs == head_size(p)
           nh == p.n_heads
           nkv == p.n_kv_heads
           L == p.n_layers
           e == Exported(p)
           of(off, size) == Slab(TensorStarts(p), off + layer * size, size)
<1>1. Shaped(p) /\ weights = MapWeights(p)
  BY DEF LoadedRun
<1>2. /\ d \in Nat \ {0} /\ h \in Nat \ {0} /\ kv \in Nat \ {0} /\ hs \in Nat \ {0}
      /\ nh \in Nat \ {0} /\ nkv \in Nat \ {0} /\ d = nh * hs /\ kv = nkv * hs
  BY <1>1, ShapeFacts
<1>3. /\ e \in Seq(Tensor)
      /\ Placed(e, "rms_att", L, d, weights.rms_att_weight)
      /\ Placed(e, "wq", L, d * nh * hs, weights.wq)
      /\ Placed(e, "wk", L, d * nkv * hs, weights.wk)
      /\ Placed(e, "wv", L, d * nkv * hs, weights.wv)
      /\ Placed(e, "wo", L, nh * hs * d, weights.wo)
      /\ Placed(e, "rms_ffn", L, d, weights.rms_ffn_weight)
      /\ Placed(e, "w1", L, d * h, weights.w1)
      /\ Placed(e, "w2", L, h * d, weights.w2)
      /\ Placed(e, "w3", L, d * h, weights.w3)
  BY <1>1, FileLayout
<1> HIDE DEF d, h, kv, hs, nh, nkv, L, e
<1>4. /\ d * nh * hs = d * d /\ d * nkv * hs = d * kv /\ nh * hs * d = d * d /\ h * d = d * h
      /\ d * d \in Nat \ {0} /\ d * kv \in Nat \ {0} /\ d * h \in Nat \ {0}
  <2>1. d * nh * hs = d * (nh * hs) /\ d * nkv * hs = d * (nkv * hs)
    BY <1>2
  <2>2. d * nh * hs = d * d /\ d * nkv * hs = d * kv /\ nh * hs * d = d * d
    BY <1>2, <2>1
  <2>3. h * d = d * h /\ d * d \in Nat \ {0} /\ d * kv \in Nat \ {0} /\ d * h \in Nat \ {0}
    BY <1>2
  <2> QED  BY <2>2, <2>3
<1>5. layer \in 0 .. L - 1
  BY DEF L
<1>6. \A name, c, st : c \in Nat \ {0} /\ Placed(e, name, L, c, st) => of(st, c) = <<name, layer>>
  BY <1>3, <1>5, SlabPlaced DEF e
<1> HIDE DEF of
<1>7. /\ of(weights.rms_att_weight, d) = <<"rms_att", layer>>
      /\ of(weights.wq, d * d) = <<"wq", layer>>
      /\ of(weights.wk, d * kv) = <<"wk", layer>>
      /\ of(weights.wv, d * kv) = <<"wv", layer>>
      /\ of(weights.wo, d * d) = <<"wo", layer>>
      /\ of(weights.rms_ffn_weight, d) = <<"rms_ffn", layer>>
      /\ of(weights.w1, d * h) = <<"w1", layer>>
      /\ of(weights.w2, d * h) = <<"w2", layer>>
      /\ of(weights.w3, d * h) = <<"w3", layer>>
  BY <1>2, <1>3, <1>4, <1>6
<1>8. config.dim = d /\ kv_dim(config) = kv /\ config.hidden_dim = h
  BY LoadedConfig DEF d, kv, h
<1> QED  BY <1>7, <1>8 DEF of, Named

\* The row that forward copies is the embedding of the token.
LEMMA EmbeddingIs ==
  ASSUME NEW p, LoadedRun(p), NEW t \in 0 .. config.vocab_size - 1
  PROVE  Slab(TensorStarts(p), weights.token_embedding_table + t * config.dim, config.dim)
         = <<"embedding", t>>
PROOF
<1>1. Shaped(p) /\ weights = MapWeights(p)
  BY DEF LoadedRun
<1>2. /\ Exported(p) \in Seq(Tensor)
      /\ Placed(Exported(p), "embedding", Abs(p.vocab_size), p.dim, weights.token_embedding_table)
  BY <1>1, FileLayout
<1>3. p.dim \in Nat \ {0} /\ config.dim = p.dim /\ t \in 0 .. Abs(p.vocab_size) - 1
  BY <1>1, ShapeFacts, LoadedConfig
<1> QED  BY <1>2, <1>3, SlabPlaced

\* The classifier is the embedding table, or a tensor of its own behind the tables of rope.
LEMMA ClassifierIs ==
  ASSUME NEW p, LoadedRun(p), Abs(p.vocab_size) > 1
  PROVE  /\ Slab(TensorStarts(p), weights.rms_final_weight, config.dim) = <<"rms_final">>
         /\ Slab(TensorStarts(p), weights.wcls, config.dim * config.vocab_size)
            = IF p.vocab_size < 0 THEN <<"wcls">> ELSE <<"embedding">>
PROOF
<1> DEFINE d == p.dim
           n == Abs(p.vocab_size)
           e == Exported(p)
           file == TensorStarts(p)
<1>1. Shaped(p) /\ weights = MapWeights(p)
  BY DEF LoadedRun
<1>2. d \in Nat \ {0} /\ n \in Nat /\ n > 1 /\ p.vocab_size \in Int
  BY <1>1, ShapeFacts DEF Abs
<1>3. /\ e \in Seq(Tensor) /\ PlacedOne(e, "rms_final", d, weights.rms_final_weight)
      /\ Placed(e, "embedding", n, d, weights.token_embedding_table)
      /\ p.vocab_size < 0 => PlacedOne(e, "wcls", n * d, weights.wcls)
      /\ weights.token_embedding_table = 0
      /\ p.vocab_size > 0 => weights.wcls = 0
  BY <1>1, FileLayout
<1>4. config.dim = d /\ config.vocab_size = n
  BY LoadedConfig
<1>5. (n = p.vocab_size /\ p.vocab_size > 0) \/ p.vocab_size < 0
  BY <1>2 DEF Abs
<1> HIDE DEF d, n, e, file
<1>6. n * d \in Nat \ {0} /\ d * n = n * d /\ n * d > d
  <2>1. (n - 1) * d > 0 /\ n * d = (n - 1) * d + d
    BY <1>2
  <2> QED  BY <1>2, <2>1
<1>7. Slab(file, weights.rms_final_weight, d) = <<"rms_final">>
  BY <1>2, <1>3, SlabIs DEF PlacedOne, e, file
<1>8. CASE p.vocab_size < 0
  <2>1. Slab(file, weights.wcls, n * d) = <<"wcls">>
    BY <1>3, <1>6, <1>8, SlabIs DEF PlacedOne, e, file
  <2> QED  BY <1>4, <1>6, <1>7, <1>8, <2>1 DEF file
<1>9. CASE p.vocab_size > 0
  <2> DEFINE whole == {k \in DOMAIN file : file[k].start = 0 /\ file[k].size = n * d}
  <2>1. Has(Floats, e, T(<<"embedding", 0>>, d), 0)
    <3>1. 0 \in 0 .. n - 1 /\ 0 + 0 * d = 0
      BY <1>2
    <3>2. Has(Floats, e, T(<<"embedding", 0>>, d), 0 + 0 * d)
      BY <1>3, <3>1 DEF Placed
    <3> QED  BY <3>1, <3>2
  <2>2. whole = {}
    BY <1>2, <1>3, <1>6, <2>1, NoSlab DEF e, file
  <2>3. Slab(file, 0, n * d) = <<"embedding">>
    <3> HIDE DEF whole
    <3>1. n * d = config.vocab_size * config.dim
      BY <1>4
    <3> QED  BY <2>2, <3>1 DEF Slab, whole
  <2>4. ~(p.vocab_size < 0)
    BY <1>2, <1>9
  <2> QED  BY <1>3, <1>4, <1>6, <1>7, <1>9, <2>3, <2>4 DEF file
<1> QED  BY <1>5, <1>8, <1>9

\* The same for the files of runq.c: of is the bytes of a value, those of one byte have scales.
TensorQ == [name : TensorName, size : Nat, of : {1, 4}]
TQ(name, size, of) == [name |-> name, size |-> size, of |-> of]
BytesQ(g, size, of) == size * of + (IF of = 1 THEN 4 * (size \div g) ELSE 0)
BytesOf(g) == [x \in TensorQ |-> BytesQ(g, x.size, x.of)]

\* A list of tensors of runq.c.
IsListQ(e) == e \in Seq(TensorQ)
EachQ(name, n, size, of) == [k \in 1 .. n |-> [name |-> <<name, k - 1>>, size |-> size, of |-> of]]
OneQ(name, size, of) == <<[name |-> <<name>>, size |-> size, of |-> of]>>

\* n tensors, or one, are in the list from st on.
PlacedQ(g, a, name, n, size, of, st) ==
  \A l \in 0 .. n - 1 : Has(BytesOf(g), a, TQ(<<name, l>>, size, of), st + l * BytesQ(g, size, of))
PlacedOneQ(g, a, name, size, of, st) == Has(BytesOf(g), a, TQ(<<name>>, size, of), st)

\* The list a is e and n tensors of a kind, at the places behind e.
AddedQ(g, e, a, name, n, size, of) ==
  /\ IsListQ(a) /\ Total(BytesOf(g), a) = Total(BytesOf(g), e) + n * BytesQ(g, size, of)
  /\ Keeps(BytesOf(g), e, a)
  /\ PlacedQ(g, a, name, n, size, of, Total(BytesOf(g), e))

\* The list a is e and a tensor, behind e.
AddedOneQ(g, e, a, name, size, of) ==
  /\ IsListQ(a) /\ Total(BytesOf(g), a) = Total(BytesOf(g), e) + BytesQ(g, size, of)
  /\ Keeps(BytesOf(g), e, a)
  /\ PlacedOneQ(g, a, name, size, of, Total(BytesOf(g), e))

\* What a tensor takes: a float is four bytes, a quantized value one and its share of a scale.
LEMMA BytesFacts ==
  ASSUME NEW g \in Nat \ {0}
  PROVE  /\ \A size \in Nat, of \in {1, 4} : BytesQ(g, size, of) \in Nat
         /\ \A size \in Nat : /\ BytesQ(g, size, 4) = 4 * size
                              /\ BytesQ(g, size, 1) = size + 4 * (size \div g)
         /\ \A size \in Nat \ {0}, of \in {1, 4} : BytesQ(g, size, of) > 0
         /\ BytesOf(g) \in [TensorQ -> Nat]
PROOF
<1>1. \A size \in Nat : size \div g \in Nat
  OBVIOUS
<1>2. \A size \in Nat : /\ BytesQ(g, size, 4) = 4 * size
                        /\ BytesQ(g, size, 1) = size + 4 * (size \div g)
  BY <1>1 DEF BytesQ
<1>3. \A size \in Nat, of \in {1, 4} : BytesQ(g, size, of) \in Nat
  BY <1>1, <1>2
<1>4. \A size \in Nat \ {0}, of \in {1, 4} : BytesQ(g, size, of) > 0
  <2> SUFFICES ASSUME NEW size \in Nat \ {0} PROVE BytesQ(g, size, 4) > 0 /\ BytesQ(g, size, 1) > 0
    OBVIOUS
  <2>1. size \div g \in Nat /\ BytesQ(g, size, 4) = 4 * size
        /\ BytesQ(g, size, 1) = size + 4 * (size \div g)
    BY <1>1, <1>2
  <2> DEFINE q == size \div g
  <2> HIDE DEF q
  <2> QED  BY <2>1 DEF q
<1>5. BytesOf(g) \in [TensorQ -> Nat]
  <2>1. \A x \in TensorQ : x.size \in Nat /\ x.of \in {1, 4}
    BY DEF TensorQ
  <2>2. \A x \in TensorQ : BytesQ(g, x.size, x.of) \in Nat
    BY <1>3, <2>1
  <2> QED  BY <2>2 DEF BytesOf
<1> QED  BY <1>2, <1>3, <1>4, <1>5

\* ExportedQ's lists go on so: with the tensors of every layer,
LEMMA EachAddedQ ==
  ASSUME NEW g \in Nat \ {0}, NEW e, e \in Seq(TensorQ), NEW name \in Kinds, NEW n \in Nat,
         NEW size \in Nat, NEW of \in {1, 4}
  PROVE  AddedQ(g, e, Then(e, EachQ(name, n, size, of)), name, n, size, of)
PROOF
<1> DEFINE r == EachQ(name, n, size, of)
           W == BytesOf(g)
           c == BytesQ(g, size, of)
<1> USE DEF EachQ
<1>1. \A k \in 1 .. n : r[k] = TQ(<<name, k - 1>>, size, of)
  BY DEF TQ
<1>2. \A l \in 0 .. n - 1 : TQ(<<name, l>>, size, of) \in TensorQ /\ W[TQ(<<name, l>>, size, of)] = c
  <2> SUFFICES ASSUME NEW l \in 0 .. n - 1
               PROVE  TQ(<<name, l>>, size, of) \in TensorQ /\ W[TQ(<<name, l>>, size, of)] = c
    OBVIOUS
  <2>1. <<name, l>> \in TensorName
    <3>1. l \in Nat
      OBVIOUS
    <3>2. <<name, l>> \in Kinds \X Nat
      BY <3>1
    <3> QED  BY <3>2 DEF TensorName
  <2> DEFINE x == TQ(<<name, l>>, size, of)
  <2>2. x \in TensorQ /\ x.size = size /\ x.of = of
    BY <2>1 DEF TQ, TensorQ
  <2> HIDE DEF x
  <2>3. W[x] = c
    BY <2>2 DEF BytesOf
  <2> QED  BY <2>2, <2>3 DEF x
<1>3. \A k \in 1 .. n : k - 1 \in 0 .. n - 1
  OBVIOUS
<1>4. r = [k \in 1 .. n |-> r[k]]
  OBVIOUS
<1> HIDE DEF r
<1>5. r \in Seq(TensorQ) /\ Len(r) = n
  <2> DEFINE R == TensorQ
  <2>1. \A k \in 1 .. n : r[k] \in R
    BY <1>1, <1>2, <1>3
  <2> HIDE DEF R
  <2> QED  BY <1>4, <2>1, SequenceOf DEF R
<1>6. W \in [TensorQ -> Nat] /\ c \in Nat
  BY BytesFacts
<1> HIDE DEF W, c
<1>7. \A k \in 1 .. Len(r) : W[r[k]] = c
  BY <1>1, <1>2, <1>3, <1>5
<1> DEFINE a == e \o r
<1>8. /\ a \in Seq(TensorQ)
      /\ Total(W, a) = Total(W, e) + Len(r) * c
      /\ \A x, st : Has(W, e, x, st) => Has(W, a, x, st)
      /\ \A k \in 1 .. Len(r) : Has(W, a, r[k], Total(W, e) + (k - 1) * c)
  BY <1>5, <1>6, <1>7, GroupAdded
<1> HIDE DEF a
<1>9. \A l \in 0 .. n - 1 : Has(W, a, TQ(<<name, l>>, size, of), Total(W, e) + l * c)
  <2> SUFFICES ASSUME NEW l \in 0 .. n - 1
               PROVE  Has(W, a, TQ(<<name, l>>, size, of), Total(W, e) + l * c)
    OBVIOUS
  <2>1. l + 1 \in 1 .. n /\ (l + 1) - 1 = l
    OBVIOUS
  <2>2. r[l + 1] = TQ(<<name, l>>, size, of)
    BY <1>1, <2>1
  <2> QED  BY <1>5, <1>8, <2>1, <2>2
<1>10. Keeps(W, e, a)
  BY <1>8 DEF Keeps
<1>11. a = Then(e, EachQ(name, n, size, of))
  BY DEF a, r, Then
<1> HIDE DEF EachQ
<1> QED  BY <1>5, <1>8, <1>9, <1>10, <1>11 DEF AddedQ, IsListQ, PlacedQ, W, c

\* and with one tensor.
LEMMA OneAddedQ ==
  ASSUME NEW g \in Nat \ {0}, NEW e, e \in Seq(TensorQ), NEW name \in Kinds,
         NEW size \in Nat, NEW of \in {1, 4}
  PROVE  AddedOneQ(g, e, Then(e, OneQ(name, size, of)), name, size, of)
PROOF
<1> DEFINE W == BytesOf(g)
           c == BytesQ(g, size, of)
           x == TQ(<<name>>, size, of)
           r == <<x>>
           a == e \o r
<1>1. x \in TensorQ /\ W[x] = c
  <2>1. <<name>> \in TensorName
    BY DEF TensorName
  <2>2. x \in TensorQ /\ x.size = size /\ x.of = of
    BY <2>1 DEF TQ, TensorQ
  <2> HIDE DEF x
  <2> QED  BY <2>2 DEF BytesOf
<1>2. W \in [TensorQ -> Nat] /\ c \in Nat
  BY BytesFacts
<1> HIDE DEF x, W, c
<1>3. r \in Seq(TensorQ) /\ Len(r) = 1 /\ r[1] = x /\ 1 \in 1 .. Len(r)
  <2> DEFINE R == TensorQ
  <2> HIDE DEF R
  <2>1. x \in R
    BY <1>1 DEF R
  <2>2. r \in Seq(R) /\ Len(r) = 1 /\ r[1] = x
    BY <2>1
  <2> QED  BY <2>2 DEF R
<1>4. \A k \in 1 .. Len(r) : W[r[k]] = c
  BY <1>1, <1>3
<1> HIDE DEF r
<1>5. /\ a \in Seq(TensorQ)
      /\ Total(W, a) = Total(W, e) + Len(r) * c
      /\ \A y, st : Has(W, e, y, st) => Has(W, a, y, st)
      /\ \A k \in 1 .. Len(r) : Has(W, a, r[k], Total(W, e) + (k - 1) * c)
  BY <1>2, <1>3, <1>4, GroupAdded
<1>6. Total(W, e) \in Nat
  <2>1. Len(e) + 1 \in 1 .. Len(e) + 1
    OBVIOUS
  <2> QED  BY <1>2, <2>1, StartGrows DEF Total
<1>7. Has(W, a, r[1], Total(W, e) + (1 - 1) * c)
  BY <1>3, <1>5
<1>8. Total(W, e) + (1 - 1) * c = Total(W, e) /\ 1 * c = c
  BY <1>2, <1>6
<1> HIDE DEF a
<1>9. Keeps(W, e, a)
  BY <1>5 DEF Keeps
<1>10. a = Then(e, OneQ(name, size, of))
  BY DEF a, r, x, TQ, OneQ, Then
<1>11. Has(W, a, x, Total(W, e))
  BY <1>3, <1>7, <1>8
<1> QED  BY <1>3, <1>5, <1>8, <1>9, <1>10, <1>11 DEF AddedOneQ, IsListQ, PlacedOneQ, x, W, c

\* What has its place in a part has it in the whole.
LEMMA PlacedStaysQ ==
  \A g, a, z, name, n, size, of, st : Keeps(BytesOf(g), a, z) =>
    /\ PlacedQ(g, a, name, n, size, of, st) => PlacedQ(g, z, name, n, size, of, st)
    /\ PlacedOneQ(g, a, name, size, of, st) => PlacedOneQ(g, z, name, size, of, st)
PROOF
<1> SUFFICES ASSUME NEW g, NEW a, NEW z, NEW name, NEW n, NEW size, NEW of, NEW st,
                    Keeps(BytesOf(g), a, z)
             PROVE  /\ PlacedQ(g, a, name, n, size, of, st) => PlacedQ(g, z, name, n, size, of, st)
                    /\ PlacedOneQ(g, a, name, size, of, st) => PlacedOneQ(g, z, name, size, of, st)
  OBVIOUS
<1>1. PlacedQ(g, a, name, n, size, of, st) => PlacedQ(g, z, name, n, size, of, st)
  BY DEF PlacedQ, Keeps
<1>2. PlacedOneQ(g, a, name, size, of, st) => PlacedOneQ(g, z, name, size, of, st)
  BY DEF PlacedOneQ, Keeps
<1> QED  BY <1>1, <1>2

\* The tensors of a file of runq.c.
ListQ(p, shared) ==
  LET hs == head_size(p)
      norm(name) == EachQ(name, p.n_layers, p.dim, 4)
      one(name) == OneQ(name, p.vocab_size * p.dim, 1)
      each(name, n) == EachQ(name, p.n_layers, n, 1)
  IN  norm("rms_att") \o norm("rms_ffn") \o OneQ("rms_final", p.dim, 4)
        \o one("q_tokens")
        \o each("wq", p.dim * p.n_heads * hs) \o each("wk", p.dim * p.n_kv_heads * hs)
        \o each("wv", p.dim * p.n_kv_heads * hs) \o each("wo", p.n_heads * hs * p.dim)
        \o each("w1", p.dim * p.hidden_dim) \o each("w2", p.hidden_dim * p.dim)
        \o each("w3", p.dim * p.hidden_dim)
        \o (IF shared THEN <<>> ELSE one("wcls"))

\* What a file of runq.c says of its tensors.
LEMMA FileIsQ ==
  ASSUME NEW p, NEW shared, NEW g, ListQ(p, shared) \in Seq(TensorQ)
  PROVE  LET e == ListQ(p, shared)
             file == ExportedQ(p, shared, g)
         IN  /\ DOMAIN file = 1 .. Len(e)
             /\ \A k \in 1 .. Len(e) :
                  /\ file[k].name = e[k].name /\ file[k].size = e[k].size
                  /\ file[k].start = StartOf(BytesOf(g), e, k)
                  /\ file[k].s = file[k].start + file[k].size
PROOF
<1> DEFINE e == ListQ(p, shared)
           file == ExportedQ(p, shared, g)
           bytes(x) == x.size * x.of + (IF x.of = 1 THEN 4 * (x.size \div g) ELSE 0)
           start(k) == SumSeq([j \in 1 .. k - 1 |-> bytes(e[j])])
<1>1. file = [k \in DOMAIN e |-> [name |-> e[k].name, size |-> e[k].size, start |-> start(k),
                                  s |-> start(k) + e[k].size, bytes |-> bytes(e[k])]]
  BY DEF ExportedQ, ListQ, EachQ, OneQ
<1>2. /\ DOMAIN e = 1 .. Len(e) /\ Len(e) \in Nat /\ \A k \in 1 .. Len(e) : e[k] \in TensorQ
  <2> DEFINE R == TensorQ
  <2> HIDE DEF R, e
  <2>1. e \in Seq(R)
    BY DEF R, e
  <2>2. DOMAIN e = 1 .. Len(e) /\ Len(e) \in Nat /\ \A k \in 1 .. Len(e) : e[k] \in R
    BY <2>1
  <2> QED  BY <2>1, <2>2 DEF R
<1> HIDE DEF e, file
<1>3. \A k \in 1 .. Len(e) : start(k) = StartOf(BytesOf(g), e, k)
  <2> SUFFICES ASSUME NEW k \in 1 .. Len(e) PROVE start(k) = StartOf(BytesOf(g), e, k)
    OBVIOUS
  <2>1. \A j \in 1 .. k - 1 : j \in 1 .. Len(e)
    BY <1>2
  <2>2. \A x \in TensorQ : BytesOf(g)[x] = bytes(x)
    BY DEF BytesOf, BytesQ
  <2> HIDE DEF bytes
  <2>3. \A j \in 1 .. k - 1 : BytesOf(g)[e[j]] = bytes(e[j])
    BY <1>2, <2>1, <2>2
  <2>4. [j \in 1 .. k - 1 |-> BytesOf(g)[e[j]]] = [j \in 1 .. k - 1 |-> bytes(e[j])]
    BY <2>3
  <2> QED  BY <2>4 DEF StartOf
<1> HIDE DEF start, bytes
<1>4. DOMAIN file = 1 .. Len(e)
  BY <1>1, <1>2
<1>5. \A k \in 1 .. Len(e) : /\ file[k].name = e[k].name /\ file[k].size = e[k].size
                             /\ file[k].start = start(k) /\ file[k].s = start(k) + e[k].size
  BY <1>1, <1>2
<1> QED  BY <1>3, <1>4, <1>5 DEF e, file

\* The file has one tensor of a size at a place, and its name.
FoundAt(file, name, size, st) ==
  \E k \in DOMAIN file :
    /\ file[k].name = name /\ file[k].size = size /\ file[k].start = st
    /\ file[k].s = st + size
    /\ \A j \in DOMAIN file : file[j].start = st /\ file[j].size = size => j = k

\* A tensor of the list is what is found where it starts.
LEMMA FoundQ ==
  ASSUME NEW p, NEW shared, NEW g \in Nat \ {0}, ListQ(p, shared) \in Seq(TensorQ),
         NEW name, NEW size \in Nat \ {0}, NEW of \in {1, 4}, NEW st,
         Has(BytesOf(g), ListQ(p, shared), TQ(name, size, of), st)
  PROVE  FoundAt(ExportedQ(p, shared, g), name, size, st)
PROOF
<1> DEFINE e == ListQ(p, shared)
           file == ExportedQ(p, shared, g)
           W == BytesOf(g)
<1>1. /\ DOMAIN file = 1 .. Len(e)
      /\ \A k \in 1 .. Len(e) :
           /\ file[k].name = e[k].name /\ file[k].size = e[k].size
           /\ file[k].start = StartOf(W, e, k)
           /\ file[k].s = file[k].start + file[k].size
  BY FileIsQ
<1>2. e \in Seq(TensorQ)
  OBVIOUS
<1> HIDE DEF e, file
<1>3. \A k \in 1 .. Len(e) : e[k] \in TensorQ
  <2> DEFINE R == TensorQ
  <2> HIDE DEF R
  <2>1. e \in Seq(R)
    BY <1>2 DEF R
  <2>2. \A k \in 1 .. Len(e) : e[k] \in R
    BY <2>1
  <2> QED  BY <2>2 DEF R
<1>4. PICK k \in 1 .. Len(e) : e[k] = TQ(name, size, of) /\ StartOf(W, e, k) = st
  BY DEF Has, e
<1>5. e[k].name = name /\ e[k].size = size
  BY <1>4 DEF TQ
<1>6. W \in [TensorQ -> Nat]
  BY BytesFacts
<1>7. \A j \in 1 .. Len(e) : e[j].size = size => W[e[j]] > 0
  <2> SUFFICES ASSUME NEW j \in 1 .. Len(e), e[j].size = size PROVE W[e[j]] > 0
    OBVIOUS
  <2>1. W[e[j]] = BytesQ(g, size, e[j].of)
    BY <1>3 DEF BytesOf
  <2>2. e[j].of \in {1, 4}
    BY <1>3 DEF TensorQ
  <2>3. \A o \in {1, 4} : BytesQ(g, size, o) > 0
    BY BytesFacts
  <2> HIDE DEF W
  <2> QED  BY <2>1, <2>2, <2>3
<1> HIDE DEF W
<1>8. ASSUME NEW j \in DOMAIN file, file[j].start = st, file[j].size = size PROVE j = k
  <2>1. j \in 1 .. Len(e)
    BY <1>1
  <2>2. StartOf(W, e, j) = StartOf(W, e, k)
    BY <1>1, <1>4, <1>8, <2>1
  <2>3. W[e[j]] > 0 /\ W[e[k]] > 0
    BY <1>1, <1>5, <1>7, <1>8, <2>1
  <2> QED  BY ONLY <1>2, <1>6, <2>1, <2>2, <2>3, k \in 1 .. Len(e), StartsDiffer
<1>9. /\ k \in DOMAIN file /\ file[k].name = name /\ file[k].size = size /\ file[k].start = st
      /\ file[k].s = st + size
  BY <1>1, <1>4, <1>5
<1> QED  BY <1>8, <1>9 DEF file, FoundAt

\* The tensor found at a place, by its values or its values and scales, is the one of the list.
LEMMA SlabIsQ ==
  ASSUME NEW p, NEW shared, NEW g \in Nat \ {0}, ListQ(p, shared) \in Seq(TensorQ),
         NEW name, NEW size \in Nat \ {0}, NEW of \in {1, 4}, NEW st,
         Has(BytesOf(g), ListQ(p, shared), TQ(name, size, of), st)
  PROVE  /\ Slab(ExportedQ(p, shared, g), st, size) = name
         /\ \A t : t.q = st /\ t.s = st + size => SlabQ(ExportedQ(p, shared, g), t, size) = name
PROOF
<1> DEFINE file == ExportedQ(p, shared, g)
<1>0. FoundAt(file, name, size, st)
  BY FoundQ
<1> HIDE DEF file
<1>1. PICK k \in DOMAIN file :
        /\ file[k].name = name /\ file[k].size = size /\ file[k].start = st
        /\ file[k].s = st + size
        /\ \A j \in DOMAIN file : file[j].start = st /\ file[j].size = size => j = k
  BY <1>0 DEF FoundAt
<1>2. Slab(file, st, size) = name
  <2> DEFINE whole == {j \in DOMAIN file : file[j].start = st /\ file[j].size = size}
  <2>1. k \in whole /\ \A j \in whole : j = k
    BY <1>1
  <2> HIDE DEF whole
  <2>2. (CHOOSE j \in whole : TRUE) = k
    BY <2>1
  <2> QED  BY <1>1, <2>1, <2>2 DEF Slab, whole
<1>3. ASSUME NEW t, t.q = st, t.s = st + size PROVE SlabQ(file, t, size) = name
  <2> DEFINE whole == {j \in DOMAIN file : file[j].start = t.q /\ file[j].s = t.s /\ file[j].size = size}
  <2>1. k \in whole /\ \A j \in whole : j = k
    BY <1>1, <1>3
  <2> HIDE DEF whole
  <2>2. (CHOOSE j \in whole : TRUE) = k
    BY <2>1
  <2> QED  BY <1>1, <2>1, <2>2 DEF SlabQ, whole
<1> QED  BY <1>2, <1>3 DEF file

\* The pointers w[l + 1] are those of tensor l of its kind.
Pointed(g, a, w, name, n, size) ==
  \A l \in 0 .. n - 1 :
    Has(BytesOf(g), a, TQ(<<name, l>>, size, 1), w[l + 1].q) /\ w[l + 1].s = w[l + 1].q + size
PointedOne(g, a, t, name, size) ==
  Has(BytesOf(g), a, TQ(<<name>>, size, 1), t.q) /\ t.s = t.q + size

\* init_quantized_tensors points to tensors that lie one behind the other.
LEMMA PointersAre ==
  ASSUME NEW a, NEW name, NEW n \in Nat, NEW size \in Nat, NEW ptr \in Nat, GS \in Nat \ {0}
  PROVE  LET made == init_quantized_tensors(ptr, n, size)
         IN  /\ made.next = ptr + n * BytesQ(GS, size, 1)
             /\ PlacedQ(GS, a, name, n, size, 1, ptr) => Pointed(GS, a, made.tensors, name, n, size)
             /\ n = 1 /\ PlacedOneQ(GS, a, name, size, 1, ptr)
                  => PointedOne(GS, a, made.tensors[1], name, size)
PROOF
<1> DEFINE each == size + 4 * (size \div GS)
           t == [k \in 1 .. n |-> [q |-> ptr + (k - 1) * each, s |-> ptr + (k - 1) * each + size]]
           made == init_quantized_tensors(ptr, n, size)
<1>1. BytesQ(GS, size, 1) = each /\ each \in Nat
  BY BytesFacts, ZenonT(30)
<1>2. made.next = ptr + n * each /\ made.tensors = t
  BY ZenonT(30) DEF init_quantized_tensors
<1> HIDE DEF each, made
<1>3. \A l \in 0 .. n - 1 : t[l + 1].q = ptr + l * each /\ t[l + 1].s = t[l + 1].q + size
  <2> SUFFICES ASSUME NEW l \in 0 .. n - 1
               PROVE  t[l + 1].q = ptr + l * each /\ t[l + 1].s = t[l + 1].q + size
    OBVIOUS
  <2>1. l + 1 \in 1 .. n /\ (l + 1) - 1 = l
    OBVIOUS
  <2> QED  BY <2>1
<1> HIDE DEF t
<1>4. PlacedQ(GS, a, name, n, size, 1, ptr) => Pointed(GS, a, t, name, n, size)
  BY <1>1, <1>3 DEF PlacedQ, Pointed
<1>5. n = 1 /\ PlacedOneQ(GS, a, name, size, 1, ptr) => PointedOne(GS, a, t[1], name, size)
  <2>1. n = 1 => t[1].q = ptr + 0 * each /\ t[1].s = t[1].q + size
    <3>1. n = 1 => 0 \in 0 .. n - 1 /\ 0 + 1 = 1
      OBVIOUS
    <3> QED  BY <1>3, <3>1
  <2>2. ptr + 0 * each = ptr
    BY <1>1
  <2> QED  BY <2>1, <2>2 DEF PlacedOneQ, PointedOne
<1> QED  BY <1>1, <1>2, <1>4, <1>5 DEF made

\* EachAddedQ and OneAddedQ in one formula for the provers.
LEMMA ListAddedQ ==
  ASSUME NEW g \in Nat \ {0}
  PROVE  \A e, name, n, size, of :
           IsListQ(e) /\ name \in Kinds /\ n \in Nat /\ size \in Nat /\ of \in {1, 4} =>
             /\ AddedQ(g, e, Then(e, EachQ(name, n, size, of)), name, n, size, of)
             /\ AddedOneQ(g, e, Then(e, OneQ(name, size, of)), name, size, of)
PROOF
<1> SUFFICES ASSUME NEW e, e \in Seq(TensorQ), NEW name \in Kinds, NEW n \in Nat, NEW size \in Nat,
                    NEW of \in {1, 4}
             PROVE  /\ AddedQ(g, e, Then(e, EachQ(name, n, size, of)), name, n, size, of)
                    /\ AddedOneQ(g, e, Then(e, OneQ(name, size, of)), name, size, of)
  BY DEF IsListQ
<1>1. AddedQ(g, e, Then(e, EachQ(name, n, size, of)), name, n, size, of)
  BY EachAddedQ
<1>2. AddedOneQ(g, e, Then(e, OneQ(name, size, of)), name, size, of)
  BY OneAddedQ
<1> QED  BY <1>1, <1>2

\* Every tensor of the file of runq.c is where MapWeightsQ puts it.
LEMMA LayoutQ ==
  ASSUME NEW p, Shaped(p), p.vocab_size > 0, NEW shared, GS \in Nat \ {0}
  PROVE  LET e == ListQ(p, shared)
             m == MapWeightsQ(p, shared)
             hs == head_size(p)
             d == p.dim
             h == p.hidden_dim
             v == p.vocab_size * d
             L == p.n_layers
         IN  /\ e \in Seq(TensorQ)
             /\ PlacedQ(GS, e, "rms_att", L, d, 4, m.rms_att_weight)
             /\ PlacedQ(GS, e, "rms_ffn", L, d, 4, m.rms_ffn_weight)
             /\ PlacedOneQ(GS, e, "rms_final", d, 4, m.rms_final_weight)
             /\ PointedOne(GS, e, m.q_tokens[1], "q_tokens", v)
             /\ Pointed(GS, e, m.wq, "wq", L, d * (p.n_heads * hs))
             /\ Pointed(GS, e, m.wk, "wk", L, d * (p.n_kv_heads * hs))
             /\ Pointed(GS, e, m.wv, "wv", L, d * (p.n_kv_heads * hs))
             /\ Pointed(GS, e, m.wo, "wo", L, (p.n_heads * hs) * d)
             /\ Pointed(GS, e, m.w1, "w1", L, d * h)
             /\ Pointed(GS, e, m.w2, "w2", L, h * d)
             /\ Pointed(GS, e, m.w3, "w3", L, d * h)
             /\ IF shared THEN m.wcls[1] = m.q_tokens[1] ELSE PointedOne(GS, e, m.wcls[1], "wcls", v)
PROOF
<1> DEFINE d == p.dim
           h == p.hidden_dim
           L == p.n_layers
           hs == head_size(p)
           V == p.vocab_size
           v == V * d
           cq == d * p.n_heads * hs
           ck == d * p.n_kv_heads * hs
           co == p.n_heads * hs * d
           cf == d * h
           cg == h * d
           e0 == EachQ("rms_att", L, d, 4)
           e1 == Then(e0, EachQ("rms_ffn", L, d, 4))
           e2 == Then(e1, OneQ("rms_final", d, 4))
           e3 == Then(e2, OneQ("q_tokens", v, 1))
           e4 == Then(e3, EachQ("wq", L, cq, 1))
           e5 == Then(e4, EachQ("wk", L, ck, 1))
           e6 == Then(e5, EachQ("wv", L, ck, 1))
           e7 == Then(e6, EachQ("wo", L, co, 1))
           e8 == Then(e7, EachQ("w1", L, cf, 1))
           e9 == Then(e8, EachQ("w2", L, cg, 1))
           e10 == Then(e9, EachQ("w3", L, cf, 1))
           e11 == Then(e10, IF shared THEN <<>> ELSE OneQ("wcls", v, 1))
           W == BytesOf(GS)
           B(x) == BytesQ(GS, x, 1)
           fptr == 4 * (2 * L * d + d)
           q3 == init_quantized_tensors(fptr, 1, v)
           q4 == init_quantized_tensors(q3.next, L, cq)
           q5 == init_quantized_tensors(q4.next, L, ck)
           q6 == init_quantized_tensors(q5.next, L, ck)
           q7 == init_quantized_tensors(q6.next, L, co)
           q8 == init_quantized_tensors(q7.next, L, cf)
           q9 == init_quantized_tensors(q8.next, L, cg)
           q10 == init_quantized_tensors(q9.next, L, cf)
           q11 == init_quantized_tensors(q10.next, 1, v)
           m == MapWeightsQ(p, shared)
<1>1. ListQ(p, shared) = e11
  BY DEF ListQ, EachQ, OneQ, Then
<1>2. /\ d \in Nat \ {0} /\ h \in Nat \ {0} /\ L \in Nat \ {0} /\ V \in Nat \ {0}
      /\ hs \in Nat \ {0} /\ p.n_heads \in Nat \ {0} /\ p.n_kv_heads \in Nat \ {0}
  BY ShapeFacts
<1>3. /\ v \in Nat /\ cq \in Nat /\ ck \in Nat /\ co \in Nat /\ cf \in Nat /\ cg \in Nat
      /\ d * (p.n_heads * hs) = cq /\ d * (p.n_kv_heads * hs) = ck /\ (p.n_heads * hs) * d = co
      /\ d * V = v
  <2> DEFINE a == p.n_heads
             b == p.n_kv_heads
  <2> HIDE DEF d, h, L, hs, V, a, b
  <2>1. /\ d \in Nat \ {0} /\ h \in Nat \ {0} /\ V \in Nat \ {0}
        /\ hs \in Nat \ {0} /\ a \in Nat \ {0} /\ b \in Nat \ {0}
    BY <1>2 DEF a, b
  <2>2. v \in Nat /\ d * V = v /\ cf \in Nat /\ cg \in Nat
    BY <2>1
  <2>3. cq \in Nat /\ d * (a * hs) = cq
    BY <2>1 DEF a
  <2>4. ck \in Nat /\ d * (b * hs) = ck
    BY <2>1 DEF b
  <2>5. co \in Nat /\ (a * hs) * d = co
    BY <2>1, SMTT(30) DEF a
  <2> QED  BY <2>2, <2>3, <2>4, <2>5 DEF a, b
<1>4. m = [rms_att_weight |-> 0, rms_ffn_weight |-> 4 * L * d, rms_final_weight |-> 8 * L * d,
           q_tokens |-> q3.tensors, wq |-> q4.tensors, wk |-> q5.tensors, wv |-> q6.tensors,
           wo |-> q7.tensors, w1 |-> q8.tensors, w2 |-> q9.tensors, w3 |-> q10.tensors,
           wcls |-> IF shared THEN q3.tensors ELSE q11.tensors]
  <2> DEFINE mapped(cQ, cK, cO, vT) ==
        LET table == init_quantized_tensors(fptr, 1, v)
            wq == init_quantized_tensors(table.next, L, cQ)
            wk == init_quantized_tensors(wq.next, L, cK)
            wv == init_quantized_tensors(wk.next, L, cK)
            wo == init_quantized_tensors(wv.next, L, cO)
            w1 == init_quantized_tensors(wo.next, L, cf)
            w2 == init_quantized_tensors(w1.next, L, cg)
            w3 == init_quantized_tensors(w2.next, L, cf)
        IN  [rms_att_weight |-> 0, rms_ffn_weight |-> 4 * L * d, rms_final_weight |-> 8 * L * d,
             q_tokens |-> table.tensors, wq |-> wq.tensors, wk |-> wk.tensors, wv |-> wv.tensors,
             wo |-> wo.tensors, w1 |-> w1.tensors, w2 |-> w2.tensors, w3 |-> w3.tensors,
             wcls |-> IF shared THEN table.tensors
                      ELSE init_quantized_tensors(w3.next, 1, vT).tensors]
  <2>1. m = mapped(d * (p.n_heads * hs), d * (p.n_kv_heads * hs), (p.n_heads * hs) * d, d * V)
    BY DEF MapWeightsQ
  <2>2. mapped(cq, ck, co, v)
        = [rms_att_weight |-> 0, rms_ffn_weight |-> 4 * L * d, rms_final_weight |-> 8 * L * d,
           q_tokens |-> q3.tensors, wq |-> q4.tensors, wk |-> q5.tensors, wv |-> q6.tensors,
           wo |-> q7.tensors, w1 |-> q8.tensors, w2 |-> q9.tensors, w3 |-> q10.tensors,
           wcls |-> IF shared THEN q3.tensors ELSE q11.tensors]
    OBVIOUS
  <2> HIDE DEF mapped, m
  <2> QED  BY <1>3, <2>1, <2>2, ZenonT(30)
<1> HIDE DEF m
<1>5. /\ m.rms_att_weight = 0 /\ m.rms_ffn_weight = 4 * L * d /\ m.rms_final_weight = 8 * L * d
      /\ m.q_tokens = q3.tensors /\ m.wq = q4.tensors /\ m.wk = q5.tensors /\ m.wv = q6.tensors
      /\ m.wo = q7.tensors /\ m.w1 = q8.tensors /\ m.w2 = q9.tensors /\ m.w3 = q10.tensors
      /\ (shared => m.wcls = q3.tensors) /\ (~shared => m.wcls = q11.tensors)
  <2> HIDE DEF q3, q4, q5, q6, q7, q8, q9, q10, q11
  <2> QED  BY <1>4
<1>6. /\ BytesQ(GS, d, 4) = 4 * d
      /\ B(v) \in Nat /\ B(cq) \in Nat /\ B(ck) \in Nat /\ B(co) \in Nat /\ B(cf) \in Nat /\ B(cg) \in Nat
  BY <1>2, <1>3, BytesFacts
<1>7. fptr \in Nat
  <2> HIDE DEF d, L
  <2> QED  BY <1>2
<1> HIDE DEF d, h, L, hs, V, v, cq, ck, co, cf, cg
<1> DEFINE IsKind(name) == name \in Kinds
<1>k. /\ IsKind("rms_att") /\ IsKind("wq") /\ IsKind("wk") /\ IsKind("wv") /\ IsKind("q_tokens")
      /\ IsKind("wo") /\ IsKind("rms_ffn") /\ IsKind("w1") /\ IsKind("w2") /\ IsKind("w3")
      /\ IsKind("rms_final") /\ IsKind("wcls")
  BY DEF Kinds
<1>l. \A e, name, n, size : IsListQ(e) /\ IsKind(name) /\ n \in Nat /\ size \in Nat =>
        /\ AddedQ(GS, e, Then(e, EachQ(name, n, size, 4)), name, n, size, 4)
        /\ AddedOneQ(GS, e, Then(e, OneQ(name, size, 4)), name, size, 4)
        /\ AddedQ(GS, e, Then(e, EachQ(name, n, size, 1)), name, n, size, 1)
        /\ AddedOneQ(GS, e, Then(e, OneQ(name, size, 1)), name, size, 1)
  BY ListAddedQ
<1> HIDE DEF IsKind
<1>8. AddedQ(GS, <<>>, e0, "rms_att", L, d, 4)
  <2>1. Then(<<>>, e0) = e0
    BY DEF EachQ, Then
  <2>2. IsListQ(<<>>)
    BY DEF IsListQ
  <2>3. AddedQ(GS, <<>>, Then(<<>>, e0), "rms_att", L, d, 4)
    BY <1>2, <1>k, <1>l, <2>2
  <2> QED  BY <2>1, <2>3
<1>9. IsListQ(e0)
  BY <1>8 DEF AddedQ
<1> HIDE DEF e0
<1>10. AddedQ(GS, e0, e1, "rms_ffn", L, d, 4) /\ IsListQ(e1)
  <2>1. AddedQ(GS, e0, e1, "rms_ffn", L, d, 4)
    BY <1>2, <1>9, <1>k, <1>l
  <2> QED  BY <2>1 DEF AddedQ
<1> HIDE DEF e1
<1>11. AddedOneQ(GS, e1, e2, "rms_final", d, 4) /\ IsListQ(e2)
  <2>1. AddedOneQ(GS, e1, e2, "rms_final", d, 4)
    BY <1>2, <1>10, <1>k, <1>l
  <2> QED  BY <2>1 DEF AddedOneQ
<1> HIDE DEF e2
<1>12. AddedOneQ(GS, e2, e3, "q_tokens", v, 1) /\ IsListQ(e3)
  <2>1. AddedOneQ(GS, e2, e3, "q_tokens", v, 1)
    BY <1>2, <1>3, <1>11, <1>k, <1>l
  <2> QED  BY <2>1 DEF AddedOneQ
<1> HIDE DEF e3
<1>13. AddedQ(GS, e3, e4, "wq", L, cq, 1) /\ IsListQ(e4)
  <2>1. AddedQ(GS, e3, e4, "wq", L, cq, 1)
    BY <1>2, <1>3, <1>12, <1>k, <1>l
  <2> QED  BY <2>1 DEF AddedQ
<1> HIDE DEF e4
<1>14. AddedQ(GS, e4, e5, "wk", L, ck, 1) /\ IsListQ(e5)
  <2>1. AddedQ(GS, e4, e5, "wk", L, ck, 1)
    BY <1>2, <1>3, <1>13, <1>k, <1>l
  <2> QED  BY <2>1 DEF AddedQ
<1> HIDE DEF e5
<1>15. AddedQ(GS, e5, e6, "wv", L, ck, 1) /\ IsListQ(e6)
  <2>1. AddedQ(GS, e5, e6, "wv", L, ck, 1)
    BY <1>2, <1>3, <1>14, <1>k, <1>l
  <2> QED  BY <2>1 DEF AddedQ
<1> HIDE DEF e6
<1>16. AddedQ(GS, e6, e7, "wo", L, co, 1) /\ IsListQ(e7)
  <2>1. AddedQ(GS, e6, e7, "wo", L, co, 1)
    BY <1>2, <1>3, <1>15, <1>k, <1>l
  <2> QED  BY <2>1 DEF AddedQ
<1> HIDE DEF e7
<1>17. AddedQ(GS, e7, e8, "w1", L, cf, 1) /\ IsListQ(e8)
  <2>1. AddedQ(GS, e7, e8, "w1", L, cf, 1)
    BY <1>2, <1>3, <1>16, <1>k, <1>l
  <2> QED  BY <2>1 DEF AddedQ
<1> HIDE DEF e8
<1>18. AddedQ(GS, e8, e9, "w2", L, cg, 1) /\ IsListQ(e9)
  <2>1. AddedQ(GS, e8, e9, "w2", L, cg, 1)
    BY <1>2, <1>3, <1>17, <1>k, <1>l
  <2> QED  BY <2>1 DEF AddedQ
<1> HIDE DEF e9
<1>19. AddedQ(GS, e9, e10, "w3", L, cf, 1) /\ IsListQ(e10)
  <2>1. AddedQ(GS, e9, e10, "w3", L, cf, 1)
    BY <1>2, <1>3, <1>18, <1>k, <1>l
  <2> QED  BY <2>1 DEF AddedQ
<1> HIDE DEF e10
<1>20. /\ IsListQ(e11) /\ Keeps(W, e10, e11)
       /\ ~shared => PlacedOneQ(GS, e11, "wcls", v, 1, Total(W, e10))
  <2>1. CASE ~shared
    <3>1. AddedOneQ(GS, e10, Then(e10, OneQ("wcls", v, 1)), "wcls", v, 1)
      BY <1>2, <1>3, <1>19, <1>k, <1>l
    <3> QED  BY <2>1, <3>1 DEF AddedOneQ
  <2>2. CASE shared
    <3>1. e11 = e10
      <4> DEFINE R == TensorQ
      <4> HIDE DEF R
      <4>1. e10 \in Seq(R)
        BY <1>19 DEF R, IsListQ
      <4>2. e11 = e10 \o <<>>
        BY <2>2 DEF Then
      <4>3. e10 \o <<>> = e10
        BY <4>1
      <4> QED  BY <4>2, <4>3
    <3> QED  BY <1>19, <2>2, <3>1 DEF Keeps
  <2> QED  BY <2>1, <2>2
<1> HIDE DEF e11, W
<1>21. /\ Keeps(W, e11, e11) /\ Keeps(W, e10, e11) /\ Keeps(W, e9, e11) /\ Keeps(W, e8, e11)
       /\ Keeps(W, e7, e11) /\ Keeps(W, e6, e11) /\ Keeps(W, e5, e11) /\ Keeps(W, e4, e11)
       /\ Keeps(W, e3, e11) /\ Keeps(W, e2, e11) /\ Keeps(W, e1, e11) /\ Keeps(W, e0, e11)
  <2>1. \A a, b, c : Keeps(W, a, b) /\ Keeps(W, b, c) => Keeps(W, a, c)
    BY DEF Keeps
  <2>2. /\ Keeps(W, e0, e1) /\ Keeps(W, e3, e4) /\ Keeps(W, e4, e5) /\ Keeps(W, e5, e6)
        /\ Keeps(W, e6, e7) /\ Keeps(W, e7, e8) /\ Keeps(W, e8, e9) /\ Keeps(W, e9, e10)
    BY <1>10, <1>13, <1>14, <1>15, <1>16, <1>17, <1>18, <1>19 DEF AddedQ, W
  <2>3. Keeps(W, e1, e2) /\ Keeps(W, e2, e3) /\ Keeps(W, e11, e11)
    BY <1>11, <1>12 DEF AddedOneQ, Keeps, W
  <2> QED  BY <1>20, <2>1, <2>2, <2>3
<1> DEFINE n3 == q3.next
           n4 == q4.next
           n5 == q5.next
           n6 == q6.next
           n7 == q7.next
           n8 == q8.next
           n9 == q9.next
           n10 == q10.next
<1> HIDE DEF B, fptr
<1>22. n3 = fptr + 1 * B(v)
  BY <1>3, <1>7, PointersAre DEF B
<1>23. n3 \in Nat
  BY <1>6, <1>7, <1>22
<1> HIDE DEF n3
<1>24. n4 = n3 + L * B(cq)
  <2>1. q4 = init_quantized_tensors(n3, L, cq)
    BY DEF n3
  <2> HIDE DEF q4
  <2> QED  BY <1>2, <1>3, <1>23, <2>1, PointersAre DEF B
<1>25. n4 \in Nat
  <2> HIDE DEF q4
  <2> QED  BY <1>2, <1>6, <1>23, <1>24
<1> HIDE DEF n4
<1>26. n5 = n4 + L * B(ck)
  <2>1. q5 = init_quantized_tensors(n4, L, ck)
    BY DEF n4
  <2> HIDE DEF q5
  <2> QED  BY <1>2, <1>3, <1>25, <2>1, PointersAre DEF B
<1>27. n5 \in Nat
  <2> HIDE DEF q5
  <2> QED  BY <1>2, <1>6, <1>25, <1>26
<1> HIDE DEF n5
<1>28. n6 = n5 + L * B(ck)
  <2>1. q6 = init_quantized_tensors(n5, L, ck)
    BY DEF n5
  <2> HIDE DEF q6
  <2> QED  BY <1>2, <1>3, <1>27, <2>1, PointersAre DEF B
<1>29. n6 \in Nat
  <2> HIDE DEF q6
  <2> QED  BY <1>2, <1>6, <1>27, <1>28
<1> HIDE DEF n6
<1>30. n7 = n6 + L * B(co)
  <2>1. q7 = init_quantized_tensors(n6, L, co)
    BY DEF n6
  <2> HIDE DEF q7
  <2> QED  BY <1>2, <1>3, <1>29, <2>1, PointersAre DEF B
<1>31. n7 \in Nat
  <2> HIDE DEF q7
  <2> QED  BY <1>2, <1>6, <1>29, <1>30
<1> HIDE DEF n7
<1>32. n8 = n7 + L * B(cf)
  <2>1. q8 = init_quantized_tensors(n7, L, cf)
    BY DEF n7
  <2> HIDE DEF q8
  <2> QED  BY <1>2, <1>3, <1>31, <2>1, PointersAre DEF B
<1>33. n8 \in Nat
  <2> HIDE DEF q8
  <2> QED  BY <1>2, <1>6, <1>31, <1>32
<1> HIDE DEF n8
<1>34. n9 = n8 + L * B(cg)
  <2>1. q9 = init_quantized_tensors(n8, L, cg)
    BY DEF n8
  <2> HIDE DEF q9
  <2> QED  BY <1>2, <1>3, <1>33, <2>1, PointersAre DEF B
<1>35. n9 \in Nat
  <2> HIDE DEF q9
  <2> QED  BY <1>2, <1>6, <1>33, <1>34
<1> HIDE DEF n9
<1>36. n10 = n9 + L * B(cf)
  <2>1. q10 = init_quantized_tensors(n9, L, cf)
    BY DEF n9
  <2> HIDE DEF q10
  <2> QED  BY <1>2, <1>3, <1>35, <2>1, PointersAre DEF B
<1>37. n10 \in Nat
  <2> HIDE DEF q10
  <2> QED  BY <1>2, <1>6, <1>35, <1>36
<1> HIDE DEF n10
<1>38. /\ Total(W, e0) = 4 * L * d /\ Total(W, e1) = 8 * L * d /\ Total(W, e2) = fptr
  <2>1. /\ Total(W, <<>>) = 0 /\ Total(W, e0) = Total(W, <<>>) + L * BytesQ(GS, d, 4)
        /\ Total(W, e1) = Total(W, e0) + L * BytesQ(GS, d, 4)
        /\ Total(W, e2) = Total(W, e1) + BytesQ(GS, d, 4)
    <3>1. Len(<<>>) + 1 = 1 /\ 1 \in Nat \ {0}
      OBVIOUS
    <3>2. Total(W, <<>>) = 0
      BY <3>1, StartNext DEF Total
    <3> QED  BY <1>8, <1>10, <1>11, <3>2 DEF AddedQ, AddedOneQ, W
  <2>2. L * (4 * d) = 4 * L * d /\ 4 * L * d + L * (4 * d) = 8 * L * d
        /\ 8 * L * d + 4 * d = fptr /\ 0 + L * (4 * d) = L * (4 * d)
    BY <1>2 DEF fptr
  <2> QED  BY <1>6, <2>1, <2>2
<1>39. /\ Total(W, e3) = n3 /\ Total(W, e4) = n4 /\ Total(W, e5) = n5 /\ Total(W, e6) = n6
       /\ Total(W, e7) = n7 /\ Total(W, e8) = n8 /\ Total(W, e9) = n9 /\ Total(W, e10) = n10
  <2>1. Total(W, e3) = Total(W, e2) + B(v)
    BY <1>12 DEF AddedOneQ, W, B
  <2>2. /\ Total(W, e4) = Total(W, e3) + L * B(cq) /\ Total(W, e5) = Total(W, e4) + L * B(ck)
        /\ Total(W, e6) = Total(W, e5) + L * B(ck) /\ Total(W, e7) = Total(W, e6) + L * B(co)
        /\ Total(W, e8) = Total(W, e7) + L * B(cf) /\ Total(W, e9) = Total(W, e8) + L * B(cg)
        /\ Total(W, e10) = Total(W, e9) + L * B(cf)
    BY <1>13, <1>14, <1>15, <1>16, <1>17, <1>18, <1>19 DEF AddedQ, W, B
  <2>3. 1 * B(v) = B(v)
    BY <1>6
  <2> QED  BY <1>22, <1>24, <1>26, <1>28, <1>30, <1>32, <1>34, <1>36, <1>38, <2>1, <2>2, <2>3
<1>40. PlacedQ(GS, e11, "rms_att", L, d, 4, 0)
  <2>1. Total(W, <<>>) = 0
    <3>1. Len(<<>>) + 1 = 1 /\ 1 \in Nat \ {0}
      OBVIOUS
    <3> QED  BY <3>1, StartNext DEF Total
  <2>2. PlacedQ(GS, e0, "rms_att", L, d, 4, 0)
    BY <1>8, <2>1 DEF AddedQ, W
  <2> QED  BY <1>21, <2>2, PlacedStaysQ DEF W
<1>41. PlacedQ(GS, e11, "rms_ffn", L, d, 4, 4 * L * d)
  <2>1. PlacedQ(GS, e1, "rms_ffn", L, d, 4, Total(W, e0))
    BY <1>10 DEF AddedQ, W
  <2> QED  BY <1>21, <1>38, <2>1, PlacedStaysQ DEF W
<1>42. PlacedOneQ(GS, e11, "rms_final", d, 4, 8 * L * d)
  <2>1. PlacedOneQ(GS, e2, "rms_final", d, 4, Total(W, e1))
    BY <1>11 DEF AddedOneQ, W
  <2> QED  BY <1>21, <1>38, <2>1, PlacedStaysQ DEF W
<1>43. PointedOne(GS, e11, q3.tensors[1], "q_tokens", v)
  <2>1. PlacedOneQ(GS, e3, "q_tokens", v, 1, Total(W, e2))
    BY <1>12 DEF AddedOneQ, W
  <2>2. PlacedOneQ(GS, e11, "q_tokens", v, 1, fptr)
    BY <1>21, <1>38, <2>1, PlacedStaysQ DEF W
  <2> QED  BY <1>3, <1>7, <2>2, PointersAre
<1>44. Pointed(GS, e11, q4.tensors, "wq", L, cq)
  <2>1. PlacedQ(GS, e4, "wq", L, cq, 1, n3)
    BY <1>13, <1>39 DEF AddedQ, W
  <2>2. PlacedQ(GS, e11, "wq", L, cq, 1, n3)
    BY <1>21, <2>1, PlacedStaysQ DEF W
  <2>3. q4 = init_quantized_tensors(n3, L, cq)
    BY DEF n3
  <2> HIDE DEF q4
  <2> QED  BY <1>2, <1>3, <1>23, <2>2, <2>3, PointersAre
<1>45. Pointed(GS, e11, q5.tensors, "wk", L, ck)
  <2>1. PlacedQ(GS, e5, "wk", L, ck, 1, n4)
    BY <1>14, <1>39 DEF AddedQ, W
  <2>2. PlacedQ(GS, e11, "wk", L, ck, 1, n4)
    BY <1>21, <2>1, PlacedStaysQ DEF W
  <2>3. q5 = init_quantized_tensors(n4, L, ck)
    BY DEF n4
  <2> HIDE DEF q5
  <2> QED  BY <1>2, <1>3, <1>25, <2>2, <2>3, PointersAre
<1>46. Pointed(GS, e11, q6.tensors, "wv", L, ck)
  <2>1. PlacedQ(GS, e6, "wv", L, ck, 1, n5)
    BY <1>15, <1>39 DEF AddedQ, W
  <2>2. PlacedQ(GS, e11, "wv", L, ck, 1, n5)
    BY <1>21, <2>1, PlacedStaysQ DEF W
  <2>3. q6 = init_quantized_tensors(n5, L, ck)
    BY DEF n5
  <2> HIDE DEF q6
  <2> QED  BY <1>2, <1>3, <1>27, <2>2, <2>3, PointersAre
<1>47. Pointed(GS, e11, q7.tensors, "wo", L, co)
  <2>1. PlacedQ(GS, e7, "wo", L, co, 1, n6)
    BY <1>16, <1>39 DEF AddedQ, W
  <2>2. PlacedQ(GS, e11, "wo", L, co, 1, n6)
    BY <1>21, <2>1, PlacedStaysQ DEF W
  <2>3. q7 = init_quantized_tensors(n6, L, co)
    BY DEF n6
  <2> HIDE DEF q7
  <2> QED  BY <1>2, <1>3, <1>29, <2>2, <2>3, PointersAre
<1>48. Pointed(GS, e11, q8.tensors, "w1", L, cf)
  <2>1. PlacedQ(GS, e8, "w1", L, cf, 1, n7)
    BY <1>17, <1>39 DEF AddedQ, W
  <2>2. PlacedQ(GS, e11, "w1", L, cf, 1, n7)
    BY <1>21, <2>1, PlacedStaysQ DEF W
  <2>3. q8 = init_quantized_tensors(n7, L, cf)
    BY DEF n7
  <2> HIDE DEF q8
  <2> QED  BY <1>2, <1>3, <1>31, <2>2, <2>3, PointersAre
<1>49. Pointed(GS, e11, q9.tensors, "w2", L, cg)
  <2>1. PlacedQ(GS, e9, "w2", L, cg, 1, n8)
    BY <1>18, <1>39 DEF AddedQ, W
  <2>2. PlacedQ(GS, e11, "w2", L, cg, 1, n8)
    BY <1>21, <2>1, PlacedStaysQ DEF W
  <2>3. q9 = init_quantized_tensors(n8, L, cg)
    BY DEF n8
  <2> HIDE DEF q9
  <2> QED  BY <1>2, <1>3, <1>33, <2>2, <2>3, PointersAre
<1>50. Pointed(GS, e11, q10.tensors, "w3", L, cf)
  <2>1. PlacedQ(GS, e10, "w3", L, cf, 1, n9)
    BY <1>19, <1>39 DEF AddedQ, W
  <2>2. PlacedQ(GS, e11, "w3", L, cf, 1, n9)
    BY <1>21, <2>1, PlacedStaysQ DEF W
  <2>3. q10 = init_quantized_tensors(n9, L, cf)
    BY DEF n9
  <2> HIDE DEF q10
  <2> QED  BY <1>2, <1>3, <1>35, <2>2, <2>3, PointersAre
<1>51. ~shared => PointedOne(GS, e11, q11.tensors[1], "wcls", v)
  <2>1. ~shared => PlacedOneQ(GS, e11, "wcls", v, 1, n10)
    BY <1>20, <1>39
  <2>2. q11 = init_quantized_tensors(n10, 1, v)
    BY DEF n10
  <2> HIDE DEF q11
  <2> QED  BY <1>3, <1>37, <2>1, <2>2, PointersAre
<1>52. e11 \in Seq(TensorQ)
  BY <1>20 DEF IsListQ
<1> HIDE DEF q3, q4, q5, q6, q7, q8, q9, q10, q11
<1> DEFINE Good(e, a, b, c, f) ==
        /\ e \in Seq(TensorQ)
        /\ PlacedQ(GS, e, "rms_att", L, d, 4, m.rms_att_weight)
        /\ PlacedQ(GS, e, "rms_ffn", L, d, 4, m.rms_ffn_weight)
        /\ PlacedOneQ(GS, e, "rms_final", d, 4, m.rms_final_weight)
        /\ PointedOne(GS, e, m.q_tokens[1], "q_tokens", v)
        /\ Pointed(GS, e, m.wq, "wq", L, a)
        /\ Pointed(GS, e, m.wk, "wk", L, b)
        /\ Pointed(GS, e, m.wv, "wv", L, b)
        /\ Pointed(GS, e, m.wo, "wo", L, c)
        /\ Pointed(GS, e, m.w1, "w1", L, cf)
        /\ Pointed(GS, e, m.w2, "w2", L, f)
        /\ Pointed(GS, e, m.w3, "w3", L, cf)
        /\ IF shared THEN m.wcls[1] = m.q_tokens[1] ELSE PointedOne(GS, e, m.wcls[1], "wcls", v)
<1>53. Good(e11, cq, ck, co, cg)
  BY <1>5, <1>40, <1>41, <1>42, <1>43, <1>44, <1>45, <1>46, <1>47, <1>48, <1>49, <1>50, <1>51, <1>52
<1>54. Good(e11, d * (p.n_heads * hs), d * (p.n_kv_heads * hs), (p.n_heads * hs) * d, cg)
  <2> HIDE DEF Good
  <2> QED  BY <1>3, <1>53
<1> QED  BY <1>1, <1>54 DEF d, h, L, hs, V, v, cf, cg, m

\* The checkpoint of runq.c that p is of is loaded.
LoadedRunq(p, shared) ==
  /\ Shaped(p) /\ p.vocab_size > 0 /\ GS \in Nat \ {0}
  /\ config = p /\ weights = MapWeightsQ(p, shared)

\* The tensors that forward takes for a layer are those of the layer.
LEMMA LayerTensorsQ ==
  ASSUME NEW p, NEW shared, LoadedRunq(p, shared), layer \in 0 .. p.n_layers - 1
  PROVE  LET d == config.dim
             file == ExportedQ(p, shared, GS)
             norm(off) == Slab(file, off + 4 * layer * d, d)
             of(w, n) == SlabQ(file, w[layer + 1], n)
         IN  [rms_att |-> norm(weights.rms_att_weight), rms_ffn |-> norm(weights.rms_ffn_weight),
              wq |-> of(weights.wq, d * d), wk |-> of(weights.wk, d * kv_dim(config)),
              wv |-> of(weights.wv, d * kv_dim(config)), wo |-> of(weights.wo, d * d),
              w1 |-> of(weights.w1, d * config.hidden_dim), w2 |-> of(weights.w2, d * config.hidden_dim),
              w3 |-> of(weights.w3, d * config.hidden_dim)]
             = Named(layer)
PROOF
<1> DEFINE d == p.dim
           h == p.hidden_dim
           kv == kv_dim(p)
           hs == head_size(p)
           nh == p.n_heads
           nkv == p.n_kv_heads
           L == p.n_layers
           e == ListQ(p, shared)
           file == ExportedQ(p, shared, GS)
           norm(off) == Slab(file, off + 4 * layer * d, d)
           of(w, n) == SlabQ(file, w[layer + 1], n)
<1>1. Shaped(p) /\ p.vocab_size > 0 /\ weights = MapWeightsQ(p, shared) /\ config = p /\ GS \in Nat \ {0}
  BY DEF LoadedRunq
<1>2. /\ d \in Nat \ {0} /\ h \in Nat \ {0} /\ kv \in Nat \ {0} /\ hs \in Nat \ {0} /\ L \in Nat
      /\ nh \in Nat \ {0} /\ nkv \in Nat \ {0} /\ d = nh * hs /\ kv = nkv * hs
  BY <1>1, ShapeFacts
<1>3. /\ e \in Seq(TensorQ)
      /\ PlacedQ(GS, e, "rms_att", L, d, 4, weights.rms_att_weight)
      /\ PlacedQ(GS, e, "rms_ffn", L, d, 4, weights.rms_ffn_weight)
      /\ Pointed(GS, e, weights.wq, "wq", L, d * (nh * hs))
      /\ Pointed(GS, e, weights.wk, "wk", L, d * (nkv * hs))
      /\ Pointed(GS, e, weights.wv, "wv", L, d * (nkv * hs))
      /\ Pointed(GS, e, weights.wo, "wo", L, (nh * hs) * d)
      /\ Pointed(GS, e, weights.w1, "w1", L, d * h)
      /\ Pointed(GS, e, weights.w2, "w2", L, h * d)
      /\ Pointed(GS, e, weights.w3, "w3", L, d * h)
  BY <1>1, LayoutQ
<1> HIDE DEF d, h, kv, hs, nh, nkv, L, e
<1>4. /\ d * (nh * hs) = d * d /\ d * (nkv * hs) = d * kv /\ (nh * hs) * d = d * d /\ h * d = d * h
      /\ d * d \in Nat \ {0} /\ d * kv \in Nat \ {0} /\ d * h \in Nat \ {0}
  <2>1. h * d = d * h /\ d * d \in Nat \ {0} /\ d * kv \in Nat \ {0} /\ d * h \in Nat \ {0}
    BY <1>2
  <2> QED  BY <1>2, <2>1
<1>5. layer \in 0 .. L - 1 /\ layer \in Nat
  BY <1>2 DEF L
<1> HIDE DEF file
<1>6. ASSUME NEW name, NEW st, PlacedQ(GS, e, name, L, d, 4, st) PROVE norm(st) = <<name, layer>>
  <2>1. Has(BytesOf(GS), e, TQ(<<name, layer>>, d, 4), st + layer * BytesQ(GS, d, 4))
    BY <1>5, <1>6 DEF PlacedQ
  <2>2. layer * BytesQ(GS, d, 4) = 4 * layer * d
    <3>1. BytesQ(GS, d, 4) = 4 * d
      BY <1>1, <1>2, BytesFacts
    <3> QED  BY <1>2, <1>5, <3>1
  <2>3. Has(BytesOf(GS), e, TQ(<<name, layer>>, d, 4), st + 4 * layer * d)
    BY <2>1, <2>2
  <2> QED  BY ONLY <1>1, <1>2, <1>3, <2>3, SlabIsQ DEF e, file
<1>7. ASSUME NEW name, NEW w, NEW n \in Nat \ {0}, Pointed(GS, e, w, name, L, n)
      PROVE  of(w, n) = <<name, layer>>
  <2>1. /\ Has(BytesOf(GS), e, TQ(<<name, layer>>, n, 1), w[layer + 1].q)
        /\ w[layer + 1].s = w[layer + 1].q + n
    BY <1>5, <1>7 DEF Pointed
  <2> DEFINE t == w[layer + 1]
  <2>2. Has(BytesOf(GS), e, TQ(<<name, layer>>, n, 1), t.q) /\ t.s = t.q + n
    BY <2>1
  <2> HIDE DEF t
  <2>3. SlabQ(file, t, n) = <<name, layer>>
    BY ONLY <1>1, <1>3, <2>2, n \in Nat \ {0}, SlabIsQ DEF e, file
  <2> QED  BY <2>3 DEF t
<1> HIDE DEF of, norm
<1>8. /\ norm(weights.rms_att_weight) = <<"rms_att", layer>>
      /\ norm(weights.rms_ffn_weight) = <<"rms_ffn", layer>>
      /\ of(weights.wq, d * d) = <<"wq", layer>>
      /\ of(weights.wk, d * kv) = <<"wk", layer>>
      /\ of(weights.wv, d * kv) = <<"wv", layer>>
      /\ of(weights.wo, d * d) = <<"wo", layer>>
      /\ of(weights.w1, d * h) = <<"w1", layer>>
      /\ of(weights.w2, d * h) = <<"w2", layer>>
      /\ of(weights.w3, d * h) = <<"w3", layer>>
  BY <1>3, <1>4, <1>6, <1>7
<1>9. config.dim = d /\ kv_dim(config) = kv /\ config.hidden_dim = h
  BY <1>1 DEF d, kv, h
<1> QED  BY <1>8, <1>9 DEF of, norm, Named, file

\* The final norm, the embeddings and the classifier are found.
LEMMA ClassifierIsQ ==
  ASSUME NEW p, NEW shared, LoadedRunq(p, shared)
  PROVE  LET file == ExportedQ(p, shared, GS)
         IN  /\ Slab(file, weights.rms_final_weight, config.dim) = <<"rms_final">>
             /\ SlabQ(file, weights.q_tokens[1], config.vocab_size * config.dim) = <<"q_tokens">>
             /\ SlabQ(file, weights.wcls[1], config.dim * config.vocab_size)
                = IF shared THEN <<"q_tokens">> ELSE <<"wcls">>
PROOF
<1> DEFINE d == p.dim
           v == p.vocab_size * d
           e == ListQ(p, shared)
           file == ExportedQ(p, shared, GS)
<1>1. Shaped(p) /\ p.vocab_size > 0 /\ weights = MapWeightsQ(p, shared) /\ config = p /\ GS \in Nat \ {0}
  BY DEF LoadedRunq
<1>2. d \in Nat \ {0} /\ v \in Nat \ {0} /\ d * p.vocab_size = v
  <2>1. d \in Nat \ {0} /\ p.vocab_size \in Nat \ {0}
    BY <1>1, ShapeFacts
  <2> HIDE DEF d
  <2> QED  BY <2>1
<1>3. /\ e \in Seq(TensorQ)
      /\ PlacedOneQ(GS, e, "rms_final", d, 4, weights.rms_final_weight)
      /\ PointedOne(GS, e, weights.q_tokens[1], "q_tokens", v)
      /\ IF shared THEN weights.wcls[1] = weights.q_tokens[1]
         ELSE PointedOne(GS, e, weights.wcls[1], "wcls", v)
  BY <1>1, LayoutQ
<1> HIDE DEF v, e, file
<1>4. Slab(file, weights.rms_final_weight, d) = <<"rms_final">>
  BY <1>1, <1>2, <1>3, SlabIsQ DEF e, file, PlacedOneQ
<1>5. ASSUME NEW t, NEW name, PointedOne(GS, e, t, name, v) PROVE SlabQ(file, t, v) = <<name>>
  BY <1>1, <1>2, <1>3, <1>5, SlabIsQ DEF e, file, PointedOne
<1>6. SlabQ(file, weights.q_tokens[1], v) = <<"q_tokens">>
  BY <1>3, <1>5
<1>7. SlabQ(file, weights.wcls[1], v) = IF shared THEN <<"q_tokens">> ELSE <<"wcls">>
  BY <1>3, <1>5, <1>6
<1>8. config.dim = d /\ config.vocab_size * config.dim = v /\ config.dim * config.vocab_size = v
  BY <1>1, <1>2 DEF v
<1> QED  BY <1>4, <1>6, <1>7, <1>8 DEF file

-----------------------------------------------------------------------------
(***************************************************************************)
(* The rows of the caches.                                                 *)
(***************************************************************************)

\* A row of a cache: its place among the rows, and the places of its heads.
LEMMA RowIndex ==
  ASSUME NEW L \in Nat, NEW S \in Nat, NEW l \in 0 .. L - 1, NEW t \in 0 .. S - 1
  PROVE  /\ l * S + t \in 0 .. L * S - 1
         /\ \A k \in 0 .. L - 1, u \in 0 .. S - 1 : k * S + u = l * S + t => k = l /\ u = t
PROOF
<1>1. /\ l \in Nat /\ t \in Nat /\ l + 1 <= L /\ t < S
      /\ l * S \in Nat /\ L * S \in Nat
  OBVIOUS
<1>2. l * S + S <= L * S
  <2>1. (L - (l + 1)) * S >= 0
    BY <1>1
  <2>2. (L - (l + 1)) * S = L * S - (l * S + S)
    BY <1>1
  <2> QED  BY <1>1, <2>1, <2>2
<1>3. l * S + t \in 0 .. L * S - 1
  BY <1>1, <1>2
<1>4. ASSUME NEW k \in 0 .. L - 1, NEW u \in 0 .. S - 1, k * S + u = l * S + t PROVE k = l /\ u = t
  <2>1. k \in Nat /\ u \in Nat /\ u < S /\ k * S \in Nat
    OBVIOUS
  <2>2. (k - l) * S = t - u
    <3>1. (k - l) * S = k * S - l * S
      BY <1>1, <2>1
    <3> QED  BY <1>1, <1>4, <2>1, <3>1
  <2>3. ~(k - l >= 1)
    <3>1. SUFFICES ASSUME k - l >= 1 PROVE FALSE
      OBVIOUS
    <3>2. (k - l) * S >= S
      <4> DEFINE x == k - l
      <4>1. x \in Int /\ x >= 1
        BY <1>1, <2>1, <3>1
      <4> HIDE DEF x
      <4>2. x * S >= S
        BY <4>1
      <4> QED  BY <4>2 DEF x
    <3> QED  BY <1>1, <2>1, <2>2, <3>2
  <2>4. ~(k - l <= -1)
    <3>1. SUFFICES ASSUME k - l <= -1 PROVE FALSE
      OBVIOUS
    <3>2. (k - l) * S <= -S
      <4> DEFINE x == k - l
      <4>1. x \in Int /\ x <= -1
        BY <1>1, <2>1, <3>1
      <4> HIDE DEF x
      <4>2. x * S <= -S
        BY <4>1
      <4> QED  BY <4>2 DEF x
    <3> QED  BY <1>1, <2>1, <2>2, <3>2
  <2>5. k = l
    BY <1>1, <2>1, <2>3, <2>4
  <2> QED  BY <1>1, <1>4, <2>1, <2>5
<1> QED  BY <1>3, <1>4

\* Head g of row r is at its place in the row, and in no other.
LEMMA HeadPlace ==
  ASSUME NEW R \in Nat, NEW n \in Nat \ {0}, NEW hs \in Nat \ {0}, NEW kv, kv = n * hs,
         NEW r \in 0 .. R - 1, NEW q \in 0 .. R - 1, NEW g \in 0 .. n - 1
  PROVE  LET o == r * kv + g * hs
         IN  /\ o \in 0 .. R * kv - 1
             /\ o >= r * kv /\ o < r * kv + kv /\ (o - r * kv) % hs = 0 /\ (o - r * kv) \div hs = g
             /\ q # r => ~(o >= q * kv /\ o < q * kv + kv)
PROOF
<1> DEFINE a == r * kv
           b == g * hs
           c == q * kv
           o == a + b
<1>1. kv \in Nat \ {0} /\ a \in Nat /\ b \in Nat /\ c \in Nat /\ r \in Nat /\ q \in Nat /\ g \in Nat
  OBVIOUS
<1>2. b < kv
  <2>1. (n - 1 - g) * hs >= 0
    <3> DEFINE x == n - 1 - g
    <3>1. x \in Nat
      OBVIOUS
    <3> HIDE DEF x
    <3>2. x * hs >= 0
      BY <3>1
    <3> QED  BY <3>2 DEF x
  <2>2. (n - 1 - g) * hs = n * hs - hs - g * hs
    OBVIOUS
  <2> QED  BY <1>1, <2>1, <2>2
<1>3. a + kv <= R * kv
  <2>1. (R - 1 - r) * kv >= 0
    <3> DEFINE x == R - 1 - r
    <3>1. x \in Nat
      OBVIOUS
    <3> HIDE DEF x
    <3>2. x * kv >= 0
      BY <1>1, <3>1
    <3> QED  BY <3>2 DEF x
  <2>2. (R - 1 - r) * kv = R * kv - kv - r * kv /\ R * kv \in Nat
    BY <1>1
  <2> QED  BY <1>1, <2>1, <2>2
<1>4. q # r => a + kv <= c \/ c + kv <= a
  <2>1. CASE q > r
    <3>1. (q - 1 - r) * kv >= 0
      <4> DEFINE x == q - 1 - r
      <4>1. x \in Nat
        BY <1>1, <2>1
      <4> HIDE DEF x
      <4>2. x * kv >= 0
        BY <1>1, <4>1
      <4> QED  BY <4>2 DEF x
    <3>2. (q - 1 - r) * kv = q * kv - kv - r * kv
      BY <1>1
    <3> QED  BY <1>1, <3>1, <3>2
  <2>2. CASE r > q
    <3>1. (r - 1 - q) * kv >= 0
      <4> DEFINE x == r - 1 - q
      <4>1. x \in Nat
        BY <1>1, <2>2
      <4> HIDE DEF x
      <4>2. x * kv >= 0
        BY <1>1, <4>1
      <4> QED  BY <4>2 DEF x
    <3>2. (r - 1 - q) * kv = r * kv - kv - q * kv
      BY <1>1
    <3> QED  BY <1>1, <3>1, <3>2
  <2> QED  BY <1>1, <2>1, <2>2
<1>5. b % hs = 0 /\ b \div hs = g
  BY <1>1, QuotientOf
<1>6. o - a = b
  BY <1>1
<1>7. R * kv \in Nat
  BY <1>1
<1> HIDE DEF a, b, c
<1>8. /\ o \in 0 .. R * kv - 1 /\ o >= a /\ o < a + kv
      /\ q # r => ~(o >= c /\ o < c + kv)
  BY <1>1, <1>2, <1>3, <1>4, <1>7
<1> QED  BY <1>5, <1>6, <1>8 DEF a, b, c

RowStart(p, l, t) == l * p.seq_len * kv_dim(p) + t * kv_dim(p)
Rows(p) == 0 .. p.n_layers * p.seq_len * kv_dim(p) - 1

\* Storing a vector at a row puts its heads there, and leaves the other rows alone.
LEMMA StoredRow ==
  ASSUME Shaped(config), NEW c, DOMAIN c = Rows(config),
         NEW l \in 0 .. config.n_layers - 1, NEW t \in 0 .. config.seq_len - 1, NEW v
  PROVE  LET hs == head_size(config)
             s == Stored(c, RowStart(config, l, t), v)
         IN  /\ DOMAIN s = Rows(config)
             /\ \A g \in 0 .. config.n_kv_heads - 1 :
                  At(s, RowStart(config, l, t) + g * hs) = HeadOf(v, g)
             /\ \A k \in 0 .. config.n_layers - 1, u \in 0 .. config.seq_len - 1,
                   g \in 0 .. config.n_kv_heads - 1 :
                  k # l \/ u # t =>
                    At(s, RowStart(config, k, u) + g * hs) = At(c, RowStart(config, k, u) + g * hs)
PROOF
<1> DEFINE hs == head_size(config)
           kv == kv_dim(config)
           L == config.n_layers
           S == config.seq_len
           n == config.n_kv_heads
           R == L * S
           off == RowStart(config, l, t)
           s == Stored(c, off, v)
<1>1. /\ hs \in Nat \ {0} /\ kv \in Nat \ {0} /\ L \in Nat \ {0} /\ S \in Nat \ {0} /\ n \in Nat \ {0}
      /\ kv = n * hs
  BY ShapeFacts
<1>2. /\ s = [o \in DOMAIN c |->
               IF o >= off /\ o < off + kv /\ (o - off) % hs = 0
               THEN HeadOf(v, (o - off) \div hs) ELSE c[o]]
  BY DEF Stored
<1>3. DOMAIN c = 0 .. R * kv - 1
  BY DEF Rows
<1>4. \A k \in 0 .. L - 1, u \in 0 .. S - 1 :
        RowStart(config, k, u) = (k * S + u) * kv /\ k * S + u \in 0 .. R - 1
  <2> SUFFICES ASSUME NEW k \in 0 .. L - 1, NEW u \in 0 .. S - 1
               PROVE  RowStart(config, k, u) = (k * S + u) * kv /\ k * S + u \in 0 .. R - 1
    OBVIOUS
  <2>1. RowStart(config, k, u) = k * S * kv + u * kv
    BY DEF RowStart
  <2> HIDE DEF L, S, kv
  <2>2. k * S * kv + u * kv = (k * S + u) * kv
    BY <1>1
  <2> QED  BY <1>1, <2>1, <2>2, RowIndex
<1>5. R \in Nat
  BY <1>1
<1>6. DOMAIN s = Rows(config)
  BY <1>2
<1> HIDE DEF s, hs, kv, L, S, n, off
<1> DEFINE r == l * S + t
<1>7. r \in 0 .. R - 1 /\ off = r * kv
  BY <1>4 DEF off, L, S
<1>8. ASSUME NEW g \in 0 .. n - 1 PROVE At(s, off + g * hs) = HeadOf(v, g)
  <2> DEFINE o == off + g * hs
  <2>1. /\ o \in 0 .. R * kv - 1 /\ o >= off /\ o < off + kv
        /\ (o - off) % hs = 0 /\ (o - off) \div hs = g
    <3> HIDE DEF r, R
    <3> QED  BY <1>1, <1>5, <1>7, HeadPlace
  <2> HIDE DEF o
  <2> QED  BY <1>2, <1>3, <2>1 DEF At, o
<1>9. ASSUME NEW k \in 0 .. L - 1, NEW u \in 0 .. S - 1, NEW g \in 0 .. n - 1, k # l \/ u # t
      PROVE  At(s, RowStart(config, k, u) + g * hs) = At(c, RowStart(config, k, u) + g * hs)
  <2> DEFINE q == k * S + u
             o == RowStart(config, k, u) + g * hs
  <2>1. q \in 0 .. R - 1 /\ RowStart(config, k, u) = q * kv
    BY <1>4
  <2>2. q # r
    <3>1. l \in 0 .. L - 1 /\ t \in 0 .. S - 1
      BY DEF L, S
    <3> QED  BY <1>1, <1>9, <3>1, RowIndex
  <2>3. o \in 0 .. R * kv - 1 /\ ~(o >= off /\ o < off + kv)
    <3> HIDE DEF r, R, q
    <3> QED  BY <1>1, <1>5, <1>7, <2>1, <2>2, HeadPlace
  <2> HIDE DEF o
  <2> QED  BY <1>2, <1>3, <2>3 DEF At, o
<1> QED  BY <1>6, <1>8, <1>9 DEF s, hs, L, S, n, off

-----------------------------------------------------------------------------
(***************************************************************************)
(* What a position depends on.                                             *)
(***************************************************************************)

\* The reference, position by position.
KeyAt(gs, x, lay, u) == Rope(Product(gs, Rms(x[u], <<"rms_att", lay>>), <<"wk", lay>>), u)
ValueAt(gs, x, lay, u) == Product(gs, Rms(x[u], <<"rms_att", lay>>), <<"wv", lay>>)
HeadsAt(gs, p, lay, x, t) ==
  [h \in 0 .. p.n_heads - 1 |->
     Attention(HeadOf(Rope(Product(gs, Rms(x[t], <<"rms_att", lay>>), <<"wq", lay>>), t), h),
               [u \in 0 .. t |-> HeadOf(KeyAt(gs, x, lay, u), (h * p.n_kv_heads) \div p.n_heads)],
               [u \in 0 .. t |-> HeadOf(ValueAt(gs, x, lay, u), (h * p.n_kv_heads) \div p.n_heads)])]
FeedForward(gs, lay, v, heads) ==
  LET y == Add(v, Product(gs, heads, <<"wo", lay>>))
      yb == Rms(y, <<"rms_ffn", lay>>)
  IN  Add(y, Product(gs, SwiGLU(Product(gs, yb, <<"w1", lay>>), Product(gs, yb, <<"w3", lay>>)),
                     <<"w2", lay>>))

\* A layer of the reference, position by position.
LEMMA NextLayerIs ==
  ASSUME NEW gs, NEW p, NEW lay, NEW x
  PROVE  NextLayer(gs, p, lay, x)
         = [t \in DOMAIN x |-> FeedForward(gs, lay, x[t], HeadsAt(gs, p, lay, x, t))]
  BY DEF NextLayer, FeedForward, HeadsAt, KeyAt, ValueAt

\* The layers of the reference, one after the other.
LEMMA ActivationsAre ==
  ASSUME NEW gs, NEW p, p.n_layers \in Nat, NEW embedded
  PROVE  LET act == Activations(gs, p, embedded)
         IN  /\ act[0] = embedded
             /\ \A l \in 0 .. p.n_layers - 1 : act[l + 1] = NextLayer(gs, p, l, act[l])
PROOF
<1> DEFINE L == p.n_layers
           Acts(g, m) == g = [l \in 0 .. m |-> IF l = 0 THEN embedded
                                               ELSE NextLayer(gs, p, l - 1, g[l - 1])]
           S == {m \in Nat : \E g : Acts(g, m)}
<1>1. \E g : Acts(g, L)
  <2>1. 0 \in S
    <3>1. Acts([l \in 0 .. 0 |-> embedded], 0)
      OBVIOUS
    <3> QED  BY <3>1
  <2>2. ASSUME NEW m \in Nat, m \in S PROVE m + 1 \in S
    <3>1. PICK g : Acts(g, m)
      BY <2>2
    <3> DEFINE h == [l \in 0 .. m + 1 |-> IF l = m + 1 THEN NextLayer(gs, p, m, g[m]) ELSE g[l]]
    <3>2. Acts(h, m + 1)
      BY <3>1
    <3> HIDE DEF Acts
    <3> QED  BY <3>2
  <2>3. L \in S
    <3> HIDE DEF S
    <3> QED  BY <2>1, <2>2, SetInduction
  <2> QED  BY <2>3
<1> DEFINE f == CHOOSE g : Acts(g, L)
<1>2. Activations(gs, p, embedded) = f
  BY DEF Activations
<1>3. Acts(f, L)
  <2> HIDE DEF Acts
  <2> QED  BY <1>1
<1> HIDE DEF f
<1>4. f[0] = embedded
  BY <1>3
<1>5. \A l \in 0 .. L - 1 : f[l + 1] = NextLayer(gs, p, l, f[l])
  <2> SUFFICES ASSUME NEW l \in 0 .. L - 1 PROVE f[l + 1] = NextLayer(gs, p, l, f[l])
    OBVIOUS
  <2>1. l + 1 \in 0 .. L /\ l + 1 # 0 /\ (l + 1) - 1 = l
    OBVIOUS
  <2> QED  BY <1>3, <2>1
<1> QED  BY <1>2, <1>4, <1>5

\* x and y are alike at the first n positions.
AlikeBefore(n, x, y) ==
  /\ 0 .. n - 1 \subseteq DOMAIN x /\ 0 .. n - 1 \subseteq DOMAIN y
  /\ \A t \in 0 .. n - 1 : x[t] = y[t]

\* What a position computes depends on those before it only.
LEMMA HeadsAlike ==
  ASSUME NEW gs, NEW p, NEW lay, NEW n \in Nat, NEW x, NEW y, AlikeBefore(n, x, y), NEW t \in 0 .. n - 1
  PROVE  HeadsAt(gs, p, lay, x, t) = HeadsAt(gs, p, lay, y, t)
PROOF
<1>1. \A u \in 0 .. t : u \in 0 .. n - 1
  OBVIOUS
<1>2. \A u \in 0 .. t : x[u] = y[u]
  BY <1>1 DEF AlikeBefore
<1>3. x[t] = y[t]
  BY DEF AlikeBefore
<1>4. \A u \in 0 .. t : /\ KeyAt(gs, x, lay, u) = KeyAt(gs, y, lay, u)
                        /\ ValueAt(gs, x, lay, u) = ValueAt(gs, y, lay, u)
  BY <1>2 DEF KeyAt, ValueAt
<1>5. \A g : /\ [u \in 0 .. t |-> HeadOf(KeyAt(gs, x, lay, u), g)]
                = [u \in 0 .. t |-> HeadOf(KeyAt(gs, y, lay, u), g)]
             /\ [u \in 0 .. t |-> HeadOf(ValueAt(gs, x, lay, u), g)]
                = [u \in 0 .. t |-> HeadOf(ValueAt(gs, y, lay, u), g)]
  BY <1>4
<1> QED  BY <1>3, <1>5 DEF HeadsAt

\* So do the layers: the rows that are held stay right when tokens follow.
LEMMA LayersAlike ==
  ASSUME NEW gs, NEW p, p.n_layers \in Nat, NEW n \in Nat, NEW a, NEW b, AlikeBefore(n, a, b)
  PROVE  \A l \in 0 .. p.n_layers :
           AlikeBefore(n, Activations(gs, p, a)[l], Activations(gs, p, b)[l])
PROOF
<1> DEFINE L == p.n_layers
           f == Activations(gs, p, a)
           g == Activations(gs, p, b)
           S == {l \in Nat : l <= L => AlikeBefore(n, f[l], g[l])}
<1>1. /\ f[0] = a /\ g[0] = b
      /\ \A l \in 0 .. L - 1 : f[l + 1] = NextLayer(gs, p, l, f[l]) /\ g[l + 1] = NextLayer(gs, p, l, g[l])
  BY ActivationsAre
<1> HIDE DEF f, g
<1>2. 0 \in S
  BY <1>1
<1>3. ASSUME NEW l \in Nat, l \in S PROVE l + 1 \in S
  <2> SUFFICES ASSUME l + 1 <= L PROVE AlikeBefore(n, f[l + 1], g[l + 1])
    OBVIOUS
  <2>1. l \in 0 .. L - 1 /\ AlikeBefore(n, f[l], g[l])
    BY <1>3
  <2> DEFINE x == f[l]
             y == g[l]
  <2>2. /\ f[l + 1] = [t \in DOMAIN x |-> FeedForward(gs, l, x[t], HeadsAt(gs, p, l, x, t))]
        /\ g[l + 1] = [t \in DOMAIN y |-> FeedForward(gs, l, y[t], HeadsAt(gs, p, l, y, t))]
    BY <1>1, <2>1, NextLayerIs
  <2>3. AlikeBefore(n, x, y)
    BY <2>1
  <2> HIDE DEF x, y
  <2>4. \A t \in 0 .. n - 1 : HeadsAt(gs, p, l, x, t) = HeadsAt(gs, p, l, y, t) /\ x[t] = y[t]
    <3>1. \A t \in 0 .. n - 1 : HeadsAt(gs, p, l, x, t) = HeadsAt(gs, p, l, y, t)
      BY <2>3, HeadsAlike
    <3>2. \A t \in 0 .. n - 1 : x[t] = y[t]
      BY <2>3 DEF AlikeBefore
    <3> QED  BY <3>1, <3>2
  <2>5. 0 .. n - 1 \subseteq DOMAIN x /\ 0 .. n - 1 \subseteq DOMAIN y
    BY <2>3 DEF AlikeBefore
  <2> QED  BY <2>2, <2>4, <2>5 DEF AlikeBefore
<1>4. \A l \in Nat : l \in S
  <2> HIDE DEF S
  <2> QED  BY <1>2, <1>3, SetInduction
<1> QED  BY <1>4 DEF f, g

\* The head of the keys that a query head attends to.
LEMMA GroupIs ==
  ASSUME NEW p, Shaped(p), NEW h \in 0 .. p.n_heads - 1
  PROVE  /\ (h * p.n_kv_heads) \div p.n_heads = h \div kv_mul(p)
         /\ h \div kv_mul(p) \in 0 .. p.n_kv_heads - 1
PROOF
<1> DEFINE k == p.n_kv_heads
           m == kv_mul(p)
           n == p.n_heads
           q == h \div m
           r == h % m
<1>1. k \in Nat \ {0} /\ m \in Nat \ {0} /\ n = k * m /\ n \in Nat \ {0}
  BY ShapeFacts
<1>2. h \in 0 .. n - 1
  OBVIOUS
<1> HIDE DEF k, m, n
<1>3. q \in Nat /\ r \in 0 .. m - 1 /\ h = m * q + r
  BY <1>1, <1>2
<1> HIDE DEF q, r
<1>4. q < k
  <2>1. SUFFICES ASSUME q >= k PROVE FALSE
    BY <1>1, <1>3
  <2>2. (q - k) * m >= 0
    <3> DEFINE x == q - k
    <3>1. x \in Nat
      BY <1>1, <1>3, <2>1
    <3> HIDE DEF x
    <3>2. x * m >= 0
      BY <1>1, <3>1
    <3> QED  BY <3>2 DEF x
  <2>3. (q - k) * m = m * q - k * m
    BY <1>1, <1>3
  <2> QED  BY <1>1, <1>2, <1>3, <2>2, <2>3
<1>5. (h * k) \div n = q
  <2> DEFINE a == h * k
             d == a \div n
             e == a % n
  <2>1. a \in Nat /\ a = n * q + r * k
    BY <1>1, <1>2, <1>3
  <2>2. r * k \in 0 .. n - 1
    <3>1. (m - 1 - r) * k >= 0
      <4> DEFINE x == m - 1 - r
      <4>1. x \in Nat
        BY <1>1, <1>3
      <4> HIDE DEF x
      <4>2. x * k >= 0
        BY <1>1, <4>1
      <4> QED  BY <4>2 DEF x
    <3>2. (m - 1 - r) * k = k * m - k - r * k /\ r * k \in Nat
      BY <1>1, <1>3
    <3> QED  BY <1>1, <3>1, <3>2
  <2> HIDE DEF a
  <2>3. d \in Int /\ e \in 0 .. n - 1 /\ a = n * d + e
    <3>1. a \in Nat /\ n \in Nat \ {0}
      BY <1>1, <2>1
    <3> QED  BY ONLY <3>1
  <2> HIDE DEF d, e
  <2> DEFINE s == r * k
  <2>4. n * (q - d) = e - s /\ s \in 0 .. n - 1
    <3>1. n * (q - d) = n * q - n * d
      BY <1>1, <1>3, <2>3
    <3> QED  BY <1>1, <1>3, <2>1, <2>2, <2>3, <3>1
  <2> HIDE DEF s
  <2> DEFINE x == q - d
  <2>5. x \in Int /\ n * x = e - s
    BY <1>3, <2>3, <2>4
  <2> HIDE DEF x
  <2>6. ~(x >= 1)
    <3>1. SUFFICES ASSUME x >= 1 PROVE FALSE
      OBVIOUS
    <3>2. n * x >= n
      BY <1>1, <2>5, <3>1
    <3> QED  BY <1>1, <2>3, <2>4, <2>5, <3>2
  <2>7. ~(x <= -1)
    <3>1. SUFFICES ASSUME x <= -1 PROVE FALSE
      OBVIOUS
    <3>2. n * x <= -n
      BY <1>1, <2>5, <3>1
    <3> QED  BY <1>1, <2>3, <2>4, <2>5, <3>2
  <2>8. x = 0
    BY <2>5, <2>6, <2>7
  <2>9. d = q
    BY <1>3, <2>3, <2>8 DEF x
  <2> QED  BY <2>9 DEF d, a
<1> QED  BY <1>1, <1>3, <1>4, <1>5 DEF k, m, n, q

\* The row of a layer and a position holds the key and the value of that position.
RowHeld(c, p, gs, x, lay, t) ==
  \A g \in 0 .. p.n_kv_heads - 1 :
    /\ At(c.key, RowStart(p, lay, t) + g * head_size(p)) = HeadOf(KeyAt(gs, x, lay, t), g)
    /\ At(c.value, RowStart(p, lay, t) + g * head_size(p)) = HeadOf(ValueAt(gs, x, lay, t), g)

\* The caches have a row for every layer and position.
Roomy(c, p) == DOMAIN c.key = Rows(p) /\ DOMAIN c.value = Rows(p)

\* One layer of forward is one layer of the reference at the position: it reads the rows of the
\* positions before it and its own, and writes its own.
LEMMA LayerIs ==
  ASSUME Shaped(config), NEW gs, layer \in 0 .. config.n_layers - 1,
         NEW at \in 0 .. config.seq_len - 1, Layer(gs, Named(layer), at),
         NEW x, xrow = x[at], Roomy(caches, config),
         \A t \in 0 .. at - 1 : RowHeld(caches, config, gs, x, layer, t)
  PROVE  /\ xrow' = FeedForward(gs, layer, x[at], HeadsAt(gs, config, layer, x, at))
         /\ layer' = layer + 1 /\ UNCHANGED <<config, weights, logits>>
         /\ Roomy(caches', config)
         /\ \A t \in 0 .. at : RowHeld(caches', config, gs, x, layer, t)
         /\ \A y : \A k \in 0 .. config.n_layers - 1, u \in 0 .. config.seq_len - 1 :
              (k # layer \/ u # at) /\ RowHeld(caches, config, gs, y, k, u)
              => RowHeld(caches', config, gs, y, k, u)
PROOF
<1> DEFINE p == config
           hs == head_size(p)
           kv == kv_dim(p)
           n == p.n_kv_heads
           L == p.n_layers
           S == p.seq_len
           off == RowStart(p, layer, at)
           keys == Stored(caches.key, off, KeyAt(gs, x, layer, at))
           values == Stored(caches.value, off, ValueAt(gs, x, layer, at))
           q == Rope(Product(gs, Rms(x[at], <<"rms_att", layer>>), <<"wq", layer>>), at)
           row(t, h) == RowStart(p, layer, t) + (h \div kv_mul(p)) * hs
           heads == [h \in 0 .. p.n_heads - 1 |->
                       Attention(HeadOf(q, h), [t \in 0 .. at |-> At(keys, row(t, h))],
                                               [t \in 0 .. at |-> At(values, row(t, h))])]
<1>1. /\ Named(layer).rms_att = <<"rms_att", layer>> /\ Named(layer).rms_ffn = <<"rms_ffn", layer>>
      /\ Named(layer).wq = <<"wq", layer>> /\ Named(layer).wk = <<"wk", layer>>
      /\ Named(layer).wv = <<"wv", layer>> /\ Named(layer).wo = <<"wo", layer>>
      /\ Named(layer).w1 = <<"w1", layer>> /\ Named(layer).w2 = <<"w2", layer>>
      /\ Named(layer).w3 = <<"w3", layer>>
  BY DEF Named
<1>2. /\ caches' = [key |-> keys, value |-> values]
      /\ xrow' = FeedForward(gs, layer, x[at], heads)
      /\ layer' = layer + 1 /\ UNCHANGED <<config, weights, logits>>
  BY <1>1 DEF Layer, RowStart, KeyAt, ValueAt, FeedForward
<1>3. caches'.key = keys /\ caches'.value = values
  BY <1>2
<1> HIDE DEF heads
<1>4. /\ DOMAIN keys = Rows(p) /\ DOMAIN values = Rows(p)
      /\ \A g \in 0 .. n - 1 : /\ At(keys, off + g * hs) = HeadOf(KeyAt(gs, x, layer, at), g)
                               /\ At(values, off + g * hs) = HeadOf(ValueAt(gs, x, layer, at), g)
      /\ \A k \in 0 .. L - 1, u \in 0 .. S - 1, g \in 0 .. n - 1 :
           k # layer \/ u # at =>
             /\ At(keys, RowStart(p, k, u) + g * hs) = At(caches.key, RowStart(p, k, u) + g * hs)
             /\ At(values, RowStart(p, k, u) + g * hs) = At(caches.value, RowStart(p, k, u) + g * hs)
  <2>1. DOMAIN caches.key = Rows(p) /\ DOMAIN caches.value = Rows(p)
    BY DEF Roomy
  <2> QED  BY <2>1, StoredRow
<1> HIDE DEF keys, values
<1>5. Roomy(caches', config)
  BY <1>3, <1>4 DEF Roomy
<1>6. ASSUME NEW k \in 0 .. L - 1, NEW u \in 0 .. S - 1, NEW y, k # layer \/ u # at,
             RowHeld(caches, p, gs, y, k, u)
      PROVE  RowHeld(caches', p, gs, y, k, u)
  <2> SUFFICES ASSUME NEW g \in 0 .. n - 1
               PROVE  /\ At(keys, RowStart(p, k, u) + g * hs) = HeadOf(KeyAt(gs, y, k, u), g)
                      /\ At(values, RowStart(p, k, u) + g * hs) = HeadOf(ValueAt(gs, y, k, u), g)
    BY <1>3 DEF RowHeld
  <2>1. /\ At(keys, RowStart(p, k, u) + g * hs) = At(caches.key, RowStart(p, k, u) + g * hs)
        /\ At(values, RowStart(p, k, u) + g * hs) = At(caches.value, RowStart(p, k, u) + g * hs)
    BY <1>4, <1>6
  <2>2. /\ At(caches.key, RowStart(p, k, u) + g * hs) = HeadOf(KeyAt(gs, y, k, u), g)
        /\ At(caches.value, RowStart(p, k, u) + g * hs) = HeadOf(ValueAt(gs, y, k, u), g)
    BY <1>6 DEF RowHeld
  <2> QED  BY <2>1, <2>2
<1>7. RowHeld(caches', p, gs, x, layer, at)
  BY <1>3, <1>4 DEF RowHeld
<1>8. \A t \in 0 .. at : RowHeld(caches', p, gs, x, layer, t)
  <2> SUFFICES ASSUME NEW t \in 0 .. at, t # at PROVE RowHeld(caches', p, gs, x, layer, t)
    BY <1>7
  <2>1. S \in Nat
    BY ShapeFacts
  <2>2. t \in 0 .. at - 1 /\ t \in 0 .. S - 1 /\ layer \in 0 .. L - 1
    BY <2>1
  <2>3. RowHeld(caches, p, gs, x, layer, t)
    BY <2>2
  <2> QED  BY <1>6, <2>2, <2>3
<1>9. heads = HeadsAt(gs, p, layer, x, at)
  <2>1. ASSUME NEW h \in 0 .. p.n_heads - 1, NEW t \in 0 .. at
        PROVE  /\ At(keys, row(t, h)) = HeadOf(KeyAt(gs, x, layer, t), (h * p.n_kv_heads) \div p.n_heads)
               /\ At(values, row(t, h)) = HeadOf(ValueAt(gs, x, layer, t), (h * p.n_kv_heads) \div p.n_heads)
    <3> DEFINE g == h \div kv_mul(p)
    <3>1. (h * p.n_kv_heads) \div p.n_heads = g /\ g \in 0 .. n - 1
      BY GroupIs
    <3> HIDE DEF g
    <3>2. RowHeld(caches', p, gs, x, layer, t)
      BY <1>8
    <3>3. /\ At(keys, RowStart(p, layer, t) + g * hs) = HeadOf(KeyAt(gs, x, layer, t), g)
          /\ At(values, RowStart(p, layer, t) + g * hs) = HeadOf(ValueAt(gs, x, layer, t), g)
      BY <1>3, <3>1, <3>2 DEF RowHeld
    <3> QED  BY <3>1, <3>3 DEF g
  <2> HIDE DEF row
  <2>2. ASSUME NEW h \in 0 .. p.n_heads - 1
        PROVE  /\ [t \in 0 .. at |-> At(keys, row(t, h))]
                  = [t \in 0 .. at |-> HeadOf(KeyAt(gs, x, layer, t), (h * p.n_kv_heads) \div p.n_heads)]
               /\ [t \in 0 .. at |-> At(values, row(t, h))]
                  = [t \in 0 .. at |-> HeadOf(ValueAt(gs, x, layer, t), (h * p.n_kv_heads) \div p.n_heads)]
    BY <2>1
  <2> QED  BY <2>2 DEF heads, HeadsAt
<1> QED  BY <1>2, <1>5, <1>6, <1>8, <1>9

-----------------------------------------------------------------------------
(***************************************************************************)
(* The model, its weights and its caches are those of the checkpoint.      *)
(***************************************************************************)

\* From the mapping of the weights on they are where memory_map_weights says; from
\* malloc_run_state on the caches have a row for every layer and step.
ModelInv ==
  /\ steps \in Nat
  /\ program = "run" => GS = 0
  /\ Begun /\ program = "runq" => GS = model.group_size
  /\ Begun /\ pc # "tables" =>
       weights = IF program = "run" THEN MapWeights(model.config)
                 ELSE MapWeightsQ(model.config, model.shared)
  /\ Begun /\ pc \notin {"tables", "state"} => steps <= config.seq_len /\ Roomy(caches, config)
  /\ pc \notin Silent => fed = <<>>

\* A step that the model, its weights and what forward has done so far do not matter to.
KeepsForward ==
  /\ UNCHANGED <<given, config, weights, xrow, layer, caches, logits, GS, steps, fed>>
  /\ \/ pc' = pc /\ UNCHANGED <<token, pos>>
     \/ /\ pc' \notin Generating
        /\ pc' \notin Silent => pc \notin Silent
        /\ Begun' => Begun /\ {pc, pc'} \cap {"tables", "state"} = {}

\* Every other step keeps them.
LEMMA ForwardSteps ==
  ASSUME UseInv, [Next]_vars
  PROVE  \/ KeepsForward
         \/ read_checkpoint \/ read_checkpointQ \/ memory_map_weightsQ \/ malloc_run_state
         \/ StartGenerating \/ EmbedStep \/ LayerStep \/ LogitsStep \/ NextOfPrompt \/ SampleNext
PROOF
<1> DEFINE Same == KeepsForward
<1> USE DEF KeepsForward, Generating, Ended, Silent, Begun
<1>1. ASSUME KmallocInit PROVE Same
  BY <1>1 DEF KmallocInit
<1>2. ASSUME NoCheckpoint PROVE Same
  BY <1>2 DEF NoCheckpoint
<1>7. ASSUME InterruptInit PROVE Same
  BY <1>7 DEF InterruptInit
<1>8. ASSUME TimerInit PROVE Same
  BY <1>8 DEF TimerInit
<1>9. ASSUME GprofTable PROVE Same
  BY <1>9 DEF GprofTable, After
<1>10. ASSUME EnableInterrupts PROVE Same
  BY <1>10 DEF EnableInterrupts
<1>11. ASSUME Interrupt PROVE Same
  BY <1>11 DEF Interrupt
<1>12. ASSUME GprofDumpStep PROVE Same
  BY <1>12 DEF GprofDumpStep
<1>13. ASSUME VmInitStep PROVE Same
  BY <1>13 DEF VmInitStep, Asserting
<1>14. ASSUME VmPtAlloc PROVE Same
  BY <1>14 DEF VmPtAlloc, Asserting
<1>15. ASSUME VmMapSec PROVE Same
  BY <1>15 DEF VmMapSec, Asserting
<1>16. ASSUME VmSwitch PROVE Same
  BY <1>16 DEF VmSwitch, Asserting
<1>17. ASSUME VmSync PROVE Same
  BY <1>17 DEF VmSync
<1>18. ASSUME VmEnable PROVE Same
  BY <1>18 DEF VmEnable, Asserting
<1>19. ASSUME EnableCaches PROVE Same
  BY <1>19 DEF EnableCaches
<1>20. ASSUME AllocPrompt PROVE Same
  BY <1>20 DEF AllocPrompt, After
<1>24. ASSUME StepsUsedUp PROVE Same
  BY <1>24 DEF StepsUsedUp
<1>25. ASSUME clean_reboot PROVE Same
  BY <1>25 DEF clean_reboot
<1>26. ASSUME UNCHANGED vars PROVE Same
  BY <1>26 DEF vars, main_vars, tokenizer_vars
<1>27. ASSUME AllocVocab PROVE Same
  BY <1>27 DEF AllocVocab, After
<1>28. ASSUME BuildEntry PROVE Same
  BY <1>28 DEF BuildEntry, After, AddEntry
<1>29. ASSUME build_sampler PROVE Same
  BY <1>29 DEF build_sampler, After
<1>30. ASSUME SortStep PROVE Same
  BY <1>30 DEF SortStep, After, SortVocab
<1>31. ASSUME AllocBuffer PROVE Same
  BY <1>31 DEF AllocBuffer, After, BeginEncode
<1>32. ASSUME EncodeStep PROVE Same
  BY <1>32 DEF EncodeStep, EncodeByte
<1>33. ASSUME MergeStep PROVE Same
  BY <1>33 DEF MergeStep, MergePair
<1> HIDE DEF KeepsForward, Same
<1> QED  BY <1>1, <1>2, <1>7, <1>8, <1>9, <1>10, <1>11, <1>12, <1>13, <1>14, <1>15, <1>16,
          <1>17, <1>18, <1>19, <1>20, <1>24, <1>25, <1>26, <1>27, <1>28, <1>29, <1>30, <1>31, <1>32, <1>33
       DEF Next, Rebooted, Same

\* A config of a run that has begun has the shape of a model; run.c changed its vocab_size only.
LEMMA ConfigShaped ==
  ASSUME UseInv, Begun
  PROVE  /\ Shaped(model.config) /\ Shaped(config)
         /\ config.vocab_size = Abs(model.config.vocab_size) /\ config.vocab_size > 1
         /\ program \in {"run", "runq"}
         /\ program = "run" =>
              /\ model.tensors = TensorStarts(model.config)
              /\ config = [model.config EXCEPT !.vocab_size = Abs(@)]
         /\ program = "runq" =>
              /\ config = model.config /\ config.vocab_size > 0 /\ model.group_size \in Nat \ {0}
              /\ model.tensors = ExportedQ(config, model.shared, model.group_size)
         /\ \A w \in Distributions : DOMAIN w = 0 .. config.vocab_size - 1
PROOF
<1>1. PICK r \in Runs : program = r.program /\ model = r.model /\ prompt = r.prompt
  BY DEF UseInv, GivenInv
<1> DEFINE p == r.model.config
<1>2. /\ r.model.there /\ Accepted(r.program, r.model) /\ vocabulary \in Tokenizers
      /\ config = IF r.program = "run" THEN [p EXCEPT !.vocab_size = Abs(@)] ELSE p
  BY <1>1 DEF UseInv, PlaceInv, GivenInv
<1>3. p \in Config
  BY TokenizerConstants
<1>4. /\ p.dim > 0 /\ p.hidden_dim > 0 /\ p.n_layers > 0 /\ p.seq_len > 0
      /\ p.n_heads > 0 /\ p.dim % p.n_heads = 0
      /\ p.n_kv_heads > 0 /\ p.n_heads % p.n_kv_heads = 0
      /\ r.program = "run" => r.model.tensors = TensorStarts(p)
      /\ r.program = "runq" =>
           /\ p.vocab_size > 0 /\ r.model.group_size \in Nat \ {0}
           /\ r.model.tensors = ExportedQ(p, r.model.shared, r.model.group_size)
      /\ \A w \in Distributions : DOMAIN w = 0 .. Abs(p.vocab_size) - 1
  BY <1>2, ModelConstants
<1>5. r.program \in {"run", "runq"}
  BY <1>2, LlamaConstants
<1> HIDE DEF p
<1>6. Shaped(p)
  BY <1>3, <1>4 DEF Shaped
<1>7. config.vocab_size > 1
  BY TokenizerFacts DEF BOS
<1>8. CASE r.program = "run"
  <2>1. config = [p EXCEPT !.vocab_size = Abs(@)]
    BY <1>2, <1>8
  <2>2. Abs(p.vocab_size) \in Int
    BY <1>3 DEF Config, Abs
  <2>3. Shaped(config) /\ config.vocab_size = Abs(p.vocab_size)
    BY <1>3, <1>4, <2>1, <2>2 DEF Shaped, Config
  <2> QED  BY <1>1, <1>4, <1>6, <1>7, <1>8, <2>1, <2>3 DEF p
<1>9. CASE r.program = "runq"
  <2>1. config = p /\ p.vocab_size > 0 /\ Abs(p.vocab_size) = p.vocab_size
    BY <1>2, <1>3, <1>4, <1>9 DEF Config, Abs
  <2> QED  BY <1>1, <1>4, <1>6, <1>7, <1>9, <2>1 DEF p
<1> QED  BY <1>5, <1>8, <1>9

\* At the start there is no run.
LEMMA ModelInit == Init => ModelInv
PROOF
<1>1. Init => pc = "start" /\ steps = STEPS /\ GS = 0 /\ fed = <<>>
  BY DEF Init
<1> QED  BY <1>1, ModelConstants DEF ModelInv, Begun

\* Where runq.c's tensors are depends on the group size.
LEMMA SameWeightsOf ==
  ASSUME UNCHANGED GS, NEW p, NEW shared
  PROVE  MapWeightsQ(p, shared)' = MapWeightsQ(p, shared)
PROOF
<1>1. \A ptr, n, size : init_quantized_tensors(ptr, n, size)' = init_quantized_tensors(ptr, n, size)
  BY ZenonT(30) DEF init_quantized_tensors
<1> QED  BY <1>1, ZenonT(60) DEF MapWeightsQ

\* A step that keeps the group size and the model keeps where the tensors are.
LEMMA SameWeights ==
  ASSUME UNCHANGED <<GS, model>>
  PROVE  MapWeightsQ(model.config, model.shared)' = MapWeightsQ(model.config, model.shared)
PROOF
<1>1. PICK p, shared : p = model.config /\ shared = model.shared
  OBVIOUS
<1>2. MapWeightsQ(p, shared)' = MapWeightsQ(p, shared)
  BY SameWeightsOf
<1>3. model'.config = p /\ model'.shared = shared
  BY <1>1
<1> QED  BY <1>1, <1>2, <1>3

\* Reading the checkpoint and malloc_run_state make it, the others keep it.
LEMMA ModelStep ==
  ASSUME UseInv, UseInv', ModelInv, [Next]_vars
  PROVE  ModelInv'
PROOF
<1> USE DEF Begun, Silent, Generating, Ended
<1>1. ASSUME KeepsForward PROVE ModelInv'
  BY <1>1, SameWeights DEF KeepsForward, ModelInv
<1>2. ASSUME read_checkpoint PROVE ModelInv'
  <2>1. /\ pc = "checkpoint" /\ program = "run"
        /\ \/ pc' = "panic"
           \/ pc' \in {"state", "undefined"} /\ weights' = MapWeights(model.config)
        /\ UNCHANGED <<program, model, caches, steps, GS, fed>>
    BY <1>2 DEF read_checkpoint, After, memory_map_weights
  <2> QED  BY <2>1 DEF ModelInv
<1>3. ASSUME read_checkpointQ PROVE ModelInv'
  <2>1. /\ pc = "checkpoint" /\ program = "runq"
        /\ \/ pc' = "panic" /\ GS' = GS
           \/ pc' \in {"tables", "undefined"} /\ GS' = model.group_size
        /\ UNCHANGED <<program, model, caches, steps, fed>>
    BY <1>3 DEF read_checkpointQ, After
  <2> QED  BY <2>1 DEF ModelInv
<1>4. ASSUME memory_map_weightsQ PROVE ModelInv'
  <2>1. program = "runq" /\ config = model.config
    BY <1>4 DEF memory_map_weightsQ, UseInv, PlaceInv
  <2>2. /\ pc = "tables"
        /\ \/ pc' \in {"tables", "undefined"}
           \/ pc' = "state" /\ weights' = MapWeightsQ(model.config, model.shared)
        /\ UNCHANGED <<program, model, caches, steps, GS, fed>>
    BY <1>4, <2>1 DEF memory_map_weightsQ, After
  <2> QED  BY <2>1, <2>2, SameWeights DEF ModelInv
<1>5. ASSUME malloc_run_state PROVE ModelInv'
  <2>1. pc = "state" /\ UNCHANGED <<program, model, config, weights, GS, fed>>
    BY <1>5 DEF malloc_run_state
  <2>2. config.seq_len \in Nat
    BY <2>1, ConfigShaped, ShapeFacts
  <2>3. \/ pc' = "state" /\ UNCHANGED <<steps, caches>>
        \/ /\ pc' \in {"panic", "undefined", "vocab"}
           /\ steps' = IF steps = 0 \/ steps > config.seq_len THEN config.seq_len ELSE steps
           /\ caches' = LET zeroed == [o \in 0 .. CacheFloats(config) - 1 |-> Zero]
                        IN  [key |-> zeroed, value |-> zeroed]
    BY <1>5 DEF malloc_run_state
  <2>4. CASE pc' = "state" /\ UNCHANGED <<steps, caches>>
    BY <2>1, <2>4, SameWeights DEF ModelInv
  <2>5. CASE /\ pc' \in {"panic", "undefined", "vocab"}
             /\ steps' = IF steps = 0 \/ steps > config.seq_len THEN config.seq_len ELSE steps
             /\ caches' = LET zeroed == [o \in 0 .. CacheFloats(config) - 1 |-> Zero]
                          IN  [key |-> zeroed, value |-> zeroed]
    <3>1. Roomy(caches', config')
      BY <2>1, <2>5 DEF Roomy, Rows, CacheFloats
    <3>2. steps' \in Nat /\ steps' <= config.seq_len
      BY <2>2, <2>5 DEF ModelInv
    <3> QED  BY <2>1, <2>5, <3>1, <3>2, SameWeights DEF ModelInv
  <2> QED  BY <2>3, <2>4, <2>5
<1>6. ASSUME StartGenerating \/ LogitsStep PROVE ModelInv'
  BY <1>6, SameWeights DEF StartGenerating, LogitsStep, Classify, ClassifyQ, Classified, ModelInv
<1>7. ASSUME EmbedStep PROVE ModelInv'
  BY <1>7, SameWeights DEF EmbedStep, Embed, EmbedQ, ModelInv
<1>8. ASSUME NextOfPrompt \/ SampleNext PROVE ModelInv'
  BY <1>8, SameWeights DEF NextOfPrompt, SampleNext, Advance, ModelInv
<1>9. ASSUME LayerStep PROVE ModelInv'
  <2>1. /\ pc = "layer" /\ pc' = pc /\ UNCHANGED <<program, model, config, weights, GS, steps>>
        /\ \E k, v, a, b : caches' = [key |-> Stored(caches.key, a, k), value |-> Stored(caches.value, a, v)]
    BY <1>9, ZenonT(30) DEF LayerStep, ForwardLayer, ForwardLayerQ, Layer
  <2>2. Roomy(caches, config) => Roomy(caches', config)
    BY <2>1 DEF Roomy, Stored
  <2> QED  BY <2>1, <2>2, SameWeights, SMTT(30) DEF ModelInv
<1> QED  BY <1>1, <1>2, <1>3, <1>4, <1>5, <1>6, <1>7, <1>8, <1>9, ForwardSteps

-----------------------------------------------------------------------------
(***************************************************************************)
(* The tokens.                                                             *)
(***************************************************************************)

\* The tokens that are forced or sampled are in the vocabulary.
Ids == 0 .. config.vocab_size - 1

\* What encode and sample give is an id of the vocabulary, at every position.
RangeInv ==
  /\ pc = "merge" => enc.str_buffer \in Text
  /\ pc \in {"merge"} \cup Generating => enc.tokens \in Seq(Ids)
  /\ pc \in Generating => pos \in Nat /\ token \in Ids

\* A merge puts a token of the vocabulary in the place of two.
LEMMA MergeInRange ==
  ASSUME Vocabulary, EncShape, MergePair, enc.str_buffer \in Text, enc.tokens \in Seq(Ids)
  PROVE  /\ enc'.str_buffer = enc.str_buffer /\ enc'.tokens \in Seq(Ids)
         /\ \E k \in 1 .. Len(enc'.tokens) : enc'.tokens[k] = PairToken(1)
PROOF
<1> DEFINE s == enc.tokens
           id == str_lookup(enc.str_buffer)
           M == Mergeable
           score == vocab_scores(id)
           best == CHOOSE k \in M : \A j \in M : (score > score) \/ (score = score /\ k <= j)
           S == Ids
<1>1. M \subseteq 1 .. Len(s) - 1 /\ M # {} /\ id # -1
  BY DEF Mergeable, MergePair, PairToken
<1>2. id \in S
  <2>1. tok.vocab \in Seq(Text) /\ Len(tok.vocab) = config.vocab_size
    BY VocabularyIs DEF Vocabulary
  <2>2. OrderedTable(tok.sorted, tok.vocab)
    BY DEF Vocabulary
  <2> QED  BY <1>1, <2>1, <2>2, LookupIs DEF Ids
<1>3. best \in M
  <2>1. M \in SUBSET Nat /\ M # {}
    <3>1. \A k \in 1 .. Len(s) - 1 : k \in Nat
      OBVIOUS
    <3> QED  BY <1>1, <3>1
  <2> HIDE DEF M
  <2>2. \E k \in M : \A j \in M : k <= j
    BY <2>1, MinIs
  <2> QED  BY <2>2
<1>4. BestPair = best
  BY DEF BestPair, PairToken
<1>5. enc' = [enc EXCEPT !.tokens = [RemoveAt(s, best + 1) EXCEPT ![best] = id]]
  BY <1>4 DEF MergePair, PairToken
<1>6. enc' = [text |-> enc.text, c |-> enc.c, str_buffer |-> enc.str_buffer, str_len |-> enc.str_len,
              tokens |-> [RemoveAt(s, best + 1) EXCEPT ![best] = id]]
  BY <1>5 DEF EncShape
<1> HIDE DEF s, best, id, M, S
<1> DEFINE t == [RemoveAt(s, best + 1) EXCEPT ![best] = id]
<1>7. t \in Seq(S) /\ best \in 1 .. Len(t) /\ t[best] = id
  <2>1. s \in Seq(S) /\ best \in 1 .. Len(s) - 1 /\ Len(s) \in Nat
    <3>1. s \in Seq(S)
      BY DEF S, s
    <3>2. best \in 1 .. Len(s) - 1
      BY <1>1, <1>3
    <3> QED  BY <3>1, <3>2
  <2>2. RemoveAt(s, best + 1) \in Seq(S) /\ best \in 1 .. Len(RemoveAt(s, best + 1))
    <3> DEFINE a == SubSeq(s, 1, (best + 1) - 1)
               b == SubSeq(s, (best + 1) + 1, Len(s))
               r == RemoveAt(s, best + 1)
    <3>1. r = a \o b
      BY DEF RemoveAt
    <3>2. a \in Seq(S) /\ b \in Seq(S) /\ Len(a) = best
      BY <2>1
    <3>3. best \in Nat \ {0}
      BY <2>1
    <3> HIDE DEF a, b, r
    <3>4. r \in Seq(S) /\ best \in 1 .. Len(r)
      BY <3>1, <3>2, <3>3
    <3> QED  BY <3>4 DEF r
  <2> DEFINE r == RemoveAt(s, best + 1)
  <2> HIDE DEF r
  <2>3. r \in Seq(S) /\ id \in S /\ best \in 1 .. Len(r)
    BY <1>2, <2>2 DEF r
  <2>4. LET u == [r EXCEPT ![best] = id] IN u \in Seq(S) /\ best \in 1 .. Len(u) /\ u[best] = id
    <3> DEFINE u == [r EXCEPT ![best] = id]
    <3>1. Len(r) \in Nat /\ DOMAIN r = 1 .. Len(r) /\ \A k \in 1 .. Len(r) : r[k] \in S
      BY <2>3
    <3>2. /\ u = [k \in 1 .. Len(r) |-> u[k]] /\ \A k \in 1 .. Len(r) : u[k] \in S
          /\ u[best] = id
      BY ONLY <2>3, <3>1
    <3> HIDE DEF u
    <3>3. u \in Seq(S) /\ Len(u) = Len(r)
      BY <3>1, <3>2, SequenceOf
    <3> QED  BY <2>3, <3>2, <3>3 DEF u
  <2> QED  BY <2>4 DEF r
<1>8. enc'.tokens = t /\ enc'.str_buffer = enc.str_buffer
  BY <1>6
<1>9. id = PairToken(1)
  BY DEF id, PairToken
<1> HIDE DEF t
<1> QED  BY <1>7, <1>8, <1>9 DEF S

\* The buffer and the tokens are text and tokens when pairs are looked for.
LEMMA TextHeld ==
  ASSUME RangeInv, pc = "encode" => EncodeInv, Vocabulary, pc \in {"encode", "merge"}
  PROVE  enc.str_buffer \in Text /\ enc.tokens \in Seq(Ids)
PROOF
<1>1. CASE pc = "encode"
  <2>1. EncodeInv
    BY <1>1
  <2>2. prompt \in Seq(1 .. Raw - 1) /\ Raw \in Nat
    BY TokenizerFacts DEF Vocabulary
  <2>3. \A b \in Range(prompt) : b \in Nat \ {0}
    BY <2>2 DEF Range
  <2>4. enc.str_buffer \in Text
    <3> DEFINE P == Range(prompt)
               N == Nat \ {0}
               s == enc.str_buffer
    <3>1. s \in Seq(P) /\ \A b \in P : b \in N
      BY <2>1, <2>3 DEF EncodeInv
    <3> HIDE DEF P, N, s
    <3>2. s \in Seq(N)
      BY <3>1
    <3> QED  BY <3>2 DEF Text, N, s
  <2> QED  BY <2>1, <2>4 DEF EncodeInv, TokensInv, Ids
<1>2. CASE pc = "merge"
  BY <1>2 DEF RangeInv
<1> QED  BY <1>1, <1>2

\* encode, the merges, the forced tokens and the samples keep it.
LEMMA RangeStep ==
  ASSUME UseInv, SpellInv, SampleInv, RangeInv, [Next]_vars
  PROVE  RangeInv'
PROOF
<1>1. VocabInv /\ EncShape /\ (pc = "encode" => EncodeInv) /\ (pc \notin Silent => pos = 0)
  BY DEF SpellInv, Silent, Ended
<1>2. pc \in Encoding => Vocabulary
  BY <1>1, VocabularyHeld
<1>3. ASSUME pc' \notin {"merge"} \cup Generating PROVE RangeInv'
  BY <1>3 DEF RangeInv
<1>4. ASSUME UNCHANGED <<tok, enc, prompt, config, token, pos, out>>,
             pc' = pc \/ (pc' \in Generating /\ pc \in Generating)
      PROVE  RangeInv'
  BY <1>4 DEF RangeInv, Generating, Ids
<1>5. pc \in {"encode", "merge"} => enc.str_buffer \in Text /\ enc.tokens \in Seq(Ids)
  BY <1>1, <1>2, TextHeld DEF Encoding
<1>6. ASSUME AllocBuffer \/ EncodeStep PROVE RangeInv'
  <2>1. pc' \in {"encode", "undefined"}
    BY <1>6 DEF AllocBuffer, EncodeStep, After
  <2> QED  BY <1>3, <2>1 DEF Generating
<1>7. ASSUME MergeStep PROVE RangeInv'
  <2>1. pc \in {"encode", "merge"} /\ pc' = "merge" /\ MergePair /\ UNCHANGED config
    BY <1>7 DEF MergeStep
  <2>2. Vocabulary
    BY <1>2, <2>1 DEF Encoding
  <2>3. enc'.str_buffer = enc.str_buffer /\ enc'.tokens \in Seq(Ids)
    BY <1>1, <1>5, <2>1, <2>2, MergeInRange
  <2>4. enc'.str_buffer \in Text /\ enc'.tokens \in Seq(Ids')
    BY <1>5, <2>1, <2>3 DEF Ids
  <2> QED  BY <2>1, <2>4 DEF RangeInv, Generating
<1>8. ASSUME StartGenerating PROVE RangeInv'
  <2>1. /\ pc \in {"encode", "merge"} /\ UNCHANGED <<tok, enc, config, pos>>
        /\ \/ pc' = "panic"
           \/ pc' = "forward" /\ enc.tokens # <<>> /\ token' = enc.tokens[1]
    BY <1>8 DEF StartGenerating, tokenizer_vars
  <2>2. enc.tokens \in Seq(Ids) /\ pos = 0
    BY <1>1, <1>5, <2>1 DEF Silent, Generating, Ended
  <2>3. enc.tokens # <<>> => enc.tokens[1] \in Ids
    <3> DEFINE s == enc.tokens
               S == Ids
    <3>1. s \in Seq(S)
      BY <2>2
    <3> HIDE DEF s, S
    <3>2. s # <<>> => s[1] \in S
      BY <3>1
    <3> QED  BY <3>2 DEF s, S
  <2> QED  BY <2>1, <2>2, <2>3 DEF RangeInv, Generating, Ids
<1>9. ASSUME NextOfPrompt PROVE RangeInv'
  <2> DEFINE s == enc.tokens
             S == Ids
  <2>1. /\ pc = "next" /\ UNCHANGED <<enc, config>> /\ pos' = pos + 1 /\ pos < Len(s) - 1
        /\ pc' \in {"done", "forward"} /\ token' \in {token, s[pos + 2]}
    BY <1>9 DEF NextOfPrompt, Advance, tokenizer_vars
  <2>2. s \in Seq(S) /\ pos \in Nat /\ token \in S
    BY <2>1 DEF RangeInv, Generating
  <2>3. s[pos + 2] \in S
    <3> HIDE DEF s, S
    <3>1. pos + 2 \in 1 .. Len(s)
      BY <2>1, <2>2
    <3> QED  BY <2>2, <3>1
  <2>4. Ids' = Ids
    BY <2>1 DEF Ids
  <2> HIDE DEF S
  <2>5. pos' \in Nat /\ token' \in S /\ enc'.tokens \in Seq(S)
    BY <2>1, <2>2, <2>3
  <2> QED  BY <2>1, <2>4, <2>5 DEF RangeInv, Generating, S
<1>10. ASSUME SampleNext PROVE RangeInv'
  <2>1. PICK w \in Distributions, coin \in 0 .. CoinMod - 1 :
          token' \in {token, sample(setting, w, coin)}
    BY <1>10 DEF SampleNext, Advance
  <2>2. /\ pc = "next" /\ UNCHANGED <<enc, config>> /\ pos' = pos + 1 /\ pc' \in {"done", "forward"}
    BY <1>10 DEF SampleNext, Advance, tokenizer_vars
  <2>3. PICK r \in Runs : setting = r.setting
    BY DEF SampleInv
  <2>4. sample(setting, w, coin) \in Ids
    <3>1. sample(r.setting, w, coin) \in DOMAIN w
      BY SampledSound
    <3>2. DOMAIN w = Ids
      BY <2>2, ConfigShaped DEF Begun, Ids
    <3> QED  BY <2>3, <3>1, <3>2
  <2>5. enc.tokens \in Seq(Ids) /\ pos \in Nat /\ token \in Ids
    BY <2>2 DEF RangeInv, Generating
  <2>6. Ids' = Ids /\ enc'.tokens = enc.tokens
    BY <2>2 DEF Ids
  <2> HIDE DEF Ids
  <2>7. pos' \in Nat /\ token' \in Ids /\ enc'.tokens \in Seq(Ids)
    BY <2>1, <2>2, <2>4, <2>5, <2>6
  <2> QED  BY <2>2, <2>6, <2>7 DEF RangeInv, Generating
<1>11. ASSUME KeepsText PROVE RangeInv'
  BY <1>3, <1>4, <1>11 DEF KeepsText
<1> QED  BY <1>6, <1>7, <1>8, <1>9, <1>10, <1>11, OtherSteps

-----------------------------------------------------------------------------
\* Every merge puts the token of the last codepoint in the place of two, until it is alone.
CollapseInv ==
  /\ pc = "merge" => \E k \in 1 .. Len(enc.tokens) : enc.tokens[k] = PairToken(1)
  /\ pc \in Generating /\ Collapses /\ prompt # <<>> =>
       enc.tokens = <<PairToken(1)>> /\ (pos = 0 => out = <<>>)

\* What StartGenerating finds when no pair is left.
LEMMA MergedToOne ==
  ASSUME RangeInv, SpellInv, CollapseInv, UseInv, StartGenerating, pc' = "forward", Collapses,
         prompt # <<>>
  PROVE  enc.tokens = <<PairToken(1)>>
PROOF
<1> DEFINE s == enc.tokens
           S == Ids
<1>1. pc \in {"encode", "merge"} /\ Mergeable = {} /\ enc.tokens # <<>>
  BY DEF StartGenerating
<1>2. s \in Seq(S)
  BY <1>1 DEF SpellInv, EncodeInv, TokensInv, RangeInv, Ids
<1>3. Len(s) \in Nat
  <2> HIDE DEF s, S
  <2> QED  BY <1>2
<1>4. ~(1 \in 1 .. Len(s) - 1)
  BY <1>1 DEF Mergeable, Collapses, PairToken
<1>5. Len(s) <= 1
  <2> HIDE DEF s
  <2> QED  BY <1>3, <1>4
<1>6. pc = "merge"
  <2>1. pc = "encode" => Len(s) >= Start /\ Start = 2
    BY StartIs DEF SpellInv, EncodeInv, TokensInv
  <2> HIDE DEF s
  <2> QED  BY <1>1, <1>3, <1>5, <2>1
<1>7. PICK k \in 1 .. Len(s) : s[k] = PairToken(1)
  BY <1>6 DEF CollapseInv
<1> QED
  <2> HIDE DEF s, S
  <2>1. k \in 1 .. Len(s) /\ s[k] = PairToken(1)
    BY <1>7
  <2>2. k \in 1 .. Len(s)
    BY <2>1
  <2>3. Len(s) = 1 /\ k = 1
    <3>1. \A n \in Nat : \A j \in 1 .. n : n <= 1 => n = 1 /\ j = 1
      OBVIOUS
    <3> QED  BY <1>3, <1>5, <2>2, <3>1, Zenon
  <2>4. s = <<s[1]>>
    BY <1>2, <2>3
  <2> QED  BY <2>1, <2>3, <2>4 DEF s

LEMMA CollapseStep ==
  ASSUME UseInv, SpellInv, SampleInv, RangeInv, CollapseInv, [Next]_vars
  PROVE  CollapseInv'
PROOF
<1>1. VocabInv /\ EncShape /\ (pc = "encode" => EncodeInv) /\ (pc \notin Silent => pos = 0 /\ out = <<>>)
  BY DEF SpellInv, Silent, Ended
<1>2. ASSUME pc' \notin {"merge"} \cup Generating PROVE CollapseInv'
  BY <1>2 DEF CollapseInv
<1>3. ASSUME UNCHANGED <<tok, enc, prompt, config, token, pos, out>>,
             pc' = pc \/ (pc' \in Generating /\ pc \in Generating)
      PROVE  CollapseInv'
  <2>1. PairToken(1)' = PairToken(1) /\ (Collapses' <=> Collapses)
    BY <1>3, SameTokens
  <2> HIDE DEF Collapses, PairToken
  <2> QED  BY <1>3, <2>1 DEF CollapseInv, Generating
<1>4. ASSUME AllocBuffer \/ EncodeStep PROVE CollapseInv'
  <2>1. pc' \in {"encode", "undefined"}
    BY <1>4 DEF AllocBuffer, EncodeStep, After
  <2> QED  BY <1>2, <2>1 DEF Generating
<1>5. ASSUME MergeStep PROVE CollapseInv'
  <2>1. pc \in {"encode", "merge"} /\ pc' = "merge" /\ MergePair
    BY <1>5 DEF MergeStep
  <2>2. Vocabulary
    BY <1>1, <2>1, VocabularyHeld DEF Encoding
  <2>3. enc.str_buffer \in Text /\ enc.tokens \in Seq(Ids)
    BY <1>1, <2>1, <2>2, TextHeld
  <2>4. \E k \in 1 .. Len(enc'.tokens) : enc'.tokens[k] = PairToken(1)
    BY <1>1, <2>1, <2>2, <2>3, MergeInRange
  <2>5. PairToken(1)' = PairToken(1)
    BY <1>1, <2>1, MergeKeepsMerging
  <2> HIDE DEF PairToken
  <2> QED  BY <2>1, <2>4, <2>5 DEF CollapseInv, Generating
<1>6. ASSUME StartGenerating PROVE CollapseInv'
  <2>1. /\ pc \in {"encode", "merge"} /\ pc' \in {"panic", "forward"}
        /\ UNCHANGED <<tok, enc, prompt, config, pos, out>>
    BY <1>6 DEF StartGenerating, tokenizer_vars
  <2>2. PairToken(1)' = PairToken(1) /\ (Collapses' <=> Collapses)
    BY <2>1, SameTokens
  <2>3. pc' = "forward" /\ Collapses /\ prompt # <<>> => enc.tokens = <<PairToken(1)>>
    BY <1>6, MergedToOne
  <2>4. out' = <<>>
    BY <1>1, <2>1 DEF Silent, Generating, Ended
  <2> HIDE DEF Collapses, PairToken
  <2> QED  BY <2>1, <2>2, <2>3, <2>4 DEF CollapseInv, Generating
<1>7. ASSUME NextOfPrompt \/ SampleNext PROVE CollapseInv'
  <2>1. /\ pc = "next" /\ UNCHANGED <<tok, enc, prompt, config>> /\ pos' = pos + 1
        /\ pc' \in {"done", "forward"}
    BY <1>7 DEF NextOfPrompt, SampleNext, Advance, tokenizer_vars
  <2>2. PairToken(1)' = PairToken(1) /\ (Collapses' <=> Collapses)
    BY <2>1, SameTokens
  <2>3. pos \in Nat /\ pos' # 0
    BY <2>1 DEF RangeInv, Generating
  <2> HIDE DEF Collapses, PairToken
  <2> QED  BY <2>1, <2>2, <2>3 DEF CollapseInv, Generating
<1>8. ASSUME KeepsText PROVE CollapseInv'
  BY <1>2, <1>3, <1>8 DEF KeepsText
<1> QED  BY <1>4, <1>5, <1>6, <1>7, <1>8, OtherSteps

\* When the tokens of any prompt, valid UTF-8 or not, have all been forced through, what was
\* printed is the prompt, piece by piece, but for single bytes that cannot be printed, and without
\* the space that encode put before it.  Unless its last codepoint is a token: then the merges
\* have left that one alone, and nothing is printed.
THEOREM PromptIsEchoed == Spec => []EchoesPrompt
PROOF
<1> DEFINE Inv == UseInv /\ SpellInv /\ SampleInv /\ RangeInv /\ CollapseInv
<1>1. Init => Inv
  <2>1. Init => CollapseInv /\ RangeInv
    BY DEF Init, CollapseInv, RangeInv, Generating
  <2> QED  BY <2>1, UseInit, SpellInit, SampleInit
<1>2. Inv /\ [Next]_vars => Inv'
  <2> SUFFICES ASSUME Inv, [Next]_vars PROVE Inv'
    OBVIOUS
  <2>1. UseInv'
    BY UseStep
  <2>2. SampleInv' /\ RangeInv' /\ CollapseInv'
    BY SampleStep, RangeStep, CollapseStep
  <2> QED  BY <2>1, <2>2, SpellStep
<1>3. Inv => EchoesPrompt
  <2> SUFFICES ASSUME Inv, pc = "forward", prompt # <<>>, pos = Len(enc.tokens) - 1
               PROVE  IF Collapses THEN enc.tokens = <<PairToken(1)>> /\ out = <<>>
                      ELSE /\ FlattenSeq(Pieces) = prompt
                           /\ out = FlattenSeq([k \in DOMAIN Pieces |-> safe_printf(Pieces[k])])
    BY DEF EchoesPrompt
  <2>1. CASE Collapses
    <3>1. enc.tokens = <<PairToken(1)>> /\ (pos = 0 => out = <<>>)
      BY <2>1 DEF CollapseInv, Generating
    <3>2. Len(<<PairToken(1)>>) - 1 = 0
      OBVIOUS
    <3>3. pos = 0
      BY <3>1, <3>2
    <3> QED  BY <2>1, <3>1, <3>3
  <2>2. CASE ~Collapses
    <3> DEFINE toks == enc.tokens
               ids == 0 .. config.vocab_size - 1
    <3>1. EchoInv
      BY <2>2 DEF SpellInv, Generating
    <3>2. toks \in Seq(ids)
      BY <3>1 DEF EchoInv, TokensInv
    <3>3. Len(toks) \in Nat
      <4> HIDE DEF toks, ids
      <4> QED  BY <3>2
    <3>4. Start = 2 /\ pos - 1 = Len(toks) - Start /\ pos <= Len(toks) - 1
      BY <3>3, StartIs
    <3>5. out = PrintedBy(pos - 1) /\ SpelledBy(Len(toks) - Start) = prompt
      BY <3>1, <3>4 DEF EchoInv
    <3>6. FlattenSeq(Pieces) = SpelledBy(Len(toks) - Start)
      BY <3>4 DEF Pieces, SpelledBy, SpelledIn
    <3>7. PrintedBy(Len(toks) - Start) = FlattenSeq([k \in DOMAIN Pieces |-> safe_printf(Pieces[k])])
      <4>1. DOMAIN Pieces = 1 .. Len(toks) - Start /\ \A k \in DOMAIN Pieces : Pieces[k] = Spelling(toks[k + Start])
        BY <3>4 DEF Pieces
      <4>2. [k \in DOMAIN Pieces |-> safe_printf(Pieces[k])]
              = [k \in 1 .. Len(toks) - Start |-> safe_printf(Spelling(toks[k + Start]))]
        BY <4>1
      <4> QED  BY <4>2 DEF PrintedBy
    <3> HIDE DEF toks
    <3> QED  BY <2>2, <3>4, <3>5, <3>6, <3>7
  <2> QED  BY <2>1, <2>2
<1> HIDE DEF Inv
<1> QED  BY <1>1, <1>2, <1>3, PTL DEF Spec

-----------------------------------------------------------------------------
(***************************************************************************)
(* The forward pass.                                                       *)
(***************************************************************************)

\* What the transformer of a program computes of the tokens h, and what the caches hold of it.
EmbeddingOf(prog, gs, id) ==
  IF prog = "run" THEN <<"embedding", id>> ELSE RowOf(<<"dequantize", gs, <<"q_tokens">>>>, id)
EmbeddingsOf(prog, gs, h) == [t \in 0 .. Len(h) - 1 |-> EmbeddingOf(prog, gs, h[t + 1])]
ActOf(prog, gs, p, h) == Activations(gs, p, EmbeddingsOf(prog, gs, h))

\* The rows of the first n positions are those of the tokens h, in every layer.
HistoryHeld(prog, gs, p, c, h, n) ==
  \A l \in 0 .. p.n_layers - 1, t \in 0 .. n - 1 : RowHeld(c, p, gs, ActOf(prog, gs, p, h)[l], l, t)

\* g is the n tokens of h and then id, for a model of configuration p.
OneMore(p, h, g, n, id) ==
  /\ p.n_layers \in Nat /\ n \in Nat
  /\ Len(h) = n /\ Len(g) = n + 1
  /\ \A k \in 1 .. n : g[k] = h[k]
  /\ g[n + 1] = id

\* What is fed later does not change what the transformer computes of the tokens before it.
LEMMA FedOn ==
  ASSUME NEW prog, NEW gs, NEW p, NEW h, NEW g, NEW n, NEW id, OneMore(p, h, g, n, id)
  PROVE  /\ ActOf(prog, gs, p, g)[0][n] = EmbeddingOf(prog, gs, id)
         /\ \A c : HistoryHeld(prog, gs, p, c, h, n) => HistoryHeld(prog, gs, p, c, g, n)
PROOF
<1> DEFINE a == EmbeddingsOf(prog, gs, h)
           b == EmbeddingsOf(prog, gs, g)
<1>1. /\ p.n_layers \in Nat /\ n \in Nat /\ Len(h) = n /\ Len(g) = n + 1 /\ g[n + 1] = id
      /\ \A k \in 1 .. n : g[k] = h[k]
  BY DEF OneMore
<1>2. /\ a = [t \in 0 .. n - 1 |-> EmbeddingOf(prog, gs, h[t + 1])]
      /\ b = [t \in 0 .. n |-> EmbeddingOf(prog, gs, g[t + 1])]
  BY <1>1 DEF EmbeddingsOf
<1> HIDE DEF a, b
<1>3. AlikeBefore(n, a, b)
  <2>1. \A t \in 0 .. n - 1 : t \in 0 .. n /\ t + 1 \in 1 .. n
    BY <1>1
  <2> QED  BY <1>1, <1>2, <2>1 DEF AlikeBefore
<1>4. b[n] = EmbeddingOf(prog, gs, id)
  BY <1>1, <1>2
<1>5. \A l \in 0 .. p.n_layers :
        AlikeBefore(n, Activations(gs, p, a)[l], Activations(gs, p, b)[l])
  BY <1>1, <1>3, LayersAlike
<1>6. Activations(gs, p, b)[0] = b
  BY <1>1, ActivationsAre
<1>7. ASSUME NEW c, HistoryHeld(prog, gs, p, c, h, n) PROVE HistoryHeld(prog, gs, p, c, g, n)
  <2> SUFFICES ASSUME NEW l \in 0 .. p.n_layers - 1, NEW t \in 0 .. n - 1
               PROVE  RowHeld(c, p, gs, ActOf(prog, gs, p, g)[l], l, t)
    BY DEF HistoryHeld
  <2>1. RowHeld(c, p, gs, ActOf(prog, gs, p, h)[l], l, t)
    BY <1>7 DEF HistoryHeld
  <2>2. ActOf(prog, gs, p, h)[l][t] = ActOf(prog, gs, p, g)[l][t]
    <3>1. l \in 0 .. p.n_layers
      BY <1>1
    <3>2. AlikeBefore(n, Activations(gs, p, a)[l], Activations(gs, p, b)[l])
      BY <1>5, <3>1
    <3>3. Activations(gs, p, a)[l][t] = Activations(gs, p, b)[l][t]
      BY <3>2 DEF AlikeBefore
    <3> QED  BY <3>3 DEF ActOf, a, b
  <2> QED  BY <2>1, <2>2 DEF RowHeld, KeyAt, ValueAt
<1> QED  BY <1>4, <1>6, <1>7 DEF ActOf, b

\* A layer at a position, of what the layer before it computes at the positions up to it.
LEMMA ActNext ==
  ASSUME NEW prog, NEW gs, NEW p, p.n_layers \in Nat, NEW h, Len(h) \in Nat,
         NEW l \in 0 .. p.n_layers - 1, NEW t \in 0 .. Len(h) - 1
  PROVE  LET x == ActOf(prog, gs, p, h)
         IN  x[l + 1][t] = FeedForward(gs, l, x[l][t], HeadsAt(gs, p, l, x[l], t))
PROOF
<1> DEFINE e == EmbeddingsOf(prog, gs, h)
           x == Activations(gs, p, e)
           n == Len(h)
<1>1. AlikeBefore(n, e, e)
  BY DEF AlikeBefore, EmbeddingsOf
<1> HIDE DEF e
<1>2. \A k \in 0 .. p.n_layers : AlikeBefore(n, x[k], x[k])
  BY <1>1, LayersAlike
<1>3. x[l + 1] = NextLayer(gs, p, l, x[l])
  BY ActivationsAre
<1> HIDE DEF x, n
<1>4. l \in 0 .. p.n_layers /\ t \in 0 .. n - 1
  BY DEF n
<1>5. t \in DOMAIN x[l]
  BY <1>2, <1>4 DEF AlikeBefore
<1>6. NextLayer(gs, p, l, x[l])
      = [u \in DOMAIN x[l] |-> FeedForward(gs, l, x[l][u], HeadsAt(gs, p, l, x[l], u))]
  BY NextLayerIs
<1>7. x[l + 1][t] = FeedForward(gs, l, x[l][t], HeadsAt(gs, p, l, x[l], t))
  BY <1>3, <1>5, <1>6
<1> QED  BY <1>7 DEF ActOf, x, e

\* The sign that run.c takes from vocab_size is nothing to the layers.
LEMMA ActOfConfig ==
  ASSUME NEW gs, NEW p, NEW q, p.n_layers \in Nat, NEW e,
         p.n_layers = q.n_layers, p.n_heads = q.n_heads, p.n_kv_heads = q.n_kv_heads
  PROVE  \A l \in 0 .. p.n_layers : Activations(gs, p, e)[l] = Activations(gs, q, e)[l]
PROOF
<1> DEFINE f == Activations(gs, p, e)
           g == Activations(gs, q, e)
           L == p.n_layers
           S == {l \in Nat : l <= L => f[l] = g[l]}
<1>1. /\ f[0] = e /\ g[0] = e
      /\ \A l \in 0 .. L - 1 : f[l + 1] = NextLayer(gs, p, l, f[l]) /\ g[l + 1] = NextLayer(gs, q, l, g[l])
  <2>1. f[0] = e /\ \A l \in 0 .. L - 1 : f[l + 1] = NextLayer(gs, p, l, f[l])
    BY ActivationsAre
  <2>2. q.n_layers \in Nat
    OBVIOUS
  <2>3. g[0] = e /\ \A l \in 0 .. q.n_layers - 1 : g[l + 1] = NextLayer(gs, q, l, g[l])
    BY <2>2, ActivationsAre
  <2> HIDE DEF f, g
  <2> QED  BY <2>1, <2>3
<1>2. \A l, x : NextLayer(gs, p, l, x) = NextLayer(gs, q, l, x)
  <2> SUFFICES ASSUME NEW l, NEW x PROVE NextLayer(gs, p, l, x) = NextLayer(gs, q, l, x)
    OBVIOUS
  <2>1. \A t : HeadsAt(gs, p, l, x, t) = HeadsAt(gs, q, l, x, t)
    BY DEF HeadsAt
  <2>2. /\ NextLayer(gs, p, l, x) = [t \in DOMAIN x |-> FeedForward(gs, l, x[t], HeadsAt(gs, p, l, x, t))]
        /\ NextLayer(gs, q, l, x) = [t \in DOMAIN x |-> FeedForward(gs, l, x[t], HeadsAt(gs, q, l, x, t))]
    BY NextLayerIs
  <2> QED  BY <2>1, <2>2
<1> HIDE DEF f, g
<1>3. 0 \in S
  BY <1>1
<1>4. ASSUME NEW l \in Nat, l \in S PROVE l + 1 \in S
  BY <1>1, <1>2, <1>4
<1>5. \A l \in Nat : l \in S
  <2> HIDE DEF S
  <2> QED  BY <1>3, <1>4, SetInduction
<1> QED  BY <1>5 DEF f, g

\* The tensor that the classifier is.
ClassifierOf(prog, m) ==
  IF prog = "run" THEN IF m.config.vocab_size < 0 THEN <<"wcls">> ELSE <<"embedding">>
  ELSE IF m.shared THEN <<"q_tokens">> ELSE <<"wcls">>

\* forward is at a position with what the transformer makes of the tokens so far: the rows of the
\* positions before it, and of this one up to the layer it is at, are held; x is the activation.
ForwardInv ==
  pc \in Generating =>
    LET act == ActOf(program, GS, config, fed)
        held(n) == HistoryHeld(program, GS, config, caches, fed, n)
    IN  /\ fed \in Seq(Ids)
        /\ pc = "forward" => Len(fed) = pos /\ held(pos)
        /\ pc = "layer" =>
             /\ Len(fed) = pos + 1 /\ held(pos) /\ pos < config.seq_len
             /\ layer \in 0 .. config.n_layers /\ xrow = act[layer][pos]
             /\ \A l \in 0 .. layer - 1 : RowHeld(caches, config, GS, act[l], l, pos)
        /\ pc = "next" =>
             /\ Len(fed) = pos + 1 /\ held(pos + 1)
             /\ logits = Product(GS, Rms(act[config.n_layers][pos], <<"rms_final">>),
                                 ClassifierOf(program, model))

\* The model is loaded when forward runs.
LEMMA LoadedIs ==
  ASSUME UseInv, ModelInv, pc \in Generating
  PROVE  /\ Shaped(config) /\ steps <= config.seq_len /\ steps \in Nat /\ Roomy(caches, config)
         /\ \/ /\ program = "run" /\ GS = 0 /\ LoadedRun(model.config)
               /\ model.tensors = TensorStarts(model.config) /\ Abs(model.config.vocab_size) > 1
            \/ /\ program = "runq" /\ LoadedRunq(config, model.shared) /\ config = model.config
               /\ model.tensors = ExportedQ(config, model.shared, GS)
PROOF
<1>1. Begun /\ pc \notin {"tables", "state"}
  BY DEF Begun, Generating
<1>2. /\ steps \in Nat /\ steps <= config.seq_len /\ Roomy(caches, config)
      /\ program = "run" => GS = 0 /\ weights = MapWeights(model.config)
      /\ program = "runq" => GS = model.group_size /\ weights = MapWeightsQ(model.config, model.shared)
  BY <1>1 DEF ModelInv
<1>3. /\ Shaped(model.config) /\ Shaped(config) /\ Abs(model.config.vocab_size) > 1
      /\ program \in {"run", "runq"}
      /\ program = "run" =>
           /\ model.tensors = TensorStarts(model.config)
           /\ config = [model.config EXCEPT !.vocab_size = Abs(@)]
      /\ program = "runq" =>
           /\ config = model.config /\ config.vocab_size > 0 /\ model.group_size \in Nat \ {0}
           /\ model.tensors = ExportedQ(config, model.shared, model.group_size)
  BY <1>1, ConfigShaped
<1>4. CASE program = "run"
  <2>1. LoadedRun(model.config)
    BY <1>2, <1>3, <1>4 DEF LoadedRun
  <2> QED  BY <1>2, <1>3, <1>4, <2>1
<1>5. CASE program = "runq"
  <2>1. LoadedRunq(config, model.shared)
    BY <1>2, <1>3, <1>5 DEF LoadedRunq
  <2>2. model.tensors = ExportedQ(config, model.shared, GS)
    BY <1>2, <1>3, <1>5
  <2> QED  BY <1>2, <1>3, <1>5, <2>1, <2>2
<1> QED  BY <1>3, <1>4, <1>5

\* A token's embedding is found.
LEMMA EmbedsToken ==
  ASSUME UseInv, ModelInv, pc \in Generating, token \in Ids, EmbedStep
  PROVE  xrow' = EmbeddingOf(program, GS, token) /\ layer' = 0
PROOF
<1>1. CASE program = "run"
  <2>1. Embed(model.tensors, token)
    BY <1>1 DEF EmbedStep
  <2>2. LoadedRun(model.config) /\ model.tensors = TensorStarts(model.config)
    BY <1>1, LoadedIs
  <2>3. Slab(TensorStarts(model.config), weights.token_embedding_table + token * config.dim, config.dim)
        = <<"embedding", token>>
    BY <2>2, EmbeddingIs DEF Ids
  <2> QED  BY <1>1, <2>1, <2>2, <2>3 DEF Embed, EmbeddingOf
<1>2. CASE program = "runq"
  <2>1. EmbedQ(model.tensors, token)
    BY <1>2 DEF EmbedStep
  <2>2. LoadedRunq(config, model.shared) /\ model.tensors = ExportedQ(config, model.shared, GS)
    BY <1>2, LoadedIs
  <2>3. SlabQ(ExportedQ(config, model.shared, GS), weights.q_tokens[1], config.vocab_size * config.dim)
        = <<"q_tokens">>
    BY <2>2, ClassifierIsQ
  <2> QED  BY <1>2, <2>1, <2>2, <2>3 DEF EmbedQ, EmbeddingOf, Dequantize
<1> QED  BY <1>1, <1>2 DEF EmbedStep

\* A layer has its tensors.
LEMMA LayerHasTensors ==
  ASSUME UseInv, ModelInv, pc \in Generating, LayerStep, layer \in 0 .. config.n_layers
  PROVE  layer \in 0 .. config.n_layers - 1 /\ Layer(GS, Named(layer), pos)
PROOF
<1>1. layer \in 0 .. config.n_layers - 1
  <2>1. layer < config.n_layers
    BY ZenonT(30) DEF LayerStep, ForwardLayer, ForwardLayerQ, Layer
  <2>2. config.n_layers \in Nat
    BY LoadedIs, ShapeFacts
  <2>3. layer \in 0 .. config.n_layers
    OBVIOUS
  <2> QED  BY ONLY <2>1, <2>2, <2>3
<1>2. CASE program = "run"
  <2>1. ForwardLayer(model.tensors, pos)
    BY <1>2 DEF LayerStep
  <2>2. LoadedRun(model.config) /\ model.tensors = TensorStarts(model.config) /\ GS = 0
    BY <1>2, LoadedIs
  <2>3. layer \in 0 .. model.config.n_layers - 1
    BY <1>1, <2>2, LoadedConfig
  <2> DEFINE of(off, size) == Slab(TensorStarts(model.config), off + layer * size, size)
             d == config.dim
             tensors == [rms_att |-> of(weights.rms_att_weight, d), rms_ffn |-> of(weights.rms_ffn_weight, d),
              wq |-> of(weights.wq, d * d), wk |-> of(weights.wk, d * kv_dim(config)),
              wv |-> of(weights.wv, d * kv_dim(config)), wo |-> of(weights.wo, d * d),
              w1 |-> of(weights.w1, d * config.hidden_dim), w2 |-> of(weights.w2, d * config.hidden_dim),
              w3 |-> of(weights.w3, d * config.hidden_dim)]
  <2>4. tensors = Named(layer)
    BY <2>2, <2>3, LayerTensors
  <2>5. Layer(0, tensors, pos)
    BY <2>1, <2>2 DEF ForwardLayer
  <2> HIDE DEF tensors
  <2> QED  BY <1>1, <2>2, <2>4, <2>5
<1>3. CASE program = "runq"
  <2>1. ForwardLayerQ(model.tensors, pos)
    BY <1>3 DEF LayerStep
  <2>2. LoadedRunq(config, model.shared) /\ model.tensors = ExportedQ(config, model.shared, GS)
    BY <1>3, LoadedIs
  <2> DEFINE file == ExportedQ(config, model.shared, GS)
             d == config.dim
             norm(off) == Slab(file, off + 4 * layer * d, d)
             of(w, n) == SlabQ(file, w[layer + 1], n)
             tensors == [rms_att |-> norm(weights.rms_att_weight), rms_ffn |-> norm(weights.rms_ffn_weight),
              wq |-> of(weights.wq, d * d), wk |-> of(weights.wk, d * kv_dim(config)),
              wv |-> of(weights.wv, d * kv_dim(config)), wo |-> of(weights.wo, d * d),
              w1 |-> of(weights.w1, d * config.hidden_dim), w2 |-> of(weights.w2, d * config.hidden_dim),
              w3 |-> of(weights.w3, d * config.hidden_dim)]
  <2>4. tensors = Named(layer)
    BY <1>1, <2>2, LayerTensorsQ
  <2>5. Layer(GS, tensors, pos)
    BY <2>1, <2>2 DEF ForwardLayerQ
  <2> HIDE DEF tensors
  <2> QED  BY <1>1, <2>4, <2>5
<1> QED  BY <1>2, <1>3 DEF LayerStep

\* The final norm and the classifier are found.
LEMMA Classifies ==
  ASSUME UseInv, ModelInv, pc \in Generating, LogitsStep
  PROVE  /\ layer = config.n_layers
         /\ logits' = Product(GS, Rms(xrow, <<"rms_final">>), ClassifierOf(program, model))
PROOF
<1>1. CASE program = "run"
  <2>1. Classify(model.tensors)
    BY <1>1 DEF LogitsStep
  <2>2. /\ LoadedRun(model.config) /\ model.tensors = TensorStarts(model.config) /\ GS = 0
        /\ Abs(model.config.vocab_size) > 1
    BY <1>1, LoadedIs
  <2>3. /\ Slab(TensorStarts(model.config), weights.rms_final_weight, config.dim) = <<"rms_final">>
        /\ Slab(TensorStarts(model.config), weights.wcls, config.dim * config.vocab_size)
           = IF model.config.vocab_size < 0 THEN <<"wcls">> ELSE <<"embedding">>
    BY <2>2, ClassifierIs
  <2> QED  BY <1>1, <2>1, <2>2, <2>3 DEF Classify, Classified, ClassifierOf
<1>2. CASE program = "runq"
  <2>1. ClassifyQ(model.tensors)
    BY <1>2 DEF LogitsStep
  <2>2. LoadedRunq(config, model.shared) /\ model.tensors = ExportedQ(config, model.shared, GS)
    BY <1>2, LoadedIs
  <2> DEFINE file == ExportedQ(config, model.shared, GS)
  <2>3. /\ Slab(file, weights.rms_final_weight, config.dim) = <<"rms_final">>
        /\ SlabQ(file, weights.wcls[1], config.dim * config.vocab_size)
           = IF model.shared THEN <<"q_tokens">> ELSE <<"wcls">>
    BY <2>2, ClassifierIsQ
  <2>4. ClassifyQ(file)
    BY <2>1, <2>2
  <2> HIDE DEF file
  <2> QED  BY <1>2, <2>3, <2>4 DEF ClassifyQ, Classified, ClassifierOf
<1> QED  BY <1>1, <1>2 DEF LogitsStep

\* Every step of forward keeps it; the loop forces or samples the next token.
LEMMA ForwardStep ==
  ASSUME UseInv, ModelInv, SpellInv, RangeInv, ForwardInv, [Next]_vars
  PROVE  ForwardInv'
PROOF
<1>1. ASSUME pc' \notin Generating PROVE ForwardInv'
  BY <1>1 DEF ForwardInv
<1>2. ASSUME KeepsForward PROVE ForwardInv'
  BY <1>1, <1>2 DEF KeepsForward, ForwardInv, Ids
<1>3. ASSUME read_checkpoint \/ read_checkpointQ \/ memory_map_weightsQ \/ malloc_run_state
      PROVE  ForwardInv'
  <2>1. pc' \notin Generating
    BY <1>3 DEF read_checkpoint, read_checkpointQ, memory_map_weightsQ, malloc_run_state, After, Generating
  <2> QED  BY <1>1, <2>1
<1>4. ASSUME StartGenerating PROVE ForwardInv'
  <2>1. pc \notin Silent /\ pc' \in {"panic", "forward"} /\ UNCHANGED <<pos, fed>>
    BY <1>4 DEF StartGenerating, Silent, Generating, Ended
  <2>2. fed = <<>> /\ pos = 0
    BY <2>1 DEF ModelInv, SpellInv, Silent, Ended
  <2>3. \A prog, gs, p, c, h : HistoryHeld(prog, gs, p, c, h, 0)
    BY DEF HistoryHeld
  <2> QED  BY <2>1, <2>2, <2>3 DEF ForwardInv, Generating
<1>5. ASSUME EmbedStep PROVE ForwardInv'
  <2>1. /\ pc = "forward" /\ pc' = "layer" /\ pos < steps /\ fed' = Append(fed, token)
        /\ UNCHANGED <<program, GS, config, model, caches, pos>>
    BY <1>5 DEF EmbedStep, Embed, EmbedQ
  <2>2. pc \in Generating
    BY <2>1 DEF Generating
  <2>3. /\ fed \in Seq(Ids) /\ Len(fed) = pos /\ HistoryHeld(program, GS, config, caches, fed, pos)
        /\ token \in Ids /\ pos \in Nat
    BY <2>1, <2>2 DEF ForwardInv, RangeInv
  <2>4. xrow' = EmbeddingOf(program, GS, token) /\ layer' = 0
    BY <1>5, <2>2, <2>3, EmbedsToken
  <2>5. steps \in Nat /\ steps <= config.seq_len /\ Shaped(config)
    BY <2>2, LoadedIs
  <2>6. config.n_layers \in Nat /\ config.seq_len \in Nat
    BY <2>5, ShapeFacts
  <2>7. PICK h, g, id, S : h = fed /\ g = fed' /\ id = token /\ S = Ids
    OBVIOUS
  <2>8. /\ g \in Seq(S) /\ Len(g) = pos + 1
        /\ ActOf(program, GS, config, g)[0][pos] = EmbeddingOf(program, GS, id)
        /\ HistoryHeld(program, GS, config, caches, h, pos)
             => HistoryHeld(program, GS, config, caches, g, pos)
    <3>1. h \in Seq(S) /\ id \in S /\ g = Append(h, id) /\ Len(h) = pos
      BY <2>1, <2>3, <2>7
    <3>2. /\ g \in Seq(S) /\ Len(g) = pos + 1 /\ g[pos + 1] = id
          /\ \A k \in 1 .. pos : g[k] = h[k]
      BY ONLY <3>1
    <3>3. PICK prog, gs, p, n : prog = program /\ gs = GS /\ p = config /\ n = pos
      OBVIOUS
    <3>4. /\ p.n_layers \in Nat /\ n \in Nat /\ Len(h) = n /\ Len(g) = n + 1
          /\ (\A k \in 1 .. n : g[k] = h[k]) /\ g[n + 1] = id
      BY <2>3, <2>6, <3>1, <3>2, <3>3
    <3>5. /\ ActOf(prog, gs, p, g)[0][n] = EmbeddingOf(prog, gs, id)
          /\ \A c : HistoryHeld(prog, gs, p, c, h, n) => HistoryHeld(prog, gs, p, c, g, n)
      <4>1. OneMore(p, h, g, n, id)
        BY <3>4 DEF OneMore
      <4> QED  BY ONLY <4>1, FedOn
    <3> QED  BY <3>2, <3>3, <3>5
  <2>9. Ids' = S
    BY <2>1, <2>7 DEF Ids
  <2>10. fed' = g
    BY <2>7
  <2>11. /\ fed' \in Seq(Ids') /\ Len(fed') = pos' + 1
         /\ HistoryHeld(program', GS', config', caches', fed', pos')
         /\ pos' < config'.seq_len /\ layer' \in 0 .. config'.n_layers
         /\ xrow' = ActOf(program', GS', config', fed')[layer'][pos']
    <3>1. fed' \in Seq(Ids') /\ Len(fed') = pos' + 1
      BY <2>1, <2>3, <2>7, <2>8, <2>9, <2>10
    <3>2. HistoryHeld(program', GS', config', caches', fed', pos')
      BY <2>1, <2>3, <2>7, <2>8, <2>10
    <3>3. pos' < config'.seq_len /\ layer' \in 0 .. config'.n_layers
      BY <2>1, <2>3, <2>4, <2>5, <2>6
    <3>4. xrow' = ActOf(program', GS', config', fed')[layer'][pos']
      BY <2>1, <2>3, <2>4, <2>7, <2>8, <2>10
    <3> QED  BY <3>1, <3>2, <3>3, <3>4
  <2> QED  BY <2>1, <2>4, <2>11 DEF ForwardInv
<1>6. ASSUME LayerStep PROVE ForwardInv'
  <2>1. pc = "layer" /\ pc' = "layer" /\ UNCHANGED <<program, model, GS, pos, fed>>
    BY <1>6 DEF LayerStep
  <2>2. pc \in Generating
    BY <2>1 DEF Generating
  <2>3. PICK x : x = ActOf(program, GS, config, fed)
    OBVIOUS
  <2>4. /\ fed \in Seq(Ids) /\ Len(fed) = pos + 1 /\ HistoryHeld(program, GS, config, caches, fed, pos)
        /\ pos < config.seq_len /\ pos \in Nat
        /\ layer \in 0 .. config.n_layers /\ xrow = x[layer][pos]
        /\ \A l \in 0 .. layer - 1 : RowHeld(caches, config, GS, x[l], l, pos)
    BY <2>1, <2>2, <2>3 DEF ForwardInv, RangeInv
  <2>5. Shaped(config) /\ Roomy(caches, config)
    BY <2>2, LoadedIs
  <2>6. config.n_layers \in Nat \ {0} /\ config.seq_len \in Nat
    BY <2>5, ShapeFacts
  <2>7. layer \in 0 .. config.n_layers - 1 /\ Layer(GS, Named(layer), pos)
    BY <1>6, <2>2, <2>4, LayerHasTensors
  <2>8. pos \in 0 .. config.seq_len - 1
    BY <2>4, <2>6
  <2>9. \A l \in 0 .. config.n_layers - 1, t \in 0 .. pos - 1 : RowHeld(caches, config, GS, x[l], l, t)
    BY <2>3, <2>4 DEF HistoryHeld
  <2>10. PICK y : y = x[layer]
    OBVIOUS
  <2>11. \A t \in 0 .. pos - 1 : RowHeld(caches, config, GS, y, layer, t)
    BY <2>7, <2>9, <2>10
  <2>12. /\ xrow' = FeedForward(GS, layer, y[pos], HeadsAt(GS, config, layer, y, pos))
         /\ layer' = layer + 1 /\ UNCHANGED config
         /\ \A t \in 0 .. pos : RowHeld(caches', config, GS, y, layer, t)
         /\ \A z : \A k \in 0 .. config.n_layers - 1, u \in 0 .. config.seq_len - 1 :
              (k # layer \/ u # pos) /\ RowHeld(caches, config, GS, z, k, u)
              => RowHeld(caches', config, GS, z, k, u)
    BY <2>4, <2>5, <2>7, <2>8, <2>10, <2>11, LayerIs
  <2>13. xrow' = x[layer + 1][pos]
    <3>1. pos \in 0 .. Len(fed) - 1 /\ Len(fed) \in Nat
      BY <2>4
    <3>2. x[layer + 1][pos] = FeedForward(GS, layer, x[layer][pos], HeadsAt(GS, config, layer, x[layer], pos))
      BY <2>3, <2>6, <2>7, <3>1, ActNext
    <3> QED  BY <2>10, <2>12, <3>2
  <2>14. \A l \in 0 .. config.n_layers - 1, t \in 0 .. pos - 1 : RowHeld(caches', config, GS, x[l], l, t)
    <3> SUFFICES ASSUME NEW l \in 0 .. config.n_layers - 1, NEW t \in 0 .. pos - 1
                 PROVE  RowHeld(caches', config, GS, x[l], l, t)
      OBVIOUS
    <3>1. t \in 0 .. config.seq_len - 1 /\ t # pos
      BY <2>4, <2>6
    <3> QED  BY <2>9, <2>12, <3>1
  <2>15. \A l \in 0 .. (layer + 1) - 1 : RowHeld(caches', config, GS, x[l], l, pos)
    <3> SUFFICES ASSUME NEW l \in 0 .. (layer + 1) - 1 PROVE RowHeld(caches', config, GS, x[l], l, pos)
      OBVIOUS
    <3>1. CASE l = layer
      <4>1. pos \in 0 .. pos
        BY <2>4
      <4> QED  BY <2>10, <2>12, <3>1, <4>1
    <3>2. CASE l # layer
      <4>1. l \in 0 .. layer - 1 /\ l \in 0 .. config.n_layers - 1
        BY <2>6, <2>7, <3>2
      <4> QED  BY <2>4, <2>8, <2>12, <3>2, <4>1
    <3> QED  BY <3>1, <3>2
  <2>16. x = ActOf(program', GS', config', fed') /\ Ids' = Ids
    BY <2>1, <2>3, <2>12 DEF Ids
  <2>17. HistoryHeld(program', GS', config', caches', fed', pos')
    BY <2>1, <2>12, <2>14, <2>16 DEF HistoryHeld
  <2>18. layer' \in 0 .. config'.n_layers
    BY <2>6, <2>7, <2>12
  <2>19. /\ fed' \in Seq(Ids') /\ Len(fed') = pos' + 1 /\ pos' < config'.seq_len
         /\ xrow' = x[layer'][pos']
         /\ \A l \in 0 .. layer' - 1 : RowHeld(caches', config', GS', x[l], l, pos')
    BY <2>1, <2>4, <2>12, <2>13, <2>15, <2>16
  <2> QED  BY <2>1, <2>16, <2>17, <2>18, <2>19 DEF ForwardInv
<1>7. ASSUME LogitsStep PROVE ForwardInv'
  <2>1. pc = "layer" /\ pc' = "next" /\ UNCHANGED <<program, model, GS, config, caches, pos, fed>>
    BY <1>7 DEF LogitsStep, Classify, ClassifyQ, Classified
  <2>2. pc \in Generating
    BY <2>1 DEF Generating
  <2>3. PICK x : x = ActOf(program, GS, config, fed)
    OBVIOUS
  <2>4. /\ fed \in Seq(Ids) /\ Len(fed) = pos + 1 /\ HistoryHeld(program, GS, config, caches, fed, pos)
        /\ pos \in Nat /\ xrow = x[layer][pos]
        /\ \A l \in 0 .. layer - 1 : RowHeld(caches, config, GS, x[l], l, pos)
    BY <2>1, <2>2, <2>3 DEF ForwardInv, RangeInv
  <2>5. /\ layer = config.n_layers
        /\ logits' = Product(GS, Rms(xrow, <<"rms_final">>), ClassifierOf(program, model))
    BY <1>7, <2>2, Classifies
  <2>6. HistoryHeld(program, GS, config, caches, fed, pos + 1)
    <3> SUFFICES ASSUME NEW l \in 0 .. config.n_layers - 1, NEW t \in 0 .. (pos + 1) - 1
                 PROVE  RowHeld(caches, config, GS, x[l], l, t)
      BY <2>3 DEF HistoryHeld
    <3>1. CASE t = pos
      BY <2>4, <2>5, <3>1
    <3>2. CASE t # pos
      <4>1. t \in 0 .. pos - 1
        BY <2>4, <3>2
      <4> QED  BY <2>3, <2>4, <4>1 DEF HistoryHeld
    <3> QED  BY <3>1, <3>2
  <2>7. Ids' = Ids /\ x = ActOf(program', GS', config', fed')
    BY <2>1, <2>3 DEF Ids
  <2>8. /\ fed' \in Seq(Ids') /\ Len(fed') = pos' + 1
        /\ HistoryHeld(program', GS', config', caches', fed', pos' + 1)
        /\ logits' = Product(GS', Rms(x[config'.n_layers][pos'], <<"rms_final">>),
                             ClassifierOf(program', model'))
    BY <2>1, <2>4, <2>5, <2>6, <2>7
  <2> QED  BY <2>1, <2>7, <2>8 DEF ForwardInv
<1>8. ASSUME NextOfPrompt \/ SampleNext PROVE ForwardInv'
  <2>1. /\ pc = "next" /\ pc' \in {"done", "forward"} /\ pos' = pos + 1
        /\ UNCHANGED <<program, model, GS, config, caches, fed>>
    BY <1>8 DEF NextOfPrompt, SampleNext, Advance
  <2>2. /\ fed \in Seq(Ids) /\ Len(fed) = pos + 1
        /\ HistoryHeld(program, GS, config, caches, fed, pos + 1)
    BY <2>1 DEF ForwardInv, Generating
  <2> QED  BY <1>1, <2>1, <2>2 DEF ForwardInv, Generating, Ids
<1> QED  BY <1>2, <1>3, <1>4, <1>5, <1>6, <1>7, <1>8, ForwardSteps

\* After the last layer that is the reference transformer, of the checkpoint's own config.
LEMMA ForwardInvLogits ==
  ASSUME UseInv, ModelInv, RangeInv, ForwardInv
  PROVE  LogitsExact
PROOF
<1> SUFFICES ASSUME pc = "next"
             PROVE  logits = IF program = "run" THEN Transformer(model.config, fed)
                             ELSE TransformerQ(model.config, model.shared, fed)
  BY DEF LogitsExact
<1>1. pc \in Generating
  BY DEF Generating
<1> DEFINE e == EmbeddingsOf(program, GS, fed)
<1>2. /\ Len(fed) = pos + 1 /\ pos \in Nat
      /\ logits = Product(GS, Rms(Activations(GS, config, e)[config.n_layers][pos], <<"rms_final">>),
                          ClassifierOf(program, model))
  BY <1>1 DEF ForwardInv, RangeInv, ActOf
<1>3. Len(fed) - 1 = pos
  BY <1>2
<1>4. CASE program = "run"
  <2>1. GS = 0 /\ LoadedRun(model.config)
    BY <1>1, <1>4, LoadedIs
  <2>2. e = Embedded(fed)
    BY <1>4 DEF EmbeddingsOf, EmbeddingOf, Embedded
  <2>3. /\ config.n_layers = model.config.n_layers /\ config.n_heads = model.config.n_heads
        /\ config.n_kv_heads = model.config.n_kv_heads /\ config.n_layers \in Nat
    <3>1. Shaped(model.config)
      BY <2>1 DEF LoadedRun
    <3> QED  BY <2>1, <3>1, LoadedConfig, ShapeFacts
  <2> HIDE DEF e
  <2>4. config.n_layers \in 0 .. config.n_layers
    BY <2>3
  <2>5. Activations(0, config, e)[config.n_layers] = Activations(0, model.config, e)[model.config.n_layers]
    BY <2>3, <2>4, ActOfConfig
  <2> QED  BY <1>2, <1>3, <1>4, <2>1, <2>2, <2>5 DEF Transformer, TransformerBy, ClassifierOf
<1>5. CASE program = "runq"
  <2>1. config = model.config
    BY <1>1, <1>5, LoadedIs
  <2>2. e = EmbeddedQ(fed)
    BY <1>5 DEF EmbeddingsOf, EmbeddingOf, EmbeddedQ, Dequantize
  <2> HIDE DEF e
  <2> QED  BY <1>2, <1>3, <1>5, <2>1, <2>2 DEF TransformerQ, TransformerBy, ClassifierOf
<1> QED  BY <1>1, <1>4, <1>5, LoadedIs

\* Whatever the checkpoint's dimensions, the tokens and the number of steps, quantized or not: what
\* forward returns is what the transformer computes from the tokens so far.
THEOREM LogitsAreExact == Spec => []LogitsExact
PROOF
<1> DEFINE Inv == UseInv /\ SpellInv /\ SampleInv /\ ModelInv /\ RangeInv /\ ForwardInv
<1>1. Init => Inv
  <2>1. Init => RangeInv /\ ForwardInv
    BY DEF Init, RangeInv, ForwardInv, Generating
  <2> QED  BY <2>1, UseInit, SpellInit, SampleInit, ModelInit
<1>2. Inv /\ [Next]_vars => Inv'
  BY UseStep, SpellStep, SampleStep, ModelStep, RangeStep, ForwardStep
<1>3. Inv => LogitsExact
  BY ForwardInvLogits
<1> QED  BY <1>1, <1>2, <1>3, PTL DEF Spec

=============================================================================

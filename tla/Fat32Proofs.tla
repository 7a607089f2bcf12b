---------------------------- MODULE Fat32Proofs ----------------------------
(***************************************************************************)
(* Proofs about Fat32, for every well-formed volume: the two walks of a    *)
(* chain agree, so that a buffer is overrun only if its size wraps, and    *)
(* what fat32_read returns, if it returns, is the file.                    *)
(***************************************************************************)
EXTENDS Fat32, TLAPS

Chain == vol.chain[start_cluster]
Walking == {"count", "alloc", "read", "search", "return"}

\* After n turns the walk stands on the next cluster of the chain, or on what ends it.
Stands(n) ==
  /\ n \in 0 .. Len(Chain)
  /\ n < Len(Chain) => cur_cluster = Chain[n + 1]
  /\ n = Len(Chain) => cur_cluster = vol.fat[Chain[n]]

\* Only a chain that ends so is ever counted to its end.
EndsInMark == EntryType(vol.fat[Chain[Len(Chain)]]) = "LAST_CLUSTER"

\* The buffer has the first n clusters of the chain.
Holds(n) == \A j \in 1 .. n : data[j] = IF Chain[j] = 0 THEN Foreign ELSE Chain[j]

WalkInv ==
  /\ pc \in Walking => start_cluster \in DOMAIN vol.chain
  /\ pc = "count" => Stands(cluster_num) /\ data = <<>>
  /\ pc \in {"alloc", "read"} => /\ cluster_num = Len(Chain) + 1 /\ EndsInMark
                                /\ Stands(Len(data)) /\ Holds(Len(data))
  /\ pc \in {"search", "return"} =>
       /\ cluster_num = Len(Chain) + 1 /\ Len(data) = cluster_num
       /\ Holds(Len(Chain)) /\ data[Len(Chain) + 1] = Foreign

\* A buffer has the size that was counted, if that did not wrap, and what was read lies in it.
RoomInv ==
  /\ pc = "alloc" => data = <<>>
  /\ pc = "read" => room = NullBuffer \/ room = (cluster_num * ClusterBytes) % SizeMod
  /\ pc = "return" => cluster_num * ClusterBytes <= room
  /\ WithinBuffer

FsInv ==
  /\ fs # NoFs => /\ fs.cluster_begin_lba = FirstSector(vol)
                  /\ fs.sectors_per_cluster = vol.id.sec_per_cluster
  /\ pc \in Walking => fs # NoFs

KnownInv == \A d \in known : d.is_dir_p => d.cluster_id \in DOMAIN vol.chain

\* dirent is an entry of the directory with the name asked for.
FoundInv ==
  /\ dirent.start \in DOMAIN vol.chain
  /\ InDirectory => dirent \in Entries(directory) /\ DirentName(dirent) = filename

CallInv ==
  /\ op \in {"stat", "read"} => filename \in Strings
  /\ pc \in Walking => op # "none" /\ directory \in DOMAIN vol.chain
  /\ pc \in Walking /\ walk = "dir" => start_cluster = directory
  /\ pc \in Walking /\ walk = "file" => start_cluster = dirent.start /\ FoundInv
  /\ pc = "search" => walk = "dir"
  /\ pc = "return" => walk = "file"

IInv ==
  TypeOK /\ WalkInv /\ RoomInv /\ FsInv /\ KnownInv /\ CallInv /\ FileIsWhole /\ LookupExact /\ ListingComplete
-----------------------------------------------------------------------------
\* Arithmetic of the entries in a buffer.
LEMMA Split ==
  ASSUME NEW P \in Nat \ {0}, NEW n \in Nat, NEW i \in 0 .. n * P - 1
  PROVE  i \div P \in 0 .. n - 1 /\ i % P \in 0 .. P - 1
  <1>1. n * P \in Nat /\ i \in Nat
    <2>1. n * P \in Nat
      OBVIOUS
    <2> QED BY <2>1
  <1>2. i = P * (i \div P) + (i % P) /\ i \div P \in Nat /\ i % P \in 0 .. P - 1
    BY <1>1
  <1> DEFINE q == i \div P
  <1>3. SUFFICES ASSUME n <= q PROVE FALSE
    BY <1>2
  <1>4. n * P <= q * P
    BY <1>2, <1>3
  <1> QED BY <1>2, <1>4

LEMMA Join ==
  ASSUME NEW P \in Nat \ {0}, NEW n \in Nat, NEW q \in 0 .. n - 1, NEW r \in 0 .. P - 1
  PROVE  /\ q * P + r \in 0 .. n * P - 1
         /\ (q * P + r) \div P = q /\ (q * P + r) % P = r
  <1>1. q * P + P <= n * P
    <2>1. (q + 1) * P <= n * P
      OBVIOUS
    <2> QED BY <2>1
  <1>2. q * P \in Nat /\ n * P \in Nat
    OBVIOUS
  <1>3. (q * P + r) \div P = q /\ (q * P + r) % P = r
    OBVIOUS
  <1> QED BY <1>1, <1>2, <1>3

LEMMA Small == ASSUME NEW m \in Nat \ {0}, NEW a \in 0 .. m - 1 PROVE a % m = a
  OBVIOUS

LEMMA Grows ==
  ASSUME NEW a \in Nat, NEW b \in Nat, NEW C \in Nat, a <= b PROVE a * C <= b * C
  OBVIOUS

\* What kmalloc leaves lies in the heap.
LEMMA HeapKept ==
  ASSUME heap_ptr \in 0 .. HeapEnd, NEW n \in Nat PROVE AfterAlloc(n) \in 0 .. HeapEnd
  <1>1. (heap_ptr + n) % SizeMod \in Nat
    BY HeapFits
  <1> QED BY <1>1, HeapFits DEF AfterAlloc, Gives

LEMMA RoomsOf ==
  ASSUME NEW n \in Nat
  PROVE  /\ n * PerCluster * DirentBytes \in Nat /\ n * ClusterBytes \in Nat
         /\ (n * ClusterBytes) % SizeMod \in Nat
         /\ n * ClusterBytes < SizeMod => (n * ClusterBytes) % SizeMod = n * ClusterBytes
  <1>1. n * ClusterBytes \in Nat /\ n * PerCluster \in Nat
    BY Fat32Constants
  <1>2. n * PerCluster * DirentBytes \in Nat
    <2> DEFINE m == n * PerCluster
    <2> HIDE DEF m
    <2>1. m * DirentBytes \in Nat
      BY <1>1, HeapFits DEF m
    <2> QED BY <2>1 DEF m
  <1> DEFINE m == n * ClusterBytes
  <1> HIDE DEF m
  <1>3. m \in Nat /\ SizeMod \in Nat \ {0}
    BY <1>1, HeapFits DEF m
  <1>4. m % SizeMod \in Nat /\ (m < SizeMod => m % SizeMod = m)
    BY <1>3
  <1> QED BY <1>1, <1>2, <1>4 DEF m

\* A chain consists of clusters, and its last one alone is followed by an end mark, or by
\* a reserved value.
LEMMA ChainFacts ==
  ASSUME NEW v, WellFormed(v), NEW s \in DOMAIN v.chain
  PROVE  LET p == v.chain[s]
         IN  /\ Len(p) \in Nat \ {0} /\ p[1] = s
             /\ \A j \in 1 .. Len(p) :
                  /\ p[j] \in DOMAIN v.fat /\ v.fat[p[j]] \in 0 .. EntryMod - 1
                  /\ p[j] \in 0 .. EntryMod - 17
                  /\ EntryType(p[j]) \notin {"LAST_CLUSTER", "RESERVED_VALUE"}
                  /\ p[j] = 0 \/ p[j] \in Clusters(v)
                  /\ j < Len(p) => v.fat[p[j]] = p[j + 1]
                  /\ j = Len(p) => EntryType(v.fat[p[j]]) \in {"LAST_CLUSTER", "RESERVED_VALUE"}
  <1> DEFINE p == v.chain[s]
  <1>1. IsChain(v, s)
    BY DEF WellFormed
  <1>2. PICK n \in 1 .. EntryMod - 17 : v.fat \in [0 .. n -> 0 .. EntryMod - 1]
    BY DEF WellFormed
  <1>3. p \in Seq(DOMAIN v.fat) /\ p # <<>> /\ p[1] = s
    BY <1>1 DEF IsChain
  <1>4. ASSUME NEW j \in 1 .. Len(p)
        PROVE  /\ p[j] \in DOMAIN v.fat /\ v.fat[p[j]] \in 0 .. EntryMod - 1
               /\ p[j] \in 0 .. EntryMod - 17
               /\ EntryType(p[j]) \notin {"LAST_CLUSTER", "RESERVED_VALUE"}
               /\ p[j] = 0 \/ p[j] \in Clusters(v)
    <2>1. p[j] \in 0 .. n
      <3>1. DOMAIN v.fat = 0 .. n
        BY <1>2
      <3>2. p \in Seq(0 .. n)
        BY <1>3, <3>1
      <3> HIDE DEF p
      <3> QED BY <3>2
    <2>2. p[j] \in 0 .. EntryMod - 17
      BY <2>1, <1>2, Fat32Constants
    <2>3. p[j] = 0 \/ EntryType(p[j]) = "USED_CLUSTER"
      BY <1>1 DEF IsChain
    <2>4. EntryType(0) = "FREE_CLUSTER" /\ EntryType(1) = "RESERVED_CLUSTER"
      BY Fat32Constants DEF EntryType
    <2> QED BY <1>2, <2>1, <2>2, <2>3, <2>4 DEF Clusters
  <1> QED BY <1>1, <1>3, <1>4 DEF IsChain

LEMMA ClusterNumbers ==
  ASSUME NEW v, WellFormed(v), NEW c \in Clusters(v)
  PROVE  c \in Nat /\ c >= 2
  <1>1. PICK n \in 1 .. EntryMod - 17 : v.fat \in [0 .. n -> 0 .. EntryMod - 1]
    BY DEF WellFormed
  <1>2. DOMAIN v.fat = 0 .. n /\ n \in Int
    BY <1>1, Fat32Constants
  <1> QED BY <1>2 DEF Clusters

LEMMA EndMarks ==
  ASSUME NEW x \in 0 .. EntryMod - 1, EntryType(x) = "LAST_CLUSTER"
  PROVE  x \in EntryMod - 8 .. EntryMod - 1
  BY Fat32Constants DEF EntryType

\* What is read at the address of a cluster, and of an end mark.
LEMMA ContentFacts ==
  ASSUME TypeOK, FsInv, fs # NoFs
  PROVE  /\ \A c \in Clusters(vol) : Content(UnitLba(c)) = c
         /\ Content(UnitLba(0)) = Foreign
         /\ \A c \in 0 .. EntryMod - 1 :
              EntryType(c) = "LAST_CLUSTER" => Content(UnitLba(c)) = Foreign
  <1> DEFINE spc == vol.id.sec_per_cluster
  <1>1. WellFormed(vol)
    BY DEF TypeOK
  <1>2. spc \in Nat \ {0} /\ FirstSector(vol) \in Nat
    <2>1. /\ vol.lba_start \in Nat
          /\ vol.id \in [sec_per_cluster : Nat \ {0}, reserved_area_nsec : Nat, nfats : Nat,
                          nsec_per_fat : Nat, info_sec_num : Nat]
      BY <1>1 DEF WellFormed
    <2>2. vol.id.nfats * vol.id.nsec_per_fat \in Nat
      BY <2>1
    <2> QED BY <2>1, <2>2 DEF FirstSector
  <1>3. \A c : UnitLba(c) = LbaOf(vol, c) % AddrMod
    BY DEF UnitLba, LbaOf, FsInv
  <1>4. ASSUME NEW c \in Clusters(vol) PROVE Content(UnitLba(c)) = c
    <2>1. c \in Nat /\ c >= 2
      BY <1>1, ClusterNumbers
    <2>2. LbaOf(vol, c) \in 0 .. AddrMod - 1
      <3>1. LbaOf(vol, c) + spc <= CardSectors
        BY <1>1 DEF WellFormed
      <3>2. (c - 2) * spc \in Nat
        BY <1>2, <2>1
      <3>3. LbaOf(vol, c) \in Nat
        BY <1>2, <3>2 DEF LbaOf
      <3> QED BY <1>2, <3>1, <3>3, Fat32Constants
    <2>3. UnitLba(c) = LbaOf(vol, c)
      BY <1>3, <2>2, Small, Fat32Constants
    <2>4. ASSUME NEW d \in Clusters(vol), LbaOf(vol, d) = LbaOf(vol, c) PROVE d = c
      <3>1. d \in Nat
        BY <1>1, ClusterNumbers
      <3>2. (d - 2) * spc = (c - 2) * spc
        <4>1. (d - 2) * spc \in Int /\ (c - 2) * spc \in Int
          BY <1>2, <2>1, <3>1
        <4> QED BY <1>2, <2>4, <4>1 DEF LbaOf
      <3> QED BY <1>2, <2>1, <3>1, <3>2
    <2> QED BY <2>3, <2>4 DEF Content
  <1>5. ASSUME NEW e \in {0} \cup (EntryMod - 8 .. EntryMod - 1) PROVE Content(UnitLba(e)) = Foreign
    <2>1. \A c \in Clusters(vol) : LbaOf(vol, e) % AddrMod # LbaOf(vol, c)
      BY <1>1 DEF WellFormed, EndsAreOutside
    <2> QED BY <1>3, <2>1 DEF Content
  <1> QED BY <1>4, <1>5, EndMarks
-----------------------------------------------------------------------------
\* The entries of a directory that has been read are those of its clusters, and past.
LEMMA DirentCases ==
  ASSUME IInv, pc = "search", NEW i \in 0 .. n_dirents - 1
  PROVE  \/ \E k \in 1 .. PerCluster : DirentAt(i) = vol.past[k]
         \/ \E j \in 1 .. Len(vol.chain[directory]), k \in 1 .. PerCluster :
              LET c == vol.chain[directory][j]
              IN  c \in Clusters(vol) /\ c # 0 /\ DirentAt(i) = vol.slots[c][k]
  <1> DEFINE q == i \div PerCluster
             k == (i % PerCluster) + 1
             c == data[q + 1]
  <1>1. /\ directory \in DOMAIN vol.chain /\ start_cluster = directory
        /\ cluster_num = Len(Chain) + 1 /\ Holds(Len(Chain))
        /\ data[Len(Chain) + 1] = Foreign /\ WellFormed(vol) /\ cluster_num \in Nat
    BY DEF IInv, TypeOK, WalkInv, CallInv, Walking
  <1>2. q \in 0 .. cluster_num - 1 /\ k \in 1 .. PerCluster
    <2>1. q \in 0 .. cluster_num - 1 /\ i % PerCluster \in 0 .. PerCluster - 1
      BY <1>1, Split, Fat32Constants DEF n_dirents
    <2> QED BY <2>1, Fat32Constants
  <1>3. DirentAt(i) = (IF c = Foreign THEN vol.past ELSE vol.slots[c])[k]
    BY DEF DirentAt
  <1>4. /\ Len(Chain) \in Nat
        /\ \A j \in 1 .. Len(Chain) :
             Chain[j] = 0 \/ (Chain[j] \in Clusters(vol) /\ Chain[j] # 0)
    BY <1>1, ChainFacts, ClusterNumbers DEF Chain
  <1>5. CASE q = Len(Chain)
    BY <1>1, <1>2, <1>3, <1>5
  <1>6. CASE q # Len(Chain)
    <2>1. q + 1 \in 1 .. Len(Chain)
      BY <1>1, <1>2, <1>4, <1>6
    <2>2. c = IF Chain[q + 1] = 0 THEN Foreign ELSE Chain[q + 1]
      BY <1>1, <2>1 DEF Holds
    <2>3. CASE Chain[q + 1] = 0
      BY <1>2, <1>3, <2>2, <2>3
    <2>4. CASE Chain[q + 1] # 0
      <3>1. c = Chain[q + 1] /\ c \in Clusters(vol) /\ c # 0
        BY <1>4, <2>1, <2>2, <2>4
      <3>2. c # Foreign
        BY <1>1, <3>1, ClusterNumbers DEF Foreign
      <3>3. DirentAt(i) = vol.slots[c][k]
        BY <1>3, <3>2
      <3>4. vol.chain[directory][q + 1] = c /\ q + 1 \in 1 .. Len(vol.chain[directory])
        BY <1>1, <2>1, <3>1 DEF Chain
      <3> QED BY <1>2, <3>1, <3>3, <3>4
    <2> QED BY <2>3, <2>4
  <1> QED BY <1>5, <1>6

LEMMA SlotFacts ==
  ASSUME NEW v, WellFormed(v), NEW c \in Clusters(v), NEW k \in 1 .. PerCluster
  PROVE  LET d == v.slots[c][k]
         IN  /\ d \in Dirents
             /\ IsDirent(d) => /\ d.start \in DOMAIN v.chain
                               /\ d.nbytes <= Len(v.chain[d.start]) * ClusterBytes
                               /\ d.start = 0 => d.nbytes = 0
             /\ DirentName(d) \in Strings => IsDirent(d)
  <1> DEFINE d == v.slots[c][k]
  <1>1. d \in Dirents
    <2>1. v.slots \in [Clusters(v) -> [1 .. PerCluster -> Dirents]]
      BY DEF WellFormed
    <2> QED BY <2>1
  <1>2. /\ IsDirent(d) => /\ d.start \in DOMAIN v.chain
                          /\ d.nbytes <= Len(v.chain[d.start]) * ClusterBytes
                          /\ d.start = 0 => d.nbytes = 0
        /\ d.attr = "label" => DirentName(d) \notin Strings
    BY DEF WellFormed
  <1> HIDE DEF d
  <1>3. DirentName(d) \in Strings => d.first = "live" /\ d.attr # "lfn"
    BY Fat32Constants DEF DirentName
  <1>4. DirentName(d) \in Strings => IsDirent(d)
    BY <1>2, <1>3 DEF IsDirent
  <1> QED BY <1>1, <1>2, <1>4 DEF d

LEMMA PastFacts ==
  ASSUME NEW v, WellFormed(v), NEW k \in 1 .. PerCluster
  PROVE  /\ v.past[k] \in Dirents /\ v.past[k].attr # "dir"
         /\ DirentName(v.past[k]) \notin Strings
  <1>1. v.past \in [1 .. PerCluster -> Dirents]
    BY DEF WellFormed
  <1>2. v.past[k].attr # "dir" /\ DirentName(v.past[k]) \notin Strings
    BY DEF WellFormed
  <1> QED BY <1>1, <1>2

LEMMA EntryStarts ==
  ASSUME WellFormed(vol), NEW s \in DOMAIN vol.chain, NEW d \in Entries(s)
  PROVE  d \in Dirents /\ d.start \in DOMAIN vol.chain
  <1>1. PICK j \in 1 .. Len(vol.chain[s]), k \in 1 .. PerCluster :
          vol.chain[s][j] # 0 /\ d = vol.slots[vol.chain[s][j]][k]
    BY DEF Entries
  <1>2. vol.chain[s][j] \in Clusters(vol)
    BY <1>1, ChainFacts
  <1>3. IsDirent(d)
    BY DEF Entries
  <1> QED BY <1>1, <1>2, <1>3, SlotFacts

\* A name that a client asks for is found in the directory only.
LEMMA DirentFacts ==
  ASSUME IInv, pc = "search", NEW i \in 0 .. n_dirents - 1
  PROVE  LET d == DirentAt(i)
         IN  /\ d \in Dirents
             /\ DirentName(d) \in Strings => d \in Entries(directory)
             /\ IsDirent(d) => \/ d \in Entries(directory)
                               \/ d \in {vol.past[k] : k \in 1 .. PerCluster} /\ d.attr # "dir"
             /\ d \in Entries(directory) => d.start \in DOMAIN vol.chain
  <1> DEFINE d == DirentAt(i)
  <1>1. WellFormed(vol) /\ directory \in DOMAIN vol.chain
    BY DEF IInv, TypeOK, CallInv, Walking
  <1>2. d \in Entries(directory) => d.start \in DOMAIN vol.chain
    BY <1>1, EntryStarts
  <1>3. CASE \E k \in 1 .. PerCluster : d = vol.past[k]
    <2>1. PICK k \in 1 .. PerCluster : d = vol.past[k]
      BY <1>3
    <2>2. d \in Dirents /\ d.attr # "dir" /\ DirentName(d) \notin Strings
      BY <1>1, <2>1, PastFacts
    <2> QED BY <1>2, <2>1, <2>2
  <1>4. CASE \E j \in 1 .. Len(vol.chain[directory]), k \in 1 .. PerCluster :
               LET c == vol.chain[directory][j]
               IN  c \in Clusters(vol) /\ c # 0 /\ d = vol.slots[c][k]
    <2>1. PICK j \in 1 .. Len(vol.chain[directory]), k \in 1 .. PerCluster :
            /\ vol.chain[directory][j] \in Clusters(vol) /\ vol.chain[directory][j] # 0
            /\ d = vol.slots[vol.chain[directory][j]][k]
      BY <1>4
    <2>2. d \in Dirents /\ (DirentName(d) \in Strings => IsDirent(d))
      BY <1>1, <2>1, SlotFacts
    <2>3. IsDirent(d) => d \in Entries(directory)
      BY <2>1 DEF Entries
    <2> QED BY <1>2, <2>2, <2>3
  <1> QED BY <1>3, <1>4, DirentCases

\* Every entry of the directory is in the buffer.
LEMMA DirentsRead ==
  ASSUME IInv, pc = "search", NEW d \in Entries(directory)
  PROVE  \E i \in 0 .. n_dirents - 1 : DirentAt(i) = d
  <1>1. /\ directory \in DOMAIN vol.chain /\ start_cluster = directory
        /\ cluster_num = Len(Chain) + 1 /\ Holds(Len(Chain))
        /\ WellFormed(vol) /\ cluster_num \in Nat
    BY DEF IInv, TypeOK, WalkInv, CallInv, Walking
  <1>2. PICK j \in 1 .. Len(Chain), k \in 1 .. PerCluster :
          Chain[j] # 0 /\ d = vol.slots[Chain[j]][k]
    BY <1>1 DEF Entries, Chain
  <1> DEFINE q == j - 1
             r == k - 1
             i == q * PerCluster + r
  <1>3. Len(Chain) \in Nat /\ Chain[j] \in Clusters(vol)
    BY <1>1, <1>2, ChainFacts DEF Chain
  <1>4. q \in 0 .. cluster_num - 1 /\ r \in 0 .. PerCluster - 1
    BY <1>1, <1>3, Fat32Constants
  <1>5. i \in 0 .. cluster_num * PerCluster - 1 /\ i \div PerCluster = q /\ i % PerCluster = r
    <2> HIDE DEF q, r
    <2> QED BY <1>1, <1>4, Join, Fat32Constants
  <1>6. data[q + 1] = Chain[j]
    BY <1>1, <1>2, <1>3 DEF Holds
  <1>7. Chain[j] # Foreign
    BY <1>1, <1>3, ClusterNumbers DEF Foreign
  <1>8. r + 1 = k
    BY Fat32Constants
  <1>9. DirentAt(i) = d
    BY <1>2, <1>5, <1>6, <1>7, <1>8 DEF DirentAt
  <1> QED BY <1>5, <1>9 DEF n_dirents
-----------------------------------------------------------------------------
\* What a step that returns nothing leaves alone.
LEMMA ResultsKept ==
  ASSUME IInv, UNCHANGED <<vol, call, result>>
  PROVE  FileIsWhole' /\ LookupExact' /\ ListingComplete'
  BY DEF IInv, FileIsWhole, LookupExact, ListingComplete, call, Entries, InDirectory

LEMMA InitInv == ASSUME Init PROVE IInv
  <1>1. WellFormed(vol)
    BY Fat32Constants DEF Init
  <1>2. dirent = NoDirent
    BY DEF Init
  <1>3. NoFs \in [cluster_begin_lba : Nat, sectors_per_cluster : Nat]
    BY DEF NoFs
  <1>4. TypeOK
    <2>1. data \in Seq(Clusters(vol) \cup {Foreign})
      BY DEF Init
    <2>2. result \in Results
      BY DEF Init, Results
    <2>3. 0 \in 0 .. EntryMod - 17 /\ 0 \in 0 .. EntryMod - 1 /\ 0 \in Nat
      BY Fat32Constants
    <2>4. heap_ptr \in 0 .. HeapEnd
      BY HeapFits DEF Init
    <2> QED BY <1>1, <1>2, <1>3, <2>1, <2>2, <2>3, <2>4 DEF TypeOK, Init
  <1>5. result.kind = "none" /\ result # NULL
    BY DEF Init, Nothing, NULL
  <1> QED
    BY <1>4, <1>5 DEF IInv, Init, WalkInv, FsInv, KnownInv, CallInv, Walking,
       FileIsWhole, LookupExact, ListingComplete, NoFs, RoomInv, WithinBuffer

\* Between calls only the place, the file system, the known entries and the heap change.
LEMMA IdleStep ==
  ASSUME IInv, UNCHANGED <<vol, call, loop, result>>,
         pc' \in {"idle", "refused", "panic", "null"}, FsInv', KnownInv',
         known' \subseteq PiDirents, heap_ptr' \in 0 .. HeapEnd,
         fs' \in [cluster_begin_lba : Nat, sectors_per_cluster : Nat]
  PROVE  IInv'
  <1>1. TypeOK'
    BY DEF IInv, TypeOK, call, loop, Results
  <1>2. WalkInv' /\ RoomInv' /\ CallInv'
    BY DEF IInv, WalkInv, RoomInv, WithinBuffer, CallInv, Walking, call, loop
  <1> QED BY <1>1, <1>2, ResultsKept DEF IInv

LEMMA MbrReadStep == ASSUME IInv, MbrRead PROVE IInv'
  <1>1. FsInv' /\ KnownInv'
    BY DEF IInv, MbrRead, FsInv, KnownInv, Walking
  <1>2. /\ known' \subseteq PiDirents
        /\ fs' \in [cluster_begin_lba : Nat, sectors_per_cluster : Nat]
    BY DEF IInv, TypeOK, MbrRead
  <1>3. pc' \in {"idle", "refused", "null"} /\ UNCHANGED <<vol, call, loop, result>>
    BY DEF MbrRead
  <1>4. heap_ptr' \in 0 .. HeapEnd
    BY HeapKept, HeapFits DEF IInv, TypeOK, MbrRead
  <1> QED BY <1>1, <1>2, <1>3, <1>4, IdleStep

LEMMA Fat32MkStep == ASSUME IInv, Fat32Mk PROVE IInv'
  <1>1. /\ known' \subseteq PiDirents /\ pc' \in {"idle", "refused", "null"}
        /\ UNCHANGED <<vol, call, loop, result>> /\ KnownInv'
    BY DEF IInv, TypeOK, Fat32Mk, KnownInv
  <1>2. FsInv' /\ fs' \in [cluster_begin_lba : Nat, sectors_per_cluster : Nat]
    <2>1. \/ UNCHANGED fs
          \/ fs' = [cluster_begin_lba |-> FirstSector(vol),
                    sectors_per_cluster |-> vol.id.sec_per_cluster]
      BY DEF Fat32Mk, FirstSector
    <2>2. FirstSector(vol) \in Nat /\ vol.id.sec_per_cluster \in Nat
      <3>1. /\ vol.lba_start \in Nat
            /\ vol.id \in [sec_per_cluster : Nat \ {0}, reserved_area_nsec : Nat, nfats : Nat,
                            nsec_per_fat : Nat, info_sec_num : Nat]
        BY DEF IInv, TypeOK, WellFormed
      <3>2. vol.id.nfats * vol.id.nsec_per_fat \in Nat
        BY <3>1
      <3> QED BY <3>1, <3>2 DEF FirstSector
    <2>3. fs' \in [cluster_begin_lba : Nat, sectors_per_cluster : Nat]
      BY <2>1, <2>2 DEF IInv, TypeOK
    <2>4. FsInv'
      BY <1>1, <2>1 DEF IInv, FsInv, Walking, FirstSector
    <2> QED BY <2>3, <2>4
  <1>3. heap_ptr' \in 0 .. HeapEnd
    <2>1. SectorBytes + FatBytes \in Nat
      BY HeapFits
    <2> QED BY <2>1, HeapKept DEF IInv, TypeOK, Fat32Mk
  <1> QED BY <1>1, <1>2, <1>3, IdleStep

LEMMA GetRootStep == ASSUME IInv, GetRoot PROVE IInv'
  <1> DEFINE root == [cluster_id |-> vol.root, is_dir_p |-> TRUE, nbytes |-> 0, name |-> NoString]
  <1>1. vol.root \in DOMAIN vol.chain
    BY DEF IInv, TypeOK, WellFormed
  <1>2. vol.root \in 0 .. EntryMod - 17
    BY <1>1, ChainFacts DEF IInv, TypeOK
  <1>3. root \in PiDirents
    BY <1>2 DEF PiDirents
  <1>4. /\ known' = known \cup {root} /\ pc' = "idle"
        /\ UNCHANGED <<vol, fs, heap_ptr, call, loop, result>>
    BY DEF GetRoot
  <1>5. known' \subseteq PiDirents
    BY <1>3, <1>4 DEF IInv, TypeOK
  <1>6. KnownInv'
    BY <1>1, <1>4 DEF IInv, KnownInv
  <1>7. /\ FsInv' /\ fs' \in [cluster_begin_lba : Nat, sectors_per_cluster : Nat]
        /\ heap_ptr' \in 0 .. HeapEnd
    BY <1>4 DEF IInv, FsInv, Walking, TypeOK
  <1> QED BY <1>4, <1>5, <1>6, <1>7, IdleStep

LEMMA StopStep == ASSUME IInv, DemandFails \/ Panic \/ WriteNull PROVE IInv'
  <1>1. /\ pc' \in {"refused", "panic", "null"}
        /\ UNCHANGED <<vol, fs, known, heap_ptr, call, loop, result>>
    BY DEF DemandFails, Panic, WriteNull
  <1>2. FsInv' /\ KnownInv'
    BY <1>1 DEF IInv, FsInv, KnownInv, Walking
  <1>3. /\ known' \subseteq PiDirents
        /\ fs' \in [cluster_begin_lba : Nat, sectors_per_cluster : Nat]
        /\ heap_ptr' \in 0 .. HeapEnd
    BY <1>1 DEF IInv, TypeOK
  <1> QED BY <1>1, <1>2, <1>3, IdleStep

LEMMA CallStep ==
  ASSUME IInv, NEW o \in {"readdir", "stat", "read"}, NEW d \in known, NEW f \in Strings,
         Call(o, d, f)
  PROVE  IInv'
  <1>1. d \in PiDirents /\ d.cluster_id \in DOMAIN vol.chain /\ WellFormed(vol)
    BY DEF IInv, TypeOK, KnownInv, Call
  <1>2. d.cluster_id \in 0 .. EntryMod - 17 /\ d.cluster_id \in 0 .. EntryMod - 1
    BY <1>1, Fat32Constants DEF PiDirents
  <1>3. /\ pc' = "count" /\ op' = o /\ directory' = d.cluster_id /\ walk' = "dir"
        /\ filename' = IF o = "readdir" THEN NoString ELSE f
        /\ start_cluster' = d.cluster_id /\ cur_cluster' = d.cluster_id
        /\ cluster_num' = 0 /\ room' = 0 /\ data' = <<>> /\ dirent' = NoDirent
        /\ result' = Nothing /\ UNCHANGED <<vol, fs, known, heap_ptr>> /\ fs # NoFs
    BY DEF Call, StartWalk, init_p
  <1>4. TypeOK'
    <2>1. result' \in Results'
      BY <1>3 DEF Results
    <2>2. data' \in Seq(Clusters(vol') \cup {Foreign}) /\ cluster_num' \in Nat
      BY <1>3
    <2>3. filename' \in Strings \cup {NoString}
      BY <1>3
    <2> QED BY <1>2, <1>3, <2>1, <2>2, <2>3 DEF IInv, TypeOK
  <1>5. WalkInv'
    <2>1. Len(Chain') \in Nat \ {0} /\ Chain'[1] = d.cluster_id
      BY <1>1, <1>3, ChainFacts DEF Chain
    <2>2. Stands(cluster_num)'
      BY <1>3, <2>1 DEF Stands
    <2> QED BY <1>1, <1>3, <2>2 DEF WalkInv
  <1>6. FsInv' /\ KnownInv' /\ CallInv' /\ RoomInv'
    BY <1>1, <1>3 DEF IInv, FsInv, KnownInv, CallInv, RoomInv, WithinBuffer
  <1>7. FileIsWhole' /\ LookupExact' /\ ListingComplete'
    BY <1>3 DEF FileIsWhole, LookupExact, ListingComplete, Nothing, NULL
  <1> QED BY <1>4, <1>5, <1>6, <1>7 DEF IInv

\* Where a walk stands, and where one more turn takes it.
LEMMA WalkOn ==
  ASSUME WellFormed(vol), start_cluster \in DOMAIN vol.chain, NEW n \in Nat, Stands(n)
  PROVE  /\ Len(Chain) \in Nat \ {0} /\ Chain[1] = start_cluster
         /\ EntryType(cur_cluster) = "LAST_CLUSTER" => n = Len(Chain) /\ EndsInMark
         /\ EntryType(cur_cluster) \notin {"LAST_CLUSTER", "RESERVED_VALUE"} =>
              n + 1 \in 1 .. Len(Chain)
         /\ n = Len(Chain) /\ EndsInMark => EntryType(cur_cluster) = "LAST_CLUSTER"
         /\ n + 1 \in 1 .. Len(Chain) =>
              /\ cur_cluster = Chain[n + 1] /\ vol.fat[cur_cluster] \in 0 .. EntryMod - 1
              /\ EntryType(cur_cluster) \notin {"LAST_CLUSTER", "RESERVED_VALUE"}
              /\ cur_cluster = 0 \/ cur_cluster \in Clusters(vol)
              /\ n + 1 < Len(Chain) => vol.fat[cur_cluster] = Chain[n + 2]
  <1>1. /\ Len(Chain) \in Nat \ {0} /\ Chain[1] = start_cluster
        /\ \A j \in 1 .. Len(Chain) :
             /\ vol.fat[Chain[j]] \in 0 .. EntryMod - 1
             /\ EntryType(Chain[j]) \notin {"LAST_CLUSTER", "RESERVED_VALUE"}
             /\ Chain[j] = 0 \/ Chain[j] \in Clusters(vol)
             /\ j < Len(Chain) => vol.fat[Chain[j]] = Chain[j + 1]
             /\ j = Len(Chain) => EntryType(vol.fat[Chain[j]]) \in {"LAST_CLUSTER", "RESERVED_VALUE"}
    BY ChainFacts DEF Chain
  <1>2. n \in 0 .. Len(Chain) /\ (n < Len(Chain) => cur_cluster = Chain[n + 1])
        /\ (n = Len(Chain) => cur_cluster = vol.fat[Chain[n]])
    BY DEF Stands
  <1>3. CASE n = Len(Chain)
    BY <1>1, <1>2, <1>3 DEF EndsInMark
  <1>4. CASE n # Len(Chain)
    <2>1. n + 1 \in 1 .. Len(Chain) /\ cur_cluster = Chain[n + 1]
      BY <1>1, <1>2, <1>4
    <2>2. n + 1 < Len(Chain) => vol.fat[Chain[n + 1]] = Chain[n + 2]
      BY <1>1, <2>1
    <2> QED BY <1>1, <1>4, <2>1, <2>2
  <1> QED BY <1>3, <1>4

LEMMA CountClusterStep == ASSUME IInv, CountCluster PROVE IInv'
  <1> DEFINE last == EntryType(cur_cluster) = "LAST_CLUSTER"
  <1>1. /\ WellFormed(vol) /\ start_cluster \in DOMAIN vol.chain /\ cluster_num \in Nat
        /\ pc = "count" /\ Stands(cluster_num) /\ data = <<>>
        /\ cur_cluster \in 0 .. EntryMod - 1 /\ EntryType(cur_cluster) # "RESERVED_VALUE"
    BY DEF IInv, TypeOK, WalkInv, Walking, CountCluster
  <1>2. /\ Len(Chain) \in Nat \ {0} /\ Chain[1] = start_cluster
        /\ last => cluster_num = Len(Chain) /\ EndsInMark
        /\ ~last => cluster_num + 1 \in 1 .. Len(Chain)
        /\ cluster_num + 1 \in 1 .. Len(Chain) =>
             /\ cur_cluster = Chain[cluster_num + 1]
             /\ vol.fat[cur_cluster] \in 0 .. EntryMod - 1
             /\ cluster_num + 1 < Len(Chain) => vol.fat[cur_cluster] = Chain[cluster_num + 2]
    BY <1>1, WalkOn
  <1>3. /\ UNCHANGED <<vol, fs, known, heap_ptr, call, walk, start_cluster, room, data, dirent,
                      result>>
        /\ cluster_num' = cluster_num + 1 /\ Chain' = Chain /\ pc' \in {"count", "alloc"}
    BY <1>1 DEF CountCluster, Chain
  <1>4. FsInv' /\ KnownInv' /\ CallInv' /\ RoomInv'
    BY <1>1, <1>3 DEF IInv, FsInv, KnownInv, CallInv, Walking, call, FoundInv,
       InDirectory, Entries, RoomInv, WithinBuffer
  <1>5. cur_cluster' \in 0 .. EntryMod - 1 /\ WalkInv'
    <2>1. CASE last
      <3>1. pc' = "alloc" /\ cur_cluster' = start_cluster
        BY <2>1 DEF CountCluster
      <3>2. start_cluster \in 0 .. EntryMod - 1
        BY DEF IInv, TypeOK
      <3>3. Stands(0)' /\ Len(data') = 0 /\ EndsInMark'
        BY <1>1, <1>2, <1>3, <2>1, <3>1 DEF Stands, EndsInMark
      <3> QED BY <1>1, <1>2, <1>3, <2>1, <3>1, <3>2, <3>3 DEF WalkInv, Holds
    <2>2. CASE ~last
      <3>1. pc' = "count" /\ cur_cluster' = vol.fat[cur_cluster]
        BY <1>1, <2>2 DEF CountCluster
      <3>2. Stands(cluster_num)'
        BY <1>1, <1>2, <1>3, <2>2, <3>1 DEF Stands
      <3> QED BY <1>1, <1>2, <1>3, <2>2, <3>1, <3>2 DEF WalkInv
    <2> QED BY <2>1, <2>2
  <1>6. TypeOK'
    BY <1>1, <1>3, <1>5 DEF IInv, TypeOK, call, Results
  <1> QED BY <1>3, <1>4, <1>5, <1>6, ResultsKept DEF IInv

LEMMA AllocateStep == ASSUME IInv, Allocate PROVE IInv'
  <1> DEFINE n_bytes == (cluster_num * ClusterBytes) % SizeMod
  <1>1. /\ WellFormed(vol) /\ start_cluster \in DOMAIN vol.chain /\ cluster_num \in Nat
        /\ pc = "alloc" /\ cluster_num = Len(Chain) + 1 /\ heap_ptr \in 0 .. HeapEnd
    BY DEF IInv, TypeOK, WalkInv, Walking, Allocate
  <1>2. /\ n_bytes \in Nat /\ cluster_num * ClusterBytes \in Nat
        /\ cluster_num * ClusterBytes < SizeMod => n_bytes = cluster_num * ClusterBytes
    BY <1>1, RoomsOf
  <1>3. /\ UNCHANGED <<vol, fs, known, call, walk, start_cluster, cur_cluster, cluster_num, data,
                      dirent, result>>
        /\ Chain' = Chain /\ room' \in {NullBuffer, n_bytes}
        /\ heap_ptr' = AfterAlloc(n_bytes) /\ pc' \in {"overrun", "read"}
        /\ pc' = "overrun" => heap_ptr + n_bytes >= SizeMod
    BY DEF Allocate, Chain
  <1>4. cluster_num * ClusterBytes + HeapEnd >= SizeMod \/ pc' # "overrun"
    <2> DEFINE m == cluster_num * ClusterBytes
    <2> HIDE DEF m
    <2>1. /\ m \in Nat /\ heap_ptr \in 0 .. HeapEnd /\ HeapEnd \in Nat /\ SizeMod \in Nat
          /\ m < SizeMod => heap_ptr + m >= SizeMod \/ pc' # "overrun"
      BY <1>1, <1>2, <1>3, HeapFits DEF m
    <2>2. m + HeapEnd >= SizeMod \/ pc' # "overrun"
      BY <2>1
    <2> QED BY <2>2 DEF m
  <1>5. heap_ptr' \in 0 .. HeapEnd
    BY <1>1, <1>2, <1>3, HeapKept
  <1>6. FsInv' /\ KnownInv' /\ CallInv'
    BY <1>1, <1>3 DEF IInv, FsInv, KnownInv, CallInv, Walking, call, FoundInv, InDirectory,
       Entries
  <1>7. RoomInv'
    BY <1>1, <1>3, <1>4 DEF RoomInv, WithinBuffer, Chain
  <1>8. WalkInv'
    BY <1>1, <1>3 DEF IInv, WalkInv, Walking, Stands, Holds, EndsInMark
  <1>9. TypeOK'
    BY <1>2, <1>3, <1>5 DEF IInv, TypeOK, call, Results
  <1> QED BY <1>3, <1>6, <1>7, <1>8, <1>9, ResultsKept DEF IInv

\* A buffer is too small for what is still to come only if its size has wrapped.
LEMMA OverrunStep == ASSUME IInv, Overrun PROVE IInv'
  <1> DEFINE m == cluster_num * ClusterBytes
             k == (Len(data) + 1) * ClusterBytes
  <1>1. /\ WellFormed(vol) /\ start_cluster \in DOMAIN vol.chain /\ cluster_num \in Nat
        /\ pc = "read" /\ cluster_num = Len(Chain) + 1 /\ Stands(Len(data))
        /\ data \in Seq(Clusters(vol) \cup {Foreign})
        /\ room = m % SizeMod /\ ~(k <= room)
    BY DEF IInv, TypeOK, WalkInv, RoomInv, Walking, Overrun, HasRoom
  <1>2. /\ pc' = "overrun" /\ UNCHANGED <<vol, fs, known, heap_ptr, call, loop, result>>
    BY DEF Overrun
  <1>3. m + HeapEnd >= SizeMod
    <2>1. Len(data) \in Nat /\ Len(data) + 1 <= cluster_num
      BY <1>1 DEF Stands
    <2>2. k <= m
      BY <1>1, <2>1, Grows, Fat32Constants
    <2>3. k \in Nat
      BY <2>1, Fat32Constants
    <2>4. m \in Nat /\ (m < SizeMod => m % SizeMod = m) /\ m % SizeMod \in Nat
      BY <1>1, RoomsOf
    <2> HIDE DEF m, k
    <2> QED BY <1>1, <2>2, <2>3, <2>4, HeapFits
  <1>4. WithinBuffer'
    BY <1>1, <1>2, <1>3 DEF WithinBuffer, Chain, loop
  <1>5. WalkInv' /\ RoomInv' /\ FsInv' /\ KnownInv' /\ CallInv'
    BY <1>2, <1>4 DEF IInv, WalkInv, RoomInv, FsInv, KnownInv, CallInv, Walking, call, loop
  <1>6. TypeOK'
    BY <1>2 DEF IInv, TypeOK, call, loop, Results
  <1> QED BY <1>2, <1>5, <1>6, ResultsKept DEF IInv

LEMMA ReadClusterStep == ASSUME IInv, ReadCluster PROVE IInv'
  <1> DEFINE last == EntryType(cur_cluster) = "LAST_CLUSTER"
             n == Len(data)
             c == Content(UnitLba(cur_cluster))
  <1>1. /\ WellFormed(vol) /\ start_cluster \in DOMAIN vol.chain /\ n \in Nat
        /\ cluster_num = Len(Chain) + 1 /\ pc = "read" /\ Stands(n) /\ Holds(n) /\ EndsInMark
        /\ cur_cluster \in 0 .. EntryMod - 1 /\ data \in Seq(Clusters(vol) \cup {Foreign})
        /\ walk \in {"dir", "file"} /\ cluster_num \in Nat
    BY DEF IInv, TypeOK, WalkInv, Walking, ReadCluster
  <1>2. /\ Len(Chain) \in Nat \ {0}
        /\ last => n = Len(Chain)
        /\ n = Len(Chain) => last
        /\ n + 1 \in 1 .. Len(Chain) =>
             /\ cur_cluster = Chain[n + 1] /\ vol.fat[cur_cluster] \in 0 .. EntryMod - 1
             /\ cur_cluster = 0 \/ cur_cluster \in Clusters(vol)
             /\ n + 1 < Len(Chain) => vol.fat[cur_cluster] = Chain[n + 2]
    BY <1>1, WalkOn
  <1>3. /\ UNCHANGED <<vol, fs, known, heap_ptr, call, walk, start_cluster, cluster_num, room,
                      dirent, result>>
        /\ data' = Append(data, c) /\ Chain' = Chain
        /\ pc' \in {"read"} \cup (IF walk = "dir" THEN {"search"} ELSE {"return"})
    BY <1>1 DEF ReadCluster, Chain
  <1>4. c \in Clusters(vol) \cup {Foreign}
    BY DEF Content
  <1>5. /\ data' \in Seq(Clusters(vol) \cup {Foreign}) /\ Len(data') = n + 1
        /\ data'[n + 1] = c /\ \A j \in 1 .. n : data'[j] = data[j]
    <2> HIDE DEF c
    <2> QED BY <1>1, <1>3, <1>4
  <1>6. /\ \A x \in Clusters(vol) : Content(UnitLba(x)) = x
        /\ Content(UnitLba(0)) = Foreign
        /\ last => c = Foreign
    <2>1. TypeOK /\ FsInv /\ fs # NoFs
      BY <1>1 DEF IInv, FsInv, Walking
    <2> QED BY <1>1, <2>1, ContentFacts
  <1>7. FsInv' /\ KnownInv' /\ CallInv'
    BY <1>1, <1>3 DEF IInv, FsInv, KnownInv, CallInv, Walking, call, FoundInv,
       InDirectory, Entries
  <1>8. CASE last
    <2>1. n = Len(Chain)
      BY <1>2, <1>8
    <2>2. /\ pc' = (IF walk = "dir" THEN "search" ELSE "return") /\ cur_cluster' = cur_cluster
      BY <1>8 DEF ReadCluster
    <2>3. Holds(Len(Chain))' /\ data'[Len(Chain) + 1] = Foreign /\ Len(data') = cluster_num
      <3> HIDE DEF c
      <3> QED BY <1>1, <1>3, <1>5, <1>6, <1>8, <2>1 DEF Holds
    <2>4. WalkInv'
      BY <1>1, <1>3, <2>2, <2>3 DEF WalkInv
    <2>5. TypeOK'
      BY <1>1, <1>3, <1>5, <2>2 DEF IInv, TypeOK, call, Results
    <2>6. RoomInv'
      <3>1. (n + 1) * ClusterBytes <= room /\ cluster_num = n + 1
        BY <1>1, <2>1 DEF ReadCluster, HasRoom
      <3> QED BY <1>3, <2>2, <3>1 DEF RoomInv, WithinBuffer
    <2> QED BY <1>3, <1>7, <2>4, <2>5, <2>6, ResultsKept DEF IInv
  <1>9. CASE ~last
    <2>1. n + 1 \in 1 .. Len(Chain)
      BY <1>1, <1>2, <1>9 DEF Stands
    <2>2. pc' = "read" /\ cur_cluster' = vol.fat[cur_cluster]
      BY <1>1, <1>9 DEF ReadCluster
    <2>3. Stands(Len(data))'
      <3> HIDE DEF c
      <3> QED BY <1>1, <1>2, <1>3, <1>5, <2>1, <2>2 DEF Stands
    <2>4. c = IF Chain[n + 1] = 0 THEN Foreign ELSE Chain[n + 1]
      <3>1. \A x \in Clusters(vol) : x # 0
        BY <1>1, ClusterNumbers
      <3> QED BY <1>2, <1>6, <2>1, <3>1
    <2>5. Holds(Len(data))'
      <3> HIDE DEF c
      <3> QED BY <1>1, <1>3, <1>5, <2>4 DEF Holds
    <2>6. WalkInv'
      BY <1>1, <1>3, <1>5, <2>2, <2>3, <2>5 DEF WalkInv, EndsInMark
    <2>7. TypeOK'
      BY <1>1, <1>2, <1>3, <1>5, <2>1, <2>2 DEF IInv, TypeOK, call, Results
    <2>8. RoomInv'
      BY <1>1, <1>3, <2>2 DEF IInv, RoomInv, WithinBuffer
    <2> QED BY <1>3, <1>7, <2>6, <2>7, <2>8, ResultsKept DEF IInv
  <1> QED BY <1>8, <1>9

\* A search ends, or goes on with the file that it has found.
LEMMA ReturnInv ==
  ASSUME IInv, NEW r, Return(r), r \in Results, UNCHANGED <<vol, fs, call>>,
         known' \subseteq PiDirents, KnownInv', heap_ptr' \in 0 .. HeapEnd,
         FileIsWhole', LookupExact', ListingComplete'
  PROVE  IInv'
  <1>1. /\ pc' = "idle" /\ result' = r /\ walk' = "dir" /\ start_cluster' = 0
        /\ cur_cluster' = 0 /\ cluster_num' = 0 /\ room' = 0 /\ data' = <<>>
        /\ dirent' = NoDirent
    BY DEF Return
  <1>2. TypeOK'
    <2>1. 0 \in 0 .. EntryMod - 1 /\ 0 \in Nat
      BY Fat32Constants
    <2>2. data' \in Seq(Clusters(vol') \cup {Foreign}) /\ result' \in Results'
      BY <1>1 DEF Results
    <2> QED BY <1>1, <2>1, <2>2 DEF IInv, TypeOK, call
  <1>3. WalkInv' /\ RoomInv' /\ FsInv' /\ CallInv'
    BY <1>1 DEF IInv, WalkInv, RoomInv, WithinBuffer, FsInv, CallInv, Walking, call
  <1> QED BY <1>2, <1>3 DEF IInv

LEMMA ConvertFacts ==
  ASSUME NEW d \in Dirents PROVE Convert(d) \in PiDirents /\ (Convert(d).is_dir_p <=> d.attr = "dir")
  <1>1. d.start \in 0 .. EntryMod - 17 /\ d.nbytes \in Nat /\ d.name \in Names
    BY DEF Dirents
  <1>2. DirentName(d) \in Names \cup {NoString}
    BY <1>1 DEF DirentName
  <1> QED BY <1>1, <1>2 DEF Convert, PiDirents

LEMMA NotFoundStep == ASSUME IInv, NotFound PROVE IInv'
  <1>1. /\ pc = "search" /\ op \in {"stat", "read"} /\ Matches = {} /\ Return(NULL)
        /\ UNCHANGED <<vol, fs, known, call>> /\ result' = NULL
    BY DEF NotFound, Return
  <1>2. filename \in Strings
    BY <1>1 DEF IInv, CallInv
  <1>3. \A d \in Entries(directory) : DirentName(d) # filename
    BY <1>1, DirentsRead DEF Matches
  <1>4. FileIsWhole' /\ ListingComplete' /\ LookupExact'
    <2>1. result'.kind = "null"
      BY <1>1 DEF NULL
    <2>2. Entries(directory)' = Entries(directory)
      BY <1>1 DEF Entries, call
    <2> QED BY <1>1, <1>3, <2>1, <2>2 DEF FileIsWhole, ListingComplete, LookupExact, call
  <1>5. known' \subseteq PiDirents /\ KnownInv' /\ NULL \in Results /\ heap_ptr' \in 0 .. HeapEnd
    BY <1>1 DEF IInv, TypeOK, KnownInv, Results, NotFound
  <1> QED BY <1>1, <1>4, <1>5, ReturnInv

LEMMA StatFoundStep == ASSUME IInv, StatFound PROVE IInv'
  <1>1. PICK i \in Matches :
          /\ Return([kind |-> "dirent", dirent |-> Convert(DirentAt(i))])
          /\ known' = known \cup {Convert(DirentAt(i))}
    BY DEF StatFound
  <1> DEFINE d == DirentAt(i)
             r == [kind |-> "dirent", dirent |-> Convert(d)]
  <1>2. pc = "search" /\ op = "stat" /\ UNCHANGED <<vol, fs, call>> /\ result' = r
    BY <1>1 DEF StatFound, Return
  <1>3. i \in 0 .. n_dirents - 1 /\ DirentName(d) = filename /\ filename \in Strings
    BY <1>2 DEF Matches, IInv, CallInv
  <1>4. d \in Dirents /\ d \in Entries(directory) /\ d.start \in DOMAIN vol.chain
    BY <1>2, <1>3, DirentFacts
  <1> HIDE DEF d
  <1>5. Convert(d) \in PiDirents /\ Convert(d).cluster_id = d.start
    BY <1>4, ConvertFacts DEF Convert
  <1>6. r \in Results
    BY <1>5 DEF Results
  <1>7. known' = known \cup {Convert(d)}
    BY <1>1 DEF d
  <1>8. known' \subseteq PiDirents /\ KnownInv'
    BY <1>2, <1>4, <1>5, <1>7 DEF IInv, TypeOK, KnownInv
  <1>9. FileIsWhole' /\ ListingComplete' /\ LookupExact'
    <2>1. result'.kind = "dirent" /\ result'.dirent = Convert(d) /\ result' # NULL
      BY <1>2 DEF NULL
    <2>2. Entries(directory)' = Entries(directory) /\ filename' = filename
      BY <1>2 DEF Entries, call
    <2> QED BY <1>3, <1>4, <2>1, <2>2 DEF FileIsWhole, ListingComplete, LookupExact
  <1>10. Return(r) /\ heap_ptr' \in 0 .. HeapEnd
    <2>1. heap_ptr' = AfterAlloc(DirentBytes) /\ heap_ptr \in 0 .. HeapEnd
      BY DEF StatFound, IInv, TypeOK
    <2> QED BY <1>1, <2>1, HeapKept, HeapFits DEF d
  <1> QED BY <1>2, <1>6, <1>8, <1>9, <1>10, ReturnInv

LEMMA ReadFoundStep == ASSUME IInv, ReadFound PROVE IInv'
  <1>1. PICK i \in Matches : dirent' = DirentAt(i) /\ StartWalk("file", DirentAt(i).start)
    BY DEF ReadFound
  <1> DEFINE d == DirentAt(i)
  <1>2. /\ pc = "search" /\ op = "read" /\ UNCHANGED <<vol, fs, known, heap_ptr, call, result>>
        /\ pc' = "count" /\ walk' = "file" /\ start_cluster' = d.start
        /\ cur_cluster' = d.start /\ cluster_num' = 0 /\ room' = 0 /\ data' = <<>> /\ dirent' = d
    BY <1>1 DEF ReadFound, StartWalk
  <1>3. i \in 0 .. n_dirents - 1 /\ DirentName(d) = filename /\ filename \in Strings
    BY <1>2 DEF Matches, IInv, CallInv
  <1>4. d \in Dirents /\ d \in Entries(directory) /\ d.start \in DOMAIN vol.chain
    BY <1>2, <1>3, DirentFacts
  <1> HIDE DEF d
  <1>5. WellFormed(vol) /\ d.start \in 0 .. EntryMod - 17 /\ d.start \in 0 .. EntryMod - 1
    BY <1>4, Fat32Constants DEF Dirents, IInv, TypeOK
  <1>6. TypeOK'
    <2>1. data' \in Seq(Clusters(vol') \cup {Foreign}) /\ result' \in Results'
      BY <1>2 DEF IInv, TypeOK, Results
    <2> QED BY <1>2, <1>4, <1>5, <2>1 DEF IInv, TypeOK, call
  <1>7. WalkInv'
    <2>1. Len(Chain') \in Nat \ {0} /\ Chain'[1] = d.start
      BY <1>2, <1>4, <1>5, ChainFacts DEF Chain
    <2>2. Stands(cluster_num)'
      BY <1>2, <2>1 DEF Stands
    <2> QED BY <1>2, <1>4, <2>2 DEF WalkInv
  <1>8. CallInv'
    <2>1. FoundInv'
      BY <1>2, <1>3, <1>4 DEF FoundInv, InDirectory, Entries, call
    <2> QED BY <1>2, <2>1 DEF IInv, CallInv, Walking, call
  <1>9. FsInv' /\ KnownInv' /\ RoomInv'
    BY <1>2 DEF IInv, FsInv, KnownInv, Walking, RoomInv, WithinBuffer
  <1> QED BY <1>2, <1>6, <1>7, <1>8, <1>9, ResultsKept DEF IInv

LEMMA ListDirentsStep == ASSUME IInv, ListDirents PROVE IInv'
  <1> DEFINE ds == {Convert(DirentAt(i)) : i \in ListedDirents}
             r == [kind |-> "directory", dirents |-> ds]
             past == {vol.past[k] : k \in 1 .. PerCluster}
  <1>1. /\ pc = "search" /\ op = "readdir" /\ UNCHANGED <<vol, fs, call>>
        /\ Return(r) /\ known' = known \cup ds /\ result' = r
    BY DEF ListDirents, Return
  <1>2. \A x \in ds : \E i \in 0 .. n_dirents - 1 :
          Listed(DirentAt(i)) /\ x = Convert(DirentAt(i))
    BY DEF ListedDirents
  <1>3. \A e \in Entries(directory) : Convert(e) \in ds
    <2>1. TAKE e \in Entries(directory)
    <2>2. PICK i \in 0 .. n_dirents - 1 : DirentAt(i) = e
      BY <1>1, DirentsRead
    <2>3. Listed(e)
      BY DEF Entries, IsDirent, Listed
    <2> QED BY <2>2, <2>3 DEF ListedDirents
  <1> HIDE DEF ds
  <1>4. \A x \in ds : \E d \in Dirents :
          /\ x = Convert(d) /\ d \in Entries(directory) \cup past
          /\ d.start \in DOMAIN vol.chain \/ d.attr # "dir"
    <2>1. TAKE x \in ds
    <2>2. PICK i \in 0 .. n_dirents - 1 : Listed(DirentAt(i)) /\ x = Convert(DirentAt(i))
      BY <1>2
    <2>3. DirentAt(i) \in Dirents /\ IsDirent(DirentAt(i))
      BY <1>1, <2>2, DirentFacts DEF Listed, IsDirent
    <2>4. /\ DirentAt(i) \in Entries(directory) \cup past
          /\ DirentAt(i).start \in DOMAIN vol.chain \/ DirentAt(i).attr # "dir"
      BY <1>1, <2>3, DirentFacts
    <2> QED BY <2>2, <2>3, <2>4
  <1> HIDE DEF past
  <1>5. ds \subseteq PiDirents /\ \A x \in ds : x.is_dir_p => x.cluster_id \in DOMAIN vol.chain
    <2>1. SUFFICES ASSUME NEW x \in ds
                   PROVE  x \in PiDirents /\ (x.is_dir_p => x.cluster_id \in DOMAIN vol.chain)
      OBVIOUS
    <2>2. PICK d \in Dirents : x = Convert(d) /\ (d.start \in DOMAIN vol.chain \/ d.attr # "dir")
      BY <1>4
    <2>3. x.cluster_id = d.start
      BY <2>2 DEF Convert
    <2> QED BY <2>2, <2>3, ConvertFacts
  <1>6. r \in Results
    BY <1>5 DEF Results
  <1>7. known' \subseteq PiDirents /\ KnownInv'
    BY <1>1, <1>5 DEF IInv, TypeOK, KnownInv
  <1>8. FileIsWhole' /\ ListingComplete' /\ LookupExact'
    <2>1. result'.kind = "directory" /\ result'.dirents = ds /\ result' # NULL
      BY <1>1 DEF NULL
    <2>2. Entries(directory)' = Entries(directory) /\ past' = past /\ InDirectory' = InDirectory
      BY <1>1 DEF Entries, call, past, InDirectory
    <2>3. {Convert(d) : d \in Entries(directory)} \subseteq ds
      BY <1>3
    <2>4. ds \subseteq {Convert(d) : d \in Entries(directory) \cup past}
      BY <1>4
    <2>5. ListingComplete'
      BY <2>1, <2>2, <2>3, <2>4 DEF ListingComplete, past
    <2> QED BY <2>1, <2>5 DEF FileIsWhole, LookupExact
  <1>9. heap_ptr' \in 0 .. HeapEnd
    <2>1. heap_ptr' = AfterAlloc(n_dirents * DirentBytes) /\ heap_ptr \in 0 .. HeapEnd
      BY DEF ListDirents, IInv, TypeOK
    <2>2. n_dirents * DirentBytes \in Nat
      BY RoomsOf DEF IInv, TypeOK, n_dirents
    <2> QED BY <2>1, <2>2, HeapKept
  <1> QED BY <1>1, <1>6, <1>7, <1>8, <1>9, ReturnInv

LEMMA FileReadStep == ASSUME IInv, FileRead PROVE IInv'
  <1> DEFINE r == [kind |-> "file", data |-> data, n_data |-> dirent.nbytes,
                   n_alloc |-> room]
  <1>1. /\ pc = "return" /\ Return(r) /\ UNCHANGED <<vol, fs, known, call>> /\ result' = r
    BY DEF FileRead, Return
  <1>2. /\ WellFormed(vol) /\ start_cluster = dirent.start /\ FoundInv
        /\ directory \in DOMAIN vol.chain /\ start_cluster \in DOMAIN vol.chain
        /\ cluster_num = Len(Chain) + 1 /\ Holds(Len(Chain)) /\ cluster_num \in Nat
        /\ data \in Seq(Clusters(vol) \cup {Foreign}) /\ dirent \in Dirents \cup {NoDirent}
        /\ cluster_num * ClusterBytes <= room /\ room \in Nat \cup {NullBuffer}
    BY <1>1 DEF IInv, TypeOK, WalkInv, RoomInv, CallInv, Walking
  <1>3. dirent.nbytes \in Nat
    BY <1>2 DEF Dirents, NoDirent
  <1>4. cluster_num * ClusterBytes \in Nat /\ room \in Nat
    <2>1. cluster_num * ClusterBytes \in Nat
      BY <1>2, Fat32Constants
    <2> QED BY <1>2, <2>1 DEF NullBuffer
  <1>5. r \in Results
    BY <1>2, <1>3, <1>4 DEF Results
  <1>6. known' \subseteq PiDirents /\ KnownInv' /\ heap_ptr' \in 0 .. HeapEnd
    <2>1. heap_ptr' = AfterAlloc(FileBytes) /\ heap_ptr \in 0 .. HeapEnd
      BY DEF FileRead, IInv, TypeOK
    <2> QED BY <1>1, <2>1, HeapKept, HeapFits DEF IInv, TypeOK, KnownInv
  <1>7. ASSUME InDirectory
        PROVE  /\ dirent \in Entries(directory) /\ DirentName(dirent) = filename
               /\ dirent.nbytes <= room
               /\ \A j \in 1 .. Len(vol.chain[dirent.start]) :
                    (j - 1) * ClusterBytes < dirent.nbytes =>
                      data[j] = vol.chain[dirent.start][j]
    <2>1. dirent \in Entries(directory) /\ DirentName(dirent) = filename
      BY <1>2, <1>7 DEF FoundInv
    <2>2. PICK c \in Clusters(vol), k \in 1 .. PerCluster : dirent = vol.slots[c][k]
      <3>1. PICK j \in 1 .. Len(vol.chain[directory]), k \in 1 .. PerCluster :
              vol.chain[directory][j] # 0 /\ dirent = vol.slots[vol.chain[directory][j]][k]
        BY <2>1 DEF Entries
      <3>2. vol.chain[directory][j] \in Clusters(vol)
        BY <1>2, <3>1, ChainFacts
      <3> QED BY <3>1, <3>2
    <2>3. IsDirent(dirent)
      BY <2>1 DEF Entries
    <2>4. /\ dirent.nbytes <= Len(Chain) * ClusterBytes
          /\ dirent.start = 0 => dirent.nbytes = 0
      BY <1>2, <2>2, <2>3, SlotFacts DEF Chain
    <2>5. Len(Chain) \in Nat
      BY <1>2, ChainFacts DEF Chain
    <2>6. dirent.nbytes <= room
      <3>1. Len(Chain) * ClusterBytes \in Nat
        BY <2>5, Fat32Constants
      <3>2. (Len(Chain) + 1) * ClusterBytes = Len(Chain) * ClusterBytes + ClusterBytes
        BY <2>5, Fat32Constants
      <3> QED BY <1>2, <1>3, <1>4, <2>4, <3>1, <3>2, Fat32Constants
    <2>7. ASSUME NEW j \in 1 .. Len(Chain), (j - 1) * ClusterBytes < dirent.nbytes
          PROVE  data[j] = Chain[j]
      <3>1. (j - 1) * ClusterBytes \in Nat
        BY <2>5, Fat32Constants
      <3>2. start_cluster # 0
        <4>1. dirent.nbytes # 0
          BY <2>7, <3>1
        <4> QED BY <1>2, <2>4, <4>1
      <3>3. Chain[j] # 0
        <4>1. IsChain(vol, start_cluster)
          BY <1>2 DEF WellFormed
        <4>2. Chain \in Seq(Clusters(vol))
          BY <3>2, <4>1 DEF IsChain, Chain
        <4>3. Chain[j] \in Clusters(vol)
          BY <2>5, <4>2
        <4> QED BY <1>2, <4>3, ClusterNumbers
      <3> QED BY <1>2, <2>7, <3>3 DEF Holds
    <2>8. Len(vol.chain[dirent.start]) = Len(Chain) /\ vol.chain[dirent.start] = Chain
      BY <1>2 DEF Chain
    <2> QED BY <2>1, <2>6, <2>7, <2>8
  <1>8. FileIsWhole' /\ ListingComplete' /\ LookupExact'
    <2>1. /\ result'.kind = "file" /\ result'.data = data /\ result' # NULL
          /\ result'.n_data = dirent.nbytes /\ result'.n_alloc = room
      BY <1>1 DEF NULL
    <2>2. /\ Entries(directory)' = Entries(directory) /\ InDirectory' = InDirectory
          /\ filename' = filename /\ vol' = vol
      BY <1>1 DEF Entries, call, InDirectory
    <2>3. FileIsWhole'
      BY <1>7, <2>1, <2>2 DEF FileIsWhole
    <2> QED BY <2>1, <2>3 DEF ListingComplete, LookupExact
  <1> QED BY <1>1, <1>5, <1>6, <1>8, ReturnInv

LEMMA Stutter == ASSUME IInv, UNCHANGED vars PROVE IInv'
  <1>1. TypeOK'
    BY DEF IInv, TypeOK, vars, call, loop, Results
  <1>2. WalkInv' /\ RoomInv' /\ FsInv' /\ KnownInv' /\ CallInv'
    BY DEF IInv, WalkInv, Stands, Holds, EndsInMark, Chain, RoomInv, WithinBuffer, FsInv, KnownInv,
       CallInv, FoundInv, Walking, InDirectory, Entries, vars, call, loop
  <1>3. UNCHANGED <<vol, call, result>>
    BY DEF vars
  <1> QED BY <1>1, <1>2, <1>3, ResultsKept DEF IInv

LEMMA StepInv == ASSUME IInv, [Next]_vars PROVE IInv'
  <1>1. CASE Client
    BY <1>1, MbrReadStep, Fat32MkStep, GetRootStep, StopStep, CallStep DEF Client
  <1>2. CASE Reader
    BY <1>2, CountClusterStep, AllocateStep, ReadClusterStep, OverrunStep, StopStep, NotFoundStep,
       StatFoundStep, ReadFoundStep, ListDirentsStep, FileReadStep DEF Reader
  <1>3. CASE UNCHANGED vars
    BY <1>3, Stutter
  <1> QED BY <1>1, <1>2, <1>3 DEF Next

LEMMA Inductive == Spec => []IInv
  BY InitInv, StepInv, PTL DEF Spec
-----------------------------------------------------------------------------
\* Every variable of the reader keeps its type, on every well-formed volume, with any heap and
\* for every sequence of calls.
THEOREM TypeCorrect == Spec => []TypeOK
  <1>1. IInv => TypeOK
    BY DEF IInv
  <1> QED BY <1>1, Inductive, PTL

\* The second walk of a chain stores nothing behind the end of a buffer that kmalloc has given,
\* whatever lies behind the end of the chain, but for chains that come so near to 2^32 bytes
\* that their buffer's size or its end wraps.
THEOREM BufferIsLargeEnough == Spec => []WithinBuffer
  <1>1. IInv => WithinBuffer
    BY DEF IInv, RoomInv
  <1> QED BY <1>1, Inductive, PTL

\* What fat32_read returns are the bytes of the file that has the name in the directory.  That
\* it returns is not said: with the heap used up it has written to address 0 before.
THEOREM FilesAreWhole == Spec => []FileIsWhole
  <1>1. IInv => FileIsWhole
    BY DEF IInv
  <1> QED BY <1>1, Inductive, PTL

\* If fat32_stat and fat32_read return, they have found a name if and only if the directory
\* has it.
THEOREM LookupIsExact == Spec => []LookupExact
  <1>1. IInv => LookupExact
    BY DEF IInv
  <1> QED BY <1>1, Inductive, PTL

\* If fat32_readdir returns, it lists every entry of the directory, and none that is deleted.
THEOREM ListingIsComplete == Spec => []ListingComplete
  <1>1. IInv => ListingComplete
    BY DEF IInv
  <1> QED BY <1>1, Inductive, PTL
=============================================================================

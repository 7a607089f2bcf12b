-------------------------------- MODULE Fat32 --------------------------------
(***************************************************************************)
(* The FAT32 reader: fat32.c, with the checks of mbr.c, mbr-helpers.c and  *)
(* fat32-helpers.c, on a card that it only reads.                          *)
(*                                                                         *)
(* A file or a directory is a chain of clusters linked by the FAT.  The    *)
(* code walks a chain twice, once to count it and once to read it into a   *)
(* buffer of that size; each turn of either loop is a step.  Both loops    *)
(* ask whether the cluster they stand on is an end mark, and not whether   *)
(* its entry is one.  So both take one turn more than the chain has        *)
(* clusters, and the second one reads what lies at the address that the    *)
(* end mark gives when it is taken for a cluster.                          *)
(*                                                                         *)
(* The content of a cluster is its number.  The buffers come from kmalloc, *)
(* which is never asked to free one, and whose answer nobody looks at; the *)
(* sizes that it is asked for are computed in 32 bits.                     *)
(***************************************************************************)
EXTENDS Integers, Sequences

CONSTANTS
  EntryMod,      \* an entry of the FAT has 28 bits
  AddrMod,       \* a sector number has 32
  CardSectors,   \* sectors of the card
  ClusterBytes,  \* bytes of a cluster
  PerCluster,    \* directory entries in a cluster
  SizeMod,       \* sizes and addresses have 32 bits
  HeapStarts,    \* where heap_ptr may be when the reader is first used
  HeapEnd,       \* heap_end
  SectorBytes, FatBytes, DirentBytes, FileBytes,  \* of a sector, the FAT, pi_dirent_t, pi_file_t
  Names,         \* of files, as fat32_dirent_name gives them
  Strings,       \* names that the client asks for
  NoString,      \* what a name is that nobody asks for
  Volumes        \* what may be on the card

\* The names are those of fat32_cluster_t.  The upper four bits of an entry,
\* which the code masks here and nowhere else, are taken to be clear.  At a reserved value
\* the code panics; only entry 0 has one, the media byte 0xF0 with all bits set above it.
EntryType(x) ==
  CASE x = 0 -> "FREE_CLUSTER"
    [] x = 1 -> "RESERVED_CLUSTER"
    [] x = EntryMod - 9 -> "BAD_CLUSTER"
    [] x \in 2 .. EntryMod - 17 -> "USED_CLUSTER"
    [] x \in EntryMod - 16 .. EntryMod - 10 -> "RESERVED_VALUE"
    [] x \in EntryMod - 8 .. EntryMod - 1 -> "LAST_CLUSTER"

\* first is what filename[0] tells: in use, never used, or deleted.
Dirents ==
  [first : {"live", "0", "e5"}, attr : {"archive", "dir", "lfn", "label", "none"},
   name : Names, start : 0 .. EntryMod - 17, nbytes : Nat]

\* The name of an entry, which to_8dot3 gives all three letters of its extension, be
\* they spaces.  A deleted entry has lost its first letter, and a long name reads as
\* a string that ends after its first letter: no one asks for such strings.
DirentName(d) == IF d.first = "live" /\ d.attr # "lfn" THEN d.name ELSE NoString

(***************************************************************************)
(* What a formatting program leaves on a card: the types of the four       *)
(* partitions, the volume id (fsinfo says that the signatures of the info  *)
(* sector are right), the FAT, the entries in each cluster, if it belongs  *)
(* to a directory, and those that are found when other sectors are taken   *)
(* for a directory (past).  chain is not on the card: it has the clusters  *)
(* that the file or directory with a given first cluster was written to,   *)
(* and the reader is measured against it.  Empty files begin at cluster 0, *)
(* whose entry holds the media byte: an end mark if that is 0xF8, and a    *)
(* reserved value if it is 0xF0.                                           *)
(***************************************************************************)
Clusters(v) == DOMAIN v.fat \ {0, 1}
FirstSector(v) == v.lba_start + v.id.reserved_area_nsec + v.id.nfats * v.id.nsec_per_fat
LbaOf(v, c) == FirstSector(v) + (c - 2) * v.id.sec_per_cluster
IsDirent(d) == d.first = "live" /\ d.attr \notin {"lfn", "label"}

IsChain(v, s) ==
  LET p == v.chain[s]
  IN  /\ p \in Seq(DOMAIN v.fat) /\ p # <<>> /\ p[1] = s
      /\ \A j \in 1 .. Len(p) : p[j] = 0 \/ EntryType(p[j]) = "USED_CLUSTER"
      /\ \A j \in 1 .. Len(p) - 1 : v.fat[p[j]] = p[j + 1]
      /\ \/ EntryType(v.fat[p[Len(p)]]) = "LAST_CLUSTER"
         \/ s = 0 /\ EntryType(v.fat[p[Len(p)]]) = "RESERVED_VALUE"
      /\ s # 0 => p \in Seq(Clusters(v))

\* The sectors of an end mark or of cluster 0, taken for a cluster, belong to no
\* cluster: with 16 sectors or more to a cluster they lie before the first one.
EndsAreOutside(v) ==
  \A e \in {0} \cup (EntryMod - 8 .. EntryMod - 1) : \A c \in Clusters(v) :
    LbaOf(v, e) % AddrMod # LbaOf(v, c)

WellFormed(v) ==
  /\ v.parts \in [1 .. 4 -> {"fat32", "other", "empty"}] /\ v.lba_start \in Nat
  /\ v.id \in [sec_per_cluster : Nat \ {0}, reserved_area_nsec : Nat, nfats : Nat,
               nsec_per_fat : Nat, info_sec_num : Nat]
  /\ v.fsinfo \in BOOLEAN
  /\ \E n \in 1 .. EntryMod - 17 : v.fat \in [0 .. n -> 0 .. EntryMod - 1]
  /\ \A c \in Clusters(v) : LbaOf(v, c) + v.id.sec_per_cluster <= CardSectors
  /\ EndsAreOutside(v)
  /\ DOMAIN v.chain \subseteq DOMAIN v.fat /\ {0, v.root} \subseteq DOMAIN v.chain
  /\ \A s \in DOMAIN v.chain : IsChain(v, s)
  /\ v.slots \in [Clusters(v) -> [1 .. PerCluster -> Dirents]]
  /\ v.past \in [1 .. PerCluster -> Dirents]
  /\ \A c \in Clusters(v), k \in 1 .. PerCluster :
       LET d == v.slots[c][k]
       IN  /\ IsDirent(d) => /\ d.start \in DOMAIN v.chain
                             /\ d.nbytes <= Len(v.chain[d.start]) * ClusterBytes
                             /\ d.start = 0 => d.nbytes = 0
           /\ d.attr = "label" => DirentName(d) \notin Strings
  /\ \A k \in 1 .. PerCluster :
       v.past[k].attr # "dir" /\ DirentName(v.past[k]) \notin Strings

ASSUME Fat32Constants ==
  /\ EntryMod \in Nat /\ EntryMod > 20
  /\ AddrMod \in Nat \ {0} /\ CardSectors \in Nat /\ CardSectors <= AddrMod
  /\ ClusterBytes \in Nat \ {0} /\ PerCluster \in Nat \ {0}
  /\ NoString \notin Strings
  /\ \A v \in Volumes : WellFormed(v)

\* Memory ends long before the addresses do: of what the reader asks for, only a chain's
\* buffer can be so large that its end wraps.
ASSUME HeapFits ==
  /\ SizeMod \in Nat \ {0} /\ HeapEnd \in Nat /\ HeapStarts \subseteq 1 .. HeapEnd
  /\ SectorBytes \in Nat \ {0} /\ FatBytes \in Nat \ {0}
  /\ DirentBytes \in Nat \ {0} /\ FileBytes \in Nat \ {0}
  /\ \A n \in {SectorBytes, SectorBytes + FatBytes, DirentBytes, FileBytes,
               (HeapEnd \div ClusterBytes) * PerCluster * DirentBytes} : HeapEnd + n < SizeMod

VARIABLES
  vol,            \* the card; never changes
  fs,             \* what fat32_mk returns, of which the FAT is that of the card
  known,          \* the pi_dirents that the client has been given
  heap_ptr,       \* kmalloc's
  pc,
  op, directory, filename,  \* the call and its arguments
  walk,           \* whose chain is walked, the directory's or the file's
  start_cluster, cur_cluster, cluster_num,
  room,           \* the bytes of the buffer, NullBuffer if there is none
  data,           \* what is in it, a cluster each
  dirent,         \* dirents[found_idx] of fat32_read
  result

call == <<op, directory, filename>>
loop == <<walk, start_cluster, cur_cluster, cluster_num, room, data, dirent>>
vars == <<vol, fs, known, heap_ptr, pc, call, loop, result>>

NoFs == [cluster_begin_lba |-> 0, sectors_per_cluster |-> 0]
init_p == fs # NoFs

Foreign == -1   \* what is in no cluster of the volume
NullBuffer == -1
NoDirent == [first |-> "0", attr |-> "none", name |-> NoString, start |-> 0, nbytes |-> 0]

\* dirent_convert
Convert(d) == [cluster_id |-> d.start, is_dir_p |-> d.attr = "dir", nbytes |-> d.nbytes,
               name |-> DirentName(d)]
PiDirents == [cluster_id : 0 .. EntryMod - 17, is_dir_p : BOOLEAN, nbytes : Nat,
              name : Names \cup {NoString}]

Nothing == [kind |-> "none"]
NULL == [kind |-> "null"]
Results ==
  {Nothing, NULL}
  \cup [kind : {"dirent"}, dirent : PiDirents]
  \cup [kind : {"directory"}, dirents : SUBSET PiDirents]
  \cup [kind : {"file"}, data : Seq(Clusters(vol) \cup {Foreign}), n_data : Nat, n_alloc : Nat]

TypeOK ==
  /\ WellFormed(vol) /\ known \subseteq PiDirents
  /\ fs \in [cluster_begin_lba : Nat, sectors_per_cluster : Nat]
  /\ heap_ptr \in 0 .. HeapEnd
  /\ pc \in {"start", "idle", "count", "alloc", "read", "search", "return", "refused", "panic",
             "null", "overrun"}
  /\ op \in {"none", "readdir", "stat", "read"}
  /\ directory \in 0 .. EntryMod - 17 /\ filename \in Strings \cup {NoString}
  /\ walk \in {"dir", "file"}
  /\ start_cluster \in 0 .. EntryMod - 1 /\ cur_cluster \in 0 .. EntryMod - 1
  /\ cluster_num \in Nat /\ room \in Nat \cup {NullBuffer} /\ data \in Seq(Clusters(vol) \cup {Foreign})
  /\ dirent \in Dirents \cup {NoDirent} /\ result \in Results

Init ==
  /\ vol \in Volumes /\ fs = NoFs /\ known = {} /\ heap_ptr \in HeapStarts /\ pc = "start"
  /\ op = "none" /\ directory = 0 /\ filename = NoString
  /\ walk = "dir" /\ start_cluster = 0 /\ cur_cluster = 0 /\ cluster_num = 0
  /\ room = 0 /\ data = <<>> /\ dirent = NoDirent /\ result = Nothing
-----------------------------------------------------------------------------
\* kmalloc of n bytes: it compares a sum that wraps with the end of the heap, and gives NULL
\* if that is greater.  With sizes that are multiples of 4 its rounding does nothing.
Gives(n) == (heap_ptr + n) % SizeMod <= HeapEnd
AfterAlloc(n) == IF Gives(n) THEN (heap_ptr + n) % SizeMod ELSE heap_ptr

\* mbr_check, and the assertion about the partition that follows in run.c.
MbrCheck(v) == v.parts[1] = "fat32" /\ \A p \in 2 .. 4 : v.parts[p] = "empty"

\* pi_sec_read reads a sector to what kmalloc gives, be it NULL.
MbrRead ==
  /\ pc = "start"
  /\ heap_ptr' = AfterAlloc(SectorBytes)
  /\ pc' = IF ~Gives(SectorBytes) THEN "null" ELSE IF MbrCheck(vol) THEN "idle" ELSE "refused"
  /\ UNCHANGED <<vol, fs, known, call, loop, result>>

VolumeIdCheck(id) ==
  id.nfats = 2 /\ id.info_sec_num = 1 /\ \E k \in 0 .. 7 : id.sec_per_cluster = 2 ^ k

\* The volume id is read into a place of its own, the info sector and the FAT into the heap.
MkFails == ~VolumeIdCheck(vol.id) \/ (Gives(SectorBytes) /\ ~vol.fsinfo)

Fat32Mk ==
  /\ pc = "idle" /\ ~init_p
  /\ IF ~MkFails /\ Gives(SectorBytes) /\ Gives(SectorBytes + FatBytes)
     THEN /\ fs' = [cluster_begin_lba |-> vol.lba_start + vol.id.reserved_area_nsec
                                           + vol.id.nfats * vol.id.nsec_per_fat,
                    sectors_per_cluster |-> vol.id.sec_per_cluster]
          /\ heap_ptr' = AfterAlloc(SectorBytes + FatBytes)
          /\ UNCHANGED pc
     ELSE pc' = (IF MkFails THEN "refused" ELSE "null") /\ UNCHANGED <<fs, heap_ptr>>
  /\ UNCHANGED <<vol, known, call, loop, result>>

GetRoot ==
  /\ pc = "idle" /\ init_p
  /\ known' = known \cup {[cluster_id |-> vol.root, is_dir_p |-> TRUE, nbytes |-> 0,
                           name |-> NoString]}
  /\ UNCHANGED <<vol, fs, heap_ptr, pc, call, loop, result>>

\* A demand that fails: a second fat32_mk, a call before it, a file taken for a
\* directory.
DemandFails ==
  /\ pc = "idle" /\ pc' = "refused"
  /\ UNCHANGED <<vol, fs, known, heap_ptr, call, loop, result>>

\* Slip: the file is read behind the directory.
StartWalkSameBuffer(w, first) ==
  /\ walk' = w /\ start_cluster' = first /\ cur_cluster' = first
  /\ cluster_num' = Len(data) /\ UNCHANGED <<room, data>> /\ pc' = "count"

StartWalk(w, first) ==
  /\ walk' = w /\ start_cluster' = first /\ cur_cluster' = first
  /\ cluster_num' = 0 /\ room' = 0 /\ data' = <<>> /\ pc' = "count"

\* fat32_readdir, fat32_stat and fat32_read all begin with get_dirents.
Call(o, d, f) ==
  /\ pc = "idle" /\ init_p /\ d.is_dir_p
  /\ op' = o /\ directory' = d.cluster_id
  /\ filename' = IF o = "readdir" THEN NoString ELSE f
  /\ StartWalk("dir", d.cluster_id)
  /\ dirent' = NoDirent /\ result' = Nothing
  /\ UNCHANGED <<vol, fs, known, heap_ptr>>

\* Slip: asks about the entry here, and not in read_cluster_chain.
CountClusterByEntry ==
  /\ pc = "count" /\ cluster_num' = cluster_num + 1
  /\ IF EntryType(vol.fat[cur_cluster]) = "LAST_CLUSTER"
     THEN pc' = "alloc" /\ cur_cluster' = start_cluster
     ELSE cur_cluster' = vol.fat[cur_cluster] /\ UNCHANGED pc
  /\ UNCHANGED <<vol, fs, known, heap_ptr, call, walk, start_cluster, room, data, dirent, result>>

\* One turn of get_cluster_chain_length.
CountCluster ==
  /\ pc = "count" /\ EntryType(cur_cluster) # "RESERVED_VALUE"
  /\ cluster_num' = cluster_num + 1
  /\ IF EntryType(cur_cluster) = "LAST_CLUSTER"
     THEN pc' = "alloc" /\ cur_cluster' = start_cluster
     ELSE cur_cluster' = vol.fat[cur_cluster] /\ UNCHANGED pc
  /\ UNCHANGED <<vol, fs, known, heap_ptr, call, walk, start_cluster, room, data, dirent, result>>

\* n_bytes in get_dirents, file_buf_bytes in fat32_read.  A block whose end wraps is given, and
\* clearing it goes over everything behind it.
Allocate ==
  LET n_bytes == (cluster_num * ClusterBytes) % SizeMod
  IN  /\ pc = "alloc"
      /\ room' = IF Gives(n_bytes) THEN n_bytes ELSE NullBuffer
      /\ heap_ptr' = AfterAlloc(n_bytes)
      /\ pc' = IF Gives(n_bytes) /\ heap_ptr + n_bytes >= SizeMod THEN "overrun" ELSE "read"
      /\ UNCHANGED <<vol, fs, known, call, walk, start_cluster, cur_cluster, cluster_num, data,
                    dirent, result>>

\* Slip: more than 32 bits.
UnitLbaWide(c) ==
  fs.cluster_begin_lba + (c - 2) * fs.sectors_per_cluster

\* lba in read_cluster_chain, in 32 bits.
UnitLba(c) == (fs.cluster_begin_lba + (c - 2) * fs.sectors_per_cluster) % AddrMod
OnCard(lba) == lba + fs.sectors_per_cluster <= CardSectors
Content(lba) ==
  IF \E c \in Clusters(vol) : LbaOf(vol, c) = lba
  THEN CHOOSE c \in Clusters(vol) : LbaOf(vol, c) = lba ELSE Foreign

HasRoom == (Len(data) + 1) * ClusterBytes <= room

\* One turn of read_cluster_chain.
ReadCluster ==
  /\ pc = "read" /\ OnCard(UnitLba(cur_cluster)) /\ HasRoom
  /\ data' = Append(data, Content(UnitLba(cur_cluster)))
  /\ IF EntryType(cur_cluster) = "LAST_CLUSTER"
     THEN pc' = (IF walk = "dir" THEN "search" ELSE "return") /\ UNCHANGED cur_cluster
     ELSE cur_cluster' = vol.fat[cur_cluster] /\ UNCHANGED pc
  /\ UNCHANGED <<vol, fs, known, heap_ptr, call, walk, start_cluster, cluster_num, room, dirent,
                result>>

\* The cluster is written behind the end of the buffer; what follows is not known.
Overrun ==
  /\ pc = "read" /\ OnCard(UnitLba(cur_cluster)) /\ ~HasRoom /\ room # NullBuffer
  /\ pc' = "overrun"
  /\ UNCHANGED <<vol, fs, known, heap_ptr, call, loop, result>>

\* The card has no such sector, and pi_sd_read panics; or fat32_fat_entry_type does.
Panic ==
  /\ \/ pc = "read" /\ ~OnCard(UnitLba(cur_cluster))
     \/ pc = "count" /\ EntryType(cur_cluster) = "RESERVED_VALUE"
  /\ pc' = "panic"
  /\ UNCHANGED <<vol, fs, known, heap_ptr, call, loop, result>>

\* Slip: the first cluster only.
n_direntsFirst == PerCluster

\* dirents + i of the directory that has been read.
n_dirents == cluster_num * PerCluster
DirentAt(i) ==
  LET c == data[(i \div PerCluster) + 1]
  IN  (IF c = Foreign THEN vol.past ELSE vol.slots[c])[(i % PerCluster) + 1]

\* find_dirent_with_name
Matches == {i \in 0 .. n_dirents - 1 : DirentName(DirentAt(i)) = filename}
IsFirstMatch(i) == i \in Matches /\ \A j \in Matches : i <= j

\* The locals are dead from then on.
Return(r) ==
  /\ pc' = "idle" /\ result' = r
  /\ walk' = "dir" /\ start_cluster' = 0 /\ cur_cluster' = 0 /\ cluster_num' = 0
  /\ room' = 0 /\ data' = <<>> /\ dirent' = NoDirent

NotFound ==
  /\ pc = "search" /\ op \in {"stat", "read"} /\ Matches = {}
  /\ Return(NULL)
  /\ UNCHANGED <<vol, fs, known, heap_ptr, call>>

StatFound ==
  /\ pc = "search" /\ op = "stat" /\ Gives(DirentBytes)
  /\ heap_ptr' = AfterAlloc(DirentBytes)
  /\ \E i \in Matches :
       /\ IsFirstMatch(i)
       /\ Return([kind |-> "dirent", dirent |-> Convert(DirentAt(i))])
       /\ known' = known \cup {Convert(DirentAt(i))}
  /\ UNCHANGED <<vol, fs, call>>

\* fat32_read goes on with the chain of the file.
ReadFound ==
  /\ pc = "search" /\ op = "read"
  /\ \E i \in Matches :
       /\ IsFirstMatch(i)
       /\ dirent' = DirentAt(i) /\ StartWalk("file", DirentAt(i).start)
  /\ UNCHANGED <<vol, fs, known, heap_ptr, call, result>>

\* Slip: a deleted entry is not free.
ListedDeleted(d) == d.first # "0" /\ d.attr \notin {"lfn", "label"}

\* fat32_dirent_free, and the two other entries that fat32_readdir skips.
Listed(d) == d.first = "live" /\ d.attr \notin {"lfn", "label"}

ListedDirents == {k \in 0 .. n_dirents - 1 : Listed(DirentAt(k))}

\* return_dirent has room for all n_dirents.
ListDirents ==
  /\ pc = "search" /\ op = "readdir"
  /\ Gives(n_dirents * DirentBytes) \/ ListedDirents = {}
  /\ heap_ptr' = AfterAlloc(n_dirents * DirentBytes)
  /\ LET ds == {Convert(DirentAt(i)) : i \in ListedDirents}
     IN  Return([kind |-> "directory", dirents |-> ds]) /\ known' = known \cup ds
  /\ UNCHANGED <<vol, fs, call>>

FileRead ==
  /\ pc = "return" /\ Gives(FileBytes)
  /\ heap_ptr' = AfterAlloc(FileBytes)
  /\ Return([kind |-> "file", data |-> data, n_data |-> dirent.nbytes, n_alloc |-> room])
  /\ UNCHANGED <<vol, fs, known, call>>

\* kmalloc's NULL is written through, to address 0; what follows is not known.
WriteNull ==
  /\ \/ pc = "read" /\ OnCard(UnitLba(cur_cluster)) /\ room = NullBuffer
     \/ pc = "search" /\ op = "stat" /\ Matches # {} /\ ~Gives(DirentBytes)
     \/ pc = "search" /\ op = "readdir" /\ ListedDirents # {} /\ ~Gives(n_dirents * DirentBytes)
     \/ pc = "return" /\ ~Gives(FileBytes)
  /\ pc' = "null"
  /\ UNCHANGED <<vol, fs, known, heap_ptr, call, loop, result>>

Client ==
  \/ MbrRead \/ Fat32Mk \/ GetRoot \/ DemandFails
  \/ \E o \in {"readdir", "stat", "read"}, d \in known, f \in Strings : Call(o, d, f)

Reader ==
  CountCluster \/ Allocate \/ ReadCluster \/ Overrun \/ Panic \/ NotFound \/ StatFound
  \/ ReadFound \/ ListDirents \/ FileRead \/ WriteNull

Next == Client \/ Reader
Spec == Init /\ [][Next]_vars
FairSpec == Spec /\ WF_vars(Reader)   \* nothing interrupts a call
-----------------------------------------------------------------------------
\* The entries of the directory with first cluster s.
Entries(s) ==
  {v \in {vol.slots[c][k] : c \in {vol.chain[s][j] : j \in 1 .. Len(vol.chain[s])} \ {0},
                           k \in 1 .. PerCluster} : IsDirent(v)}

\* The ".." of a directory in the root has cluster 0, which stands for the root
\* and which the code does not know; what is said of directories is said of the others.
InDirectory == directory # 0

\* read_cluster_chain stores no cluster beyond a buffer that kmalloc has given, sized by
\* counting the same chain in get_cluster_chain_length, unless the chain, with the cluster
\* that the end mark is taken for, comes within the heap's end of 2^32 bytes.
WithinBuffer ==
  pc = "overrun" => (Len(vol.chain[start_cluster]) + 1) * ClusterBytes + HeapEnd >= SizeMod

\* If fat32_read returns, it returns every byte of the file with that name in that directory,
\* in order, and a length that lies in the buffer, whatever was read behind it.
FileIsWhole ==
  result.kind = "file" /\ InDirectory =>
    \E d \in Entries(directory) :
      /\ DirentName(d) = filename /\ result.n_data = d.nbytes
      /\ result.n_data <= result.n_alloc
      /\ \A j \in 1 .. Len(vol.chain[d.start]) :
           (j - 1) * ClusterBytes < d.nbytes => result.data[j] = vol.chain[d.start][j]

\* fat32_stat and fat32_read return NULL only if the directory has no such name,
\* and fat32_stat returns an entry that is in the directory and in use, never a
\* deleted one or one from behind the end of its chain.
LookupExact ==
  InDirectory =>
    /\ result = NULL => \A d \in Entries(directory) : DirentName(d) # filename
    /\ result.kind = "dirent" =>
         \E d \in Entries(directory) : DirentName(d) = filename /\ result.dirent = Convert(d)

\* fat32_readdir lists each entry of the directory, and nothing that is deleted, a
\* label or part of a long name.  It also lists what it takes for entries in the
\* sectors it reads behind the end of the chain.
ListingComplete ==
  result.kind = "directory" /\ InDirectory =>
    /\ {Convert(d) : d \in Entries(directory)} \subseteq result.dirents
    /\ result.dirents \subseteq
         {Convert(d) : d \in Entries(directory) \cup {vol.past[k] : k \in 1 .. PerCluster}}

\* What the walks depend on: that the sectors exist which belong to the end marks
\* in use, and to the cluster 0 of an empty file, when these are taken for clusters, and that
\* the media byte makes entry 0 an end mark.
EndsAreOnCard ==
  /\ EntryType(vol.fat[0]) = "LAST_CLUSTER"
  /\ \A e \in {0} \cup {vol.fat[c] : c \in DOMAIN vol.fat} :
       e = 0 \/ EntryType(e) = "LAST_CLUSTER" =>
         (LbaOf(vol, e) % AddrMod) + vol.id.sec_per_cluster <= CardSectors

\* On a volume where this is so every call returns, as long as there is heap for what it reads:
\* each chain is left at its end, and nothing panics.
CallReturns ==
  EndsAreOnCard /\ pc \in {"count", "alloc", "read", "search", "return"} ~>
    pc \in {"idle", "null", "overrun"}

\* "Sectors per cluster (Must be a power of 2 and cluster size must be <=32 KB)",
\* fat32-helpers.h, and "can only be 1,2,4,8,16,32,64,128": the reader works for each.
\* It does not: with fewer than 16 the sectors of an end mark are not on the card.
NeverPanics == pc # "panic"
=============================================================================

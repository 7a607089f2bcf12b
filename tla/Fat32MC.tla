------------------------------ MODULE Fat32MC ------------------------------
\* Volumes of Last - 1 data clusters: a root directory of one or two clusters, in it a file in
\* any order, or one that is longer than the heap or than 32 bits can count, a subdirectory
\* with an empty file, deleted entries, labels and parts of long names.  EntryMod and AddrMod
\* are in the proportion of 2^28 and 2^32.
EXTENDS Fat32

CONSTANTS ClusterSizes, EndMarks, MediaEntries, Last, Lengths

Dirent(first, attr, name, start, nbytes) ==
  [first |-> first, attr |-> attr, name |-> name, start |-> start, nbytes |-> nbytes]

Free == Dirent("0", "none", "other", 0, 0)
Slot(tag, file, nbytes) ==
  CASE tag = "free" -> Free
    [] tag = "file" -> Dirent("live", "archive", "A.BIN", file, nbytes)
    [] tag = "deleted" -> Dirent("e5", "archive", "A.BIN", Last, 1)
    [] tag = "lfn" -> Dirent("live", "lfn", "A.BIN", 0, 0)
    [] tag = "label" -> Dirent("live", "label", "CARD.   ", 0, 0)
    [] tag = "sub" -> Dirent("live", "dir", "SUB.   ", Last, 0)

\* What a directory of one cluster, or of two, may hold.
Layouts(n) ==
  IF n = 1 THEN {<<"file", "sub">>, <<"deleted", "file">>, <<"label", "sub">>, <<"lfn", "file">>}
  ELSE {<<"label", "lfn", "file", "free">>, <<"sub", "deleted", "free", "file">>,
        <<"deleted", "free", "file", "sub">>}

\* Where the root directory and the file lie.
Placements == {<<<<2>>, <<>>>>, <<<<2>>, <<3>>>>, <<<<2>>, <<5, 3>>>>, <<<<2>>, <<3, 4, 5>>>>,
               <<<<2, 3>>, <<4, 5>>>>, <<<<4, 2>>, <<>>>>, <<<<5, 2>>, <<4, 3>>>>}
LongFiles == {[j \in 1 .. n |-> j + 2] : n \in Lengths}

Next1(s, c) == {s[j + 1] : j \in {i \in 1 .. Len(s) - 1 : s[i] = c}}

Fat(root, file, mark, media) ==
  [c \in 0 .. Last |->
     LET next == Next1(root, c) \cup Next1(file, c)
     IN  IF next # {} THEN CHOOSE n \in next : TRUE
         ELSE IF c = 0 THEN media
         ELSE IF c \in {1, Last} \cup {root[j] : j \in DOMAIN root} \cup {file[j] : j \in DOMAIN file}
              THEN mark ELSE 0]

First(s) == IF s = <<>> THEN 0 ELSE s[1]
\* The last cluster of the file has one byte, or all.
Sizes(file) ==
  IF file = <<>> THEN {0} ELSE {(Len(file) - 1) * ClusterBytes + 1, Len(file) * ClusterBytes}

Volume(root, file, nbytes, layout, mark, media, spc) ==
  [parts |-> <<"fat32", "empty", "empty", "empty">>, lba_start |-> 8,
   id |-> [sec_per_cluster |-> spc, reserved_area_nsec |-> 2, nfats |-> 2,
           nsec_per_fat |-> 5 * spc - 5, info_sec_num |-> 1],
   fsinfo |-> TRUE, root |-> root[1],
   fat |-> Fat(root, file, mark, media),
   chain |-> [s \in {0, root[1], Last, First(file)} |->
                CASE s = 0 -> <<0>> [] s = root[1] -> root [] s = Last -> <<Last>> [] OTHER -> file],
   slots |-> [c \in 2 .. Last |-> [k \in 1 .. 2 |->
                IF c = Last THEN (IF k = 1 THEN Dirent("live", "dir", "...   ", 0, 0)
                                           ELSE Dirent("live", "archive", "B.BIN", 0, 0))
                ELSE IF \E j \in 1 .. Len(root) : root[j] = c
                     THEN LET j == CHOOSE j \in 1 .. Len(root) : root[j] = c
                          IN  Slot(layout[2 * (j - 1) + k], First(file), nbytes)
                ELSE Free]],
   past |-> <<IF mark = EntryMod - 1 THEN Dirent("live", "none", "other", 3, 7) ELSE Free, Free>>]

SomeVolumes ==
  UNION {{Volume(root, file, nbytes, layout, mark, media, spc) :
            nbytes \in Sizes(file), layout \in Layouts(Len(root)),
            mark \in EndMarks, media \in {EntryMod - 8}, spc \in ClusterSizes} :
         <<root, file>> \in Placements}
  \cup {Volume(<<2>>, <<>>, 0, layout, EntryMod - 1, media, 16) :
           layout \in Layouts(1), media \in MediaEntries}
  \cup {Volume(<<2>>, file, Len(file) * ClusterBytes - 1, <<"file", "free">>, EntryMod - 1,
               EntryMod - 8, 16) : file \in LongFiles}
  \cup LET v == Volume(<<2>>, <<3>>, 1, <<"file", "free">>, EntryMod - 1, EntryMod - 8, 16)
       IN  {[v EXCEPT !.parts[2] = "other"], [v EXCEPT !.id.nfats = 1], [v EXCEPT !.fsinfo = FALSE]}

SomeNames == {"A.BIN", "B.BIN", "SUB.   ", "...   ", "CARD.   ", "other"}
SomeStrings == {"A.BIN", "B.BIN", "SUB.   ", "SUB"}
=============================================================================

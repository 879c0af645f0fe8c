------------------------------- MODULE Fat32 -------------------------------
(***************************************************************************)
(* The read-only fat32 file system (filesystems/fat32/fat32_fs.c) on a      *)
(* block device: mounting, the lookup of a path, the cursor of an open file *)
(* along its chain of clusters, and the listing of an open directory. One    *)
(* action is one call, which the kernel runs with interrupts disabled.       *)
(* Memory for inodes and open files is not modelled here (see RamfsFile).     *)
(***************************************************************************)
EXTENDS Integers, Sequences

CONSTANTS
    Volumes,            \* what the block device may hold (see Layout)
    Paths,              \* paths that programs open
    ReadSizes,          \* how much they read, how many entries they list
    Offsets,            \* offsets passed to lseek
    FAT32_SECTOR_SIZE,  \* bytes of a sector
    FatEntries,         \* entries of the FAT in a sector
    DirEntries,         \* directory entries in a sector
    FAT_ENTRY_END,      \* first FAT entry that is no cluster
    FAT_LFN_CHAR_COUNT, \* characters in an entry of a long name
    EXT_LENGTH,         \* characters of the extension of a short name
    CharValues,         \* values of a char
    NameLength,         \* size of the buffer for a long name
    MAX_DIR_NAME_LEN,   \* size of the buffer for the name of a listed file
    Modulus,            \* size_t is computed modulo 2^32
    MaxTurns            \* bound: entries of a directory, clusters of a file

ASSUME Fat32Assumption ==
    /\ ReadSizes \subseteq Nat /\ Offsets \subseteq Int /\ Paths \subseteq Seq(Seq(Nat))
    /\ {FAT32_SECTOR_SIZE, FatEntries, DirEntries, FAT_LFN_CHAR_COUNT, EXT_LENGTH,
        CharValues, NameLength, MAX_DIR_NAME_LEN, Modulus, MaxTurns} \subseteq Nat \ {0}
    /\ FAT_ENTRY_END \in Nat

VARIABLES
    volume,     \* the device
    sb,         \* fat32_sb_private_t
    file,       \* the open regular file
    dir,        \* the open directory, and what was listed of it
    ret,        \* status and bytes that the last read or seek returned
    panic       \* the call that stopped the machine, and its position

vars == <<volume, sb, file, dir, ret, panic>>

MinOf(a, b) == IF a < b THEN a ELSE b

-----------------------------------------------------------------------------
(* Layout: what the tools that format and fill the device put where. A      *)
(* volume has the fields of the boot sector, the chains of clusters by       *)
(* their first cluster and the entries of each directory; tree and listing   *)
(* say which files these entries stand for.                                  *)

Blocks == 0 .. volume.blocks - 1
DataArea(boot) == boot.reserved + boot.fat_count * boot.table_size
DataStart == DataArea(volume)

\* The cluster that holds a block of the data area, and the block's place in it.
ClusterOf(block) == (block - DataStart) \div volume.sectors_per_cluster + 2
PlaceOf(block) == (block - DataStart) % volume.sectors_per_cluster

\* The first cluster of the chain that a cluster is in, and its index there.
HeadOf(cluster) == CHOOSE s \in DOMAIN volume.chains :
                     \E k \in DOMAIN volume.chains[s] : volume.chains[s][k] = cluster
IndexOf(chain, cluster) == CHOOSE k \in DOMAIN chain : chain[k] = cluster
InChain(cluster) == \E s \in DOMAIN volume.chains :
                      \E k \in DOMAIN volume.chains[s] : volume.chains[s][k] = cluster

\* Entry i of a sector of the FAT: the next cluster, the end of a chain (also
\* the reserved entries 0 and 1), or a free cluster.
FatCell(block, i) ==
    LET cluster == ((block - volume.reserved) % volume.table_size) * FatEntries + i
        chain == volume.chains[HeadOf(cluster)]
        k == IndexOf(chain, cluster)
    IN  IF cluster < 2 THEN FAT_ENTRY_END
        ELSE IF ~ InChain(cluster) THEN 0
        ELSE IF k = Len(chain) THEN FAT_ENTRY_END ELSE chain[k + 1]

\* Entry i of a sector of a directory; the rest of its last cluster is zero.
END_ENTRY == [first |-> "END"]
DirCell(block, i) ==
    LET head == HeadOf(ClusterOf(block))
        k == IndexOf(volume.chains[head], ClusterOf(block)) - 1
        n == (k * volume.sectors_per_cluster + PlaceOf(block)) * DirEntries + i + 1
    IN  IF n <= Len(volume.dirs[head]) THEN volume.dirs[head][n] ELSE END_ENTRY

\* Byte i of any other sector: every byte of the device is different.
ByteCell(block, i) == block * FAT32_SECTOR_SIZE + i

-----------------------------------------------------------------------------
(* Sectors and clusters                                                    *)

\* No location: an assertion failed on the way.
NOWHERE == [start_cluster |-> 0, cluster |-> 0, sector_index |-> -1]

\* _fat32_get_inode_start_sector
StartOf(cluster) == [start_cluster |-> cluster, cluster |-> cluster, sector_index |-> 0]

\* _fat32_cluster_sector_index, _fat32_sector_index
SectorIndex(loc) ==
    sb.data_sector_start + (loc.cluster - 2) * sb.sectors_per_cluster + loc.sector_index

\* _fat_read_table: 0 when the entry is not a cluster, which is fatal.
FatReadTable(cluster) ==
    LET block == sb.fat_sector_start + cluster \div FatEntries
        entry == FatCell(block, cluster % FatEntries)
    IN  IF block \in Blocks /\ entry \in 2 .. FAT_ENTRY_END - 1 THEN entry ELSE 0

\* Faulty variant: the last sector of a cluster is skipped.
NextSectorEarly(loc) ==
    IF loc.sector_index + 2 < sb.sectors_per_cluster
    THEN [loc EXCEPT !.sector_index = @ + 1]
    ELSE IF FatReadTable(loc.cluster) = 0 THEN NOWHERE
    ELSE [loc EXCEPT !.cluster = FatReadTable(loc.cluster), !.sector_index = 0]

\* _fat_next_sector_location
NextSector(loc) ==
    IF loc = NOWHERE THEN NOWHERE
    ELSE IF loc.sector_index + 1 # sb.sectors_per_cluster
    THEN [loc EXCEPT !.sector_index = @ + 1]
    ELSE IF FatReadTable(loc.cluster) = 0 THEN NOWHERE
    ELSE [loc EXCEPT !.cluster = FatReadTable(loc.cluster), !.sector_index = 0]

\* The chain from a cluster on, as far as the FAT can be followed.
Longer(chain) ==
    LET next == FatReadTable(chain[Len(chain)])
    IN  IF next = 0 THEN chain ELSE Append(chain, next)
Follow(cluster) ==
    LET turn[n \in 0 .. MaxTurns] == IF n = 0 THEN <<cluster>> ELSE Longer(turn[n - 1])
    IN  turn[MaxTurns]

\* _fat_prev_sector_location: the chain is walked again from its start.
PrevSector(loc) ==
    LET chain == Follow(loc.start_cluster)
        before == {k \in 1 .. Len(chain) - 1 : chain[k + 1] = loc.cluster}
    IN  IF loc = NOWHERE THEN NOWHERE
        ELSE IF loc.sector_index # 0 THEN [loc EXCEPT !.sector_index = @ - 1]
        ELSE IF loc.cluster = loc.start_cluster \/ before = {} THEN NOWHERE
        ELSE [loc EXCEPT !.cluster = chain[CHOOSE k \in before : \A j \in before : k <= j],
                         !.sector_index = sb.sectors_per_cluster - 1]

-----------------------------------------------------------------------------
(* Names: characters are numbers, 0 ends a string                          *)

\* _to_lower
Lower(car) == IF car \in 65 .. 90 THEN car + 32 ELSE car
LowerIf(flag, cars) == [i \in DOMAIN cars |-> IF flag THEN Lower(cars[i]) ELSE cars[i]]

\* _fat32_read_entry_filename. The fields are padded with spaces, and the
\* length of the name is what ends the extension.
ShortName(entry) ==
    LET padded == [i \in 1 .. MinOf(EXT_LENGTH, Len(entry.name)) |->
                     IF i <= Len(entry.ext) THEN entry.ext[i] ELSE 32]
    IN  LowerIf(entry.name_lower, entry.name)
        \o IF entry.ext = <<>> THEN <<>> ELSE <<46>> \o LowerIf(entry.ext_lower, padded)

\* The string that begins a buffer.
CString(buffer) ==
    LET zeros == {i \in DOMAIN buffer : buffer[i] = 0}
    IN  SubSeq(buffer, 1, (CHOOSE i \in zeros : \A j \in zeros : i <= j) - 1)

\* Faulty variant: the parts of a long name are taken in the order on disk.
PartStartReversed(entry) == FAT_LFN_CHAR_COUNT * (IF entry.last THEN 0 ELSE entry.seq)

\* Where a part of a long name goes.
PartStart(entry) == FAT_LFN_CHAR_COUNT * (entry.seq - 1)

\* _dummy_utf16_to_ascii: a char keeps the low byte of a character.
Ascii(part) == [i \in DOMAIN part |-> part[i] % CharValues]

\* The LFN case of the iterator, with _copy_lfn_chars: the last part of a name
\* comes first and ends the string; a part ends at a zero.
WithLfn(buffer, entry) ==
    LET start == PartStart(entry)
        ended == IF entry.last
                 THEN [buffer EXCEPT ![FAT_LFN_CHAR_COUNT * entry.seq + 1] = 0] ELSE buffer
        part == Ascii(entry.part)
        copied == {i \in DOMAIN part : \A j \in 1 .. i - 1 : part[j] # 0}
    IN  [x \in DOMAIN buffer |-> IF x - start \in copied THEN part[x - start] ELSE ended[x]]

-----------------------------------------------------------------------------
(* Directory entries                                                       *)

LFN == {"READ_ONLY", "HIDDEN", "SYSTEM", "VOLUME_ID"}
IsDir(entry) == "DIRECTORY" \in entry.attributes

\* Faulty variant: the iterator stays in the sector.
AfterEntryInSector(loc, index) == [loc |-> loc, index |-> (index + 1) % DirEntries]

\* fat_32_directory_entry_iterator_next: the location after an entry.
AfterEntry(loc, index) ==
    IF index + 1 < DirEntries THEN [loc |-> loc, index |-> index + 1]
    ELSE [loc |-> NextSector(loc), index |-> 0]

\* One turn of its loop. It leaves the entry behind before it looks at it.
ExamineEntry(it, entry, after) ==
    LET moved == [it EXCEPT !.loc = after.loc, !.index = after.index]
    IN  IF entry.first = "END" THEN [it EXCEPT !.status = "end"]
        ELSE IF after.loc = NOWHERE THEN [it EXCEPT !.status = "fatal"]
        ELSE IF entry.first = "DELETED" THEN moved
        ELSE IF entry.attributes \cap LFN # {}
        THEN [moved EXCEPT !.buffer = WithLfn(it.buffer, entry),
                           !.reading_lfn = @ \/ entry.last]
        ELSE IF \/ "VOLUME_ID" \in entry.attributes
                \/ "DIRECTORY" \in entry.attributes /\ entry.first = "DOT"
        THEN moved
        ELSE [moved EXCEPT !.status = "entry", !.entry = entry,
                           !.filename = IF it.reading_lfn THEN CString(it.buffer)
                                        ELSE ShortName(entry)]
Examine(it) ==
    IF it.status # "more" THEN it
    ELSE IF SectorIndex(it.loc) \notin Blocks THEN [it EXCEPT !.status = "fatal"]
    ELSE ExamineEntry(it, DirCell(SectorIndex(it.loc), it.index), AfterEntry(it.loc, it.index))

\* fat_32_directory_entry_iterator_next from a location on.
Iterator(loc, index) ==
    [loc |-> loc, index |-> index, reading_lfn |-> FALSE,
     buffer |-> [i \in 1 .. NameLength |-> 0],
     status |-> "more", entry |-> END_ENTRY, filename |-> <<>>]
NextEntry(loc, index) ==
    LET turn[n \in 0 .. MaxTurns] ==
            IF n = 0 THEN Iterator(loc, index) ELSE Examine(turn[n - 1])
    IN  turn[MaxTurns]

\* _fat32_create_inode; the root directory of _fat32_sb_read_inode.
InodeOf(entry) == [is_dir |-> IsDir(entry), cluster |-> entry.cluster, size |-> entry.size]
RootInode == [is_dir |-> TRUE, cluster |-> sb.root_cluster, size |-> 0]

\* _fat32fs_inode_lookup
Compare(it, name) ==
    IF it.status # "entry" \/ it.filename = name THEN it ELSE NextEntry(it.loc, it.index)
Lookup(inode, name) ==
    LET turn[n \in 0 .. MaxTurns] ==
            IF n = 0 THEN NextEntry(StartOf(inode.cluster), 0) ELSE Compare(turn[n - 1], name)
    IN  turn[MaxTurns]

\* A path from the root on. A name below a regular file is not found.
Entered(w, it) ==
    [status |-> it.status,
     inode |-> IF it.status = "entry" THEN InodeOf(it.entry) ELSE w.inode]
Descend(w, name) ==
    IF w.status # "entry" THEN w
    ELSE IF ~ w.inode.is_dir THEN [w EXCEPT !.status = "end"]
    ELSE Entered(w, Lookup(w.inode, name))
Walk(path) ==
    LET turn[n \in 0 .. Len(path)] ==
            IF n = 0 THEN [status |-> "entry", inode |-> RootInode]
            ELSE Descend(turn[n - 1], path[n])
    IN  turn[Len(path)]

-----------------------------------------------------------------------------
(* Volumes as mkfs.fat and mtools leave them, without a label and without   *)
(* read-only, hidden or system files, which the iterator takes for parts of *)
(* long names.                                                              *)

\* Chains share no cluster; their clusters have an entry in the FAT and
\* sectors on the device.
ChainsOk(v) ==
    /\ {v.blocks, v.reserved, v.fat_count, v.table_size, v.sectors_per_cluster} \subseteq Nat \ {0}
    /\ v.reserved + v.table_size <= v.blocks
    /\ \A s \in DOMAIN v.chains :
          /\ v.chains[s] \in Seq(2 .. FAT_ENTRY_END - 1) /\ v.chains[s] # <<>>
          /\ Len(v.chains[s]) <= MaxTurns /\ v.chains[s][1] = s
          /\ \A k \in DOMAIN v.chains[s] :
                /\ v.chains[s][k] < v.table_size * FatEntries
                /\ DataArea(v) + (v.chains[s][k] - 1) * v.sectors_per_cluster <= v.blocks
    /\ \A s, t \in DOMAIN v.chains : \A j \in DOMAIN v.chains[s], k \in DOMAIN v.chains[t] :
          v.chains[s][j] = v.chains[t][k] => s = t /\ j = k

\* An entry that stands for a file or a directory; a part of a long name.
Shown(entry) ==
    /\ entry.first # "DELETED" /\ entry.attributes \cap LFN = {}
    /\ ~ (IsDir(entry) /\ entry.first = "DOT")
IsPart(entry) == entry.first # "DELETED" /\ entry.attributes \cap LFN # {}

\* Sectors of a chain.
SectorsOf(v, s) == Len(v.chains[s]) * v.sectors_per_cluster

\* What an entry refers to: the clusters of a directory; no cluster or the
\* clusters that hold the file.
InodeOk(v, entry) ==
    IF IsDir(entry) THEN entry.cluster \in DOMAIN v.dirs
    ELSE /\ entry.cluster \notin DOMAIN v.dirs /\ entry.size \in 0 .. Modulus - 1
         /\ \/ entry.cluster = 0 /\ entry.size = 0
            \/ /\ entry.cluster \in DOMAIN v.chains
               /\ entry.size <= SectorsOf(v, entry.cluster) * FAT32_SECTOR_SIZE

\* The entries of a directory fit in its clusters, and the parts of a long
\* name lie before an entry.
DirsOk(v) ==
    /\ v.root \in DOMAIN v.dirs /\ DOMAIN v.dirs \subseteq DOMAIN v.chains
    /\ \A s \in DOMAIN v.dirs :
          /\ Len(v.dirs[s]) \in 0 .. SectorsOf(v, s) * DirEntries
          /\ SectorsOf(v, s) * DirEntries <= MaxTurns
          /\ \A k \in 1 .. Len(v.dirs[s]) :
                /\ v.dirs[s][k].first # "END"
                /\ Shown(v.dirs[s][k]) => InodeOk(v, v.dirs[s][k])
                /\ IsPart(v.dirs[s][k]) =>
                      \E n \in k + 1 .. Len(v.dirs[s]) :
                          Shown(v.dirs[s][n]) /\ \A j \in k .. n - 1 : IsPart(v.dirs[s][j])

\* Entry k of the directory d has a long name of m parts: they lie before it,
\* the last one first, and hold the characters of the name and a zero. The
\* name is the one with the low bytes of the characters. It has so few parts
\* that the zero behind the last one is in the buffer.
LongName(d, k, m, name) ==
    /\ FAT_LFN_CHAR_COUNT * m < NameLength /\ (m = k - 1 \/ ~ IsPart(d[k - m - 1]))
    /\ Len(name) <= FAT_LFN_CHAR_COUNT * m /\ \A x \in 1 .. Len(name) : name[x] # 0
    /\ \A j \in 1 .. m :
          /\ IsPart(d[k - j]) /\ d[k - j].seq = j /\ d[k - j].last = (j = m)
          /\ d[k - j].part \in Seq(Nat) /\ Len(d[k - j].part) = FAT_LFN_CHAR_COUNT
          /\ \A i \in 1 .. FAT_LFN_CHAR_COUNT :
                LET x == FAT_LFN_CHAR_COUNT * (j - 1) + i
                IN  /\ x <= Len(name) => Ascii(d[k - j].part)[i] = name[x]
                    /\ x = Len(name) + 1 => Ascii(d[k - j].part)[i] = 0

\* The name of an entry.
Named(d, k, name) ==
    \/ (k = 1 \/ ~ IsPart(d[k - 1])) /\ name = ShortName(d[k])
    \/ \E m \in 1 .. k - 1 : LongName(d, k, m, name)

\* The listing of a directory: its files in the order of the entries, with
\* different names. The tree has each of them below the path of the directory.
ListingOk(v, path) ==
    LET list == v.listing[path]
        d == v.dirs[v.tree[path].cluster]
    IN  /\ \A i, j \in 1 .. Len(list) : list[i].name = list[j].name => i = j
        /\ \E at \in [1 .. Len(list) -> 1 .. Len(d)] :
              /\ \A i, j \in 1 .. Len(list) : i < j => at[i] < at[j]
              /\ {at[i] : i \in 1 .. Len(list)} = {k \in 1 .. Len(d) : Shown(d[k])}
              /\ \A i \in 1 .. Len(list) :
                    LET entry == d[at[i]]
                        child == Append(path, list[i].name)
                    IN  /\ Named(d, at[i], list[i].name)
                        /\ list[i] = [name |-> list[i].name, is_dir |-> IsDir(entry)]
                        /\ child \in DOMAIN v.tree
                        /\ v.tree[child] = [cluster |-> entry.cluster, size |-> entry.size]

\* The tree: the root, and the files in the listings of its directories.
TreeOk(v) ==
    /\ v.tree[<<>>] = [cluster |-> v.root, size |-> 0] /\ DOMAIN v.tree \subseteq Seq(Seq(Nat))
    /\ <<>> \in DOMAIN v.tree
    /\ DOMAIN v.listing = {path \in DOMAIN v.tree : v.tree[path].cluster \in DOMAIN v.dirs}
    /\ \A path \in DOMAIN v.listing : v.listing[path] \in Seq([name : Seq(Nat), is_dir : BOOLEAN])
    /\ \A path \in DOMAIN v.listing : ListingOk(v, path)
    /\ \A path \in DOMAIN v.tree \ {<<>>} :
          LET parent == SubSeq(path, 1, Len(path) - 1)
          IN  /\ parent \in DOMAIN v.listing
              /\ \E i \in 1 .. Len(v.listing[parent]) : v.listing[parent][i].name = path[Len(path)]

ASSUME VolumesAssumption == \A v \in Volumes : ChainsOk(v) /\ DirsOk(v) /\ TreeOk(v)

-----------------------------------------------------------------------------
(* Calls                                                                   *)

Returned(status, data) == [status |-> status, data |-> data]
Done == Returned(0, <<>>)
Failed == Returned(-1, <<>>)

RUNNING == [op |-> "none", pos |-> 0]
Running == panic = RUNNING
NOT_MOUNTED == [fat_sector_start |-> 0, data_sector_start |-> 0,
                sectors_per_cluster |-> 0, root_cluster |-> 0]
Mounted == Running /\ sb # NOT_MOUNTED
CLOSED == [path |-> <<>>]

\* KERNEL_ASSERT or kernel_fatal_error in a call, at a position.
Stop(op, pos) == panic' = [op |-> op, pos |-> pos] /\ UNCHANGED <<volume, sb, file, dir, ret>>

\* The call returns an error.
Fail == ret' = Failed /\ UNCHANGED <<volume, sb, file, dir, panic>>

\* fat32_create_filesystem
Mount ==
    /\ Running /\ sb = NOT_MOUNTED
    /\ IF volume.bytes_per_sector # FAT32_SECTOR_SIZE THEN Stop("mount", 0)
       ELSE IF volume.table_size_16 # 0 THEN Fail
       ELSE /\ sb' = [fat_sector_start |-> volume.reserved,
                      data_sector_start |-> DataArea(volume),
                      sectors_per_cluster |-> volume.sectors_per_cluster,
                      root_cluster |-> volume.root]
            /\ ret' = Done /\ UNCHANGED <<volume, file, dir, panic>>

\* The lookups of a path, then _fat32_fs_reg_file_open or _fat32_fs_dir_open.
Open(path) ==
    LET walk == Walk(path)
        inode == walk.inode
    IN  /\ Mounted
        /\ CASE walk.status = "fatal" -> Stop("lookup", 0)
             [] walk.status = "end" -> Fail
             [] OTHER ->
                  /\ IF inode.is_dir
                     THEN /\ dir' = [path |-> path, loc |-> StartOf(inode.cluster),
                                     index |-> 0, listed |-> <<>>, complete |-> FALSE]
                          /\ UNCHANGED file
                     ELSE /\ file' = [path |-> path, cluster |-> inode.cluster,
                                      size |-> inode.size, pos |-> 0,
                                      loc |-> StartOf(inode.cluster), offset |-> 0]
                          /\ UNCHANGED dir
                  /\ ret' = Done /\ UNCHANGED <<volume, sb, panic>>

\* _fat32_fs_reg_file_release, _fat32_fs_dir_release
Close ==
    \/ /\ Mounted /\ file # CLOSED /\ file' = CLOSED
       /\ ret' = Done /\ UNCHANGED <<volume, sb, dir, panic>>
    \/ /\ Mounted /\ dir # CLOSED /\ dir' = CLOSED
       /\ ret' = Done /\ UNCHANGED <<volume, sb, file, panic>>

\* Faulty variant: the next sector only follows in the next read.
LeavesSectorLate(offset, remain) == FALSE

\* _fat32_fs_reg_file_read: the cursor moves on when more of the file follows.
LeavesSector(offset, remain) == offset = FAT32_SECTOR_SIZE /\ remain > 0

\* One turn of its loop.
ReadTurn(r) ==
    LET n == MinOf(r.size, MinOf(FAT32_SECTOR_SIZE - r.offset, r.remain))
        block == SectorIndex(r.loc)
        leaves == LeavesSector(r.offset + n, r.remain - n)
    IN  IF r.size = 0 \/ r.remain = 0 \/ r.loc = NOWHERE THEN r
        ELSE IF block \notin Blocks THEN [r EXCEPT !.loc = NOWHERE]
        ELSE [loc |-> IF leaves THEN NextSector(r.loc) ELSE r.loc,
              offset |-> IF leaves THEN 0 ELSE r.offset + n,
              data |-> r.data \o [i \in 1 .. n |-> ByteCell(block, r.offset + i - 1)],
              size |-> r.size - n, remain |-> r.remain - n]

\* The loop. The rest of the file is an unsigned difference.
ReadStart(size) ==
    [loc |-> file.loc, offset |-> file.offset, data |-> <<>>, size |-> size,
     remain |-> (file.size - file.pos) % Modulus]
ReadLoop(size) ==
    LET turn[n \in 0 .. 2 * size] == IF n = 0 THEN ReadStart(size) ELSE ReadTurn(turn[n - 1])
    IN  turn[2 * size]

\* _fat32_fs_reg_file_read
Read(size) ==
    LET r == ReadLoop(size)
    IN  /\ Mounted /\ file # CLOSED
        /\ IF r.loc = NOWHERE THEN Stop("read", file.pos)
           ELSE /\ file' = [file EXCEPT !.loc = r.loc, !.offset = r.offset,
                                        !.pos = @ + Len(r.data)]
                /\ ret' = Returned(Len(r.data), r.data)
                /\ UNCHANGED <<volume, sb, dir, panic>>

\* Faulty variant: the remainder has the sign of the offset, as C's % does.
OffsetInSectorSigned(total) ==
    IF total < 0 THEN -(-total % FAT32_SECTOR_SIZE) ELSE total % FAT32_SECTOR_SIZE

\* The offset in the sector where a seek ends, for a backward seek too.
OffsetInSector(total) == total % FAT32_SECTOR_SIZE

\* Its loops along the chain.
Ahead(loc, count) ==
    LET turn[n \in 0 .. count] == IF n = 0 THEN loc ELSE NextSector(turn[n - 1])
    IN  turn[count]
Back(loc, count) ==
    LET turn[n \in 0 .. count] == IF n = 0 THEN loc ELSE PrevSector(turn[n - 1])
    IN  turn[count]

\* _fat32_fs_reg_file_seek, get_seek_ref_offset
Seek(offset, whence) ==
    LET reference == CASE whence = "SEEK_SET" -> 0
                       [] whence = "SEEK_END" -> file.size
                       [] OTHER -> file.pos
        new_pos == reference + offset
        total_new_offset == file.offset + new_pos - file.pos
        sector_offset == total_new_offset \div FAT32_SECTOR_SIZE
        loc == IF sector_offset >= 0 THEN Ahead(file.loc, sector_offset)
               ELSE Back(file.loc, -sector_offset)
    IN  /\ Mounted /\ file # CLOSED
        /\ IF whence = "INVALID" THEN Stop("whence", 0)
           ELSE IF new_pos = file.pos
           THEN ret' = Returned(new_pos, <<>>) /\ UNCHANGED <<volume, sb, file, dir, panic>>
           ELSE IF loc = NOWHERE THEN Stop("seek", new_pos)
           ELSE /\ file' = [file EXCEPT !.loc = loc, !.pos = new_pos,
                                        !.offset = OffsetInSector(total_new_offset)]
                /\ ret' = Returned(new_pos, <<>>)
                /\ UNCHANGED <<volume, sb, dir, panic>>

\* One turn of the loop of _fat32_fs_dir_readdir. The name is copied with the
\* zero that ends it, whatever its length: a longer one goes beyond d_name,
\* and then beyond the array filename on the kernel's stack.
ReaddirEntry(r, it) ==
    IF it.status = "entry" /\ Len(it.filename) + 1 > MAX_DIR_NAME_LEN
    THEN [loc |-> r.loc, index |-> r.index, status |-> "overrun", listed |-> r.listed]
    ELSE [loc |-> it.loc, index |-> it.index, status |-> it.status,
          listed |-> IF it.status # "entry" THEN r.listed
                     ELSE Append(r.listed, [name |-> it.filename, is_dir |-> IsDir(it.entry)])]
ReaddirTurn(r) ==
    IF r.status # "entry" THEN r ELSE ReaddirEntry(r, NextEntry(r.loc, r.index))
ReaddirStart == [loc |-> dir.loc, index |-> dir.index, status |-> "entry", listed |-> <<>>]
ReaddirLoop(count) ==
    LET turn[n \in 0 .. count] == IF n = 0 THEN ReaddirStart ELSE ReaddirTurn(turn[n - 1])
    IN  turn[count]

\* _fat32_fs_dir_readdir: up to count entries. Behind an overrun nothing is known
\* of the machine until it is rebooted.
Readdir(count) ==
    LET r == ReaddirLoop(count)
    IN  /\ Mounted /\ dir # CLOSED
        /\ IF r.status = "fatal" THEN Stop("readdir", 0)
           ELSE IF r.status = "overrun" THEN Stop("overrun", 0)
           ELSE /\ dir' = [dir EXCEPT !.loc = r.loc, !.index = r.index,
                                      !.listed = @ \o r.listed, !.complete = r.status = "end"]
                /\ ret' = Returned(Len(r.listed), <<>>)
                /\ UNCHANGED <<volume, sb, file, panic>>

\* _fat32_fs_reg_file_write, _fat32_fs_dir_file_seek
NotImplemented == /\ Mounted /\ (file # CLOSED \/ dir # CLOSED)
                  /\ Stop("not_implemented", 0)

-----------------------------------------------------------------------------
(* Specification                                                           *)

Init ==
    /\ volume \in Volumes /\ sb = NOT_MOUNTED /\ file = CLOSED /\ dir = CLOSED
    /\ ret = Done /\ panic = RUNNING

\* watchdog_reboot
Reboot ==
    /\ ~ Running
    /\ sb' = NOT_MOUNTED /\ file' = CLOSED /\ dir' = CLOSED
    /\ ret' = Done /\ panic' = RUNNING /\ UNCHANGED volume

Whences == {"SEEK_SET", "SEEK_CUR", "SEEK_END", "INVALID"}

Next ==
    \/ Mount \/ Close \/ NotImplemented \/ Reboot
    \/ \E path \in Paths : Open(path)
    \/ \E size \in ReadSizes : Read(size) \/ Readdir(size)
    \/ \E offset \in Offsets, whence \in Whences : Seek(offset, whence)

Spec == Init /\ [][Next]_vars

-----------------------------------------------------------------------------
(* Properties                                                              *)

\* An empty file has no cluster: its first cluster is 0.
ChainOf(cluster) == IF cluster = 0 THEN <<0>> ELSE volume.chains[cluster]
ClusterSize == volume.sectors_per_cluster * FAT32_SECTOR_SIZE
Allocated(cluster) == Len(ChainOf(cluster)) * ClusterSize

\* The bytes of a file, from the layout.
Contents(path) ==
    LET inode == volume.tree[path]
    IN  [i \in 1 .. inode.size |->
           LET cluster == ChainOf(inode.cluster)[(i - 1) \div ClusterSize + 1]
               block == DataStart + (cluster - 2) * volume.sectors_per_cluster
           IN  ByteCell(block, (i - 1) % ClusterSize)]

\* The cursor that read and seek move sector by sector along the chain
\* (sector_loc and offset_in_sector) is the place of file->pos in the file,
\* after any sequence of reads and seeks, beyond the end of the file too.
CursorMatchesPos ==
    file # CLOSED =>
        LET chain == ChainOf(file.cluster) IN
        /\ file.loc.start_cluster = file.cluster
        /\ file.loc.sector_index \in 0 .. sb.sectors_per_cluster - 1
        /\ file.offset \in 0 .. FAT32_SECTOR_SIZE
        /\ \E k \in DOMAIN chain :
              /\ chain[k] = file.loc.cluster
              /\ file.pos = (k - 1) * ClusterSize
                            + file.loc.sector_index * FAT32_SECTOR_SIZE + file.offset

\* A read at a position in the file returns the bytes of that file at that
\* position, all that were asked for or all that are left, across sectors and
\* scattered clusters (_fat32_fs_reg_file_read).
ReadsFile == [][
    \A size \in ReadSizes :
        Read(size) /\ panic' = RUNNING /\ file.pos <= file.size =>
            LET bytes == Contents(file.path)
                end == MinOf(file.pos + size, Len(bytes))
            IN  ret'.data = SubSeq(bytes, file.pos + 1, end) /\ file'.pos = end
    ]_vars

\* A volume stops the machine only where the file system gives up: a seek
\* before the file or beyond its last cluster (which the end of a file can be),
\* a read after a seek beyond the end, a directory without an end entry,
\* sectors of another size, or the listing of a name that does not fit d_name
\* (which overruns it, with an outcome that is not known). No seek inside a file and no read that began
\* inside it follows the FAT to its end (the assertion of _fat_read_table).
StopsOnlyOutside ==
    CASE panic.op = "seek" -> panic.pos \notin 0 .. Allocated(file.cluster) - 1
      [] panic.op = "read" -> panic.pos > file.size
      [] panic.op \in {"lookup", "readdir"} ->
            \E s \in DOMAIN volume.dirs :
                Len(volume.dirs[s]) = (Allocated(s) \div FAT32_SECTOR_SIZE) * DirEntries
      [] panic.op = "overrun" ->
            \E i \in 1 .. Len(volume.listing[dir.path]) :
                Len(volume.listing[dir.path][i].name) >= MAX_DIR_NAME_LEN
      [] panic.op = "mount" -> volume.bytes_per_sector # FAT32_SECTOR_SIZE
      [] OTHER -> TRUE

\* A listing, in however many calls of readdir, returns the files of the
\* directory once each and in order, under their names, up to the first name
\* that does not fit the MAX_DIR_NAME_LEN bytes of d_name, where it ends in an
\* overrun (StopsOnlyOutside): deleted entries, parts
\* of long names, "." and ".." are skipped, and a name whose parts lie in two
\* sectors or clusters is put together.
ListingComplete ==
    dir # CLOSED =>
        LET files == volume.listing[dir.path] IN
        /\ \E n \in 0 .. Len(files) : dir.listed = SubSeq(files, 1, n)
        /\ dir.complete => dir.listed = files

\* A path is found exactly when the volume has it, and what is opened is the
\* file of that path (_fat32fs_inode_lookup, _fat32_create_inode).
PathsResolve == [][
    \A path \in Paths :
        Open(path) /\ panic' = RUNNING =>
            /\ ret' = IF path \in DOMAIN volume.tree THEN Done ELSE Failed
            /\ file' # file /\ file' # CLOSED =>
                  [cluster |-> file'.cluster, size |-> file'.size] = volume.tree[path]
    ]_vars
=============================================================================

----------------------------- MODULE RamfsFile -----------------------------
(***************************************************************************)
(* The regular files of ramfs (filesystems/ramfs/ramfs.c) in the bytes of   *)
(* the kernel heap (memory/memory_allocator.c), and the listing of their     *)
(* directory. Files grow by reallocation and share the heap, so a wrong      *)
(* size in one shows in the bytes of another. One action is one call. Sizes   *)
(* and positions are those of buffers in the 1 MB section of a process, far   *)
(* from the width of off_t.                                                   *)
(***************************************************************************)
EXTENDS Integers, Sequences

CONSTANTS
    Buffers,                        \* what programs write
    ReadSizes,                      \* how much they read or list
    Offsets,                        \* offsets passed to lseek
    JUNK,                           \* byte of a section that was never written
    WORD,                           \* sizeof(size_t), and the alignment
    META_SIZE,                      \* inode_t with its ramfs_file_private_t; file_t
    HEAP_SIZE,                      \* MMU_SECTION_SIZE
    RAMFS_INITIAL_FILE_ALLOC,
    RAMFS_INODE_MAX_CHILDREN_COUNT,
    MaxPos,                         \* bound: positions that are sought
    MaxFiles                        \* bound: open files

ASSUME RamfsFileAssumption ==
    /\ Buffers \subseteq Seq(Int) /\ ReadSizes \subseteq Nat /\ Offsets \subseteq Int
    /\ MaxPos \in Nat /\ MaxFiles \in Nat
    /\ WORD \in Nat \ {0} /\ META_SIZE \in Nat /\ HEAP_SIZE \in Nat
    /\ RAMFS_INITIAL_FILE_ALLOC \in Nat \ {0}
    /\ RAMFS_INODE_MAX_CHILDREN_COUNT \in Nat

VARIABLES
    heap,       \* [cursor, memory]
    inodes,     \* children of the directory: [data, alloc_size, size]
    files,      \* open files: [ino, pos]
    dir,        \* the open directory: [pos], and since the last seek to
                \* [from] the children [listed]
    ret,        \* status and bytes that the last call on a file returned
    halted

vars == <<heap, inodes, files, dir, ret, halted>>

Returned(status, data) == [status |-> status, data |-> data]
Failed == Returned(-1, <<>>)
Done == Returned(0, <<>>)
MaxOf(a, b) == IF a > b THEN a ELSE b
MinOf(a, b) == IF a < b THEN a ELSE b

-----------------------------------------------------------------------------
(* The heap                                                                *)

\* memory_alloc: the cursor after a block of the size, its header included.
CursorAfter(cursor, size) == ((cursor + WORD + size + WORD - 1) \div WORD) * WORD

\* Faulty variant: the end of the section is not checked.
FitsAlways(h, size) == TRUE

Fits(h, size) == CursorAfter(h.cursor, size) <= HEAP_SIZE

\* The address that memory_alloc returns.
Allocated(h) == h.cursor + WORD

\* memory_calloc: the header holds the size, the data are zero.
Calloc(h, size) ==
    [cursor |-> CursorAfter(h.cursor, size),
     memory |-> [x \in DOMAIN h.memory |->
                   CASE x = h.cursor -> size
                     [] x \in Allocated(h) .. Allocated(h) + size - 1 -> 0
                     [] OTHER -> h.memory[x]]]

\* _memcpy
Copied(memory, address, data) ==
    [x \in DOMAIN memory |-> IF x \in address .. address + Len(data) - 1
                             THEN data[x - address + 1] ELSE memory[x]]

BytesAt(memory, address, size) == [i \in 1 .. size |-> memory[address + i - 1]]

\* Faulty variant: the old bytes are not copied.
ReallocEmpty(h, ptr, size) == Calloc(h, size)

\* memory_realloc: a new block with the bytes of the old. (For a smaller size,
\* which ramfs never asks for, the code keeps the old block.)
Realloc(h, ptr, size) ==
    LET new == Calloc(h, size)
        old == BytesAt(new.memory, ptr, h.memory[ptr - WORD])
    IN  [new EXCEPT !.memory = Copied(new.memory, Allocated(h), old)]

-----------------------------------------------------------------------------
(* Calls                                                                   *)

\* KERNEL_ASSERT or kernel_fatal_error.
Halt == halted' = TRUE /\ UNCHANGED <<heap, inodes, files, dir, ret>>

\* The call returns -1.
Fail == ret' = Failed /\ UNCHANGED <<heap, inodes, files, dir, halted>>

\* _ramfs_inode_create: the inode and an empty file.
Create ==
    LET meta == Calloc(heap, META_SIZE)
        new == Calloc(meta, RAMFS_INITIAL_FILE_ALLOC)
        inode == [data |-> Allocated(meta), alloc_size |-> RAMFS_INITIAL_FILE_ALLOC,
                  size |-> 0]
    IN  /\ ~ halted
        /\ IF \/ ~ Fits(heap, META_SIZE) \/ ~ Fits(meta, RAMFS_INITIAL_FILE_ALLOC)
              \/ Len(inodes) = RAMFS_INODE_MAX_CHILDREN_COUNT
           THEN Halt
           ELSE /\ heap' = new /\ inodes' = Append(inodes, inode)
                /\ ret' = Done /\ UNCHANGED <<files, dir, halted>>

\* default_file_open
Open(ino) ==
    /\ Len(files) < MaxFiles
    /\ ~ halted
    /\ IF ~ Fits(heap, META_SIZE) THEN Halt
       ELSE /\ heap' = Calloc(heap, META_SIZE)
            /\ files' = Append(files, [ino |-> ino, pos |-> 0])
            /\ ret' = Done /\ UNCHANGED <<inodes, dir, halted>>

\* _ramfs_reg_file_read
Read(f, size) ==
    LET inode == inodes[files[f].ino]
        start == files[f].pos
        act_end == MinOf(start + size, inode.size)
    IN  /\ ~ halted
        /\ IF start >= act_end THEN Fail
           ELSE /\ files' = [files EXCEPT ![f].pos = act_end]
                /\ ret' = Returned(act_end - start,
                              BytesAt(heap.memory, inode.data + start, act_end - start))
                /\ UNCHANGED <<heap, inodes, dir, halted>>

\* Faulty variant: the allocation is doubled once.
GrownOnce(alloc_size, new_size) == IF alloc_size < new_size THEN 2 * alloc_size ELSE alloc_size

\* _ramfs_reg_file_write: doubled until it is enough.
Grown(alloc_size, new_size) ==
    LET double[s \in Nat \ {0}] == IF s >= new_size THEN s ELSE double[2 * s]
    IN  double[alloc_size]

\* _ramfs_reg_file_write. Without memory left the copy of memory_realloc, or
\* the assertion after it, stops the machine.
Write(f, data) ==
    LET inode == inodes[files[f].ino]
        start == files[f].pos
        end == start + Len(data)
        new_size == MaxOf(end, inode.size)
        alloc_size == Grown(inode.alloc_size, new_size)
        grows == alloc_size > inode.alloc_size
        new == IF grows THEN Realloc(heap, inode.data, alloc_size) ELSE heap
        address == IF grows THEN Allocated(heap) ELSE inode.data
    IN  /\ ~ halted
        /\ IF start > inode.size THEN Fail
           ELSE IF grows /\ ~ Fits(heap, alloc_size) THEN Halt
           ELSE /\ heap' = [new EXCEPT !.memory = Copied(new.memory, address + start, data)]
                /\ inodes' = [inodes EXCEPT ![files[f].ino] =
                                [data |-> address, alloc_size |-> alloc_size, size |-> new_size]]
                /\ files' = [files EXCEPT ![f].pos = end]
                /\ ret' = Returned(Len(data), <<>>)
                /\ UNCHANGED <<dir, halted>>

\* _ramfs_reg_file_seek, get_seek_ref_offset
Seek(f, offset, whence) ==
    LET reference == CASE whence = "SEEK_SET" -> 0
                       [] whence = "SEEK_END" -> inodes[files[f].ino].size
                       [] OTHER -> files[f].pos
        new_pos == reference + offset
    IN  /\ ~ halted /\ new_pos <= MaxPos
        /\ IF whence = "INVALID" THEN Halt
           ELSE IF new_pos < 0 THEN Fail
           ELSE /\ files' = [files EXCEPT ![f].pos = new_pos]
                /\ ret' = Returned(new_pos, <<>>)
                /\ UNCHANGED <<heap, inodes, dir, halted>>

\* Faulty variant: the position advances by the count that was asked for.
ListedEndPast(count) == dir.pos + count

\* _ramfs_dir_readdir: the position after up to count children.
ListedEnd(count) == MaxOf(dir.pos, MinOf(dir.pos + count, Len(inodes)))

\* _ramfs_dir_readdir
Readdir(count) ==
    /\ ~ halted
    /\ dir' = [dir EXCEPT !.pos = ListedEnd(count),
                          !.listed = @ \o [i \in 1 .. MinOf(ListedEnd(count), Len(inodes)) - dir.pos
                                             |-> dir.pos + i]]
    /\ UNCHANGED <<heap, inodes, files, ret, halted>>

\* _ramfs_dir_file_seek: an invalid whence or a negative position is refused.
DirSeek(offset, whence) ==
    LET reference == CASE whence = "SEEK_SET" -> 0
                       [] whence = "SEEK_END" -> Len(inodes)
                       [] OTHER -> dir.pos
        new_pos == reference + offset
    IN  /\ ~ halted /\ whence # "INVALID" /\ new_pos \in 0 .. MaxPos
        /\ dir' = [pos |-> new_pos, from |-> new_pos, listed |-> <<>>]
        /\ UNCHANGED <<heap, inodes, files, ret, halted>>

-----------------------------------------------------------------------------
(* Specification                                                           *)

\* memory_allocator_init, ramfs mounted, its root directory opened.
NewHeap == [cursor |-> 0, memory |-> [x \in 0 .. HEAP_SIZE - 1 |-> JUNK]]
Rewound == [pos |-> 0, from |-> 0, listed |-> <<>>]

Init == heap = NewHeap /\ inodes = <<>> /\ files = <<>> /\ dir = Rewound
        /\ ret = Done /\ halted = FALSE

\* watchdog_reboot
Reboot == /\ halted
          /\ heap' = NewHeap /\ inodes' = <<>> /\ files' = <<>> /\ dir' = Rewound
          /\ ret' = Done /\ halted' = FALSE

Whences == {"SEEK_SET", "SEEK_CUR", "SEEK_END", "INVALID"}

Next ==
    \/ Create \/ Reboot
    \/ \E ino \in DOMAIN inodes : Open(ino)
    \/ \E f \in DOMAIN files :
          \/ \E size \in ReadSizes : Read(f, size)
          \/ \E data \in Buffers : Write(f, data)
          \/ \E offset \in Offsets, whence \in Whences : Seek(f, offset, whence)
    \/ \E count \in ReadSizes : Readdir(count)
    \/ \E offset \in Offsets, whence \in Whences : DirSeek(offset, whence)

Spec == Init /\ [][Next]_vars

-----------------------------------------------------------------------------
(* Properties                                                              *)

\* The variables have their types, and the heap stays in its section.
TypeOK ==
    /\ heap.cursor \in 0 .. HEAP_SIZE /\ DOMAIN heap.memory = 0 .. HEAP_SIZE - 1
    /\ Len(inodes) <= RAMFS_INODE_MAX_CHILDREN_COUNT
    /\ \A i \in DOMAIN inodes : inodes[i] \in [data : Nat, alloc_size : Nat, size : Nat]
    /\ \A f \in DOMAIN files : files[f].ino \in DOMAIN inodes /\ files[f].pos \in Nat
    /\ dir.pos \in Nat /\ halted \in BOOLEAN

\* The bytes of a file lie in its own block: the block is below the cursor, its
\* header still holds the allocated size, the file fits in it, and no two
\* files share a byte, however they grew (memory_realloc in
\* _ramfs_reg_file_write).
BlocksApart ==
    \A i \in DOMAIN inodes : LET a == inodes[i] IN
        /\ a.size <= a.alloc_size /\ heap.memory[a.data - WORD] = a.alloc_size
        /\ a.data + a.alloc_size <= heap.cursor
        /\ \A j \in DOMAIN inodes : LET b == inodes[j] IN
              i # j => \/ a.data + a.alloc_size <= b.data - WORD
                       \/ b.data + b.alloc_size <= a.data - WORD

\* A listing is complete: between two seeks _ramfs_dir_readdir returns each
\* child once, in order, although files are created between the calls.
ListingComplete ==
    dir.listed = [i \in 1 .. Len(dir.listed) |-> dir.from + i]
    /\ dir.pos = dir.from + Len(dir.listed)

Files == INSTANCE ByteFile WITH
    Positions <- 0 .. MaxPos, Counts <- TRUE, Refusals <- {-1},
    contents <- [i \in DOMAIN inodes |-> BytesAt(heap.memory, inodes[i].data, inodes[i].size)],
    opened <- files, result <- ret, stopped <- halted

\* ramfs keeps the promise of ByteFile: through reallocations, and through
\* several open files of one inode, reads return what was written last, and
\* nothing that was never written (_ramfs_reg_file_read, _write, _seek).
ImplementsByteFile == Files!Spec
=============================================================================

-------------------------------- MODULE Vfs --------------------------------
(***************************************************************************)
(* The virtual file system: the tree of dentries of kernel/vfs/vfs.c over  *)
(* the directories of ramfs (filesystems/ramfs/ramfs.c) and the read-only  *)
(* directories of fat32.                                                   *)
(*                                                                         *)
(* A dentry caches the answer of the file system to one name, "no such     *)
(* file" included (a negative dentry). Dentries are never freed. One       *)
(* action is one call of the interface vfs.h: the kernel is not preempted. *)
(* A path is the sequence of its segments: "/" is <<EMPTY>>, "/a/" is      *)
(* <<a, EMPTY>>, "//a" is <<EMPTY, a>>.                                    *)
(***************************************************************************)
EXTENDS Integers, Sequences, FiniteSets
LOCAL INSTANCE SequencesExt

CONSTANTS
    Names,                          \* names of files
    EMPTY,                          \* the empty segment
    Paths,                          \* paths that callers pass
    DevicePaths,                    \* paths of devices passed to mount
    FatTree,                        \* fat32 directories: node -> name -> node
    FatFormat,                      \* fat32 node -> format
    DENTRY_COUNT,                   \* dentries of the allocator
    DENTRY_MAX_CHILREN_COUNT,       \* children of a dentry
    RAMFS_INODE_MAX_CHILDREN_COUNT, \* children of a ramfs directory
    MaxInodes                       \* bound: ramfs inodes that are created

FatRoot == 0
Formats == {"DIR", "REG", "CHR", "BLK"}

(* An inode is the file system it belongs to, its format, and a number: the *)
(* node of fat32, the allocation of ramfs (ramfs numbers the inodes of each  *)
(* mount from 1; here the number tells mounts apart too). fat32 allocates a  *)
(* new inode_t for each lookup; as it never changes, two are the same value. *)
NoInode   == [fs |-> "none", fmt |-> "NULL", id |-> 0]
InitRoot  == [fs |-> "none", fmt |-> "DIR", id |-> 0]
Fat(node) == [fs |-> "fat32", fmt |-> FatFormat[node], id |-> node]
Ram(fmt, ino) == [fs |-> "ramfs", fmt |-> fmt, id |-> ino]

ASSUME VfsAssumption ==
    /\ EMPTY \notin Names
    /\ \A p \in Paths \cup DevicePaths : p \in Seq(Names \cup {EMPTY}) /\ p # <<>>
    /\ DENTRY_COUNT \in Nat \ {0} /\ MaxInodes \in Nat
    /\ DENTRY_MAX_CHILREN_COUNT \in Nat /\ RAMFS_INODE_MAX_CHILDREN_COUNT \in Nat
    /\ DOMAIN FatFormat \subseteq Nat /\ FatRoot \in DOMAIN FatFormat
    /\ \A node \in DOMAIN FatFormat : FatFormat[node] \in Formats
    /\ FatFormat[FatRoot] = "DIR" /\ DOMAIN FatTree = DOMAIN FatFormat
    /\ \A node \in DOMAIN FatTree : \A name \in DOMAIN FatTree[node] :
          FatTree[node][name] \in DOMAIN FatFormat

VARIABLES
    dentries,   \* dentries[1] is the root
    dirs,       \* ramfs: inode number -> children of the directory
    ino_gen,    \* inodes that ramfs allocated, all file systems together
    panic,      \* why the machine stopped
    mounts      \* history: directory covered by a mount -> root inode

vars == <<dentries, dirs, ino_gen, panic, mounts>>

-----------------------------------------------------------------------------
(* Lookup                                                                  *)

First(S) == CHOOSE i \in S : \A j \in S : i <= j

\* _ramfs_inode_lookup: the first child of that name.
RamfsLookup(children, name) ==
    LET hits == {i \in DOMAIN children : children[i].name = name}
    IN  IF hits = {} THEN NoInode ELSE children[First(hits)].inode

\* _fat32fs_inode_lookup: a new inode_t for the directory entry.
FatLookup(entries, name) ==
    IF name \in DOMAIN entries THEN Fat(entries[name]) ELSE NoInode

\* inode_ops->lookup
Lookup(inode, name) ==
    IF inode.fs = "fat32" THEN FatLookup(FatTree[inode.id], name)
    ELSE RamfsLookup(dirs[inode.id], name)

\* A lookup in progress: the dentries, the dentry reached (0: none), the
\* fatal error met.
At(ds, d) == [dentries |-> ds, at |-> d, fatal |-> "none"]
Stopped(w, reason) == [w EXCEPT !.at = 0, !.fatal = reason]

\* Faulty variant: one child more than a dentry has room for.
ChildrenFullLate(dentry) == Len(dentry.children) > DENTRY_MAX_CHILREN_COUNT

ChildrenFull(dentry) == Len(dentry.children) = DENTRY_MAX_CHILREN_COUNT

\* _vfs_dentry_child_by_name: the cached child, else ask the file system and
\* append a new child, negative when there is no such file. Without a dentry
\* left the allocator returns NULL and _strcpy writes over the exception
\* vectors at address 0: the model stops there.
ChildByName(w, name) ==
    LET d == w.dentries[w.at]
        hits == {i \in DOMAIN d.children : w.dentries[d.children[i]].name = name}
        new == Len(w.dentries) + 1
        child == [name |-> name, inode |-> Lookup(d.inode, name),
                  parent |-> w.at, children |-> <<>>]
    IN  IF hits # {} THEN At(w.dentries, d.children[First(hits)])
        ELSE IF d.inode.fs = "none" THEN Stopped(w, "assert_inode_ops")
        ELSE IF new > DENTRY_COUNT THEN Stopped(w, "no_dentry_left")
        ELSE IF ChildrenFull(d) THEN Stopped(w, "max_dentry_children")
        ELSE At(Append([w.dentries EXCEPT ![w.at].children = Append(@, new)], child), new)

\* Faulty variant: any file is taken for a directory.
DescendAnywhere(w, name) ==
    IF w.at = 0 THEN w
    ELSE LET next == ChildByName(w, name) IN
         IF next.at # 0 /\ next.dentries[next.at].inode = NoInode
         THEN [next EXCEPT !.at = 0] ELSE next

\* A segment of _vfs_node_lookup_rec that is not the last: it must name a
\* directory.
Descend(w, name) ==
    IF w.at = 0 THEN w
    ELSE LET next == ChildByName(w, name) IN
         IF next.at # 0 /\ next.dentries[next.at].inode.fmt # "DIR"
         THEN [next EXCEPT !.at = 0] ELSE next

\* _vfs_node_lookup_rec: from the root through all segments but the last.
Walk(ds, path) ==
    LET walk[n \in 0 .. Len(path) - 1] ==
            IF n = 0 THEN At(ds, 1) ELSE Descend(walk[n - 1], path[n])
    IN  walk[Len(path) - 1]

\* _vfs_dentry_lookup
DentryLookup(ds, path) ==
    LET w == Walk(ds, path)
    IN  IF w.at = 0 \/ Last(path) = EMPTY THEN w ELSE ChildByName(w, Last(path))

-----------------------------------------------------------------------------
(* Calls                                                                   *)

\* KERNEL_ASSERT, kernel_fatal_error, or a call through a null pointer.
Stop(reason) ==
    /\ panic' = reason
    /\ UNCHANGED <<dentries, dirs, ino_gen, mounts>>

\* The call fails, or only opens a file: nothing but the cache changed.
OnlyCached(ds) == dentries' = ds /\ UNCHANGED <<dirs, ino_gen, panic, mounts>>

\* A lookup for the call, then Body(dentries, dentry reached).
WithLookup(path, Body(_, _)) ==
    LET w == DentryLookup(dentries, path) IN
    /\ panic = "none"
    /\ IF w.fatal # "none" THEN Stop(w.fatal) ELSE Body(w.dentries, w.at)

IsFormat(ds, d, fmt) == d # 0 /\ ds[d].inode.fmt = fmt

\* Faulty variant: the children cached for the covered directory stay.
CoveredKept(dentry, root) == [dentry EXCEPT !.inode = root]

\* _vfs_mount_dev: the root of the file system covers the directory, whose
\* cached children are dropped.
Covered(dentry, root) == [dentry EXCEPT !.inode = root, !.children = <<>>]

\* The directory that a path names, without its trailing separator.
Canonical(path) == IF Last(path) = EMPTY THEN Front(path) ELSE path

\* The root inode of a new super block.
RootInode(fstype) == IF fstype = "ramfs" THEN Ram("DIR", ino_gen + 1) ELSE Fat(FatRoot)

\* _vfs_mount_dev: a super block, if it loads, and its root inode.
MountDev(ds, target, path, fstype) ==
    LET root == RootInode(fstype)
        at == Canonical(path)
        below == {p \in DOMAIN mounts : IsPrefix(at, p)}
    IN  \/ OnlyCached(ds)
        \/ /\ fstype = "ramfs" => ino_gen < MaxInodes
           /\ ino_gen' = IF fstype = "ramfs" THEN ino_gen + 1 ELSE ino_gen
           /\ dirs' = IF fstype = "ramfs" THEN Append(dirs, <<>>) ELSE dirs
           /\ dentries' = [ds EXCEPT ![target] = Covered(@, root)]
           /\ mounts' = [p \in (DOMAIN mounts \ below) \cup {at} |->
                            IF p = at THEN root ELSE mounts[p]]
           /\ UNCHANGED panic

\* vfs_mount_dev, and vfs_mount without a device: the target must be a
\* directory.
VfsMountDev(path, fstype) ==
    LET Body(ds, d) == IF IsFormat(ds, d, "DIR")
                       THEN MountDev(ds, d, path, fstype) ELSE OnlyCached(ds)
    IN  WithLookup(path, Body)

\* vfs_mount with the path of a block device.
VfsMount(path, dev) ==
    LET Body(ds, d) ==
          LET w == DentryLookup(ds, dev) IN
          IF ~ IsFormat(ds, d, "DIR") THEN OnlyCached(ds)
          ELSE IF w.fatal # "none" THEN Stop(w.fatal)
          ELSE IF IsFormat(w.dentries, w.at, "BLK")
          THEN MountDev(w.dentries, d, path, "fat32")
          ELSE OnlyCached(w.dentries)
    IN  WithLookup(path, Body)

\* Faulty variant: the file is created but its dentry stays negative.
FilledNegative(ds, d, inode) == ds

\* The dentry of a new file gets its inode.
Filled(ds, d, inode) == [ds EXCEPT ![d].inode = inode]

\* Faulty variant: child_count is not incremented.
AddInodeChildFirst(children, child) == <<child>>

\* _add_inode_child
AddInodeChild(children, child) == Append(children, child)

\* _ramfs_inode_create, _ramfs_inode_mkdir and _ramfs_inode_mknod, then the
\* dentry is updated.
Create(ds, d, fmt) ==
    LET parent == ds[ds[d].parent].inode
        inode == Ram(fmt, ino_gen + 1)
        added == AddInodeChild(dirs[parent.id], [name |-> ds[d].name, inode |-> inode])
    IN  IF Len(dirs[parent.id]) = RAMFS_INODE_MAX_CHILDREN_COUNT
        THEN Stop("assert_child_count")
        ELSE /\ ino_gen < MaxInodes
             /\ ino_gen' = ino_gen + 1
             /\ dirs' = Append([dirs EXCEPT ![parent.id] = added], <<>>)
             /\ dentries' = Filled(ds, d, inode)
             /\ UNCHANGED <<panic, mounts>>

\* vfs_mkdir and vfs_mknod. ramfs may not support the mode or not find the
\* device, and mkdir looks for the name again. fat32 has neither operation, and
\* nobody checks.
VfsMake(path, fmt) ==
    LET Body(ds, d) ==
          LET parent == ds[ds[d].parent].inode
              conflict == fmt = "DIR" /\ Lookup(parent, ds[d].name) # NoInode
          IN  IF d = 0 THEN OnlyCached(ds)
              ELSE IF ds[d].inode # NoInode THEN OnlyCached(ds)
              ELSE IF parent.fs = "fat32" THEN Stop("null_inode_op")
              ELSE OnlyCached(ds) \/ (~ conflict /\ Create(ds, d, fmt))
    IN  WithLookup(path, Body)

\* vfs_file_open with O_CREAT, O_DIRECTORY and O_EXCL. A file is created for
\* the mode S_IFREG only, and the open of an existing one may fail. The
\* initial root has no file_ops. The parent of "/" is NULL: what is read
\* through it is not used.
VfsFileOpen(path, creat, directory, excl) ==
    LET Body(ds, d) ==
          LET inode == ds[d].inode
              parent == ds[ds[d].parent].inode
          IN  IF d = 0 THEN OnlyCached(ds)
              ELSE IF inode # NoInode
              THEN IF ~ excl /\ (directory => inode.fmt = "DIR") /\ inode = InitRoot
                   THEN Stop("assert_file_ops") ELSE OnlyCached(ds)
              ELSE IF ~ creat \/ directory \/ parent.fs = "fat32" THEN OnlyCached(ds)
              ELSE OnlyCached(ds) \/ Create(ds, d, "REG")
    IN  WithLookup(path, Body)

-----------------------------------------------------------------------------
(* Specification                                                           *)

\* vfs_init: the root dentry, with an inode that has no operations.
RootDentry == [name |-> EMPTY, inode |-> InitRoot, parent |-> 0, children |-> <<>>]
NoMounts == [p \in {} |-> NoInode]

Init ==
    /\ dentries = <<RootDentry>> /\ dirs = <<>> /\ ino_gen = 0
    /\ panic = "none" /\ mounts = NoMounts

\* kernel_fatal_error resets the machine.
Reboot ==
    /\ panic # "none"
    /\ dentries' = <<RootDentry>> /\ dirs' = <<>> /\ ino_gen' = 0
    /\ panic' = "none" /\ mounts' = NoMounts

Next ==
    \/ \E path \in Paths, fstype \in {"ramfs", "fat32"} : VfsMountDev(path, fstype)
    \/ \E path \in Paths, dev \in DevicePaths : VfsMount(path, dev)
    \/ \E path \in Paths, fmt \in {"DIR", "CHR", "BLK"} : VfsMake(path, fmt)
    \/ \E path \in Paths, creat, directory, excl \in BOOLEAN :
          VfsFileOpen(path, creat, directory, excl)
    \/ Reboot

Spec == Init /\ [][Next]_vars

-----------------------------------------------------------------------------
(* Properties                                                              *)

Inodes == [fs : {"none", "ramfs", "fat32"}, fmt : Formats \cup {"NULL"}, id : Nat]
Panics == {"none", "assert_inode_ops", "no_dentry_left", "max_dentry_children",
           "assert_child_count", "null_inode_op", "assert_file_ops"}

\* The variables have their types and every allocation is within its limit.
TypeOK ==
    /\ Len(dentries) \in 1 .. DENTRY_COUNT
    /\ \A d \in DOMAIN dentries :
          /\ dentries[d].name \in Names \cup {EMPTY} /\ dentries[d].inode \in Inodes
          /\ dentries[d].parent \in 0 .. Len(dentries)
          /\ Len(dentries[d].children) <= DENTRY_MAX_CHILREN_COUNT
    /\ ino_gen = Len(dirs)
    /\ \A i \in DOMAIN dirs : Len(dirs[i]) <= RAMFS_INODE_MAX_CHILDREN_COUNT
    /\ panic \in Panics

\* What a path names, from the directories of the file systems and the mounts
\* alone: the specification of a lookup, which knows of no cache.
Resolve(path) ==
    LET at[n \in 0 .. Len(path)] ==
          LET prefix == SubSeq(path, 1, n) IN
          IF prefix \in DOMAIN mounts THEN mounts[prefix]
          ELSE IF n = 0 THEN InitRoot
          ELSE IF at[n - 1].fmt = "DIR" /\ at[n - 1].fs # "none"
          THEN Lookup(at[n - 1], path[n]) ELSE NoInode
    IN  at[Len(path)]

\* The cache is invisible: whatever was looked up, created and mounted before,
\* _vfs_dentry_lookup returns NULL when the path has no parent directory,
\* and else a dentry with the inode that the file systems hold for the path
\* (negative when they hold none), as its comment promises.
LookupCorrect ==
    panic = "none" => \A path \in Paths :
        LET w == DentryLookup(dentries, path) IN
        w.fatal = "none" =>
            IF w.at = 0 THEN Resolve(Front(path)).fmt # "DIR"
            ELSE w.dentries[w.at].inode = Resolve(Canonical(path))

\* A dentry hangs below a directory only, under one name once, and points
\* back to its parent: the assertion of _vfs_dentry_lookup cannot fail
\* ("negative dentry: expect to have a parent").
CacheIsTree ==
    \A d \in DOMAIN dentries : LET kids == dentries[d].children IN
        /\ kids # <<>> => dentries[d].inode.fmt = "DIR"
        /\ \A i \in DOMAIN kids : dentries[kids[i]].parent = d
        /\ \A i, j \in DOMAIN kids :
              dentries[kids[i]].name = dentries[kids[j]].name => i = j

\* No ramfs directory holds two files of one name, although create and mknod
\* do not look: the negative dentry they are called with is up to date.
NamesUnique ==
    \A ino \in DOMAIN dirs : \A i, j \in DOMAIN dirs[ino] :
        dirs[ino][i].name = dirs[ino][j].name => i = j

\* A full ramfs directory is never added to: the assertion of _add_inode_child
\* cannot fail, because each of its children has a dentry, and the dentry of
\* the directory is full first.
DirectoryNeverFull ==
    RAMFS_INODE_MAX_CHILDREN_COUNT >= DENTRY_MAX_CHILREN_COUNT
        => panic # "assert_child_count"

\* A path that names a file goes on naming the same one until a mount covers
\* it or one of its ancestors, and a path that named none names a file that
\* was just created.
FilesStay == [][
    panic = "none" /\ panic' = "none" =>
        LET all == DOMAIN mounts \cup DOMAIN mounts'
            covered == {p \in all : \/ p \notin DOMAIN mounts \/ p \notin DOMAIN mounts'
                                    \/ mounts[p] # mounts'[p]}
        IN  \A path \in {Canonical(p) : p \in Paths} :
                \/ Resolve(path)' = Resolve(path)
                \/ Resolve(path) = NoInode /\ Resolve(path)'.id = ino_gen + 1
                \/ \E p \in covered : IsPrefix(p, path)]_vars
=============================================================================

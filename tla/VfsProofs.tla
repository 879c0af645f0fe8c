----------------------------- MODULE VfsProofs -----------------------------
(***************************************************************************)
(* The cache of dentries is a tree whose dentries hold what the file       *)
(* systems and the mounts say of their paths.                              *)
(***************************************************************************)
EXTENDS Vfs, TLAPS, SetInduction, FiniteSetTheorems
LOCAL INSTANCE SequencesExt

(***************************************************************************)
(* The inductive invariant                                                 *)
(***************************************************************************)

Segments == Names \cup {EMPTY}
Dentries == [name : Segments, inode : Inodes, parent : Nat, children : Seq(Nat)]
Entries  == [name : Segments, inode : Inodes]

\* An inode of a file system that exists, or none.
Known(inode, dr) ==
    /\ inode \in Inodes
    /\ inode.fs = "ramfs" => inode.id \in 1 .. Len(dr)
    /\ inode.fs = "fat32" => inode.id \in DOMAIN FatFormat

\* The directories of ramfs: the names in each differ.
DirsInv(dr) ==
    /\ dr \in Seq(Seq(Entries))
    /\ \A d \in 1 .. Len(dr) :
          /\ Len(dr[d]) <= RAMFS_INODE_MAX_CHILDREN_COUNT
          /\ \A i \in 1 .. Len(dr[d]) : Known(dr[d][i].inode, dr)
          /\ \A i, j \in 1 .. Len(dr[d]) : dr[d][i].name = dr[d][j].name => i = j

Shaped(ds, dr) ==
    /\ ds \in Seq(Dentries) /\ Len(ds) \in 1 .. DENTRY_COUNT
    /\ \A d \in 1 .. Len(ds) :
          /\ Known(ds[d].inode, dr)
          /\ ds[d].parent \in 0 .. Len(ds)
          /\ Len(ds[d].children) <= DENTRY_MAX_CHILREN_COUNT
          /\ \A i \in 1 .. Len(ds[d].children) : ds[d].children[i] \in 1 .. Len(ds)

\* CacheIsTree, with the root, and a file system to ask for the children.
Treelike(ds) ==
    /\ ds[1].inode.fmt = "DIR"
    /\ \A d \in 1 .. Len(ds) :
          /\ Len(ds[d].children) # 0 => ds[d].inode.fmt = "DIR" /\ ds[d].inode.fs # "none"
          /\ \A i \in 1 .. Len(ds[d].children) : ds[ds[d].children[i]].parent = d
          /\ \A i, j \in 1 .. Len(ds[d].children) :
                ds[ds[d].children[i]].name = ds[ds[d].children[j]].name => i = j

\* A ramfs directory has one dentry, and below it one for each of its files. A
\* negative dentry below it stands for a name that it does not hold.
OneDentry(ds) ==
    \A d, e \in 1 .. Len(ds) :
        ds[d].inode.fs = "ramfs" /\ ds[e].inode.fs = "ramfs" /\ ds[d].inode.id = ds[e].inode.id
        => d = e

HasAll(ds, dr, d) ==
    \A j \in 1 .. Len(dr[ds[d].inode.id]) : \E i \in 1 .. Len(ds[d].children) :
        ds[ds[d].children[i]].name = dr[ds[d].inode.id][j].name

NegativeRight(ds, dr, d) ==
    \A i \in 1 .. Len(ds[d].children) : ds[ds[d].children[i]].inode = NoInode =>
        \A j \in 1 .. Len(dr[ds[d].inode.id]) :
            dr[ds[d].inode.id][j].name # ds[ds[d].children[i]].name

Complete(ds, dr) ==
    /\ OneDentry(ds)
    /\ \A d \in 1 .. Len(ds) : ds[d].inode.fs = "ramfs" =>
          HasAll(ds, dr, d) /\ NegativeRight(ds, dr, d)

Cached(ds, dr) == Shaped(ds, dr) /\ Treelike(ds) /\ Complete(ds, dr)

\* What the file system of an inode answers to a name.
LookupIn(dr, inode, name) ==
    IF inode.fs = "fat32" THEN FatLookup(FatTree[inode.id], name)
    ELSE RamfsLookup(dr[inode.id], name)

Up(p) == SubSeq(p, 1, Len(p) - 1)

\* D gives the dentry of each path that is cached, and each holds the root of
\* the mount on its path or else the answer of the file system above it.
Located(ds, D) ==
    /\ DOMAIN D \subseteq Seq(Segments)
    /\ <<>> \in DOMAIN D /\ D[<<>>] = 1
    /\ \A p \in DOMAIN D : D[p] \in 1 .. Len(ds)
    /\ \A p, q \in DOMAIN D : D[p] = D[q] => p = q
    /\ \A p \in DOMAIN D : p # <<>> =>
          /\ Up(p) \in DOMAIN D
          /\ ds[D[p]].name = p[Len(p)]
          /\ \E i \in 1 .. Len(ds[D[Up(p)]].children) : ds[D[Up(p)]].children[i] = D[p]
    /\ \A p \in DOMAIN D : \A i \in 1 .. Len(ds[D[p]].children) :
          /\ Append(p, ds[ds[D[p]].children[i]].name) \in DOMAIN D
          /\ D[Append(p, ds[ds[D[p]].children[i]].name)] = ds[D[p]].children[i]

Coherent(ds, dr, mt, D) ==
    /\ DOMAIN mt \subseteq DOMAIN D
    /\ \A p \in DOMAIN mt : mt[p].fmt = "DIR" /\ ds[D[p]].inode = mt[p]
    /\ \A p \in DOMAIN D \ DOMAIN mt :
          ds[D[p]].inode = IF p = <<>> THEN InitRoot
                           ELSE LookupIn(dr, ds[D[Up(p)]].inode, p[Len(p)])

Good(ds, dr, mt, D) == Cached(ds, dr) /\ Located(ds, D) /\ Coherent(ds, dr, mt, D)

VfsInv ==
    /\ ino_gen = Len(dirs) /\ panic \in Panics /\ DirectoryNeverFull
    /\ DirsInv(dirs)
    /\ \E D : Good(dentries, dirs, mounts, D)

-----------------------------------------------------------------------------
(* Walks over the segments of a path                                       *)

\* The recursive function of Walk, on 0 .. N.
WalkOf(g, ds, path, N) ==
    g = [n \in 0 .. N |-> IF n = 0 THEN At(ds, 1) ELSE Descend(g[n - 1], path[n])]

\* A function that descends once for each segment exists.
LEMMA WalkExists ==
    ASSUME NEW ds, NEW path, NEW N \in Nat
    PROVE  \E g : WalkOf(g, ds, path, N)
<1> DEFINE S == {n \in Nat : \E g : WalkOf(g, ds, path, n)}
<1>1. 0 \in S
  <2>1. WalkOf([n \in 0 .. 0 |-> At(ds, 1)], ds, path, 0)
    BY DEF WalkOf
  <2> QED BY <2>1
<1>2. ASSUME NEW n \in 0 .. N - 1, n \in S PROVE n + 1 \in S
  <2>1. PICK g : WalkOf(g, ds, path, n)
    BY <1>2
  <2> DEFINE h == [k \in 0 .. n + 1 |-> IF k = n + 1 THEN Descend(g[n], path[n + 1]) ELSE g[k]]
  <2>2. ASSUME NEW k \in 0 .. n + 1
        PROVE h[k] = IF k = 0 THEN At(ds, 1) ELSE Descend(h[k - 1], path[k])
    <3>1. CASE k = n + 1
      BY <3>1
    <3>2. CASE k = 0
      BY <2>1, <3>2 DEF WalkOf
    <3>3. CASE k \in 1 .. n
      <4>1. h[k] = g[k] /\ h[k - 1] = g[k - 1]
        BY <3>3
      <4>2. g[k] = Descend(g[k - 1], path[k])
        BY <2>1, <3>3 DEF WalkOf
      <4> QED BY <3>3, <4>1, <4>2
    <3> QED BY <3>1, <3>2, <3>3
  <2>3. WalkOf(h, ds, path, n + 1)
    BY <2>2 DEF WalkOf
  <2> HIDE DEF h
  <2> QED BY <2>3
<1> HIDE DEF S
<1>3. \A n \in 0 .. N : n \in S
  BY <1>1, <1>2, Steps
<1> QED BY <1>3 DEF S

\* A walk is a sequence of steps.
LEMMA WalkSteps ==
    ASSUME NEW ds, NEW path \in Seq(Segments), path # <<>>
    PROVE  \E g : /\ g[0] = At(ds, 1)
                  /\ \A n \in 1 .. Len(path) - 1 : g[n] = Descend(g[n - 1], path[n])
                  /\ Walk(ds, path) = g[Len(path) - 1]
<1> DEFINE N == Len(path) - 1
<1>1. N \in Nat
  OBVIOUS
<1>2. PICK g : g = CHOOSE h : WalkOf(h, ds, path, N)
  OBVIOUS
<1>3. WalkOf(g, ds, path, N)
  BY <1>1, <1>2, WalkExists
<1>4. Walk(ds, path) = g[N]
  BY <1>2 DEF Walk, WalkOf
<1>5. g[0] = At(ds, 1) /\ \A n \in 1 .. N : g[n] = Descend(g[n - 1], path[n])
  BY <1>1, <1>3 DEF WalkOf
<1> QED BY <1>4, <1>5

-----------------------------------------------------------------------------
(* Paths                                                                   *)

\* A path with one segment more.
LEMMA PathAppend ==
    ASSUME NEW p \in Seq(Segments), NEW x \in Segments
    PROVE  /\ Append(p, x) \in Seq(Segments) /\ Append(p, x) # <<>>
           /\ Append(p, x)[Len(Append(p, x))] = x /\ Up(Append(p, x)) = p
BY DEF Up

\* A path is its directory and its last segment.
LEMMA PathUp ==
    ASSUME NEW p \in Seq(Segments), p # <<>>
    PROVE  /\ Up(p) \in Seq(Segments) /\ p[Len(p)] \in Segments
           /\ Append(Up(p), p[Len(p)]) = p
BY DEF Up

\* The first of the numbers.
LEMMA FirstIsOne == ASSUME NEW S \in SUBSET Nat, S # {} PROVE First(S) \in S
<1>1. PICK x \in S : \A y \in S : x <= y
  BY Least
<1> QED BY <1>1 DEF First

-----------------------------------------------------------------------------
(* One segment                                                             *)

\* k is ds with one dentry more, the last child of d.
Grows(ds, k, d, child) ==
    /\ k \in Seq(Dentries) /\ Len(k) = Len(ds) + 1 /\ k[Len(ds) + 1] = child
    /\ \A e \in 1 .. Len(ds) :
          /\ k[e].name = ds[e].name /\ k[e].inode = ds[e].inode /\ k[e].parent = ds[e].parent
          /\ e # d => k[e].children = ds[e].children
    /\ Len(k[d].children) = Len(ds[d].children) + 1
    /\ k[d].children[Len(ds[d].children) + 1] = Len(ds) + 1
    /\ \A i \in 1 .. Len(ds[d].children) : k[d].children[i] = ds[d].children[i]

\* _vfs_dentry_child_by_name appends a dentry in this way.
LEMMA AppendsGrow ==
    ASSUME NEW ds \in Seq(Dentries), NEW d \in 1 .. Len(ds), NEW child \in Dentries
    PROVE  Grows(ds, Append([ds EXCEPT ![d].children = Append(@, Len(ds) + 1)], child), d, child)
<1> DEFINE n == Len(ds)
           m == [ds EXCEPT ![d].children = Append(@, n + 1)]
           k == Append(m, child)
<1>1. n \in Nat /\ \A e \in 1 .. n : ds[e] \in Dentries /\ ds[e].children \in Seq(Nat)
  <2>1. n \in Nat /\ \A e \in 1 .. n : ds[e] \in Dentries
    OBVIOUS
  <2>2. \A x \in Dentries : x.children \in Seq(Nat)
    BY DEF Dentries
  <2> QED BY <2>1, <2>2
<1>2. m \in Seq(Dentries) /\ Len(m) = n
  <2>1. ds[d] \in Dentries /\ Append(ds[d].children, n + 1) \in Seq(Nat)
    BY <1>1
  <2>2. [ds[d] EXCEPT !.children = Append(@, n + 1)] \in Dentries
    BY <2>1 DEF Dentries
  <2> QED BY <2>2
<1>3. \A e \in 1 .. n : e # d => m[e] = ds[e]
  BY <1>1
<1>4. m[d] = [ds[d] EXCEPT !.children = Append(@, n + 1)]
  <2>1. \A x : [ds EXCEPT ![d] = x][d] = x
    OBVIOUS
  <2> QED BY <2>1
<1>5. /\ m[d].name = ds[d].name /\ m[d].inode = ds[d].inode /\ m[d].parent = ds[d].parent
      /\ m[d].children = Append(ds[d].children, n + 1)
  BY <1>1, <1>4 DEF Dentries
<1>6. k \in Seq(Dentries) /\ Len(k) = n + 1 /\ k[n + 1] = child /\ \A e \in 1 .. n : k[e] = m[e]
  BY <1>1, <1>2
<1> HIDE DEF m, k
<1>7. \A e \in 1 .. n : /\ k[e].name = ds[e].name /\ k[e].inode = ds[e].inode
                        /\ k[e].parent = ds[e].parent /\ (e # d => k[e].children = ds[e].children)
  BY <1>3, <1>5, <1>6
<1>8. k[d].children = Append(ds[d].children, n + 1)
  BY <1>5, <1>6
<1>9. /\ Len(k[d].children) = Len(ds[d].children) + 1
      /\ k[d].children[Len(ds[d].children) + 1] = n + 1
      /\ \A i \in 1 .. Len(ds[d].children) : k[d].children[i] = ds[d].children[i]
  <2>1. PICK c \in Seq(Nat) : c = ds[d].children
    BY <1>1
  <2> QED BY <2>1, <1>8, <1>1
<1>10. k = Append([ds EXCEPT ![d].children = Append(@, Len(ds) + 1)], child)
  BY DEF m, k
<1> QED BY <1>6, <1>7, <1>9, <1>10 DEF Grows

\* The types of the fields of the dentries.
LEMMA ShapedTypes ==
    ASSUME NEW ds, NEW dr, Shaped(ds, dr)
    PROVE  /\ Len(ds) \in Nat
           /\ \A d \in 1 .. Len(ds) :
                 /\ ds[d] \in Dentries /\ Len(ds[d].children) \in Nat
                 /\ ds[d].name \in Segments /\ ds[d].inode \in Inodes
                 /\ \A i \in 1 .. Len(ds[d].children) : ds[d].children[i] \in 1 .. Len(ds)
<1>1. Len(ds) \in Nat /\ \A d \in 1 .. Len(ds) : ds[d] \in Dentries
  BY DEF Shaped
<1>2. \A x \in Dentries : x.name \in Segments /\ x.inode \in Inodes /\ Len(x.children) \in Nat
  BY DEF Dentries
<1> QED BY <1>1, <1>2 DEF Shaped

\* What hangs below a dentry is the new child or was there before.
NewKid(ds, k, d, e, i) ==
    e = d /\ i = Len(ds[d].children) + 1 /\ k[e].children[i] = Len(ds) + 1

OldKid(ds, k, e, i) ==
    /\ e \in 1 .. Len(ds) /\ i \in 1 .. Len(ds[e].children)
    /\ k[e].children[i] = ds[e].children[i] /\ ds[e].children[i] \in 1 .. Len(ds)

\* Each child of a dentry is the new one or was a child before.
LEMMA GrowsKids ==
    ASSUME NEW ds, NEW dr, NEW k, NEW d \in 1 .. Len(ds), NEW child,
           Shaped(ds, dr), Grows(ds, k, d, child), Len(child.children) = 0,
           NEW e \in 1 .. Len(k), NEW i \in 1 .. Len(k[e].children)
    PROVE  NewKid(ds, k, d, e, i) \/ OldKid(ds, k, e, i)
<1>1. Len(ds) \in Nat /\ Len(ds[d].children) \in Nat /\ Len(k) = Len(ds) + 1
  BY ShapedTypes DEF Grows, NewKid, OldKid
<1>2. CASE e = Len(ds) + 1
  BY <1>2 DEF Grows, NewKid, OldKid
<1>3. CASE e # Len(ds) + 1 /\ e # d
  <2>1. e \in 1 .. Len(ds)
    BY <1>1, <1>3
  <2> QED BY <1>3, <2>1, ShapedTypes DEF Grows, NewKid, OldKid
<1>4. CASE e = d /\ i # Len(ds[d].children) + 1
  <2>1. Len(k[d].children) = Len(ds[d].children) + 1
    BY DEF Grows, NewKid, OldKid
  <2>2. i \in 1 .. Len(ds[d].children)
    BY <1>1, <1>4, <2>1
  <2> QED BY <1>4, <2>2, ShapedTypes DEF Grows, NewKid, OldKid
<1>5. CASE e = d /\ i = Len(ds[d].children) + 1
  BY <1>5 DEF Grows, NewKid, OldKid
<1> QED BY <1>2, <1>3, <1>4, <1>5

\* A child that was not found, of a directory with a file system.
NewChild(ds, dr, d, child) ==
    /\ d \in 1 .. Len(ds) /\ child \in Dentries /\ child.parent = d /\ child.children = <<>>
    /\ ds[d].inode.fmt = "DIR" /\ ds[d].inode.fs # "none"
    /\ \A i \in 1 .. Len(ds[d].children) : ds[ds[d].children[i]].name # child.name
    /\ Known(child.inode, dr) /\ child.inode.fs # "ramfs"

\* The new dentry keeps the types and the limits.
LEMMA GrowsShaped ==
    ASSUME NEW ds, NEW dr, NEW k, NEW d, NEW child,
           Cached(ds, dr), Grows(ds, k, d, child), NewChild(ds, dr, d, child),
           Len(ds) < DENTRY_COUNT, Len(ds[d].children) < DENTRY_MAX_CHILREN_COUNT
    PROVE  Shaped(k, dr)
<1>0. Shaped(ds, dr) /\ d \in 1 .. Len(ds) /\ Len(child.children) = 0
  BY DEF Cached, NewChild
<1>1. Len(ds) \in Nat /\ Len(k) = Len(ds) + 1 /\ k \in Seq(Dentries)
  BY <1>0, ShapedTypes DEF Grows
<1>2. Len(k) \in 1 .. DENTRY_COUNT
  BY <1>1, VfsAssumption
<1>3. ASSUME NEW e \in 1 .. Len(k)
      PROVE  Known(k[e].inode, dr) /\ k[e].parent \in 0 .. Len(k)
  <2>1. CASE e = Len(ds) + 1
    BY <1>0, <1>1, <2>1 DEF Grows, NewChild
  <2>2. CASE e \in 1 .. Len(ds)
    <3>1. k[e].inode = ds[e].inode /\ k[e].parent = ds[e].parent
      BY <2>2 DEF Grows
    <3>2. Known(ds[e].inode, dr) /\ ds[e].parent \in 0 .. Len(ds)
      BY <1>0, <2>2 DEF Shaped
    <3> QED BY <1>1, <3>1, <3>2
  <2> QED BY <1>1, <2>1, <2>2
<1>4. ASSUME NEW e \in 1 .. Len(k) PROVE Len(k[e].children) <= DENTRY_MAX_CHILREN_COUNT
  <2>1. CASE e = Len(ds) + 1
    BY <1>0, <2>1, VfsAssumption DEF Grows
  <2>2. CASE e \in 1 .. Len(ds) /\ e # d
    BY <1>0, <2>2 DEF Grows, Shaped
  <2>3. CASE e = d
    <3>1. Len(k[e].children) = Len(ds[d].children) + 1 /\ Len(ds[d].children) \in Nat
      BY <1>0, <2>3, ShapedTypes DEF Grows
    <3> QED BY <3>1, VfsAssumption
  <2> QED BY <1>1, <2>1, <2>2, <2>3
<1>5. ASSUME NEW e \in 1 .. Len(k), NEW i \in 1 .. Len(k[e].children)
      PROVE  k[e].children[i] \in 1 .. Len(k)
  <2>1. NewKid(ds, k, d, e, i) \/ OldKid(ds, k, e, i)
    BY <1>0, GrowsKids, Zenon
  <2> QED BY <1>1, <2>1 DEF NewKid, OldKid
<1> QED BY <1>1, <1>2, <1>3, <1>4, <1>5 DEF Shaped

\* The new dentry keeps the tree.
LEMMA GrowsTree ==
    ASSUME NEW ds, NEW dr, NEW k, NEW d, NEW child,
           Cached(ds, dr), Grows(ds, k, d, child), NewChild(ds, dr, d, child)
    PROVE  Treelike(k)
<1>0. /\ Shaped(ds, dr) /\ Treelike(ds) /\ d \in 1 .. Len(ds)
      /\ Len(child.children) = 0 /\ child.parent = d
  BY DEF Cached, NewChild
<1>1. Len(ds) \in Nat /\ Len(k) = Len(ds) + 1 /\ k[Len(ds) + 1] = child
  BY <1>0, ShapedTypes DEF Grows
<1>2. k[1].inode.fmt = "DIR"
  BY <1>0, <1>1 DEF Grows, Treelike
<1>3. ASSUME NEW e \in 1 .. Len(k), Len(k[e].children) # 0
      PROVE  k[e].inode.fmt = "DIR" /\ k[e].inode.fs # "none"
  <2>1. CASE e = Len(ds) + 1
    BY <1>0, <1>1, <1>3, <2>1
  <2>2. CASE e \in 1 .. Len(ds) /\ e # d
    <3>1. k[e].children = ds[e].children /\ k[e].inode = ds[e].inode
      BY <2>2 DEF Grows
    <3> QED BY <1>0, <1>3, <2>2, <3>1 DEF Treelike
  <2>3. CASE e = d
    BY <1>0, <2>3 DEF Grows, NewChild
  <2> QED BY <1>1, <2>1, <2>2, <2>3
<1>4. ASSUME NEW e \in 1 .. Len(k), NEW i \in 1 .. Len(k[e].children)
      PROVE  k[k[e].children[i]].parent = e
  <2>1. CASE NewKid(ds, k, d, e, i)
    BY <1>0, <1>1, <2>1 DEF NewKid
  <2>2. CASE OldKid(ds, k, e, i)
    <3>1. PICK c \in 1 .. Len(ds) : c = ds[e].children[i] /\ c = k[e].children[i]
      BY <2>2 DEF OldKid
    <3>2. ds[c].parent = e
      BY <1>0, <2>2, <3>1 DEF Treelike, OldKid
    <3> QED BY <3>1, <3>2 DEF Grows
  <2> QED BY <1>0, <2>1, <2>2, GrowsKids, Zenon
<1>5. ASSUME NEW e \in 1 .. Len(k), NEW i \in 1 .. Len(k[e].children),
             NEW j \in 1 .. Len(k[e].children),
             k[k[e].children[i]].name = k[k[e].children[j]].name
      PROVE  i = j
  <2>1. /\ NewKid(ds, k, d, e, i) \/ OldKid(ds, k, e, i)
        /\ NewKid(ds, k, d, e, j) \/ OldKid(ds, k, e, j)
    BY <1>0, GrowsKids, Zenon
  <2>2. ASSUME NEW x, OldKid(ds, k, e, x)
        PROVE  k[k[e].children[x]].name = ds[ds[e].children[x]].name
    BY <2>2 DEF Grows, OldKid
  <2>3. ASSUME NEW x, NewKid(ds, k, d, e, x) PROVE k[k[e].children[x]].name = child.name
    BY <1>1, <2>3 DEF NewKid
  <2>4. ASSUME NEW x, NEW y, NewKid(ds, k, d, e, x), OldKid(ds, k, e, y)
        PROVE  k[k[e].children[x]].name # k[k[e].children[y]].name
    <3>1. ds[ds[e].children[y]].name # child.name
      BY <2>4 DEF NewChild, NewKid, OldKid
    <3> QED BY <2>2, <2>3, <2>4, <3>1
  <2>5. CASE OldKid(ds, k, e, i) /\ OldKid(ds, k, e, j)
    <3>1. ds[ds[e].children[i]].name = ds[ds[e].children[j]].name
      BY <1>5, <2>2, <2>5
    <3>2. /\ e \in 1 .. Len(ds) /\ i \in 1 .. Len(ds[e].children)
          /\ j \in 1 .. Len(ds[e].children)
      BY <2>5 DEF OldKid
    <3> QED BY <1>0, <3>1, <3>2, Zenon DEF Treelike
  <2>6. CASE NewKid(ds, k, d, e, i) /\ NewKid(ds, k, d, e, j)
    BY <2>6 DEF NewKid
  <2> QED BY <1>5, <2>1, <2>4, <2>5, <2>6, Zenon
<1> QED BY <1>2, <1>3, <1>4, <1>5 DEF Treelike

\* The new dentry is no ramfs inode, and what is above it has its files still.
LEMMA GrowsKept ==
    ASSUME NEW ds, NEW dr, NEW k, NEW d \in 1 .. Len(ds), NEW child,
           Shaped(ds, dr), Grows(ds, k, d, child),
           NEW e \in 1 .. Len(ds), NEW i \in 1 .. Len(ds[e].children)
    PROVE  i \in 1 .. Len(k[e].children) /\ OldKid(ds, k, e, i)
<1>1. ds[e].children[i] \in 1 .. Len(ds) /\ Len(ds[e].children) \in Nat
  BY ShapedTypes
<1>2. CASE e # d
  BY <1>1, <1>2 DEF Grows, OldKid
<1>3. CASE e = d
  <2>1. Len(k[e].children) = Len(ds[e].children) + 1 /\ k[e].children[i] = ds[e].children[i]
    BY <1>3 DEF Grows
  <2> QED BY <1>1, <2>1 DEF OldKid
<1> QED BY <1>2, <1>3

SameKid(ds, k, e, i) ==
    /\ k[k[e].children[i]].name = ds[ds[e].children[i]].name
    /\ k[k[e].children[i]].inode = ds[ds[e].children[i]].inode

\* A child that was there before is the same.
LEMMA OldKidSame ==
    ASSUME NEW ds, NEW k, NEW d, NEW child, NEW e, NEW i,
           Grows(ds, k, d, child), OldKid(ds, k, e, i)
    PROVE  SameKid(ds, k, e, i)
<1>1. PICK c \in 1 .. Len(ds) : c = ds[e].children[i] /\ c = k[e].children[i]
  BY DEF OldKid
<1>2. k[c].name = ds[c].name /\ k[c].inode = ds[c].inode
  BY DEF Grows
<1> QED BY <1>1, <1>2 DEF SameKid

\* The new dentry keeps the files of each directory below its dentry.
LEMMA GrowsComplete ==
    ASSUME NEW ds, NEW dr, NEW k, NEW d, NEW child,
           Cached(ds, dr), Grows(ds, k, d, child), NewChild(ds, dr, d, child)
    PROVE  Complete(k, dr)
<1>0. /\ Shaped(ds, dr) /\ Complete(ds, dr) /\ d \in 1 .. Len(ds)
      /\ Len(child.children) = 0 /\ child.inode.fs # "ramfs"
  BY DEF Cached, NewChild
<1>1. Len(ds) \in Nat /\ Len(k) = Len(ds) + 1 /\ k[Len(ds) + 1] = child
  BY <1>0, ShapedTypes DEF Grows
<1>2. \A e \in 1 .. Len(k) : k[e].inode.fs = "ramfs" =>
          e \in 1 .. Len(ds) /\ k[e].inode = ds[e].inode
  <2>1. ASSUME NEW e \in 1 .. Len(k), k[e].inode.fs = "ramfs" PROVE e \in 1 .. Len(ds)
    BY <1>0, <1>1, <2>1
  <2> QED BY <2>1 DEF Grows
<1>3. OneDentry(k)
  <2>1. OneDentry(ds)
    BY <1>0 DEF Complete
  <2>2. SUFFICES ASSUME NEW e \in 1 .. Len(k), NEW f \in 1 .. Len(k),
                        k[e].inode.fs = "ramfs", k[f].inode.fs = "ramfs",
                        k[e].inode.id = k[f].inode.id
                 PROVE  e = f
    BY DEF OneDentry
  <2>3. /\ e \in 1 .. Len(ds) /\ f \in 1 .. Len(ds)
        /\ k[e].inode = ds[e].inode /\ k[f].inode = ds[f].inode
    BY <1>2, <2>2
  <2> QED BY <2>1, <2>2, <2>3, Zenon DEF OneDentry
<1>4. ASSUME NEW e \in 1 .. Len(k), k[e].inode.fs = "ramfs"
      PROVE  HasAll(k, dr, e) /\ NegativeRight(k, dr, e)
  <2>1. e \in 1 .. Len(ds) /\ k[e].inode = ds[e].inode /\ ds[e].inode.fs = "ramfs"
    BY <1>2, <1>4
  <2>2. HasAll(ds, dr, e) /\ NegativeRight(ds, dr, e)
    BY <1>0, <2>1 DEF Complete
  <2>3. ASSUME NEW j \in 1 .. Len(dr[k[e].inode.id])
        PROVE  \E i \in 1 .. Len(k[e].children) :
                  k[k[e].children[i]].name = dr[k[e].inode.id][j].name
    <3>1. PICK i \in 1 .. Len(ds[e].children) :
                  ds[ds[e].children[i]].name = dr[ds[e].inode.id][j].name
      BY <2>1, <2>2 DEF HasAll
    <3>2. i \in 1 .. Len(k[e].children) /\ OldKid(ds, k, e, i)
      BY <1>0, <2>1, GrowsKept, Zenon
    <3>3. SameKid(ds, k, e, i)
      BY <3>2, OldKidSame, Zenon
    <3> QED BY <2>1, <3>1, <3>2, <3>3 DEF SameKid
  <2>4. ASSUME NEW i \in 1 .. Len(k[e].children), k[k[e].children[i]].inode = NoInode,
               NEW j \in 1 .. Len(dr[k[e].inode.id])
        PROVE  dr[k[e].inode.id][j].name # k[k[e].children[i]].name
    <3>1. CASE OldKid(ds, k, e, i)
      <4>1. SameKid(ds, k, e, i)
        BY <3>1, OldKidSame, Zenon
      <4>2. i \in 1 .. Len(ds[e].children)
        BY <3>1 DEF OldKid
      <4> QED BY <2>1, <2>2, <2>4, <4>1, <4>2, Zenon DEF NegativeRight, SameKid
    <3>2. CASE NewKid(ds, k, d, e, i)
      <4>1. e = d /\ k[k[e].children[i]].name = child.name
        BY <1>1, <3>2 DEF NewKid
      <4>2. PICK x \in 1 .. Len(ds[e].children) :
                  ds[ds[e].children[x]].name = dr[ds[e].inode.id][j].name
        BY <2>1, <2>2 DEF HasAll
      <4>3. ds[ds[e].children[x]].name # child.name
        BY <4>1, <4>2 DEF NewChild
      <4> QED BY <2>1, <4>1, <4>2, <4>3
    <3> QED BY <1>0, <3>1, <3>2, GrowsKids, Zenon
  <2> QED BY <2>3, <2>4 DEF HasAll, NegativeRight
<1> QED BY <1>3, <1>4 DEF Complete

\* The paths with one more, which reaches the new dentry.
Longer(D, p, x, new) ==
    [q \in DOMAIN D \cup {Append(p, x)} |-> IF q = Append(p, x) THEN new ELSE D[q]]

\* The new dentry is at the path of its directory and its name.
LEMMA GrowsLocated ==
    ASSUME NEW ds, NEW dr, NEW k, NEW d, NEW child, NEW D, NEW p \in DOMAIN D,
           Cached(ds, dr), Grows(ds, k, d, child), NewChild(ds, dr, d, child),
           Located(ds, D), D[p] = d
    PROVE  /\ Append(p, child.name) \notin DOMAIN D
           /\ Located(k, Longer(D, p, child.name, Len(ds) + 1))
<1> DEFINE n == Len(ds) + 1
           r == Append(p, child.name)
           E == Longer(D, p, child.name, n)
<1>0. /\ Shaped(ds, dr) /\ d \in 1 .. Len(ds) /\ Len(child.children) = 0
      /\ child.name \in Segments
  BY DEF Cached, NewChild, Dentries
<1>1. Len(ds) \in Nat /\ Len(k) = n /\ k[n] = child
  BY <1>0, ShapedTypes DEF Grows
<1>2. p \in Seq(Segments) /\ DOMAIN D \subseteq Seq(Segments)
  BY DEF Located
<1>3. r \in Seq(Segments) /\ r # <<>> /\ r[Len(r)] = child.name /\ Up(r) = p
  BY <1>0, <1>2, PathAppend
<1> HIDE DEF r
<1>4. r \notin DOMAIN D
  <2>1. SUFFICES ASSUME r \in DOMAIN D PROVE FALSE
    OBVIOUS
  <2>2. /\ ds[D[r]].name = child.name
        /\ \E i \in 1 .. Len(ds[D[p]].children) : ds[D[p]].children[i] = D[r]
    BY <1>3, <2>1 DEF Located
  <2>3. PICK i \in 1 .. Len(ds[d].children) : ds[d].children[i] = D[r]
    BY <2>2
  <2> QED BY <2>2, <2>3 DEF NewChild
<1>5. /\ DOMAIN E = DOMAIN D \cup {r} /\ E[r] = n
      /\ \A q \in DOMAIN D : E[q] = D[q] /\ D[q] \in 1 .. Len(ds)
  BY <1>4 DEF Longer, Located, r
<1> HIDE DEF E
<1>6. /\ DOMAIN E \subseteq Seq(Segments)
      /\ <<>> \in DOMAIN E /\ E[<<>>] = 1
  BY <1>2, <1>3, <1>5 DEF Located
<1>7. \A q \in DOMAIN E : E[q] \in 1 .. Len(k)
  BY <1>1, <1>5
<1>8. \A q, s \in DOMAIN E : E[q] = E[s] => q = s
  <2>1. \A q, s \in DOMAIN D : D[q] = D[s] => q = s
    BY DEF Located
  <2>2. \A q \in DOMAIN D : E[q] # E[r]
    BY <1>1, <1>5
  <2> QED BY <1>5, <2>1, <2>2
<1>9. ASSUME NEW q \in DOMAIN E, q # <<>>
      PROVE  /\ Up(q) \in DOMAIN E
             /\ k[E[q]].name = q[Len(q)]
             /\ \E i \in 1 .. Len(k[E[Up(q)]].children) : k[E[Up(q)]].children[i] = E[q]
  <2>1. CASE q = r
    <3>1. Up(q) = p /\ E[Up(q)] = d /\ E[q] = n /\ p \in DOMAIN E
      BY <1>3, <1>5, <2>1
    <3>2. /\ Len(ds[d].children) + 1 \in 1 .. Len(k[d].children)
          /\ k[d].children[Len(ds[d].children) + 1] = n
      BY <1>0, ShapedTypes DEF Grows
    <3> QED BY <1>1, <1>3, <2>1, <3>1, <3>2
  <2>2. CASE q \in DOMAIN D
    <3>1. /\ Up(q) \in DOMAIN D /\ ds[D[q]].name = q[Len(q)]
          /\ \E i \in 1 .. Len(ds[D[Up(q)]].children) : ds[D[Up(q)]].children[i] = D[q]
      BY <1>9, <2>2 DEF Located
    <3>2. PICK i \in 1 .. Len(ds[D[Up(q)]].children) : ds[D[Up(q)]].children[i] = D[q]
      BY <3>1
    <3>3. D[Up(q)] \in 1 .. Len(ds) /\ D[q] \in 1 .. Len(ds) /\ E[Up(q)] = D[Up(q)] /\ E[q] = D[q]
      BY <1>5, <2>2, <3>1
    <3>4. i \in 1 .. Len(k[D[Up(q)]].children) /\ OldKid(ds, k, D[Up(q)], i)
      BY <1>0, <3>3, GrowsKept, Zenon
    <3>5. k[D[q]].name = ds[D[q]].name
      BY <3>3 DEF Grows
    <3>6. k[D[Up(q)]].children[i] = D[q]
      BY <3>2, <3>4 DEF OldKid
    <3> QED BY <1>5, <3>1, <3>3, <3>4, <3>5, <3>6
  <2> QED BY <1>5, <2>1, <2>2
<1>10. ASSUME NEW q \in DOMAIN E, NEW i \in 1 .. Len(k[E[q]].children)
       PROVE  /\ Append(q, k[k[E[q]].children[i]].name) \in DOMAIN E
              /\ E[Append(q, k[k[E[q]].children[i]].name)] = k[E[q]].children[i]
  <2>1. NewKid(ds, k, d, E[q], i) \/ OldKid(ds, k, E[q], i)
    BY <1>0, <1>7, GrowsKids, Zenon
  <2>2. CASE NewKid(ds, k, d, E[q], i)
    <3>1. E[q] = d /\ k[E[q]].children[i] = n
      BY <2>2 DEF NewKid
    <3>2. q = p
      BY <1>5, <1>8, <3>1
    <3> QED BY <1>1, <1>5, <3>1, <3>2 DEF r
  <2>3. CASE OldKid(ds, k, E[q], i)
    <3>1. q \in DOMAIN D /\ E[q] = D[q]
      BY <1>1, <1>5, <2>3 DEF OldKid
    <3>2. SameKid(ds, k, D[q], i)
      BY <2>3, <3>1, OldKidSame, Zenon
    <3>3. i \in 1 .. Len(ds[D[q]].children) /\ k[D[q]].children[i] = ds[D[q]].children[i]
      BY <2>3, <3>1 DEF OldKid
    <3>4. PICK s \in {Append(q, ds[ds[D[q]].children[i]].name)} :
             s \in DOMAIN D /\ D[s] = ds[D[q]].children[i]
      BY <3>1, <3>3 DEF Located
    <3>5. Append(q, k[k[E[q]].children[i]].name) = s
      BY <3>1, <3>2, <3>4 DEF SameKid
    <3>6. s \in DOMAIN E /\ E[s] = D[s] /\ D[s] = k[E[q]].children[i]
      BY <1>5, <3>1, <3>3, <3>4
    <3> QED BY <3>5, <3>6, Zenon
  <2> QED BY <2>1, <2>2, <2>3
<1>11. Located(k, E)
  BY <1>6, <1>7, <1>8, <1>9, <1>10 DEF Located
<1> QED BY <1>4, <1>11 DEF E, r

\* The new dentry holds what its directory answered.
LEMMA GrowsCoherent ==
    ASSUME NEW ds, NEW dr, NEW mt, NEW k, NEW d, NEW child, NEW D, NEW p \in DOMAIN D,
           Cached(ds, dr), Grows(ds, k, d, child), NewChild(ds, dr, d, child),
           Located(ds, D), D[p] = d, Coherent(ds, dr, mt, D),
           child.inode = LookupIn(dr, ds[d].inode, child.name)
    PROVE  Coherent(k, dr, mt, Longer(D, p, child.name, Len(ds) + 1))
<1> DEFINE n == Len(ds) + 1
           r == Append(p, child.name)
           E == Longer(D, p, child.name, n)
<1>0. d \in 1 .. Len(ds) /\ child.name \in Segments /\ k[n] = child
  BY DEF Cached, NewChild, Dentries, Grows
<1>1. r \notin DOMAIN D
  BY GrowsLocated, Zenon
<1>2. r # <<>> /\ r[Len(r)] = child.name /\ Up(r) = p
  BY <1>0, PathAppend DEF Located
<1>3. /\ DOMAIN E = DOMAIN D \cup {r} /\ E[r] = n
      /\ \A q \in DOMAIN D : E[q] = D[q] /\ D[q] \in 1 .. Len(ds)
  BY <1>1 DEF Longer, Located
<1> HIDE DEF E, r
<1>4. \A q \in DOMAIN D : k[E[q]].inode = ds[D[q]].inode
  BY <1>3 DEF Grows
<1>5. /\ DOMAIN mt \subseteq DOMAIN E
      /\ \A q \in DOMAIN mt : mt[q].fmt = "DIR" /\ k[E[q]].inode = mt[q]
  BY <1>3, <1>4 DEF Coherent
<1>6. ASSUME NEW q \in DOMAIN E \ DOMAIN mt
      PROVE  k[E[q]].inode = IF q = <<>> THEN InitRoot
                             ELSE LookupIn(dr, k[E[Up(q)]].inode, q[Len(q)])
  <2>1. CASE q = r
    <3>1. k[E[Up(q)]].inode = ds[d].inode
      BY <1>2, <1>4, <2>1
    <3> QED BY <1>0, <1>2, <1>3, <2>1, <3>1
  <2>2. CASE q \in DOMAIN D
    <3>1. ds[D[q]].inode = IF q = <<>> THEN InitRoot
                           ELSE LookupIn(dr, ds[D[Up(q)]].inode, q[Len(q)])
      BY <2>2 DEF Coherent
    <3>2. q # <<>> => Up(q) \in DOMAIN D
      BY <2>2 DEF Located
    <3> QED BY <1>4, <2>2, <3>1, <3>2
  <2> QED BY <1>3, <2>1, <2>2
<1>7. Coherent(k, dr, mt, E)
  BY <1>5, <1>6 DEF Coherent
<1> QED BY <1>7 DEF E

-----------------------------------------------------------------------------
(* Lookups of one name                                                     *)

\* Lookup asks the directories of the present state.
LEMMA LookupForm ==
    ASSUME NEW inode, NEW name
    PROVE  /\ Lookup(inode, name) = LookupIn(dirs, inode, name)
           /\ Lookup(inode, name)' = LookupIn(dirs', inode, name)
BY DEF Lookup, LookupIn

\* A file system returns an inode of its own, or none.
LEMMA LookupKnown ==
    ASSUME NEW dr, DirsInv(dr), NEW inode, Known(inode, dr), NEW name,
           inode.fs # "none"
    PROVE  /\ Known(LookupIn(dr, inode, name), dr)
           /\ inode.fs = "fat32" => LookupIn(dr, inode, name).fs # "ramfs"
           /\ inode.fs = "ramfs" /\ (\A j \in 1 .. Len(dr[inode.id]) : dr[inode.id][j].name # name)
              => LookupIn(dr, inode, name) = NoInode
<1>1. Known(NoInode, dr) /\ NoInode.fs = "none"
  BY DEF Known, NoInode, Inodes
<1>2. CASE inode.fs = "fat32"
  <2>1. inode.id \in DOMAIN FatFormat
    BY <1>2 DEF Known
  <2>2. ASSUME NEW node \in DOMAIN FatFormat PROVE Known(Fat(node), dr) /\ Fat(node).fs = "fat32"
    BY VfsAssumption DEF Known, Fat, Inodes
  <2>3. CASE name \in DOMAIN FatTree[inode.id]
    <3>1. FatTree[inode.id][name] \in DOMAIN FatFormat
      BY <2>1, <2>3, VfsAssumption
    <3>2. LookupIn(dr, inode, name) = Fat(FatTree[inode.id][name])
      BY <1>2, <2>3 DEF LookupIn, FatLookup
    <3> QED BY <1>2, <2>2, <3>1, <3>2
  <2>4. CASE name \notin DOMAIN FatTree[inode.id]
    <3>1. LookupIn(dr, inode, name) = NoInode
      BY <1>2, <2>4 DEF LookupIn, FatLookup
    <3> QED BY <1>1, <1>2, <3>1
  <2> QED BY <2>3, <2>4
<1>3. CASE inode.fs = "ramfs"
  <2>1. inode.id \in 1 .. Len(dr) /\ Len(dr) \in Nat
    BY <1>3 DEF Known, DirsInv
  <2>2. PICK c \in Seq(Entries) : c = dr[inode.id]
    BY <2>1 DEF DirsInv
  <2> DEFINE hits == {i \in DOMAIN c : c[i].name = name}
  <2>3. LookupIn(dr, inode, name) = IF hits = {} THEN NoInode ELSE c[First(hits)].inode
    BY <1>3, <2>2 DEF LookupIn, RamfsLookup
  <2>4. hits \in SUBSET Nat /\ DOMAIN c = 1 .. Len(c)
    BY <2>2
  <2>5. CASE hits = {}
    BY <1>1, <1>3, <2>3, <2>5
  <2>6. CASE hits # {}
    <3>1. First(hits) \in hits
      BY <2>4, <2>6, FirstIsOne
    <3>2. First(hits) \in 1 .. Len(c) /\ c[First(hits)].name = name
      BY <2>4, <3>1
    <3>3. Known(c[First(hits)].inode, dr)
      BY <2>1, <2>2, <3>2 DEF DirsInv
    <3> QED BY <1>3, <2>2, <2>3, <2>6, <3>2, <3>3
  <2> QED BY <2>5, <2>6
<1>4. inode.fs \in {"fat32", "ramfs"}
  BY DEF Known, Inodes
<1> QED BY <1>2, <1>3, <1>4

Larger(D, E) == \A q \in DOMAIN D : q \in DOMAIN E /\ E[q] = D[q]

LookupPanics == {"assert_inode_ops", "no_dentry_left", "max_dentry_children"}

\* The lookup w came to the path q, or met a fatal error.
Arrives(w, D, q) ==
    \E E : /\ Good(w.dentries, dirs, mounts, E) /\ Larger(D, E)
           /\ \/ w.fatal = "none" /\ q \in DOMAIN E /\ E[q] = w.at
              \/ w.fatal \in LookupPanics /\ w.at = 0

\* _vfs_dentry_child_by_name in a directory: the dentry of the name, or a fatal
\* error, and the cache stays right.
LEMMA ChildArrives ==
    ASSUME NEW ds, NEW d, NEW D, NEW p \in DOMAIN D, NEW name \in Segments,
           DirsInv(dirs), Good(ds, dirs, mounts, D), D[p] = d, ds[d].inode.fmt = "DIR"
    PROVE  Arrives(ChildByName(At(ds, d), name), D, Append(p, name))
<1> DEFINE c == ds[d].children
           hits == {i \in DOMAIN c : ds[c[i]].name = name}
           new == Len(ds) + 1
           child == [name |-> name, inode |-> Lookup(ds[d].inode, name),
                     parent |-> d, children |-> <<>>]
           w == At(ds, d)
           k == Append([ds EXCEPT ![d].children = Append(@, new)], child)
           next == ChildByName(At(ds, d), name)
<1>0. Cached(ds, dirs) /\ Shaped(ds, dirs) /\ Located(ds, D) /\ Coherent(ds, dirs, mounts, D)
  BY DEF Good, Cached
<1>1. d \in 1 .. Len(ds) /\ ds[d] \in Dentries /\ Len(ds) \in Nat
  BY <1>0, ShapedTypes DEF Located
<1>2. w.dentries = ds /\ w.at = d /\ w.fatal = "none"
  BY DEF At
<1>3. c \in Seq(Nat) /\ DOMAIN c = 1 .. Len(c) /\ Len(c) \in Nat
  BY <1>1 DEF Dentries
<1>4. next = IF hits # {} THEN At(ds, c[First(hits)])
             ELSE IF ds[d].inode.fs = "none" THEN Stopped(w, "assert_inode_ops")
             ELSE IF new > DENTRY_COUNT THEN Stopped(w, "no_dentry_left")
             ELSE IF ChildrenFull(ds[d]) THEN Stopped(w, "max_dentry_children")
             ELSE At(k, new)
  BY <1>2 DEF ChildByName
<1>5. Larger(D, D)
  BY DEF Larger
<1> HIDE DEF next, child, k
<1>6. ASSUME hits # {} PROVE Arrives(next, D, Append(p, name))
  <2>1. First(hits) \in hits
    <3>1. hits \in SUBSET Nat
      BY <1>3
    <3> QED BY <1>6, <3>1, FirstIsOne
  <2>2. First(hits) \in 1 .. Len(c) /\ ds[c[First(hits)]].name = name
    BY <1>3, <2>1
  <2>3. PICK i \in 1 .. Len(ds[d].children) : i = First(hits) /\ ds[ds[d].children[i]].name = name
    BY <2>2
  <2>4. Append(p, name) \in DOMAIN D /\ D[Append(p, name)] = c[First(hits)]
    <3>1. ds[ds[D[p]].children[i]].name = name /\ i \in 1 .. Len(ds[D[p]].children)
      BY <2>3
    <3>2. /\ Append(p, ds[ds[D[p]].children[i]].name) \in DOMAIN D
          /\ D[Append(p, ds[ds[D[p]].children[i]].name)] = ds[D[p]].children[i]
      BY <1>0, <3>1 DEF Located
    <3> QED BY <2>3, <3>1, <3>2
  <2>5. next.dentries = ds /\ next.fatal = "none" /\ next.at = c[First(hits)]
    BY <1>4, <1>6 DEF At
  <2> QED BY <1>5, <2>4, <2>5 DEF Arrives
<1>7. ASSUME NEW reason \in LookupPanics, next = Stopped(w, reason)
      PROVE  Arrives(next, D, Append(p, name))
  <2>1. next.dentries = ds /\ next.fatal = reason /\ next.at = 0
    BY <1>7 DEF Stopped, At
  <2> QED BY <1>5, <2>1 DEF Arrives
<1>8. ASSUME hits = {}, ds[d].inode.fs # "none", ~ (new > DENTRY_COUNT), ~ ChildrenFull(ds[d])
      PROVE  Arrives(next, D, Append(p, name))
  <2>1. \A i \in 1 .. Len(ds[d].children) : ds[ds[d].children[i]].name # name
    BY <1>3, <1>8
  <2>2. Known(ds[d].inode, dirs)
    BY <1>0, <1>1 DEF Shaped
  <2>3. /\ Known(LookupIn(dirs, ds[d].inode, name), dirs)
        /\ LookupIn(dirs, ds[d].inode, name).fs # "ramfs"
    <3>1. CASE ds[d].inode.fs = "fat32"
      BY <1>8, <2>2, <3>1, LookupKnown, Zenon
    <3>2. CASE ds[d].inode.fs = "ramfs"
      <4>1. HasAll(ds, dirs, d)
        BY <1>0, <1>1, <3>2 DEF Cached, Complete
      <4>2. \A j \in 1 .. Len(dirs[ds[d].inode.id]) : dirs[ds[d].inode.id][j].name # name
        BY <2>1, <4>1 DEF HasAll
      <4>3. LookupIn(dirs, ds[d].inode, name) = NoInode
        BY <1>8, <2>2, <3>2, <4>2, LookupKnown, Zenon
      <4> QED BY <1>8, <2>2, <4>3, LookupKnown DEF NoInode
    <3>3. ds[d].inode.fs \in {"fat32", "ramfs"}
      BY <1>8, <2>2 DEF Known, Inodes
    <3> QED BY <3>1, <3>2, <3>3
  <2>4. /\ child.name = name /\ child.parent = d /\ child.children = <<>>
        /\ child.inode = LookupIn(dirs, ds[d].inode, name)
    BY LookupForm DEF child
  <2>5. child \in Dentries
    <3>1. Lookup(ds[d].inode, name) \in Inodes
      BY <2>3, LookupForm DEF Known
    <3> QED BY <1>1, <3>1 DEF child, Dentries
  <2>6. NewChild(ds, dirs, d, child)
    BY <1>1, <1>8, <2>1, <2>3, <2>4, <2>5 DEF NewChild
  <2>7. Grows(ds, k, d, child)
    <3>1. ds \in Seq(Dentries)
      BY <1>0 DEF Shaped
    <3> QED BY <1>1, <2>5, <3>1, AppendsGrow DEF k
  <2>8. Len(ds) < DENTRY_COUNT /\ Len(ds[d].children) < DENTRY_MAX_CHILREN_COUNT
    <3>1. Len(ds[d].children) <= DENTRY_MAX_CHILREN_COUNT
      BY <1>0, <1>1 DEF Shaped
    <3> QED BY <1>1, <1>3, <1>8, <3>1, VfsAssumption DEF ChildrenFull
  <2>9. Cached(k, dirs)
    <3>1. Shaped(k, dirs)
      BY <1>0, <2>6, <2>7, <2>8, GrowsShaped, Zenon
    <3>2. Treelike(k)
      BY <1>0, <2>6, <2>7, GrowsTree, Zenon
    <3>3. Complete(k, dirs)
      BY <1>0, <2>6, <2>7, GrowsComplete, Zenon
    <3> QED BY <3>1, <3>2, <3>3 DEF Cached
  <2> DEFINE E == Longer(D, p, child.name, Len(ds) + 1)
  <2>10. Append(p, child.name) \notin DOMAIN D /\ Located(k, E)
    BY <1>0, <2>6, <2>7, GrowsLocated, Zenon
  <2>11. Coherent(k, dirs, mounts, E)
    <3>1. child.inode = LookupIn(dirs, ds[d].inode, child.name)
      BY <2>4
    <3> QED BY <1>0, <2>6, <2>7, <3>1, GrowsCoherent, Zenon
  <2>12. /\ Larger(D, E) /\ Append(p, name) \in DOMAIN E /\ E[Append(p, name)] = new
    BY <2>4, <2>10 DEF Longer, Larger
  <2>13. next.dentries = k /\ next.fatal = "none" /\ next.at = new
    BY <1>4, <1>8 DEF At
  <2>14. Good(k, dirs, mounts, E)
    BY <2>9, <2>10, <2>11 DEF Good
  <2> HIDE DEF E
  <2> QED BY <2>12, <2>13, <2>14 DEF Arrives
<1>9. {"assert_inode_ops", "no_dentry_left", "max_dentry_children"} = LookupPanics
  BY DEF LookupPanics
<1>10. Arrives(next, D, Append(p, name))
  <2>1. CASE hits = {} /\ ds[d].inode.fs = "none"
    <3>1. next = Stopped(w, "assert_inode_ops")
      BY <1>4, <2>1
    <3> QED BY <1>7, <1>9, <3>1
  <2>2. CASE hits = {} /\ ds[d].inode.fs # "none" /\ new > DENTRY_COUNT
    <3>1. next = Stopped(w, "no_dentry_left")
      BY <1>4, <2>2
    <3> QED BY <1>7, <1>9, <3>1
  <2>3. CASE hits = {} /\ ds[d].inode.fs # "none" /\ ~ (new > DENTRY_COUNT) /\ ChildrenFull(ds[d])
    <3>1. next = Stopped(w, "max_dentry_children")
      BY <1>4, <2>3
    <3> QED BY <1>7, <1>9, <3>1
  <2>4. CASE /\ hits = {} /\ ds[d].inode.fs # "none" /\ ~ (new > DENTRY_COUNT)
             /\ ~ ChildrenFull(ds[d])
    BY <1>8, <2>4, Zenon
  <2> QED BY <1>6, <2>1, <2>2, <2>3, <2>4, Zenon
<1> QED BY <1>10 DEF next

-----------------------------------------------------------------------------
(* Lookups of a path                                                       *)

Walker(w) == \E x, y, z : w = [dentries |-> x, at |-> y, fatal |-> z]

\* The form of a lookup in progress.
LEMMA WalkerForm == \A x, y, z : Walker([dentries |-> x, at |-> y, fatal |-> z])
BY Zenon DEF Walker

\* _vfs_dentry_child_by_name returns a lookup in progress.
LEMMA ChildWalker == ASSUME NEW ds, NEW d, NEW name PROVE Walker(ChildByName(At(ds, d), name))
<1>1. \A x, y : Walker(At(x, y))
  BY WalkerForm DEF At
<1>2. \A r : Walker(Stopped(At(ds, d), r))
  <2>1. ASSUME NEW r PROVE Stopped(At(ds, d), r) = [dentries |-> ds, at |-> 0, fatal |-> r]
    <3>1. Stopped(At(ds, d), r) \in [dentries : {ds}, at : {0}, fatal : {r}]
      BY DEF At, Stopped
    <3> QED BY <3>1
  <2> QED BY <2>1, WalkerForm
<1> DEFINE w == At(ds, d)
<1>3. (\E x, y : ChildByName(w, name) = At(x, y)) \/ (\E r : ChildByName(w, name) = Stopped(w, r))
  <2> HIDE DEF w
  <2> QED BY DEF ChildByName
<1> QED BY <1>1, <1>2, <1>3

\* Without a fatal error it is the dentries and the dentry reached.
LEMMA WalkerAt ==
    ASSUME NEW w, Walker(w), w.fatal = "none"
    PROVE  w = At(w.dentries, w.at)
<1>1. PICK x, y, z : w = [dentries |-> x, at |-> y, fatal |-> z]
  BY DEF Walker
<1> QED BY <1>1 DEF At

\* A cache only gets larger.
LEMMA LargerTwice ==
    ASSUME NEW D, NEW E, NEW F, Larger(D, E), Larger(E, F) PROVE Larger(D, F)
BY DEF Larger

Upto(path, n) == SubSeq(path, 1, n)

\* One of the first n segments names no directory.
Blocked(ds, E, path, n) ==
    \E m \in 1 .. n : Upto(path, m) \in DOMAIN E /\ ds[E[Upto(path, m)]].inode.fmt # "DIR"

\* A lookup after n segments: at a directory, or it met a fatal error, or a
\* segment was not a directory.
WalkedTo(w, E, path, n) ==
    \/ /\ w.fatal = "none" /\ Upto(path, n) \in DOMAIN E /\ E[Upto(path, n)] = w.at
       /\ w.dentries[w.at].inode.fmt = "DIR"
    \/ w.fatal \in LookupPanics /\ w.at = 0
    \/ w.fatal = "none" /\ w.at = 0 /\ Blocked(w.dentries, E, path, n)

Walked(w, D, path, n) ==
    /\ Walker(w)
    /\ \E E : Good(w.dentries, dirs, mounts, E) /\ Larger(D, E) /\ WalkedTo(w, E, path, n)

\* The first n segments are the first n - 1 and one more.
LEMMA UptoNext ==
    ASSUME NEW path \in Seq(Segments), NEW n \in 1 .. Len(path)
    PROVE  Upto(path, n) = Append(Upto(path, n - 1), path[n]) /\ path[n] \in Segments
BY DEF Upto

\* A cached path has a dentry.
LEMMA GoodAt ==
    ASSUME NEW ds, NEW dr, NEW mt, NEW D, Good(ds, dr, mt, D), NEW p \in DOMAIN D
    PROVE  D[p] \in 1 .. Len(ds) /\ D[p] # 0 /\ Len(ds) \in Nat
<1>1. Shaped(ds, dr) /\ Located(ds, D)
  BY DEF Good, Cached
<1>2. D[p] \in 1 .. Len(ds) /\ Len(ds) \in Nat
  BY <1>1, ShapedTypes DEF Located
<1> QED BY <1>2

\* One segment of _vfs_node_lookup_rec.
LEMMA DescendWalks ==
    ASSUME NEW w, NEW D, NEW path \in Seq(Segments), NEW n \in 1 .. Len(path),
           DirsInv(dirs), Walked(w, D, path, n - 1)
    PROVE  Walked(Descend(w, path[n]), D, path, n)
<1> DEFINE next == ChildByName(w, path[n])
           to == Descend(w, path[n])
<1>0. Walker(w) /\ n \in Nat
  BY DEF Walked
<1>1. PICK E : Good(w.dentries, dirs, mounts, E) /\ Larger(D, E) /\ WalkedTo(w, E, path, n - 1)
  BY DEF Walked
<1>2. ASSUME w.at = 0 PROVE Walked(to, D, path, n)
  <2>1. to = w
    BY <1>2 DEF Descend
  <2>2. ~ (Upto(path, n - 1) \in DOMAIN E /\ E[Upto(path, n - 1)] = w.at)
    BY <1>1, <1>2, GoodAt
  <2>3. Blocked(w.dentries, E, path, n - 1) => Blocked(w.dentries, E, path, n)
    BY <1>0 DEF Blocked
  <2>4. WalkedTo(w, E, path, n)
    BY <1>1, <2>2, <2>3 DEF WalkedTo
  <2> QED BY <1>0, <1>1, <2>1, <2>4 DEF Walked
<1>3. ASSUME w.at # 0 PROVE Walked(to, D, path, n)
  <2>1. /\ w.fatal = "none" /\ Upto(path, n - 1) \in DOMAIN E /\ E[Upto(path, n - 1)] = w.at
        /\ w.dentries[w.at].inode.fmt = "DIR"
    BY <1>1, <1>3 DEF WalkedTo
  <2>2. w = At(w.dentries, w.at)
    BY <1>0, <2>1, WalkerAt
  <2>3. PICK ds, d : ds = w.dentries /\ d = w.at /\ w = At(ds, d)
    BY <2>2
  <2>4. Arrives(ChildByName(At(ds, d), path[n]), E, Append(Upto(path, n - 1), path[n]))
    BY <1>1, <2>1, <2>3, UptoNext, ChildArrives
  <2>5. Arrives(next, E, Upto(path, n)) /\ Walker(next)
    BY <2>3, <2>4, UptoNext, ChildWalker
  <2> HIDE DEF next
  <2>6. PICK F : /\ Good(next.dentries, dirs, mounts, F) /\ Larger(E, F)
                 /\ \/ next.fatal = "none" /\ Upto(path, n) \in DOMAIN F /\ F[Upto(path, n)] = next.at
                    \/ next.fatal \in LookupPanics /\ next.at = 0
    BY <2>5 DEF Arrives
  <2>7. Larger(D, F)
    BY <1>1, <2>6, LargerTwice
  <2>8. to = IF next.at # 0 /\ next.dentries[next.at].inode.fmt # "DIR"
             THEN [next EXCEPT !.at = 0] ELSE next
    BY <1>3 DEF Descend, next
  <2>9. CASE next.at # 0 /\ next.dentries[next.at].inode.fmt # "DIR"
    <3>1. PICK x, y, z : next = [dentries |-> x, at |-> y, fatal |-> z]
      BY <2>5 DEF Walker
    <3>2. to = [dentries |-> x, at |-> 0, fatal |-> z]
      <4>1. to = [next EXCEPT !.at = 0]
        BY <2>8, <2>9
      <4>2. [[dentries |-> x, at |-> y, fatal |-> z] EXCEPT !.at = 0]
            = [dentries |-> x, at |-> 0, fatal |-> z]
        OBVIOUS
      <4> QED BY <3>1, <4>1, <4>2
    <3>3. Walker(to) /\ to.dentries = next.dentries /\ to.fatal = next.fatal /\ to.at = 0
      BY <3>1, <3>2, WalkerForm
    <3>4. next.fatal = "none" /\ Upto(path, n) \in DOMAIN F /\ F[Upto(path, n)] = next.at
      BY <2>6, <2>9
    <3>5. Blocked(next.dentries, F, path, n)
      BY <1>0, <2>9, <3>4 DEF Blocked
    <3>6. WalkedTo(to, F, path, n)
      BY <3>3, <3>4, <3>5 DEF WalkedTo
    <3> QED BY <2>6, <2>7, <3>3, <3>6 DEF Walked
  <2>10. CASE ~ (next.at # 0 /\ next.dentries[next.at].inode.fmt # "DIR")
    <3>1. to = next
      BY <2>8, <2>10
    <3>2. Upto(path, n) \in DOMAIN F => F[Upto(path, n)] # 0
      BY <2>6, GoodAt
    <3>3. WalkedTo(next, F, path, n)
      BY <2>6, <2>10, <3>2 DEF WalkedTo
    <3> QED BY <2>5, <2>6, <2>7, <3>1, <3>3 DEF Walked
  <2> QED BY <2>9, <2>10
<1> QED BY <1>2, <1>3

\* All segments but the last.
LEMMA WalkWalks ==
    ASSUME NEW ds, NEW D, NEW path \in Seq(Segments), path # <<>>,
           DirsInv(dirs), Good(ds, dirs, mounts, D)
    PROVE  Walked(Walk(ds, path), D, path, Len(path) - 1)
<1> DEFINE N == Len(path) - 1
<1>1. N \in Nat /\ Len(path) \in Nat
  OBVIOUS
<1>2. PICK g : /\ g[0] = At(ds, 1)
               /\ \A n \in 1 .. N : g[n] = Descend(g[n - 1], path[n])
               /\ Walk(ds, path) = g[N]
  BY WalkSteps
<1> DEFINE S == {n \in Nat : Walked(g[n], D, path, n)}
<1>3. 0 \in S
  <2>1. Upto(path, 0) = <<>>
    BY DEF Upto
  <2>2. /\ Located(ds, D) /\ Treelike(ds)
    BY DEF Good, Cached
  <2>3. <<>> \in DOMAIN D /\ D[<<>>] = 1 /\ ds[1].inode.fmt = "DIR"
    BY <2>2 DEF Located, Treelike
  <2>4. g[0].dentries = ds /\ g[0].at = 1 /\ g[0].fatal = "none" /\ Walker(g[0])
    BY <1>2, WalkerForm DEF At
  <2>5. WalkedTo(g[0], D, path, 0)
    BY <2>1, <2>3, <2>4 DEF WalkedTo
  <2>6. Larger(D, D)
    BY DEF Larger
  <2> QED BY <2>4, <2>5, <2>6 DEF Walked
<1>4. ASSUME NEW n \in 0 .. N - 1, n \in S PROVE n + 1 \in S
  <2>1. PICK m \in 1 .. Len(path) : m = n + 1 /\ m - 1 = n /\ m \in 1 .. N
    BY <1>1
  <2>2. Walked(g[m - 1], D, path, m - 1)
    BY <1>4, <2>1
  <2>3. Walked(Descend(g[m - 1], path[m]), D, path, m)
    BY <2>2, DescendWalks
  <2>4. g[m] = Descend(g[m - 1], path[m])
    BY <1>2, <2>1
  <2>5. Walked(g[m], D, path, m) /\ m \in Nat
    BY <1>1, <2>1, <2>3, <2>4
  <2> QED BY <2>1, <2>5
<1> HIDE DEF S
<1>5. \A n \in 0 .. N : n \in S
  BY <1>1, <1>3, <1>4, Steps
<1>6. N \in S
  BY <1>1, <1>5
<1>7. Walked(g[N], D, path, N)
  BY <1>6 DEF S
<1> QED BY <1>2, <1>7

\* _vfs_dentry_lookup: NULL, or the dentry of the path.
LookedUp(w, D, path) ==
    \E E : /\ Good(w.dentries, dirs, mounts, E) /\ Larger(D, E)
           /\ \/ w.fatal = "none" /\ Canonical(path) \in DOMAIN E /\ E[Canonical(path)] = w.at
              \/ w.fatal \in LookupPanics /\ w.at = 0
              \/ w.fatal = "none" /\ w.at = 0 /\ Blocked(w.dentries, E, path, Len(path) - 1)

\* The whole lookup.
LEMMA LookupLooksUp ==
    ASSUME NEW ds, NEW D, NEW path \in Seq(Segments), path # <<>>,
           DirsInv(dirs), Good(ds, dirs, mounts, D)
    PROVE  LookedUp(DentryLookup(ds, path), D, path)
<1> DEFINE w == Walk(ds, path)
           n == Len(path)
           l == DentryLookup(ds, path)
<1>0. n \in 1 .. Len(path) /\ Last(path) = path[n] /\ Front(path) = Upto(path, n - 1)
  BY DEF Last, Front, Upto
<1>1. Walked(w, D, path, n - 1)
  BY WalkWalks
<1>2. l = IF w.at = 0 \/ Last(path) = EMPTY THEN w ELSE ChildByName(w, Last(path))
  BY DEF DentryLookup
<1> HIDE DEF w, l
<1>3. PICK E : Good(w.dentries, dirs, mounts, E) /\ Larger(D, E) /\ WalkedTo(w, E, path, n - 1)
  BY <1>1 DEF Walked
<1>4. ASSUME w.at = 0 PROVE LookedUp(l, D, path)
  <2>1. l = w
    BY <1>2, <1>4
  <2>2. ~ (Upto(path, n - 1) \in DOMAIN E /\ E[Upto(path, n - 1)] = w.at)
    BY <1>3, <1>4, GoodAt
  <2> QED BY <1>3, <2>1, <2>2 DEF WalkedTo, LookedUp
<1>5. ASSUME w.at # 0
      PROVE  /\ w.fatal = "none" /\ Upto(path, n - 1) \in DOMAIN E /\ E[Upto(path, n - 1)] = w.at
             /\ w.dentries[w.at].inode.fmt = "DIR"
  BY <1>3, <1>5 DEF WalkedTo
<1>6. ASSUME w.at # 0, Last(path) = EMPTY PROVE LookedUp(l, D, path)
  <2>1. Canonical(path) = Upto(path, n - 1) /\ l = w
    BY <1>0, <1>2, <1>6 DEF Canonical
  <2> QED BY <1>3, <1>5, <1>6, <2>1 DEF LookedUp
<1>7. ASSUME w.at # 0, Last(path) # EMPTY PROVE LookedUp(l, D, path)
  <2>1. Canonical(path) = path /\ l = ChildByName(w, path[n])
    BY <1>0, <1>2, <1>7 DEF Canonical
  <2>2. path = Append(Upto(path, n - 1), path[n]) /\ path[n] \in Segments
    BY <1>0 DEF Upto
  <2>3. Walker(w)
    BY <1>1 DEF Walked
  <2>4. PICK k, d : k = w.dentries /\ d = w.at /\ w = At(k, d)
    BY <1>5, <1>7, <2>3, WalkerAt
  <2>5. Arrives(ChildByName(At(k, d), path[n]), E, Append(Upto(path, n - 1), path[n]))
    BY <1>3, <1>5, <1>7, <2>2, <2>4, ChildArrives
  <2>6. Arrives(l, E, path)
    BY <2>1, <2>2, <2>4, <2>5
  <2>7. PICK F : /\ Good(l.dentries, dirs, mounts, F) /\ Larger(E, F)
                 /\ \/ l.fatal = "none" /\ path \in DOMAIN F /\ F[path] = l.at
                    \/ l.fatal \in LookupPanics /\ l.at = 0
    BY <2>6 DEF Arrives
  <2>8. Larger(D, F)
    BY <1>3, <2>7, LargerTwice
  <2> QED BY <2>1, <2>7, <2>8 DEF LookedUp
<1>8. LookedUp(l, D, path)
  BY <1>4, <1>6, <1>7
<1> QED BY <1>8 DEF l

-----------------------------------------------------------------------------
(* Mounts                                                                  *)

\* A directory more, or the same ones.
DirsMore(dr, more) ==
    /\ DirsInv(more) /\ Len(more) \in Nat /\ Len(dr) \in Nat /\ Len(more) >= Len(dr)
    /\ \A i \in 1 .. Len(dr) : more[i] = dr[i]

\* The root inode of a file system that nobody used yet, or of fat32.
FreshRoot(root, dr, more) ==
    /\ Known(root, more) /\ root.fmt = "DIR" /\ root.fs # "none"
    /\ root.fs = "ramfs" => root.id = Len(dr) + 1 /\ more[root.id] = <<>>

Covers(ds, k, t, root) ==
    /\ k \in Seq(Dentries) /\ Len(k) = Len(ds) /\ t \in 1 .. Len(ds)
    /\ \A e \in 1 .. Len(ds) : e # t => k[e] = ds[e]
    /\ k[t].name = ds[t].name /\ k[t].parent = ds[t].parent
    /\ k[t].inode = root /\ k[t].children = <<>>

\* _vfs_mount_dev covers the dentry in this way.
LEMMA CoveredCovers ==
    ASSUME NEW ds \in Seq(Dentries), NEW t \in 1 .. Len(ds), NEW root \in Inodes
    PROVE  Covers(ds, [ds EXCEPT ![t] = Covered(@, root)], t, root)
<1> DEFINE k == [ds EXCEPT ![t] = Covered(@, root)]
<1>1. PICK a \in Dentries : a = ds[t]
  OBVIOUS
<1>2. PICK b \in {Covered(a, root)} : /\ b \in Dentries /\ b.name = a.name /\ b.parent = a.parent
                                      /\ b.inode = root /\ b.children = <<>>
  <2>1. PICK c \in Seq(Nat) : c = <<>>
    <3>1. <<>> \in Seq(Nat)
      OBVIOUS
    <3> QED BY <3>1, Zenon
  <2>2. Covered(a, root) = [a EXCEPT !.inode = root, !.children = c]
    BY <2>1 DEF Covered
  <2>3. /\ Covered(a, root) \in Dentries /\ Covered(a, root).name = a.name
        /\ Covered(a, root).parent = a.parent /\ Covered(a, root).inode = root
        /\ Covered(a, root).children = c
    BY <2>2 DEF Dentries
  <2> QED BY <2>1, <2>3
<1>3. k = [ds EXCEPT ![t] = b]
  BY <1>1, <1>2
<1>4. k \in Seq(Dentries) /\ Len(k) = Len(ds) /\ k[t] = b /\ \A e \in 1 .. Len(ds) : e # t => k[e] = ds[e]
  BY <1>2, <1>3
<1> QED BY <1>1, <1>2, <1>4 DEF Covers

\* Whoever had an inode before has one still.
LEMMA KnownMore ==
    ASSUME NEW dr, NEW more, Len(dr) \in Nat, Len(more) \in Nat, Len(more) >= Len(dr),
           NEW inode, Known(inode, dr)
    PROVE  Known(inode, more)
BY DEF Known

\* A file system with the same directory answers the same.
LEMMA LookupMore ==
    ASSUME NEW dr, NEW more, NEW inode, NEW name,
           inode.fs = "ramfs" => more[inode.id] = dr[inode.id], inode \in Inodes, inode.fs # "none"
    PROVE  LookupIn(more, inode, name) = LookupIn(dr, inode, name)
<1>1. inode.fs \in {"ramfs", "fat32"}
  BY DEF Inodes
<1> QED BY <1>1 DEF LookupIn

\* The mount keeps the tree, and the new root has no files yet.
LEMMA CoversCached ==
    ASSUME NEW ds, NEW dr, NEW k, NEW t, NEW root, NEW more, Cached(ds, dr),
           DirsMore(dr, more), FreshRoot(root, dr, more), Covers(ds, k, t, root)
    PROVE  Cached(k, more)
<1>0. Shaped(ds, dr) /\ Treelike(ds) /\ Complete(ds, dr)
  BY DEF Cached
<1>1. /\ Len(ds) \in 1 .. DENTRY_COUNT /\ Len(k) = Len(ds) /\ t \in 1 .. Len(ds)
      /\ Len(k[t].children) = 0 /\ 0 \in Nat
  BY <1>0 DEF Shaped, Covers
<1>2. ASSUME NEW e \in 1 .. Len(k), NEW i \in 1 .. Len(k[e].children)
      PROVE  /\ e # t /\ k[e] = ds[e] /\ i \in 1 .. Len(ds[e].children)
             /\ ds[e].children[i] \in 1 .. Len(ds)
  <2>1. e # t
    BY <1>1
  <2>2. k[e] = ds[e]
    BY <1>1, <2>1 DEF Covers
  <2> QED BY <1>0, <1>1, <2>1, <2>2, ShapedTypes
<1>3. \A e \in 1 .. Len(ds) : /\ k[e].name = ds[e].name /\ k[e].parent = ds[e].parent
                              /\ e # t => k[e].inode = ds[e].inode
  BY DEF Covers
<1>4. Shaped(k, more)
  <2>1. ASSUME NEW e \in 1 .. Len(k)
        PROVE  /\ Known(k[e].inode, more) /\ k[e].parent \in 0 .. Len(k)
               /\ Len(k[e].children) <= DENTRY_MAX_CHILREN_COUNT
    <3>1. CASE e = t
      <4>1. ds[t].parent \in 0 .. Len(ds)
        BY <1>0, <1>1 DEF Shaped
      <4> QED BY <1>1, <3>1, <4>1, VfsAssumption DEF Covers, FreshRoot
    <3>2. CASE e # t
      <4>1. k[e] = ds[e] /\ e \in 1 .. Len(ds)
        BY <1>1, <3>2 DEF Covers
      <4>2. /\ Known(ds[e].inode, dr) /\ ds[e].parent \in 0 .. Len(ds)
            /\ Len(ds[e].children) <= DENTRY_MAX_CHILREN_COUNT
        BY <1>0, <4>1 DEF Shaped
      <4>3. Known(ds[e].inode, more)
        BY <4>2, KnownMore DEF DirsMore
      <4> QED BY <1>1, <4>1, <4>2, <4>3
    <3> QED BY <3>1, <3>2
  <2>2. \A e \in 1 .. Len(k) : \A i \in 1 .. Len(k[e].children) : k[e].children[i] \in 1 .. Len(k)
    BY <1>1, <1>2
  <2> QED BY <1>1, <2>1, <2>2 DEF Shaped, Covers
<1>5. Treelike(k)
  <2>1. k[1].inode.fmt = "DIR"
    <3>1. 1 \in 1 .. Len(ds) /\ ds[1].inode.fmt = "DIR"
      BY <1>0, <1>1 DEF Treelike
    <3> QED BY <1>3, <3>1 DEF Covers, FreshRoot
  <2>2. ASSUME NEW e \in 1 .. Len(k), Len(k[e].children) # 0
        PROVE  k[e].inode.fmt = "DIR" /\ k[e].inode.fs # "none"
    <3>1. e # t /\ e \in 1 .. Len(ds)
      BY <1>1, <2>2
    <3>2. k[e] = ds[e]
      BY <3>1 DEF Covers
    <3> QED BY <1>0, <2>2, <3>1, <3>2 DEF Treelike
  <2>3. ASSUME NEW e \in 1 .. Len(k), NEW i \in 1 .. Len(k[e].children)
        PROVE  k[k[e].children[i]].parent = e
    <3>1. PICK c \in 1 .. Len(ds) : c = ds[e].children[i] /\ c = k[e].children[i]
      BY <1>2
    <3>2. ds[ds[e].children[i]].parent = e
      BY <1>0, <1>1, <1>2 DEF Treelike
    <3> QED BY <1>3, <3>1, <3>2
  <2>4. ASSUME NEW e \in 1 .. Len(k), NEW i \in 1 .. Len(k[e].children),
               NEW j \in 1 .. Len(k[e].children),
               k[k[e].children[i]].name = k[k[e].children[j]].name
        PROVE  i = j
    <3>1. PICK c \in 1 .. Len(ds) : c = ds[e].children[i] /\ c = k[e].children[i]
      BY <1>2
    <3>2. PICK f \in 1 .. Len(ds) : f = ds[e].children[j] /\ f = k[e].children[j]
      BY <1>2
    <3>3. ds[ds[e].children[i]].name = ds[ds[e].children[j]].name
      BY <1>3, <2>4, <3>1, <3>2
    <3>4. /\ e \in 1 .. Len(ds) /\ i \in 1 .. Len(ds[e].children) /\ j \in 1 .. Len(ds[e].children)
      BY <1>1, <1>2
    <3> QED BY <1>0, <3>3, <3>4, Zenon DEF Treelike
  <2> QED BY <2>1, <2>2, <2>3, <2>4 DEF Treelike
<1>6. ASSUME NEW e \in 1 .. Len(k), e # t, k[e].inode.fs = "ramfs"
      PROVE  /\ e \in 1 .. Len(ds) /\ k[e] = ds[e] /\ ds[e].inode.fs = "ramfs"
             /\ ds[e].inode.id \in 1 .. Len(dr) /\ more[ds[e].inode.id] = dr[ds[e].inode.id]
  <2>1. e \in 1 .. Len(ds) /\ k[e] = ds[e]
    BY <1>1, <1>6 DEF Covers
  <2>2. ds[e].inode.id \in 1 .. Len(dr)
    BY <1>0, <1>6, <2>1 DEF Shaped, Known
  <2> QED BY <1>6, <2>1, <2>2 DEF DirsMore
<1>7. OneDentry(k)
  <2>1. SUFFICES ASSUME NEW e \in 1 .. Len(k), NEW f \in 1 .. Len(k),
                        k[e].inode.fs = "ramfs", k[f].inode.fs = "ramfs",
                        k[e].inode.id = k[f].inode.id
                 PROVE  e = f
    BY DEF OneDentry
  <2>2. ASSUME NEW x \in 1 .. Len(k), x # t, k[x].inode.fs = "ramfs", k[t].inode.fs = "ramfs"
        PROVE  k[x].inode.id # k[t].inode.id
    <3>1. k[t].inode.id = Len(dr) + 1 /\ Len(dr) \in Nat
      BY <2>2 DEF Covers, FreshRoot, DirsMore
    <3>2. k[x].inode.id \in 1 .. Len(dr)
      BY <1>6, <2>2
    <3> QED BY <3>1, <3>2
  <2>3. CASE e # t /\ f # t
    <3>1. /\ e \in 1 .. Len(ds) /\ f \in 1 .. Len(ds) /\ k[e] = ds[e] /\ k[f] = ds[f]
      BY <1>6, <2>1, <2>3
    <3>2. OneDentry(ds)
      BY <1>0 DEF Complete
    <3> QED BY <2>1, <3>1, <3>2, Zenon DEF OneDentry
  <2> QED BY <2>1, <2>2, <2>3
<1>8. ASSUME NEW e \in 1 .. Len(k), k[e].inode.fs = "ramfs"
      PROVE  HasAll(k, more, e) /\ NegativeRight(k, more, e)
  <2>1. CASE e = t
    <3>1. Len(more[k[e].inode.id]) = 0
      BY <1>8, <2>1 DEF Covers, FreshRoot
    <3> QED BY <1>1, <2>1, <3>1 DEF HasAll, NegativeRight
  <2>2. CASE e # t
    <3>1. /\ e \in 1 .. Len(ds) /\ k[e] = ds[e] /\ ds[e].inode.fs = "ramfs"
          /\ more[ds[e].inode.id] = dr[ds[e].inode.id]
      BY <1>6, <1>8, <2>2
    <3>2. HasAll(ds, dr, e) /\ NegativeRight(ds, dr, e)
      BY <1>0, <3>1 DEF Complete
    <3>3. HasAll(k, more, e)
      <4>1. SUFFICES ASSUME NEW j \in 1 .. Len(dr[ds[e].inode.id])
                     PROVE  \E i \in 1 .. Len(ds[e].children) :
                               k[ds[e].children[i]].name = dr[ds[e].inode.id][j].name
        BY <3>1 DEF HasAll
      <4>2. PICK i \in 1 .. Len(ds[e].children) :
                ds[ds[e].children[i]].name = dr[ds[e].inode.id][j].name
        BY <3>2 DEF HasAll
      <4>3. ds[e].children[i] \in 1 .. Len(ds)
        BY <1>2, <3>1
      <4> QED BY <1>3, <4>2, <4>3
    <3>4. NegativeRight(k, more, e)
      <4>1. SUFFICES ASSUME NEW i \in 1 .. Len(ds[e].children),
                            k[ds[e].children[i]].inode = NoInode,
                            NEW j \in 1 .. Len(dr[ds[e].inode.id])
                     PROVE  dr[ds[e].inode.id][j].name # k[ds[e].children[i]].name
        BY <3>1 DEF NegativeRight
      <4>2. ds[e].children[i] \in 1 .. Len(ds)
        BY <1>2, <3>1
      <4>3. k[t].inode # NoInode
        BY DEF Covers, FreshRoot, NoInode
      <4>4. ds[ds[e].children[i]].inode = NoInode
        BY <1>3, <4>1, <4>2, <4>3
      <4>5. dr[ds[e].inode.id][j].name # ds[ds[e].children[i]].name
        BY <3>2, <4>4 DEF NegativeRight
      <4> QED BY <1>3, <4>2, <4>5
    <3> QED BY <3>3, <3>4
  <2> QED BY <2>1, <2>2
<1> QED BY <1>4, <1>5, <1>7, <1>8 DEF Cached, Complete

\* p goes on below at.
Below(at, p) == Len(p) > Len(at) /\ Upto(p, Len(at)) = at

\* Paths below a directory.
LEMMA BelowFacts ==
    ASSUME NEW at \in Seq(Segments), NEW p \in Seq(Segments)
    PROVE  /\ ~ Below(at, at) /\ ~ Below(at, <<>>)
           /\ p # <<>> /\ Below(at, Up(p)) => Below(at, p)
           /\ p # <<>> /\ Up(p) = at => Below(at, p)
           /\ IsPrefix(at, p) /\ p # at => Below(at, p)
           /\ Below(at, p) => IsPrefix(at, p)
<1>1. Len(at) \in Nat /\ Len(p) \in Nat
  OBVIOUS
<1>2. ~ Below(at, at) /\ ~ Below(at, <<>>)
  BY <1>1 DEF Below
<1>3. ASSUME p # <<>>, Below(at, Up(p)) PROVE Below(at, p)
  <2>1. Len(Up(p)) = Len(p) - 1 /\ Len(p) > 0 /\ Len(at) < Len(p)
    BY <1>3 DEF Below, Up
  <2>2. Upto(Up(p), Len(at)) = Upto(p, Len(at))
    BY <1>1, <2>1 DEF Up, Upto
  <2> QED BY <1>3, <2>1, <2>2 DEF Below
<1>4. ASSUME p # <<>>, Up(p) = at PROVE Below(at, p)
  BY <1>4 DEF Below, Up, Upto
<1>5. SubSeq(at, 1, Len(at)) = at /\ SubSeq(p, 1, Len(p)) = p
  OBVIOUS
<1>6. ASSUME IsPrefix(at, p), p # at PROVE Below(at, p)
  <2>1. Len(at) <= Len(p) /\ at = SubSeq(p, 1, Len(at))
    BY <1>5, <1>6 DEF IsPrefix
  <2>2. Len(at) # Len(p)
    BY <1>5, <1>6, <2>1
  <2> QED BY <1>1, <2>1, <2>2 DEF Below, Upto
<1>7. ASSUME Below(at, p) PROVE IsPrefix(at, p)
  BY <1>1, <1>5, <1>7 DEF Below, Upto, IsPrefix
<1> QED BY <1>2, <1>3, <1>4, <1>6, <1>7

\* Only the directory itself has children that are below it and is not.
LEMMA BelowAppend ==
    ASSUME NEW at \in Seq(Segments), NEW q \in Seq(Segments), NEW x \in Segments,
           Below(at, Append(q, x)), ~ Below(at, q)
    PROVE  q = at
<1>1. Len(at) <= Len(q) /\ Len(at) \in Nat /\ Len(q) \in Nat
  BY DEF Below
<1>2. Upto(Append(q, x), Len(at)) = Upto(q, Len(at))
  BY <1>1 DEF Upto
<1>3. Upto(q, Len(at)) = at
  BY <1>2 DEF Below
<1>4. Len(q) = Len(at)
  BY <1>1, <1>3 DEF Below
<1> QED BY <1>3, <1>4 DEF Upto

\* The paths that are not below at.
Cut(D, at) == [p \in {q \in DOMAIN D : ~ Below(at, q)} |-> D[p]]

\* The paths below the mount are not cached any more.
LEMMA CoversLocated ==
    ASSUME NEW ds, NEW dr, NEW k, NEW root, NEW D, NEW at \in DOMAIN D,
           Shaped(ds, dr), Located(ds, D), Covers(ds, k, D[at], root)
    PROVE  Located(k, Cut(D, at))
<1> DEFINE E == Cut(D, at)
           t == D[at]
<1>0. DOMAIN D \subseteq Seq(Segments) /\ at \in Seq(Segments)
  BY DEF Located
<1>1. /\ DOMAIN E \subseteq DOMAIN D /\ \A q \in DOMAIN D : q \in DOMAIN E <=> ~ Below(at, q)
      /\ \A q \in DOMAIN E : E[q] = D[q]
  BY DEF Cut
<1>2. /\ Len(ds) \in Nat /\ Len(k) = Len(ds) /\ Len(k[t].children) = 0
      /\ \A e \in 1 .. Len(ds) : k[e].name = ds[e].name /\ (e # t => k[e] = ds[e])
  BY ShapedTypes DEF Covers
<1>3. \A q \in DOMAIN D : D[q] \in 1 .. Len(ds) /\ (D[q] = t => q = at)
  BY DEF Located
<1> HIDE DEF E, t
<1>4. /\ DOMAIN E \subseteq Seq(Segments) /\ <<>> \in DOMAIN E /\ E[<<>>] = 1
      /\ \A q \in DOMAIN E : E[q] \in 1 .. Len(k)
      /\ \A q, s \in DOMAIN E : E[q] = E[s] => q = s
  <2>1. <<>> \in DOMAIN D /\ D[<<>>] = 1 /\ \A q, s \in DOMAIN D : D[q] = D[s] => q = s
    BY DEF Located
  <2>2. <<>> \in DOMAIN E
    BY <1>0, <1>1, <2>1, BelowFacts
  <2> QED BY <1>0, <1>1, <1>2, <1>3, <2>1, <2>2
<1>5. ASSUME NEW q \in DOMAIN E, q # <<>>
      PROVE  /\ Up(q) \in DOMAIN E /\ k[E[q]].name = q[Len(q)]
             /\ \E i \in 1 .. Len(k[E[Up(q)]].children) : k[E[Up(q)]].children[i] = E[q]
  <2>1. q \in DOMAIN D /\ q \in Seq(Segments) /\ ~ Below(at, q) /\ E[q] = D[q]
    BY <1>0, <1>1
  <2>2. /\ Up(q) \in DOMAIN D /\ ds[D[q]].name = q[Len(q)]
        /\ \E i \in 1 .. Len(ds[D[Up(q)]].children) : ds[D[Up(q)]].children[i] = D[q]
    BY <1>5, <2>1 DEF Located
  <2>3. ~ Below(at, Up(q)) /\ Up(q) # at
    BY <1>0, <1>5, <2>1, BelowFacts
  <2>4. Up(q) \in DOMAIN E /\ E[Up(q)] = D[Up(q)] /\ D[Up(q)] # t
    BY <1>1, <1>3, <2>2, <2>3
  <2>5. k[D[Up(q)]] = ds[D[Up(q)]] /\ k[D[q]].name = ds[D[q]].name
    BY <1>2, <1>3, <2>1, <2>2, <2>4
  <2> QED BY <2>1, <2>2, <2>4, <2>5
<1>6. ASSUME NEW q \in DOMAIN E, NEW i \in 1 .. Len(k[E[q]].children)
      PROVE  /\ Append(q, k[k[E[q]].children[i]].name) \in DOMAIN E
             /\ E[Append(q, k[k[E[q]].children[i]].name)] = k[E[q]].children[i]
  <2>1. q \in DOMAIN D /\ q \in Seq(Segments) /\ ~ Below(at, q) /\ E[q] = D[q]
    BY <1>0, <1>1
  <2>2. D[q] # t /\ q # at
    <3>1. D[q] # t
      BY <1>2, <2>1
    <3> QED BY <3>1 DEF t
  <2>3. k[D[q]] = ds[D[q]] /\ i \in 1 .. Len(ds[D[q]].children)
    BY <1>2, <1>3, <2>1, <2>2
  <2>4. PICK c \in 1 .. Len(ds) : c = ds[D[q]].children[i]
    BY <1>3, <2>1, <2>3, ShapedTypes
  <2>5. k[c].name = ds[c].name /\ ds[c].name \in Segments
    BY <1>2, <2>4, ShapedTypes
  <2>6. Append(q, ds[c].name) \in DOMAIN D /\ D[Append(q, ds[c].name)] = c
    BY <2>1, <2>3, <2>4 DEF Located
  <2>7. ~ Below(at, Append(q, ds[c].name))
    BY <1>0, <2>1, <2>2, <2>5, BelowAppend
  <2>8. Append(q, ds[c].name) \in DOMAIN E /\ E[Append(q, ds[c].name)] = c
    BY <1>1, <2>6, <2>7
  <2>9. k[E[q]].children[i] = c
    BY <2>1, <2>3, <2>4
  <2> QED BY <2>5, <2>8, <2>9
<1>7. Located(k, E)
  BY <1>4, <1>5, <1>6 DEF Located
<1> QED BY <1>7 DEF E

\* The mounts after one on at.
Remounted(mt, at, root) ==
    [p \in (DOMAIN mt \ {p \in DOMAIN mt : IsPrefix(at, p)}) \cup {at} |->
        IF p = at THEN root ELSE mt[p]]

\* The other paths hold what they held, and the directory holds the new root.
LEMMA CoversCoherent ==
    ASSUME NEW ds, NEW dr, NEW mt, NEW k, NEW root, NEW more, NEW D, NEW at \in DOMAIN D,
           Good(ds, dr, mt, D), DirsMore(dr, more), FreshRoot(root, dr, more),
           Covers(ds, k, D[at], root)
    PROVE  Coherent(k, more, Remounted(mt, at, root), Cut(D, at))
<1> DEFINE E == Cut(D, at)
           t == D[at]
           m == Remounted(mt, at, root)
<1>0. /\ DOMAIN D \subseteq Seq(Segments) /\ at \in Seq(Segments)
      /\ Shaped(ds, dr) /\ Treelike(ds) /\ Located(ds, D) /\ Coherent(ds, dr, mt, D)
  BY DEF Located, Good, Cached
<1>1. /\ DOMAIN E \subseteq DOMAIN D /\ \A q \in DOMAIN D : q \in DOMAIN E <=> ~ Below(at, q)
      /\ \A q \in DOMAIN E : E[q] = D[q]
  BY DEF Cut
<1>2. /\ k[t].inode = root /\ \A e \in 1 .. Len(ds) : e # t => k[e] = ds[e]
  BY DEF Covers
<1>3. \A q \in DOMAIN D : D[q] \in 1 .. Len(ds) /\ (D[q] = t => q = at)
  BY <1>0 DEF Located
<1>4. /\ DOMAIN m = (DOMAIN mt \ {p \in DOMAIN mt : IsPrefix(at, p)}) \cup {at}
      /\ m[at] = root /\ \A p \in DOMAIN m : p # at => p \in DOMAIN mt /\ m[p] = mt[p]
  BY DEF Remounted
<1>5. DOMAIN mt \subseteq DOMAIN D /\ \A p \in DOMAIN mt : mt[p].fmt = "DIR" /\ ds[D[p]].inode = mt[p]
  BY <1>0 DEF Coherent
<1>6. root.fmt = "DIR"
  BY DEF FreshRoot
<1>7. ~ Below(at, at) /\ at \in DOMAIN E /\ E[at] = t
  BY <1>0, <1>1, BelowFacts
<1> HIDE DEF E, t, m
<1>8. ASSUME NEW p \in DOMAIN m
      PROVE  p \in DOMAIN E /\ m[p].fmt = "DIR" /\ k[E[p]].inode = m[p]
  <2>1. CASE p = at
    BY <1>2, <1>4, <1>6, <1>7, <2>1
  <2>2. CASE p # at
    <3>1. p \in DOMAIN mt /\ ~ IsPrefix(at, p) /\ p \in DOMAIN D /\ p \in Seq(Segments)
      BY <1>0, <1>4, <1>5, <2>2
    <3>2. ~ Below(at, p)
      BY <1>0, <3>1, BelowFacts
    <3>3. p \in DOMAIN E /\ E[p] = D[p] /\ D[p] # t /\ D[p] \in 1 .. Len(ds)
      BY <1>1, <1>3, <2>2, <3>1, <3>2
    <3> QED BY <1>2, <1>4, <1>5, <2>2, <3>1, <3>3
  <2> QED BY <2>1, <2>2
<1>9. ASSUME NEW p \in DOMAIN E \ DOMAIN m
      PROVE  k[E[p]].inode = IF p = <<>> THEN InitRoot
                             ELSE LookupIn(more, k[E[Up(p)]].inode, p[Len(p)])
  <2>1. p \in DOMAIN D /\ p \in Seq(Segments) /\ ~ Below(at, p) /\ p # at /\ E[p] = D[p]
    BY <1>0, <1>1, <1>4
  <2>2. p \notin DOMAIN mt
    <3>1. ~ IsPrefix(at, p)
      BY <1>0, <2>1, BelowFacts
    <3> QED BY <1>4, <1>9, <3>1
  <2>3. ds[D[p]].inode = IF p = <<>> THEN InitRoot
                         ELSE LookupIn(dr, ds[D[Up(p)]].inode, p[Len(p)])
    BY <1>0, <2>1, <2>2 DEF Coherent
  <2>4. D[p] # t /\ D[p] \in 1 .. Len(ds) /\ k[D[p]] = ds[D[p]]
    BY <1>2, <1>3, <2>1
  <2>5. CASE p = <<>>
    BY <2>1, <2>3, <2>4, <2>5
  <2>6. CASE p # <<>>
    <3>1. /\ Up(p) \in DOMAIN D
          /\ \E i \in 1 .. Len(ds[D[Up(p)]].children) : ds[D[Up(p)]].children[i] = D[p]
      BY <1>0, <2>1, <2>6 DEF Located
    <3>2. ~ Below(at, Up(p)) /\ Up(p) # at
      BY <1>0, <2>1, <2>6, BelowFacts
    <3>3. /\ E[Up(p)] = D[Up(p)] /\ D[Up(p)] # t /\ D[Up(p)] \in 1 .. Len(ds)
          /\ k[D[Up(p)]] = ds[D[Up(p)]]
      BY <1>1, <1>2, <1>3, <3>1, <3>2
    <3>4. PICK u \in 1 .. Len(ds) : u = D[Up(p)]
      BY <3>3
    <3>5. ds[u].inode.fs # "none" /\ Known(ds[u].inode, dr)
      <4>1. Len(ds[u].children) # 0
        BY <3>1, <3>4
      <4> QED BY <1>0, <4>1 DEF Treelike, Shaped
    <3>6. ds[u].inode.fs = "ramfs" => more[ds[u].inode.id] = dr[ds[u].inode.id]
      BY <3>5 DEF Known, DirsMore
    <3>7. PICK x \in Inodes : x = ds[u].inode
      BY <3>5 DEF Known
    <3>8. \A name : LookupIn(more, x, name) = LookupIn(dr, x, name)
      BY <3>5, <3>6, <3>7, LookupMore
    <3> QED BY <2>1, <2>3, <2>4, <2>6, <3>3, <3>4, <3>7, <3>8
  <2> QED BY <2>5, <2>6
<1>10. Coherent(k, more, m, E)
  BY <1>8, <1>9 DEF Coherent
<1> QED BY <1>10 DEF E, m

-----------------------------------------------------------------------------
(* New files                                                               *)

\* k is ds where the dentry d got an inode.
Fills(ds, k, d, inode) ==
    /\ k \in Seq(Dentries) /\ Len(k) = Len(ds) /\ d \in 1 .. Len(ds)
    /\ \A e \in 1 .. Len(ds) : /\ k[e].name = ds[e].name /\ k[e].parent = ds[e].parent
                               /\ k[e].children = ds[e].children
                               /\ e # d => k[e].inode = ds[e].inode
    /\ k[d].inode = inode

\* more is dr with a file added to the directory z.
Adds(dr, more, z, entry) ==
    /\ Len(dr) \in Nat /\ z \in 1 .. Len(dr) /\ Len(more) = Len(dr) + 1 /\ more \in Seq(Seq(Entries))
    /\ more[Len(dr) + 1] = <<>>
    /\ \A i \in 1 .. Len(dr) : i # z => more[i] = dr[i]
    /\ Len(dr[z]) \in Nat /\ Len(more[z]) = Len(dr[z]) + 1 /\ more[z][Len(dr[z]) + 1] = entry
    /\ \A j \in 1 .. Len(dr[z]) : more[z][j] = dr[z][j]

\* The dentry of a new file is filled in this way.
LEMMA FilledFills ==
    ASSUME NEW ds \in Seq(Dentries), NEW d \in 1 .. Len(ds), NEW inode \in Inodes
    PROVE  Fills(ds, Filled(ds, d, inode), d, inode)
<1> DEFINE k == Filled(ds, d, inode)
<1>1. PICK a \in Dentries : a = ds[d]
  OBVIOUS
<1>2. PICK b \in Dentries : /\ b = [a EXCEPT !.inode = inode] /\ b.name = a.name
                            /\ b.parent = a.parent /\ b.inode = inode /\ b.children = a.children
  <2>1. [a EXCEPT !.inode = inode] \in Dentries
    BY DEF Dentries
  <2>2. /\ [a EXCEPT !.inode = inode].name = a.name
        /\ [a EXCEPT !.inode = inode].parent = a.parent
        /\ [a EXCEPT !.inode = inode].inode = inode
        /\ [a EXCEPT !.inode = inode].children = a.children
    BY DEF Dentries
  <2> QED BY <2>1, <2>2, Zenon
<1>3. k = [ds EXCEPT ![d] = b]
  BY <1>1, <1>2 DEF Filled
<1>4. k \in Seq(Dentries) /\ Len(k) = Len(ds) /\ k[d] = b /\ \A e \in 1 .. Len(ds) : e # d => k[e] = ds[e]
  BY <1>2, <1>3
<1> QED BY <1>1, <1>2, <1>4 DEF Fills

\* _add_inode_child adds a file in this way.
LEMMA AddedAdds ==
    ASSUME NEW dr \in Seq(Seq(Entries)), NEW z \in 1 .. Len(dr), NEW entry \in Entries
    PROVE  Adds(dr, Append([dr EXCEPT ![z] = AddInodeChild(dr[z], entry)], <<>>), z, entry)
<1> DEFINE more == Append([dr EXCEPT ![z] = AddInodeChild(dr[z], entry)], <<>>)
<1>1. PICK c \in Seq(Entries) : c = dr[z]
  OBVIOUS
<1>2. PICK b \in Seq(Entries) : b = Append(c, entry)
  <2>1. Append(c, entry) \in Seq(Entries)
    OBVIOUS
  <2> QED BY <2>1, Zenon
<1>3. /\ Len(c) \in Nat /\ Len(b) = Len(c) + 1 /\ b[Len(c) + 1] = entry
      /\ \A j \in 1 .. Len(c) : b[j] = c[j]
  BY <1>2
<1>4. PICK m \in Seq(Seq(Entries)) : /\ m = [dr EXCEPT ![z] = b] /\ Len(m) = Len(dr) /\ m[z] = b
                                     /\ \A i \in 1 .. Len(dr) : i # z => m[i] = dr[i]
  <2>1. /\ [dr EXCEPT ![z] = b] \in Seq(Seq(Entries)) /\ Len([dr EXCEPT ![z] = b]) = Len(dr)
        /\ [dr EXCEPT ![z] = b][z] = b
        /\ \A i \in 1 .. Len(dr) : i # z => [dr EXCEPT ![z] = b][i] = dr[i]
    OBVIOUS
  <2> QED BY <2>1, Zenon
<1>5. PICK s \in Seq(Entries) : s = <<>>
  <2>1. <<>> \in Seq(Entries)
    OBVIOUS
  <2> QED BY <2>1, Zenon
<1>6. more = Append(m, s)
  BY <1>1, <1>2, <1>4, <1>5 DEF AddInodeChild
<1>7. /\ Len(dr) \in Nat /\ more \in Seq(Seq(Entries)) /\ Len(more) = Len(dr) + 1
      /\ more[Len(dr) + 1] = s /\ \A i \in 1 .. Len(dr) : more[i] = m[i]
  BY <1>4, <1>6
<1> HIDE DEF more
<1>8. \A i \in 1 .. Len(dr) : i # z => more[i] = dr[i]
  BY <1>4, <1>7
<1>9. more[z] = b /\ more[Len(dr) + 1] = <<>>
  BY <1>4, <1>5, <1>7
<1>10. Adds(dr, more, z, entry)
  BY <1>1, <1>3, <1>7, <1>8, <1>9 DEF Adds
<1> QED BY <1>10 DEF more

\* The file that is created: d is a negative dentry below the directory u.
Creates(ds, dr, k, more, u, d, inode) ==
    /\ u \in 1 .. Len(ds) /\ d \in 1 .. Len(ds) /\ u # d /\ d # 1
    /\ ds[d].inode = NoInode /\ ds[u].inode.fs = "ramfs"
    /\ \E i \in 1 .. Len(ds[u].children) : ds[u].children[i] = d
    /\ inode \in Inodes /\ inode.fs = "ramfs" /\ inode.id = Len(dr) + 1
    /\ Fills(ds, k, d, inode)
    /\ Adds(dr, more, ds[u].inode.id, [name |-> ds[d].name, inode |-> inode])

\* The directory has no file of the name of the negative dentry.
LEMMA CreatesBasics ==
    ASSUME NEW ds, NEW dr, NEW k, NEW more, NEW u, NEW d, NEW inode,
           Cached(ds, dr), Creates(ds, dr, k, more, u, d, inode)
    PROVE  /\ Len(ds[d].children) = 0
           /\ \A j \in 1 .. Len(dr[ds[u].inode.id]) : dr[ds[u].inode.id][j].name # ds[d].name
           /\ ds[u].inode.id \in 1 .. Len(dr)
<1>1. Shaped(ds, dr) /\ Treelike(ds) /\ Complete(ds, dr)
  BY DEF Cached
<1>2. u \in 1 .. Len(ds) /\ d \in 1 .. Len(ds) /\ ds[u].inode.fs = "ramfs" /\ ds[d].inode = NoInode
  BY DEF Creates
<1>3. Len(ds[d].children) = 0
  BY <1>1, <1>2 DEF Treelike, NoInode
<1>4. NegativeRight(ds, dr, u)
  BY <1>1, <1>2 DEF Complete
<1>5. PICK i \in 1 .. Len(ds[u].children) : ds[u].children[i] = d
  BY DEF Creates
<1>6. \A j \in 1 .. Len(dr[ds[u].inode.id]) : dr[ds[u].inode.id][j].name # ds[d].name
  BY <1>2, <1>4, <1>5 DEF NegativeRight
<1>7. ds[u].inode.id \in 1 .. Len(dr)
  BY <1>1, <1>2 DEF Shaped, Known
<1> QED BY <1>3, <1>6, <1>7

\* The names in the directory differ still.
LEMMA CreatesDirs ==
    ASSUME NEW ds, NEW dr, NEW k, NEW more, NEW u, NEW d, NEW inode,
           Cached(ds, dr), DirsInv(dr), Creates(ds, dr, k, more, u, d, inode),
           Len(dr[ds[u].inode.id]) # RAMFS_INODE_MAX_CHILDREN_COUNT
    PROVE  DirsInv(more)
<1> DEFINE z == ds[u].inode.id
           entry == [name |-> ds[d].name, inode |-> inode]
<1>1. Adds(dr, more, z, entry) /\ inode.fs = "ramfs" /\ inode.id = Len(dr) + 1 /\ inode \in Inodes
  BY DEF Creates
<1>2. /\ Len(dr) \in Nat /\ z \in 1 .. Len(dr) /\ Len(more) = Len(dr) + 1
      /\ more \in Seq(Seq(Entries)) /\ Len(dr[z]) \in Nat
  BY <1>1 DEF Adds
<1>3. \A j \in 1 .. Len(dr[z]) : dr[z][j].name # ds[d].name
  BY CreatesBasics
<1>4. entry.name = ds[d].name /\ entry.inode = inode
  OBVIOUS
<1> HIDE DEF z, entry
<1>5. Known(inode, more)
  BY <1>1, <1>2 DEF Known
<1>7. Len(dr) \in Nat /\ Len(more) \in Nat /\ Len(more) >= Len(dr) /\ Len(more) = Len(dr) + 1
  BY <1>2
<1>6. ASSUME NEW i \in 1 .. Len(more)
      PROVE  /\ Len(more[i]) <= RAMFS_INODE_MAX_CHILDREN_COUNT
             /\ \A j \in 1 .. Len(more[i]) : Known(more[i][j].inode, more)
             /\ \A j, h \in 1 .. Len(more[i]) : more[i][j].name = more[i][h].name => j = h
  <2>1. CASE i = Len(dr) + 1
    <3>1. Len(more[i]) = 0
      BY <1>1, <2>1 DEF Adds
    <3> QED BY <3>1, VfsAssumption
  <2>2. CASE i # Len(dr) + 1 /\ i # z
    <3>1. i \in 1 .. Len(dr) /\ more[i] = dr[i]
      <4>1. i \in 1 .. Len(dr)
        BY <1>7, <2>2
      <4> QED BY <1>1, <2>2, <4>1 DEF Adds
    <3>2. /\ Len(dr[i]) <= RAMFS_INODE_MAX_CHILDREN_COUNT
          /\ \A j \in 1 .. Len(dr[i]) : Known(dr[i][j].inode, dr)
          /\ \A j, h \in 1 .. Len(dr[i]) : dr[i][j].name = dr[i][h].name => j = h
      BY <3>1 DEF DirsInv
    <3>3. ASSUME NEW j \in 1 .. Len(dr[i]) PROVE Known(dr[i][j].inode, more)
      BY <1>7, <3>2, KnownMore, Zenon
    <3> QED BY <3>1, <3>2, <3>3
  <2>3. CASE i = z
    <3>1. /\ Len(dr[z]) <= RAMFS_INODE_MAX_CHILDREN_COUNT
          /\ \A j \in 1 .. Len(dr[z]) : Known(dr[z][j].inode, dr)
          /\ \A j, h \in 1 .. Len(dr[z]) : dr[z][j].name = dr[z][h].name => j = h
      BY <1>2 DEF DirsInv
    <3>2. /\ Len(more[z]) = Len(dr[z]) + 1 /\ more[z][Len(dr[z]) + 1] = entry
          /\ \A j \in 1 .. Len(dr[z]) : more[z][j] = dr[z][j]
      BY <1>1 DEF Adds
    <3>3. Len(more[z]) <= RAMFS_INODE_MAX_CHILDREN_COUNT
      <4>1. Len(dr[z]) # RAMFS_INODE_MAX_CHILDREN_COUNT
        BY DEF z
      <4> QED BY <1>2, <3>1, <3>2, <4>1, VfsAssumption
    <3>4. ASSUME NEW j \in 1 .. Len(dr[z]) PROVE Known(dr[z][j].inode, more)
      BY <1>7, <3>1, KnownMore, Zenon
    <3>5. \A j \in 1 .. Len(more[z]) : j \in 1 .. Len(dr[z]) \/ j = Len(dr[z]) + 1
      BY <1>2, <3>2
    <3>6. \A j \in 1 .. Len(more[z]) : Known(more[z][j].inode, more)
      BY <1>4, <1>5, <3>2, <3>4, <3>5
    <3>7. \A j, h \in 1 .. Len(more[z]) : more[z][j].name = more[z][h].name => j = h
      BY <1>3, <1>4, <3>1, <3>2, <3>5
    <3> QED BY <2>3, <3>3, <3>6, <3>7
  <2> QED BY <2>1, <2>2, <2>3
<1> QED BY <1>2, <1>6 DEF DirsInv

\* The types, the limits and the tree stay.
LEMMA CreatesShapedTree ==
    ASSUME NEW ds, NEW dr, NEW k, NEW more, NEW u, NEW d, NEW inode,
           Cached(ds, dr), Creates(ds, dr, k, more, u, d, inode)
    PROVE  Shaped(k, more) /\ Treelike(k)
<1>0. Shaped(ds, dr) /\ Treelike(ds) /\ Fills(ds, k, d, inode)
  BY DEF Cached, Creates
<1>1. /\ Len(ds) \in Nat /\ Len(ds) \in 1 .. DENTRY_COUNT /\ Len(k) = Len(ds) /\ k \in Seq(Dentries)
      /\ d \in 1 .. Len(ds) /\ d # 1
  BY <1>0 DEF Shaped, Fills, Creates
<1>2. /\ Len(ds[d].children) = 0
  BY CreatesBasics
<1>3. /\ \A e \in 1 .. Len(ds) : /\ k[e].name = ds[e].name /\ k[e].parent = ds[e].parent
                                 /\ k[e].children = ds[e].children
                                 /\ e # d => k[e].inode = ds[e].inode
      /\ k[d].inode = inode
  BY <1>0 DEF Fills
<1>4. /\ Len(dr) \in Nat /\ Len(more) \in Nat /\ Len(more) >= Len(dr)
      /\ Known(inode, more)
  <2>1. Len(dr) \in Nat /\ Len(more) = Len(dr) + 1
    BY DEF Creates, Adds
  <2>2. inode \in Inodes /\ inode.fs = "ramfs" /\ inode.id = Len(dr) + 1
    BY DEF Creates
  <2> QED BY <2>1, <2>2 DEF Known
<1>5. ASSUME NEW e \in 1 .. Len(ds)
      PROVE  /\ Known(k[e].inode, more) /\ k[e].parent \in 0 .. Len(ds)
             /\ Len(k[e].children) <= DENTRY_MAX_CHILREN_COUNT
             /\ \A i \in 1 .. Len(k[e].children) : k[e].children[i] \in 1 .. Len(ds)
  <2>1. /\ Known(ds[e].inode, dr) /\ ds[e].parent \in 0 .. Len(ds)
        /\ Len(ds[e].children) <= DENTRY_MAX_CHILREN_COUNT
        /\ \A i \in 1 .. Len(ds[e].children) : ds[e].children[i] \in 1 .. Len(ds)
    BY <1>0 DEF Shaped
  <2>2. Known(ds[e].inode, more)
    BY <1>4, <2>1, KnownMore, Zenon
  <2>3. Known(k[e].inode, more)
    BY <1>3, <1>4, <2>2
  <2> QED BY <1>3, <2>1, <2>3
<1>6. Shaped(k, more)
  BY <1>1, <1>5 DEF Shaped
<1>7. k[1].inode.fmt = "DIR"
  BY <1>0, <1>1, <1>3 DEF Treelike
<1>8. ASSUME NEW e \in 1 .. Len(ds), Len(k[e].children) # 0
      PROVE  k[e].inode.fmt = "DIR" /\ k[e].inode.fs # "none"
  <2>1. e # d /\ k[e].inode = ds[e].inode /\ Len(ds[e].children) # 0
    BY <1>2, <1>3, <1>8
  <2> QED BY <1>0, <2>1 DEF Treelike
<1>9. ASSUME NEW e \in 1 .. Len(ds), NEW i \in 1 .. Len(k[e].children)
      PROVE  /\ i \in 1 .. Len(ds[e].children) /\ k[e].children[i] = ds[e].children[i]
             /\ ds[e].children[i] \in 1 .. Len(ds)
  BY <1>0, <1>3, ShapedTypes
<1>10. ASSUME NEW e \in 1 .. Len(ds), NEW i \in 1 .. Len(k[e].children)
       PROVE  k[k[e].children[i]].parent = e
  <2>1. PICK c \in 1 .. Len(ds) : c = ds[e].children[i] /\ c = k[e].children[i]
    BY <1>9
  <2>2. ds[ds[e].children[i]].parent = e
    BY <1>0, <1>9 DEF Treelike
  <2> QED BY <1>3, <2>1, <2>2
<1>11. ASSUME NEW e \in 1 .. Len(ds), NEW i \in 1 .. Len(k[e].children),
              NEW j \in 1 .. Len(k[e].children), k[k[e].children[i]].name = k[k[e].children[j]].name
       PROVE  i = j
  <2>1. PICK c \in 1 .. Len(ds) : c = ds[e].children[i] /\ c = k[e].children[i]
    BY <1>9
  <2>2. PICK f \in 1 .. Len(ds) : f = ds[e].children[j] /\ f = k[e].children[j]
    BY <1>9
  <2>3. ds[ds[e].children[i]].name = ds[ds[e].children[j]].name
    BY <1>3, <1>11, <2>1, <2>2
  <2>4. i \in 1 .. Len(ds[e].children) /\ j \in 1 .. Len(ds[e].children)
    BY <1>9
  <2> QED BY <1>0, <2>3, <2>4, Zenon DEF Treelike
<1>12. Treelike(k)
  BY <1>1, <1>7, <1>8, <1>10, <1>11 DEF Treelike
<1> QED BY <1>6, <1>12

\* The new file has its dentry, and no negative dentry has its name.
LEMMA CreatesComplete ==
    ASSUME NEW ds, NEW dr, NEW k, NEW more, NEW u, NEW d, NEW inode,
           Cached(ds, dr), Creates(ds, dr, k, more, u, d, inode)
    PROVE  Complete(k, more)
<1> DEFINE z == ds[u].inode.id
           entry == [name |-> ds[d].name, inode |-> inode]
<1>0. /\ Shaped(ds, dr) /\ Treelike(ds) /\ Complete(ds, dr) /\ OneDentry(ds)
      /\ Fills(ds, k, d, inode) /\ Adds(dr, more, z, entry)
  BY DEF Cached, Creates, Complete
<1>1. /\ Len(ds) \in Nat /\ Len(k) = Len(ds) /\ d \in 1 .. Len(ds) /\ u \in 1 .. Len(ds) /\ u # d
      /\ ds[u].inode.fs = "ramfs" /\ inode.fs = "ramfs" /\ inode.id = Len(dr) + 1 /\ Len(dr) \in Nat
  BY <1>0, ShapedTypes DEF Creates, Fills, Adds
<1>2. Len(ds[d].children) = 0
  BY CreatesBasics
<1>3. /\ \A e \in 1 .. Len(ds) : /\ k[e].name = ds[e].name /\ k[e].children = ds[e].children
                                 /\ e # d => k[e].inode = ds[e].inode
      /\ k[d].inode = inode
  BY <1>0 DEF Fills
<1>4. entry.name = ds[d].name
  OBVIOUS
<1>5. /\ Len(dr[z]) \in Nat /\ Len(more[z]) = Len(dr[z]) + 1 /\ more[z][Len(dr[z]) + 1] = entry
      /\ \A j \in 1 .. Len(dr[z]) : more[z][j] = dr[z][j]
      /\ \A i \in 1 .. Len(dr) : i # z => more[i] = dr[i]
      /\ Len(more[Len(dr) + 1]) = 0
  BY <1>0 DEF Adds
<1> HIDE DEF z, entry
<1>6. ASSUME NEW e \in 1 .. Len(ds), e # d, k[e].inode.fs = "ramfs"
      PROVE  /\ ds[e].inode.fs = "ramfs" /\ ds[e].inode.id \in 1 .. Len(dr)
             /\ k[e].inode = ds[e].inode /\ HasAll(ds, dr, e) /\ NegativeRight(ds, dr, e)
  <2>1. k[e].inode = ds[e].inode
    BY <1>3, <1>6
  <2> QED BY <1>0, <1>6, <2>1 DEF Shaped, Known, Complete
<1>7. OneDentry(k)
  <2>1. SUFFICES ASSUME NEW e \in 1 .. Len(ds), NEW f \in 1 .. Len(ds),
                        k[e].inode.fs = "ramfs", k[f].inode.fs = "ramfs",
                        k[e].inode.id = k[f].inode.id
                 PROVE  e = f
    BY <1>1 DEF OneDentry
  <2>2. ASSUME NEW x \in 1 .. Len(ds), x # d, k[x].inode.fs = "ramfs"
        PROVE  k[x].inode.id # k[d].inode.id
    <3>1. k[d].inode.id = Len(dr) + 1 /\ k[x].inode.id \in 1 .. Len(dr)
      BY <1>1, <1>3, <1>6, <2>2
    <3> QED BY <1>1, <3>1
  <2>3. CASE e # d /\ f # d
    <3>1. k[e].inode = ds[e].inode /\ k[f].inode = ds[f].inode
      BY <1>3, <2>3
    <3> QED BY <1>0, <2>1, <3>1, Zenon DEF OneDentry
  <2> QED BY <2>1, <2>2, <2>3
<1>8. ASSUME NEW e \in 1 .. Len(ds), e # d, e # u, k[e].inode.fs = "ramfs"
      PROVE  more[ds[e].inode.id] = dr[ds[e].inode.id]
  <2>1. ds[e].inode.id # z
    BY <1>0, <1>1, <1>6, <1>8, Zenon DEF OneDentry, z
  <2> QED BY <1>5, <1>6, <1>8, <2>1
<1>9. ASSUME NEW e \in 1 .. Len(ds), NEW i \in 1 .. Len(ds[e].children)
      PROVE  ds[e].children[i] \in 1 .. Len(ds)
  BY <1>0, ShapedTypes
<1>10. k[d].inode # NoInode
  BY <1>1, <1>3 DEF NoInode
<1>11. ASSUME NEW e \in 1 .. Len(ds), e # d, k[e].inode.fs = "ramfs",
              NEW j \in 1 .. Len(dr[ds[e].inode.id])
       PROVE  \E i \in 1 .. Len(ds[e].children) :
                 k[ds[e].children[i]].name = dr[ds[e].inode.id][j].name
  <2>1. PICK i \in 1 .. Len(ds[e].children) :
                ds[ds[e].children[i]].name = dr[ds[e].inode.id][j].name
    BY <1>6, <1>11 DEF HasAll
  <2> QED BY <1>3, <1>9, <2>1
<1>12. ASSUME NEW e \in 1 .. Len(ds), e # d, k[e].inode.fs = "ramfs",
              NEW i \in 1 .. Len(ds[e].children), k[ds[e].children[i]].inode = NoInode,
              NEW j \in 1 .. Len(dr[ds[e].inode.id])
       PROVE  dr[ds[e].inode.id][j].name # k[ds[e].children[i]].name
  <2>1. PICK c \in 1 .. Len(ds) : c = ds[e].children[i]
    BY <1>9
  <2>2. ds[ds[e].children[i]].inode = NoInode /\ k[c].name = ds[c].name
    BY <1>3, <1>10, <1>12, <2>1
  <2>3. dr[ds[e].inode.id][j].name # ds[ds[e].children[i]].name
    BY <1>6, <1>12, <2>2 DEF NegativeRight
  <2> QED BY <2>1, <2>2, <2>3
<1>13. ASSUME NEW e \in 1 .. Len(ds), k[e].inode.fs = "ramfs"
       PROVE  HasAll(k, more, e) /\ NegativeRight(k, more, e)
  <2>1. k[e].children = ds[e].children
    BY <1>3
  <2>2. CASE e = d
    <3>1. Len(more[k[e].inode.id]) = 0 /\ Len(k[e].children) = 0 /\ 0 \in Nat
      BY <1>1, <1>2, <1>3, <1>5, <2>2
    <3> QED BY <3>1 DEF HasAll, NegativeRight
  <2>3. CASE e # d /\ e # u
    <3>1. k[e].inode = ds[e].inode /\ more[ds[e].inode.id] = dr[ds[e].inode.id]
      BY <1>6, <1>8, <1>13, <2>3
    <3> QED BY <1>11, <1>12, <1>13, <2>1, <2>3, <3>1 DEF HasAll, NegativeRight
  <2>4. CASE e = u
    <3>0. e # d /\ k[e].inode = ds[e].inode /\ k[e].inode.id = z /\ ds[e].inode.id = z
      BY <1>1, <1>6, <1>13, <2>4 DEF z
    <3>1. \A j \in 1 .. Len(more[z]) : j \in 1 .. Len(dr[z]) \/ j = Len(dr[z]) + 1
      BY <1>5
    <3>2. PICK x \in 1 .. Len(ds[e].children) : ds[e].children[x] = d
      BY <2>4 DEF Creates
    <3>3. ASSUME NEW j \in 1 .. Len(more[z])
          PROVE  \E i \in 1 .. Len(ds[e].children) : k[ds[e].children[i]].name = more[z][j].name
      <4>1. CASE j \in 1 .. Len(dr[z])
        <5>1. \E i \in 1 .. Len(ds[e].children) : k[ds[e].children[i]].name = dr[z][j].name
          BY <1>11, <1>13, <3>0, <4>1
        <5> QED BY <1>5, <4>1, <5>1
      <4>2. CASE j = Len(dr[z]) + 1
        <5>1. k[ds[e].children[x]].name = more[z][j].name
          BY <1>1, <1>3, <1>4, <1>5, <3>2, <4>2
        <5> QED BY <5>1
      <4> QED BY <3>1, <4>1, <4>2
    <3>4. ASSUME NEW i \in 1 .. Len(ds[e].children), k[ds[e].children[i]].inode = NoInode,
                 NEW j \in 1 .. Len(more[z])
          PROVE  more[z][j].name # k[ds[e].children[i]].name
      <4>1. CASE j \in 1 .. Len(dr[z])
        <5>1. dr[z][j].name # k[ds[e].children[i]].name
          BY <1>12, <1>13, <3>0, <3>4, <4>1
        <5> QED BY <1>5, <4>1, <5>1
      <4>2. CASE j = Len(dr[z]) + 1
        <5>1. i # x
          BY <1>10, <3>2, <3>4
        <5>2. ds[ds[e].children[i]].name # ds[ds[e].children[x]].name
          BY <1>0, <5>1, Zenon DEF Treelike
        <5>3. k[ds[e].children[i]].name = ds[ds[e].children[i]].name
          BY <1>3, <1>9
        <5> QED BY <1>4, <1>5, <3>2, <4>2, <5>2, <5>3
      <4> QED BY <3>1, <4>1, <4>2
    <3> QED BY <2>1, <3>0, <3>3, <3>4 DEF HasAll, NegativeRight
  <2> QED BY <2>2, <2>3, <2>4
<1> QED BY <1>1, <1>7, <1>13 DEF Complete

\* The paths of the dentries stay.
LEMMA FillsLocated ==
    ASSUME NEW ds, NEW k, NEW D, NEW d, NEW inode, Located(ds, D), Fills(ds, k, d, inode),
           NEW dr, Shaped(ds, dr)
    PROVE  Located(k, D)
<1>1. /\ Len(k) = Len(ds)
      /\ \A e \in 1 .. Len(ds) : k[e].name = ds[e].name /\ k[e].children = ds[e].children
  BY DEF Fills
<1>2. /\ DOMAIN D \subseteq Seq(Segments) /\ <<>> \in DOMAIN D /\ D[<<>>] = 1
      /\ \A p \in DOMAIN D : D[p] \in 1 .. Len(ds)
      /\ \A p, q \in DOMAIN D : D[p] = D[q] => p = q
  BY DEF Located
<1>3. ASSUME NEW p \in DOMAIN D, p # <<>>
      PROVE  /\ Up(p) \in DOMAIN D /\ k[D[p]].name = p[Len(p)]
             /\ \E i \in 1 .. Len(k[D[Up(p)]].children) : k[D[Up(p)]].children[i] = D[p]
  <2>1. /\ Up(p) \in DOMAIN D /\ ds[D[p]].name = p[Len(p)]
        /\ \E i \in 1 .. Len(ds[D[Up(p)]].children) : ds[D[Up(p)]].children[i] = D[p]
    BY <1>3 DEF Located
  <2>2. k[D[p]].name = ds[D[p]].name /\ k[D[Up(p)]].children = ds[D[Up(p)]].children
    BY <1>1, <1>2, <2>1
  <2> QED BY <2>1, <2>2
<1>4. ASSUME NEW p \in DOMAIN D, NEW i \in 1 .. Len(k[D[p]].children)
      PROVE  /\ Append(p, k[k[D[p]].children[i]].name) \in DOMAIN D
             /\ D[Append(p, k[k[D[p]].children[i]].name)] = k[D[p]].children[i]
  <2>1. k[D[p]].children = ds[D[p]].children /\ i \in 1 .. Len(ds[D[p]].children)
    BY <1>1, <1>2
  <2>2. PICK c \in 1 .. Len(ds) : c = ds[D[p]].children[i]
    BY <1>2, <2>1, ShapedTypes
  <2>3. Append(p, ds[c].name) \in DOMAIN D /\ D[Append(p, ds[c].name)] = c
    BY <2>1, <2>2 DEF Located
  <2>4. k[c].name = ds[c].name
    BY <1>1
  <2> QED BY <2>1, <2>2, <2>3, <2>4
<1> QED BY <1>1, <1>2, <1>3, <1>4 DEF Located

\* A directory with one file more finds it, and nothing else is different.
LEMMA LookupAdded ==
    ASSUME NEW c, NEW b, NEW entry, NEW n \in Nat, DOMAIN c = 1 .. n, DOMAIN b = 1 .. n + 1,
           b[n + 1] = entry, \A j \in 1 .. n : b[j] = c[j]
    PROVE  /\ (\A j \in 1 .. n : c[j].name # entry.name) => RamfsLookup(b, entry.name) = entry.inode
           /\ \A name : name # entry.name => RamfsLookup(b, name) = RamfsLookup(c, name)
<1>1. ASSUME \A j \in 1 .. n : c[j].name # entry.name PROVE RamfsLookup(b, entry.name) = entry.inode
  <2>1. {i \in DOMAIN b : b[i].name = entry.name} = {n + 1}
    BY <1>1
  <2>2. First({n + 1}) = n + 1
    BY FirstIsOne
  <2>3. RamfsLookup(b, entry.name) = b[n + 1].inode
    BY <2>1, <2>2 DEF RamfsLookup
  <2> QED BY <2>3
<1>2. ASSUME NEW name, name # entry.name PROVE RamfsLookup(b, name) = RamfsLookup(c, name)
  <2>1. {i \in DOMAIN b : b[i].name = name} = {i \in DOMAIN c : c[i].name = name}
    BY <1>2
  <2>2. PICK hits : /\ hits = {i \in DOMAIN c : c[i].name = name}
                    /\ hits = {i \in DOMAIN b : b[i].name = name}
    BY <2>1
  <2>3. hits \in SUBSET Nat /\ hits \subseteq 1 .. n
    BY <2>2
  <2>4. hits # {} => First(hits) \in 1 .. n
    BY <2>3, FirstIsOne
  <2>5. RamfsLookup(b, name) = IF hits = {} THEN NoInode ELSE b[First(hits)].inode
    BY <2>2, Zenon DEF RamfsLookup
  <2>6. RamfsLookup(c, name) = IF hits = {} THEN NoInode ELSE c[First(hits)].inode
    BY <2>2, Zenon DEF RamfsLookup
  <2> QED BY <2>4, <2>5, <2>6
<1> QED BY <1>1, <1>2

\* The dentry of the new file holds it, and the others what they held.
LEMMA CreatesCoherent ==
    ASSUME NEW ds, NEW dr, NEW mt, NEW k, NEW more, NEW u, NEW d, NEW inode, NEW D, NEW p,
           Good(ds, dr, mt, D), DirsInv(dr), Creates(ds, dr, k, more, u, d, inode),
           p \in DOMAIN D, p # <<>>, D[p] = d, D[Up(p)] = u
    PROVE  Coherent(k, more, mt, D)
<1> DEFINE z == ds[u].inode.id
           entry == [name |-> ds[d].name, inode |-> inode]
<1>0. /\ Cached(ds, dr) /\ Shaped(ds, dr) /\ Treelike(ds) /\ Complete(ds, dr) /\ OneDentry(ds)
      /\ Located(ds, D) /\ Coherent(ds, dr, mt, D) /\ Fills(ds, k, d, inode)
      /\ Adds(dr, more, z, entry)
  BY DEF Good, Cached, Creates, Complete
<1>1. /\ d \in 1 .. Len(ds) /\ u \in 1 .. Len(ds) /\ u # d /\ ds[d].inode = NoInode
      /\ ds[u].inode.fs = "ramfs" /\ inode.fs = "ramfs"
  BY DEF Creates
<1>2. /\ Len(ds[d].children) = 0 /\ z \in 1 .. Len(dr)
      /\ \A j \in 1 .. Len(dr[z]) : dr[z][j].name # ds[d].name
  BY <1>0, CreatesBasics
<1>3. /\ \A e \in 1 .. Len(ds) : e # d => k[e].inode = ds[e].inode
      /\ k[d].inode = inode
  BY <1>0 DEF Fills
<1>4. entry.name = ds[d].name /\ entry.inode = inode
  OBVIOUS
<1>5. \A q \in DOMAIN D : D[q] \in 1 .. Len(ds) /\ (D[q] = d => q = p) /\ (D[q] = u => q = Up(p))
  <2>1. Up(p) \in DOMAIN D
    BY <1>0 DEF Located
  <2> QED BY <1>0, <2>1 DEF Located
<1>6. /\ RamfsLookup(more[z], ds[d].name) = inode
      /\ \A name : name # ds[d].name => RamfsLookup(more[z], name) = RamfsLookup(dr[z], name)
  <2>1. /\ Len(dr[z]) \in Nat /\ Len(more[z]) = Len(dr[z]) + 1 /\ more[z][Len(dr[z]) + 1] = entry
        /\ \A j \in 1 .. Len(dr[z]) : more[z][j] = dr[z][j]
    BY <1>0 DEF Adds
  <2>2. DOMAIN dr[z] = 1 .. Len(dr[z])
    <3>1. dr[z] \in Seq(Entries)
      BY <1>2 DEF DirsInv
    <3> QED BY <3>1
  <2>3. DOMAIN more[z] = 1 .. Len(dr[z]) + 1
    <3>1. more[z] \in Seq(Entries)
      <4>1. z \in 1 .. Len(more) /\ more \in Seq(Seq(Entries))
        BY <1>0 DEF Adds
      <4> QED BY <4>1
    <3> QED BY <2>1, <3>1
  <2> HIDE DEF z, entry
  <2>4. PICK n \in Nat : n = Len(dr[z])
    BY <2>1
  <2>5. PICK c, b : c = dr[z] /\ b = more[z]
    OBVIOUS
  <2>6. /\ DOMAIN c = 1 .. n /\ DOMAIN b = 1 .. n + 1 /\ b[n + 1] = entry
        /\ \A j \in 1 .. n : b[j] = c[j]
    BY <2>1, <2>2, <2>3, <2>4, <2>5
  <2>7. \A j \in 1 .. n : c[j].name # entry.name
    BY <1>2, <1>4, <2>4, <2>5
  <2>8. /\ RamfsLookup(b, entry.name) = entry.inode
        /\ \A name : name # entry.name => RamfsLookup(b, name) = RamfsLookup(c, name)
    BY <2>6, <2>7, LookupAdded
  <2> QED BY <1>4, <2>5, <2>8
<1>7. \A i \in 1 .. Len(dr) : i # z => more[i] = dr[i]
  BY <1>0 DEF Adds
<1> HIDE DEF z, entry
<1>8. p \notin DOMAIN mt
  BY <1>0, <1>1 DEF Coherent, NoInode
<1>9. ASSUME NEW q \in DOMAIN mt
      PROVE  q \in DOMAIN D /\ mt[q].fmt = "DIR" /\ k[D[q]].inode = mt[q]
  <2>1. q \in DOMAIN D /\ mt[q].fmt = "DIR" /\ ds[D[q]].inode = mt[q]
    BY <1>0 DEF Coherent
  <2>2. D[q] # d
    BY <1>5, <1>8, <2>1
  <2> QED BY <1>3, <1>5, <2>1, <2>2
<1>10. ASSUME NEW q \in DOMAIN D \ DOMAIN mt
       PROVE  k[D[q]].inode = IF q = <<>> THEN InitRoot
                              ELSE LookupIn(more, k[D[Up(q)]].inode, q[Len(q)])
  <2>1. ds[D[q]].inode = IF q = <<>> THEN InitRoot
                         ELSE LookupIn(dr, ds[D[Up(q)]].inode, q[Len(q)])
    BY <1>0 DEF Coherent
  <2>2. k[u].inode = ds[u].inode
    BY <1>1, <1>3
  <2>3. CASE q = p
    <3>1. q[Len(q)] = ds[d].name
      BY <1>0, <2>3 DEF Located
    <3>2. LookupIn(more, ds[u].inode, ds[d].name) = RamfsLookup(more[z], ds[d].name)
      BY <1>1 DEF LookupIn, z
    <3> QED BY <1>3, <1>6, <2>2, <2>3, <3>1, <3>2
  <2>4. CASE q = <<>>
    <3>1. D[q] # d
      BY <1>5, <2>4
    <3> QED BY <1>3, <1>5, <2>1, <2>4, <3>1
  <2>5. CASE q # p /\ q # <<>>
    <3>1. D[q] # d /\ k[D[q]].inode = ds[D[q]].inode
      BY <1>3, <1>5, <2>5
    <3>2. /\ Up(q) \in DOMAIN D
          /\ \E i \in 1 .. Len(ds[D[Up(q)]].children) : ds[D[Up(q)]].children[i] = D[q]
      BY <1>0, <2>5 DEF Located
    <3>3. PICK v \in 1 .. Len(ds) : v = D[Up(q)]
      BY <1>5, <3>2
    <3>4. Len(ds[v].children) # 0
      BY <3>2, <3>3
    <3>5. v # d /\ k[v].inode = ds[v].inode
      BY <1>2, <1>3, <3>4
    <3>6. ds[v].inode.fs # "none" /\ Known(ds[v].inode, dr)
      BY <1>0, <3>4 DEF Treelike, Shaped
    <3>7. CASE v # u
      <4>1. ds[v].inode.fs = "ramfs" => ds[v].inode.id \in 1 .. Len(dr) /\ ds[v].inode.id # z
        <5>1. ds[v].inode.fs = "ramfs" => ds[v].inode.id # z
          BY <1>0, <1>1, <3>7, Zenon DEF OneDentry, z
        <5> QED BY <3>6, <5>1 DEF Known
      <4>2. PICK x \in Inodes : x = ds[v].inode
        BY <3>6 DEF Known
      <4>3. \A name : LookupIn(more, x, name) = LookupIn(dr, x, name)
        BY <1>7, <3>6, <4>1, <4>2, LookupMore
      <4> QED BY <2>1, <2>5, <3>1, <3>3, <3>5, <4>2, <4>3
    <3>8. CASE v = u
      <4>1. Up(q) = Up(p)
        BY <1>5, <3>2, <3>3, <3>8
      <4>2. q[Len(q)] # p[Len(p)]
        <5>1. p \in Seq(Segments) /\ q \in Seq(Segments)
          BY <1>0 DEF Located
        <5> QED BY <2>5, <4>1, <5>1, PathUp
      <4>3. p[Len(p)] = ds[d].name
        BY <1>0 DEF Located
      <4>4. RamfsLookup(more[z], q[Len(q)]) = RamfsLookup(dr[z], q[Len(q)])
        BY <1>6, <4>2, <4>3
      <4>5. LookupIn(more, ds[u].inode, q[Len(q)]) = LookupIn(dr, ds[u].inode, q[Len(q)])
        BY <1>1, <4>4 DEF LookupIn, z
      <4> QED BY <2>1, <2>5, <3>1, <3>3, <3>5, <3>8, <4>5
    <3> QED BY <3>7, <3>8
  <2> QED BY <2>3, <2>4, <2>5
<1> QED BY <1>9, <1>10 DEF Coherent

\* h gives 1 .. n different numbers of 1 .. m, and none gets x.
Misses(h, n, m, x) ==
    /\ n \in Nat /\ m \in Nat /\ x \in 1 .. m
    /\ \A j \in 1 .. n : h[j] \in 1 .. m /\ h[j] # x
    /\ \A i, j \in 1 .. n : h[i] = h[j] => i = j

\* The pigeonhole principle.
LEMMA Pigeons ==
    ASSUME NEW n, NEW m, NEW h, NEW x, Misses(h, n, m, x) PROVE n < m
<1> USE DEF Misses
<1> SUFFICES ASSUME ~ (n < m) PROVE FALSE
  OBVIOUS
<1> DEFINE g == [j \in 1 .. n + 1 |-> IF j = n + 1 THEN x ELSE h[j]]
<1>1. g \in [1 .. n + 1 -> 1 .. m] /\ \A i, j \in 1 .. n + 1 : g[i] = g[j] => i = j
  OBVIOUS
<1> HIDE DEF g
<1>2. IsFiniteSet(1 .. m) /\ Cardinality(1 .. m) = m
  BY FS_Interval
<1>3. IsFiniteSet(1 .. n + 1) /\ Cardinality(1 .. n + 1) = n + 1
  <2>1. PICK a \in Int, b \in Int : a = 1 /\ b = n + 1
    OBVIOUS
  <2>2. IsFiniteSet(a .. b) /\ Cardinality(a .. b) = IF a > b THEN 0 ELSE b - a + 1
    BY FS_Interval
  <2> QED BY <2>1, <2>2
<1>4. Cardinality(1 .. m) < Cardinality(1 .. n + 1)
  BY <1>2, <1>3
<1>5. \E i, j \in 1 .. n + 1 : i # j /\ g[i] = g[j]
  BY <1>1, <1>2, <1>3, <1>4, FS_PigeonHole
<1> QED BY <1>1, <1>5

\* A directory with a negative dentry below it holds fewer files than a dentry
\* has room for.
LEMMA RoomForOne ==
    ASSUME NEW ds, NEW dr, NEW u, NEW d, Cached(ds, dr), DirsInv(dr),
           u \in 1 .. Len(ds), ds[d].inode = NoInode, ds[u].inode.fs = "ramfs",
           \E i \in 1 .. Len(ds[u].children) : ds[u].children[i] = d
    PROVE  Len(dr[ds[u].inode.id]) < DENTRY_MAX_CHILREN_COUNT
<1> DEFINE z == ds[u].inode.id
           c == ds[u].children
           h == [j \in 1 .. Len(dr[z]) |-> CHOOSE i \in 1 .. Len(c) : ds[c[i]].name = dr[z][j].name]
<1>1. Shaped(ds, dr) /\ HasAll(ds, dr, u) /\ NegativeRight(ds, dr, u)
  BY DEF Cached, Complete
<1>2. z \in 1 .. Len(dr) /\ Len(c) \in Nat /\ Len(c) <= DENTRY_MAX_CHILREN_COUNT
  BY <1>1, ShapedTypes DEF Shaped, Known
<1>3. dr[z] \in Seq(Entries)
  BY <1>2 DEF DirsInv
<1>4. PICK n \in Nat : n = Len(dr[z])
  BY <1>3
<1>5. PICK x \in 1 .. Len(c) : c[x] = d
  OBVIOUS
<1>6. \A j \in 1 .. n : \E i \in 1 .. Len(c) : ds[c[i]].name = dr[z][j].name
  BY <1>1, <1>4 DEF HasAll
<1>7. \A j \in 1 .. n : h[j] \in 1 .. Len(c) /\ ds[c[h[j]]].name = dr[z][j].name
  BY <1>4, <1>6
<1>8. \A j \in 1 .. n : dr[z][j].name # ds[c[x]].name
  BY <1>1, <1>4, <1>5 DEF NegativeRight
<1>9. \A i, j \in 1 .. n : dr[z][i].name = dr[z][j].name => i = j
  BY <1>2, <1>4 DEF DirsInv
<1> HIDE DEF h, z, c
<1>10. \A j \in 1 .. n : h[j] \in 1 .. Len(c) /\ h[j] # x
  BY <1>7, <1>8
<1>11. ASSUME NEW i \in 1 .. n, NEW j \in 1 .. n, h[i] = h[j] PROVE i = j
  <2>1. dr[z][i].name = dr[z][j].name
    BY <1>7, <1>11, Zenon
  <2> QED BY <1>9, <2>1, Zenon
<1>12. PICK m \in Nat : m = Len(c)
  BY <1>2
<1>13. n < m
  <2>1. PICK f : f = h
    OBVIOUS
  <2>2. /\ \A j \in 1 .. n : f[j] \in 1 .. m /\ f[j] # x
        /\ \A i, j \in 1 .. n : f[i] = f[j] => i = j
    BY <1>10, <1>11, <1>12, <2>1, Zenon
  <2>3. x \in 1 .. m
    BY <1>12
  <2>4. Misses(f, n, m, x)
    BY <1>4, <1>12, <2>2, <2>3 DEF Misses
  <2> QED BY <2>4, Pigeons, Zenon
<1>14. n < DENTRY_MAX_CHILREN_COUNT
  BY <1>2, <1>12, <1>13, VfsAssumption
<1> QED BY <1>4, <1>14 DEF z

-----------------------------------------------------------------------------
(* The steps                                                               *)

\* The part of the invariant that is not about the reason of a stop.
StateGood == ino_gen = Len(dirs) /\ DirsInv(dirs) /\ \E D : Good(dentries, dirs, mounts, D)

\* The step adds a file to one directory.
NewFile ==
    /\ UNCHANGED mounts
    /\ \E z, entry :
          /\ Adds(dirs, dirs', z, entry)
          /\ \A j \in 1 .. Len(dirs[z]) : dirs[z][j].name # entry.name
          /\ entry.inode.fs = "ramfs" /\ entry.inode.id = ino_gen + 1

\* What a step does to the directories.
FilesKept == panic # "none" \/ panic' # "none" \/ DirsMore(dirs, dirs') \/ NewFile

\* A call that only looks up.
LEMMA KeepsCache ==
    ASSUME NEW ds, NEW D, StateGood, Good(ds, dirs, mounts, D), OnlyCached(ds)
    PROVE  StateGood' /\ panic' = panic /\ DirsMore(dirs, dirs')
<1>1. dirs' = dirs /\ DirsInv(dirs)
  BY DEF StateGood, OnlyCached
<1>2. Len(dirs) \in Nat
  BY <1>1 DEF DirsInv
<1> QED BY <1>1, <1>2 DEF StateGood, OnlyCached, DirsMore

\* _vfs_mount_dev.
LEMMA MountGood ==
    ASSUME NEW ds, NEW D, NEW d, NEW path, NEW fstype \in {"ramfs", "fat32"},
           StateGood, Good(ds, dirs, mounts, D), Canonical(path) \in DOMAIN D,
           D[Canonical(path)] = d, MountDev(ds, d, path, fstype)
    PROVE  StateGood' /\ panic' = panic /\ DirsMore(dirs, dirs')
<1> DEFINE root == RootInode(fstype)
           at == Canonical(path)
<1>1. CASE OnlyCached(ds)
  BY <1>1, KeepsCache
<1>2. CASE /\ ino_gen' = (IF fstype = "ramfs" THEN ino_gen + 1 ELSE ino_gen)
           /\ dirs' = (IF fstype = "ramfs" THEN Append(dirs, <<>>) ELSE dirs)
           /\ dentries' = [ds EXCEPT ![d] = Covered(@, root)]
           /\ mounts' = Remounted(mounts, at, root)
           /\ UNCHANGED panic
  <2>0. dirs \in Seq(Seq(Entries)) /\ ino_gen = Len(dirs) /\ DirsInv(dirs) /\ Len(dirs) \in Nat
    BY DEF StateGood, DirsInv
  <2>1. ino_gen' = Len(dirs') /\ DirsMore(dirs, dirs') /\ FreshRoot(root, dirs, dirs')
    <3>1. CASE fstype = "ramfs"
      <4>1. PICK s \in Seq(Entries) : s = <<>>
        <5>1. <<>> \in Seq(Entries)
          OBVIOUS
        <5> QED BY <5>1, Zenon
      <4>2. dirs' = Append(dirs, s)
        BY <1>2, <3>1, <4>1
      <4>3. /\ dirs' \in Seq(Seq(Entries)) /\ Len(dirs') = Len(dirs) + 1
            /\ dirs'[Len(dirs) + 1] = <<>> /\ \A i \in 1 .. Len(dirs) : dirs'[i] = dirs[i]
        BY <2>0, <4>1, <4>2
      <4>4. Len(dirs) \in Nat /\ Len(dirs') \in Nat /\ Len(dirs') >= Len(dirs)
        BY <2>0, <4>3
      <4>5. ASSUME NEW i \in 1 .. Len(dirs')
            PROVE  /\ Len(dirs'[i]) <= RAMFS_INODE_MAX_CHILDREN_COUNT
                   /\ \A j \in 1 .. Len(dirs'[i]) : Known(dirs'[i][j].inode, dirs')
                   /\ \A j, h \in 1 .. Len(dirs'[i]) : dirs'[i][j].name = dirs'[i][h].name => j = h
        <5>1. CASE i = Len(dirs) + 1
          <6>1. Len(dirs'[i]) = 0
            BY <4>3, <5>1
          <6> QED BY <6>1, VfsAssumption
        <5>2. CASE i # Len(dirs) + 1
          <6>1. i \in 1 .. Len(dirs) /\ dirs'[i] = dirs[i]
            BY <2>0, <4>3, <4>4, <5>2
          <6>2. /\ Len(dirs[i]) <= RAMFS_INODE_MAX_CHILDREN_COUNT
                /\ \A j \in 1 .. Len(dirs[i]) : Known(dirs[i][j].inode, dirs)
                /\ \A j, h \in 1 .. Len(dirs[i]) : dirs[i][j].name = dirs[i][h].name => j = h
            BY <2>0, <6>1 DEF DirsInv
          <6>3. ASSUME NEW j \in 1 .. Len(dirs[i]) PROVE Known(dirs[i][j].inode, dirs')
            BY <4>4, <6>2, KnownMore, Zenon
          <6> QED BY <6>1, <6>2, <6>3
        <5> QED BY <5>1, <5>2
      <4>6. DirsInv(dirs')
        BY <4>3, <4>5 DEF DirsInv
      <4>7. /\ root.fs = "ramfs" /\ root.fmt = "DIR" /\ root.id = Len(dirs) + 1 /\ root \in Inodes
        BY <2>0, <3>1 DEF RootInode, Ram, Inodes, Formats
      <4> HIDE DEF root
      <4>8. FreshRoot(root, dirs, dirs')
        BY <2>0, <4>3, <4>7 DEF FreshRoot, Known
      <4> QED BY <1>2, <2>0, <3>1, <4>3, <4>4, <4>6, <4>8 DEF DirsMore
    <3>2. CASE fstype = "fat32"
      <4>1. /\ root.fs = "fat32" /\ root.fmt = "DIR" /\ root.id \in DOMAIN FatFormat /\ root \in Inodes
        BY <3>2, VfsAssumption DEF RootInode, Fat, Inodes, Formats, FatRoot
      <4>2. dirs' = dirs /\ ino_gen' = ino_gen
        BY <1>2, <3>2
      <4> QED BY <2>0, <4>1, <4>2 DEF DirsMore, FreshRoot, Known
    <3> QED BY <3>1, <3>2
  <2> HIDE DEF root, at
  <2>2. PICK t : t = d /\ t \in 1 .. Len(ds) /\ at \in DOMAIN D /\ D[at] = t
    BY GoodAt DEF at
  <2>3. Cached(ds, dirs) /\ Shaped(ds, dirs) /\ Located(ds, D)
    BY DEF Good, Cached
  <2>4. Covers(ds, dentries', D[at], root)
    <3>1. ds \in Seq(Dentries)
      BY <2>3 DEF Shaped
    <3>2. root \in Inodes
      BY <2>1 DEF FreshRoot, Known
    <3> QED BY <1>2, <2>2, <3>1, <3>2, CoveredCovers
  <2>5. Cached(dentries', dirs')
    BY <2>1, <2>3, <2>4, CoversCached
  <2>6. Located(dentries', Cut(D, at))
    BY <2>2, <2>3, <2>4, CoversLocated
  <2>7. Coherent(dentries', dirs', mounts', Cut(D, at))
    BY <1>2, <2>1, <2>2, <2>4, CoversCoherent
  <2>8. Good(dentries', dirs', mounts', Cut(D, at))
    BY <2>5, <2>6, <2>7 DEF Good
  <2>9. DirsInv(dirs')
    BY <2>1 DEF DirsMore
  <2> QED BY <1>2, <2>1, <2>8, <2>9 DEF StateGood
<1> QED BY <1>1, <1>2, Zenon DEF MountDev, Remounted

\* A file is created, or the directory is full, which takes a dentry that has
\* room for more children than a ramfs directory has.
LEMMA CreateGood ==
    ASSUME NEW ds, NEW D, NEW p, NEW d, NEW fmt \in Formats,
           StateGood, Good(ds, dirs, mounts, D), p \in DOMAIN D, D[p] = d,
           ds[d].inode = NoInode, ds[ds[d].parent].inode.fs # "fat32", Create(ds, d, fmt)
    PROVE  \/ StateGood' /\ panic' = panic /\ NewFile
           \/ /\ panic' = "assert_child_count" /\ UNCHANGED <<dentries, dirs, ino_gen, mounts>>
              /\ RAMFS_INODE_MAX_CHILDREN_COUNT < DENTRY_MAX_CHILREN_COUNT
<1> DEFINE u == D[Up(p)]
           z == ds[u].inode.id
           inode == Ram(fmt, ino_gen + 1)
           entry == [name |-> ds[d].name, inode |-> inode]
           more == Append([dirs EXCEPT ![z] = AddInodeChild(dirs[z], entry)], <<>>)
           k == Filled(ds, d, inode)
<1>0. /\ Cached(ds, dirs) /\ Shaped(ds, dirs) /\ Treelike(ds) /\ Located(ds, D)
      /\ DirsInv(dirs) /\ ino_gen = Len(dirs) /\ dirs \in Seq(Seq(Entries))
  BY DEF Good, Cached, StateGood, DirsInv
<1>1. p # <<>>
  BY <1>0 DEF Located, Treelike, NoInode
<1>2. /\ Up(p) \in DOMAIN D /\ u \in 1 .. Len(ds) /\ d \in 1 .. Len(ds) /\ u # d /\ d # 1
      /\ \E i \in 1 .. Len(ds[u].children) : ds[u].children[i] = d
  <2>1. /\ Up(p) \in DOMAIN D /\ u \in 1 .. Len(ds) /\ d \in 1 .. Len(ds)
        /\ \E i \in 1 .. Len(ds[u].children) : ds[u].children[i] = d
    BY <1>0, <1>1 DEF Located
  <2>2. d # 1
    BY <1>0 DEF Treelike, NoInode
  <2>3. ds[d].inode.fmt # "DIR"
    BY DEF NoInode
  <2>4. Len(ds[u].children) # 0
    BY <2>1
  <2>5. ds[u].inode.fmt = "DIR"
    BY <1>0, <2>1, <2>4 DEF Treelike
  <2> QED BY <2>1, <2>2, <2>3, <2>5
<1>3. ds[d].parent = u /\ ds[u].inode.fs = "ramfs"
  <2>1. PICK v \in 1 .. Len(ds) : v = u
    BY <1>2
  <2>2. ds[d].parent = v
    BY <1>0, <1>2, <2>1 DEF Treelike
  <2>3. Len(ds[v].children) # 0
    BY <1>2, <2>1
  <2>4. ds[v].inode.fs # "none" /\ ds[v].inode \in Inodes
    BY <1>0, <2>3, ShapedTypes DEF Treelike
  <2>5. ds[v].inode.fs \in {"none", "ramfs", "fat32"}
    BY <2>4 DEF Inodes
  <2> QED BY <2>1, <2>2, <2>4, <2>5
<1>4. inode \in Inodes /\ inode.fs = "ramfs" /\ inode.id = Len(dirs) + 1
  BY <1>0 DEF Inodes, Ram
<1>5. ds[d].name \in Segments /\ z \in 1 .. Len(dirs) /\ ds \in Seq(Dentries)
  BY <1>0, <1>2, <1>3, ShapedTypes DEF Shaped, Known
<1>6. entry \in Entries
  BY <1>4, <1>5 DEF Entries
<1>7. Fills(ds, k, d, inode)
  BY <1>2, <1>4, <1>5, FilledFills
<1>8. Adds(dirs, more, z, entry)
  BY <1>0, <1>5, <1>6, AddedAdds
<1>9. Creates(ds, dirs, k, more, u, d, inode)
  BY <1>2, <1>3, <1>4, <1>7, <1>8 DEF Creates
<1>10. \/ Len(dirs[z]) = RAMFS_INODE_MAX_CHILDREN_COUNT /\ Stop("assert_child_count")
       \/ /\ Len(dirs[z]) # RAMFS_INODE_MAX_CHILDREN_COUNT
          /\ ino_gen' = ino_gen + 1 /\ dirs' = more /\ dentries' = k
          /\ UNCHANGED <<panic, mounts>>
  BY <1>3, Zenon DEF Create
<1>11. ASSUME Len(dirs[z]) = RAMFS_INODE_MAX_CHILDREN_COUNT
       PROVE  RAMFS_INODE_MAX_CHILDREN_COUNT < DENTRY_MAX_CHILREN_COUNT
  BY <1>0, <1>2, <1>3, <1>11, RoomForOne
<1> HIDE DEF u, z, inode, entry, more, k
<1>12. ASSUME Len(dirs[z]) # RAMFS_INODE_MAX_CHILDREN_COUNT
       PROVE  /\ DirsInv(more) /\ Len(more) = Len(dirs) + 1 /\ Good(k, more, mounts, D)
  <2>1. DirsInv(more)
    BY <1>0, <1>9, <1>12, CreatesDirs DEF z
  <2>2. Shaped(k, more) /\ Treelike(k)
    BY <1>0, <1>9, CreatesShapedTree
  <2>3. Complete(k, more)
    BY <1>0, <1>9, CreatesComplete
  <2>4. Located(k, D)
    BY <1>0, <1>7, FillsLocated
  <2>5. Coherent(k, more, mounts, D)
    <3>1. D[Up(p)] = u
      BY DEF u
    <3> QED BY <1>0, <1>1, <1>9, <3>1, CreatesCoherent
  <2> QED BY <1>8, <2>1, <2>2, <2>3, <2>4, <2>5 DEF Good, Cached, Adds
<1>13. ASSUME dirs' = more, UNCHANGED mounts PROVE NewFile
  <2>1. \A j \in 1 .. Len(dirs[z]) : dirs[z][j].name # ds[d].name
    BY <1>0, <1>9, CreatesBasics DEF z
  <2>2. entry.name = ds[d].name /\ entry.inode = inode
    BY DEF entry
  <2> QED BY <1>0, <1>4, <1>8, <1>13, <2>1, <2>2 DEF NewFile
<1> QED BY <1>0, <1>10, <1>11, <1>12, <1>13 DEF StateGood, Stop

\* The machine stops: nothing else changes.
LEMMA StopKeeps ==
    ASSUME NEW reason, VfsInv, reason \in Panics,
           reason # "none",
           reason = "assert_child_count"
               => RAMFS_INODE_MAX_CHILDREN_COUNT < DENTRY_MAX_CHILREN_COUNT,
           Stop(reason)
    PROVE  VfsInv' /\ FilesKept
<1>1. /\ ino_gen' = Len(dirs') /\ panic' \in Panics /\ DirsInv(dirs')
      /\ \E D : Good(dentries', dirs', mounts', D)
  BY DEF VfsInv, Stop
<1>2. DirectoryNeverFull'
  BY VfsAssumption DEF DirectoryNeverFull, Stop
<1>3. FilesKept
  BY DEF Stop, FilesKept
<1> QED BY <1>1, <1>2, <1>3 DEF VfsInv

\* A step that does not stop the machine.
LEMMA GoesOn ==
    ASSUME VfsInv, StateGood', panic' = panic, DirsMore(dirs, dirs') \/ NewFile
    PROVE  VfsInv' /\ FilesKept
BY DEF VfsInv, StateGood, DirectoryNeverFull, FilesKept

\* The invariant without the reason of a stop.
LEMMA InvGood == ASSUME VfsInv PROVE StateGood /\ DirsInv(dirs)
BY DEF VfsInv, StateGood

\* The ends of a call: nothing but the cache changed,
LEMMA CachedKeeps ==
    ASSUME NEW ds, NEW D, VfsInv, Good(ds, dirs, mounts, D), OnlyCached(ds)
    PROVE  VfsInv' /\ FilesKept
BY InvGood, KeepsCache, GoesOn

\* a file system was mounted,
LEMMA MountKeeps ==
    ASSUME NEW ds, NEW D, NEW d, NEW path, NEW fstype \in {"ramfs", "fat32"},
           VfsInv, Good(ds, dirs, mounts, D), Canonical(path) \in DOMAIN D,
           D[Canonical(path)] = d, MountDev(ds, d, path, fstype)
    PROVE  VfsInv' /\ FilesKept
BY InvGood, MountGood, GoesOn

\* a file was created.
LEMMA CreateKeeps ==
    ASSUME NEW ds, NEW D, NEW p, NEW d, NEW fmt \in Formats,
           VfsInv, Good(ds, dirs, mounts, D), p \in DOMAIN D, D[p] = d,
           ds[d].inode = NoInode, ds[ds[d].parent].inode.fs # "fat32", Create(ds, d, fmt)
    PROVE  VfsInv' /\ FilesKept
<1>1. StateGood
  BY InvGood
<1>2. CASE StateGood' /\ panic' = panic /\ NewFile
  BY <1>2, GoesOn
<1>3. CASE /\ panic' = "assert_child_count" /\ UNCHANGED <<dentries, dirs, ino_gen, mounts>>
           /\ RAMFS_INODE_MAX_CHILDREN_COUNT < DENTRY_MAX_CHILREN_COUNT
  <2>1. "assert_child_count" \in Panics /\ "assert_child_count" # "none"
    BY DEF Panics
  <2> QED BY <1>3, <2>1, StopKeeps DEF Stop
<1> QED BY <1>1, <1>2, <1>3, CreateGood

\* What a call finds.
Found(w, D, path) ==
    \E E : /\ Good(w.dentries, dirs, mounts, E) /\ Larger(D, E)
           /\ w.fatal = "none" /\ w.at # 0 =>
                 Canonical(path) \in DOMAIN E /\ E[Canonical(path)] = w.at

\* The lookup of a call.
LEMMA CallFinds ==
    ASSUME NEW ds, NEW D, NEW path \in Paths \cup DevicePaths, VfsInv,
           Good(ds, dirs, mounts, D)
    PROVE  LET w == DentryLookup(ds, path) IN
           Found(w, D, path) /\ (w.fatal # "none" => w.fatal \in LookupPanics)
<1>1. PICK p \in Seq(Segments) : p = path /\ p # <<>>
  BY VfsAssumption DEF Segments
<1>2. PICK w : w = DentryLookup(ds, p)
  OBVIOUS
<1>3. LookedUp(w, D, p)
  BY <1>1, <1>2, InvGood, LookupLooksUp
<1>4. Found(w, D, p) /\ (w.fatal # "none" => w.fatal \in LookupPanics)
  BY <1>3 DEF LookedUp, Found, LookupPanics
<1> QED BY <1>1, <1>2, <1>4

\* The machine stops in a lookup.
LEMMA FatalKeeps ==
    ASSUME NEW reason \in LookupPanics, VfsInv, Stop(reason) PROVE VfsInv' /\ FilesKept
<1>1. reason \in Panics /\ reason # "assert_child_count" /\ reason # "none"
  BY DEF LookupPanics, Panics
<1> QED BY <1>1, StopKeeps

\* vfs_mount_dev
LEMMA MountDevStep ==
    ASSUME VfsInv, NEW path \in Paths, NEW fstype \in {"ramfs", "fat32"},
           VfsMountDev(path, fstype)
    PROVE  VfsInv' /\ FilesKept
<1>1. PICK D : Good(dentries, dirs, mounts, D)
  BY DEF VfsInv
<1>2. PICK w : w = DentryLookup(dentries, path)
  OBVIOUS
<1>3. Found(w, D, path) /\ (w.fatal # "none" => w.fatal \in LookupPanics)
  BY <1>1, <1>2, CallFinds
<1>4. PICK E : /\ Good(w.dentries, dirs, mounts, E)
               /\ w.fatal = "none" /\ w.at # 0 =>
                     Canonical(path) \in DOMAIN E /\ E[Canonical(path)] = w.at
  BY <1>3 DEF Found
<1>5. IF w.fatal # "none" THEN Stop(w.fatal)
      ELSE IF IsFormat(w.dentries, w.at, "DIR")
           THEN MountDev(w.dentries, w.at, path, fstype) ELSE OnlyCached(w.dentries)
  BY <1>2 DEF VfsMountDev, WithLookup
<1>6. CASE w.fatal # "none"
  BY <1>3, <1>5, <1>6, FatalKeeps
<1>7. CASE w.fatal = "none" /\ OnlyCached(w.dentries)
  BY <1>4, <1>7, CachedKeeps
<1>8. CASE w.fatal = "none" /\ w.at # 0 /\ MountDev(w.dentries, w.at, path, fstype)
  BY <1>4, <1>8, MountKeeps
<1> QED BY <1>5, <1>6, <1>7, <1>8 DEF IsFormat

\* vfs_mount: the second lookup leaves the dentry of the first where it is.
LEMMA MountStep ==
    ASSUME VfsInv, NEW path \in Paths, NEW dev \in DevicePaths, VfsMount(path, dev)
    PROVE  VfsInv' /\ FilesKept
<1>1. PICK D : Good(dentries, dirs, mounts, D)
  BY DEF VfsInv
<1>2. PICK v : v = DentryLookup(dentries, path)
  OBVIOUS
<1>3. Found(v, D, path) /\ (v.fatal # "none" => v.fatal \in LookupPanics)
  BY <1>1, <1>2, CallFinds
<1>4. PICK E : /\ Good(v.dentries, dirs, mounts, E)
               /\ v.fatal = "none" /\ v.at # 0 =>
                     Canonical(path) \in DOMAIN E /\ E[Canonical(path)] = v.at
  BY <1>3 DEF Found
<1>5. PICK w : w = DentryLookup(v.dentries, dev)
  OBVIOUS
<1>6. Found(w, E, dev) /\ (w.fatal # "none" => w.fatal \in LookupPanics)
  BY <1>4, <1>5, CallFinds
<1>7. PICK F : Good(w.dentries, dirs, mounts, F) /\ Larger(E, F)
  BY <1>6 DEF Found
<1>8. IF v.fatal # "none" THEN Stop(v.fatal)
      ELSE IF ~ IsFormat(v.dentries, v.at, "DIR") THEN OnlyCached(v.dentries)
      ELSE IF w.fatal # "none" THEN Stop(w.fatal)
      ELSE IF IsFormat(w.dentries, w.at, "BLK")
      THEN MountDev(w.dentries, v.at, path, "fat32")
      ELSE OnlyCached(w.dentries)
  BY <1>2, <1>5 DEF VfsMount, WithLookup
<1>9. CASE v.fatal # "none"
  BY <1>3, <1>8, <1>9, FatalKeeps
<1>10. CASE OnlyCached(v.dentries)
  BY <1>4, <1>10, CachedKeeps
<1>11. CASE w.fatal # "none" /\ Stop(w.fatal)
  BY <1>6, <1>11, FatalKeeps
<1>12. CASE OnlyCached(w.dentries)
  BY <1>7, <1>12, CachedKeeps
<1>13. CASE v.fatal = "none" /\ v.at # 0 /\ MountDev(w.dentries, v.at, path, "fat32")
  <2>1. Canonical(path) \in DOMAIN F /\ F[Canonical(path)] = v.at
    BY <1>4, <1>7, <1>13, Zenon DEF Larger
  <2> QED BY <1>7, <1>13, <2>1, MountKeeps
<1> QED BY <1>8, <1>9, <1>10, <1>11, <1>12, <1>13 DEF IsFormat

\* vfs_mkdir and vfs_mknod
LEMMA MakeStep ==
    ASSUME VfsInv, NEW path \in Paths, NEW fmt \in {"DIR", "CHR", "BLK"}, VfsMake(path, fmt)
    PROVE  VfsInv' /\ FilesKept
<1>1. PICK D : Good(dentries, dirs, mounts, D)
  BY DEF VfsInv
<1>2. PICK w : w = DentryLookup(dentries, path)
  OBVIOUS
<1>3. Found(w, D, path) /\ (w.fatal # "none" => w.fatal \in LookupPanics)
  BY <1>1, <1>2, CallFinds
<1>4. PICK E : /\ Good(w.dentries, dirs, mounts, E)
               /\ w.fatal = "none" /\ w.at # 0 =>
                     Canonical(path) \in DOMAIN E /\ E[Canonical(path)] = w.at
  BY <1>3 DEF Found
<1>5. PICK ds, d : ds = w.dentries /\ d = w.at
  OBVIOUS
<1>6. \/ w.fatal # "none" /\ Stop(w.fatal)
      \/ OnlyCached(ds)
      \/ Stop("null_inode_op")
      \/ /\ w.fatal = "none" /\ d # 0 /\ ds[d].inode = NoInode
         /\ ds[ds[d].parent].inode.fs # "fat32" /\ Create(ds, d, fmt)
  BY <1>2, <1>5 DEF VfsMake, WithLookup
<1>7. CASE w.fatal # "none" /\ Stop(w.fatal)
  BY <1>3, <1>7, FatalKeeps
<1>8. CASE OnlyCached(ds)
  BY <1>4, <1>5, <1>8, CachedKeeps
<1>9. CASE Stop("null_inode_op")
  <2>1. "null_inode_op" \in Panics /\ "null_inode_op" \notin {"assert_child_count", "none"}
    BY DEF Panics
  <2> QED BY <1>9, <2>1, StopKeeps
<1>10. CASE /\ w.fatal = "none" /\ d # 0 /\ ds[d].inode = NoInode
            /\ ds[ds[d].parent].inode.fs # "fat32" /\ Create(ds, d, fmt)
  <2>1. fmt \in Formats
    BY DEF Formats
  <2> QED BY <1>4, <1>5, <1>10, <2>1, CreateKeeps
<1> QED BY <1>6, <1>7, <1>8, <1>9, <1>10

\* vfs_file_open
LEMMA OpenStep ==
    ASSUME VfsInv, NEW path \in Paths, NEW creat \in BOOLEAN, NEW directory \in BOOLEAN,
           NEW excl \in BOOLEAN, VfsFileOpen(path, creat, directory, excl)
    PROVE  VfsInv' /\ FilesKept
<1>1. PICK D : Good(dentries, dirs, mounts, D)
  BY DEF VfsInv
<1>2. PICK w : w = DentryLookup(dentries, path)
  OBVIOUS
<1>3. Found(w, D, path) /\ (w.fatal # "none" => w.fatal \in LookupPanics)
  BY <1>1, <1>2, CallFinds
<1>4. PICK E : /\ Good(w.dentries, dirs, mounts, E)
               /\ w.fatal = "none" /\ w.at # 0 =>
                     Canonical(path) \in DOMAIN E /\ E[Canonical(path)] = w.at
  BY <1>3 DEF Found
<1>5. PICK ds, d : ds = w.dentries /\ d = w.at
  OBVIOUS
<1>6. \/ w.fatal # "none" /\ Stop(w.fatal)
      \/ OnlyCached(ds)
      \/ Stop("assert_file_ops")
      \/ /\ w.fatal = "none" /\ d # 0 /\ ds[d].inode = NoInode
         /\ ds[ds[d].parent].inode.fs # "fat32" /\ Create(ds, d, "REG")
  BY <1>2, <1>5 DEF VfsFileOpen, WithLookup
<1>7. CASE w.fatal # "none" /\ Stop(w.fatal)
  BY <1>3, <1>7, FatalKeeps
<1>8. CASE OnlyCached(ds)
  BY <1>4, <1>5, <1>8, CachedKeeps
<1>9. CASE Stop("assert_file_ops")
  <2>1. "assert_file_ops" \in Panics /\ "assert_file_ops" \notin {"assert_child_count", "none"}
    BY DEF Panics
  <2> QED BY <1>9, <2>1, StopKeeps
<1>10. CASE /\ w.fatal = "none" /\ d # 0 /\ ds[d].inode = NoInode
            /\ ds[ds[d].parent].inode.fs # "fat32" /\ Create(ds, d, "REG")
  <2>1. "REG" \in Formats
    BY DEF Formats
  <2> QED BY <1>4, <1>5, <1>10, <2>1, CreateKeeps
<1> QED BY <1>6, <1>7, <1>8, <1>9, <1>10

\* The cache and the directories of a machine that has just started.
LEMMA FreshGood ==
    ASSUME NEW ds, NEW dr, NEW mt, ds = <<RootDentry>>, dr = <<>>, mt = NoMounts
    PROVE  0 = Len(dr) /\ DirsInv(dr) /\ \E D : Good(ds, dr, mt, D)
<1> DEFINE D == [p \in {<<>>} |-> 1]
<1>0. PICK s \in Seq(Seq(Entries)) : s = <<>>
  <2>1. <<>> \in Seq(Seq(Entries))
    OBVIOUS
  <2> QED BY <2>1, Zenon
<1>1. 0 = Len(dr) /\ DirsInv(dr)
  <2>1. Len(s) = 0
    BY <1>0
  <2> QED BY <1>0, <2>1 DEF DirsInv
<1>2. RootDentry \in Dentries /\ InitRoot \in Inodes
  BY DEF RootDentry, Dentries, Segments, Inodes, InitRoot, Formats
<1>3. /\ RootDentry.inode = InitRoot /\ RootDentry.parent = 0 /\ RootDentry.children = <<>>
      /\ InitRoot.fs = "none" /\ InitRoot.fmt = "DIR"
  BY DEF RootDentry, InitRoot
<1>4. ds \in Seq(Dentries) /\ Len(ds) = 1 /\ ds[1] = RootDentry
  BY <1>2
<1>5. /\ \A e \in 1 .. Len(ds) : /\ e = 1 /\ ds[e].inode = InitRoot /\ ds[e].parent = 0
                                 /\ Len(ds[e].children) = 0
      /\ Len(ds) \in 1 .. DENTRY_COUNT /\ 1 \in 1 .. Len(ds)
  <2>1. \A e \in 1 .. Len(ds) : e = 1
    BY <1>4
  <2>2. Len(<<>>) = 0
    OBVIOUS
  <2>3. Len(ds) \in 1 .. DENTRY_COUNT /\ 1 \in 1 .. Len(ds)
    BY <1>4, VfsAssumption
  <2> QED BY <1>3, <1>4, <2>1, <2>2, <2>3
<1>6. Shaped(ds, dr)
  <2>1. 0 <= DENTRY_MAX_CHILREN_COUNT
    BY VfsAssumption
  <2> QED BY <1>2, <1>3, <1>4, <1>5, <2>1 DEF Shaped, Known
<1>7. Treelike(ds)
  BY <1>3, <1>5 DEF Treelike
<1>8. Complete(ds, dr)
  BY <1>3, <1>5 DEF Complete, OneDentry
<1>9. Located(ds, D)
  <2>1. <<>> \in Seq(Segments)
    OBVIOUS
  <2>2. DOMAIN D = {<<>>} /\ D[<<>>] = 1
    OBVIOUS
  <2> HIDE DEF D
  <2> QED BY <1>5, <2>1, <2>2 DEF Located
<1>10. Coherent(ds, dr, mt, D)
  <2>1. DOMAIN mt = {} /\ DOMAIN D = {<<>>} /\ D[<<>>] = 1
    BY DEF NoMounts
  <2> HIDE DEF D
  <2> QED BY <1>5, <2>1 DEF Coherent
<1> HIDE DEF D
<1> QED BY <1>1, <1>6, <1>7, <1>8, <1>9, <1>10 DEF Good, Cached

\* vfs_init
LEMMA InitInv == Init => VfsInv
<1>1. "none" \in Panics /\ "none" # "assert_child_count"
  BY DEF Panics
<1> QED BY <1>1, FreshGood DEF Init, VfsInv, DirectoryNeverFull

\* The machine starts again.
LEMMA RebootStep == VfsInv /\ Reboot => VfsInv' /\ FilesKept
<1>1. "none" \in Panics /\ "none" # "assert_child_count"
  BY DEF Panics
<1> QED BY <1>1, FreshGood DEF Reboot, VfsInv, DirectoryNeverFull, FilesKept

\* Every step.
LEMMA VfsStep == VfsInv /\ [Next]_vars => VfsInv' /\ FilesKept
<1> SUFFICES ASSUME VfsInv, [Next]_vars PROVE VfsInv' /\ FilesKept
  OBVIOUS
<1>1. CASE UNCHANGED vars
  <2>1. VfsInv'
    BY <1>1 DEF VfsInv, vars, DirectoryNeverFull
  <2>2. Len(dirs) \in Nat /\ dirs' = dirs /\ DirsInv(dirs)
    BY <1>1 DEF VfsInv, vars, DirsInv
  <2>3. DirsMore(dirs, dirs')
    BY <2>2 DEF DirsMore
  <2> QED BY <2>1, <2>3 DEF FilesKept
<1>2. CASE Next
  BY <1>2, MountDevStep, MountStep, MakeStep, OpenStep, RebootStep DEF Next
<1> QED BY <1>1, <1>2

-----------------------------------------------------------------------------
(* What a path names                                                       *)

\* One step of Resolve, in the directories dr and with the mounts mt.
StepOf(g, dr, mt, path, n) ==
    IF Upto(path, n) \in DOMAIN mt THEN mt[Upto(path, n)]
    ELSE IF n = 0 THEN InitRoot
    ELSE IF g[n - 1].fmt = "DIR" /\ g[n - 1].fs # "none"
    THEN LookupIn(dr, g[n - 1], path[n]) ELSE NoInode

ResolveOf(g, dr, mt, path, N) == g = [n \in 0 .. N |-> StepOf(g, dr, mt, path, n)]

NamedBy(dr, mt, path) == (CHOOSE g : ResolveOf(g, dr, mt, path, Len(path)))[Len(path)]

\* Resolve in the present state and in the next.
LEMMA ResolveNames == \A path : Resolve(path) = NamedBy(dirs, mounts, path)
BY DEF Resolve, NamedBy, ResolveOf, StepOf, Upto, LookupIn, Lookup

LEMMA ResolveNamesNext == \A path : Resolve(path)' = NamedBy(dirs', mounts', path)
BY DEF Resolve, NamedBy, ResolveOf, StepOf, Upto, LookupIn, Lookup

\* A step depends on the one before only.
LEMMA StepSame ==
    ASSUME NEW g, NEW h, NEW dr, NEW mt, NEW path, NEW n, n # 0 => h[n - 1] = g[n - 1]
    PROVE  StepOf(h, dr, mt, path, n) = StepOf(g, dr, mt, path, n)
<1>1. CASE n = 0
  BY <1>1, Zenon DEF StepOf
<1>2. CASE n # 0
  <2>1. PICK x : x = h[n - 1] /\ x = g[n - 1]
    BY <1>2
  <2> QED BY <2>1 DEF StepOf
<1> QED BY <1>1, <1>2

\* A function that resolves one segment after the other exists.
LEMMA ResolveExists ==
    ASSUME NEW dr, NEW mt, NEW path, NEW N \in Nat
    PROVE  \E g : ResolveOf(g, dr, mt, path, N)
<1> DEFINE S == {n \in Nat : \E g : ResolveOf(g, dr, mt, path, n)}
<1>1. 0 \in S
  <2> DEFINE g == [n \in 0 .. 0 |-> IF Upto(path, 0) \in DOMAIN mt THEN mt[Upto(path, 0)] ELSE InitRoot]
  <2>1. ResolveOf(g, dr, mt, path, 0)
    BY DEF ResolveOf, StepOf
  <2> HIDE DEF g
  <2> QED BY <2>1
<1>2. ASSUME NEW n \in 0 .. N - 1, n \in S PROVE n + 1 \in S
  <2>1. PICK g : ResolveOf(g, dr, mt, path, n)
    BY <1>2
  <2> DEFINE h == [k \in 0 .. n + 1 |-> IF k = n + 1 THEN StepOf(g, dr, mt, path, n + 1) ELSE g[k]]
  <2>0. n + 1 # 0 /\ (n + 1) - 1 = n
    OBVIOUS
  <2>2. ASSUME NEW k \in 0 .. n + 1 PROVE h[k] = StepOf(h, dr, mt, path, k)
    <3>1. CASE k = n + 1
      <4>1. h[k - 1] = g[k - 1]
        BY <3>1
      <4>2. StepOf(h, dr, mt, path, k) = StepOf(g, dr, mt, path, k)
        BY <4>1, StepSame
      <4> QED BY <3>1, <4>2
    <3>2. CASE k = 0
      <4>1. h[k] = StepOf(g, dr, mt, path, k)
        BY <2>1, <3>2 DEF ResolveOf
      <4>2. StepOf(h, dr, mt, path, k) = StepOf(g, dr, mt, path, k)
        BY <3>2, StepSame
      <4> QED BY <4>1, <4>2
    <3>3. CASE k \in 1 .. n
      <4>1. h[k] = g[k] /\ h[k - 1] = g[k - 1]
        BY <3>3
      <4>2. g[k] = StepOf(g, dr, mt, path, k)
        BY <2>1, <3>3 DEF ResolveOf
      <4>3. StepOf(h, dr, mt, path, k) = StepOf(g, dr, mt, path, k)
        BY <4>1, StepSame
      <4> QED BY <4>1, <4>2, <4>3
    <3> QED BY <3>1, <3>2, <3>3
  <2>3. ResolveOf(h, dr, mt, path, n + 1)
    BY <2>2 DEF ResolveOf
  <2> HIDE DEF h
  <2> QED BY <2>3
<1> HIDE DEF S
<1>3. \A n \in 0 .. N : n \in S
  BY <1>1, <1>2, Steps
<1> QED BY <1>3 DEF S

\* What a path names is the end of a sequence of steps.
NamesSteps(g, dr, mt, path) ==
    /\ \A n \in 0 .. Len(path) : g[n] = StepOf(g, dr, mt, path, n)
    /\ NamedBy(dr, mt, path) = g[Len(path)]

\* Resolve is such a function.
LEMMA Resolves ==
    ASSUME NEW dr, NEW mt, NEW path \in Seq(Segments)
    PROVE  \E g : NamesSteps(g, dr, mt, path)
<1> DEFINE N == Len(path)
<1>1. N \in Nat
  OBVIOUS
<1>2. PICK g : g = CHOOSE h : ResolveOf(h, dr, mt, path, N)
  OBVIOUS
<1>3. ResolveOf(g, dr, mt, path, N)
  BY <1>1, <1>2, ResolveExists
<1>4. NamedBy(dr, mt, path) = g[N]
  BY <1>2 DEF NamedBy
<1>5. \A n \in 0 .. N : g[n] = StepOf(g, dr, mt, path, n)
  BY <1>1, <1>3 DEF ResolveOf
<1> QED BY <1>4, <1>5 DEF NamesSteps

\* A cached path whose last segment is not the first has a cached directory.
LEMMA CachedAbove ==
    ASSUME NEW ds, NEW dr, NEW mt, NEW D, Good(ds, dr, mt, D), NEW path \in Seq(Segments),
           NEW n \in 1 .. Len(path), Upto(path, n) \in DOMAIN D
    PROVE  /\ Upto(path, n - 1) \in DOMAIN D /\ D[Upto(path, n - 1)] \in 1 .. Len(ds)
           /\ ds[D[Upto(path, n - 1)]].inode.fmt = "DIR"
           /\ ds[D[Upto(path, n - 1)]].inode.fs # "none"
           /\ Upto(path, n) # <<>> /\ Up(Upto(path, n)) = Upto(path, n - 1)
           /\ Upto(path, n)[Len(Upto(path, n))] = path[n]
<1>1. PICK p \in Seq(Segments) : p = Upto(path, n - 1)
  <2>1. Upto(path, n - 1) \in Seq(Segments)
    BY DEF Upto
  <2> QED BY <2>1, Zenon
<1>2. Upto(path, n) = Append(p, path[n]) /\ path[n] \in Segments
  BY <1>1, UptoNext
<1>3. PICK q : q = Append(p, path[n]) /\ q # <<>> /\ q[Len(q)] = path[n] /\ Up(q) = p
  BY <1>2, PathAppend
<1>4. Located(ds, D) /\ Treelike(ds)
  BY DEF Good, Cached
<1>5. /\ p \in DOMAIN D /\ D[p] \in 1 .. Len(ds)
      /\ \E i \in 1 .. Len(ds[D[p]].children) : ds[D[p]].children[i] = D[q]
  <2>1. q \in DOMAIN D
    BY <1>2, <1>3
  <2>2. /\ Up(q) \in DOMAIN D
        /\ \E i \in 1 .. Len(ds[D[Up(q)]].children) : ds[D[Up(q)]].children[i] = D[q]
    BY <1>3, <1>4, <2>1, Zenon DEF Located
  <2>3. D[Up(q)] \in 1 .. Len(ds)
    BY <1>4, <2>2, Zenon DEF Located
  <2> QED BY <1>3, <2>2, <2>3
<1>6. Len(ds[D[p]].children) # 0
  BY <1>5
<1>7. ds[D[p]].inode.fmt = "DIR" /\ ds[D[p]].inode.fs # "none"
  BY <1>4, <1>5, <1>6 DEF Treelike
<1> QED BY <1>1, <1>2, <1>3, <1>5, <1>7

\* A cached path names the inode of its dentry.
LEMMA CachedNames ==
    ASSUME NEW ds, NEW dr, NEW mt, NEW D, NEW g, Good(ds, dr, mt, D),
           NEW path \in Seq(Segments), NamesSteps(g, dr, mt, path)
    PROVE  \A n \in 0 .. Len(path) :
               Upto(path, n) \in DOMAIN D => g[n] = ds[D[Upto(path, n)]].inode
<1> DEFINE N == Len(path)
           S == {n \in Nat : Upto(path, n) \in DOMAIN D => g[n] = ds[D[Upto(path, n)]].inode}
<1>0. N \in Nat /\ Coherent(ds, dr, mt, D) /\ Located(ds, D)
  BY DEF Good
<1>1. \A n \in 0 .. N : g[n] = StepOf(g, dr, mt, path, n)
  BY DEF NamesSteps
<1>2. 0 \in S
  <2>1. Upto(path, 0) = <<>> /\ <<>> \in DOMAIN D
    BY <1>0 DEF Upto, Located
  <2>2. g[0] = IF <<>> \in DOMAIN mt THEN mt[<<>>] ELSE InitRoot
    BY <1>0, <1>1, <2>1 DEF StepOf
  <2>3. ds[D[<<>>]].inode = IF <<>> \in DOMAIN mt THEN mt[<<>>] ELSE InitRoot
    BY <1>0, <2>1 DEF Coherent
  <2> QED BY <2>1, <2>2, <2>3
<1>3. ASSUME NEW n \in 0 .. N - 1, n \in S PROVE n + 1 \in S
  <2>1. PICK m \in 1 .. Len(path) : m = n + 1 /\ m - 1 = n
    BY <1>0
  <2>2. SUFFICES ASSUME Upto(path, m) \in DOMAIN D
                 PROVE  g[m] = ds[D[Upto(path, m)]].inode
    BY <2>1
  <2>3. PICK q, p : q = Upto(path, m) /\ p = Upto(path, m - 1)
    OBVIOUS
  <2>4. /\ p \in DOMAIN D /\ ds[D[p]].inode.fmt = "DIR" /\ ds[D[p]].inode.fs # "none"
        /\ q # <<>> /\ Up(q) = p /\ q[Len(q)] = path[m] /\ q \in DOMAIN D
    BY <2>2, <2>3, CachedAbove
  <2>5. g[m - 1] = ds[D[p]].inode
    BY <1>3, <2>1, <2>3, <2>4
  <2>6. g[m] = StepOf(g, dr, mt, path, m) /\ m # 0
    BY <1>0, <1>1, <2>1
  <2>7. CASE q \in DOMAIN mt
    <3>1. g[m] = mt[q]
      BY <2>3, <2>6, <2>7 DEF StepOf
    <3> QED BY <1>0, <2>3, <2>7, <3>1 DEF Coherent
  <2>8. CASE q \notin DOMAIN mt
    <3>1. g[m] = LookupIn(dr, ds[D[p]].inode, path[m])
      BY <2>3, <2>4, <2>5, <2>6, <2>8 DEF StepOf
    <3>2. ds[D[q]].inode = LookupIn(dr, ds[D[Up(q)]].inode, q[Len(q)])
      BY <1>0, <2>4, <2>8 DEF Coherent
    <3> QED BY <2>3, <2>4, <3>1, <3>2
  <2> QED BY <2>7, <2>8
<1> HIDE DEF S
<1>4. \A n \in 0 .. N : n \in S
  BY <1>0, <1>2, <1>3, Steps
<1> QED BY <1>4 DEF S

\* Below a file that is not a directory nothing is mounted, and nothing is
\* found.
LEMMA NothingBelow ==
    ASSUME NEW ds, NEW dr, NEW mt, NEW D, NEW g, Good(ds, dr, mt, D),
           NEW path \in Seq(Segments), NamesSteps(g, dr, mt, path),
           NEW m \in 1 .. Len(path), Upto(path, m) \in DOMAIN D,
           ds[D[Upto(path, m)]].inode.fmt # "DIR"
    PROVE  g[Len(path)].fmt # "DIR"
<1> DEFINE N == Len(path)
           S == {n \in Nat : n >= m => /\ g[n].fmt # "DIR"
                                       /\ n > m => Upto(path, n) \notin DOMAIN D}
<1>0. N \in Nat /\ m \in Nat /\ m >= 1 /\ Coherent(ds, dr, mt, D)
  BY DEF Good
<1>1. \A n \in 0 .. N : g[n] = StepOf(g, dr, mt, path, n)
  BY DEF NamesSteps
<1>2. 0 \in S
  BY <1>0
<1>3. ASSUME NEW n \in 0 .. N - 1, n \in S PROVE n + 1 \in S
  <2>1. PICK k \in 1 .. Len(path) : k = n + 1 /\ k - 1 = n /\ k \in 0 .. N
    BY <1>0
  <2>2. CASE k < m
    BY <1>0, <2>1, <2>2
  <2>3. CASE k = m
    <3>1. g[k] = ds[D[Upto(path, k)]].inode
      BY <2>1, <2>3, CachedNames
    <3> QED BY <1>0, <2>1, <2>3, <3>1
  <2>4. CASE k > m
    <3>1. n >= m /\ k # 0
      BY <1>0, <2>1, <2>4
    <3>2. g[n].fmt # "DIR" /\ (n > m => Upto(path, n) \notin DOMAIN D)
      BY <1>3, <3>1
    <3>3. Upto(path, k) \notin DOMAIN D
      <4>1. SUFFICES ASSUME Upto(path, k) \in DOMAIN D PROVE FALSE
        OBVIOUS
      <4>2. Upto(path, k - 1) \in DOMAIN D /\ ds[D[Upto(path, k - 1)]].inode.fmt = "DIR"
        BY <4>1, CachedAbove
      <4>3. n = m
        BY <1>0, <2>1, <3>1, <3>2, <4>2
      <4> QED BY <2>1, <4>2, <4>3
    <3>4. Upto(path, k) \notin DOMAIN mt
      BY <1>0, <3>3 DEF Coherent
    <3>5. g[k] = NoInode
      BY <1>1, <2>1, <3>1, <3>2, <3>4 DEF StepOf
    <3>6. g[k].fmt # "DIR"
      BY <3>5 DEF NoInode
    <3> QED BY <2>1, <3>3, <3>6
  <2> QED BY <1>0, <2>1, <2>2, <2>3, <2>4
<1> HIDE DEF S
<1>4. \A n \in 0 .. N : n \in S
  BY <1>0, <1>2, <1>3, Steps
<1>5. N \in S /\ N >= m
  BY <1>0, <1>4
<1> QED BY <1>5 DEF S

\* Whatever the cache holds, a lookup finds what the path names.
LEMMA InvLookup == VfsInv => LookupCorrect
<1> SUFFICES ASSUME VfsInv, NEW path \in Paths, NEW w, w = DentryLookup(dentries, path),
                    w.fatal = "none"
             PROVE  IF w.at = 0 THEN Resolve(Front(path)).fmt # "DIR"
                    ELSE w.dentries[w.at].inode = Resolve(Canonical(path))
  BY DEF LookupCorrect
<1>1. PICK D : Good(dentries, dirs, mounts, D)
  BY DEF VfsInv
<1>2. path \in Seq(Segments) /\ path # <<>>
  BY VfsAssumption DEF Segments
<1>3. LookedUp(w, D, path)
  BY <1>1, <1>2, InvGood, LookupLooksUp
<1>4. PICK E : /\ Good(w.dentries, dirs, mounts, E)
               /\ \/ Canonical(path) \in DOMAIN E /\ E[Canonical(path)] = w.at
                  \/ w.at = 0 /\ Blocked(w.dentries, E, path, Len(path) - 1)
  BY <1>3 DEF LookedUp, LookupPanics
<1>5. CASE w.at = 0
  <2>1. Blocked(w.dentries, E, path, Len(path) - 1)
    BY <1>4, <1>5, GoodAt
  <2>2. PICK m \in 1 .. Len(path) - 1 : /\ Upto(path, m) \in DOMAIN E
                                        /\ w.dentries[E[Upto(path, m)]].inode.fmt # "DIR"
    BY <2>1 DEF Blocked
  <2>3. PICK f \in Seq(Segments) : f = Front(path) /\ Len(f) = Len(path) - 1 /\ Upto(f, m) = Upto(path, m)
    <3>1. Front(path) = SubSeq(path, 1, Len(path) - 1)
      BY <1>2 DEF Front
    <3>2. /\ Front(path) \in Seq(Segments) /\ Len(Front(path)) = Len(path) - 1
          /\ Upto(Front(path), m) = Upto(path, m)
      BY <1>2, <3>1 DEF Upto
    <3> QED BY <3>2, Zenon
  <2>4. PICK g : NamesSteps(g, dirs, mounts, f)
    BY Resolves
  <2>5. m \in 1 .. Len(f)
    BY <2>3
  <2>6. g[Len(f)].fmt # "DIR"
    BY <1>4, <2>2, <2>3, <2>4, <2>5, NothingBelow
  <2>7. Resolve(f).fmt # "DIR"
    BY <2>4, <2>6, ResolveNames DEF NamesSteps
  <2> QED BY <1>5, <2>3, <2>7
<1>6. CASE w.at # 0
  <2>1. Canonical(path) \in DOMAIN E /\ E[Canonical(path)] = w.at
    BY <1>4, <1>6
  <2>2. Canonical(path) \in Seq(Segments)
    BY <1>4, <2>1 DEF Good, Located
  <2>3. PICK c \in Seq(Segments) : c = Canonical(path)
    BY <2>2, Zenon
  <2>4. Upto(c, Len(c)) = c /\ Len(c) \in 0 .. Len(c)
    BY DEF Upto
  <2>5. PICK g : NamesSteps(g, dirs, mounts, c)
    BY Resolves
  <2>6. g[Len(c)] = w.dentries[E[c]].inode
    BY <1>4, <2>1, <2>3, <2>4, <2>5, CachedNames
  <2>7. Resolve(c) = w.dentries[w.at].inode
    BY <2>1, <2>3, <2>5, <2>6, ResolveNames DEF NamesSteps
  <2> QED BY <1>6, <2>3, <2>7
<1> QED BY <1>5, <1>6

-----------------------------------------------------------------------------
(* What a path names, before and after a step                              *)

\* A path names an inode of a file system that exists, or none.
LEMMA NamesKnown ==
    ASSUME NEW ds, NEW dr, NEW mt, NEW D, NEW g, Good(ds, dr, mt, D), DirsInv(dr),
           NEW path \in Seq(Segments), NamesSteps(g, dr, mt, path)
    PROVE  \A n \in 0 .. Len(path) : Known(g[n], dr)
<1> DEFINE N == Len(path)
           S == {n \in Nat : Known(g[n], dr)}
<1>0. /\ N \in Nat /\ Coherent(ds, dr, mt, D) /\ Located(ds, D) /\ Shaped(ds, dr)
  BY DEF Good, Cached
<1>1. \A n \in 0 .. N : g[n] = StepOf(g, dr, mt, path, n)
  BY DEF NamesSteps
<1>2. Known(InitRoot, dr) /\ Known(NoInode, dr)
  BY DEF Known, InitRoot, NoInode, Inodes, Formats
<1>3. \A p \in DOMAIN mt : Known(mt[p], dr)
  <2>1. ASSUME NEW p \in DOMAIN mt PROVE Known(mt[p], dr)
    <3>1. D[p] \in 1 .. Len(ds) /\ ds[D[p]].inode = mt[p]
      BY <1>0, <2>1 DEF Coherent, Located
    <3> QED BY <1>0, <3>1 DEF Shaped
  <2> QED BY <2>1
<1>4. 0 \in S
  <2>1. g[0] = IF Upto(path, 0) \in DOMAIN mt THEN mt[Upto(path, 0)] ELSE InitRoot
    BY <1>0, <1>1 DEF StepOf
  <2> QED BY <1>2, <1>3, <2>1
<1>5. ASSUME NEW n \in 0 .. N - 1, n \in S PROVE n + 1 \in S
  <2>1. PICK m \in 1 .. Len(path) : m = n + 1 /\ m - 1 = n /\ m \in 0 .. N /\ m # 0
    BY <1>0
  <2>2. g[m] = StepOf(g, dr, mt, path, m)
    BY <1>1, <2>1
  <2>3. PICK x : x = g[m - 1] /\ Known(x, dr)
    BY <1>5, <2>1
  <2>4. x.fs # "none" => Known(LookupIn(dr, x, path[m]), dr)
    BY <2>3, LookupKnown
  <2>5. Known(g[m], dr)
    BY <1>2, <1>3, <2>1, <2>2, <2>3, <2>4 DEF StepOf
  <2> QED BY <2>1, <2>5
<1> HIDE DEF S
<1>6. \A n \in 0 .. N : n \in S
  BY <1>0, <1>4, <1>5, Steps
<1> QED BY <1>6 DEF S

\* The mounts above a path, and on it, are the same.
MountsAgree(mt, nt, path) ==
    \A n \in 0 .. Len(path) :
        /\ Upto(path, n) \in DOMAIN mt <=> Upto(path, n) \in DOMAIN nt
        /\ Upto(path, n) \in DOMAIN mt => mt[Upto(path, n)] = nt[Upto(path, n)]

\* A path with the same mounts on it names the same with a directory more.
LEMMA MoreNames ==
    ASSUME NEW ds, NEW dr, NEW more, NEW mt, NEW nt, NEW D, NEW g, NEW h,
           Good(ds, dr, mt, D), DirsInv(dr), DirsMore(dr, more),
           NEW path \in Seq(Segments), MountsAgree(mt, nt, path),
           NamesSteps(g, dr, mt, path), NamesSteps(h, more, nt, path)
    PROVE  h[Len(path)] = g[Len(path)]
<1> DEFINE N == Len(path)
           S == {n \in Nat : h[n] = g[n]}
<1>0. N \in Nat
  OBVIOUS
<1>1. \A n \in 0 .. N : g[n] = StepOf(g, dr, mt, path, n) /\ h[n] = StepOf(h, more, nt, path, n)
  BY DEF NamesSteps
<1>2. \A n \in 0 .. N : Known(g[n], dr)
  BY NamesKnown
<1>3. 0 \in S
  <2>1. 0 \in 0 .. N
    BY <1>0
  <2>2. g[0] = IF Upto(path, 0) \in DOMAIN mt THEN mt[Upto(path, 0)] ELSE InitRoot
    BY <1>1, <2>1 DEF StepOf
  <2>3. h[0] = IF Upto(path, 0) \in DOMAIN nt THEN nt[Upto(path, 0)] ELSE InitRoot
    BY <1>1, <2>1 DEF StepOf
  <2> QED BY <2>1, <2>2, <2>3 DEF MountsAgree
<1>4. ASSUME NEW n \in 0 .. N - 1, n \in S PROVE n + 1 \in S
  <2>1. PICK m \in 1 .. Len(path) : m = n + 1 /\ m - 1 = n /\ m \in 0 .. N /\ m # 0 /\ n \in 0 .. N
    BY <1>0
  <2>2. PICK x : x = g[m - 1] /\ x = h[m - 1] /\ Known(x, dr)
    BY <1>2, <1>4, <2>1
  <2>3. g[m] = StepOf(g, dr, mt, path, m) /\ h[m] = StepOf(h, more, nt, path, m)
    BY <1>1, <2>1
  <2>4. x.fs # "none" => LookupIn(more, x, path[m]) = LookupIn(dr, x, path[m])
    <3>1. x \in Inodes /\ (x.fs = "ramfs" => more[x.id] = dr[x.id])
      BY <2>2 DEF Known, DirsMore
    <3> QED BY <3>1, LookupMore
  <2>5. PICK p : p = Upto(path, m)
    OBVIOUS
  <2>6. (p \in DOMAIN mt <=> p \in DOMAIN nt) /\ (p \in DOMAIN mt => mt[p] = nt[p])
    BY <2>1, <2>5 DEF MountsAgree
  <2>7. h[m] = g[m]
    BY <2>1, <2>2, <2>3, <2>4, <2>5, <2>6 DEF StepOf
  <2> QED BY <2>1, <2>7
<1> HIDE DEF S
<1>5. \A n \in 0 .. N : n \in S
  BY <1>0, <1>3, <1>4, Steps
<1>6. N \in S
  BY <1>0, <1>5
<1> QED BY <1>6 DEF S

\* One file more: a path names what it named, or nothing before and now the
\* new file.
LEMMA AddedNames ==
    ASSUME NEW ds, NEW dr, NEW more, NEW mt, NEW D, NEW g, NEW h, NEW z, NEW entry,
           Good(ds, dr, mt, D), DirsInv(dr), Adds(dr, more, z, entry),
           \A j \in 1 .. Len(dr[z]) : dr[z][j].name # entry.name,
           entry.inode.fs = "ramfs", entry.inode.id = Len(dr) + 1,
           NEW path \in Seq(Segments),
           NamesSteps(g, dr, mt, path), NamesSteps(h, more, mt, path)
    PROVE  h[Len(path)] = g[Len(path)] \/ (g[Len(path)] = NoInode /\ h[Len(path)] = entry.inode)
<1> DEFINE N == Len(path)
           S == {n \in Nat : h[n] = g[n] \/ (g[n] = NoInode /\ h[n] = entry.inode)}
<1>0. N \in Nat /\ Coherent(ds, dr, mt, D)
  BY DEF Good
<1>1. \A n \in 0 .. N : g[n] = StepOf(g, dr, mt, path, n) /\ h[n] = StepOf(h, more, mt, path, n)
  BY DEF NamesSteps
<1>2. \A n \in 0 .. N : Known(g[n], dr)
  BY NamesKnown
<1>3. /\ RamfsLookup(more[z], entry.name) = entry.inode /\ RamfsLookup(dr[z], entry.name) = NoInode
      /\ \A name : name # entry.name => RamfsLookup(more[z], name) = RamfsLookup(dr[z], name)
  <2>1. /\ Len(dr[z]) \in Nat /\ Len(more[z]) = Len(dr[z]) + 1 /\ more[z][Len(dr[z]) + 1] = entry
        /\ \A j \in 1 .. Len(dr[z]) : more[z][j] = dr[z][j]
        /\ z \in 1 .. Len(dr) /\ z \in 1 .. Len(more) /\ more \in Seq(Seq(Entries))
    BY DEF Adds
  <2>2. DOMAIN dr[z] = 1 .. Len(dr[z])
    <3>1. dr[z] \in Seq(Entries)
      BY <2>1 DEF DirsInv
    <3> QED BY <3>1
  <2>3. DOMAIN more[z] = 1 .. Len(dr[z]) + 1
    <3>1. more[z] \in Seq(Entries)
      BY <2>1
    <3> QED BY <2>1, <3>1
  <2>4. {i \in DOMAIN dr[z] : dr[z][i].name = entry.name} = {}
    BY <2>2
  <2>5. RamfsLookup(dr[z], entry.name) = NoInode
    BY <2>4 DEF RamfsLookup
  <2>6. PICK c, b : c = dr[z] /\ b = more[z]
    OBVIOUS
  <2>7. PICK n \in Nat : n = Len(dr[z])
    BY <2>1
  <2>8. /\ RamfsLookup(b, entry.name) = entry.inode
        /\ \A name : name # entry.name => RamfsLookup(b, name) = RamfsLookup(c, name)
    <3>1. /\ DOMAIN c = 1 .. n /\ DOMAIN b = 1 .. n + 1 /\ b[n + 1] = entry
          /\ \A j \in 1 .. n : b[j] = c[j]
      BY <2>1, <2>2, <2>3, <2>6, <2>7
    <3>2. \A j \in 1 .. n : c[j].name # entry.name
      BY <2>6, <2>7
    <3> QED BY <3>1, <3>2, LookupAdded
  <2> QED BY <2>5, <2>6, <2>8
<1>4. 0 \in S
  <2>1. 0 \in 0 .. N
    BY <1>0
  <2> QED BY <1>1, <2>1 DEF StepOf
<1>5. ASSUME NEW n \in 0 .. N - 1, n \in S PROVE n + 1 \in S
  <2>1. PICK m \in 1 .. Len(path) : m = n + 1 /\ m - 1 = n /\ m \in 0 .. N /\ m # 0 /\ n \in 0 .. N
    BY <1>0
  <2>2. g[m] = StepOf(g, dr, mt, path, m) /\ h[m] = StepOf(h, more, mt, path, m)
    BY <1>1, <2>1
  <2>3. CASE Upto(path, m) \in DOMAIN mt
    BY <2>1, <2>2, <2>3 DEF StepOf
  <2>4. CASE Upto(path, m) \notin DOMAIN mt /\ h[n] = g[n]
    <3>1. PICK x : x = g[m - 1] /\ x = h[m - 1] /\ Known(x, dr)
      BY <1>2, <2>1, <2>4
    <3>2. /\ g[m] = IF x.fmt = "DIR" /\ x.fs # "none" THEN LookupIn(dr, x, path[m]) ELSE NoInode
          /\ h[m] = IF x.fmt = "DIR" /\ x.fs # "none" THEN LookupIn(more, x, path[m]) ELSE NoInode
      BY <2>1, <2>2, <2>4, <3>1 DEF StepOf
    <3>3. CASE x.fs = "none"
      BY <2>1, <3>2, <3>3
    <3>4. CASE x.fs # "none" /\ (x.fs = "ramfs" => x.id # z)
      <4>1. x \in Inodes /\ (x.fs = "ramfs" => more[x.id] = dr[x.id])
        BY <3>1, <3>4 DEF Known, Adds
      <4>2. LookupIn(more, x, path[m]) = LookupIn(dr, x, path[m])
        BY <3>4, <4>1, LookupMore
      <4> QED BY <2>1, <3>2, <4>2
    <3>5. CASE x.fs = "ramfs" /\ x.id = z
      <4>1. /\ LookupIn(more, x, path[m]) = RamfsLookup(more[z], path[m])
            /\ LookupIn(dr, x, path[m]) = RamfsLookup(dr[z], path[m])
        BY <3>5 DEF LookupIn
      <4> QED BY <1>3, <2>1, <3>2, <4>1
    <3> QED BY <3>3, <3>4, <3>5
  <2>5. CASE g[n] = NoInode /\ h[n] = entry.inode
    <3>1. Upto(path, m) \notin DOMAIN mt
      <4>1. SUFFICES ASSUME Upto(path, m) \in DOMAIN mt PROVE FALSE
        OBVIOUS
      <4>2. Upto(path, m) \in DOMAIN D
        BY <1>0, <4>1 DEF Coherent
      <4>3. Upto(path, n) \in DOMAIN D /\ ds[D[Upto(path, n)]].inode.fmt = "DIR"
        BY <2>1, <4>2, CachedAbove
      <4>4. g[n] = ds[D[Upto(path, n)]].inode
        BY <2>1, <4>3, CachedNames
      <4> QED BY <2>5, <4>3, <4>4 DEF NoInode
    <3>2. g[m] = NoInode
      <4>1. NoInode.fmt # "DIR"
        BY DEF NoInode
      <4> QED BY <2>1, <2>2, <2>5, <3>1, <4>1 DEF StepOf
    <3>3. LookupIn(more, entry.inode, path[m]) = NoInode
      <4>1. more[Len(dr) + 1] = <<>>
        BY DEF Adds
      <4>2. LookupIn(more, entry.inode, path[m]) = RamfsLookup(<<>>, path[m])
        BY <4>1 DEF LookupIn
      <4>3. RamfsLookup(<<>>, path[m]) = NoInode
        <5>1. {i \in DOMAIN <<>> : <<>>[i].name = path[m]} = {}
          OBVIOUS
        <5> QED BY <5>1, Zenon DEF RamfsLookup
      <4> QED BY <4>2, <4>3
    <3>4. h[m] = NoInode
      <4>1. h[m] = LookupIn(more, entry.inode, path[m]) \/ h[m] = NoInode
        BY <2>1, <2>2, <2>5, <3>1 DEF StepOf
      <4> QED BY <3>3, <4>1
    <3> QED BY <2>1, <3>2, <3>4
  <2> QED BY <1>5, <2>3, <2>4, <2>5
<1> HIDE DEF S
<1>6. \A n \in 0 .. N : n \in S
  BY <1>0, <1>4, <1>5, Steps
<1>7. N \in S
  BY <1>0, <1>6
<1> QED BY <1>7 DEF S

\* FilesStay, of one step.
FilesStayStep ==
    panic = "none" /\ panic' = "none" =>
        LET all == DOMAIN mounts \cup DOMAIN mounts'
            covered == {p \in all : \/ p \notin DOMAIN mounts \/ p \notin DOMAIN mounts'
                                    \/ mounts[p] # mounts'[p]}
        IN  \A path \in {Canonical(p) : p \in Paths} :
                \/ Resolve(path)' = Resolve(path)
                \/ Resolve(path) = NoInode /\ Resolve(path)'.id = ino_gen + 1
                \/ \E p \in covered : IsPrefix(p, path)

\* What a step does to the directories keeps what the paths name.
LEMMA StepStays == VfsInv /\ FilesKept => FilesStayStep
<1> DEFINE covered == {p \in DOMAIN mounts \cup DOMAIN mounts' :
                          \/ p \notin DOMAIN mounts \/ p \notin DOMAIN mounts'
                          \/ mounts[p] # mounts'[p]}
<1> SUFFICES ASSUME VfsInv, FilesKept, panic = "none", panic' = "none", NEW r \in Paths,
                    NEW path, path = Canonical(r), ~ \E p \in covered : IsPrefix(p, path)
             PROVE  \/ Resolve(path)' = Resolve(path)
                    \/ Resolve(path) = NoInode /\ Resolve(path)'.id = ino_gen + 1
  BY Zenon DEF FilesStayStep
<1>1. path \in Seq(Segments)
  <2>1. r \in Seq(Segments) /\ r # <<>>
    BY VfsAssumption DEF Segments
  <2>2. Front(r) \in Seq(Segments)
    BY <2>1 DEF Front
  <2> QED BY <2>1, <2>2 DEF Canonical
<1>2. PICK D : Good(dentries, dirs, mounts, D) /\ DirsInv(dirs) /\ ino_gen = Len(dirs)
  BY DEF VfsInv
<1>3. PICK g : NamesSteps(g, dirs, mounts, path)
  BY <1>1, Resolves
<1>4. PICK h : NamesSteps(h, dirs', mounts', path)
  BY <1>1, Resolves
<1>5. Resolve(path) = g[Len(path)] /\ Resolve(path)' = h[Len(path)]
  BY <1>3, <1>4, ResolveNames, ResolveNamesNext DEF NamesSteps
<1>6. CASE DirsMore(dirs, dirs')
  <2>1. ASSUME NEW n \in 0 .. Len(path) PROVE Upto(path, n) \notin covered
    <3>1. IsPrefix(Upto(path, n), path)
      <4>1. Len(Upto(path, n)) = n /\ n <= Len(path) /\ SubSeq(Upto(path, n), 1, n) = SubSeq(path, 1, n)
        BY <1>1 DEF Upto
      <4> QED BY <4>1 DEF IsPrefix
    <3> QED BY <3>1, Zenon
  <2>2. MountsAgree(mounts, mounts', path)
    BY <2>1, Zenon DEF MountsAgree
  <2> QED BY <1>1, <1>2, <1>3, <1>4, <1>5, <1>6, <2>2, MoreNames
<1>7. CASE NewFile
  <2>1. PICK z, entry : /\ Adds(dirs, dirs', z, entry)
                        /\ \A j \in 1 .. Len(dirs[z]) : dirs[z][j].name # entry.name
                        /\ entry.inode.fs = "ramfs" /\ entry.inode.id = ino_gen + 1
    BY <1>7 DEF NewFile
  <2>2. NamesSteps(h, dirs', mounts, path)
    BY <1>4, <1>7 DEF NewFile
  <2>3. h[Len(path)] = g[Len(path)] \/ (g[Len(path)] = NoInode /\ h[Len(path)] = entry.inode)
    BY <1>1, <1>2, <1>3, <2>1, <2>2, AddedNames
  <2> QED BY <1>5, <2>1, <2>3
<1> QED BY <1>6, <1>7 DEF FilesKept

-----------------------------------------------------------------------------
(* The theorems                                                            *)

\* At any time each cached path has one dentry, which holds the inode that the
\* file systems and the mounts give the path; a ramfs directory has one dentry,
\* below which each of its files has one too, and a negative dentry stands for
\* a name that the directory does not hold (vfs.c: _vfs_dentry_child_by_name,
\* _vfs_node_lookup_rec, _vfs_mount_dev, vfs_mkdir, vfs_mknod, vfs_file_open).
THEOREM CacheIsCoherent == Spec => []VfsInv
<1>1. Init => VfsInv
  BY InitInv
<1>2. VfsInv /\ [Next]_vars => VfsInv'
  BY VfsStep
<1> QED BY <1>1, <1>2, PTL DEF Spec

\* The variables have their types, and the dentries, the children of a dentry
\* and the files of a directory stay within their limits.
THEOREM VfsTypeCorrect == Spec => []TypeOK
<1>1. VfsInv => TypeOK
  <2> SUFFICES ASSUME VfsInv PROVE TypeOK
    OBVIOUS
  <2>1. PICK D : Good(dentries, dirs, mounts, D)
    BY DEF VfsInv
  <2>2. Shaped(dentries, dirs)
    BY <2>1 DEF Good, Cached
  <2>3. DOMAIN dentries = 1 .. Len(dentries) /\ DOMAIN dirs = 1 .. Len(dirs)
    BY <2>2 DEF Shaped, VfsInv, DirsInv
  <2>4. \A d \in DOMAIN dentries :
          /\ dentries[d].name \in Names \cup {EMPTY} /\ dentries[d].inode \in Inodes
          /\ dentries[d].parent \in 0 .. Len(dentries)
          /\ Len(dentries[d].children) <= DENTRY_MAX_CHILREN_COUNT
    <3>1. \A d \in 1 .. Len(dentries) : dentries[d].name \in Segments /\ dentries[d].inode \in Inodes
      BY <2>2, ShapedTypes
    <3> QED BY <2>2, <2>3, <3>1 DEF Segments, Shaped
  <2>5. \A i \in DOMAIN dirs : Len(dirs[i]) <= RAMFS_INODE_MAX_CHILDREN_COUNT
    BY <2>3 DEF VfsInv, DirsInv
  <2> QED BY <2>2, <2>4, <2>5 DEF TypeOK, Shaped, VfsInv
<1> QED BY <1>1, CacheIsCoherent, PTL

\* The dentries hang below directories only, each name once, and each points
\* back to its parent, which _vfs_dentry_lookup asserts and vfs_mkdir,
\* vfs_mknod and vfs_file_open follow.
THEOREM DentriesAreTree == Spec => []CacheIsTree
<1>1. VfsInv => CacheIsTree
  <2> SUFFICES ASSUME VfsInv PROVE CacheIsTree
    OBVIOUS
  <2>1. PICK D : Good(dentries, dirs, mounts, D)
    BY DEF VfsInv
  <2>2. Shaped(dentries, dirs) /\ Treelike(dentries)
    BY <2>1 DEF Good, Cached
  <2>3. DOMAIN dentries = 1 .. Len(dentries)
    BY <2>2 DEF Shaped
  <2>4. \A d \in 1 .. Len(dentries) :
          /\ DOMAIN dentries[d].children = 1 .. Len(dentries[d].children)
          /\ dentries[d].children # <<>> => Len(dentries[d].children) # 0
    <3>1. \A x \in Dentries : /\ DOMAIN x.children = 1 .. Len(x.children)
                              /\ x.children # <<>> => Len(x.children) # 0
      BY DEF Dentries
    <3> QED BY <2>2, <3>1, ShapedTypes
  <2>5. ASSUME NEW d \in 1 .. Len(dentries), NEW c, c = dentries[d].children
        PROVE  /\ c # <<>> => dentries[d].inode.fmt = "DIR"
               /\ \A i \in DOMAIN c : dentries[c[i]].parent = d
               /\ \A i, j \in DOMAIN c : dentries[c[i]].name = dentries[c[j]].name => i = j
    <3>1. DOMAIN c = 1 .. Len(c) /\ (c # <<>> => Len(c) # 0)
      BY <2>4, <2>5
    <3>2. /\ Len(c) # 0 => dentries[d].inode.fmt = "DIR"
          /\ \A i \in 1 .. Len(c) : dentries[c[i]].parent = d
          /\ \A i, j \in 1 .. Len(c) : dentries[c[i]].name = dentries[c[j]].name => i = j
      BY <2>2, <2>5, Zenon DEF Treelike
    <3> QED BY <3>1, <3>2, Zenon
  <2> QED BY <2>3, <2>5, Zenon DEF CacheIsTree
<1> QED BY <1>1, CacheIsCoherent, PTL

\* No ramfs directory holds two files of one name, although _ramfs_inode_create
\* and _ramfs_inode_mknod do not look for the name before they add it.
THEOREM DirectoryNamesUnique == Spec => []NamesUnique
<1>1. VfsInv => NamesUnique
  <2> SUFFICES ASSUME VfsInv PROVE NamesUnique
    OBVIOUS
  <2>1. DOMAIN dirs = 1 .. Len(dirs) /\ \A i \in 1 .. Len(dirs) : DOMAIN dirs[i] = 1 .. Len(dirs[i])
    BY DEF VfsInv, DirsInv
  <2>2. ASSUME NEW z \in 1 .. Len(dirs)
        PROVE  \A i, j \in 1 .. Len(dirs[z]) : dirs[z][i].name = dirs[z][j].name => i = j
    BY Zenon DEF VfsInv, DirsInv
  <2>3. ASSUME NEW z \in DOMAIN dirs, NEW i \in DOMAIN dirs[z], NEW j \in DOMAIN dirs[z],
               dirs[z][i].name = dirs[z][j].name
        PROVE  i = j
    <3>1. z \in 1 .. Len(dirs)
      BY <2>1
    <3>2. i \in 1 .. Len(dirs[z]) /\ j \in 1 .. Len(dirs[z])
      BY <2>1, <3>1
    <3> QED BY <2>2, <2>3, <3>1, <3>2, Zenon
  <2> QED BY <2>3, Zenon DEF NamesUnique
<1> QED BY <1>1, CacheIsCoherent, PTL

\* The assertion of _add_inode_child cannot fail when a ramfs directory has
\* room for as many files as a dentry has for children.
THEOREM DirectoriesNeverFull == Spec => []DirectoryNeverFull
<1>1. VfsInv => DirectoryNeverFull
  BY DEF VfsInv
<1> QED BY <1>1, CacheIsCoherent, PTL

\* _vfs_dentry_lookup returns NULL only for a path without a parent directory,
\* and else the dentry with the inode that the path names: nobody can tell that
\* there is a cache.
THEOREM LookupsAreCorrect == Spec => []LookupCorrect
BY InvLookup, CacheIsCoherent, PTL

\* What a path names changes only when a mount covers it or one of its
\* ancestors, or from nothing to the file that was just created.
THEOREM NamedFilesStay == Spec => FilesStay
<1>1. VfsInv /\ [Next]_vars => [FilesStayStep]_vars
  BY VfsStep, StepStays
<1>2. FilesStay <=> [][FilesStayStep]_vars
  BY PTL DEF FilesStay, FilesStayStep
<1> QED BY <1>1, <1>2, CacheIsCoherent, PTL DEF Spec

=============================================================================

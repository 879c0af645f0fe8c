-------------------------- MODULE RamfsFileProofs --------------------------
(***************************************************************************)
(* Proofs about the module RamfsFile: the files of ramfs stay in their own *)
(* blocks of the kernel heap, a listing is complete, and ramfs implements  *)
(* the files of ByteFile.                                                  *)
(***************************************************************************)
EXTENDS RamfsFile, TLAPS, SetInduction

-----------------------------------------------------------------------------
(* The loop that doubles the allocation                                    *)

Pos == Nat \ {0}

\* g[s] is what the loop of _ramfs_reg_file_write makes of s.
Loop(g, n) == g = [s \in Pos |-> IF s >= n THEN s ELSE g[2 * s]]
\* Grown is one such function.
LEMMA IsChoice == ASSUME NEW n, NEW s PROVE Grown(s, n) = (CHOOSE g : Loop(g, n))[s]
BY DEF Grown, Loop, Pos

\* What the loop may reach from s: s and its doubles, up to the first that is
\* not below n.
Closed(S, n) == \A x \in S : x < n => 2 * x \in S
Doublings(s, n) == {t \in Pos : \A S \in SUBSET Pos : s \in S /\ Closed(S, n) => t \in S}
Reached(s, n) == CHOOSE t \in Doublings(s, n) : t >= n

LEMMA Doubled == ASSUME NEW n \in Nat, NEW s \in Pos PROVE 
   /\ s >= n => Doublings(s, n) = {s}
   /\ s < n => Doublings(s, n) = {s} \cup Doublings(2 * s, n)
<1>0. 2 * s \in Pos
  BY DEF Pos
<1>1. ASSUME s >= n PROVE Doublings(s, n) = {s}
  <2>1. {s} \in SUBSET Pos /\ Closed({s}, n)
    BY <1>1 DEF Closed, Pos
  <2> QED BY <2>1 DEF Doublings
<1>2. ASSUME s < n PROVE Doublings(s, n) = {s} \cup Doublings(2 * s, n)
  <2>1. ASSUME NEW t \in Doublings(s, n), t # s, NEW S \in SUBSET Pos, 2 * s \in S, Closed(S, n)
        PROVE  t \in S
    <3>1. S \cup {s} \in SUBSET Pos /\ Closed(S \cup {s}, n)
       BY <2>1 DEF Closed
    <3> QED BY <2>1, <3>1 DEF Doublings
  <2>2. ASSUME NEW t \in Doublings(2 * s, n), NEW S \in SUBSET Pos, s \in S, Closed(S, n)
        PROVE  t \in S
    <3>1. 2 * s \in S
       BY <1>2, <2>2 DEF Closed
    <3> QED BY <2>2, <3>1 DEF Doublings
  <2>3. s \in Doublings(s, n)
    BY DEF Doublings
  <2> QED BY <2>1, <2>2, <2>3 DEF Doublings
<1> QED BY <1>1, <1>2

LEMMA LoopExists == ASSUME NEW n \in Nat PROVE Loop([s \in Pos |-> Reached(s, n)], n)
<1> DEFINE g == [s \in Pos |-> Reached(s, n)]
<1>1. ASSUME NEW s \in Pos PROVE Reached(s, n) = IF s >= n THEN s ELSE g[2 * s]
  <2>0. 2 * s \in Pos /\ g[2 * s] = Reached(2 * s, n)
    BY DEF Pos
  <2>1. CASE s >= n
    <3>1. Reached(s, n) = CHOOSE t \in {s} : t >= n
      BY <2>1, Doubled DEF Reached
    <3> QED BY <2>1, <3>1
  <2>2. CASE s < n
    <3>1. \A t : t \in Doublings(s, n) /\ t >= n <=> t \in Doublings(2 * s, n) /\ t >= n
      BY <2>2, Doubled DEF Pos
    <3>2. Reached(s, n) = Reached(2 * s, n)
      BY <3>1 DEF Reached
    <3> QED BY <2>0, <2>2, <3>2 DEF Pos
  <2> QED BY <2>1, <2>2 DEF Pos
<1> QED BY <1>1 DEF Loop

\* One turn of the loop.
LEMMA GrownUnfold == ASSUME NEW n \in Nat, NEW s \in Pos 
   PROVE Grown(s, n) = IF s >= n THEN s ELSE Grown(2 * s, n)
<1>1. PICK g : g = CHOOSE h : Loop(h, n)
  OBVIOUS
<1>2. Loop(g, n)
  BY <1>1, LoopExists
<1>3. 2 * s \in Pos
  BY DEF Pos
<1> QED BY <1>1, <1>2, <1>3, IsChoice DEF Loop

\* The loop ends, with room for the new size.
LEMMA GrownEnough == ASSUME NEW n \in Nat, NEW s \in Pos
   PROVE Grown(s, n) \in Nat /\ Grown(s, n) >= n /\ Grown(s, n) >= s
<1> DEFINE Good(x) == Grown(x, n) \in Nat /\ Grown(x, n) >= n /\ Grown(x, n) >= x
           T == {d \in Nat : \E x \in Pos : ~ Good(x) /\ x < n /\ d = n - x}
<1>1. ASSUME NEW x \in Pos, x >= n PROVE Good(x)
  BY <1>1, GrownUnfold DEF Pos
<1>2. T = {}
  <2>1. SUFFICES ASSUME T # {} PROVE FALSE
     OBVIOUS
  <2>2. PICK d \in T : \A e \in T : d <= e
     BY <2>1, Least
  <2>3. PICK x \in Pos : ~ Good(x) /\ x < n /\ d = n - x
     BY <2>2
  <2>4. 2 * x \in Pos /\ 2 * x > x
     BY DEF Pos
  <2>5. Good(2 * x)
     <3>1. CASE 2 * x >= n
        BY <1>1, <2>4, <3>1
     <3>2. CASE 2 * x < n
        <4>1. n - 2 * x \in Nat /\ n - 2 * x < d
          BY <2>3, <2>4, <3>2 DEF Pos
        <4>2. n - 2 * x \notin T
          BY <2>2, <4>1
        <4> QED BY <2>4, <3>2, <4>1, <4>2
     <3> QED BY <2>4, <3>1, <3>2 DEF Pos
  <2>6. Grown(x, n) = Grown(2 * x, n)
     BY <2>3, GrownUnfold DEF Pos
  <2> QED BY <2>3, <2>4, <2>5, <2>6 DEF Pos
<1>3. CASE s < n
  <2>1. n - s \in Nat
    BY <1>3 DEF Pos
  <2> QED BY <1>2, <1>3, <2>1
<1> QED BY <1>1, <1>3 DEF Pos

-----------------------------------------------------------------------------
(* The inductive invariant                                                 *)

Cells == Int \cup {JUNK}
Heaps == [cursor : 0 .. HEAP_SIZE, memory : [0 .. HEAP_SIZE - 1 -> Cells]]
Nodes == [data : Nat, alloc_size : Pos, size : Nat]
Opened == [ino : Nat, pos : Nat]

\* The block of a file lies between its header and the cursor.
InBlock(h, a) ==
    /\ a.size <= a.alloc_size /\ WORD <= a.data
    /\ h.memory[a.data - WORD] = a.alloc_size /\ a.data + a.alloc_size <= h.cursor

\* Two blocks share no byte, headers included.
Disjoint(a, b) ==
    \/ a.data + a.alloc_size <= b.data - WORD
    \/ b.data + b.alloc_size <= a.data - WORD

Laid(h, nodes) ==
    /\ \A i \in DOMAIN nodes : InBlock(h, nodes[i])
    /\ \A i, j \in DOMAIN nodes : i # j => Disjoint(nodes[i], nodes[j])

Typed ==
    /\ heap \in Heaps
    /\ inodes \in Seq(Nodes) /\ Len(inodes) <= RAMFS_INODE_MAX_CHILDREN_COUNT
    /\ files \in Seq(Opened)
    /\ \A f \in DOMAIN files : files[f].ino \in DOMAIN inodes
    /\ dir \in [pos : Nat, from : Nat, listed : Seq(Nat)]
    /\ halted \in BOOLEAN

RamfsInv == Typed /\ Laid(heap, inodes) /\ ListingComplete

\* It gives the properties of the runs.
LEMMA InvGives == RamfsInv => TypeOK /\ BlocksApart /\ ListingComplete
<1>1. RamfsInv => TypeOK
    <2>1. SUFFICES ASSUME Typed PROVE TypeOK
        BY DEF RamfsInv
    <2>2. heap.cursor \in 0 .. HEAP_SIZE /\ DOMAIN heap.memory = 0 .. HEAP_SIZE - 1
        BY <2>1 DEF Typed, Heaps
    <2>3. \A i \in DOMAIN inodes : inodes[i] \in [data : Nat, alloc_size : Nat, size : Nat]
        <3>1. inodes \in Seq(Nodes)
            BY <2>1 DEF Typed
        <3>2. \A i \in DOMAIN inodes : inodes[i] \in Nodes
            BY <3>1
        <3> QED BY <3>2 DEF Nodes, Pos
    <2>4. \A f \in DOMAIN files : files[f].pos \in Nat
        <3>1. files \in Seq(Opened)
            BY <2>1 DEF Typed
        <3>2. \A f \in DOMAIN files : files[f] \in Opened
            BY <3>1
        <3> QED BY <3>2 DEF Opened
    <2> QED BY <2>1, <2>2, <2>3, <2>4 DEF Typed, TypeOK
<1>2. RamfsInv => BlocksApart
    <2>1. RamfsInv => Laid(heap, inodes)
        BY DEF RamfsInv
    <2> QED BY <2>1 DEF Laid, InBlock, Disjoint, BlocksApart
<1> QED BY <1>1, <1>2 DEF RamfsInv

-----------------------------------------------------------------------------
(* The heap                                                                *)

LEMMA Constants ==
    /\ WORD \in Pos /\ META_SIZE \in Nat /\ HEAP_SIZE \in Nat
    /\ RAMFS_INITIAL_FILE_ALLOC \in Pos /\ RAMFS_INODE_MAX_CHILDREN_COUNT \in Nat
BY RamfsFileAssumption DEF Pos

LEMMA DivMod ==
    ASSUME NEW p \in Nat, NEW b \in Pos
    PROVE  \E q \in Nat, r \in 0 .. b - 1 :
               q = p \div b /\ r = p % b /\ q * b + r = p
<1>1. p \div b \in Nat /\ p % b \in 0 .. b - 1
    BY DEF Pos
<1>2. PICK q \in Nat, r \in 0 .. b - 1 : q = p \div b /\ r = p % b
    BY <1>1
<1>3. p = b * q + r
    BY <1>2 DEF Pos
<1>4. q * b = b * q
    BY DEF Pos
<1> QED BY <1>2, <1>3, <1>4

\* The next block begins behind this one.
LEMMA CursorMoves ==
    ASSUME NEW cursor \in Nat, NEW size \in Nat
    PROVE  /\ CursorAfter(cursor, size) \in Nat
           /\ CursorAfter(cursor, size) >= cursor + WORD + size
<1>1. PICK w \in Pos : w = WORD
    BY Constants
<1>2. PICK p \in Nat : p = cursor + w + size + w - 1
    BY DEF Pos
<1>3. PICK q \in Nat, r \in 0 .. w - 1 : q = p \div w /\ r = p % w /\ q * w + r = p
    BY DivMod
<1>4. CursorAfter(cursor, size) = q * w
    BY <1>1, <1>2, <1>3 DEF CursorAfter
<1>5. PICK z \in Nat : z = q * w
    BY DEF Pos
<1>6. z + r = cursor + w + size + w - 1 /\ r <= w - 1
    BY <1>2, <1>3, <1>5
<1>7. z >= cursor + w + size
    BY <1>6 DEF Pos
<1> QED BY <1>1, <1>4, <1>5, <1>7

\* memory_calloc: what is below the cursor stays.
LEMMA Callocs ==
    ASSUME NEW h \in Heaps, NEW size \in Nat, Fits(h, size), NEW n, n = Calloc(h, size)
    PROVE  /\ n \in Heaps /\ n.cursor >= h.cursor + WORD + size
           /\ n.memory[h.cursor] = size
           /\ \A x \in 0 .. HEAP_SIZE - 1 : x < h.cursor => n.memory[x] = h.memory[x]
           /\ Allocated(h) = h.cursor + WORD /\ h.cursor \in Nat /\ n.cursor \in Nat
           /\ n.cursor <= HEAP_SIZE
<1>1. PICK c \in Nat, m \in [0 .. HEAP_SIZE - 1 -> Cells] :
          c = h.cursor /\ m = h.memory /\ c <= HEAP_SIZE
    BY Constants DEF Heaps
<1>2. PICK w \in Pos, s \in Nat : w = WORD /\ s = HEAP_SIZE
    BY Constants
<1>3. PICK d \in Nat : d = CursorAfter(c, size) /\ d >= c + w + size /\ d <= s
    BY <1>1, <1>2, CursorMoves DEF Fits
<1>4. PICK k : k = [x \in 0 .. s - 1 |-> IF x = c THEN size
                                          ELSE IF x \in c + w .. c + w + size - 1 THEN 0
                                          ELSE m[x]]
    OBVIOUS
<1>5. n = [cursor |-> d, memory |-> k]
    <2>1. DOMAIN h.memory = 0 .. s - 1
        BY <1>1, <1>2
    <2>2. ASSUME NEW x \in 0 .. s - 1
          PROVE  (CASE x = c -> size [] x \in c + w .. c + w + size - 1 -> 0 [] OTHER -> m[x])
                 = IF x = c THEN size ELSE IF x \in c + w .. c + w + size - 1 THEN 0 ELSE m[x]
        <3>1. c \notin c + w .. c + w + size - 1
            BY DEF Pos
        <3> QED BY <3>1
    <2>3. n.memory = k
        BY <1>1, <1>2, <1>4, <2>1, <2>2 DEF Calloc, Allocated
    <2> QED BY <1>1, <1>3, <2>3 DEF Calloc
<1>6. ASSUME NEW x \in 0 .. s - 1
      PROVE  /\ k[x] \in Cells
             /\ x = c => k[x] = size
             /\ x < c => k[x] = m[x]
    <2>1. CASE x = c
        BY <1>1, <1>4, <2>1 DEF Cells
    <2>2. CASE x # c /\ x \in c + w .. c + w + size - 1
        BY <1>4, <2>2 DEF Cells, Pos
    <2>3. CASE x # c /\ x \notin c + w .. c + w + size - 1
        <3>1. k[x] = m[x]
            BY <1>4, <2>3
        <3> QED BY <1>2, <2>3, <3>1
    <2> QED BY <2>1, <2>2, <2>3
<1>7. k \in [0 .. s - 1 -> Cells]
    BY <1>4, <1>6
<1>8. c \in 0 .. s - 1
    BY <1>3 DEF Pos
<1>9. n \in Heaps
    BY <1>2, <1>3, <1>5, <1>7 DEF Heaps
<1> QED BY <1>1, <1>2, <1>3, <1>5, <1>6, <1>8, <1>9 DEF Allocated

\* _memcpy within the section.
Wrote(k, m, address, data) ==
    /\ k \in [0 .. HEAP_SIZE - 1 -> Cells]
    /\ \A x \in 0 .. HEAP_SIZE - 1 :
          k[x] = IF x \in address .. address + Len(data) - 1 THEN data[x - address + 1] ELSE m[x]

LEMMA Copies ==
    ASSUME NEW m \in [0 .. HEAP_SIZE - 1 -> Cells], NEW address \in Nat, NEW data \in Seq(Cells)
    PROVE  Wrote(Copied(m, address, data), m, address, data)
<1>1. PICK k : k = Copied(m, address, data)
    OBVIOUS
<1>2. k = [x \in 0 .. HEAP_SIZE - 1 |-> IF x \in address .. address + Len(data) - 1
                                        THEN data[x - address + 1] ELSE m[x]]
    BY <1>1 DEF Copied
<1>3. ASSUME NEW x \in 0 .. HEAP_SIZE - 1 PROVE k[x] \in Cells
    <2>1. CASE x \in address .. address + Len(data) - 1
        <3>1. x - address + 1 \in 1 .. Len(data)
            BY <2>1
        <3> QED BY <1>2, <2>1, <3>1
    <2>2. CASE x \notin address .. address + Len(data) - 1
        BY <1>2, <2>2
    <2> QED BY <2>1, <2>2
<1>4. k \in [0 .. HEAP_SIZE - 1 -> Cells]
    BY <1>2, <1>3
<1> QED BY <1>1, <1>2, <1>4 DEF Wrote

\* memory_realloc: a new block behind the cursor, with the bytes of the old.
LEMMA Reallocs ==
    ASSUME NEW h \in Heaps, NEW a \in Nodes, InBlock(h, a), NEW size \in Nat,
           size > a.alloc_size, Fits(h, size), NEW n, n = Realloc(h, a.data, size)
    PROVE  /\ n \in Heaps /\ n.cursor >= h.cursor + WORD + size
           /\ n.memory[h.cursor] = size
           /\ \A x \in 0 .. HEAP_SIZE - 1 : x < h.cursor => n.memory[x] = h.memory[x]
           /\ \A i \in 0 .. a.alloc_size - 1 :
                  n.memory[h.cursor + WORD + i] = h.memory[a.data + i]
<1>1. PICK c : c = Calloc(h, size)
    OBVIOUS
<1>2. /\ c \in Heaps /\ c.cursor >= h.cursor + WORD + size
      /\ c.memory[h.cursor] = size
      /\ \A x \in 0 .. HEAP_SIZE - 1 : x < h.cursor => c.memory[x] = h.memory[x]
      /\ Allocated(h) = h.cursor + WORD /\ h.cursor \in Nat /\ c.cursor \in Nat
      /\ c.cursor <= HEAP_SIZE
    BY <1>1, Callocs
<1>3. PICK w \in Pos, s \in Nat, p \in Nat, d \in Nat, l \in Pos :
          /\ w = WORD /\ s = HEAP_SIZE /\ p = h.cursor /\ d = a.data /\ l = a.alloc_size
    BY <1>2, Constants DEF Nodes
<1>4. d + l <= p /\ h.memory[d - w] = l /\ p + w + size <= s /\ size > l
    <2>1. d + l <= p /\ h.memory[d - w] = l /\ size > l
        BY <1>3 DEF InBlock
    <2>2. PICK e \in Nat : e >= p + w + size /\ e <= s
        BY <1>2, <1>3
    <2>3. p + w + size <= s
        BY <2>2 DEF Pos
    <2> QED BY <2>1, <2>3
<1>5. PICK m \in [0 .. s - 1 -> Cells] : m = c.memory
    BY <1>2, <1>3 DEF Heaps
<1>6. PICK old : old = [i \in 1 .. l |-> m[d + i - 1]]
    OBVIOUS
<1>7. old \in Seq(Cells) /\ Len(old) = l
    <2>1. \A i \in 1 .. l : d + i - 1 \in 0 .. s - 1
        BY <1>4 DEF Pos
    <2>2. \A i \in 1 .. l : m[d + i - 1] \in Cells
        BY <2>1
    <2> QED BY <1>6, <2>2 DEF Pos
<1>8. n = [c EXCEPT !.memory = Copied(m, p + w, old)]
    BY <1>1, <1>2, <1>3, <1>4, <1>5, <1>6 DEF Realloc, BytesAt
<1>9. PICK k : k = Copied(m, p + w, old) /\ Wrote(k, m, p + w, old)
    BY <1>3, <1>5, <1>7, Copies, SMTT(30) DEF Pos
<1>10. n.memory = k /\ n.cursor = c.cursor /\ n \in Heaps
    <2>1. k \in [0 .. HEAP_SIZE - 1 -> Cells]
        BY <1>9 DEF Wrote
    <2>2. n = [c EXCEPT !.memory = k]
        BY <1>8, <1>9
    <2> QED BY <1>2, <2>1, <2>2 DEF Heaps
<1>11. ASSUME NEW x \in 0 .. s - 1, x < p + w PROVE k[x] = m[x]
    <2>1. x \notin p + w .. p + w + Len(old) - 1
        BY <1>11 DEF Pos
    <2> QED BY <1>3, <1>9, <2>1 DEF Wrote
<1>12. ASSUME NEW i \in 0 .. l - 1 PROVE k[p + w + i] = h.memory[d + i]
    <2>1. PICK x \in 0 .. s - 1, y \in 0 .. s - 1, j \in 1 .. l :
              x = p + w + i /\ y = d + i /\ j = i + 1 /\ y < p
        BY <1>4 DEF Pos
    <2>2. x \in p + w .. p + w + Len(old) - 1 /\ x - (p + w) + 1 = j
        BY <1>7, <2>1 DEF Pos
    <2>3. k[x] = old[j]
        BY <1>3, <1>9, <2>2 DEF Wrote
    <2>4. old[j] = m[y]
        <3>1. d + j - 1 = y
            BY <2>1
        <3> QED BY <1>6, <3>1
    <2>5. m[y] = h.memory[y]
        BY <1>2, <1>3, <1>5, <2>1
    <2> QED BY <2>1, <2>3, <2>4, <2>5
<1>13. k[p] = size
    <2>1. p \in 0 .. s - 1 /\ p < p + w
        BY <1>4 DEF Pos
    <2> QED BY <1>2, <1>3, <1>5, <1>11, <2>1
<1>14. \A x \in 0 .. s - 1 : x < p => k[x] = h.memory[x]
    <2>1. \A x \in 0 .. s - 1 : x < p => x < p + w
        BY DEF Pos
    <2> QED BY <1>2, <1>3, <1>5, <1>11, <2>1
<1> QED BY <1>2, <1>3, <1>10, <1>12, <1>13, <1>14

\* What a write of data at start does to the heap h and to the inode a.
Overwrites(h, k, a, b, start, data) ==
    /\ k \in Heaps /\ b \in Nodes /\ InBlock(k, b) /\ h.cursor <= k.cursor
    /\ \/ b.data = a.data /\ b.alloc_size = a.alloc_size
       \/ h.cursor <= b.data - WORD
    /\ \A x \in 0 .. HEAP_SIZE - 1 :
          x < h.cursor /\ x \notin a.data .. a.data + a.alloc_size - 1 => k.memory[x] = h.memory[x]
    /\ b.size = MaxOf(start + Len(data), a.size)
    /\ \A i \in 0 .. b.size - 1 :
          k.memory[b.data + i] = IF i \in start .. start + Len(data) - 1
                                 THEN data[i - start + 1] ELSE h.memory[a.data + i]

\* The block b, which holds the bytes of a and has room for the new size.
Moved(h, n, a, address, alloc_size) ==
    /\ n \in Heaps /\ h.cursor <= n.cursor /\ address \in Nat /\ WORD <= address
    /\ alloc_size \in Pos /\ a.alloc_size <= alloc_size
    /\ address + alloc_size <= n.cursor /\ n.memory[address - WORD] = alloc_size
    /\ \/ address = a.data /\ alloc_size = a.alloc_size
       \/ h.cursor <= address - WORD
    /\ \A x \in 0 .. HEAP_SIZE - 1 : x < h.cursor => n.memory[x] = h.memory[x]
    /\ \A i \in 0 .. a.alloc_size - 1 : n.memory[address + i] = h.memory[a.data + i]

LEMMA Moves ==
    ASSUME NEW h \in Heaps, NEW a \in Nodes, InBlock(h, a), NEW alloc_size \in Pos,
           alloc_size >= a.alloc_size, NEW grows \in BOOLEAN, grows <=> alloc_size > a.alloc_size,
           grows => Fits(h, alloc_size), NEW n, NEW address,
           n = IF grows THEN Realloc(h, a.data, alloc_size) ELSE h,
           address = IF grows THEN Allocated(h) ELSE a.data
    PROVE  Moved(h, n, a, address, alloc_size)
<1>1. PICK w \in Pos, s \in Nat, c \in Nat, d \in Nat, l \in Pos :
          /\ w = WORD /\ s = HEAP_SIZE /\ c = h.cursor /\ d = a.data /\ l = a.alloc_size
    BY Constants DEF Heaps, Nodes
<1>2. CASE ~ grows
    <2>1. n = h /\ address = d /\ alloc_size = l
        <3>1. ~ (alloc_size > a.alloc_size)
            BY <1>2
        <3>2. alloc_size >= l /\ ~ (alloc_size > l)
            BY <1>1, <3>1
        <3>3. alloc_size = l
            BY <3>2 DEF Pos
        <3> QED BY <1>1, <1>2, <3>3
    <2>2. d + l <= c /\ w <= d /\ h.memory[d - w] = l
        BY <1>1 DEF InBlock
    <2> QED BY <1>1, <2>1, <2>2 DEF Moved
<1>3. CASE grows
    <2>1. n = Realloc(h, a.data, alloc_size) /\ address = c + w
        BY <1>1, <1>3 DEF Allocated
    <2>2. alloc_size > a.alloc_size /\ Fits(h, alloc_size) /\ alloc_size \in Nat
        BY <1>3 DEF Pos
    <2>3. /\ n \in Heaps /\ n.cursor >= h.cursor + WORD + alloc_size
          /\ n.memory[h.cursor] = alloc_size
          /\ \A x \in 0 .. HEAP_SIZE - 1 : x < h.cursor => n.memory[x] = h.memory[x]
          /\ \A i \in 0 .. a.alloc_size - 1 :
                 n.memory[h.cursor + WORD + i] = h.memory[a.data + i]
        BY <2>1, <2>2, Reallocs
    <2>4. PICK e \in Nat : e = n.cursor /\ e >= c + w + alloc_size
        BY <1>1, <2>3, Constants DEF Heaps
    <2>5. /\ c <= e /\ c + w \in Nat /\ w <= c + w /\ (c + w) + alloc_size <= e
          /\ (c + w) - w = c
        BY <2>2, <2>4 DEF Pos
    <2>6. \A i \in 0 .. a.alloc_size - 1 : n.memory[address + i] = h.memory[a.data + i]
        BY <1>1, <2>1, <2>3
    <2> QED BY <1>1, <2>1, <2>2, <2>3, <2>4, <2>5, <2>6 DEF Moved
<1> QED BY <1>2, <1>3

\* Where a copy of t bytes at start lands in a block at ad that holds size bytes.
LEMMA Headers ==
    ASSUME NEW w \in Nat, NEW ad \in Nat, NEW al \in Nat, NEW e \in Nat, NEW s \in Nat,
           NEW start \in Nat, NEW t \in Nat, 0 < w, w <= ad, 0 < al, ad + al <= e, e <= s
    PROVE  ad - w \in 0 .. s - 1 /\ ad - w \notin ad + start .. ad + start + t - 1
OBVIOUS

LEMMA Elsewhere ==
    ASSUME NEW w \in Nat, NEW ad \in Nat, NEW al \in Nat, NEW c \in Nat, NEW d \in Nat,
           NEW l \in Nat, NEW start \in Nat, NEW t \in Nat, NEW x \in Nat,
           (ad = d /\ al = l) \/ c <= ad - w, start + t <= al, x < c,
           x \notin d .. d + l - 1
    PROVE  x \notin ad + start .. ad + start + t - 1
OBVIOUS

LEMMA Within ==
    ASSUME NEW ad \in Nat, NEW al \in Nat, NEW e \in Nat, NEW s \in Nat, NEW size \in Nat,
           NEW i \in 0 .. size - 1, size <= al, ad + al <= e, e <= s
    PROVE  ad + i \in 0 .. s - 1
OBVIOUS

Lands(i, start, t, x, at) ==
    /\ i \in start .. start + t - 1 <=> x \in at .. at + t - 1
    /\ x - at + 1 = i - start + 1

LEMMA Landing ==
    ASSUME NEW ad \in Nat, NEW start \in Nat, NEW t \in Nat, NEW i \in Nat
    PROVE  Lands(i, start, t, ad + i, ad + start)
BY DEF Lands

LEMMA Kept ==
    ASSUME NEW start \in Nat, NEW t \in Nat, NEW size \in Nat, NEW z \in Nat, NEW l \in Nat,
           start <= z, z <= l, size = z \/ size = start + t, NEW i \in 0 .. size - 1
    PROVE  i \in 0 .. l - 1 \/ i \in start .. start + t - 1
OBVIOUS

\* The copy into the block.
LEMMA MovedWrites ==
    ASSUME NEW h \in Heaps, NEW a \in Nodes, InBlock(h, a), NEW n, NEW address,
           NEW alloc_size, Moved(h, n, a, address, alloc_size), NEW start \in Nat,
           NEW data \in Seq(Int), start <= a.size, NEW size \in Nat,
           size = MaxOf(start + Len(data), a.size), size <= alloc_size, NEW k,
           k = [n EXCEPT !.memory = Copied(n.memory, address + start, data)], NEW b,
           b = [data |-> address, alloc_size |-> alloc_size, size |-> size]
    PROVE  Overwrites(h, k, a, b, start, data)
<1>1. PICK w \in Pos, s \in Nat, c \in Nat, d \in Nat, l \in Pos, z \in Nat :
          /\ w = WORD /\ s = HEAP_SIZE /\ c = h.cursor /\ d = a.data /\ l = a.alloc_size
          /\ z = a.size
    BY Constants DEF Heaps, Nodes
<1>2. PICK t \in Nat : t = Len(data)
    OBVIOUS
<1>3. PICK ad \in Nat, al \in Pos, e \in Nat, m \in [0 .. s - 1 -> Cells] :
          ad = address /\ al = alloc_size /\ e = n.cursor /\ m = n.memory
    BY <1>1, Constants DEF Moved, Heaps
<1>4. /\ c <= e /\ w <= ad /\ l <= al /\ ad + al <= e /\ m[ad - w] = al /\ e <= s
      /\ (ad = d /\ al = l) \/ c <= ad - w
      /\ \A x \in 0 .. s - 1 : x < c => m[x] = h.memory[x]
      /\ \A i \in 0 .. l - 1 : m[ad + i] = h.memory[d + i]
    <2>1. e <= s
        BY <1>1, <1>3 DEF Moved, Heaps
    <2> QED BY <1>1, <1>3, <2>1 DEF Moved
<1>5. start <= z /\ z <= l /\ d + l <= c /\ w <= d /\ size <= al
      /\ start + t <= size /\ z <= size /\ (size = z \/ size = start + t)
    BY <1>1, <1>2, <1>3 DEF InBlock, MaxOf
<1>6. /\ c <= e /\ w <= ad /\ l <= al /\ ad + al <= e /\ e <= s
      /\ (ad = d /\ al = l) \/ c <= ad - w
      /\ w \in Nat /\ l \in Nat /\ al \in Nat /\ 0 < w /\ 0 < l /\ 0 < al
    <2>1. \A x \in Pos : x \in Nat /\ 0 < x
        BY DEF Pos
    <2> QED BY <1>4, <2>1, Zenon
<1>7. data \in Seq(Cells)
    BY DEF Cells
<1>8. PICK at \in Nat : at = ad + start
    OBVIOUS
<1>9. PICK g : g = Copied(m, at, data) /\ Wrote(g, m, at, data)
    BY <1>1, <1>3, <1>7, Copies
<1>10. k = [n EXCEPT !.memory = g]
    BY <1>3, <1>8, <1>9
<1>11. k \in Heaps /\ k.memory = g /\ k.cursor = e
    <2>1. n \in Heaps
        BY DEF Moved
    <2>2. g \in [0 .. HEAP_SIZE - 1 -> Cells]
        BY <1>9 DEF Wrote
    <2> QED BY <1>3, <1>10, <2>1, <2>2 DEF Heaps
<1>12. /\ \A x \in 0 .. s - 1 : x \notin at .. at + t - 1 => g[x] = m[x]
       /\ \A x \in 0 .. s - 1 : x \in at .. at + t - 1 => g[x] = data[x - at + 1]
    BY <1>1, <1>2, <1>9 DEF Wrote
<1>13. b \in Nodes /\ b.data = ad /\ b.alloc_size = al /\ b.size = size
    BY <1>3 DEF Nodes
<1>14. InBlock(k, b)
    <2>1. ad - w \in 0 .. s - 1 /\ ad - w \notin ad + start .. ad + start + t - 1
        BY <1>6, Headers, ZenonT(40)
    <2>2. ad - w \notin at .. at + t - 1
        BY <1>8, <2>1
    <2>3. g[ad - w] = al
        BY <1>4, <1>12, <2>1, <2>2
    <2> QED BY <1>1, <1>4, <1>5, <1>11, <1>13, <2>3 DEF InBlock
<1>15. ASSUME NEW x \in 0 .. s - 1, x < c, x \notin d .. d + l - 1 PROVE g[x] = h.memory[x]
    <2>1. x \notin at .. at + t - 1
        <3>1. start + t <= al /\ x \in Nat
            BY <1>5, <1>6, SMTT(30)
        <3>2. x \notin ad + start .. ad + start + t - 1
            BY <1>6, <1>15, <3>1, Elsewhere, ZenonT(40)
        <3> QED BY <1>8, <3>2
    <2> QED BY <1>4, <1>12, <1>15, <2>1
<1>16. ASSUME NEW i \in 0 .. size - 1
       PROVE  g[ad + i] = IF i \in start .. start + t - 1 THEN data[i - start + 1]
                          ELSE h.memory[d + i]
    <2>1. PICK x \in 0 .. s - 1 : x = ad + i
        BY <1>5, <1>6, Within, Zenon
    <2>4. i \in Nat
        OBVIOUS
    <2>5. /\ i \in start .. start + t - 1 <=> x \in at .. at + t - 1
          /\ x - at + 1 = i - start + 1
        <3>1. Lands(i, start, t, ad + i, ad + start)
            BY <2>4, Landing, Zenon
        <3> QED BY <1>8, <2>1, <3>1, Zenon DEF Lands
    <2>2. CASE i \in start .. start + t - 1
        <3>1. x \in at .. at + t - 1 /\ x - at + 1 = i - start + 1
            BY <2>5, <2>2
        <3> QED BY <1>12, <2>1, <2>2, <3>1
    <2>3. CASE i \notin start .. start + t - 1
        <3>1. x \notin at .. at + t - 1 /\ i \in 0 .. l - 1
            <4>1. i \in 0 .. l - 1
                BY <1>5, <1>6, <2>3, Kept, Zenon
            <4> QED BY <2>3, <2>5, <4>1, Zenon
        <3> QED BY <1>4, <1>12, <2>1, <2>3, <3>1
    <2> QED BY <2>2, <2>3
<1> QED BY <1>1, <1>2, <1>4, <1>11, <1>13, <1>14, <1>15, <1>16, SMTT(30) DEF Overwrites

LEMMA Fields ==
    /\ WORD \in Nat /\ 0 < WORD /\ HEAP_SIZE \in Nat
    /\ \A h \in Heaps : h.cursor \in Nat /\ h.cursor <= HEAP_SIZE
    /\ \A a \in Nodes : /\ a.data \in Nat /\ a.alloc_size \in Nat /\ a.size \in Nat
                         /\ 0 < a.alloc_size
<1>1. WORD \in Nat /\ 0 < WORD /\ HEAP_SIZE \in Nat
    BY Constants DEF Pos
<1>2. ASSUME NEW h \in Heaps PROVE h.cursor \in Nat /\ h.cursor <= HEAP_SIZE
    BY <1>1 DEF Heaps
<1>3. ASSUME NEW a \in Nodes
      PROVE  a.data \in Nat /\ a.alloc_size \in Nat /\ a.size \in Nat /\ 0 < a.alloc_size
    BY DEF Nodes, Pos
<1> QED BY <1>1, <1>2, <1>3

\* The header and the bytes of the block of c are the same in both heaps.
Untouched(h, k, c) ==
    /\ k.memory[c.data - WORD] = h.memory[c.data - WORD]
    /\ \A i \in 0 .. c.alloc_size - 1 : k.memory[c.data + i] = h.memory[c.data + i]

\* The addresses of a block, header included.
LEMMA Addresses ==
    ASSUME NEW w \in Nat, NEW d \in Nat, NEW l \in Nat, NEW p \in Nat, NEW s \in Nat,
           0 < w, 0 < l, w <= d, d + l <= p, p <= s
    PROVE  /\ d - w \in 0 .. s - 1 /\ d - w < p
           /\ \A i \in 0 .. l - 1 : d + i \in 0 .. s - 1 /\ d + i < p
OBVIOUS

LEMMA Outside ==
    ASSUME NEW w \in Nat, NEW d \in Nat, NEW l \in Nat, NEW e \in Nat, NEW g \in Nat,
           0 < w, 0 < l, 0 < g, w <= d, w <= e, d + l <= e - w \/ e + g <= d - w
    PROVE  /\ d - w \notin e .. e + g - 1
           /\ \A i \in 0 .. l - 1 : d + i \notin e .. e + g - 1
OBVIOUS

LEMMA Untouches ==
    ASSUME NEW h \in Heaps, NEW k \in Heaps, NEW c \in Nodes, InBlock(h, c),
           h.cursor <= k.cursor, Untouched(h, k, c)
    PROVE  InBlock(k, c)
<1>1. PICK w \in Pos, p \in Nat, q \in Nat, d \in Nat, l \in Pos :
          w = WORD /\ p = h.cursor /\ q = k.cursor /\ d = c.data /\ l = c.alloc_size
    BY Constants DEF Heaps, Nodes
<1>2. d + l <= p /\ p <= q
    BY <1>1 DEF InBlock
<1>3. d + l <= q
    BY <1>2 DEF Pos
<1> QED BY <1>1, <1>3 DEF InBlock, Untouched

\* Blocks below the cursor survive what changes nothing below the cursor.
LEMMA BelowUntouched ==
    ASSUME NEW h \in Heaps, NEW k \in Heaps, NEW c \in Nodes, InBlock(h, c),
           \A x \in 0 .. HEAP_SIZE - 1 : x < h.cursor => k.memory[x] = h.memory[x]
    PROVE  Untouched(h, k, c)
<1>1. PICK w \in Nat, s \in Nat, p \in Nat, d \in Nat, l \in Nat :
          /\ w = WORD /\ s = HEAP_SIZE /\ p = h.cursor /\ d = c.data /\ l = c.alloc_size
          /\ 0 < w /\ 0 < l /\ p <= s
    BY Fields, Zenon
<1>2. w <= d /\ d + l <= p
    BY <1>1 DEF InBlock
<1>3. /\ d - w \in 0 .. s - 1 /\ d - w < p
      /\ \A i \in 0 .. l - 1 : d + i \in 0 .. s - 1 /\ d + i < p
    BY <1>1, <1>2, Addresses
<1> QED BY <1>1, <1>3 DEF Untouched

\* And they survive a write to another file, whose block may have moved.
LEMMA OthersUntouched ==
    ASSUME NEW h \in Heaps, NEW k, NEW a \in Nodes, NEW b, NEW c \in Nodes,
           NEW start, NEW data, Overwrites(h, k, a, b, start, data),
           InBlock(h, a), InBlock(h, c), Disjoint(a, c)
    PROVE  Untouched(h, k, c) /\ InBlock(k, c) /\ Disjoint(b, c) /\ Disjoint(c, b)
<1>1. PICK w \in Nat, s \in Nat, p \in Nat, d \in Nat, l \in Nat, e \in Nat, g \in Nat :
          /\ w = WORD /\ s = HEAP_SIZE /\ p = h.cursor /\ d = c.data /\ l = c.alloc_size
          /\ e = a.data /\ g = a.alloc_size
          /\ 0 < w /\ 0 < l /\ 0 < g /\ p <= s
    BY Fields, Zenon
<1>2. w <= d /\ d + l <= p /\ w <= e /\ (d + l <= e - w \/ e + g <= d - w)
    BY <1>1 DEF InBlock, Disjoint
<1>3. /\ d - w \in 0 .. s - 1 /\ d - w < p
      /\ \A i \in 0 .. l - 1 : d + i \in 0 .. s - 1 /\ d + i < p
    BY <1>1, <1>2, Addresses
<1>4. /\ d - w \notin e .. e + g - 1
      /\ \A i \in 0 .. l - 1 : d + i \notin e .. e + g - 1
    BY <1>1, <1>2, Outside
<1>5. \A x \in 0 .. s - 1 : x < p /\ x \notin e .. e + g - 1 => k.memory[x] = h.memory[x]
    BY <1>1 DEF Overwrites
<1>6. Untouched(h, k, c)
    BY <1>1, <1>3, <1>4, <1>5 DEF Untouched
<1>7. InBlock(k, c)
    BY <1>6, Untouches DEF Overwrites
<1>8. Disjoint(b, c) /\ Disjoint(c, b)
    <2>1. CASE b.data = a.data /\ b.alloc_size = a.alloc_size
        BY <2>1 DEF Disjoint
    <2>2. CASE h.cursor <= b.data - WORD
        <3>1. PICK f \in Nat : f = b.data
            BY DEF Overwrites, Nodes
        <3>2. d + l <= f - w
            BY <1>1, <1>2, <2>2, <3>1
        <3> QED BY <1>1, <3>1, <3>2 DEF Disjoint
    <2> QED BY <2>1, <2>2 DEF Overwrites
<1> QED BY <1>6, <1>7, <1>8

\* A write leaves the blocks apart.
LEMMA WriteLaid ==
    ASSUME NEW h \in Heaps, NEW nodes \in Seq(Nodes), Laid(h, nodes), NEW ino \in DOMAIN nodes,
           NEW k, NEW b, NEW start, NEW data, Overwrites(h, k, nodes[ino], b, start, data)
    PROVE  /\ Laid(k, [nodes EXCEPT ![ino] = b])
           /\ \A j \in DOMAIN nodes : j # ino => Untouched(h, k, nodes[j])
<1>1. \A j \in DOMAIN nodes : nodes[j] \in Nodes
    OBVIOUS
<1>2. PICK a \in Nodes : a = nodes[ino]
    BY <1>1
<1>3. InBlock(h, a) /\ Overwrites(h, k, a, b, start, data)
    BY <1>2 DEF Laid
<1>4. ASSUME NEW j \in DOMAIN nodes, j # ino
      PROVE  /\ Untouched(h, k, nodes[j]) /\ InBlock(k, nodes[j])
             /\ Disjoint(b, nodes[j]) /\ Disjoint(nodes[j], b)
    <2>1. PICK c \in Nodes : c = nodes[j]
        BY <1>1
    <2>2. InBlock(h, c) /\ Disjoint(a, c)
        BY <1>2, <1>4, <2>1 DEF Laid
    <2> QED BY <1>3, <2>1, <2>2, OthersUntouched
<1>5. InBlock(k, b)
    BY <1>3 DEF Overwrites
<1>6. PICK new : new = [nodes EXCEPT ![ino] = b]
    OBVIOUS
<1>7. DOMAIN new = DOMAIN nodes /\ new[ino] = b
      /\ \A j \in DOMAIN nodes : j # ino => new[j] = nodes[j]
    BY <1>6
<1>8. \A j \in DOMAIN new : InBlock(k, new[j])
    BY <1>4, <1>5, <1>7
<1>9. ASSUME NEW i \in DOMAIN new, NEW j \in DOMAIN new, i # j PROVE Disjoint(new[i], new[j])
    <2>1. CASE i = ino
        BY <1>4, <1>7, <1>9, <2>1
    <2>2. CASE j = ino
        BY <1>4, <1>7, <1>9, <2>2
    <2>3. CASE i # ino /\ j # ino
        BY <1>7, <1>9, <2>3 DEF Laid
    <2> QED BY <2>1, <2>2, <2>3
<1> QED BY <1>4, <1>6, <1>8, <1>9 DEF Laid

-----------------------------------------------------------------------------
(* The calls                                                               *)

\* A write that succeeds.
Written(ino, start, f, data) ==
    /\ ~ halted /\ start <= inodes[ino].size
    /\ \E b \in Nodes : /\ Overwrites(heap, heap', inodes[ino], b, start, data)
                        /\ inodes' = [inodes EXCEPT ![ino] = b]
    /\ files' = [files EXCEPT ![f].pos = start + Len(data)]
    /\ ret' = Returned(Len(data), <<>>) /\ dir' = dir /\ halted' = halted

LEMMA Opens ==
    ASSUME RamfsInv, NEW f \in DOMAIN files
    PROVE  /\ files[f].ino \in DOMAIN inodes /\ files[f].pos \in Nat
           /\ inodes[files[f].ino] \in Nodes /\ InBlock(heap, inodes[files[f].ino])
           /\ files[f] \in Opened
<1>1. files \in Seq(Opened) /\ files[f].ino \in DOMAIN inodes /\ inodes \in Seq(Nodes)
    BY DEF RamfsInv, Typed
<1>2. files[f] \in Opened
    BY <1>1
<1>3. files[f].pos \in Nat
    BY <1>2 DEF Opened
<1>4. inodes[files[f].ino] \in Nodes
    BY <1>1
<1> QED BY <1>1, <1>2, <1>3, <1>4 DEF RamfsInv, Laid

LEMMA Writes ==
    ASSUME RamfsInv, NEW f \in DOMAIN files, NEW data \in Buffers, Write(f, data)
    PROVE  \/ Written(files[f].ino, files[f].pos, f, data)
           \/ ~ halted /\ Halt
           \/ ~ halted /\ Fail
<1>1. PICK ino \in DOMAIN inodes, start \in Nat, a \in Nodes :
          ino = files[f].ino /\ start = files[f].pos /\ a = inodes[ino] /\ InBlock(heap, a)
    BY Opens
<1>2. data \in Seq(Int) /\ heap \in Heaps
    BY RamfsFileAssumption DEF RamfsInv, Typed
<1>3. PICK size : size = MaxOf(start + Len(data), a.size)
    OBVIOUS
<1>4. size \in Nat
    <2>1. a.size \in Nat /\ start + Len(data) \in Nat
        BY <1>2, Fields
    <2> QED BY <1>3, <2>1 DEF MaxOf
<1>5. PICK al : al = Grown(a.alloc_size, size)
    OBVIOUS
<1>6. al \in Pos /\ al >= size /\ al >= a.alloc_size
    <2>1. a.alloc_size \in Pos
        BY DEF Nodes
    <2>2. al \in Nat /\ al >= size /\ al >= a.alloc_size
        BY <1>4, <1>5, <2>1, GrownEnough
    <2> QED BY <2>1, <2>2 DEF Pos
<1>7. PICK grows \in BOOLEAN : grows <=> al > a.alloc_size
    OBVIOUS
<1>8. PICK n : n = IF grows THEN Realloc(heap, a.data, al) ELSE heap
    OBVIOUS
<1>9. PICK address : address = IF grows THEN Allocated(heap) ELSE a.data
    OBVIOUS
<1>10. PICK b : b = [data |-> address, alloc_size |-> al, size |-> size]
    OBVIOUS
<1>11. PICK k : k = [n EXCEPT !.memory = Copied(n.memory, address + start, data)]
    OBVIOUS
<1>12. /\ ~ halted
       /\ IF start > a.size THEN Fail
          ELSE IF grows /\ ~ Fits(heap, al) THEN Halt
          ELSE /\ heap' = k /\ inodes' = [inodes EXCEPT ![ino] = b]
               /\ files' = [files EXCEPT ![f].pos = start + Len(data)]
               /\ ret' = Returned(Len(data), <<>>)
               /\ UNCHANGED <<dir, halted>>
    BY <1>1, <1>3, <1>5, <1>7, <1>8, <1>9, <1>10, <1>11, Zenon DEF Write
<1>13. CASE ~ (start > a.size) /\ ~ (grows /\ ~ Fits(heap, al))
    <2>1. start <= a.size /\ size <= al
        BY <1>4, <1>6, <1>13, Fields DEF Pos
    <2>2. Moved(heap, n, a, address, al)
        BY <1>1, <1>2, <1>6, <1>7, <1>8, <1>9, <1>13, Moves
    <2>3. Overwrites(heap, k, a, b, start, data)
        BY <1>1, <1>2, <1>3, <1>4, <1>10, <1>11, <2>1, <2>2, MovedWrites
    <2>4. b \in Nodes
        BY <2>3 DEF Overwrites
    <2> QED BY <1>1, <1>12, <1>13, <2>1, <2>3, <2>4 DEF Written
<1> QED BY <1>12, <1>13

\* Nothing below the cursor changed.
Extended(h, k) ==
    /\ k \in Heaps /\ h.cursor <= k.cursor
    /\ \A x \in 0 .. HEAP_SIZE - 1 : x < h.cursor => k.memory[x] = h.memory[x]

LEMMA CallocExtends ==
    ASSUME NEW h \in Heaps, NEW size \in Nat, Fits(h, size), NEW k, k = Calloc(h, size)
    PROVE  /\ Extended(h, k) /\ k.cursor >= h.cursor + WORD + size
           /\ k.memory[h.cursor] = size /\ Allocated(h) = h.cursor + WORD
<1>1. /\ k \in Heaps /\ k.cursor >= h.cursor + WORD + size
      /\ k.memory[h.cursor] = size
      /\ \A x \in 0 .. HEAP_SIZE - 1 : x < h.cursor => k.memory[x] = h.memory[x]
      /\ Allocated(h) = h.cursor + WORD
    BY Callocs
<1>2. PICK w \in Nat, p \in Nat, q \in Nat : w = WORD /\ p = h.cursor /\ q = k.cursor
    BY <1>1, Fields, Zenon
<1>3. p <= q
    BY <1>1, <1>2
<1> QED BY <1>1, <1>2, <1>3 DEF Extended

LEMMA ExtendedTwice ==
    ASSUME NEW h \in Heaps, NEW m, NEW k, Extended(h, m), Extended(m, k)
    PROVE  Extended(h, k)
<1>1. PICK p \in Nat, q \in Nat, r \in Nat : p = h.cursor /\ q = m.cursor /\ r = k.cursor
    BY Fields, Zenon DEF Extended
<1>2. p <= q /\ q <= r
    BY <1>1 DEF Extended
<1>3. p <= r /\ \A x \in 0 .. HEAP_SIZE - 1 : x < p => x < q
    BY <1>2, Constants
<1> QED BY <1>1, <1>3 DEF Extended

LEMMA ExtendedLaid ==
    ASSUME NEW h \in Heaps, NEW k, Extended(h, k), NEW nodes \in Seq(Nodes), Laid(h, nodes)
    PROVE  Laid(k, nodes) /\ \A i \in DOMAIN nodes : Untouched(h, k, nodes[i])
<1>1. ASSUME NEW i \in DOMAIN nodes PROVE Untouched(h, k, nodes[i]) /\ InBlock(k, nodes[i])
    <2>1. PICK c \in Nodes : c = nodes[i]
        OBVIOUS
    <2>2. InBlock(h, c) /\ k \in Heaps /\ h.cursor <= k.cursor
        BY <2>1 DEF Laid, Extended
    <2>3. Untouched(h, k, c)
        BY <2>2, BelowUntouched DEF Extended
    <2>4. InBlock(k, c)
        BY <2>2, <2>3, Untouches
    <2> QED BY <2>1, <2>3, <2>4
<1> QED BY <1>1 DEF Laid

\* The new inode of _ramfs_inode_create, in a block behind all others.
Created(b) ==
    /\ Extended(heap, heap') /\ b \in Nodes /\ InBlock(heap', b) /\ b.size = 0
    /\ heap.cursor <= b.data - WORD
    /\ inodes' = Append(inodes, b) /\ Len(inodes) # RAMFS_INODE_MAX_CHILDREN_COUNT

LEMMA Creates ==
    ASSUME RamfsInv, Create
    PROVE  /\ ~ halted
           /\ \/ /\ \E b \in Nodes : Created(b)
                 /\ ret' = Done /\ UNCHANGED <<files, dir, halted>>
              \/ Halt
<1>1. PICK meta : meta = Calloc(heap, META_SIZE)
    OBVIOUS
<1>2. PICK new : new = Calloc(meta, RAMFS_INITIAL_FILE_ALLOC)
    OBVIOUS
<1>3. PICK b : b = [data |-> Allocated(meta), alloc_size |-> RAMFS_INITIAL_FILE_ALLOC,
                    size |-> 0]
    OBVIOUS
<1>4. /\ ~ halted
      /\ \/ Halt
         \/ /\ Fits(heap, META_SIZE) /\ Fits(meta, RAMFS_INITIAL_FILE_ALLOC)
            /\ Len(inodes) # RAMFS_INODE_MAX_CHILDREN_COUNT
            /\ heap' = new /\ inodes' = Append(inodes, b)
            /\ ret' = Done /\ UNCHANGED <<files, dir, halted>>
    BY <1>1, <1>2, <1>3, Zenon DEF Create
<1>5. ASSUME Fits(heap, META_SIZE), Fits(meta, RAMFS_INITIAL_FILE_ALLOC), heap' = new,
             inodes' = Append(inodes, b), Len(inodes) # RAMFS_INODE_MAX_CHILDREN_COUNT
      PROVE  Created(b)
    <2>1. PICK w \in Nat, l \in Nat, y \in Nat :
              w = WORD /\ l = RAMFS_INITIAL_FILE_ALLOC /\ y = META_SIZE /\ 0 < w /\ 0 < l
        BY Constants, Fields DEF Pos
    <2>2. heap \in Heaps
        BY DEF RamfsInv, Typed
    <2>3. Extended(heap, meta) /\ meta.cursor >= heap.cursor + w + y
        BY <1>1, <1>5, <2>1, <2>2, CallocExtends
    <2>4. meta \in Heaps
        BY <2>3 DEF Extended
    <2>5. /\ Extended(meta, new) /\ new.cursor >= meta.cursor + w + l
          /\ new.memory[meta.cursor] = l /\ Allocated(meta) = meta.cursor + w
        BY <1>2, <1>5, <2>1, <2>4, CallocExtends
    <2>6. Extended(heap, new)
        BY <2>2, <2>3, <2>5, ExtendedTwice
    <2>7. PICK p \in Nat, q \in Nat, r \in Nat :
              p = heap.cursor /\ q = meta.cursor /\ r = new.cursor
        BY <2>2, <2>4, <2>5, Fields, Zenon DEF Extended
    <2>8. q >= p + w + y /\ r >= q + w + l
        BY <2>3, <2>5, <2>7
    <2>9. w <= q + w /\ q + w - w = q /\ (q + w) + l <= r /\ p <= q /\ q + w \in Nat
        BY <2>1, <2>8
    <2>10. b.data = q + w /\ b.alloc_size = l /\ b.size = 0 /\ b \in Nodes
        <3>1. b = [data |-> q + w, alloc_size |-> l, size |-> 0]
            BY <1>3, <2>1, <2>5, <2>7
        <3>2. l \in Pos
            BY <2>1 DEF Pos
        <3> QED BY <2>9, <3>1, <3>2 DEF Nodes
    <2>11. InBlock(new, b)
        <3>1. 0 <= l
            OBVIOUS
        <3> QED BY <2>1, <2>5, <2>7, <2>9, <2>10, <3>1 DEF InBlock
    <2> QED BY <1>5, <2>1, <2>6, <2>7, <2>9, <2>10, <2>11 DEF Created
<1>6. ASSUME Created(b) PROVE \E c \in Nodes : Created(c)
    BY <1>6 DEF Created
<1> QED BY <1>4, <1>5, <1>6

\* And the blocks stay apart.
LEMMA CreatedLaid ==
    ASSUME RamfsInv, NEW b, Created(b)
    PROVE  Laid(heap', inodes') /\ \A i \in DOMAIN inodes : Untouched(heap, heap', inodes[i])
<1>1. heap \in Heaps /\ inodes \in Seq(Nodes) /\ Laid(heap, inodes)
    BY DEF RamfsInv, Typed
<1>2. Laid(heap', inodes) /\ \A i \in DOMAIN inodes : Untouched(heap, heap', inodes[i])
    BY <1>1, ExtendedLaid DEF Created
<1>3. PICK l \in Nat : l = Len(inodes)
    BY <1>1
<1>4. /\ DOMAIN inodes' = 1 .. l + 1 /\ inodes'[l + 1] = b
      /\ \A i \in DOMAIN inodes : inodes'[i] = inodes[i]
      /\ \A i \in DOMAIN inodes' : i \in DOMAIN inodes \/ i = l + 1
    BY <1>1, <1>3 DEF Created
<1>5. ASSUME NEW i \in DOMAIN inodes PROVE Disjoint(inodes[i], b) /\ Disjoint(b, inodes[i])
    <2>1. PICK c \in Nodes : c = inodes[i]
        BY <1>1
    <2>2. InBlock(heap, c)
        BY <1>1, <2>1 DEF Laid
    <2>3. PICK w \in Nat, p \in Nat, d \in Nat, e \in Nat, g \in Nat :
              w = WORD /\ p = heap.cursor /\ d = b.data /\ e = c.data /\ g = c.alloc_size
        BY <1>1, Fields, Zenon DEF Created
    <2>4. p <= d - w /\ e + g <= p
        BY <2>2, <2>3 DEF Created, InBlock
    <2>5. e + g <= d - w
        BY <2>4
    <2> QED BY <2>1, <2>3, <2>5 DEF Disjoint
<1>6. ASSUME NEW i \in DOMAIN inodes', NEW j \in DOMAIN inodes', i # j
      PROVE  Disjoint(inodes'[i], inodes'[j])
    <2>1. CASE i = l + 1
        BY <1>4, <1>5, <1>6, <2>1
    <2>2. CASE j = l + 1
        BY <1>4, <1>5, <1>6, <2>2
    <2>3. CASE i # l + 1 /\ j # l + 1
        BY <1>2, <1>4, <1>6, <2>3 DEF Laid
    <2> QED BY <2>1, <2>2, <2>3
<1>7. ASSUME NEW i \in DOMAIN inodes' PROVE InBlock(heap', inodes'[i])
    BY <1>2, <1>4 DEF Laid, Created
<1> QED BY <1>2, <1>6, <1>7 DEF Laid

-----------------------------------------------------------------------------
(* The invariant is inductive                                              *)

\* The position of one open file moves.
Repositioned ==
    /\ files' \in Seq(Opened) /\ DOMAIN files' = DOMAIN files
    /\ \A i \in DOMAIN files : files'[i].ino = files[i].ino

LEMMA Moving ==
    ASSUME RamfsInv, NEW f \in DOMAIN files, NEW p \in Nat,
           files' = [files EXCEPT ![f].pos = p]
    PROVE  Repositioned
<1>1. files \in Seq(Opened) /\ files[f] \in Opened
    BY Opens DEF RamfsInv, Typed
<1>2. PICK e \in Opened : e = [files[f] EXCEPT !.pos = p] /\ e.ino = files[f].ino
    BY <1>1 DEF Opened
<1>3. files' = [files EXCEPT ![f] = e]
    BY <1>2
<1>4. files' \in Seq(Opened) /\ DOMAIN files' = DOMAIN files
    BY <1>1, <1>3
<1>5. \A i \in DOMAIN files : files'[i].ino = files[i].ino
    BY <1>2, <1>3
<1> QED BY <1>4, <1>5 DEF Repositioned

LEMMA MovesInv ==
    ASSUME RamfsInv, NEW f \in DOMAIN files, NEW p \in Nat,
           files' = [files EXCEPT ![f].pos = p], UNCHANGED <<heap, inodes, dir, halted>>
    PROVE  RamfsInv'
<1>1. Typed'
    BY Moving DEF RamfsInv, Typed, Repositioned
<1> QED BY <1>1 DEF RamfsInv, ListingComplete

LEMMA HaltInv == ASSUME RamfsInv, Halt PROVE RamfsInv'
BY DEF Halt, RamfsInv, Typed, ListingComplete

LEMMA FailInv == ASSUME RamfsInv, Fail PROVE RamfsInv'
BY DEF Fail, RamfsInv, Typed, ListingComplete

LEMMA CreateInv == ASSUME RamfsInv, Create PROVE RamfsInv'
<1>1. CASE Halt
    BY <1>1, HaltInv
<1>2. ASSUME NEW b \in Nodes, Created(b), UNCHANGED <<files, dir, halted>> PROVE RamfsInv'
    <2>1. Laid(heap', inodes')
        BY <1>2, CreatedLaid
    <2>2. heap' \in Heaps
        BY <1>2 DEF Created, Extended
    <2>3. PICK l \in Nat, m \in Nat :
              l = Len(inodes) /\ m = RAMFS_INODE_MAX_CHILDREN_COUNT /\ l <= m /\ l # m
        BY <1>2, Constants DEF RamfsInv, Typed, Created
    <2>4. inodes' \in Seq(Nodes) /\ Len(inodes') = l + 1 /\ DOMAIN inodes \subseteq DOMAIN inodes'
        BY <1>2, <2>3 DEF RamfsInv, Typed, Created
    <2>5. l + 1 <= m
        BY <2>3
    <2>6. Typed'
        BY <1>2, <2>2, <2>3, <2>4, <2>5 DEF RamfsInv, Typed
    <2> QED BY <1>2, <2>1, <2>6 DEF RamfsInv, ListingComplete
<1> QED BY <1>1, <1>2, Creates

LEMMA OpenInv == ASSUME RamfsInv, NEW ino \in DOMAIN inodes, Open(ino) PROVE RamfsInv'
<1>1. CASE Halt
    BY <1>1, HaltInv
<1>2. CASE ~ Halt
    <2>1. /\ Fits(heap, META_SIZE) /\ heap' = Calloc(heap, META_SIZE)
          /\ files' = Append(files, [ino |-> ino, pos |-> 0])
          /\ UNCHANGED <<inodes, dir, halted>>
        BY <1>2 DEF Open
    <2>2. heap \in Heaps /\ inodes \in Seq(Nodes) /\ Laid(heap, inodes) /\ files \in Seq(Opened)
        BY DEF RamfsInv, Typed
    <2>3. Extended(heap, heap')
        BY <2>1, <2>2, Constants, CallocExtends
    <2>4. Laid(heap', inodes') /\ heap' \in Heaps
        BY <2>1, <2>2, <2>3, ExtendedLaid DEF Extended
    <2>5. PICK e \in Opened : e = [ino |-> ino, pos |-> 0] /\ e.ino = ino
        <3>1. ino \in Nat
            BY <2>2
        <3>2. [ino |-> ino, pos |-> 0] \in Opened
            BY <3>1 DEF Opened
        <3> QED BY <3>2
    <2>6. files' \in Seq(Opened) /\ \A f \in DOMAIN files' : files'[f].ino \in DOMAIN inodes'
        <3>1. files' = Append(files, e)
            BY <2>1, <2>5
        <3>2. \A f \in DOMAIN files' : (f \in DOMAIN files /\ files'[f] = files[f]) \/ files'[f] = e
            BY <2>2, <3>1
        <3>3. \A f \in DOMAIN files : files[f].ino \in DOMAIN inodes
            BY DEF RamfsInv, Typed
        <3> QED BY <2>1, <2>2, <2>5, <3>1, <3>2, <3>3
    <2>7. Typed'
        BY <2>1, <2>4, <2>6 DEF RamfsInv, Typed
    <2> QED BY <2>1, <2>4, <2>7 DEF RamfsInv, ListingComplete
<1> QED BY <1>1, <1>2

LEMMA ReadInv ==
    ASSUME RamfsInv, NEW f \in DOMAIN files, NEW size \in ReadSizes, Read(f, size)
    PROVE  RamfsInv'
<1>1. CASE Fail
    BY <1>1, FailInv
<1>2. CASE ~ Fail
    <2>1. PICK p : p = MinOf(files[f].pos + size, inodes[files[f].ino].size)
        OBVIOUS
    <2>2. files' = [files EXCEPT ![f].pos = p] /\ UNCHANGED <<heap, inodes, dir, halted>>
        BY <1>2, <2>1 DEF Read
    <2>3. p \in Nat
        <3>1. files[f].pos \in Nat /\ inodes[files[f].ino].size \in Nat /\ size \in Nat
            BY Opens, Fields, RamfsFileAssumption
        <3> QED BY <2>1, <3>1 DEF MinOf
    <2> QED BY <2>2, <2>3, MovesInv
<1> QED BY <1>1, <1>2

LEMMA SeekInv ==
    ASSUME RamfsInv, NEW f \in DOMAIN files, NEW offset \in Offsets, NEW whence \in Whences,
           Seek(f, offset, whence)
    PROVE  RamfsInv'
<1>1. CASE Fail \/ Halt
    BY <1>1, FailInv, HaltInv
<1>2. CASE ~ Fail /\ ~ Halt
    <2>1. PICK r : r = CASE whence = "SEEK_SET" -> 0
                         [] whence = "SEEK_END" -> inodes[files[f].ino].size
                         [] OTHER -> files[f].pos
        OBVIOUS
    <2>2. /\ ~ (r + offset < 0) /\ files' = [files EXCEPT ![f].pos = r + offset]
          /\ UNCHANGED <<heap, inodes, dir, halted>>
        BY <1>2, <2>1 DEF Seek
    <2>3. r \in Nat /\ offset \in Int
        <3>1. files[f].pos \in Nat /\ inodes[files[f].ino].size \in Nat /\ offset \in Int
            BY Opens, Fields, RamfsFileAssumption
        <3> QED BY <2>1, <3>1
    <2>4. r + offset \in Nat
        BY <2>2, <2>3
    <2> QED BY <2>2, <2>4, MovesInv
<1> QED BY <1>1, <1>2

LEMMA WriteInv ==
    ASSUME RamfsInv, NEW f \in DOMAIN files, NEW data \in Buffers, Write(f, data)
    PROVE  RamfsInv'
<1>1. CASE Fail \/ Halt
    BY <1>1, FailInv, HaltInv
<1>2. CASE Written(files[f].ino, files[f].pos, f, data)
    <2>1. PICK ino \in DOMAIN inodes, start \in Nat : ino = files[f].ino /\ start = files[f].pos
        BY Opens
    <2>2. PICK b \in Nodes : /\ Overwrites(heap, heap', inodes[ino], b, start, data)
                             /\ inodes' = [inodes EXCEPT ![ino] = b]
        BY <1>2, <2>1 DEF Written
    <2>3. heap \in Heaps /\ inodes \in Seq(Nodes) /\ Laid(heap, inodes)
        BY DEF RamfsInv, Typed
    <2>4. Laid(heap', inodes') /\ heap' \in Heaps
        <3>1. Laid(heap', [inodes EXCEPT ![ino] = b])
            BY <2>2, <2>3, WriteLaid, ZenonT(30)
        <3> QED BY <2>2, <3>1, Zenon DEF Overwrites
    <2>5. inodes' \in Seq(Nodes) /\ Len(inodes') = Len(inodes) /\ DOMAIN inodes' = DOMAIN inodes
        BY <2>2, <2>3
    <2>6. start + Len(data) \in Nat
        BY RamfsFileAssumption
    <2>10. PICK p \in Nat : p = start + Len(data)
        BY <2>6
    <2>7. files' = [files EXCEPT ![f].pos = p] /\ dir' = dir /\ halted' = halted
        BY <1>2, <2>1, <2>10 DEF Written
    <2>8. Repositioned
        BY <2>7, Moving, Zenon
    <2>9. Typed'
        BY <2>4, <2>5, <2>7, <2>8 DEF RamfsInv, Typed, Repositioned
    <2> QED BY <2>4, <2>7, <2>9 DEF RamfsInv, ListingComplete
<1> QED BY <1>1, <1>2, Writes

\* The children that a call of _ramfs_dir_readdir lists follow those listed before.
Counted(l, from, n) == Len(l) = n /\ \A i \in 1 .. n : l[i] = from + i

LEMMA Counts ==
    ASSUME NEW from \in Nat, NEW n \in Nat, NEW l, l = [i \in 1 .. n |-> from + i]
    PROVE  l \in Seq(Nat) /\ Counted(l, from, n)
BY DEF Counted

LEMMA CountsBack ==
    ASSUME NEW from \in Nat, NEW n \in Nat, NEW l \in Seq(Nat), Counted(l, from, n)
    PROVE  l = [i \in 1 .. n |-> from + i]
BY DEF Counted

LEMMA Joins ==
    ASSUME NEW l \in Seq(Nat), NEW m \in Seq(Nat)
    PROVE  /\ l \o m \in Seq(Nat) /\ Len(l \o m) = Len(l) + Len(m)
           /\ \A i \in 1 .. Len(l) : (l \o m)[i] = l[i]
           /\ \A j \in 1 .. Len(m) : (l \o m)[Len(l) + j] = m[j]
OBVIOUS

LEMMA Lists ==
    ASSUME NEW from \in Nat, NEW l \in Seq(Nat), NEW n \in Nat, Counted(l, from, n),
           NEW pos \in Nat, pos = from + n, NEW d \in Nat, NEW m \in Seq(Nat),
           Counted(m, pos, d)
    PROVE  l \o m \in Seq(Nat) /\ Counted(l \o m, from, n + d)
<1>1. PICK k \in Seq(Nat) : k = l \o m
    BY Joins
<1>2. Len(l) = n /\ Len(m) = d /\ Len(k) = n + d
    BY <1>1, Joins DEF Counted
<1>3. ASSUME NEW i \in 1 .. n + d PROVE k[i] = from + i
    <2>1. CASE i \in 1 .. n
        <3>1. k[i] = l[i]
            BY <1>1, <1>2, <2>1, Joins
        <3> QED BY <2>1, <3>1 DEF Counted
    <2>2. CASE i \notin 1 .. n
        <3>1. PICK j \in 1 .. d : i = n + j
            <4>1. i - n \in 1 .. d /\ i = n + (i - n)
                BY <2>2
            <4> QED BY <4>1
        <3>2. k[i] = m[j]
            BY <1>1, <1>2, <3>1, Joins
        <3>3. m[j] = pos + j
            BY DEF Counted
        <3>4. pos + j = from + i
            BY <3>1
        <3> QED BY <3>2, <3>3, <3>4
    <2> QED BY <2>1, <2>2
<1> QED BY <1>1, <1>2, <1>3 DEF Counted

LEMMA ReaddirInv == ASSUME RamfsInv, NEW count \in ReadSizes, Readdir(count) PROVE RamfsInv'
<1>1. PICK pos \in Nat, from \in Nat, l \in Seq(Nat), n \in Nat :
          /\ pos = dir.pos /\ from = dir.from /\ l = dir.listed /\ n = Len(inodes)
          /\ dir = [pos |-> pos, from |-> from, listed |-> l]
    <2>1. dir \in [pos : Nat, from : Nat, listed : Seq(Nat)] /\ Len(inodes) \in Nat
        BY DEF RamfsInv, Typed
    <2> QED BY <2>1, SMTT(30)
<1>2. PICK t \in Nat : t = Len(l)
    OBVIOUS
<1>3. pos = from + t /\ Counted(l, from, t)
    <2>1. l = [i \in 1 .. t |-> from + i] /\ pos = from + t
        BY <1>1, <1>2 DEF RamfsInv, ListingComplete
    <2> QED BY <2>1, Counts
<1>4. PICK c \in Nat : c = count
    BY RamfsFileAssumption
<1>5. PICK e : e = ListedEnd(count)
    OBVIOUS
<1>6. e \in Nat /\ e = IF pos < n /\ 0 < c THEN (IF pos + c < n THEN pos + c ELSE n) ELSE pos
    BY <1>1, <1>4, <1>5 DEF ListedEnd, MaxOf, MinOf
<1>7. PICK d \in Int : d = MinOf(e, n) - pos
    BY <1>6 DEF MinOf
<1>8. dir' = [pos |-> e, from |-> from, listed |-> l \o [i \in 1 .. d |-> pos + i]]
    BY <1>1, <1>5, <1>7 DEF Readdir
<1>9. PICK g \in Nat : 1 .. d = 1 .. g /\ e = pos + g
    <2>1. CASE pos < n /\ 0 < c
        <3>1. d \in Nat /\ e = pos + d
            BY <1>6, <1>7, <2>1 DEF MinOf
        <3> QED BY <3>1
    <2>2. CASE ~ (pos < n /\ 0 < c)
        <3>1. e = pos /\ d <= 0
            BY <1>6, <1>7, <2>2 DEF MinOf
        <3>2. 1 .. d = 1 .. 0 /\ e = pos + 0
            BY <3>1
        <3> QED BY <3>2
    <2> QED BY <2>1, <2>2
<1>10. PICK m : m = [i \in 1 .. g |-> pos + i]
    OBVIOUS
<1>11. m \in Seq(Nat) /\ Counted(m, pos, g)
    BY <1>10, Counts
<1>12. PICK k : k = l \o m
    OBVIOUS
<1>13. dir' = [pos |-> e, from |-> from, listed |-> k]
    BY <1>8, <1>9, <1>10, <1>12
<1>14. k \in Seq(Nat) /\ Counted(k, from, t + g)
    BY <1>3, <1>11, <1>12, Lists
<1>15. PICK u \in Nat : u = t + g /\ e = from + u
    BY <1>9, <1>3
<1>16. ListingComplete'
    <2>1. Len(k) = u
        BY <1>14, <1>15 DEF Counted
    <2>2. k = [i \in 1 .. u |-> from + i]
        BY <1>14, <1>15, CountsBack
    <2>3. dir'.listed = k /\ dir'.pos = e /\ dir'.from = from
        BY <1>13
    <2> QED BY <1>15, <2>1, <2>2, <2>3, Zenon DEF ListingComplete
<1>17. dir' \in [pos : Nat, from : Nat, listed : Seq(Nat)]
    BY <1>6, <1>13, <1>14
<1>18. UNCHANGED <<heap, inodes, files, halted>>
    BY DEF Readdir
<1>19. Typed'
    BY <1>17, <1>18 DEF RamfsInv, Typed
<1> QED BY <1>16, <1>18, <1>19 DEF RamfsInv

LEMMA DirSeekInv ==
    ASSUME RamfsInv, NEW offset \in Offsets, NEW whence \in Whences, DirSeek(offset, whence)
    PROVE  RamfsInv'
<1>1. PICK p \in 0 .. MaxPos : dir' = [pos |-> p, from |-> p, listed |-> <<>>]
    BY DEF DirSeek
<1>2. p \in Nat /\ <<>> \in Seq(Nat) /\ Len(<<>>) = 0
    BY RamfsFileAssumption
<1>3. ListingComplete'
    <2>1. <<>> = [i \in 1 .. 0 |-> p + i]
        OBVIOUS
    <2> QED BY <1>1, <1>2, <2>1 DEF ListingComplete
<1>4. dir' \in [pos : Nat, from : Nat, listed : Seq(Nat)]
    BY <1>1, <1>2
<1>5. UNCHANGED <<heap, inodes, files, halted>>
    BY DEF DirSeek
<1>6. Typed'
    BY <1>4, <1>5 DEF RamfsInv, Typed
<1> QED BY <1>3, <1>5, <1>6 DEF RamfsInv

\* After memory_allocator_init nothing is allocated.
LEMMA InitInv == Init => RamfsInv
<1> SUFFICES ASSUME Init PROVE RamfsInv
    OBVIOUS
<1>1. heap \in Heaps
    BY Constants DEF Init, NewHeap, Heaps, Cells
<1>2. dir = [pos |-> 0, from |-> 0, listed |-> <<>>]
    BY DEF Init, Rewound
<1>3. ListingComplete
    <2>1. <<>> = [i \in 1 .. 0 |-> 0 + i]
        OBVIOUS
    <2> QED BY <1>2, <2>1 DEF ListingComplete
<1>4. Typed
    <2>1. dir \in [pos : Nat, from : Nat, listed : Seq(Nat)]
        BY <1>2
    <2>2. inodes \in Seq(Nodes) /\ Len(inodes) <= RAMFS_INODE_MAX_CHILDREN_COUNT
        BY Constants DEF Init
    <2>3. files \in Seq(Opened) /\ \A f \in DOMAIN files : files[f].ino \in DOMAIN inodes
        BY DEF Init
    <2> QED BY <1>1, <2>1, <2>2, <2>3 DEF Init, Typed
<1>5. Laid(heap, inodes)
    BY DEF Init, Laid
<1> QED BY <1>3, <1>4, <1>5 DEF RamfsInv

LEMMA RebootInv == ASSUME Reboot PROVE RamfsInv'
<1>1. Init'
    BY DEF Reboot, Init
<1> QED BY <1>1, InitInv, PTL

LEMMA StepInv == RamfsInv /\ [Next]_vars => RamfsInv'
<1> SUFFICES ASSUME RamfsInv, [Next]_vars PROVE RamfsInv'
    OBVIOUS
<1>1. CASE UNCHANGED vars
    BY <1>1 DEF vars, RamfsInv, Typed, ListingComplete
<1>2. CASE Next
    BY <1>2, CreateInv, RebootInv, OpenInv, ReadInv, WriteInv, SeekInv, ReaddirInv, DirSeekInv
       DEF Next
<1> QED BY <1>1, <1>2

\* The blocks of the files stay in their section of the heap, apart from each
\* other, and listings stay complete (RamfsInv).
THEOREM FilesLaid == Spec => []RamfsInv
<1> QED BY InitInv, StepInv, PTL DEF Spec

-----------------------------------------------------------------------------
(* The abstract files                                                      *)

\* u is s, of length m, and then t, of length n.
Joined(u, s, m, t, n) ==
    /\ u \in Seq(Cells) /\ Len(u) = m + n
    /\ \A i \in 1 .. m : u[i] = s[i]
    /\ \A j \in 1 .. n : u[m + j] = t[j]

LEMMA Concats ==
    ASSUME NEW s \in Seq(Cells), NEW t \in Seq(Cells), NEW m \in Nat, Len(s) = m,
           NEW n \in Nat, Len(t) = n
    PROVE  Joined(s \o t, s, m, t, n)
BY DEF Joined

LEMMA Prefix ==
    ASSUME NEW s \in Seq(Cells), NEW m \in Nat, m <= Len(s), NEW p, p = SubSeq(s, 1, m)
    PROVE  p \in Seq(Cells) /\ Len(p) = m /\ \A i \in 1 .. m : p[i] = s[i]
OBVIOUS

LEMMA Suffix ==
    ASSUME NEW s \in Seq(Cells), NEW n \in Nat, n = Len(s), NEW m \in Nat,
           NEW p, p = SubSeq(s, m + 1, n), NEW r \in Nat,
           m <= n => r = n - m, m > n => r = 0
    PROVE  p \in Seq(Cells) /\ Len(p) = r /\ \A j \in 1 .. r : p[j] = s[m + j]
<1>1. CASE m <= n
    BY <1>1
<1>2. CASE m > n
    <2>1. p = <<>>
        BY <1>2
    <2> QED BY <1>2, <2>1
<1> QED BY <1>1, <1>2

\* o is bytes with t bytes of data at start, byte by byte.
ByByte(o, bytes, start, data, t, size) ==
    /\ o \in Seq(Cells) /\ Len(o) = size
    /\ \A i \in 1 .. size :
          o[i] = IF i \in start + 1 .. start + t THEN data[i - start] ELSE bytes[i]

LEMMA OverwrittenBytes ==
    ASSUME NEW bytes \in Seq(Cells), NEW n \in Nat, n = Len(bytes),
           NEW data \in Seq(Cells), NEW t \in Nat, t = Len(data),
           NEW start \in Nat, start <= n, NEW size \in Nat, size >= n, size >= start + t,
           size = n \/ size = start + t,
           NEW o, o = Files!Overwritten(bytes, start, data)
    PROVE  ByByte(o, bytes, start, data, t, size)
<1>1. PICK p : p = SubSeq(bytes, 1, start)
    OBVIOUS
<1>2. p \in Seq(Cells) /\ Len(p) = start /\ \A i \in 1 .. start : p[i] = bytes[i]
    BY <1>1, Prefix
<1>3. PICK m \in Nat : m = start + t
    OBVIOUS
<1>4. PICK r \in Nat : (m <= n => r = n - m) /\ (m > n => r = 0)
    <2>1. CASE m <= n
        <3>1. n - m \in Nat /\ ~ (m > n)
            BY <2>1
        <3> QED BY <3>1
    <2>2. CASE m > n
        <3>1. ~ (m <= n) /\ 0 \in Nat
            BY <2>2
        <3> QED BY <3>1
    <2> QED BY <2>1, <2>2
<1>5. PICK q : q = SubSeq(bytes, m + 1, n)
    OBVIOUS
<1>6. q \in Seq(Cells) /\ Len(q) = r /\ \A j \in 1 .. r : q[j] = bytes[m + j]
    BY <1>4, <1>5, Suffix
<1>7. PICK u : u = p \o data
    OBVIOUS
<1>8. Joined(u, p, start, data, t)
    BY <1>2, <1>7, Concats
<1>9. u \in Seq(Cells) /\ Len(u) = m
    BY <1>3, <1>8 DEF Joined
<1>10. o = u \o q
    BY <1>1, <1>3, <1>5, <1>7 DEF Files!Overwritten
<1>11. Joined(o, u, m, q, r)
    BY <1>6, <1>10, <1>9, Concats
<1>12. m + r = size
    BY <1>3, <1>4
<1>13. ASSUME NEW i \in 1 .. size
       PROVE  o[i] = IF i \in start + 1 .. start + t THEN data[i - start] ELSE bytes[i]
    <2>1. CASE i <= start
        <3>1. i \in 1 .. m /\ i \in 1 .. start /\ i \notin start + 1 .. start + t
            BY <1>3, <2>1
        <3> QED BY <1>2, <1>8, <1>11, <3>1 DEF Joined
    <2>2. CASE i > start /\ i <= m
        <3>1. PICK j \in 1 .. t : i = start + j /\ j = i - start
            BY <1>3, <2>2
        <3>2. i \in 1 .. m /\ i \in start + 1 .. start + t
            BY <1>3, <2>2
        <3> QED BY <1>8, <1>11, <3>1, <3>2 DEF Joined
    <2>3. CASE i > m
        <3>1. PICK j \in 1 .. r : i = m + j
            <4>1. i - m \in 1 .. r /\ i = m + (i - m)
                BY <1>12, <2>3
            <4> QED BY <4>1
        <3>2. i \notin start + 1 .. start + t
            BY <1>3, <2>3
        <3> QED BY <1>6, <1>11, <3>1, <3>2 DEF Joined
    <2> QED BY <1>3, <2>1, <2>2, <2>3
<1> QED BY <1>11, <1>12, <1>13 DEF Joined, ByByte

\* The bytes of a file in a heap.
Bytes(h, a) == BytesAt(h.memory, a.data, a.size)

LEMMA BytesHeld ==
    ASSUME NEW h \in Heaps, NEW a \in Nodes, InBlock(h, a)
    PROVE  /\ Bytes(h, a) \in Seq(Cells) /\ Len(Bytes(h, a)) = a.size
           /\ \A i \in 1 .. a.size : Bytes(h, a)[i] = h.memory[a.data + (i - 1)]
<1>1. PICK w \in Nat, s \in Nat, p \in Nat, d \in Nat, l \in Nat, z \in Nat :
          /\ w = WORD /\ s = HEAP_SIZE /\ p = h.cursor /\ d = a.data /\ l = a.alloc_size
          /\ z = a.size /\ p <= s
    BY Fields, Zenon
<1>2. z <= l /\ d + l <= p
    BY <1>1 DEF InBlock
<1>3. PICK m \in [0 .. s - 1 -> Cells] : m = h.memory
    BY <1>1 DEF Heaps
<1>4. PICK b : b = [i \in 1 .. z |-> m[d + i - 1]]
    OBVIOUS
<1>5. \A i \in 1 .. z : d + i - 1 \in 0 .. s - 1 /\ d + i - 1 = d + (i - 1)
    BY <1>1, <1>2, SMTT(30)
<1>6. \A i \in 1 .. z : m[d + i - 1] \in Cells /\ m[d + i - 1] = m[d + (i - 1)]
    BY <1>5
<1>7. b \in Seq(Cells) /\ Len(b) = z /\ \A i \in 1 .. z : b[i] = m[d + (i - 1)]
    BY <1>4, <1>6
<1>8. Bytes(h, a) = b
    BY <1>1, <1>3, <1>4 DEF Bytes, BytesAt
<1> QED BY <1>1, <1>3, <1>7, <1>8

LEMMA UntouchedBytes ==
    ASSUME NEW h \in Heaps, NEW k \in Heaps, NEW c \in Nodes, InBlock(h, c), Untouched(h, k, c)
    PROVE  Bytes(k, c) = Bytes(h, c)
<1>1. PICK d \in Nat, l \in Nat, z \in Nat : d = c.data /\ l = c.alloc_size /\ z = c.size
    BY Fields, Zenon
<1>2. z <= l
    BY <1>1 DEF InBlock
<1>3. \A i \in 1 .. z : i - 1 \in 0 .. l - 1 /\ d + i - 1 = d + (i - 1)
    BY <1>2
<1>4. \A i \in 1 .. z : k.memory[d + i - 1] = h.memory[d + i - 1]
    BY <1>1, <1>3 DEF Untouched
<1> QED BY <1>1, <1>4 DEF Bytes, BytesAt

LEMMA WrittenBytes ==
    ASSUME NEW h \in Heaps, NEW k, NEW a \in Nodes, NEW b \in Nodes, InBlock(h, a),
           NEW start \in Nat, start <= a.size, NEW data \in Seq(Int),
           Overwrites(h, k, a, b, start, data)
    PROVE  Bytes(k, b) = Files!Overwritten(Bytes(h, a), start, data)
<1>1. PICK d \in Nat, z \in Nat, e \in Nat, y \in Nat, t \in Nat :
          d = a.data /\ z = a.size /\ e = b.data /\ y = b.size /\ t = Len(data)
    <2>1. Len(data) \in Nat
        OBVIOUS
    <2> QED BY <2>1, Fields, Zenon
<1>2. k \in Heaps /\ InBlock(k, b) /\ y = MaxOf(start + t, z)
      /\ \A i \in 0 .. y - 1 : k.memory[e + i] = IF i \in start .. start + t - 1
                                                  THEN data[i - start + 1] ELSE h.memory[d + i]
    BY <1>1 DEF Overwrites
<1>3. PICK B : B = Bytes(h, a)
    OBVIOUS
<1>4. B \in Seq(Cells) /\ Len(B) = z /\ \A i \in 1 .. z : B[i] = h.memory[d + (i - 1)]
    BY <1>1, <1>3, BytesHeld
<1>5. PICK C : C = Bytes(k, b)
    OBVIOUS
<1>6. C \in Seq(Cells) /\ Len(C) = y /\ \A i \in 1 .. y : C[i] = k.memory[e + (i - 1)]
    BY <1>1, <1>2, <1>5, BytesHeld
<1>7. PICK o : o = Files!Overwritten(B, start, data)
    OBVIOUS
<1>8. data \in Seq(Cells) /\ start <= z
    BY <1>1 DEF Cells
<1>9. y >= z /\ y >= start + t /\ (y = z \/ y = start + t)
    BY <1>2 DEF MaxOf
<1>10. ByByte(o, B, start, data, t, y)
    BY <1>1, <1>4, <1>7, <1>8, <1>9, OverwrittenBytes
<1>11. /\ o \in Seq(Cells) /\ Len(o) = y
       /\ \A i \in 1 .. y :
             o[i] = IF i \in start + 1 .. start + t THEN data[i - start] ELSE B[i]
    BY <1>10 DEF ByByte
<1>12. ASSUME NEW i \in 1 .. y PROVE C[i] = o[i]
    <2>1. PICK j \in 0 .. y - 1 : j = i - 1
        OBVIOUS
    <2>2. CASE i \in start + 1 .. start + t
        <3>1. j \in start .. start + t - 1 /\ j - start + 1 = i - start
            BY <2>1, <2>2
        <3> QED BY <1>2, <1>6, <1>11, <2>1, <2>2, <3>1
    <2>3. CASE i \notin start + 1 .. start + t
        <3>1. j \notin start .. start + t - 1 /\ i \in 1 .. z
            BY <1>8, <1>9, <2>1, <2>3
        <3> QED BY <1>2, <1>4, <1>6, <1>11, <2>1, <2>3, <3>1
    <2> QED BY <2>2, <2>3
<1>13. C = o
    BY <1>6, <1>11, <1>12
<1> QED BY <1>3, <1>5, <1>7, <1>13

Contents == [i \in DOMAIN inodes |-> BytesAt(heap.memory, inodes[i].data, inodes[i].size)]

LEMMA ContentsTyped ==
    ASSUME RamfsInv
    PROVE  /\ Contents \in Seq(Seq(Cells)) /\ Len(Contents) = Len(inodes)
           /\ DOMAIN Contents = DOMAIN inodes
           /\ \A i \in DOMAIN inodes :
                 Contents[i] = Bytes(heap, inodes[i]) /\ Len(Contents[i]) = inodes[i].size
<1>1. heap \in Heaps /\ inodes \in Seq(Nodes) /\ Laid(heap, inodes)
    BY DEF RamfsInv, Typed
<1>2. ASSUME NEW i \in DOMAIN inodes
      PROVE  /\ Contents[i] = Bytes(heap, inodes[i]) /\ Contents[i] \in Seq(Cells)
             /\ Len(Contents[i]) = inodes[i].size
    <2>1. inodes[i] \in Nodes /\ InBlock(heap, inodes[i])
        BY <1>1 DEF Laid
    <2>2. Contents[i] = Bytes(heap, inodes[i])
        BY DEF Contents, Bytes
    <2> QED BY <1>1, <2>1, <2>2, BytesHeld
<1>3. DOMAIN Contents = 1 .. Len(inodes) /\ DOMAIN inodes = 1 .. Len(inodes)
    BY <1>1 DEF Contents
<1>4. Contents \in Seq(Seq(Cells)) /\ Len(Contents) = Len(inodes)
    <2>1. PICK S : S = Seq(Cells)
        OBVIOUS
    <2>2. \A i \in 1 .. Len(inodes) : Contents[i] \in S
        BY <1>2, <1>3, <2>1
    <2>3. Contents = [i \in 1 .. Len(inodes) |-> Contents[i]]
        BY <1>3 DEF Contents
    <2>4. Len(inodes) \in Nat
        BY <1>1
    <2>5. Contents \in Seq(S) /\ Len(Contents) = Len(inodes)
        BY <2>2, <2>3, <2>4
    <2> QED BY <2>1, <2>5
<1> QED BY <1>2, <1>3, <1>4

LEMMA ContentsSame ==
    ASSUME RamfsInv, DOMAIN inodes' = DOMAIN inodes,
           \A i \in DOMAIN inodes : inodes'[i] = inodes[i] /\ Untouched(heap, heap', inodes[i]),
           heap' \in Heaps
    PROVE  Contents' = Contents
<1>1. heap \in Heaps /\ inodes \in Seq(Nodes) /\ Laid(heap, inodes)
    BY DEF RamfsInv, Typed
<1>2. ASSUME NEW i \in DOMAIN inodes PROVE Bytes(heap', inodes'[i]) = Bytes(heap, inodes[i])
    <2>1. inodes[i] \in Nodes /\ InBlock(heap, inodes[i])
        BY <1>1 DEF Laid
    <2> QED BY <1>1, <2>1, UntouchedBytes
<1> QED BY <1>2 DEF Contents, Bytes

LEMMA Appends ==
    ASSUME NEW S, NEW c \in Seq(S), NEW l \in Nat, Len(c) = l, NEW x \in S
    PROVE  Append(c, x) = [i \in 1 .. l + 1 |-> IF i \in 1 .. l THEN c[i] ELSE x]
<1>1. PICK d : d = Append(c, x)
    OBVIOUS
<1>2. d \in Seq(S) /\ Len(d) = l + 1 /\ DOMAIN d = 1 .. l + 1
    BY <1>1
<1>3. ASSUME NEW i \in 1 .. l + 1 PROVE d[i] = IF i \in 1 .. l THEN c[i] ELSE x
    BY <1>1
<1>4. d = [i \in 1 .. l + 1 |-> d[i]]
    BY <1>2
<1> QED BY <1>1, <1>3, <1>4

LEMMA ContentsCreated ==
    ASSUME RamfsInv, NEW b \in Nodes, Created(b)
    PROVE  Contents' = Append(Contents, <<>>)
<1>1. heap \in Heaps /\ inodes \in Seq(Nodes) /\ Laid(heap, inodes) /\ heap' \in Heaps
    BY DEF RamfsInv, Typed, Created, Extended
<1>2. PICK l \in Nat : l = Len(inodes)
    BY <1>1
<1>3. /\ DOMAIN inodes' = 1 .. l + 1 /\ inodes'[l + 1] = b /\ DOMAIN inodes = 1 .. l
      /\ \A i \in 1 .. l : inodes'[i] = inodes[i]
    BY <1>1, <1>2 DEF Created
<1>4. ASSUME NEW i \in 1 .. l PROVE Bytes(heap', inodes'[i]) = Bytes(heap, inodes[i])
    <2>1. inodes[i] \in Nodes /\ InBlock(heap, inodes[i]) /\ inodes'[i] = inodes[i]
        BY <1>1, <1>3 DEF Laid
    <2>2. Untouched(heap, heap', inodes[i])
        BY <1>3, CreatedLaid
    <2> QED BY <1>1, <2>1, <2>2, UntouchedBytes
<1>5. Bytes(heap', b) = <<>>
    BY DEF Bytes, BytesAt, Created
<1>6. Contents' = [i \in 1 .. l + 1 |-> Bytes(heap', inodes'[i])]
    BY <1>3 DEF Contents, Bytes
<1>7. PICK c \in Seq(Seq(Cells)) : c = Contents /\ Len(c) = l
    BY <1>2, ContentsTyped
<1>8. \A i \in 1 .. l : c[i] = Bytes(heap, inodes[i])
    BY <1>3, <1>7, ContentsTyped
<1>9. Append(c, <<>>) = [i \in 1 .. l + 1 |-> IF i \in 1 .. l THEN c[i] ELSE <<>>]
    <2>1. PICK S : S = Seq(Cells)
        OBVIOUS
    <2>2. PICK x \in S : x = <<>>
        <3>1. <<>> \in Seq(Cells)
            OBVIOUS
        <3> QED BY <2>1, <3>1, Zenon
    <2>3. c \in Seq(S)
        BY <2>1
    <2>4. Append(c, x) = [i \in 1 .. l + 1 |-> IF i \in 1 .. l THEN c[i] ELSE x]
        BY <1>7, <2>3, Appends
    <2> QED BY <2>2, <2>4, Zenon
<1>10. ASSUME NEW i \in 1 .. l + 1
       PROVE  Bytes(heap', inodes'[i]) = IF i \in 1 .. l THEN c[i] ELSE <<>>
    <2>1. CASE i \in 1 .. l
        BY <1>4, <1>8, <2>1
    <2>2. CASE i \notin 1 .. l
        <3>1. i = l + 1
            BY <2>2
        <3> QED BY <1>3, <1>5, <2>2, <3>1
    <2> QED BY <2>1, <2>2
<1> QED BY <1>6, <1>7, <1>9, <1>10

LEMMA ContentsWritten ==
    ASSUME RamfsInv, NEW ino \in DOMAIN inodes, NEW start \in Nat, NEW data \in Seq(Int),
           start <= inodes[ino].size, NEW b \in Nodes,
           Overwrites(heap, heap', inodes[ino], b, start, data),
           inodes' = [inodes EXCEPT ![ino] = b]
    PROVE  Contents' = [Contents EXCEPT ![ino] = Files!Overwritten(Contents[ino], start, data)]
<1>1. heap \in Heaps /\ inodes \in Seq(Nodes) /\ Laid(heap, inodes) /\ heap' \in Heaps
    BY DEF RamfsInv, Typed, Overwrites
<1>2. \A j \in DOMAIN inodes : j # ino => Untouched(heap, heap', inodes[j])
    BY <1>1, WriteLaid
<1>3. ASSUME NEW j \in DOMAIN inodes, j # ino
      PROVE  Bytes(heap', inodes'[j]) = Contents[j]
    <2>1. inodes[j] \in Nodes /\ InBlock(heap, inodes[j]) /\ inodes'[j] = inodes[j]
        BY <1>1, <1>3 DEF Laid
    <2>2. Bytes(heap', inodes[j]) = Bytes(heap, inodes[j])
        BY <1>1, <1>2, <1>3, <2>1, UntouchedBytes
    <2> QED BY <2>1, <2>2, ContentsTyped
<1>4. Bytes(heap', inodes'[ino]) = Files!Overwritten(Contents[ino], start, data)
    <2>1. PICK a \in Nodes : a = inodes[ino] /\ InBlock(heap, a)
        BY <1>1 DEF Laid
    <2>2. Bytes(heap', b) = Files!Overwritten(Bytes(heap, a), start, data)
        BY <1>1, <2>1, WrittenBytes
    <2>3. inodes'[ino] = b /\ Contents[ino] = Bytes(heap, a)
        BY <2>1, ContentsTyped
    <2> QED BY <2>2, <2>3
<1>5. Contents' = [i \in DOMAIN inodes |-> Bytes(heap', inodes'[i])]
    BY DEF Contents, Bytes
<1>6. DOMAIN Contents = DOMAIN inodes
    BY ContentsTyped
<1> QED BY <1>3, <1>4, <1>5, <1>6

\* What a read returns is a part of the contents.
LEMMA ReadBytes ==
    ASSUME RamfsInv, NEW ino \in DOMAIN inodes, NEW start \in Nat, NEW e \in Nat,
           start <= e, e <= inodes[ino].size
    PROVE  BytesAt(heap.memory, inodes[ino].data + start, e - start)
           = SubSeq(Contents[ino], start + 1, e)
<1>1. heap \in Heaps /\ inodes \in Seq(Nodes) /\ Laid(heap, inodes)
    BY DEF RamfsInv, Typed
<1>2. PICK a \in Nodes : a = inodes[ino] /\ InBlock(heap, a)
    BY <1>1 DEF Laid
<1>3. PICK d \in Nat, z \in Nat, m \in {heap.memory} : d = a.data /\ z = a.size /\ m = heap.memory
    BY Fields, Zenon
<1>4. PICK c \in Seq(Cells) : c = Bytes(heap, a) /\ Len(c) = z
    BY <1>1, <1>2, <1>3, BytesHeld
<1>5. \A i \in 1 .. z : c[i] = m[d + i - 1]
    BY <1>3, <1>4 DEF Bytes, BytesAt
<1>6. Contents[ino] = c
    BY <1>2, <1>4, ContentsTyped
<1>7. PICK r \in Nat : r = e - start
    OBVIOUS
<1>8. SubSeq(c, start + 1, e) = [i \in 1 .. r |-> c[start + i]]
    <2>1. e <= Len(c)
        BY <1>2, <1>3, <1>4
    <2>2. PICK q : q = SubSeq(c, start + 1, e)
        OBVIOUS
    <2>3. q \in Seq(Cells) /\ Len(q) = r /\ \A i \in 1 .. r : q[i] = c[start + i]
        BY <1>7, <2>1, <2>2
    <2> QED BY <2>2, <2>3
<1>9. ASSUME NEW i \in 1 .. r PROVE c[start + i] = m[d + start + i - 1]
    <2>1. PICK j \in 1 .. z : j = start + i
        BY <1>2, <1>3, <1>7
    <2>2. d + j - 1 = d + start + i - 1
        BY <2>1
    <2> QED BY <1>5, <2>1, <2>2
<1>10. BytesAt(m, d + start, r) = [i \in 1 .. r |-> m[d + start + i - 1]]
    BY DEF BytesAt
<1> QED BY <1>2, <1>3, <1>6, <1>7, <1>8, <1>9, <1>10

-----------------------------------------------------------------------------
(* Every call is a call of ByteFile, or none                               *)

LEMMA ContentsKept == ASSUME UNCHANGED <<heap, inodes>> PROVE Contents' = Contents
BY DEF Contents

LEMMA HaltStops == ASSUME ~ halted, Halt PROVE Files!Stop
<1>1. Contents' = Contents
    BY ContentsKept DEF Halt
<1> QED BY <1>1 DEF Halt, Files!Stop, Contents

LEMMA FailRefuses == ASSUME ~ halted, Fail PROVE Files!Refuse
<1>1. Contents' = Contents
    BY ContentsKept DEF Fail
<1> QED BY <1>1 DEF Fail, Failed, Returned, Files!Refuse, Files!Failed, Files!Returned, Contents

LEMMA CreateCreates == ASSUME RamfsInv, Create PROVE Files!Create \/ Files!Stop
<1>1. CASE Halt
    BY <1>1, HaltStops, Creates
<1>2. ASSUME NEW b \in Nodes, Created(b), ret' = Done, UNCHANGED <<files, dir, halted>>, ~ halted
      PROVE  Files!Create
    <2>1. Contents' = Append(Contents, <<>>)
        BY <1>2, ContentsCreated
    <2> QED BY <1>2, <2>1 DEF Files!Create, Files!Done, Files!Returned, Done, Returned, Contents
<1> QED BY <1>1, <1>2, Creates

LEMMA OpenOpens ==
    ASSUME RamfsInv, NEW ino \in DOMAIN inodes, Open(ino) PROVE Files!Open(ino) \/ Files!Stop
<1>1. CASE Halt
    BY <1>1, HaltStops DEF Open
<1>2. CASE ~ Halt
    <2>1. /\ Fits(heap, META_SIZE) /\ heap' = Calloc(heap, META_SIZE) /\ ~ halted
          /\ files' = Append(files, [ino |-> ino, pos |-> 0])
          /\ ret' = Done /\ UNCHANGED <<inodes, halted>>
        BY <1>2 DEF Open
    <2>2. heap \in Heaps /\ inodes \in Seq(Nodes) /\ Laid(heap, inodes)
        BY DEF RamfsInv, Typed
    <2>3. Extended(heap, heap')
        BY <2>1, <2>2, Constants, CallocExtends
    <2>4. heap' \in Heaps /\ \A i \in DOMAIN inodes : Untouched(heap, heap', inodes[i])
        BY <2>2, <2>3, ExtendedLaid DEF Extended
    <2>5. Contents' = Contents
        BY <2>1, <2>4, ContentsSame
    <2> QED BY <2>1, <2>5 DEF Files!Open, Files!Done, Files!Returned, Done, Returned, Contents
<1> QED BY <1>1, <1>2

LEMMA ReadReads ==
    ASSUME RamfsInv, NEW f \in DOMAIN files, NEW size \in ReadSizes, Read(f, size)
    PROVE  Files!Read(f, size) \/ Files!Refuse
<1>1. CASE Fail
    BY <1>1, FailRefuses DEF Read
<1>2. CASE ~ Fail
    <2>1. PICK ino \in DOMAIN inodes, start \in Nat, z \in Nat, s \in Nat :
              ino = files[f].ino /\ start = files[f].pos /\ z = inodes[ino].size /\ s = size
        BY Opens, Fields, RamfsFileAssumption
    <2>2. PICK e : e = MinOf(start + s, z)
        OBVIOUS
    <2>3. e \in Nat /\ e <= z /\ e = IF start + s < z THEN start + s ELSE z
        BY <2>2 DEF MinOf
    <2>4. /\ ~ halted /\ ~ (start >= e) /\ files' = [files EXCEPT ![f].pos = e]
          /\ ret' = Returned(e - start, BytesAt(heap.memory, inodes[ino].data + start, e - start))
          /\ UNCHANGED <<heap, inodes, halted>>
        BY <1>2, <2>1, <2>2 DEF Read
    <2>5. start < e /\ start <= e
        BY <2>3, <2>4
    <2>6. Contents' = Contents
        BY <2>4, ContentsKept
    <2>7. ret' = Returned(e - start, SubSeq(Contents[ino], start + 1, e))
        <3>1. e <= inodes[ino].size
            BY <2>1, <2>3
        <3>2. BytesAt(heap.memory, inodes[ino].data + start, e - start)
              = SubSeq(Contents[ino], start + 1, e)
            BY <2>3, <2>5, <3>1, ReadBytes, Zenon
        <3> QED BY <2>4, <3>2, Zenon
    <2>8. Len(Contents[ino]) = z
        BY <2>1, ContentsTyped
    <2>9. Files!Read(f, size)
        BY <2>1, <2>3, <2>4, <2>5, <2>6, <2>7, <2>8 DEF Files!Read, Files!Returned, Returned, Contents
    <2> QED BY <2>9
<1> QED BY <1>1, <1>2

LEMMA WriteWrites ==
    ASSUME RamfsInv, NEW f \in DOMAIN files, NEW data \in Buffers, Write(f, data)
    PROVE  Files!Write(f, data) \/ Files!Refuse \/ Files!Stop
<1>1. CASE ~ halted /\ (Fail \/ Halt)
    BY <1>1, FailRefuses, HaltStops
<1>2. CASE Written(files[f].ino, files[f].pos, f, data)
    <2>1. PICK ino \in DOMAIN inodes, start \in Nat : ino = files[f].ino /\ start = files[f].pos
        BY Opens
    <2>2. PICK b \in Nodes : /\ Overwrites(heap, heap', inodes[ino], b, start, data)
                             /\ inodes' = [inodes EXCEPT ![ino] = b]
        BY <1>2, <2>1 DEF Written
    <2>3. data \in Seq(Int) /\ start <= inodes[ino].size
        BY <1>2, <2>1, RamfsFileAssumption DEF Written
    <2>4. Contents' = [Contents EXCEPT ![ino] = Files!Overwritten(Contents[ino], start, data)]
        BY <2>2, <2>3, ContentsWritten
    <2>5. start <= Len(Contents[ino])
        BY <2>3, ContentsTyped
    <2>6. /\ ~ halted /\ files' = [files EXCEPT ![f].pos = start + Len(data)]
          /\ ret' = Returned(Len(data), <<>>) /\ halted' = halted
        BY <1>2, <2>1 DEF Written
    <2>7. Files!Write(f, data)
        BY <2>1, <2>4, <2>5, <2>6 DEF Files!Write, Files!Returned, Returned, Contents
    <2> QED BY <2>7
<1> QED BY <1>1, <1>2, Writes

LEMMA SeekSeeks ==
    ASSUME RamfsInv, NEW f \in DOMAIN files, NEW offset \in Offsets, NEW whence \in Whences,
           Seek(f, offset, whence)
    PROVE  (\E pos \in 0 .. MaxPos : Files!Seek(f, pos)) \/ Files!Refuse \/ Files!Stop
<1>1. CASE Fail \/ Halt
    BY <1>1, FailRefuses, HaltStops DEF Seek
<1>2. CASE ~ Fail /\ ~ Halt
    <2>1. PICK r : r = CASE whence = "SEEK_SET" -> 0
                         [] whence = "SEEK_END" -> inodes[files[f].ino].size
                         [] OTHER -> files[f].pos
        OBVIOUS
    <2>2. /\ ~ halted /\ ~ (r + offset < 0) /\ r + offset <= MaxPos
          /\ files' = [files EXCEPT ![f].pos = r + offset]
          /\ ret' = Returned(r + offset, <<>>) /\ UNCHANGED <<heap, inodes, halted>>
        BY <1>2, <2>1 DEF Seek
    <2>3. r \in Nat /\ offset \in Int
        <3>1. files[f].pos \in Nat /\ inodes[files[f].ino].size \in Nat /\ offset \in Int
            BY Opens, Fields, RamfsFileAssumption
        <3> QED BY <2>1, <3>1
    <2>4. PICK pos \in 0 .. MaxPos : pos = r + offset
        BY <2>2, <2>3, RamfsFileAssumption
    <2>5. Contents' = Contents
        BY <2>2, ContentsKept
    <2>6. Files!Seek(f, pos)
        BY <2>2, <2>4, <2>5 DEF Files!Seek, Files!Returned, Returned, Contents
    <2> QED BY <2>6
<1> QED BY <1>1, <1>2

LEMMA InitEmpty == Init => Files!Init
<1> SUFFICES ASSUME Init PROVE Files!Init
    OBVIOUS
<1>1. Contents = <<>>
    BY DEF Init, Contents
<1> QED BY <1>1 DEF Init, Done, Returned, Files!Init, Files!Done, Files!Returned, Contents

LEMMA RebootRestarts == ASSUME Reboot PROVE Files!Restart
<1>1. Contents' = <<>>
    BY DEF Reboot, Contents
<1> QED BY <1>1 DEF Reboot, Done, Returned, Files!Restart, Files!Done, Files!Returned, Contents

\* The listing of the directory concerns no file.
LEMMA DirStutters ==
    ASSUME UNCHANGED <<heap, inodes, files, ret, halted>> PROVE UNCHANGED Files!vars
BY DEF Files!vars

LEMMA StepMaps == RamfsInv /\ [Next]_vars => [Files!Next]_(Files!vars)
<1> SUFFICES ASSUME RamfsInv, [Next]_vars PROVE [Files!Next]_(Files!vars)
    OBVIOUS
<1>0. DOMAIN Contents = DOMAIN inodes
    BY DEF Contents
<1>1. CASE UNCHANGED vars
    BY <1>1, DirStutters DEF vars
<1>2. CASE Create
    BY <1>2, CreateCreates DEF Files!Next
<1>3. CASE Reboot
    BY <1>3, RebootRestarts DEF Files!Next
<1>4. ASSUME NEW ino \in DOMAIN inodes, Open(ino) PROVE Files!Next
    BY <1>0, <1>4, OpenOpens DEF Files!Next, Contents
<1>5. ASSUME NEW f \in DOMAIN files, NEW size \in ReadSizes, Read(f, size) PROVE Files!Next
    BY <1>5, ReadReads DEF Files!Next
<1>6. ASSUME NEW f \in DOMAIN files, NEW data \in Buffers, Write(f, data) PROVE Files!Next
    BY <1>6, WriteWrites DEF Files!Next
<1>7. ASSUME NEW f \in DOMAIN files, NEW offset \in Offsets, NEW whence \in Whences,
             Seek(f, offset, whence)
      PROVE  Files!Next
    BY <1>7, SeekSeeks DEF Files!Next
<1>8. ASSUME NEW count \in ReadSizes, Readdir(count) PROVE UNCHANGED Files!vars
    BY <1>8, DirStutters DEF Readdir
<1>9. ASSUME NEW offset \in Offsets, NEW whence \in Whences, DirSeek(offset, whence)
      PROVE  UNCHANGED Files!vars
    BY <1>9, DirStutters DEF DirSeek
<1> QED BY <1>1, <1>2, <1>3, <1>4, <1>5, <1>6, <1>7, <1>8, <1>9, Zenon DEF Next

-----------------------------------------------------------------------------
(* Theorems                                                                *)

\* The heap stays in its section, and open files name existing inodes.
THEOREM FilesTyped == Spec => []TypeOK
<1> QED BY FilesLaid, InvGives, PTL

\* For every size of the heap and of the buffers, no write and no
\* reallocation of _ramfs_reg_file_write reaches the bytes or the header of
\* another file.
THEOREM BlocksStayApart == Spec => []BlocksApart
<1> QED BY FilesLaid, InvGives, PTL

\* Between two seeks _ramfs_dir_readdir returns each child once and in order,
\* for any number of children and any counts.
THEOREM ListingStaysComplete == Spec => []ListingComplete
<1> QED BY FilesLaid, InvGives, PTL

\* ramfs implements ByteFile: what _ramfs_reg_file_read returns is what
\* _ramfs_reg_file_write last stored at those positions, through every
\* reallocation and for any number of open files of one inode.
THEOREM ReadsWhatWasWritten == Spec => ImplementsByteFile
<1> QED BY FilesLaid, InitEmpty, StepMaps, PTL DEF Spec, ImplementsByteFile, Files!Spec

=============================================================================

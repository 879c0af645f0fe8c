---------------------------- MODULE Fat32Proofs ----------------------------
(***************************************************************************)
(* The properties of Fat32 for every well-formed volume and every sequence *)
(* of calls.                                                               *)
(***************************************************************************)
EXTENDS Fat32, SetInduction

-----------------------------------------------------------------------------
(* Arithmetic and sequences                                                *)

Pos == Nat \ {0}

\* Quotient and remainder.
LEMMA DivMod ==
    ASSUME NEW p \in Int, NEW b \in Pos
    PROVE  \E q \in Int, r \in 0 .. b - 1 : q = p \div b /\ r = p % b /\ p = q * b + r
<1>1. p \div b \in Int /\ p % b \in 0 .. b - 1
  BY DEF Pos
<1>2. PICK q \in Int, r \in 0 .. b - 1 : q = p \div b /\ r = p % b
  BY <1>1
<1>3. p = b * q + r
  BY <1>2 DEF Pos
<1>4. q * b = b * q
  BY DEF Pos
<1> QED BY <1>2, <1>3, <1>4

\* A product of two naturals.
LEMMA Product == ASSUME NEW a \in Nat, NEW b \in Nat PROVE a * b \in Nat /\ a * b = b * a
OBVIOUS

\* A product grows with its factor.
LEMMA Grows ==
    ASSUME NEW a \in Int, NEW c \in Int, NEW b \in Pos
    PROVE  /\ a < c => a * b + b <= c * b
           /\ a <= c => a * b <= c * b
<1>1. ASSUME NEW d \in Nat PROVE d * b >= 0 /\ (d > 0 => d * b >= b)
  BY DEF Pos
<1>2. CASE a <= c
  <2>1. PICK d \in Nat : d = c - a
    BY <1>2
  <2>2. c * b = a * b + d * b
    BY <2>1 DEF Pos
  <2>3. d * b >= 0 /\ (d > 0 => d * b >= b)
    BY <1>1
  <2>4. PICK x \in Int, y \in Int, z \in Int : x = a * b /\ y = c * b /\ z = d * b
    BY DEF Pos
  <2> QED BY <2>1, <2>2, <2>3, <2>4 DEF Pos
<1> QED BY <1>2

\* A number has one quotient and one remainder.
LEMMA DivModUnique ==
    ASSUME NEW q \in Int, NEW b \in Pos, NEW r \in 0 .. b - 1
    PROVE  (q * b + r) \div b = q /\ (q * b + r) % b = r
<1>1. PICK p \in Int : p = q * b + r
  BY DEF Pos
<1>2. PICK u \in Int, t \in 0 .. b - 1 : u = p \div b /\ t = p % b /\ p = u * b + t
  BY DivMod
<1>3. PICK x \in Int, y \in Int : x = q * b /\ y = u * b
  BY DEF Pos
<1>4. /\ q < u => x + b <= y
      /\ u < q => y + b <= x
  BY <1>3, Grows
<1>5. q = u /\ t = r
  BY <1>1, <1>2, <1>3, <1>4 DEF Pos
<1> QED BY <1>1, <1>2, <1>5

\* An element of a sequence.
LEMMA ElementOf ==
    ASSUME NEW T, NEW list \in Seq(T), NEW i \in 1 .. Len(list)
    PROVE  list[i] \in T
OBVIOUS

\* A function on 1 .. n is a sequence.
LEMMA FunctionIsSeq ==
    ASSUME NEW T, NEW n \in Nat, NEW f \in [1 .. n -> T]
    PROVE  f \in Seq(T) /\ Len(f) = n
OBVIOUS

\* The constants are positive.
LEMMA Constants ==
    /\ FAT32_SECTOR_SIZE \in Pos /\ FatEntries \in Pos /\ DirEntries \in Pos
    /\ FAT_LFN_CHAR_COUNT \in Pos /\ NameLength \in Pos /\ Modulus \in Pos /\ MaxTurns \in Pos
    /\ CharValues \in Pos
    /\ FAT_ENTRY_END \in Nat
BY Fat32Assumption DEF Pos

-----------------------------------------------------------------------------
(* The FAT                                                                 *)

\* What fat32_create_filesystem reads from the boot sector.
SbOf(v) ==
    [fat_sector_start |-> v.reserved, data_sector_start |-> DataArea(v),
     sectors_per_cluster |-> v.sectors_per_cluster, root_cluster |-> v.root]
Ready == volume \in Volumes /\ sb = SbOf(volume)

\* The numbers of a volume.
LEMMA Numbers ==
    ASSUME Ready
    PROVE  /\ volume.blocks \in Pos /\ volume.reserved \in Pos /\ volume.table_size \in Pos
           /\ volume.fat_count \in Pos /\ volume.sectors_per_cluster \in Pos
           /\ DataStart \in Nat /\ volume.reserved + volume.table_size <= volume.blocks
           /\ sb.fat_sector_start = volume.reserved /\ sb.data_sector_start = DataStart
           /\ sb.sectors_per_cluster = volume.sectors_per_cluster
           /\ sb.root_cluster = volume.root
<1>1. ChainsOk(volume)
  BY VolumesAssumption DEF Ready
<1>2. /\ volume.blocks \in Pos /\ volume.reserved \in Pos /\ volume.table_size \in Pos
      /\ volume.fat_count \in Pos /\ volume.sectors_per_cluster \in Pos
      /\ volume.reserved + volume.table_size <= volume.blocks
  BY <1>1 DEF ChainsOk, Pos
<1>3. volume.fat_count * volume.table_size \in Nat
  BY <1>2, Product DEF Pos
<1> QED BY <1>2, <1>3 DEF Ready, SbOf, DataStart, DataArea, Pos

\* The chains of a volume.
LEMMA ChainFacts ==
    ASSUME Ready, NEW s \in DOMAIN volume.chains
    PROVE  /\ volume.chains[s] \in Seq(2 .. FAT_ENTRY_END - 1)
           /\ Len(volume.chains[s]) \in 1 .. MaxTurns /\ volume.chains[s][1] = s
           /\ DOMAIN volume.chains[s] = 1 .. Len(volume.chains[s])
           /\ \A k \in 1 .. Len(volume.chains[s]) :
                 /\ volume.chains[s][k] \in 2 .. FAT_ENTRY_END - 1
                 /\ volume.chains[s][k] < volume.table_size * FatEntries
                 /\ DataStart + (volume.chains[s][k] - 1) * volume.sectors_per_cluster
                    <= volume.blocks
<1>1. ChainsOk(volume)
  BY VolumesAssumption DEF Ready
<1>2. /\ volume.chains[s] \in Seq(2 .. FAT_ENTRY_END - 1) /\ volume.chains[s] # <<>>
      /\ Len(volume.chains[s]) <= MaxTurns /\ volume.chains[s][1] = s
      /\ \A k \in DOMAIN volume.chains[s] :
            /\ volume.chains[s][k] < volume.table_size * FatEntries
            /\ DataArea(volume) + (volume.chains[s][k] - 1) * volume.sectors_per_cluster
               <= volume.blocks
  BY <1>1 DEF ChainsOk
<1> HIDE <1>1
<1>3. /\ DOMAIN volume.chains[s] = 1 .. Len(volume.chains[s])
      /\ Len(volume.chains[s]) \in 1 .. MaxTurns
      /\ \A k \in 1 .. Len(volume.chains[s]) : volume.chains[s][k] \in 2 .. FAT_ENTRY_END - 1
  <2>1. PICK c \in Seq(2 .. FAT_ENTRY_END - 1) : c = volume.chains[s]
    BY <1>2
  <2>2. Len(c) # 0
    BY <1>2, <2>1
  <2> QED BY <1>2, <2>1, <2>2, Constants DEF Pos
<1> QED BY <1>2, <1>3 DEF DataStart

\* A cluster is in one chain, at one place.
LEMMA ClusterPlace ==
    ASSUME Ready, NEW s \in DOMAIN volume.chains, NEW k \in 1 .. Len(volume.chains[s])
    PROVE  LET cluster == volume.chains[s][k]
           IN  /\ InChain(cluster) /\ HeadOf(cluster) = s
               /\ IndexOf(volume.chains[s], cluster) = k
<1> DEFINE cluster == volume.chains[s][k]
<1>1. ASSUME NEW t \in DOMAIN volume.chains, NEW j \in DOMAIN volume.chains[t],
             volume.chains[t][j] = cluster
      PROVE  t = s /\ j = k
  <2>1. k \in DOMAIN volume.chains[s]
    BY ChainFacts
  <2> QED BY <1>1, <2>1, VolumesAssumption DEF ChainsOk, Ready
<1>2. k \in DOMAIN volume.chains[s] /\ volume.chains[s][k] = cluster
  BY ChainFacts
<1>3. InChain(cluster)
  BY <1>2 DEF InChain
<1>4. HeadOf(cluster) = s
  BY <1>1, <1>2 DEF HeadOf
<1>5. IndexOf(volume.chains[s], cluster) = k
  BY <1>1, <1>2 DEF IndexOf
<1> QED BY <1>3, <1>4, <1>5

\* A cluster's entry in the FAT: its block is on the device, and it is read
\* as that cluster's.
LEMMA FatPlace ==
    ASSUME Ready, NEW c \in Nat, c < volume.table_size * FatEntries
    PROVE  LET block == sb.fat_sector_start + c \div FatEntries
           IN  /\ block \in Blocks
               /\ ((block - volume.reserved) % volume.table_size) * FatEntries + (c % FatEntries) = c
<1>1. PICK f \in Pos, t \in Pos, n \in Nat, b \in Nat :
          f = FatEntries /\ t = volume.table_size /\ n = volume.reserved /\ b = volume.blocks
          /\ n + t <= b /\ sb.fat_sector_start = n
  BY Constants, Numbers DEF Pos
<1>2. PICK q \in Int, r \in 0 .. f - 1 : q = c \div f /\ r = c % f /\ c = q * f + r
  BY DivMod
<1>3. q \in Nat
  BY <1>2 DEF Pos
<1>4. q < t
  <2>1. t <= q => t * f <= q * f
    BY Grows DEF Pos
  <2>2. PICK x \in Nat, y \in Nat : x = t * f /\ y = q * f
    BY <1>3 DEF Pos
  <2> QED BY <1>1, <1>2, <1>3, <2>1, <2>2 DEF Pos
<1>5. q % t = q
  BY <1>3, <1>4 DEF Pos
<1>6. (n + q) - n = q /\ n + q \in 0 .. b - 1
  BY <1>1, <1>3, <1>4 DEF Pos
<1> QED BY <1>1, <1>2, <1>5, <1>6 DEF Blocks

\* _fat_read_table returns the next cluster of the chain, and stops at its end.
LEMMA ReadsTable ==
    ASSUME Ready, NEW s \in DOMAIN volume.chains, NEW k \in 1 .. Len(volume.chains[s])
    PROVE  FatReadTable(volume.chains[s][k]) =
               IF k = Len(volume.chains[s]) THEN 0 ELSE volume.chains[s][k + 1]
<1>1. PICK c \in 2 .. FAT_ENTRY_END - 1 : c = volume.chains[s][k]
          /\ c < volume.table_size * FatEntries
  BY ChainFacts
<1>2. c \in Nat /\ ~ (c < 2)
  BY <1>1, Constants
<1> DEFINE block == sb.fat_sector_start + c \div FatEntries
<1>3. /\ block \in Blocks
      /\ ((block - volume.reserved) % volume.table_size) * FatEntries + (c % FatEntries) = c
  BY <1>1, <1>2, FatPlace
<1>4. InChain(c) /\ HeadOf(c) = s /\ IndexOf(volume.chains[s], c) = k
  BY <1>1, ClusterPlace
<1> HIDE DEF block
<1>5. FatCell(block, c % FatEntries) =
          IF k = Len(volume.chains[s]) THEN FAT_ENTRY_END ELSE volume.chains[s][k + 1]
  BY <1>2, <1>3, <1>4, Zenon DEF FatCell
<1>6. k # Len(volume.chains[s]) => volume.chains[s][k + 1] \in 2 .. FAT_ENTRY_END - 1
  BY ChainFacts
<1>7. FAT_ENTRY_END \notin 2 .. FAT_ENTRY_END - 1
  BY Constants
<1>8. FatReadTable(c) = IF block \in Blocks /\ FatCell(block, c % FatEntries) \in 2 .. FAT_ENTRY_END - 1
                        THEN FatCell(block, c % FatEntries) ELSE 0
  BY DEF FatReadTable, block
<1> QED BY <1>1, <1>3, <1>5, <1>6, <1>7, <1>8

\* The reserved entry 0, which an empty file leads to, is no cluster.
LEMMA ReadsReserved == ASSUME Ready PROVE FatReadTable(0) = 0
<1>1. 0 < volume.table_size * FatEntries
  BY Constants, Numbers, Grows DEF Pos
<1> DEFINE block == sb.fat_sector_start + 0 \div FatEntries
<1>2. ((block - volume.reserved) % volume.table_size) * FatEntries + (0 % FatEntries) = 0
  BY <1>1, FatPlace
<1> HIDE DEF block
<1>3. FatCell(block, 0 % FatEntries) = FAT_ENTRY_END
  <2>1. 0 < 2
    OBVIOUS
  <2> QED BY <1>2, <2>1, Zenon DEF FatCell
<1>4. FAT_ENTRY_END \notin 2 .. FAT_ENTRY_END - 1
  BY Constants
<1> QED BY <1>3, <1>4 DEF FatReadTable, block

-----------------------------------------------------------------------------
(* Locations along a chain                                                 *)

\* A first cluster of a file: of a chain, or none.
HasChain(c) == c = 0 \/ c \in DOMAIN volume.chains

Sectors(c) == Len(ChainOf(c)) * volume.sectors_per_cluster

\* loc is sector n of the chain of c.
AtSector(loc, c, n) ==
    \E k \in 1 .. Len(ChainOf(c)), i \in 0 .. volume.sectors_per_cluster - 1 :
        /\ loc = [start_cluster |-> c, cluster |-> ChainOf(c)[k], sector_index |-> i]
        /\ n = (k - 1) * volume.sectors_per_cluster + i

\* What a chain holds.
LEMMA ChainOfFacts ==
    ASSUME Ready, NEW c, HasChain(c)
    PROVE  /\ Len(ChainOf(c)) \in Pos /\ ChainOf(c)[1] = c /\ c \in Nat
           /\ \A k \in 1 .. Len(ChainOf(c)) :
                 /\ FatReadTable(ChainOf(c)[k]) =
                        IF k = Len(ChainOf(c)) THEN 0 ELSE ChainOf(c)[k + 1]
                 /\ k < Len(ChainOf(c)) => ChainOf(c)[k + 1] \in Pos
<1>1. CASE c = 0
  <2>1. ChainOf(c) = <<0>>
    BY <1>1 DEF ChainOf
  <2> QED BY <1>1, <2>1, ReadsReserved DEF Pos
<1>2. CASE c # 0
  <2>1. c \in DOMAIN volume.chains /\ ChainOf(c) = volume.chains[c]
    BY <1>2 DEF HasChain, ChainOf
  <2>2. /\ Len(ChainOf(c)) \in 1 .. MaxTurns /\ ChainOf(c)[1] = c
        /\ \A k \in 1 .. Len(ChainOf(c)) : ChainOf(c)[k] \in 2 .. FAT_ENTRY_END - 1
    BY <2>1, ChainFacts
  <2>3. \A k \in 1 .. Len(ChainOf(c)) : FatReadTable(ChainOf(c)[k]) =
                        IF k = Len(ChainOf(c)) THEN 0 ELSE ChainOf(c)[k + 1]
    BY <2>1, ReadsTable
  <2> QED BY <2>2, <2>3, Constants DEF Pos
<1> QED BY <1>1, <1>2

\* The sectors of a chain.
LEMMA SectorsPos ==
    ASSUME Ready, NEW c, HasChain(c)
    PROVE  Sectors(c) \in Pos
<1>1. PICK m \in Pos, p \in Pos : m = Len(ChainOf(c)) /\ p = volume.sectors_per_cluster
  BY ChainOfFacts, Numbers
<1>2. m * p \in Nat /\ 0 * p + p <= m * p
  BY Grows, Product DEF Pos
<1> QED BY <1>1, <1>2 DEF Sectors, Pos

\* A place in a chain is one of its sectors.
LEMMA SectorRange ==
    ASSUME NEW m \in Nat, NEW p \in Pos, NEW k \in 1 .. m, NEW i \in 0 .. p - 1
    PROVE  /\ (k - 1) * p + i \in 0 .. m * p - 1
           /\ (k - 1) * p + p = k * p /\ k * p \in Nat /\ m * p \in Nat
           /\ k < m => k * p < m * p
<1>1. PICK a \in Nat, b \in Nat, d \in Nat : a = (k - 1) * p /\ b = k * p /\ d = m * p
  BY DEF Pos
<1>2. a + p = b
  BY <1>1 DEF Pos
<1>3. b <= d /\ (k < m => b + p <= d)
  BY <1>1, Grows
<1> QED BY <1>1, <1>2, <1>3 DEF Pos

\* A location on a chain.
LEMMA AtSectorFacts ==
    ASSUME Ready, NEW c, HasChain(c), NEW loc, NEW n, AtSector(loc, c, n)
    PROVE  n \in 0 .. Sectors(c) - 1 /\ loc # NOWHERE /\ loc.start_cluster = c
<1>1. PICK k \in 1 .. Len(ChainOf(c)), i \in 0 .. volume.sectors_per_cluster - 1 :
        /\ loc = [start_cluster |-> c, cluster |-> ChainOf(c)[k], sector_index |-> i]
        /\ n = (k - 1) * volume.sectors_per_cluster + i
  BY DEF AtSector
<1>2. n \in 0 .. Sectors(c) - 1
  BY <1>1, SectorRange, ChainOfFacts, Numbers DEF Sectors, Pos
<1>3. loc.sector_index # -1
  BY <1>1, Numbers DEF Pos
<1> QED BY <1>1, <1>2, <1>3 DEF NOWHERE

\* A file begins with its first sector.
LEMMA StartsAtZero ==
    ASSUME Ready, NEW c, HasChain(c)
    PROVE  AtSector(StartOf(c), c, 0)
<1>1. 1 \in 1 .. Len(ChainOf(c)) /\ 0 \in 0 .. volume.sectors_per_cluster - 1
      /\ (1 - 1) * volume.sectors_per_cluster + 0 = 0 /\ ChainOf(c)[1] = c
  BY ChainOfFacts, Numbers DEF Pos
<1> QED BY <1>1 DEF AtSector, StartOf

\* _fat_next_sector_location moves to the next sector of the chain, and
\* fails behind the last one.
LEMMA NextMoves ==
    ASSUME Ready, NEW c, HasChain(c), NEW loc, NEW n, AtSector(loc, c, n)
    PROVE  IF n + 1 < Sectors(c) THEN AtSector(NextSector(loc), c, n + 1)
           ELSE NextSector(loc) = NOWHERE
<1>1. PICK k \in 1 .. Len(ChainOf(c)), i \in 0 .. volume.sectors_per_cluster - 1 :
        /\ loc = [start_cluster |-> c, cluster |-> ChainOf(c)[k], sector_index |-> i]
        /\ n = (k - 1) * volume.sectors_per_cluster + i
  BY DEF AtSector
<1>2. loc # NOWHERE
  BY AtSectorFacts
<1>3. PICK m \in Pos, p \in Pos : m = Len(ChainOf(c)) /\ p = volume.sectors_per_cluster
         /\ p = sb.sectors_per_cluster
  BY ChainOfFacts, Numbers
<1>4. /\ n \in 0 .. m * p - 1 /\ Sectors(c) = m * p /\ n = (k - 1) * p + i
      /\ (k - 1) * p + p = k * p /\ k * p \in Nat /\ m * p \in Nat /\ (k < m => k * p < m * p)
  BY <1>1, <1>3, SectorRange DEF Sectors, Pos
<1>5. k \in 1 .. m /\ i \in 0 .. p - 1
  BY <1>1, <1>3
<1>6. CASE i + 1 # p
  <2>1. NextSector(loc) = [start_cluster |-> c, cluster |-> ChainOf(c)[k], sector_index |-> i + 1]
    BY <1>1, <1>2, <1>3, <1>6 DEF NextSector
  <2>2. i + 1 \in 0 .. p - 1
    BY <1>5, <1>6 DEF Pos
  <2>3. (k - 1) * p + (i + 1) \in 0 .. m * p - 1 /\ (k - 1) * p + (i + 1) = n + 1
    <3>1. (k - 1) * p + (i + 1) \in 0 .. m * p - 1
      BY <1>5, <2>2, SectorRange DEF Pos
    <3>2. PICK a \in Nat : a = (k - 1) * p
      BY <1>5 DEF Pos
    <3> QED BY <1>4, <1>5, <3>1, <3>2
  <2>4. AtSector(NextSector(loc), c, n + 1)
    BY <1>3, <1>5, <2>1, <2>2, <2>3 DEF AtSector
  <2> QED BY <1>4, <2>3, <2>4
<1>7. CASE i + 1 = p
  <2>1. n + 1 = k * p
    <3>1. PICK a \in Nat : a = (k - 1) * p
      BY <1>5 DEF Pos
    <3> QED BY <1>4, <1>5, <1>7, <3>1
  <2>2. FatReadTable(loc.cluster) = IF k = m THEN 0 ELSE ChainOf(c)[k + 1]
    BY <1>1, <1>3, ChainOfFacts
  <2>3. CASE k = m
    <3>1. NextSector(loc) = NOWHERE
      BY <1>1, <1>2, <1>3, <1>7, <2>2, <2>3 DEF NextSector
    <3> QED BY <1>4, <2>1, <2>3, <3>1
  <2>4. CASE k # m
    <3>1. ChainOf(c)[k + 1] \in Pos /\ k + 1 \in 1 .. m /\ k < m
      BY <1>3, <1>5, <2>4, ChainOfFacts DEF Pos
    <3>2. NextSector(loc) = [start_cluster |-> c, cluster |-> ChainOf(c)[k + 1], sector_index |-> 0]
      BY <1>1, <1>2, <1>3, <1>7, <2>2, <2>4, <3>1 DEF NextSector, Pos
    <3>3. n + 1 = ((k + 1) - 1) * p + 0 /\ 0 \in 0 .. p - 1
      BY <2>1, <1>5 DEF Pos
    <3>4. AtSector(NextSector(loc), c, n + 1)
      BY <1>3, <3>1, <3>2, <3>3 DEF AtSector
    <3> QED BY <1>4, <2>1, <3>1, <3>4
  <2> QED BY <2>3, <2>4
<1> QED BY <1>6, <1>7

-----------------------------------------------------------------------------
(* Loops: each is a sequence of its turns                                  *)

\* The chain from a cluster on.
FollowOf(g, cluster, m) ==
    g = [n \in 0 .. m |-> IF n = 0 THEN <<cluster>> ELSE Longer(g[n - 1])]

\* The turns of this loop exist.
LEMMA FollowExists ==
    ASSUME NEW cluster, NEW m \in Nat
    PROVE  \E g : FollowOf(g, cluster, m)
<1> DEFINE S == {n \in Nat : \E g : FollowOf(g, cluster, n)}
<1>1. 0 \in S
  <2>1. FollowOf([n \in 0 .. 0 |-> <<cluster>>], cluster, 0)
    BY DEF FollowOf
  <2> QED BY <2>1
<1>2. ASSUME NEW n \in 0 .. m - 1, n \in S PROVE n + 1 \in S
  <2>1. PICK g : FollowOf(g, cluster, n)
    BY <1>2
  <2> DEFINE h == [k \in 0 .. n + 1 |-> IF k = n + 1 THEN Longer(g[n]) ELSE g[k]]
  <2>2. ASSUME NEW k \in 0 .. n + 1
        PROVE h[k] = IF k = 0 THEN <<cluster>> ELSE Longer(h[k - 1])
    <3>1. CASE k = n + 1
      BY <3>1
    <3>2. CASE k = 0
      BY <2>1, <3>2 DEF FollowOf
    <3>3. CASE k \in 1 .. n
      <4>1. h[k] = g[k] /\ h[k - 1] = g[k - 1]
        BY <3>3
      <4>2. g[k] = Longer(g[k - 1])
        BY <2>1, <3>3 DEF FollowOf
      <4> QED BY <3>3, <4>1, <4>2
    <3> QED BY <3>1, <3>2, <3>3
  <2>3. FollowOf(h, cluster, n + 1)
    BY <2>2 DEF FollowOf
  <2> HIDE DEF h
  <2> QED BY <2>3
<1> HIDE DEF S
<1>3. \A n \in 0 .. m : n \in S
  BY <1>1, <1>2, Steps
<1> QED BY <1>3 DEF S

\* What it returns is the last of them.
LEMMA FollowSteps ==
    ASSUME NEW cluster, MaxTurns \in Nat
    PROVE  \E g : /\ g[0] = <<cluster>>
                  /\ \A n \in 1 .. MaxTurns : g[n] = Longer(g[n - 1])
                  /\ Follow(cluster) = g[MaxTurns]
<1>1. PICK m \in Nat : m = MaxTurns
  OBVIOUS
<1>2. PICK g : g = CHOOSE h : FollowOf(h, cluster, m)
  OBVIOUS
<1>3. FollowOf(g, cluster, m)
  BY <1>2, FollowExists
<1>4. Follow(cluster) = g[m]
  BY <1>1, <1>2 DEF Follow, FollowOf
<1>5. g[0] = <<cluster>> /\ \A n \in 1 .. m : g[n] = Longer(g[n - 1])
  BY <1>3 DEF FollowOf
<1> QED BY <1>1, <1>4, <1>5

\* The loop of a seek forward.
AheadOf(g, loc, count, m) ==
    g = [n \in 0 .. m |-> IF n = 0 THEN loc ELSE NextSector(g[n - 1])]

\* The turns of this loop exist.
LEMMA AheadExists ==
    ASSUME NEW loc, NEW count, NEW m \in Nat
    PROVE  \E g : AheadOf(g, loc, count, m)
<1> DEFINE S == {n \in Nat : \E g : AheadOf(g, loc, count, n)}
<1>1. 0 \in S
  <2>1. AheadOf([n \in 0 .. 0 |-> loc], loc, count, 0)
    BY DEF AheadOf
  <2> QED BY <2>1
<1>2. ASSUME NEW n \in 0 .. m - 1, n \in S PROVE n + 1 \in S
  <2>1. PICK g : AheadOf(g, loc, count, n)
    BY <1>2
  <2> DEFINE h == [k \in 0 .. n + 1 |-> IF k = n + 1 THEN NextSector(g[n]) ELSE g[k]]
  <2>2. ASSUME NEW k \in 0 .. n + 1
        PROVE h[k] = IF k = 0 THEN loc ELSE NextSector(h[k - 1])
    <3>1. CASE k = n + 1
      BY <3>1
    <3>2. CASE k = 0
      BY <2>1, <3>2 DEF AheadOf
    <3>3. CASE k \in 1 .. n
      <4>1. h[k] = g[k] /\ h[k - 1] = g[k - 1]
        BY <3>3
      <4>2. g[k] = NextSector(g[k - 1])
        BY <2>1, <3>3 DEF AheadOf
      <4> QED BY <3>3, <4>1, <4>2
    <3> QED BY <3>1, <3>2, <3>3
  <2>3. AheadOf(h, loc, count, n + 1)
    BY <2>2 DEF AheadOf
  <2> HIDE DEF h
  <2> QED BY <2>3
<1> HIDE DEF S
<1>3. \A n \in 0 .. m : n \in S
  BY <1>1, <1>2, Steps
<1> QED BY <1>3 DEF S

\* What it returns is the last of them.
LEMMA AheadSteps ==
    ASSUME NEW loc, NEW count \in Nat
    PROVE  \E g : /\ g[0] = loc
                  /\ \A n \in 1 .. count : g[n] = NextSector(g[n - 1])
                  /\ Ahead(loc, count) = g[count]
<1>1. PICK m \in Nat : m = count
  OBVIOUS
<1>2. PICK g : g = CHOOSE h : AheadOf(h, loc, count, m)
  OBVIOUS
<1>3. AheadOf(g, loc, count, m)
  BY <1>2, AheadExists
<1>4. Ahead(loc, count) = g[m]
  BY <1>1, <1>2 DEF Ahead, AheadOf
<1>5. g[0] = loc /\ \A n \in 1 .. m : g[n] = NextSector(g[n - 1])
  BY <1>3 DEF AheadOf
<1> QED BY <1>1, <1>4, <1>5

\* The loop of a seek backward.
BackOf(g, loc, count, m) ==
    g = [n \in 0 .. m |-> IF n = 0 THEN loc ELSE PrevSector(g[n - 1])]

\* The turns of this loop exist.
LEMMA BackExists ==
    ASSUME NEW loc, NEW count, NEW m \in Nat
    PROVE  \E g : BackOf(g, loc, count, m)
<1> DEFINE S == {n \in Nat : \E g : BackOf(g, loc, count, n)}
<1>1. 0 \in S
  <2>1. BackOf([n \in 0 .. 0 |-> loc], loc, count, 0)
    BY DEF BackOf
  <2> QED BY <2>1
<1>2. ASSUME NEW n \in 0 .. m - 1, n \in S PROVE n + 1 \in S
  <2>1. PICK g : BackOf(g, loc, count, n)
    BY <1>2
  <2> DEFINE h == [k \in 0 .. n + 1 |-> IF k = n + 1 THEN PrevSector(g[n]) ELSE g[k]]
  <2>2. ASSUME NEW k \in 0 .. n + 1
        PROVE h[k] = IF k = 0 THEN loc ELSE PrevSector(h[k - 1])
    <3>1. CASE k = n + 1
      BY <3>1
    <3>2. CASE k = 0
      BY <2>1, <3>2 DEF BackOf
    <3>3. CASE k \in 1 .. n
      <4>1. h[k] = g[k] /\ h[k - 1] = g[k - 1]
        BY <3>3
      <4>2. g[k] = PrevSector(g[k - 1])
        BY <2>1, <3>3 DEF BackOf
      <4> QED BY <3>3, <4>1, <4>2
    <3> QED BY <3>1, <3>2, <3>3
  <2>3. BackOf(h, loc, count, n + 1)
    BY <2>2 DEF BackOf
  <2> HIDE DEF h
  <2> QED BY <2>3
<1> HIDE DEF S
<1>3. \A n \in 0 .. m : n \in S
  BY <1>1, <1>2, Steps
<1> QED BY <1>3 DEF S

\* What it returns is the last of them.
LEMMA BackSteps ==
    ASSUME NEW loc, NEW count \in Nat
    PROVE  \E g : /\ g[0] = loc
                  /\ \A n \in 1 .. count : g[n] = PrevSector(g[n - 1])
                  /\ Back(loc, count) = g[count]
<1>1. PICK m \in Nat : m = count
  OBVIOUS
<1>2. PICK g : g = CHOOSE h : BackOf(h, loc, count, m)
  OBVIOUS
<1>3. BackOf(g, loc, count, m)
  BY <1>2, BackExists
<1>4. Back(loc, count) = g[m]
  BY <1>1, <1>2 DEF Back, BackOf
<1>5. g[0] = loc /\ \A n \in 1 .. m : g[n] = PrevSector(g[n - 1])
  BY <1>3 DEF BackOf
<1> QED BY <1>1, <1>4, <1>5

\* The loop of a read.
ReadLoopOf(g, size, m) ==
    g = [n \in 0 .. m |-> IF n = 0 THEN ReadStart(size) ELSE ReadTurn(g[n - 1])]

\* The turns of this loop exist.
LEMMA ReadLoopExists ==
    ASSUME NEW size, NEW m \in Nat
    PROVE  \E g : ReadLoopOf(g, size, m)
<1> DEFINE S == {n \in Nat : \E g : ReadLoopOf(g, size, n)}
<1>1. 0 \in S
  <2>1. ReadLoopOf([n \in 0 .. 0 |-> ReadStart(size)], size, 0)
    BY DEF ReadLoopOf
  <2> QED BY <2>1
<1>2. ASSUME NEW n \in 0 .. m - 1, n \in S PROVE n + 1 \in S
  <2>1. PICK g : ReadLoopOf(g, size, n)
    BY <1>2
  <2> DEFINE h == [k \in 0 .. n + 1 |-> IF k = n + 1 THEN ReadTurn(g[n]) ELSE g[k]]
  <2>2. ASSUME NEW k \in 0 .. n + 1
        PROVE h[k] = IF k = 0 THEN ReadStart(size) ELSE ReadTurn(h[k - 1])
    <3>1. CASE k = n + 1
      BY <3>1
    <3>2. CASE k = 0
      BY <2>1, <3>2 DEF ReadLoopOf
    <3>3. CASE k \in 1 .. n
      <4>1. h[k] = g[k] /\ h[k - 1] = g[k - 1]
        BY <3>3
      <4>2. g[k] = ReadTurn(g[k - 1])
        BY <2>1, <3>3 DEF ReadLoopOf
      <4> QED BY <3>3, <4>1, <4>2
    <3> QED BY <3>1, <3>2, <3>3
  <2>3. ReadLoopOf(h, size, n + 1)
    BY <2>2 DEF ReadLoopOf
  <2> HIDE DEF h
  <2> QED BY <2>3
<1> HIDE DEF S
<1>3. \A n \in 0 .. m : n \in S
  BY <1>1, <1>2, Steps
<1> QED BY <1>3 DEF S

\* What it returns is the last of them.
LEMMA ReadLoopSteps ==
    ASSUME NEW size, (2 * size) \in Nat
    PROVE  \E g : /\ g[0] = ReadStart(size)
                  /\ \A n \in 1 .. (2 * size) : g[n] = ReadTurn(g[n - 1])
                  /\ ReadLoop(size) = g[(2 * size)]
<1>1. PICK m \in Nat : m = (2 * size)
  OBVIOUS
<1>2. PICK g : g = CHOOSE h : ReadLoopOf(h, size, m)
  OBVIOUS
<1>3. ReadLoopOf(g, size, m)
  BY <1>2, ReadLoopExists
<1>4. ReadLoop(size) = g[m]
  BY <1>1, <1>2 DEF ReadLoop, ReadLoopOf
<1>5. g[0] = ReadStart(size) /\ \A n \in 1 .. m : g[n] = ReadTurn(g[n - 1])
  BY <1>3 DEF ReadLoopOf
<1> QED BY <1>1, <1>4, <1>5

\* The loop of the iterator over entries.
NextEntryOf(g, loc, index, m) ==
    g = [n \in 0 .. m |-> IF n = 0 THEN Iterator(loc, index) ELSE Examine(g[n - 1])]

\* The turns of this loop exist.
LEMMA NextEntryExists ==
    ASSUME NEW loc, NEW index, NEW m \in Nat
    PROVE  \E g : NextEntryOf(g, loc, index, m)
<1> DEFINE S == {n \in Nat : \E g : NextEntryOf(g, loc, index, n)}
<1>1. 0 \in S
  <2>1. NextEntryOf([n \in 0 .. 0 |-> Iterator(loc, index)], loc, index, 0)
    BY DEF NextEntryOf
  <2> QED BY <2>1
<1>2. ASSUME NEW n \in 0 .. m - 1, n \in S PROVE n + 1 \in S
  <2>1. PICK g : NextEntryOf(g, loc, index, n)
    BY <1>2
  <2> DEFINE h == [k \in 0 .. n + 1 |-> IF k = n + 1 THEN Examine(g[n]) ELSE g[k]]
  <2>2. ASSUME NEW k \in 0 .. n + 1
        PROVE h[k] = IF k = 0 THEN Iterator(loc, index) ELSE Examine(h[k - 1])
    <3>1. CASE k = n + 1
      BY <3>1
    <3>2. CASE k = 0
      BY <2>1, <3>2 DEF NextEntryOf
    <3>3. CASE k \in 1 .. n
      <4>1. h[k] = g[k] /\ h[k - 1] = g[k - 1]
        BY <3>3
      <4>2. g[k] = Examine(g[k - 1])
        BY <2>1, <3>3 DEF NextEntryOf
      <4> QED BY <3>3, <4>1, <4>2
    <3> QED BY <3>1, <3>2, <3>3
  <2>3. NextEntryOf(h, loc, index, n + 1)
    BY <2>2 DEF NextEntryOf
  <2> HIDE DEF h
  <2> QED BY <2>3
<1> HIDE DEF S
<1>3. \A n \in 0 .. m : n \in S
  BY <1>1, <1>2, Steps
<1> QED BY <1>3 DEF S

\* What it returns is the last of them.
LEMMA NextEntrySteps ==
    ASSUME NEW loc, NEW index, MaxTurns \in Nat
    PROVE  \E g : /\ g[0] = Iterator(loc, index)
                  /\ \A n \in 1 .. MaxTurns : g[n] = Examine(g[n - 1])
                  /\ NextEntry(loc, index) = g[MaxTurns]
<1>1. PICK m \in Nat : m = MaxTurns
  OBVIOUS
<1>2. PICK g : g = CHOOSE h : NextEntryOf(h, loc, index, m)
  OBVIOUS
<1>3. NextEntryOf(g, loc, index, m)
  BY <1>2, NextEntryExists
<1>4. NextEntry(loc, index) = g[m]
  BY <1>1, <1>2 DEF NextEntry, NextEntryOf
<1>5. g[0] = Iterator(loc, index) /\ \A n \in 1 .. m : g[n] = Examine(g[n - 1])
  BY <1>3 DEF NextEntryOf
<1> QED BY <1>1, <1>4, <1>5

\* The loop over the entries of a directory.
LookupOf(g, inode, name, m) ==
    g = [n \in 0 .. m |-> IF n = 0 THEN NextEntry(StartOf(inode.cluster), 0) ELSE Compare(g[n - 1], name)]

\* The turns of this loop exist.
LEMMA LookupExists ==
    ASSUME NEW inode, NEW name, NEW m \in Nat
    PROVE  \E g : LookupOf(g, inode, name, m)
<1> DEFINE S == {n \in Nat : \E g : LookupOf(g, inode, name, n)}
<1>1. 0 \in S
  <2>1. LookupOf([n \in 0 .. 0 |-> NextEntry(StartOf(inode.cluster), 0)], inode, name, 0)
    BY DEF LookupOf
  <2> QED BY <2>1
<1>2. ASSUME NEW n \in 0 .. m - 1, n \in S PROVE n + 1 \in S
  <2>1. PICK g : LookupOf(g, inode, name, n)
    BY <1>2
  <2> DEFINE h == [k \in 0 .. n + 1 |-> IF k = n + 1 THEN Compare(g[n], name) ELSE g[k]]
  <2>2. ASSUME NEW k \in 0 .. n + 1
        PROVE h[k] = IF k = 0 THEN NextEntry(StartOf(inode.cluster), 0) ELSE Compare(h[k - 1], name)
    <3>1. CASE k = n + 1
      BY <3>1
    <3>2. CASE k = 0
      BY <2>1, <3>2 DEF LookupOf
    <3>3. CASE k \in 1 .. n
      <4>1. h[k] = g[k] /\ h[k - 1] = g[k - 1]
        BY <3>3
      <4>2. g[k] = Compare(g[k - 1], name)
        BY <2>1, <3>3 DEF LookupOf
      <4> QED BY <3>3, <4>1, <4>2
    <3> QED BY <3>1, <3>2, <3>3
  <2>3. LookupOf(h, inode, name, n + 1)
    BY <2>2 DEF LookupOf
  <2> HIDE DEF h
  <2> QED BY <2>3
<1> HIDE DEF S
<1>3. \A n \in 0 .. m : n \in S
  BY <1>1, <1>2, Steps
<1> QED BY <1>3 DEF S

\* What it returns is the last of them.
LEMMA LookupSteps ==
    ASSUME NEW inode, NEW name, MaxTurns \in Nat
    PROVE  \E g : /\ g[0] = NextEntry(StartOf(inode.cluster), 0)
                  /\ \A n \in 1 .. MaxTurns : g[n] = Compare(g[n - 1], name)
                  /\ Lookup(inode, name) = g[MaxTurns]
<1>1. PICK m \in Nat : m = MaxTurns
  OBVIOUS
<1>2. PICK g : g = CHOOSE h : LookupOf(h, inode, name, m)
  OBVIOUS
<1>3. LookupOf(g, inode, name, m)
  BY <1>2, LookupExists
<1>4. Lookup(inode, name) = g[m]
  BY <1>1, <1>2 DEF Lookup, LookupOf
<1>5. g[0] = NextEntry(StartOf(inode.cluster), 0) /\ \A n \in 1 .. m : g[n] = Compare(g[n - 1], name)
  BY <1>3 DEF LookupOf
<1> QED BY <1>1, <1>4, <1>5

\* The walk along a path.
WalkOf(g, path, m) ==
    g = [n \in 0 .. m |-> IF n = 0 THEN [status |-> "entry", inode |-> RootInode] ELSE Descend(g[n - 1], path[n])]

\* The turns of this loop exist.
LEMMA WalkExists ==
    ASSUME NEW path, NEW m \in Nat
    PROVE  \E g : WalkOf(g, path, m)
<1> DEFINE S == {n \in Nat : \E g : WalkOf(g, path, n)}
<1>1. 0 \in S
  <2>1. WalkOf([n \in 0 .. 0 |-> [status |-> "entry", inode |-> RootInode]], path, 0)
    BY DEF WalkOf
  <2> QED BY <2>1
<1>2. ASSUME NEW n \in 0 .. m - 1, n \in S PROVE n + 1 \in S
  <2>1. PICK g : WalkOf(g, path, n)
    BY <1>2
  <2> DEFINE h == [k \in 0 .. n + 1 |-> IF k = n + 1 THEN Descend(g[n], path[n + 1]) ELSE g[k]]
  <2>2. ASSUME NEW k \in 0 .. n + 1
        PROVE h[k] = IF k = 0 THEN [status |-> "entry", inode |-> RootInode] ELSE Descend(h[k - 1], path[k])
    <3>1. CASE k = n + 1
      BY <3>1
    <3>2. CASE k = 0
      BY <2>1, <3>2 DEF WalkOf
    <3>3. CASE k \in 1 .. n
      <4>1. h[k] = g[k] /\ h[k - 1] = g[k - 1]
        BY <3>3
      <4>2. g[k] = Descend(g[k - 1], path[k])
        BY <2>1, <3>3 DEF WalkOf
      <4> QED BY <3>3, <4>1, <4>2
    <3> QED BY <3>1, <3>2, <3>3
  <2>3. WalkOf(h, path, n + 1)
    BY <2>2 DEF WalkOf
  <2> HIDE DEF h
  <2> QED BY <2>3
<1> HIDE DEF S
<1>3. \A n \in 0 .. m : n \in S
  BY <1>1, <1>2, Steps
<1> QED BY <1>3 DEF S

\* What it returns is the last of them.
LEMMA WalkSteps ==
    ASSUME NEW path, Len(path) \in Nat
    PROVE  \E g : /\ g[0] = [status |-> "entry", inode |-> RootInode]
                  /\ \A n \in 1 .. Len(path) : g[n] = Descend(g[n - 1], path[n])
                  /\ Walk(path) = g[Len(path)]
<1>1. PICK m \in Nat : m = Len(path)
  OBVIOUS
<1>2. PICK g : g = CHOOSE h : WalkOf(h, path, m)
  OBVIOUS
<1>3. WalkOf(g, path, m)
  BY <1>2, WalkExists
<1>4. Walk(path) = g[m]
  BY <1>1, <1>2 DEF Walk, WalkOf
<1>5. g[0] = [status |-> "entry", inode |-> RootInode] /\ \A n \in 1 .. m : g[n] = Descend(g[n - 1], path[n])
  BY <1>3 DEF WalkOf
<1> QED BY <1>1, <1>4, <1>5

\* The loop of a readdir.
ReaddirLoopOf(g, count, m) ==
    g = [n \in 0 .. m |-> IF n = 0 THEN ReaddirStart ELSE ReaddirTurn(g[n - 1])]

\* The turns of this loop exist.
LEMMA ReaddirLoopExists ==
    ASSUME NEW count, NEW m \in Nat
    PROVE  \E g : ReaddirLoopOf(g, count, m)
<1> DEFINE S == {n \in Nat : \E g : ReaddirLoopOf(g, count, n)}
<1>1. 0 \in S
  <2>1. ReaddirLoopOf([n \in 0 .. 0 |-> ReaddirStart], count, 0)
    BY DEF ReaddirLoopOf
  <2> QED BY <2>1
<1>2. ASSUME NEW n \in 0 .. m - 1, n \in S PROVE n + 1 \in S
  <2>1. PICK g : ReaddirLoopOf(g, count, n)
    BY <1>2
  <2> DEFINE h == [k \in 0 .. n + 1 |-> IF k = n + 1 THEN ReaddirTurn(g[n]) ELSE g[k]]
  <2>2. ASSUME NEW k \in 0 .. n + 1
        PROVE h[k] = IF k = 0 THEN ReaddirStart ELSE ReaddirTurn(h[k - 1])
    <3>1. CASE k = n + 1
      BY <3>1
    <3>2. CASE k = 0
      BY <2>1, <3>2 DEF ReaddirLoopOf
    <3>3. CASE k \in 1 .. n
      <4>1. h[k] = g[k] /\ h[k - 1] = g[k - 1]
        BY <3>3
      <4>2. g[k] = ReaddirTurn(g[k - 1])
        BY <2>1, <3>3 DEF ReaddirLoopOf
      <4> QED BY <3>3, <4>1, <4>2
    <3> QED BY <3>1, <3>2, <3>3
  <2>3. ReaddirLoopOf(h, count, n + 1)
    BY <2>2 DEF ReaddirLoopOf
  <2> HIDE DEF h
  <2> QED BY <2>3
<1> HIDE DEF S
<1>3. \A n \in 0 .. m : n \in S
  BY <1>1, <1>2, Steps
<1> QED BY <1>3 DEF S

\* What it returns is the last of them.
LEMMA ReaddirLoopSteps ==
    ASSUME NEW count \in Nat
    PROVE  \E g : /\ g[0] = ReaddirStart
                  /\ \A n \in 1 .. count : g[n] = ReaddirTurn(g[n - 1])
                  /\ ReaddirLoop(count) = g[count]
<1>1. PICK m \in Nat : m = count
  OBVIOUS
<1>2. PICK g : g = CHOOSE h : ReaddirLoopOf(h, count, m)
  OBVIOUS
<1>3. ReaddirLoopOf(g, count, m)
  BY <1>2, ReaddirLoopExists
<1>4. ReaddirLoop(count) = g[m]
  BY <1>1, <1>2 DEF ReaddirLoop, ReaddirLoopOf
<1>5. g[0] = ReaddirStart /\ \A n \in 1 .. m : g[n] = ReaddirTurn(g[n - 1])
  BY <1>3 DEF ReaddirLoopOf
<1> QED BY <1>1, <1>4, <1>5

-----------------------------------------------------------------------------
(* Moves of several sectors                                                *)

\* The first n clusters of a chain.
FirstOf(chain, n) == [k \in 1 .. n |-> chain[k]]

\* Following the FAT from the first cluster on gives the chain.
LEMMA FollowsChain ==
    ASSUME Ready, NEW s \in DOMAIN volume.chains
    PROVE  /\ Len(Follow(s)) = Len(volume.chains[s])
           /\ \A k \in 1 .. Len(volume.chains[s]) : Follow(s)[k] = volume.chains[s][k]
<1>1. PICK chain \in Seq(2 .. FAT_ENTRY_END - 1), m \in Nat :
          chain = volume.chains[s] /\ m = Len(chain) /\ chain[1] = s /\ m >= 1 /\ m <= MaxTurns
  BY ChainFacts, Constants, SMTT(60) DEF Pos
<1>2. PICK g : /\ g[0] = <<s>>
               /\ \A n \in 1 .. MaxTurns : g[n] = Longer(g[n - 1])
               /\ Follow(s) = g[MaxTurns]
  BY FollowSteps, Constants DEF Pos
<1>3. m \in Nat /\ m >= 1 /\ chain \in Seq(2 .. FAT_ENTRY_END - 1)
  BY <1>1
<1> DEFINE len(n) == IF n + 1 < m THEN n + 1 ELSE m
           S == {n \in 0 .. MaxTurns : g[n] = FirstOf(chain, len(n))}
<1>4. 0 \in S
  <2>1. len(0) = 1
    <3>1. ~ (0 + 1 < m) => m = 1
      BY <1>3
    <3> QED BY <3>1
  <2>2. FirstOf(chain, 1) = <<s>>
    BY <1>1 DEF FirstOf
  <2> QED BY <1>2, <2>1, <2>2, Constants DEF Pos
<1>5. ASSUME NEW n \in 0 .. MaxTurns - 1, n \in S PROVE n + 1 \in S
  <2>1. PICK l \in 1 .. m : l = len(n)
    BY <1>1, Constants DEF Pos
  <2>2. PICK f : f = g[n] /\ f = FirstOf(chain, l)
    <3>1. g[n] = FirstOf(chain, len(n))
      BY <1>5
    <3> HIDE DEF len
    <3> QED BY <2>1, <3>1
  <2>3. f \in Seq(2 .. FAT_ENTRY_END - 1) /\ Len(f) = l /\ f[l] = chain[l]
    <3>1. l \in Nat /\ \A k \in 1 .. l : chain[k] \in 2 .. FAT_ENTRY_END - 1
      <4>1. l \in Nat /\ l <= Len(chain)
        BY <1>1, <1>3, <2>1
      <4>2. \A k \in 1 .. Len(chain) : chain[k] \in 2 .. FAT_ENTRY_END - 1
        BY <1>1, ChainFacts
      <4>3. \A k \in 1 .. l : k \in 1 .. Len(chain)
        BY <1>3, <4>1
      <4> QED BY <4>1, <4>2, <4>3
    <3>2. f = [k \in 1 .. l |-> chain[k]]
      BY <2>2 DEF FirstOf
    <3> QED BY <2>1, <3>1, <3>2
  <2>4. g[n + 1] = Longer(f)
    <3>1. n + 1 \in 1 .. MaxTurns /\ (n + 1) - 1 = n
      BY Constants DEF Pos
    <3>2. g[n + 1] = Longer(g[(n + 1) - 1])
      BY <1>2, <3>1
    <3> QED BY <2>2, <3>1, <3>2
  <2>5. FatReadTable(f[l]) = IF l = m THEN 0 ELSE chain[l + 1]
    BY <1>1, <2>1, <2>3, ReadsTable
  <2>6. CASE l = m
    <3>1. Longer(f) = f
      BY <2>3, <2>5, <2>6 DEF Longer
    <3>2. len(n + 1) = m
      BY <1>1, <2>1, <2>6, Constants DEF Pos
    <3> QED BY <2>2, <2>4, <2>6, <3>1, <3>2, Constants DEF Pos
  <2>7. CASE l < m
    <3>1. chain[l + 1] \in 2 .. FAT_ENTRY_END - 1 /\ chain[l + 1] # 0
      <4>1. l + 1 \in 1 .. Len(chain)
        BY <1>1, <2>1, <2>7
      <4>2. chain[l + 1] \in 2 .. FAT_ENTRY_END - 1
        BY <4>1, ElementOf, Zenon
      <4> QED BY <4>2, Constants
    <3>2. Longer(f) = Append(f, chain[l + 1])
      <4>1. FatReadTable(f[Len(f)]) = chain[l + 1]
        BY <2>1, <2>3, <2>5, <2>7
      <4> QED BY <3>1, <4>1, Zenon DEF Longer
    <3>3. Append(f, chain[l + 1]) = FirstOf(chain, l + 1)
      <4>1. PICK e \in 2 .. FAT_ENTRY_END - 1 : e = chain[l + 1]
        BY <3>1
      <4>2. l \in Nat /\ f = [k \in 1 .. l |-> chain[k]]
        BY <2>1, <2>2 DEF FirstOf
      <4>3. PICK h : h = Append(f, e)
        OBVIOUS
      <4>4. DOMAIN h = 1 .. l + 1 /\ h[l + 1] = e /\ \A k \in 1 .. l : h[k] = f[k]
        BY <2>3, <4>2, <4>3
      <4>5. \A k \in 1 .. l + 1 : h[k] = chain[k]
        BY <4>1, <4>2, <4>4
      <4>6. h \in Seq(2 .. FAT_ENTRY_END - 1) /\ DOMAIN h = 1 .. l + 1
        BY <2>3, <4>3, <4>4
      <4> QED BY <4>1, <4>3, <4>5, <4>6 DEF FirstOf
    <3>4. len(n + 1) = l + 1
      BY <1>1, <2>1, <2>7, Constants DEF Pos
    <3> QED BY <2>4, <3>2, <3>3, <3>4, Constants DEF Pos
  <2> QED BY <1>1, <2>1, <2>6, <2>7
<1> HIDE DEF S
<1>6. \A n \in 0 .. MaxTurns : n \in S
  BY <1>4, <1>5, Steps, Constants DEF Pos
<1>7. Follow(s) = FirstOf(chain, m)
  BY <1>1, <1>2, <1>6, Constants DEF S, Pos
<1>8. Len(FirstOf(chain, m)) = m /\ \A k \in 1 .. m : FirstOf(chain, m)[k] = chain[k]
  BY <1>3 DEF FirstOf
<1> QED BY <1>1, <1>7, <1>8

\* _fat_prev_sector_location moves to the sector before, and fails before
\* the first one.
LEMMA PrevMoves ==
    ASSUME Ready, NEW c, HasChain(c), NEW loc, NEW n, AtSector(loc, c, n)
    PROVE  IF n > 0 THEN AtSector(PrevSector(loc), c, n - 1) ELSE PrevSector(loc) = NOWHERE
<1>1. PICK k \in 1 .. Len(ChainOf(c)), i \in 0 .. volume.sectors_per_cluster - 1 :
        /\ loc = [start_cluster |-> c, cluster |-> ChainOf(c)[k], sector_index |-> i]
        /\ n = (k - 1) * volume.sectors_per_cluster + i
  BY DEF AtSector
<1>2. loc # NOWHERE
  BY AtSectorFacts
<1>3. PICK m \in Pos, p \in Pos : m = Len(ChainOf(c)) /\ p = volume.sectors_per_cluster
         /\ p = sb.sectors_per_cluster
  BY ChainOfFacts, Numbers
<1>4. k \in 1 .. m /\ i \in 0 .. p - 1 /\ n = (k - 1) * p + i
  BY <1>1, <1>3
<1>5. PICK a \in Nat : a = (k - 1) * p
  BY <1>4 DEF Pos
<1>6. CASE i # 0
  <2>1. PrevSector(loc) = [start_cluster |-> c, cluster |-> ChainOf(c)[k], sector_index |-> i - 1]
    BY <1>1, <1>2, <1>6 DEF PrevSector
  <2>2. i - 1 \in 0 .. p - 1 /\ (k - 1) * p + (i - 1) = n - 1 /\ n > 0
    BY <1>4, <1>5, <1>6 DEF Pos
  <2>3. AtSector(PrevSector(loc), c, n - 1)
    BY <1>3, <1>4, <2>1, <2>2 DEF AtSector
  <2> QED BY <2>2, <2>3
<1>7. CASE i = 0 /\ k = 1
  <2>1. loc.cluster = loc.start_cluster /\ loc.sector_index = 0
    BY <1>1, <1>7, ChainOfFacts
  <2>2. PrevSector(loc) = NOWHERE
    BY <1>2, <2>1 DEF PrevSector
  <2>3. n = 0
    BY <1>4, <1>7 DEF Pos
  <2> QED BY <2>2, <2>3
<1>8. CASE i = 0 /\ k > 1
  <2>1. c \in DOMAIN volume.chains /\ ChainOf(c) = volume.chains[c]
    <3>1. c # 0
      <4>1. SUFFICES ASSUME c = 0 PROVE FALSE
        OBVIOUS
      <4>2. ChainOf(c) = <<0>>
        BY <4>1 DEF ChainOf
      <4> QED BY <1>3, <1>4, <1>8, <4>2
    <3> QED BY <3>1 DEF HasChain, ChainOf
  <2>2. ASSUME NEW j \in 1 .. m, NEW l \in 1 .. m, ChainOf(c)[j] = ChainOf(c)[l] PROVE j = l
    BY <1>3, <2>1, <2>2, ClusterPlace
  <2>3. ChainOf(c)[k] # c
    <3>1. ChainOf(c)[1] = c /\ 1 \in 1 .. m
      BY <1>3, ChainOfFacts DEF Pos
    <3> QED BY <1>4, <1>8, <2>2, <3>1
  <2> DEFINE chain == Follow(c)
             before == {j \in 1 .. Len(chain) - 1 : chain[j + 1] = loc.cluster}
  <2>4. Len(chain) = m /\ \A j \in 1 .. m : chain[j] = ChainOf(c)[j]
    BY <1>3, <2>1, FollowsChain
  <2>5. before = {k - 1}
    <3>1. ASSUME NEW j \in before PROVE j = k - 1
      <4>1. j \in 1 .. m - 1 /\ j + 1 \in 1 .. m /\ ChainOf(c)[j + 1] = ChainOf(c)[k]
        BY <1>1, <1>3, <2>4, <3>1 DEF Pos
      <4>2. j + 1 = k
        BY <1>4, <2>2, <4>1
      <4> QED BY <1>4, <4>1, <4>2
    <3>2. k - 1 \in before
      BY <1>1, <1>4, <1>8, <2>4 DEF Pos
    <3> QED BY <3>1, <3>2
  <2>6. (CHOOSE x \in before : \A y \in before : x <= y) = k - 1
    BY <1>4, <2>5
  <2>7. loc.start_cluster = c /\ loc.cluster # c /\ loc.sector_index = 0
    BY <1>1, <1>8, <2>3
  <2>8. PrevSector(loc) = [loc EXCEPT !.cluster = chain[k - 1], !.sector_index = p - 1]
    <3>1. PrevSector(loc) =
            [loc EXCEPT !.cluster = chain[CHOOSE x \in before : \A y \in before : x <= y],
                        !.sector_index = sb.sectors_per_cluster - 1]
      BY <1>2, <2>5, <2>7 DEF PrevSector
    <3> QED BY <1>3, <2>6, <3>1
  <2> HIDE DEF chain, before
  <2>9. k - 1 \in 1 .. m /\ p - 1 \in 0 .. p - 1
    BY <1>4, <1>8 DEF Pos
  <2>10. PrevSector(loc) = [start_cluster |-> c, cluster |-> ChainOf(c)[k - 1], sector_index |-> p - 1]
    BY <1>1, <2>4, <2>8, <2>9
  <2>11. n - 1 = ((k - 1) - 1) * p + (p - 1) /\ n > 0
    <3>1. PICK b \in Nat : b = ((k - 1) - 1) * p
      BY <2>9 DEF Pos
    <3>2. b + p = a
      BY <1>5, <2>9, <3>1 DEF Pos
    <3> QED BY <1>4, <1>5, <1>8, <3>1, <3>2 DEF Pos
  <2>12. AtSector(PrevSector(loc), c, n - 1)
    BY <1>3, <2>9, <2>10, <2>11 DEF AtSector
  <2> QED BY <2>11, <2>12
<1> QED BY <1>4, <1>6, <1>7, <1>8

\* A seek forward moves by so many sectors, and fails behind the last one.
LEMMA AheadMoves ==
    ASSUME Ready, NEW c, HasChain(c), NEW loc, NEW n, AtSector(loc, c, n), NEW count \in Nat
    PROVE  IF n + count < Sectors(c) THEN AtSector(Ahead(loc, count), c, n + count)
           ELSE Ahead(loc, count) = NOWHERE
<1>1. PICK m \in Nat : m = Sectors(c) /\ n \in 0 .. m - 1
  BY SectorsPos, AtSectorFacts DEF Pos
<1>2. PICK g : /\ g[0] = loc
               /\ \A j \in 1 .. count : g[j] = NextSector(g[j - 1])
               /\ Ahead(loc, count) = g[count]
  BY AheadSteps
<1> DEFINE S == {j \in 0 .. count :
                   IF n + j < m THEN AtSector(g[j], c, n + j) ELSE g[j] = NOWHERE}
<1>3. 0 \in S
  <2>1. n + 0 < m /\ n + 0 = n
    BY <1>1
  <2> QED BY <1>2, <2>1
<1>4. ASSUME NEW j \in 0 .. count - 1, j \in S PROVE j + 1 \in S
  <2>1. g[j + 1] = NextSector(g[j]) /\ j + 1 \in 0 .. count /\ n + j \in Int
    BY <1>1, <1>2
  <2>2. CASE n + j < m
    <3>1. AtSector(g[j], c, n + j)
      BY <1>4, <2>2
    <3>2. IF (n + j) + 1 < m THEN AtSector(g[j + 1], c, (n + j) + 1) ELSE g[j + 1] = NOWHERE
      BY <1>1, <2>1, <3>1, NextMoves
    <3>3. (n + j) + 1 = n + (j + 1)
      BY <1>1
    <3> QED BY <2>1, <3>2, <3>3
  <2>3. CASE ~ (n + j < m)
    <3>1. g[j] = NOWHERE
      BY <1>4, <2>3
    <3>2. g[j + 1] = NOWHERE
      BY <2>1, <3>1 DEF NextSector
    <3>3. ~ (n + (j + 1) < m)
      BY <1>1, <2>3
    <3> QED BY <2>1, <3>2, <3>3
  <2> QED BY <2>2, <2>3
<1> HIDE DEF S
<1>5. \A j \in 0 .. count : j \in S
  BY <1>3, <1>4, Steps
<1>6. count \in S
  BY <1>5
<1> QED BY <1>1, <1>2, <1>6 DEF S

\* A seek backward moves by so many sectors, and fails before the first one.
LEMMA BackMoves ==
    ASSUME Ready, NEW c, HasChain(c), NEW loc, NEW n, AtSector(loc, c, n), NEW count \in Nat
    PROVE  IF count <= n THEN AtSector(Back(loc, count), c, n - count)
           ELSE Back(loc, count) = NOWHERE
<1>1. n \in Nat
  BY SectorsPos, AtSectorFacts DEF Pos
<1>2. PICK g : /\ g[0] = loc
               /\ \A j \in 1 .. count : g[j] = PrevSector(g[j - 1])
               /\ Back(loc, count) = g[count]
  BY BackSteps
<1> DEFINE S == {j \in 0 .. count :
                   IF j <= n THEN AtSector(g[j], c, n - j) ELSE g[j] = NOWHERE}
<1>3. 0 \in S
  <2>1. 0 <= n /\ n - 0 = n
    BY <1>1
  <2> QED BY <1>2, <2>1
<1>4. ASSUME NEW j \in 0 .. count - 1, j \in S PROVE j + 1 \in S
  <2>1. g[j + 1] = PrevSector(g[j]) /\ j + 1 \in 0 .. count
    BY <1>1, <1>2
  <2>2. CASE j <= n
    <3>1. AtSector(g[j], c, n - j)
      BY <1>4, <2>2
    <3>2. IF n - j > 0 THEN AtSector(g[j + 1], c, (n - j) - 1) ELSE g[j + 1] = NOWHERE
      BY <2>1, <3>1, PrevMoves
    <3>3. (n - j) - 1 = n - (j + 1) /\ (n - j > 0 <=> j + 1 <= n)
      BY <1>1
    <3> QED BY <2>1, <3>2, <3>3
  <2>3. CASE ~ (j <= n)
    <3>1. g[j] = NOWHERE
      BY <1>4, <2>3
    <3>2. g[j + 1] = NOWHERE
      BY <2>1, <3>1 DEF PrevSector
    <3>3. ~ (j + 1 <= n)
      BY <1>1, <2>3
    <3> QED BY <2>1, <3>2, <3>3
  <2> QED BY <2>2, <2>3
<1> HIDE DEF S
<1>5. \A j \in 0 .. count : j \in S
  BY <1>3, <1>4, Steps
<1>6. count \in S
  BY <1>5
<1> QED BY <1>2, <1>6 DEF S

-----------------------------------------------------------------------------
(* The bytes of a file                                                     *)

\* Byte i of the clusters of a file, from the layout.
FileByte(c, i) ==
    LET cluster == ChainOf(c)[(i - 1) \div ClusterSize + 1]
        block == DataStart + (cluster - 2) * volume.sectors_per_cluster
    IN  ByteCell(block, (i - 1) % ClusterSize)

\* A sector of a chain is on the device.
LEMMA OnDevice ==
    ASSUME Ready, NEW c \in DOMAIN volume.chains, NEW loc, NEW n, AtSector(loc, c, n)
    PROVE  SectorIndex(loc) \in Blocks
<1>1. ChainOf(c) = volume.chains[c] /\ HasChain(c)
  <2>1. c \in Nat /\ c # 0
    <3>1. c \in 2 .. FAT_ENTRY_END - 1
      BY ChainFacts
    <3> QED BY <3>1, Constants
  <2> QED BY <2>1 DEF ChainOf, HasChain
<1>2. PICK k \in 1 .. Len(ChainOf(c)), i \in 0 .. volume.sectors_per_cluster - 1 :
        loc = [start_cluster |-> c, cluster |-> ChainOf(c)[k], sector_index |-> i]
  BY DEF AtSector
<1>3. PICK x \in Nat, p \in Pos, d \in Nat, b \in Nat :
        /\ x = ChainOf(c)[k] /\ x >= 2 /\ p = volume.sectors_per_cluster /\ d = DataStart
        /\ b = volume.blocks /\ d + (x - 1) * p <= b
        /\ p = sb.sectors_per_cluster /\ d = sb.data_sector_start
  <2>1. ChainOf(c)[k] \in 2 .. FAT_ENTRY_END - 1
        /\ DataStart + (ChainOf(c)[k] - 1) * volume.sectors_per_cluster <= volume.blocks
    BY <1>1, <1>2, ChainFacts
  <2>2. ChainOf(c)[k] \in Nat /\ ChainOf(c)[k] >= 2
    BY <2>1, Constants
  <2>3. /\ volume.sectors_per_cluster \in Pos /\ DataStart \in Nat /\ volume.blocks \in Nat
        /\ sb.sectors_per_cluster = volume.sectors_per_cluster /\ sb.data_sector_start = DataStart
    BY Numbers DEF Pos
  <2> QED BY <2>1, <2>2, <2>3, Zenon
<1>4. PICK a \in Nat, e \in Nat : a = (x - 2) * p /\ e = (x - 1) * p /\ a + p = e
  <2>1. PICK h \in Nat : h = x - 2 /\ h + 1 = x - 1
    BY <1>3
  <2>2. h * p \in Nat /\ (h + 1) * p \in Nat /\ h * p + p = (h + 1) * p
    BY DEF Pos
  <2> QED BY <2>1, <2>2
<1>5. SectorIndex(loc) = d + a + i
  BY <1>2, <1>3, <1>4 DEF SectorIndex
<1>6. i \in 0 .. p - 1
  BY <1>2, <1>3
<1>7. d + a + i \in 0 .. b - 1
  <2>1. d + e <= b
    BY <1>3, <1>4
  <2> QED BY <1>4, <1>6, <2>1 DEF Pos
<1> QED BY <1>3, <1>5, <1>7 DEF Blocks

\* What is in a sector of a chain.
LEMMA SectorByte ==
    ASSUME Ready, NEW c, HasChain(c), NEW loc, NEW n, AtSector(loc, c, n),
           NEW o \in 0 .. FAT32_SECTOR_SIZE - 1
    PROVE  FileByte(c, n * FAT32_SECTOR_SIZE + o + 1) = ByteCell(SectorIndex(loc), o)
<1>1. PICK k \in 1 .. Len(ChainOf(c)), i \in 0 .. volume.sectors_per_cluster - 1 :
        /\ loc = [start_cluster |-> c, cluster |-> ChainOf(c)[k], sector_index |-> i]
        /\ n = (k - 1) * volume.sectors_per_cluster + i
  BY DEF AtSector
<1>2. PICK z \in Pos, p \in Pos, d \in Nat :
        /\ z = FAT32_SECTOR_SIZE /\ p = volume.sectors_per_cluster /\ d = DataStart
        /\ p = sb.sectors_per_cluster /\ d = sb.data_sector_start
  BY Numbers, Constants
<1>3. k \in Pos /\ i \in 0 .. p - 1 /\ o \in 0 .. z - 1 /\ n = (k - 1) * p + i
  BY <1>1, <1>2, ChainOfFacts DEF Pos
<1>4. PICK w \in Pos, a \in Nat : w = p * z /\ w = ClusterSize /\ a = i * z
  BY <1>2, <1>3 DEF ClusterSize, Pos
<1>5. a + o \in 0 .. w - 1
  <2>1. i < p => i * z + z <= p * z
    BY <1>3, Grows
  <2>2. a + z <= w
    BY <1>3, <1>4, <2>1
  <2> QED BY <1>3, <1>4, <2>2 DEF Pos
<1>6. n * z = (k - 1) * w + a
  <2>1. PICK h \in Nat : h = k - 1
    BY <1>3 DEF Pos
  <2>2. (h * p + i) * z = h * (p * z) + i * z
    BY <1>3 DEF Pos
  <2> QED BY <1>3, <1>4, <2>1, <2>2
<1>7. PICK e \in Nat : e = (k - 1) * w
  BY <1>3, <1>4 DEF Pos
<1>8. (n * z + o + 1) - 1 = e + (a + o)
  BY <1>3, <1>4, <1>6, <1>7
<1>9. (e + (a + o)) \div w = k - 1 /\ (e + (a + o)) % w = a + o
  <2>1. PICK h \in Int : h = k - 1
    BY <1>3 DEF Pos
  <2>2. PICK t \in 0 .. w - 1 : t = a + o
    BY <1>5
  <2>3. (h * w + t) \div w = h /\ (h * w + t) % w = t
    BY <2>1, <2>2, DivModUnique
  <2> QED BY <1>7, <2>1, <2>2, <2>3
<1>10. PICK x \in Nat : x = ChainOf(c)[k]
  <2>1. k = 1 \/ (k - 1 \in 1 .. Len(ChainOf(c)) /\ k - 1 < Len(ChainOf(c)) /\ (k - 1) + 1 = k)
    BY <1>1, ChainOfFacts DEF Pos
  <2> QED BY <2>1, ChainOfFacts DEF Pos
<1>11. FileByte(c, n * z + o + 1) = (d + (x - 2) * p) * z + (a + o)
  <2>1. (k - 1) + 1 = k
    BY <1>3 DEF Pos
  <2> QED BY <1>2, <1>4, <1>8, <1>9, <1>10, <2>1 DEF FileByte, ByteCell
<1>12. PICK y \in Int : y = (x - 2) * p
  BY <1>2, <1>10 DEF Pos
<1>13. SectorIndex(loc) = d + y + i
  BY <1>1, <1>2, <1>10, <1>12 DEF SectorIndex
<1>14. (d + y + i) * z + o = (d + y) * z + (a + o)
  <2>1. PICK h \in Int : h = d + y
    OBVIOUS
  <2>2. (h + i) * z + o = h * z + (i * z + o)
    BY <1>3 DEF Pos
  <2> QED BY <1>4, <2>1, <2>2
<1> QED BY <1>2, <1>11, <1>12, <1>13, <1>14 DEF ByteCell

-----------------------------------------------------------------------------
(* Reads                                                                   *)

\* In a read of size bytes at the position at of a file whose rest is taken
\* for rest bytes: what is read, what is left and the location agree.
ReadOk(r, c, at, size, rest) ==
    /\ r = [loc |-> r.loc, offset |-> r.offset, data |-> r.data, size |-> r.size,
            remain |-> r.remain]
    /\ r.offset \in 0 .. FAT32_SECTOR_SIZE /\ r.data \in Seq(Nat)
    /\ r.size \in Nat /\ r.remain \in Nat
    /\ Len(r.data) + r.size = size /\ Len(r.data) + r.remain = rest
    /\ r.loc # NOWHERE =>
          \E n \in Nat : /\ AtSector(r.loc, c, n)
                         /\ at + Len(r.data) = n * FAT32_SECTOR_SIZE + r.offset

\* The loop ends.
ReadEnds(r) == r.size = 0 \/ r.remain = 0 \/ r.loc = NOWHERE

\* How much one turn reads.
Chunk(r) == MinOf(r.size, MinOf(FAT32_SECTOR_SIZE - r.offset, r.remain))

\* What one turn copies.
Copied(r) == [i \in 1 .. Chunk(r) |-> ByteCell(SectorIndex(r.loc), r.offset + i - 1)]

\* The numbers of a read.
LEMMA ReadFacts ==
    ASSUME NEW c, NEW at, NEW size, NEW rest, NEW r, ReadOk(r, c, at, size, rest)
    PROVE  /\ r.offset \in Nat /\ r.offset <= FAT32_SECTOR_SIZE /\ Len(r.data) \in Nat
           /\ r.data \in Seq(Nat) /\ r.size \in Nat /\ r.remain \in Nat
           /\ Len(r.data) + r.size = size /\ Len(r.data) + r.remain = rest
<1>1. /\ r.offset \in 0 .. FAT32_SECTOR_SIZE /\ r.data \in Seq(Nat)
      /\ r.size \in Nat /\ r.remain \in Nat
      /\ Len(r.data) + r.size = size /\ Len(r.data) + r.remain = rest
  BY DEF ReadOk
<1> QED BY <1>1, Constants DEF Pos

\* How much one turn reads, and which limit ends it.
LEMMA ChunkFacts ==
    ASSUME NEW c, NEW at, NEW size, NEW rest, NEW r, ReadOk(r, c, at, size, rest)
    PROVE  /\ Chunk(r) \in Nat /\ Chunk(r) <= r.size /\ Chunk(r) <= r.remain
           /\ r.offset + Chunk(r) <= FAT32_SECTOR_SIZE
           /\ r.size > 0 /\ r.remain > 0 /\ r.offset < FAT32_SECTOR_SIZE => Chunk(r) > 0
           /\ \/ r.size = Chunk(r) \/ r.remain = Chunk(r)
              \/ r.offset + Chunk(r) = FAT32_SECTOR_SIZE
<1>1. PICK z \in Nat, w \in Nat, s \in Pos, o \in Nat :
        z = r.size /\ w = r.remain /\ s = FAT32_SECTOR_SIZE /\ o = r.offset /\ o <= s
  BY Constants, ReadFacts
<1>2. Chunk(r) = IF z < (IF s - o < w THEN s - o ELSE w) THEN z
                 ELSE IF s - o < w THEN s - o ELSE w
  BY <1>1 DEF Chunk, MinOf
<1> QED BY <1>1, <1>2 DEF Pos

\* What is copied are numbers of bytes.
LEMMA CopiedFacts ==
    ASSUME Ready, NEW c, NEW at, NEW size, NEW rest, NEW r, ReadOk(r, c, at, size, rest),
           SectorIndex(r.loc) \in Blocks
    PROVE  /\ Copied(r) \in Seq(Nat) /\ Len(Copied(r)) = Chunk(r)
           /\ r.data \o Copied(r) \in Seq(Nat)
           /\ Len(r.data \o Copied(r)) = Len(r.data) + Chunk(r)
           /\ \A i \in 1 .. Len(r.data) : (r.data \o Copied(r))[i] = r.data[i]
           /\ \A i \in 1 .. Chunk(r) : (r.data \o Copied(r))[Len(r.data) + i] = Copied(r)[i]
<1>1. PICK b \in Nat, s \in Pos, o \in Nat, k \in Nat :
        b = SectorIndex(r.loc) /\ s = FAT32_SECTOR_SIZE /\ o = r.offset /\ k = Chunk(r)
  <2>1. SectorIndex(r.loc) \in Nat
    BY Numbers DEF Blocks, Pos
  <2>2. r.offset \in Nat /\ Chunk(r) \in Nat
    BY ReadFacts, ChunkFacts
  <2> QED BY <2>1, <2>2, Constants, Zenon
<1>2. \A i \in 1 .. k : b * s + (o + i - 1) \in Nat
  <2>1. b * s \in Nat
    BY DEF Pos
  <2> QED BY <2>1
<1>3. Copied(r) = [i \in 1 .. k |-> b * s + (o + i - 1)]
  BY <1>1 DEF Copied, ByteCell
<1>4. Copied(r) \in Seq(Nat) /\ Len(Copied(r)) = k
  BY <1>2, <1>3
<1>5. PICK d \in Seq(Nat), e \in Seq(Nat) : d = r.data /\ e = Copied(r) /\ Len(e) = k
  BY <1>4, ReadFacts, Zenon
<1>6. d \o e \in Seq(Nat) /\ Len(d \o e) = Len(d) + Len(e)
      /\ (\A i \in 1 .. Len(d) : (d \o e)[i] = d[i])
      /\ (\A i \in 1 .. Len(e) : (d \o e)[Len(d) + i] = e[i])
  BY <1>5
<1> QED BY <1>1, <1>4, <1>5, <1>6

\* A turn that reads.
LEMMA TurnReads ==
    ASSUME NEW r, ~ ReadEnds(r), SectorIndex(r.loc) \in Blocks
    PROVE  ReadTurn(r) =
             LET leaves == r.offset + Chunk(r) = FAT32_SECTOR_SIZE /\ r.remain - Chunk(r) > 0
             IN  [loc |-> IF leaves THEN NextSector(r.loc) ELSE r.loc,
                  offset |-> IF leaves THEN 0 ELSE r.offset + Chunk(r),
                  data |-> r.data \o Copied(r),
                  size |-> r.size - Chunk(r), remain |-> r.remain - Chunk(r)]
BY Zenon DEF ReadTurn, ReadEnds, Chunk, Copied, LeavesSector

\* One turn of the loop of _fat32_fs_reg_file_read keeps the location and the
\* position together.
LEMMA TurnKeeps ==
    ASSUME Ready, NEW c, HasChain(c), NEW at \in Int, NEW size, NEW rest, NEW r,
           ReadOk(r, c, at, size, rest)
    PROVE  ReadOk(ReadTurn(r), c, at, size, rest)
<1>1. CASE ReadEnds(r)
  <2>1. ReadTurn(r) = r
    BY <1>1 DEF ReadTurn, ReadEnds
  <2> QED BY <2>1
<1>2. CASE ~ ReadEnds(r) /\ SectorIndex(r.loc) \notin Blocks
  <2>1. ReadTurn(r) = [r EXCEPT !.loc = NOWHERE]
    BY <1>2 DEF ReadTurn, ReadEnds
  <2>2. ReadTurn(r) = [loc |-> NOWHERE, offset |-> r.offset, data |-> r.data,
                       size |-> r.size, remain |-> r.remain]
    BY <2>1 DEF ReadOk
  <2>3. PICK q : q = ReadTurn(r)
    OBVIOUS
  <2>4. q.loc = NOWHERE /\ q.offset = r.offset /\ q.data = r.data /\ q.size = r.size
        /\ q.remain = r.remain
    BY <2>2, <2>3
  <2> QED BY <2>2, <2>3, <2>4 DEF ReadOk
<1>3. CASE ~ ReadEnds(r) /\ SectorIndex(r.loc) \in Blocks
  <2> DEFINE leaves == r.offset + Chunk(r) = FAT32_SECTOR_SIZE /\ r.remain - Chunk(r) > 0
  <2>1. PICK q : q = ReadTurn(r)
    OBVIOUS
  <2>2. q = [loc |-> IF leaves THEN NextSector(r.loc) ELSE r.loc,
             offset |-> IF leaves THEN 0 ELSE r.offset + Chunk(r),
             data |-> r.data \o Copied(r),
             size |-> r.size - Chunk(r), remain |-> r.remain - Chunk(r)]
    BY <1>3, <2>1, TurnReads, Zenon
  <2>3. /\ q.loc = (IF leaves THEN NextSector(r.loc) ELSE r.loc)
        /\ q.offset = (IF leaves THEN 0 ELSE r.offset + Chunk(r))
        /\ q.data = r.data \o Copied(r)
        /\ q.size = r.size - Chunk(r) /\ q.remain = r.remain - Chunk(r)
    BY <2>2, Zenon
  <2>4. q = [loc |-> q.loc, offset |-> q.offset, data |-> q.data, size |-> q.size,
             remain |-> q.remain]
    BY <2>2, <2>3, Zenon
  <2>5. q.data \in Seq(Nat) /\ Len(q.data) = Len(r.data) + Chunk(r)
    BY <1>3, <2>3, CopiedFacts
  <2>6. PICK s \in Pos, k \in Nat, o \in Nat, z \in Nat, w \in Nat, l \in Nat :
          /\ s = FAT32_SECTOR_SIZE /\ k = Chunk(r) /\ o = r.offset /\ o <= s /\ z = r.size
          /\ w = r.remain /\ l = Len(r.data) /\ k <= z /\ k <= w /\ o + k <= s
          /\ l + z = size /\ l + w = rest
    <3>1. /\ Chunk(r) \in Nat /\ Chunk(r) <= r.size /\ Chunk(r) <= r.remain
          /\ r.offset + Chunk(r) <= FAT32_SECTOR_SIZE
      BY ChunkFacts
    <3>2. /\ r.offset \in Nat /\ r.offset <= FAT32_SECTOR_SIZE /\ Len(r.data) \in Nat
          /\ r.size \in Nat /\ r.remain \in Nat
          /\ Len(r.data) + r.size = size /\ Len(r.data) + r.remain = rest
      BY ReadFacts
    <3> QED BY <3>1, <3>2, Constants, Zenon
  <2>12. s \in Nat /\ k \in Nat /\ o \in Nat /\ z \in Nat /\ w \in Nat /\ l \in Nat
         /\ k <= z /\ k <= w /\ o + k <= s /\ at \in Int
    BY <2>6 DEF Pos
  <2>7. PICK n \in Nat : AtSector(r.loc, c, n) /\ at + l = n * s + o
    BY <1>3, <2>6 DEF ReadOk, ReadEnds
  <2>8. PICK m \in Nat : m = n * s /\ m + s = (n + 1) * s
    <3>1. n * s \in Nat /\ n * s + s = (n + 1) * s
      BY DEF Pos
    <3> QED BY <3>1, Zenon
  <2>9. q.offset \in 0 .. s /\ q.size \in Nat /\ q.remain \in Nat
        /\ Len(q.data) + q.size = size /\ Len(q.data) + q.remain = rest
    <3>1. q.size = z - k /\ q.remain = w - k /\ Len(q.data) = l + k
          /\ (q.offset = 0 \/ q.offset = o + k)
      BY <2>3, <2>5, <2>6
    <3>2. (l + k) + (z - k) = l + z /\ (l + k) + (w - k) = l + w /\ z - k \in Nat /\ w - k \in Nat
          /\ 0 \in 0 .. s /\ o + k \in 0 .. s
      BY <2>12
    <3> QED BY <2>6, <3>1, <3>2, Zenon
  <2>10. ASSUME q.loc # NOWHERE
         PROVE  \E x \in Nat : AtSector(q.loc, c, x) /\ at + Len(q.data) = x * s + q.offset
    <3>1. CASE leaves
      <4>1. q.loc = NextSector(r.loc) /\ q.offset = 0 /\ o + k = s /\ Len(q.data) = l + k
        BY <2>3, <2>5, <2>6, <3>1, Zenon
      <4>2. AtSector(q.loc, c, n + 1)
        <5>1. IF n + 1 < Sectors(c) THEN AtSector(NextSector(r.loc), c, n + 1)
              ELSE NextSector(r.loc) = NOWHERE
          BY <2>7, NextMoves
        <5> QED BY <2>10, <4>1, <5>1
      <4>3. at + (l + k) = (n + 1) * s + 0
        <5>1. at + l = m + o /\ m \in Nat
          BY <2>7, <2>8
        <5>2. at + (l + k) = m + s
          BY <2>12, <4>1, <5>1
        <5> QED BY <2>8, <2>12, <5>2
      <4>4. n + 1 \in Nat
        OBVIOUS
      <4> QED BY <4>1, <4>2, <4>3, <4>4
    <3>2. CASE ~ leaves
      <4>1. q.loc = r.loc /\ q.offset = o + k /\ Len(q.data) = l + k
        BY <2>3, <2>5, <2>6, <3>2, Zenon
      <4>2. at + (l + k) = n * s + (o + k)
        <5>1. at + l = m + o /\ m \in Nat
          BY <2>7, <2>8
        <5>2. at + (l + k) = m + (o + k)
          BY <2>12, <5>1
        <5> QED BY <2>8, <5>2
      <4> QED BY <2>7, <4>1, <4>2
    <3> QED BY <3>1, <3>2
  <2> HIDE DEF leaves
  <2>11. ReadOk(q, c, at, size, rest)
    BY <2>4, <2>5, <2>6, <2>9, <2>10 DEF ReadOk
  <2> QED BY <2>1, <2>11
<1> QED BY <1>1, <1>2, <1>3

\* What was read are the bytes of the file from at on.
InFile(r, c, at) ==
    r.loc # NOWHERE /\ \A i \in 1 .. Len(r.data) : r.data[i] = FileByte(c, at + i)

\* A turn in a file that has the rest in its clusters reads its bytes.
LEMMA TurnInFile ==
    ASSUME Ready, NEW c, HasChain(c), NEW at \in Int, NEW size, NEW rest \in Nat, NEW r,
           ReadOk(r, c, at, size, rest), InFile(r, c, at),
           rest > 0 => c \in DOMAIN volume.chains,
           at + rest <= Sectors(c) * FAT32_SECTOR_SIZE
    PROVE  InFile(ReadTurn(r), c, at)
<1>1. CASE ReadEnds(r)
  <2>1. ReadTurn(r) = r
    BY <1>1 DEF ReadTurn, ReadEnds
  <2> QED BY <2>1
<1>2. CASE ~ ReadEnds(r)
  <2>1. PICK s \in Pos, k \in Nat, o \in Nat, w \in Nat, l \in Nat, t \in Nat :
          /\ s = FAT32_SECTOR_SIZE /\ k = Chunk(r) /\ o = r.offset
          /\ w = r.remain /\ l = Len(r.data) /\ k <= w /\ o + k <= s
          /\ l + w = rest /\ t = Sectors(c)
    <3>1. /\ Chunk(r) \in Nat /\ Chunk(r) <= r.remain
          /\ r.offset + Chunk(r) <= FAT32_SECTOR_SIZE
      BY ChunkFacts
    <3>2. /\ r.offset \in Nat /\ Len(r.data) \in Nat /\ r.remain \in Nat
          /\ Len(r.data) + r.remain = rest
      BY ReadFacts
    <3>3. Sectors(c) \in Nat
      BY SectorsPos DEF Pos
    <3> QED BY <3>1, <3>2, <3>3, Constants, Zenon
  <2>2. s \in Nat /\ k \in Nat /\ o \in Nat /\ w \in Nat /\ l \in Nat /\ t \in Nat
        /\ k <= w /\ o + k <= s /\ at \in Int /\ l + w = rest /\ w > 0
    <3>1. w # 0
      BY <1>2, <2>1 DEF ReadEnds
    <3> QED BY <2>1, <3>1 DEF Pos
  <2>3. c \in DOMAIN volume.chains
    BY <2>2
  <2>4. PICK n \in Nat : AtSector(r.loc, c, n) /\ at + l = n * s + o
    BY <1>2, <2>1 DEF ReadOk, ReadEnds
  <2>5. SectorIndex(r.loc) \in Blocks
    BY <2>3, <2>4, OnDevice
  <2> DEFINE leaves == r.offset + Chunk(r) = FAT32_SECTOR_SIZE /\ r.remain - Chunk(r) > 0
  <2>6. PICK q : q = ReadTurn(r)
    OBVIOUS
  <2>7. q = [loc |-> IF leaves THEN NextSector(r.loc) ELSE r.loc,
             offset |-> IF leaves THEN 0 ELSE r.offset + Chunk(r),
             data |-> r.data \o Copied(r),
             size |-> r.size - Chunk(r), remain |-> r.remain - Chunk(r)]
    BY <1>2, <2>5, <2>6, TurnReads, Zenon
  <2>8. q.loc = (IF leaves THEN NextSector(r.loc) ELSE r.loc) /\ q.data = r.data \o Copied(r)
    BY <2>7, Zenon
  <2>9. PICK m \in Nat : m = n * s /\ m + s = (n + 1) * s
    <3>1. n * s \in Nat /\ n * s + s = (n + 1) * s
      BY DEF Pos
    <3> QED BY <3>1, Zenon
  <2>10. at + l = m + o
    BY <2>4, <2>9
  <2>11. q.loc # NOWHERE
    <3>1. CASE leaves
      <4>1. o + k = s /\ w - k > 0 /\ q.loc = NextSector(r.loc)
        BY <2>1, <2>8, <3>1, Zenon
      <4>2. n + 1 < t
        <5>1. t <= n + 1 => t * s <= (n + 1) * s
          <6>1. PICK x \in Int, u \in Int : x = n + 1 /\ u = t
            BY <2>2
          <6>2. u <= x => u * s <= x * s
            BY <2>1, <6>1, Grows
          <6> QED BY <6>1, <6>2
        <5>2. PICK y \in Nat : y = t * s /\ at + rest <= y
          <6>1. t * s \in Nat
            BY <2>2, Product
          <6> QED BY <2>1, <6>1
        <5>3. m + s < at + rest
          BY <2>2, <2>9, <2>10, <4>1
        <5> QED BY <2>2, <2>9, <5>1, <5>2, <5>3
      <4>3. AtSector(q.loc, c, n + 1)
        BY <2>1, <2>4, <4>1, <4>2, NextMoves
      <4> QED BY <4>3, AtSectorFacts
    <3>2. CASE ~ leaves
      BY <1>2, <2>8, <3>2 DEF ReadEnds
    <3> QED BY <3>1, <3>2
  <2>12. /\ Len(q.data) = l + k
         /\ \A i \in 1 .. l : q.data[i] = r.data[i]
         /\ \A i \in 1 .. k : q.data[l + i] = Copied(r)[i]
    <3>1. /\ Len(r.data \o Copied(r)) = Len(r.data) + Chunk(r)
          /\ \A i \in 1 .. Len(r.data) : (r.data \o Copied(r))[i] = r.data[i]
          /\ \A i \in 1 .. Chunk(r) : (r.data \o Copied(r))[Len(r.data) + i] = Copied(r)[i]
      BY <2>5, CopiedFacts
    <3> QED BY <2>1, <2>8, <3>1, Zenon
  <2>13. ASSUME NEW i \in 1 .. k PROVE Copied(r)[i] = FileByte(c, at + (l + i))
    <3>1. Copied(r)[i] = ByteCell(SectorIndex(r.loc), o + i - 1)
      BY <2>1, <2>13 DEF Copied
    <3>2. o + i - 1 \in 0 .. s - 1
      BY <2>2, <2>13
    <3>3. FileByte(c, n * s + (o + i - 1) + 1) = ByteCell(SectorIndex(r.loc), o + i - 1)
      BY <2>1, <2>4, <3>2, SectorByte
    <3>4. n * s + (o + i - 1) + 1 = at + (l + i)
      <4>1. m + (o + i - 1) + 1 = at + (l + i)
        BY <2>2, <2>9, <2>10
      <4> QED BY <2>9, <4>1
    <3> QED BY <3>1, <3>3, <3>4
  <2>14. ASSUME NEW i \in 1 .. Len(q.data) PROVE q.data[i] = FileByte(c, at + i)
    <3>1. CASE i \in 1 .. l
      BY <2>1, <2>12, <3>1 DEF InFile
    <3>2. CASE i \notin 1 .. l
      <4>1. PICK j \in 1 .. k : i = l + j
        <5>1. i - l \in 1 .. k /\ i = l + (i - l)
          BY <2>2, <2>12, <2>14, <3>2
        <5> QED BY <5>1, Zenon
      <4> QED BY <2>12, <2>13, <4>1
    <3> QED BY <3>1, <3>2
  <2> QED BY <2>6, <2>11, <2>14 DEF InFile
<1> QED BY <1>1, <1>2

\* After j turns the loop has ended or has read j - 1 bytes.
Turned(r, j) == ReadEnds(r) \/ (Len(r.data) >= j - 1 /\ (j > 0 => r.offset < FAT32_SECTOR_SIZE))

\* A turn reads a byte, unless it only leaves a full sector or the loop ended.
LEMMA TurnProgress ==
    ASSUME Ready, NEW c, HasChain(c), NEW at \in Int, NEW size, NEW rest, NEW r,
           ReadOk(r, c, at, size, rest), NEW j \in Nat, Turned(r, j)
    PROVE  Turned(ReadTurn(r), j + 1)
<1>1. CASE ReadEnds(r)
  <2>1. ReadTurn(r) = r
    BY <1>1 DEF ReadTurn, ReadEnds
  <2> QED BY <1>1, <2>1 DEF Turned
<1>2. CASE ~ ReadEnds(r) /\ SectorIndex(r.loc) \notin Blocks
  <2>1. ReadTurn(r) = [r EXCEPT !.loc = NOWHERE]
    BY <1>2 DEF ReadTurn, ReadEnds
  <2>2. ReadTurn(r) = [loc |-> NOWHERE, offset |-> r.offset, data |-> r.data,
                       size |-> r.size, remain |-> r.remain]
    BY <2>1 DEF ReadOk
  <2>3. ReadTurn(r).loc = NOWHERE
    BY <2>2
  <2> QED BY <2>3 DEF Turned, ReadEnds
<1>3. CASE ~ ReadEnds(r) /\ SectorIndex(r.loc) \in Blocks
  <2>1. PICK s \in Pos, k \in Nat, o \in Nat, z \in Nat, w \in Nat, l \in Nat :
          /\ s = FAT32_SECTOR_SIZE /\ k = Chunk(r) /\ o = r.offset /\ z = r.size
          /\ w = r.remain /\ l = Len(r.data) /\ k <= z /\ k <= w
          /\ (z > 0 /\ w > 0 /\ o < s => k > 0) /\ (z = k \/ w = k \/ o + k = s)
    <3>1. /\ Chunk(r) \in Nat /\ Chunk(r) <= r.size /\ Chunk(r) <= r.remain
          /\ r.size > 0 /\ r.remain > 0 /\ r.offset < FAT32_SECTOR_SIZE => Chunk(r) > 0
      BY ChunkFacts
    <3>2. \/ r.size = Chunk(r) \/ r.remain = Chunk(r)
          \/ r.offset + Chunk(r) = FAT32_SECTOR_SIZE
      BY ChunkFacts
    <3>3. r.offset \in Nat /\ Len(r.data) \in Nat /\ r.size \in Nat /\ r.remain \in Nat
      BY ReadFacts
    <3> QED BY <3>1, <3>2, <3>3, Constants, Zenon
  <2> DEFINE leaves == r.offset + Chunk(r) = FAT32_SECTOR_SIZE /\ r.remain - Chunk(r) > 0
  <2>2. PICK q : q = ReadTurn(r)
    OBVIOUS
  <2>3. q = [loc |-> IF leaves THEN NextSector(r.loc) ELSE r.loc,
             offset |-> IF leaves THEN 0 ELSE r.offset + Chunk(r),
             data |-> r.data \o Copied(r),
             size |-> r.size - Chunk(r), remain |-> r.remain - Chunk(r)]
    BY <1>3, <2>2, TurnReads, Zenon
  <2>4. /\ q.offset = (IF leaves THEN 0 ELSE r.offset + Chunk(r))
        /\ q.data = r.data \o Copied(r)
        /\ q.size = r.size - Chunk(r) /\ q.remain = r.remain - Chunk(r)
    BY <2>3, Zenon
  <2>5. Len(q.data) = l + k /\ q.size = z - k /\ q.remain = w - k
    BY <1>3, <2>1, <2>4, CopiedFacts
  <2>6. z > 0 /\ w > 0 /\ l >= j - 1 /\ (j > 0 => o < s)
    BY <1>3, <2>1 DEF Turned, ReadEnds
  <2>7. ASSUME ~ ReadEnds(q) PROVE Len(q.data) >= (j + 1) - 1 /\ q.offset < FAT32_SECTOR_SIZE
    <3>1. z - k # 0 /\ w - k # 0
      BY <2>5, <2>7 DEF ReadEnds
    <3>2. w - k > 0 /\ o + k = s
      <4>1. k <= w /\ (z = k \/ w = k \/ o + k = s)
        BY <2>1, Zenon
      <4> QED BY <3>1, <4>1
    <3>3. q.offset = 0
      BY <2>1, <2>4, <3>2, Zenon
    <3>4. l + k >= j
      BY <2>1, <2>6
    <3> QED BY <2>1, <2>5, <3>3, <3>4 DEF Pos
  <2> QED BY <2>2, <2>7 DEF Turned
<1> QED BY <1>1, <1>2, <1>3

\* A read keeps the location and the position together and ends.
LEMMA LoopKeeps ==
    ASSUME Ready, NEW c, HasChain(c), NEW at \in Int, NEW size \in Nat, NEW rest,
           ReadOk(ReadStart(size), c, at, size, rest)
    PROVE  ReadOk(ReadLoop(size), c, at, size, rest) /\ ReadEnds(ReadLoop(size))
<1>1. PICK m \in Nat : m = 2 * size
  OBVIOUS
<1>2. PICK g : /\ g[0] = ReadStart(size)
               /\ \A j \in 1 .. m : g[j] = ReadTurn(g[j - 1])
               /\ ReadLoop(size) = g[m]
  <2>1. \E g : /\ g[0] = ReadStart(size)
               /\ \A n \in 1 .. (2 * size) : g[n] = ReadTurn(g[n - 1])
               /\ ReadLoop(size) = g[(2 * size)]
    BY <1>1, ReadLoopSteps
  <2> QED BY <1>1, <2>1
<1> DEFINE S == {j \in 0 .. m : ReadOk(g[j], c, at, size, rest) /\ Turned(g[j], j)}
<1>3. 0 \in S
  <2>1. Len(g[0].data) \in Nat
    BY <1>2, ReadFacts
  <2>2. Turned(g[0], 0)
    BY <2>1 DEF Turned
  <2> QED BY <1>2, <2>2
<1>4. ASSUME NEW j \in 0 .. m - 1, j \in S PROVE j + 1 \in S
  <2>1. g[j + 1] = ReadTurn(g[j]) /\ j + 1 \in 0 .. m /\ j \in Nat
    BY <1>2
  <2>2. ReadOk(g[j], c, at, size, rest) /\ Turned(g[j], j)
    BY <1>4
  <2>3. ReadOk(g[j + 1], c, at, size, rest)
    BY <2>1, <2>2, TurnKeeps
  <2>4. Turned(g[j + 1], j + 1)
    BY <2>1, <2>2, TurnProgress
  <2> QED BY <2>1, <2>3, <2>4
<1> HIDE DEF S
<1>5. \A j \in 0 .. m : j \in S
  BY <1>3, <1>4, Steps
<1>6. PICK r : r = ReadLoop(size) /\ ReadOk(r, c, at, size, rest) /\ Turned(r, m)
  BY <1>2, <1>5 DEF S
<1>7. ReadEnds(r)
  <2>1. SUFFICES ASSUME ~ ReadEnds(r) PROVE FALSE
    OBVIOUS
  <2>2. PICK l \in Nat, z \in Nat : l = Len(r.data) /\ z = r.size /\ l + z = size
    <3>1. Len(r.data) \in Nat /\ r.size \in Nat /\ Len(r.data) + r.size = size
      BY <1>6, ReadFacts
    <3> QED BY <3>1, Zenon
  <2>3. l >= m - 1 /\ z # 0
    BY <1>6, <2>1, <2>2 DEF Turned, ReadEnds
  <2> QED BY <1>1, <2>2, <2>3
<1> QED BY <1>6, <1>7

\* A read that begins in a file gives its bytes.
LEMMA LoopInFile ==
    ASSUME Ready, NEW c, HasChain(c), NEW at \in Int, NEW size \in Nat, NEW rest \in Nat,
           ReadOk(ReadStart(size), c, at, size, rest), InFile(ReadStart(size), c, at),
           rest > 0 => c \in DOMAIN volume.chains,
           at + rest <= Sectors(c) * FAT32_SECTOR_SIZE
    PROVE  InFile(ReadLoop(size), c, at)
<1>1. PICK m \in Nat : m = 2 * size
  OBVIOUS
<1>2. PICK g : /\ g[0] = ReadStart(size)
               /\ \A j \in 1 .. m : g[j] = ReadTurn(g[j - 1])
               /\ ReadLoop(size) = g[m]
  <2>1. \E g : /\ g[0] = ReadStart(size)
               /\ \A n \in 1 .. (2 * size) : g[n] = ReadTurn(g[n - 1])
               /\ ReadLoop(size) = g[(2 * size)]
    BY <1>1, ReadLoopSteps
  <2> QED BY <1>1, <2>1
<1> DEFINE S == {j \in 0 .. m : ReadOk(g[j], c, at, size, rest) /\ InFile(g[j], c, at)}
<1>3. 0 \in S
  BY <1>2
<1>4. ASSUME NEW j \in 0 .. m - 1, j \in S PROVE j + 1 \in S
  <2>1. g[j + 1] = ReadTurn(g[j]) /\ j + 1 \in 0 .. m /\ j \in Nat
    BY <1>2
  <2>2. ReadOk(g[j], c, at, size, rest) /\ InFile(g[j], c, at)
    BY <1>4
  <2>3. ReadOk(g[j + 1], c, at, size, rest)
    BY <2>1, <2>2, TurnKeeps
  <2>4. InFile(g[j + 1], c, at)
    BY <2>1, <2>2, TurnInFile
  <2> QED BY <2>1, <2>3, <2>4
<1> HIDE DEF S
<1>5. \A j \in 0 .. m : j \in S
  BY <1>3, <1>4, Steps
<1> QED BY <1>2, <1>5 DEF S

-----------------------------------------------------------------------------
(* The open file                                                           *)

\* What an inode of a regular file refers to.
Regular(c, size) ==
    /\ HasChain(c) /\ c \notin DOMAIN volume.dirs /\ (c = 0 => size = 0)
    /\ size \in 0 .. Modulus - 1 /\ size <= Sectors(c) * FAT32_SECTOR_SIZE

\* The location is the place of the position.
Cursor(f) ==
    \E n \in 0 .. Sectors(f.cluster) - 1 :
        AtSector(f.loc, f.cluster, n) /\ f.pos = n * FAT32_SECTOR_SIZE + f.offset

OpenFile(f) ==
    /\ f = [path |-> f.path, cluster |-> f.cluster, size |-> f.size, pos |-> f.pos,
            loc |-> f.loc, offset |-> f.offset]
    /\ f.path \in DOMAIN volume.tree
    /\ volume.tree[f.path] = [cluster |-> f.cluster, size |-> f.size]
    /\ Regular(f.cluster, f.size) /\ f.offset \in 0 .. FAT32_SECTOR_SIZE /\ Cursor(f)

FileOk == file # CLOSED => OpenFile(file)

\* The numbers of an open file.
LEMMA FileFacts ==
    ASSUME Ready, NEW f, OpenFile(f)
    PROVE  /\ HasChain(f.cluster) /\ f.size \in Nat /\ f.size < Modulus /\ f.pos \in Nat
           /\ f.offset \in Nat /\ f.offset <= FAT32_SECTOR_SIZE /\ Modulus \in Pos
           /\ f.size > 0 => f.cluster \in DOMAIN volume.chains
           /\ f.size <= Sectors(f.cluster) * FAT32_SECTOR_SIZE
<1>1. /\ HasChain(f.cluster) /\ (f.cluster = 0 => f.size = 0) /\ f.size \in 0 .. Modulus - 1
      /\ f.size <= Sectors(f.cluster) * FAT32_SECTOR_SIZE
      /\ f.offset \in 0 .. FAT32_SECTOR_SIZE
  BY DEF OpenFile, Regular
<1>2. PICK n \in 0 .. Sectors(f.cluster) - 1 : f.pos = n * FAT32_SECTOR_SIZE + f.offset
  BY DEF OpenFile, Cursor
<1>3. n \in Nat
  BY <1>1, <1>2, SectorsPos DEF Pos
<1>4. f.offset \in Nat /\ f.offset <= FAT32_SECTOR_SIZE /\ f.size \in Nat /\ f.size < Modulus
  BY <1>1, Constants DEF Pos
<1>5. n * FAT32_SECTOR_SIZE \in Nat
  BY <1>3, Constants, Product DEF Pos
<1>6. f.pos \in Nat
  BY <1>2, <1>4, <1>5
<1>7. f.size > 0 => f.cluster \in DOMAIN volume.chains
  BY <1>1 DEF HasChain
<1> QED BY <1>1, <1>4, <1>6, <1>7, Constants

\* What a read starts with.
Rest(f) == (f.size - f.pos) % Modulus

\* A read starts in order.
LEMMA StartsOk ==
    ASSUME Ready, OpenFile(file), NEW size \in Nat
    PROVE  /\ ReadOk(ReadStart(size), file.cluster, file.pos, size, Rest(file))
           /\ Rest(file) \in Nat
           /\ InFile(ReadStart(size), file.cluster, file.pos)
           /\ file.pos <= file.size => Rest(file) = file.size - file.pos
<1>1. PICK r : r = ReadStart(size)
  OBVIOUS
<1>2. r = [loc |-> file.loc, offset |-> file.offset, data |-> <<>>, size |-> size,
           remain |-> Rest(file)]
  BY <1>1 DEF ReadStart, Rest
<1>3. /\ r.loc = file.loc /\ r.offset = file.offset /\ r.data = <<>> /\ r.size = size
      /\ r.remain = Rest(file)
  BY <1>2
<1>4. PICK z \in Nat, p \in Nat, m \in Pos : z = file.size /\ p = file.pos /\ m = Modulus /\ z < m
  BY FileFacts, Zenon
<1>5. Rest(file) \in Nat /\ (p <= z => Rest(file) = z - p)
  <2>1. z - p \in Int /\ (z - p) % m \in Nat
    BY DEF Pos
  <2>2. p <= z => (z - p) % m = z - p
    BY <1>4 DEF Pos
  <2> QED BY <1>4, <2>1, <2>2 DEF Rest
<1>6. r.data \in Seq(Nat) /\ Len(r.data) = 0
  BY <1>3
<1>7. PICK n \in 0 .. Sectors(file.cluster) - 1 :
          AtSector(file.loc, file.cluster, n) /\ file.pos = n * FAT32_SECTOR_SIZE + file.offset
  BY DEF OpenFile, Cursor
<1>8. n \in Nat /\ file.loc # NOWHERE
  BY <1>7, SectorsPos, AtSectorFacts, FileFacts DEF Pos
<1>9. 0 + size = size /\ 0 + Rest(file) = Rest(file) /\ file.pos + 0 = file.pos
  BY <1>4, <1>5
<1>10. file.offset \in 0 .. FAT32_SECTOR_SIZE
  BY DEF OpenFile
<1>11. ReadOk(r, file.cluster, file.pos, size, Rest(file))
  BY <1>2, <1>3, <1>5, <1>6, <1>7, <1>8, <1>9, <1>10 DEF ReadOk
<1>12. InFile(r, file.cluster, file.pos)
  BY <1>3, <1>6, <1>8 DEF InFile
<1> QED BY <1>1, <1>4, <1>5, <1>11, <1>12

\* What a read does.
LEMMA ReadEffect ==
    ASSUME Ready, OpenFile(file), NEW size \in Nat
    PROVE  /\ ReadOk(ReadLoop(size), file.cluster, file.pos, size, Rest(file))
           /\ ReadEnds(ReadLoop(size))
           /\ file.pos <= file.size => InFile(ReadLoop(size), file.cluster, file.pos)
<1>1. /\ ReadOk(ReadStart(size), file.cluster, file.pos, size, Rest(file))
      /\ Rest(file) \in Nat /\ InFile(ReadStart(size), file.cluster, file.pos)
      /\ file.pos <= file.size => Rest(file) = file.size - file.pos
  BY StartsOk
<1>2. /\ HasChain(file.cluster) /\ file.size \in Nat /\ file.pos \in Nat
      /\ file.size > 0 => file.cluster \in DOMAIN volume.chains
      /\ file.size <= Sectors(file.cluster) * FAT32_SECTOR_SIZE
  BY FileFacts
<1>3. file.pos \in Int
  BY <1>2
<1>4. ReadOk(ReadLoop(size), file.cluster, file.pos, size, Rest(file)) /\ ReadEnds(ReadLoop(size))
  BY <1>1, <1>2, <1>3, LoopKeeps
<1>5. ASSUME file.pos <= file.size PROVE InFile(ReadLoop(size), file.cluster, file.pos)
  <2>1. Rest(file) > 0 => file.cluster \in DOMAIN volume.chains
    BY <1>1, <1>2, <1>5
  <2>2. file.pos + Rest(file) = file.size
    BY <1>1, <1>2, <1>5
  <2>3. file.pos + Rest(file) <= Sectors(file.cluster) * FAT32_SECTOR_SIZE
    BY <1>2, <2>2
  <2> QED BY <1>1, <1>2, <1>3, <2>1, <2>3, LoopInFile
<1> QED BY <1>4, <1>5

\* Where _fat32_fs_reg_file_seek moves the location.
SeekLoc(sector_offset) ==
    IF sector_offset >= 0 THEN Ahead(file.loc, sector_offset) ELSE Back(file.loc, -sector_offset)

\* A seek moves the location to the place of the new position, and fails only
\* when no cluster of the file has that position.
LEMMA SeekEffect ==
    ASSUME Ready, OpenFile(file), NEW new_pos \in Int, NEW total,
           total = file.offset + new_pos - file.pos
    PROVE  LET loc == SeekLoc(total \div FAT32_SECTOR_SIZE) IN
           /\ total % FAT32_SECTOR_SIZE \in 0 .. FAT32_SECTOR_SIZE
           /\ loc # NOWHERE =>
                 \E n \in 0 .. Sectors(file.cluster) - 1 :
                     /\ AtSector(loc, file.cluster, n)
                     /\ new_pos = n * FAT32_SECTOR_SIZE + (total % FAT32_SECTOR_SIZE)
           /\ new_pos \in 0 .. Sectors(file.cluster) * FAT32_SECTOR_SIZE - 1 => loc # NOWHERE
<1>1. PICK s \in Pos, m \in Nat, o \in Nat, p \in Nat : s = FAT32_SECTOR_SIZE
          /\ m = Sectors(file.cluster) /\ o = file.offset /\ p = file.pos
  <2>1. Sectors(file.cluster) \in Nat
    BY FileFacts, SectorsPos DEF Pos
  <2> QED BY <2>1, FileFacts, Constants, Zenon
<1>2. PICK n \in 0 .. m - 1 : AtSector(file.loc, file.cluster, n) /\ p = n * s + o
  BY <1>1 DEF OpenFile, Cursor
<1>3. PICK t \in Int : t = total /\ t = o + new_pos - p
  BY <1>1
<1>4. PICK k \in Int, r \in 0 .. s - 1 : k = t \div s /\ r = t % s /\ t = k * s + r
  BY DivMod
<1>5. PICK a \in Int, b \in Int, e \in Int :
          a = n * s /\ b = k * s /\ e = (n + k) * s /\ e = a + b
  <2>1. n \in Int /\ n * s \in Int /\ k * s \in Int /\ (n + k) * s \in Int
        /\ (n + k) * s = n * s + k * s
    BY <1>2 DEF Pos
  <2> QED BY <2>1, Zenon
<1>6. new_pos = e + r
  BY <1>1, <1>2, <1>3, <1>4, <1>5
<1>7. PICK x \in Int : x = n + k /\ e = x * s
  BY <1>2, <1>5
<1>8. HasChain(file.cluster) /\ m >= 1
  <2>1. HasChain(file.cluster)
    BY FileFacts
  <2> QED BY <1>1, <2>1, SectorsPos DEF Pos
<1>9. PICK loc : loc = SeekLoc(total \div FAT32_SECTOR_SIZE) /\ loc = SeekLoc(k)
  BY <1>1, <1>3, <1>4
<1>10. IF x \in 0 .. m - 1 THEN AtSector(loc, file.cluster, x) ELSE loc = NOWHERE
  <2>1. CASE k >= 0
    <3>1. k \in Nat /\ loc = Ahead(file.loc, k)
      BY <1>9, <2>1 DEF SeekLoc
    <3>2. IF n + k < m THEN AtSector(loc, file.cluster, n + k) ELSE loc = NOWHERE
      BY <1>1, <1>2, <1>8, <3>1, AheadMoves
    <3> QED BY <1>2, <1>7, <2>1, <3>2
  <2>2. CASE k < 0
    <3>1. PICK j \in Nat : j = -k /\ loc = Back(file.loc, j)
      BY <1>9, <2>2 DEF SeekLoc
    <3>2. IF j <= n THEN AtSector(loc, file.cluster, n - j) ELSE loc = NOWHERE
      BY <1>2, <1>8, <3>1, BackMoves
    <3>3. n - j = x /\ (j <= n <=> x \in 0 .. m - 1)
      BY <1>2, <1>7, <2>2, <3>1
    <3> QED BY <3>2, <3>3
  <2> QED BY <2>1, <2>2
<1>11. loc # NOWHERE => x \in 0 .. m - 1 /\ AtSector(loc, file.cluster, x) /\ new_pos = x * s + r
  BY <1>6, <1>7, <1>10
<1>12. ASSUME new_pos \in 0 .. m * s - 1 PROVE loc # NOWHERE
  <2>1. x < 0 => x * s + s <= 0 * s
    BY Grows
  <2>2. m <= x => m * s <= x * s
    BY Grows
  <2>3. 0 * s = 0 /\ m * s \in Nat
    BY DEF Pos
  <2>4. ~ (x < 0)
    BY <1>4, <1>6, <1>7, <1>12, <2>1, <2>3 DEF Pos
  <2>5. ~ (m <= x)
    BY <1>4, <1>6, <1>7, <1>12, <2>2, <2>3 DEF Pos
  <2>6. x \in 0 .. m - 1
    BY <1>7, <2>4, <2>5
  <2> QED BY <1>8, <1>10, <2>6, AtSectorFacts
<1>13. r = total % FAT32_SECTOR_SIZE /\ r \in 0 .. FAT32_SECTOR_SIZE
  BY <1>1, <1>3, <1>4 DEF Pos
<1> QED BY <1>1, <1>9, <1>11, <1>12, <1>13

-----------------------------------------------------------------------------
(* Entries of a directory                                                  *)

\* Entries that the clusters of a directory have room for.
Room(s) == Sectors(s) * DirEntries

\* loc and index are entry q of the directory.
AtEntry(loc, index, s, q) ==
    \E n \in 0 .. Sectors(s) - 1 :
        AtSector(loc, s, n) /\ index \in 0 .. DirEntries - 1 /\ q = n * DirEntries + index

EntryAt(s, q) == IF q < Len(volume.dirs[s]) THEN volume.dirs[s][q + 1] ELSE END_ENTRY

\* A directory is in a chain.
LEMMA DirFacts ==
    ASSUME Ready, NEW s \in DOMAIN volume.dirs
    PROVE  /\ s \in DOMAIN volume.chains /\ HasChain(s) /\ ChainOf(s) = volume.chains[s]
           /\ SectorsOf(volume, s) = Sectors(s) /\ Sectors(s) \in Pos
           /\ Len(volume.dirs[s]) \in 0 .. Room(s) /\ Room(s) <= MaxTurns /\ Room(s) \in Pos
<1>1. DirsOk(volume)
  BY VolumesAssumption DEF Ready
<1>2. s \in DOMAIN volume.chains
  BY <1>1 DEF DirsOk
<1>3. s \in 2 .. FAT_ENTRY_END - 1
  BY <1>2, ChainFacts
<1>4. s # 0
  BY <1>3, Constants
<1>5. HasChain(s) /\ ChainOf(s) = volume.chains[s]
  BY <1>2, <1>4 DEF HasChain, ChainOf
<1>6. SectorsOf(volume, s) = Sectors(s) /\ Sectors(s) \in Pos
  BY <1>5, SectorsPos DEF SectorsOf, Sectors
<1>7. Len(volume.dirs[s]) \in 0 .. Room(s) /\ Room(s) <= MaxTurns
  BY <1>1, <1>6 DEF DirsOk, Room
<1>8. Room(s) \in Pos
  <2>1. PICK m \in Pos, d \in Pos : m = Sectors(s) /\ d = DirEntries
    BY <1>6, Constants
  <2>2. m * d \in Nat /\ 0 * d + d <= m * d
    BY Grows, Product DEF Pos
  <2> QED BY <2>1, <2>2 DEF Room, Pos
<1> QED BY <1>2, <1>5, <1>6, <1>7, <1>8

\* The number of its entries.
LEMMA DirLength ==
    ASSUME Ready, NEW s \in DOMAIN volume.dirs
    PROVE  Len(volume.dirs[s]) \in Nat
BY DirFacts DEF Pos

\* The first entry.
LEMMA EntriesStart ==
    ASSUME Ready, NEW s \in DOMAIN volume.dirs
    PROVE  AtEntry(StartOf(s), 0, s, 0)
<1>1. AtSector(StartOf(s), s, 0)
  BY DirFacts, StartsAtZero
<1>2. 0 \in 0 .. Sectors(s) - 1 /\ 0 \in 0 .. DirEntries - 1 /\ 0 = 0 * DirEntries + 0
  BY DirFacts, Constants DEF Pos
<1> QED BY <1>1, <1>2 DEF AtEntry

\* An entry lies in the clusters of the directory.
LEMMA EntryRange ==
    ASSUME Ready, NEW s \in DOMAIN volume.dirs, NEW loc, NEW index, NEW q, AtEntry(loc, index, s, q)
    PROVE  q \in 0 .. Room(s) - 1 /\ q \in Nat
<1>1. PICK n \in 0 .. Sectors(s) - 1 : index \in 0 .. DirEntries - 1 /\ q = n * DirEntries + index
  BY DEF AtEntry
<1>2. PICK m \in Pos, d \in Pos : m = Sectors(s) /\ d = DirEntries
  BY DirFacts, Constants
<1>3. PICK i \in 0 .. d - 1, k \in Int : i = index /\ k = n /\ k >= 0 /\ k < m
  BY <1>1, <1>2 DEF Pos
<1>4. k < m => k * d + d <= m * d
  BY Grows DEF Pos
<1>5. PICK x \in Nat, y \in Nat : x = k * d /\ y = m * d
  <2>1. k * d \in Nat /\ m * d \in Nat
    BY <1>3 DEF Pos
  <2> QED BY <2>1, Zenon
<1>6. q = x + i /\ Room(s) = y
  BY <1>1, <1>2, <1>3, <1>5 DEF Room
<1>7. x + i \in 0 .. y - 1
  BY <1>3, <1>4, <1>5 DEF Pos
<1> QED BY <1>6, <1>7

\* fat_32_directory_entry_iterator_next moves to the next entry.
LEMMA AfterMoves ==
    ASSUME Ready, NEW s \in DOMAIN volume.dirs, NEW loc, NEW index, NEW q, AtEntry(loc, index, s, q)
    PROVE  LET after == AfterEntry(loc, index) IN
           IF q + 1 < Room(s)
           THEN after.loc # NOWHERE /\ AtEntry(after.loc, after.index, s, q + 1)
           ELSE after.loc = NOWHERE
<1>1. PICK n \in 0 .. Sectors(s) - 1 :
          AtSector(loc, s, n) /\ index \in 0 .. DirEntries - 1 /\ q = n * DirEntries + index
  BY DEF AtEntry
<1>2. PICK m \in Pos, d \in Pos : m = Sectors(s) /\ d = DirEntries /\ Room(s) = m * d
  BY DirFacts, Constants DEF Room
<1>3. PICK i \in 0 .. d - 1, k \in Int : i = index /\ k = n /\ k >= 0 /\ k < m
  BY <1>1, <1>2 DEF Pos
<1>4. PICK x \in Nat, y \in Nat, z \in Nat :
          x = k * d /\ y = m * d /\ z = (k + 1) * d /\ z = x + d
  <2>1. k * d \in Nat /\ m * d \in Nat /\ (k + 1) * d \in Nat /\ (k + 1) * d = k * d + d
    BY <1>3 DEF Pos
  <2> QED BY <2>1, Zenon
<1>5. q = x + i /\ HasChain(s)
  BY <1>1, <1>2, <1>3, <1>4, DirFacts
<1>6. /\ k < m => x + d <= y
      /\ k + 1 < m => z + d <= y
  <2>1. PICK h \in Int, u \in Int : h = k + 1 /\ u = m
    BY DEF Pos
  <2> QED BY <1>4, <2>1, Grows
<1>7. CASE i + 1 < d
  <2>1. AfterEntry(loc, index) = [loc |-> loc, index |-> i + 1]
    BY <1>2, <1>3, <1>7 DEF AfterEntry
  <2>2. AfterEntry(loc, index).loc = loc /\ AfterEntry(loc, index).index = i + 1
    BY <2>1
  <2>3. loc # NOWHERE
    BY <1>1, <1>5, AtSectorFacts
  <2>4. q + 1 = x + (i + 1) /\ i + 1 \in 0 .. d - 1 /\ q + 1 < y
    BY <1>3, <1>4, <1>5, <1>6, <1>7 DEF Pos
  <2>5. AtEntry(loc, i + 1, s, q + 1)
    BY <1>1, <1>2, <1>3, <1>4, <2>4 DEF AtEntry
  <2> QED BY <1>2, <1>4, <2>2, <2>3, <2>4, <2>5
<1>8. CASE ~ (i + 1 < d)
  <2>1. AfterEntry(loc, index) = [loc |-> NextSector(loc), index |-> 0]
    BY <1>2, <1>3, <1>8 DEF AfterEntry
  <2>2. AfterEntry(loc, index).loc = NextSector(loc) /\ AfterEntry(loc, index).index = 0
    BY <2>1
  <2>3. IF k + 1 < m THEN AtSector(NextSector(loc), s, k + 1) ELSE NextSector(loc) = NOWHERE
    BY <1>1, <1>2, <1>3, <1>5, NextMoves
  <2>4. q + 1 = z
    BY <1>3, <1>4, <1>5, <1>8 DEF Pos
  <2>5. CASE k + 1 < m
    <3>1. NextSector(loc) # NOWHERE
      BY <1>5, <2>3, <2>5, AtSectorFacts
    <3>2. q + 1 < y /\ q + 1 = (k + 1) * d + 0 /\ 0 \in 0 .. d - 1 /\ k + 1 \in 0 .. m - 1
      BY <1>3, <1>4, <1>6, <2>4, <2>5 DEF Pos
    <3>3. AtEntry(NextSector(loc), 0, s, q + 1)
      BY <1>2, <2>3, <2>5, <3>2 DEF AtEntry
    <3> QED BY <1>2, <1>4, <2>2, <3>1, <3>2, <3>3
  <2>6. CASE ~ (k + 1 < m)
    <3>1. k + 1 = m
      BY <1>3, <2>6 DEF Pos
    <3>2. ~ (q + 1 < y)
      BY <1>4, <2>4, <3>1
    <3> QED BY <1>2, <1>4, <2>2, <2>3, <2>6, <3>2
  <2> QED BY <2>5, <2>6
<1> QED BY <1>7, <1>8

\* The iterator reads the entries of the directory.
LEMMA ReadsEntry ==
    ASSUME Ready, NEW s \in DOMAIN volume.dirs, NEW loc, NEW index, NEW q, AtEntry(loc, index, s, q)
    PROVE  SectorIndex(loc) \in Blocks /\ DirCell(SectorIndex(loc), index) = EntryAt(s, q)
<1>1. PICK n \in 0 .. Sectors(s) - 1 :
          AtSector(loc, s, n) /\ index \in 0 .. DirEntries - 1 /\ q = n * DirEntries + index
  BY DEF AtEntry
<1>2. SectorIndex(loc) \in Blocks
  BY <1>1, DirFacts, OnDevice
<1>3. PICK k \in 1 .. Len(ChainOf(s)), i \in 0 .. volume.sectors_per_cluster - 1 :
        /\ loc = [start_cluster |-> s, cluster |-> ChainOf(s)[k], sector_index |-> i]
        /\ n = (k - 1) * volume.sectors_per_cluster + i
  BY <1>1 DEF AtSector
<1>4. s \in DOMAIN volume.chains /\ ChainOf(s) = volume.chains[s]
  BY DirFacts
<1>5. PICK x \in Nat : x = ChainOf(s)[k] /\ x = loc.cluster
  <2>1. ChainOf(s)[k] \in 2 .. FAT_ENTRY_END - 1
    BY <1>3, <1>4, ChainFacts
  <2>2. ChainOf(s)[k] \in Nat
    BY <2>1, Constants
  <2> QED BY <1>3, <2>2
<1>6. HeadOf(x) = s /\ IndexOf(volume.chains[s], x) = k
  BY <1>3, <1>4, <1>5, ClusterPlace
<1>7. PICK p \in Pos, d \in Nat, e \in Pos :
        /\ p = volume.sectors_per_cluster /\ d = DataStart /\ e = DirEntries
        /\ p = sb.sectors_per_cluster /\ d = sb.data_sector_start
  BY Numbers, Constants
<1>8. i \in 0 .. p - 1 /\ k \in Nat /\ x - 2 \in Int
  <2>1. Len(ChainOf(s)) \in Nat
    BY DirFacts, ChainOfFacts DEF Pos
  <2> QED BY <1>3, <1>7, <2>1
<1>9. PICK y \in Int : y = (x - 2) * p
  <2>1. (x - 2) * p \in Int
    BY <1>8 DEF Pos
  <2> QED BY <2>1
<1>10. SectorIndex(loc) - DataStart = y + i
  <2>1. SectorIndex(loc) = d + y + i
    BY <1>3, <1>5, <1>7, <1>9 DEF SectorIndex
  <2> QED BY <1>7, <1>8, <2>1
<1>11. (y + i) \div p = x - 2 /\ (y + i) % p = i
  BY <1>8, <1>9, DivModUnique
<1>12. ClusterOf(SectorIndex(loc)) = x /\ PlaceOf(SectorIndex(loc)) = i
  BY <1>7, <1>8, <1>10, <1>11 DEF ClusterOf, PlaceOf
<1>13. PICK b : b = SectorIndex(loc) /\ ClusterOf(b) = x /\ PlaceOf(b) = i
  BY <1>12
<1>14. DirCell(b, index) =
          LET j == ((k - 1) * volume.sectors_per_cluster + i) * DirEntries + index + 1
          IN  IF j <= Len(volume.dirs[s]) THEN volume.dirs[s][j] ELSE END_ENTRY
  BY <1>6, <1>13, Zenon DEF DirCell
<1>15. ((k - 1) * volume.sectors_per_cluster + i) * DirEntries + index + 1 = q + 1
  BY <1>1, <1>3
<1>16. DirCell(b, index) = IF q + 1 <= Len(volume.dirs[s]) THEN volume.dirs[s][q + 1] ELSE END_ENTRY
  BY <1>14, <1>15
<1>17. q + 1 <= Len(volume.dirs[s]) <=> q < Len(volume.dirs[s])
  BY EntryRange, DirFacts DEF Pos
<1> QED BY <1>2, <1>13, <1>16, <1>17 DEF EntryAt

-----------------------------------------------------------------------------
(* Long names                                                              *)

\* The buffer for a long name.
Buffers == [1 .. NameLength -> Nat]

\* The characters of the name behind the first ones are in the buffer, and a
\* zero ends the name.
Assembled(buffer, name, from) ==
    /\ buffer[Len(name) + 1] = 0
    /\ \A x \in 1 .. Len(name) : x > from => buffer[x] = name[x]

\* The chars of a part of a name.
LEMMA AsciiSeq ==
    ASSUME NEW part \in Seq(Nat)
    PROVE  Ascii(part) \in Seq(Nat) /\ Len(Ascii(part)) = Len(part)
<1>1. PICK n \in Nat : n = Len(part) /\ DOMAIN part = 1 .. n
  OBVIOUS
<1>2. PICK m \in Pos : m = CharValues
  BY Constants
<1>3. \A x \in Nat : x % m \in Nat
  BY DEF Pos
<1>4. \A i \in 1 .. n : part[i] % m \in Nat
  <2>1. \A i \in 1 .. n : part[i] \in Nat
    BY <1>1
  <2> QED BY <1>3, <2>1, Zenon
<1>5. Ascii(part) = [i \in 1 .. n |-> part[i] % m]
  BY <1>1, <1>2 DEF Ascii
<1>6. Ascii(part) \in [1 .. n -> Nat]
  BY <1>4, <1>5
<1> QED BY <1>1, <1>6, FunctionIsSeq

\* Part j of a long name is copied to its place.
LEMMA PartPlaced ==
    ASSUME NEW d, NEW v \in Nat, NEW m \in Nat, NEW name \in Seq(Nat), LongName(d, v, m, name),
           NEW j \in 1 .. m, NEW buffer \in Buffers,
           Assembled(buffer, name, FAT_LFN_CHAR_COUNT * j)
    PROVE  /\ WithLfn(buffer, d[v - j]) \in Buffers
           /\ Assembled(WithLfn(buffer, d[v - j]), name, FAT_LFN_CHAR_COUNT * (j - 1))
<1>1. PICK c \in Pos, n \in Pos, l \in Nat : c = FAT_LFN_CHAR_COUNT /\ n = NameLength /\ l = Len(name)
  BY Constants
<1>2. PICK a \in Nat, b \in Nat, e \in Nat : a = c * (j - 1) /\ b = c * j /\ e = c * m
         /\ b = a + c /\ b <= e /\ e < n /\ l <= e /\ (j = m => b = e)
  <2>1. c * (j - 1) \in Nat /\ c * j \in Nat /\ c * m \in Nat /\ c * j = c * (j - 1) + c
    BY DEF Pos
  <2>2. j * c <= m * c
    BY Grows
  <2>3. c * j <= c * m
    BY <2>2, Product DEF Pos
  <2>4. c * m < n /\ l <= c * m
    BY <1>1 DEF LongName
  <2>5. j = m => c * j = c * m
    OBVIOUS
  <2> QED BY <2>1, <2>3, <2>4, <2>5, Zenon
<1>3. b = a + c /\ a \in Nat /\ c \in Nat /\ b \in Nat
  BY <1>2 DEF Pos
<1>4. PICK entry : entry = d[v - j]
  OBVIOUS
<1>5. /\ entry.part \in Seq(Nat) /\ entry.seq = j /\ entry.last = (j = m)
       /\ Len(entry.part) = FAT_LFN_CHAR_COUNT
       /\ \A i \in 1 .. FAT_LFN_CHAR_COUNT :
             LET x == FAT_LFN_CHAR_COUNT * (j - 1) + i
             IN  /\ x <= Len(name) => Ascii(entry.part)[i] = name[x]
                 /\ x = Len(name) + 1 => Ascii(entry.part)[i] = 0
  BY <1>4, Zenon DEF LongName
<1>6. /\ Ascii(entry.part) \in Seq(Nat) /\ Len(Ascii(entry.part)) = c
       /\ \A i \in 1 .. c : /\ a + i <= l => Ascii(entry.part)[i] = name[a + i]
                            /\ a + i = l + 1 => Ascii(entry.part)[i] = 0
  <2>1. entry.part \in Seq(Nat) /\ Len(entry.part) = c
    BY <1>1, <1>5
  <2>2. Ascii(entry.part) \in Seq(Nat) /\ Len(Ascii(entry.part)) = c
    BY <2>1, AsciiSeq
  <2> QED BY <1>1, <1>2, <1>5, <2>2, Zenon
<1>7. PICK part \in Seq(Nat) :
        /\ part = Ascii(entry.part) /\ entry.seq = j /\ entry.last = (j = m)
        /\ Len(part) = c
        /\ \A i \in 1 .. c : /\ a + i <= l => part[i] = name[a + i]
                             /\ a + i = l + 1 => part[i] = 0
  BY <1>5, <1>6, Zenon
<1>8. PICK copied : copied = {i \in 1 .. c : \A k \in 1 .. i - 1 : part[k] # 0}
  OBVIOUS
<1>9. PICK out : out = WithLfn(buffer, entry)
  OBVIOUS
<1>10. PICK ended : ended = IF entry.last THEN [buffer EXCEPT ![c * j + 1] = 0] ELSE buffer
  OBVIOUS
<1>11. out = [x \in 1 .. n |-> IF x - a \in copied THEN part[x - a] ELSE ended[x]]
  <2>1. DOMAIN buffer = 1 .. n /\ DOMAIN part = 1 .. c
    BY <1>1, <1>7 DEF Buffers
  <2>2. PartStart(entry) = a
    BY <1>1, <1>2, <1>7 DEF PartStart
  <2>3. ended = IF entry.last THEN [buffer EXCEPT ![FAT_LFN_CHAR_COUNT * entry.seq + 1] = 0]
                ELSE buffer
    BY <1>1, <1>7, <1>10
  <2> QED BY <1>7, <1>8, <1>9, <2>1, <2>2, <2>3, Zenon DEF WithLfn
<1>12. ASSUME NEW x \in 1 .. n
      PROVE  /\ ended[x] \in Nat
             /\ ended[x] = buffer[x] \/ ended[x] = 0
             /\ x <= l /\ x > b => ended[x] = buffer[x]
  <2>1. buffer \in [1 .. n -> Nat]
    BY <1>1 DEF Buffers
  <2>2. CASE entry.last
    <3>1. j = m
      BY <1>7, <2>2
    <3>2. ended = [buffer EXCEPT ![b + 1] = 0]
      BY <1>2, <1>10, <2>2
    <3>3. ended[x] = IF x = b + 1 THEN 0 ELSE buffer[x]
      BY <2>1, <3>2
    <3>4. ~ (x <= l /\ x > b)
      BY <1>2, <3>1
    <3> QED BY <2>1, <3>3, <3>4
  <2>3. CASE ~ entry.last
    <3>1. ended = buffer
      BY <1>10, <2>3
    <3> QED BY <2>1, <3>1
  <2> QED BY <2>2, <2>3
<1>13. ASSUME NEW x \in 1 .. n, x - a \in copied
      PROVE  part[x - a] \in Nat /\ x - a \in 1 .. c
  <2>1. x - a \in 1 .. c
    BY <1>8, <1>13
  <2> QED BY <1>7, <2>1
<1>14. out \in Buffers
  <2>1. \A x \in 1 .. n : (IF x - a \in copied THEN part[x - a] ELSE ended[x]) \in Nat
    BY <1>12, <1>13
  <2> QED BY <1>1, <1>11, <2>1 DEF Buffers
<1>15. out[l + 1] = 0
  <2>1. l + 1 \in 1 .. n
    BY <1>2 DEF Pos
  <2>2. out[l + 1] = IF (l + 1) - a \in copied THEN part[(l + 1) - a] ELSE ended[l + 1]
    BY <1>11, <2>1
  <2>3. CASE (l + 1) - a \in copied
    <3>1. PICK i \in 1 .. c : i = (l + 1) - a
      BY <1>13, <2>1, <2>3
    <3>2. a + i = l + 1
      BY <1>2, <3>1
    <3> QED BY <1>7, <2>2, <2>3, <3>1, <3>2
  <2>4. CASE (l + 1) - a \notin copied
    <3>1. buffer[l + 1] = 0
      BY <1>1 DEF Assembled
    <3> QED BY <1>12, <2>1, <2>2, <2>4, <3>1
  <2> QED BY <2>3, <2>4
<1>16. ASSUME NEW x \in 1 .. l, x > a PROVE out[x] = name[x]
  <2>1. x \in 1 .. n
    BY <1>2 DEF Pos
  <2>2. out[x] = IF x - a \in copied THEN part[x - a] ELSE ended[x]
    BY <1>11, <2>1
  <2>3. CASE x <= b
    <3>1. PICK i \in 1 .. c : i = x - a /\ a + i = x
      BY <1>2, <1>16, <2>3 DEF Pos
    <3>2. ASSUME NEW k \in 1 .. i - 1 PROVE part[k] # 0
      <4>1. k \in 1 .. c /\ a + k <= l /\ a + k \in 1 .. l
        BY <1>3, <3>1
      <4>2. part[k] = name[a + k]
        BY <1>7, <4>1
      <4>3. name[a + k] # 0
        BY <1>1, <4>1 DEF LongName
      <4> QED BY <4>2, <4>3
    <3>3. i \in copied
      BY <1>8, <3>2
    <3>4. part[i] = name[x]
      BY <1>7, <1>16, <3>1
    <3> QED BY <2>2, <3>1, <3>3, <3>4
  <2>4. CASE x > b
    <3>1. x - a \notin copied
      <4>1. ~ (x - a <= c)
        BY <1>3, <2>4
      <4>2. x - a \in copied => x - a \in 1 .. c
        BY <1>13, <2>1
      <4> QED BY <1>2, <2>1, <4>1, <4>2 DEF Pos
    <3>2. ended[x] = buffer[x]
      BY <1>12, <1>16, <2>1, <2>4
    <3>3. buffer[x] = name[x]
      BY <1>1, <1>2, <1>16, <2>4 DEF Assembled
    <3> QED BY <2>2, <3>1, <3>2, <3>3
  <2> QED BY <1>2, <2>3, <2>4
<1>17. Assembled(out, name, FAT_LFN_CHAR_COUNT * (j - 1))
  BY <1>1, <1>2, <1>15, <1>16 DEF Assembled
<1> QED BY <1>4, <1>9, <1>14, <1>17

\* A name of which all parts are in the buffer is the string in the buffer.
LEMMA NameRead ==
    ASSUME NEW buffer \in Buffers, NEW name \in Seq(Nat), Assembled(buffer, name, 0),
           Len(name) < NameLength, \A x \in 1 .. Len(name) : name[x] # 0
    PROVE  CString(buffer) = name
<1>1. PICK n \in Pos, l \in Nat : n = NameLength /\ l = Len(name) /\ l < n
  BY Constants
<1>2. buffer \in [1 .. n -> Nat] /\ DOMAIN buffer = 1 .. n
  BY <1>1 DEF Buffers
<1>3. \A x \in 1 .. l : buffer[x] = name[x]
  BY <1>1 DEF Assembled
<1>4. buffer[l + 1] = 0
  BY <1>1 DEF Assembled
<1> DEFINE zeros == {i \in DOMAIN buffer : buffer[i] = 0}
<1>5. l + 1 \in zeros
  BY <1>1, <1>2, <1>4 DEF Pos
<1>6. ASSUME NEW i \in zeros PROVE i \in Int /\ l + 1 <= i
  <2>1. i \in 1 .. n /\ buffer[i] = 0
    BY <1>2
  <2>2. i \notin 1 .. l
    BY <1>1, <1>3, <2>1
  <2> QED BY <1>1, <2>1, <2>2 DEF Pos
<1>7. (CHOOSE i \in zeros : \A j \in zeros : i <= j) = l + 1
  <2>1. \A j \in zeros : l + 1 <= j
    BY <1>6
  <2>2. PICK y : y = CHOOSE i \in zeros : \A j \in zeros : i <= j
    OBVIOUS
  <2>3. y \in zeros /\ \A j \in zeros : y <= j
    BY <1>5, <2>1, <2>2
  <2> HIDE DEF zeros
  <2>4. y <= l + 1 /\ l + 1 <= y /\ y \in Int
    BY <1>5, <1>6, <2>3
  <2> QED BY <1>1, <2>2, <2>4
<1>8. CString(buffer) = SubSeq(buffer, 1, (l + 1) - 1)
  BY <1>7 DEF CString
<1>9. buffer \in Seq(Nat) /\ Len(buffer) = n
  BY <1>1, <1>2 DEF Pos
<1>10. SubSeq(buffer, 1, l) = name
  <2>1. SubSeq(buffer, 1, l) \in Seq(Nat) /\ Len(SubSeq(buffer, 1, l)) = l
    BY <1>1, <1>9 DEF Pos
  <2>2. \A x \in 1 .. l : SubSeq(buffer, 1, l)[x] = buffer[x]
    BY <1>1, <1>9 DEF Pos
  <2> QED BY <1>1, <1>3, <2>1, <2>2
<1> QED BY <1>1, <1>8, <1>10

-----------------------------------------------------------------------------
(* The iterator                                                            *)

\* nm has the name of each entry that stands for a file.
NamesOf(s, nm) ==
    \A k \in 1 .. Len(volume.dirs[s]) :
        Shown(volume.dirs[s][k]) => nm[k] \in Seq(Nat) /\ Named(volume.dirs[s], k, nm[k])

\* Entry k is part of the long name of entry v, which has m parts.
PartOf(s, nm, k, v, m) ==
    /\ Shown(volume.dirs[s][v]) /\ LongName(volume.dirs[s], v, m, nm[v])
    /\ m < v /\ v - k \in 1 .. m

\* A part of a long name belongs to the long name of an entry.
LEMMA PartRun ==
    ASSUME Ready, NEW s \in DOMAIN volume.dirs, NEW nm, NamesOf(s, nm),
           NEW k \in 1 .. Len(volume.dirs[s]), IsPart(volume.dirs[s][k])
    PROVE  \E v \in k + 1 .. Len(volume.dirs[s]), m \in Nat : PartOf(s, nm, k, v, m)
<1> DEFINE d == volume.dirs[s]
<1>1. PICK l \in Nat : l = Len(d)
  BY DirLength
<1>2. DirsOk(volume)
  BY VolumesAssumption DEF Ready
<1>3. PICK n \in k + 1 .. l : Shown(d[n]) /\ \A j \in k .. n - 1 : IsPart(d[j])
  BY <1>1, <1>2, Zenon DEF DirsOk
<1>4. n \in 1 .. l /\ n # 1 /\ n - 1 \in k .. n - 1 /\ k \in Nat
  BY <1>1, <1>3
<1>5. IsPart(d[n - 1])
  BY <1>3, <1>4
<1>6. Named(d, n, nm[n])
  BY <1>1, <1>3, <1>4 DEF NamesOf
<1>7. PICK m \in 1 .. n - 1 : LongName(d, n, m, nm[n])
  BY <1>4, <1>5, <1>6, Zenon DEF Named
<1>8. m = n - 1 \/ ~ IsPart(d[n - m - 1])
  BY <1>7, Zenon DEF LongName
<1>9. n - k \in 1 .. m
  <2>1. SUFFICES ASSUME n - k > m PROVE FALSE
    BY <1>4
  <2>2. n - m - 1 \in k .. n - 1 /\ m # n - 1
    BY <1>3, <1>4, <1>7, <2>1
  <2> QED BY <1>3, <1>8, <2>2
<1>10. m \in Nat /\ m < n /\ n \in k + 1 .. l
  BY <1>4
<1> QED BY <1>1, <1>3, <1>7, <1>9, <1>10 DEF PartOf

\* None of the entries behind p up to q stands for a file.
NoneShown(s, p, q) == \A k \in p + 1 .. q : ~ Shown(volume.dirs[s][k])

\* No long name begins before p and ends behind it.
Between(s, p) == p = 0 \/ ~ IsPart(volume.dirs[s][p])

\* What the iterator has of a long name behind q entries.
ReadsName(it, s, nm, q) ==
    IF Between(s, q) THEN it.reading_lfn = FALSE /\ \A x \in 1 .. NameLength : it.buffer[x] = 0
    ELSE /\ it.reading_lfn = TRUE
         /\ \E v \in q + 1 .. Len(volume.dirs[s]), m \in Nat :
               /\ PartOf(s, nm, q, v, m)
               /\ Assembled(it.buffer, nm[v], FAT_LFN_CHAR_COUNT * (v - q - 1))

\* The iterator that began behind p entries is behind q and goes on.
Seeks(it, s, nm, p, q) ==
    /\ it = [loc |-> it.loc, index |-> it.index, reading_lfn |-> it.reading_lfn,
             buffer |-> it.buffer, status |-> "more", entry |-> it.entry,
             filename |-> it.filename]
    /\ AtEntry(it.loc, it.index, s, q) /\ q \in p .. Len(volume.dirs[s])
    /\ NoneShown(s, p, q) /\ it.buffer \in Buffers /\ ReadsName(it, s, nm, q)

\* It found the next entry that stands for a file, with its name; or the end;
\* or the clusters are full.
Finds(it, s, nm, p, q) ==
    /\ it.status = "entry" /\ q \in p + 1 .. Len(volume.dirs[s])
    /\ Shown(volume.dirs[s][q]) /\ NoneShown(s, p, q - 1)
    /\ it.entry = volume.dirs[s][q] /\ it.filename = nm[q] /\ AtEntry(it.loc, it.index, s, q)
Ends(it, s, p) ==
    /\ it.status = "end" /\ NoneShown(s, p, Len(volume.dirs[s]))
    /\ AtEntry(it.loc, it.index, s, Len(volume.dirs[s]))
Overruns(it, s) == it.status = "fatal" /\ Len(volume.dirs[s]) = Room(s)
Found(it, s, nm, p) == (\E q \in Nat : Finds(it, s, nm, p, q)) \/ Ends(it, s, p) \/ Overruns(it, s)

\* An entry that stands for a file is no part of a name.
LEMMA ShownIsNoPart ==
    ASSUME NEW entry, Shown(entry)
    PROVE  ~ IsPart(entry)
BY DEF Shown, IsPart

\* Behind a part is the next one, or the entry that has the name.
LEMMA RunGoesOn ==
    ASSUME NEW s, NEW nm, NEW q \in Nat, NEW v \in Nat, NEW m \in Nat, PartOf(s, nm, q, v, m)
    PROVE  v = q + 1 \/ (IsPart(volume.dirs[s][q + 1]) /\ PartOf(s, nm, q + 1, v, m))
<1>1. v - q \in 1 .. m /\ m < v /\ LongName(volume.dirs[s], v, m, nm[v])
      /\ Shown(volume.dirs[s][v])
  BY DEF PartOf
<1>2. CASE v # q + 1
  <2>1. PICK j \in 1 .. m : j = v - (q + 1) /\ v - j = q + 1
    BY <1>1, <1>2
  <2>2. IsPart(volume.dirs[s][v - j])
    BY <1>1, Zenon DEF LongName
  <2>3. v - (q + 1) \in 1 .. m
    BY <2>1
  <2>4. PartOf(s, nm, q + 1, v, m)
    BY <1>1, <2>3, Zenon DEF PartOf
  <2> QED BY <2>1, <2>2, <2>4, Zenon
<1> QED BY <1>2, Zenon

\* The first part on the disk is the last one of the name.
LEMMA RunBegins ==
    ASSUME NEW s, NEW nm, NEW q \in Nat, NEW v \in Nat, NEW m \in Nat,
           PartOf(s, nm, q + 1, v, m), Between(s, q)
    PROVE  v - (q + 1) = m
<1>1. v - (q + 1) \in 1 .. m /\ m < v /\ LongName(volume.dirs[s], v, m, nm[v])
  BY DEF PartOf
<1>2. SUFFICES ASSUME v - (q + 1) # m PROVE FALSE
  OBVIOUS
<1>3. PICK j \in 1 .. m : v - j = q /\ q # 0
  <2>1. v - q \in 1 .. m /\ v - (v - q) = q /\ q # 0
    BY <1>1, <1>2
  <2> QED BY <2>1
<1>4. IsPart(volume.dirs[s][v - j])
  BY <1>1, Zenon DEF LongName
<1> QED BY <1>3, <1>4 DEF Between

\* What is in the buffer fits to entry k, which is a part of a long name.
FitsPart(it, s, nm, k) ==
    \E v \in k + 1 .. Len(volume.dirs[s]), m \in Nat :
        /\ PartOf(s, nm, k, v, m)
        /\ Assembled(it.buffer, nm[v], FAT_LFN_CHAR_COUNT * (v - k))
        /\ it.reading_lfn = TRUE \/ v - k = m

\* The iterator meets a part of a long name.
LEMMA PartFits ==
    ASSUME Ready, NEW s \in DOMAIN volume.dirs, NEW nm, NamesOf(s, nm), NEW p \in Nat, NEW q \in Nat,
           NEW it, Seeks(it, s, nm, p, q), q < Len(volume.dirs[s]), IsPart(volume.dirs[s][q + 1])
    PROVE  FitsPart(it, s, nm, q + 1)
<1> DEFINE d == volume.dirs[s]
<1>1. PICK l \in Nat : l = Len(d)
  BY DirLength
<1>2. ReadsName(it, s, nm, q)
  BY DEF Seeks
<1>3. CASE Between(s, q)
  <2>1. PICK k \in 1 .. l : k = q + 1
    BY <1>1
  <2>2. PICK v \in k + 1 .. l, m \in Nat : PartOf(s, nm, k, v, m)
    BY <1>1, <2>1, PartRun
  <2>3. v \in Nat /\ v \in 1 .. l /\ v \in (q + 1) + 1 .. l
    <3>1. v \in Nat /\ v \in 1 .. l
      BY <2>1
    <3> QED BY <2>1, <3>1
  <2>4. v - (q + 1) = m
    BY <1>3, <2>1, <2>2, <2>3, RunBegins
  <2>5. Shown(d[v]) /\ LongName(d, v, m, nm[v])
    BY <1>1, <2>2 DEF PartOf
  <2>6. nm[v] \in Seq(Nat)
    BY <1>1, <2>3, <2>5 DEF NamesOf
  <2>7. PICK h \in Nat, n \in Nat, e \in Int :
           h = Len(nm[v]) /\ n = NameLength /\ e = FAT_LFN_CHAR_COUNT * m /\ h <= e /\ e < n
    <3>1. FAT_LFN_CHAR_COUNT * m \in Int
      BY Constants DEF Pos
    <3>2. Len(nm[v]) <= FAT_LFN_CHAR_COUNT * m /\ FAT_LFN_CHAR_COUNT * m < NameLength
      BY <2>5, Zenon DEF LongName
    <3>3. NameLength \in Nat /\ Len(nm[v]) \in Nat
      BY <2>6, Constants DEF Pos
    <3> QED BY <3>1, <3>2, <3>3, Zenon
  <2>8. \A x \in 1 .. n : it.buffer[x] = 0
    BY <1>2, <1>3, <2>7 DEF ReadsName
  <2>9. h + 1 \in 1 .. n /\ \A x \in 1 .. h : ~ (x > e)
    <3>1. h <= e /\ e < n
      BY <2>7
    <3> QED BY <3>1
  <2>10. Assembled(it.buffer, nm[v], e)
    BY <2>7, <2>8, <2>9 DEF Assembled
  <2> QED BY <1>1, <2>1, <2>2, <2>3, <2>4, <2>7, <2>10 DEF FitsPart
<1>4. CASE ~ Between(s, q)
  <2>1. it.reading_lfn = TRUE
    BY <1>2, <1>4, Zenon DEF ReadsName
  <2>2. PICK v \in q + 1 .. l, m \in Nat :
           PartOf(s, nm, q, v, m) /\ Assembled(it.buffer, nm[v], FAT_LFN_CHAR_COUNT * (v - q - 1))
    BY <1>1, <1>2, <1>4, Zenon DEF ReadsName
  <2>3. v \in Nat /\ v - (q + 1) = v - q - 1
    BY <2>2
  <2>4. v # q + 1
    <3>1. Shown(d[v])
      BY <1>1, <2>2 DEF PartOf
    <3> QED BY <1>1, <3>1, ShownIsNoPart
  <2>5. PartOf(s, nm, q + 1, v, m)
    BY <2>2, <2>3, <2>4, RunGoesOn
  <2>6. v \in (q + 1) + 1 .. l
    BY <2>3, <2>4
  <2> QED BY <1>1, <2>1, <2>2, <2>3, <2>5, <2>6 DEF FitsPart
<1> QED BY <1>3, <1>4

\* The iterator meets an entry that stands for a file: it returns its name.
LEMMA NameFits ==
    ASSUME Ready, NEW s \in DOMAIN volume.dirs, NEW nm, NamesOf(s, nm), NEW p \in Nat, NEW q \in Nat,
           NEW it, Seeks(it, s, nm, p, q), q < Len(volume.dirs[s]), Shown(volume.dirs[s][q + 1])
    PROVE  nm[q + 1] = IF it.reading_lfn THEN CString(it.buffer) ELSE ShortName(volume.dirs[s][q + 1])
<1> DEFINE d == volume.dirs[s]
<1>1. PICK l \in Nat : l = Len(d)
  BY DirLength
<1>2. PICK k \in 1 .. l : k = q + 1 /\ k - 1 = q
  BY <1>1
<1>3. ReadsName(it, s, nm, q)
  BY DEF Seeks
<1>4. Named(d, k, nm[k]) /\ nm[k] \in Seq(Nat)
  BY <1>1, <1>2 DEF NamesOf
<1>5. CASE Between(s, q)
  <2>1. it.reading_lfn = FALSE
    BY <1>3, <1>5, Zenon DEF ReadsName
  <2>2. ASSUME NEW m \in 1 .. k - 1, LongName(d, k, m, nm[k]) PROVE FALSE
    <3>1. 1 \in 1 .. m /\ q # 0
      BY <1>2, <2>2
    <3>2. IsPart(d[k - 1])
      BY <2>2, <3>1, Zenon DEF LongName
    <3> QED BY <1>1, <1>2, <1>5, <3>1, <3>2 DEF Between
  <2>3. nm[k] = ShortName(d[k])
    BY <1>4, <2>2, Zenon DEF Named
  <2> QED BY <1>1, <1>2, <2>1, <2>3
<1>6. CASE ~ Between(s, q)
  <2>1. it.reading_lfn = TRUE
    BY <1>3, <1>6, Zenon DEF ReadsName
  <2>2. PICK v \in q + 1 .. l, m \in Nat :
           PartOf(s, nm, q, v, m) /\ Assembled(it.buffer, nm[v], FAT_LFN_CHAR_COUNT * (v - q - 1))
    BY <1>1, <1>3, <1>6, Zenon DEF ReadsName
  <2>3. v = q + 1
    <3>1. ~ IsPart(volume.dirs[s][q + 1])
      BY ShownIsNoPart
    <3>2. v \in Nat
      BY <2>2
    <3> QED BY <2>2, <3>1, <3>2, RunGoesOn
  <2>4. FAT_LFN_CHAR_COUNT * (v - q - 1) = 0
    BY <2>3, Constants DEF Pos
  <2>5. Assembled(it.buffer, nm[k], 0)
    BY <1>2, <2>2, <2>3, <2>4
  <2>6. LongName(d, k, m, nm[k])
    BY <1>1, <1>2, <2>2, <2>3 DEF PartOf
  <2>7. Len(nm[k]) < NameLength /\ \A x \in 1 .. Len(nm[k]) : nm[k][x] # 0
    <3>1. Len(nm[k]) <= FAT_LFN_CHAR_COUNT * m /\ FAT_LFN_CHAR_COUNT * m < NameLength
          /\ \A x \in 1 .. Len(nm[k]) : nm[k][x] # 0
      BY <2>6, Zenon DEF LongName
    <3>2. FAT_LFN_CHAR_COUNT * m \in Int /\ NameLength \in Int /\ Len(nm[k]) \in Int
      BY <1>4, Constants DEF Pos
    <3>3. PICK x \in Int, y \in Int, z \in Int :
             x = Len(nm[k]) /\ y = FAT_LFN_CHAR_COUNT * m /\ z = NameLength /\ x <= y /\ y < z
      BY <3>1, <3>2, Zenon
    <3>4. x < z
      BY <3>3
    <3> QED BY <3>1, <3>3, <3>4, Zenon
  <2>8. it.buffer \in Buffers
    BY DEF Seeks
  <2>9. CString(it.buffer) = nm[k]
    BY <1>4, <2>5, <2>7, <2>8, NameRead
  <2> QED BY <1>2, <2>1, <2>9
<1> QED BY <1>5, <1>6

\* What one turn does, for an entry of the directory.
Examined(it, entry, after, moved) ==
    IF entry.first = "END" THEN [it EXCEPT !.status = "end"]
    ELSE IF after.loc = NOWHERE THEN [it EXCEPT !.status = "fatal"]
    ELSE IF entry.first = "DELETED" THEN moved
    ELSE IF entry.attributes \cap LFN # {}
    THEN [moved EXCEPT !.buffer = WithLfn(it.buffer, entry),
                       !.reading_lfn = moved.reading_lfn \/ entry.last]
    ELSE IF \/ "VOLUME_ID" \in entry.attributes
            \/ "DIRECTORY" \in entry.attributes /\ entry.first = "DOT"
    THEN moved
    ELSE [moved EXCEPT !.status = "entry", !.entry = entry,
                       !.filename = IF it.reading_lfn THEN CString(it.buffer)
                                    ELSE ShortName(entry)]

TurnAt(it, entry) ==
    LET after == AfterEntry(it.loc, it.index)
        moved == [it EXCEPT !.loc = after.loc, !.index = after.index]
    IN  Examine(it) = Examined(it, entry, after, moved)

\* The entry and the location behind it are those of the directory.
LEMMA ExamineCases ==
    ASSUME Ready, NEW s \in DOMAIN volume.dirs, NEW nm, NEW p \in Nat, NEW q \in Nat,
           NEW it, Seeks(it, s, nm, p, q)
    PROVE  TurnAt(it, EntryAt(s, q))
<1>1. it.status = "more" /\ AtEntry(it.loc, it.index, s, q)
  BY DEF Seeks
<1>2. SectorIndex(it.loc) \in Blocks /\ DirCell(SectorIndex(it.loc), it.index) = EntryAt(s, q)
  BY <1>1, ReadsEntry
<1> QED BY <1>1, <1>2, Zenon DEF Examine, ExamineEntry, Examined, TurnAt

\* The fields of the iterator.
LEMMA IteratorFields ==
    ASSUME NEW s, NEW nm, NEW p, NEW q, NEW it, Seeks(it, s, nm, p, q)
    PROVE  \E loc, index, reading, buffer, entry, name :
              it = [loc |-> loc, index |-> index, reading_lfn |-> reading, buffer |-> buffer,
                    status |-> "more", entry |-> entry, filename |-> name]
BY Zenon DEF Seeks

\* The iterator at the end, or at the end of the clusters.
LEMMA ExamineStops ==
    ASSUME Ready, NEW s \in DOMAIN volume.dirs, NEW nm, NEW p \in Nat, NEW q \in Nat,
           NEW it, Seeks(it, s, nm, p, q),
           q = Len(volume.dirs[s]) \/ q + 1 = Room(s)
    PROVE  Found(Examine(it), s, nm, p)
<1> DEFINE d == volume.dirs[s]
<1>1. PICK l \in Nat : l = Len(d)
  BY DirLength
<1>2. q \in p .. l /\ AtEntry(it.loc, it.index, s, q) /\ NoneShown(s, p, q)
  BY <1>1 DEF Seeks
<1>3. PICK loc, index, reading, buffer, e, name :
         it = [loc |-> loc, index |-> index, reading_lfn |-> reading, buffer |-> buffer,
               status |-> "more", entry |-> e, filename |-> name]
  BY IteratorFields
<1>4. CASE q = l
  <2>1. EntryAt(s, q) = END_ENTRY
    BY <1>1, <1>4 DEF EntryAt
  <2>2. EntryAt(s, q).first = "END"
    BY <2>1 DEF END_ENTRY
  <2>3. Examine(it) = [it EXCEPT !.status = "end"]
    <3>1. TurnAt(it, EntryAt(s, q))
      BY ExamineCases
    <3> QED BY <2>2, <3>1, Zenon DEF TurnAt, Examined
  <2>4. Examine(it).status = "end" /\ Examine(it).loc = it.loc /\ Examine(it).index = it.index
    BY <1>3, <2>3
  <2> QED BY <1>1, <1>2, <1>4, <2>4 DEF Found, Ends
<1>5. CASE q # l
  <2>1. q + 1 \in 1 .. l /\ q < l
    BY <1>2, <1>5
  <2>2. EntryAt(s, q) = d[q + 1]
    BY <1>1, <2>1 DEF EntryAt
  <2>3. EntryAt(s, q).first # "END"
    BY <1>1, <2>1, <2>2, VolumesAssumption DEF Ready, DirsOk
  <2>4. q + 1 = Room(s) /\ l <= Room(s)
    BY <1>1, <1>5, DirFacts DEF Pos
  <2>5. AfterEntry(it.loc, it.index).loc = NOWHERE
    BY <1>2, <2>4, AfterMoves
  <2>6. Examine(it) = [it EXCEPT !.status = "fatal"]
    <3>1. TurnAt(it, EntryAt(s, q))
      BY ExamineCases
    <3> QED BY <2>3, <2>5, <3>1, Zenon DEF TurnAt, Examined
  <2>7. Examine(it).status = "fatal"
    BY <1>3, <2>6
  <2>8. l = Room(s)
    BY <2>1, <2>4
  <2> QED BY <1>1, <2>7, <2>8 DEF Found, Overruns
<1> QED BY <1>4, <1>5

\* One turn of the loop of fat_32_directory_entry_iterator_next.
LEMMA ExamineTurn ==
    ASSUME Ready, NEW s \in DOMAIN volume.dirs, NEW nm, NamesOf(s, nm), NEW p \in Nat, NEW q \in Nat,
           NEW it, Seeks(it, s, nm, p, q)
    PROVE  Seeks(Examine(it), s, nm, p, q + 1) \/ Found(Examine(it), s, nm, p)
<1> DEFINE d == volume.dirs[s]
<1>1. PICK l \in Nat : l = Len(d)
  BY DirLength
<1>2. q \in p .. l /\ AtEntry(it.loc, it.index, s, q) /\ NoneShown(s, p, q) /\ it.buffer \in Buffers
      /\ ReadsName(it, s, nm, q)
  BY <1>1 DEF Seeks
<1>3. PICK loc, index, reading, buffer, e, name :
         it = [loc |-> loc, index |-> index, reading_lfn |-> reading, buffer |-> buffer,
               status |-> "more", entry |-> e, filename |-> name]
  BY IteratorFields
<1>4. SUFFICES ASSUME q # l, q + 1 # Room(s)
               PROVE  Seeks(Examine(it), s, nm, p, q + 1) \/ Found(Examine(it), s, nm, p)
  BY <1>1, ExamineStops
<1>5. PICK k \in 1 .. l : k = q + 1 /\ k - 1 = q /\ q < l
  <2>1. q + 1 \in 1 .. l /\ q < l
    BY <1>2, <1>4
  <2> QED BY <2>1
<1>6. EntryAt(s, q) = d[k] /\ d[k].first # "END"
  <2>1. EntryAt(s, q) = d[k]
    BY <1>1, <1>5 DEF EntryAt
  <2> QED BY <1>1, <2>1, VolumesAssumption DEF Ready, DirsOk
<1>7. PICK entry : entry = d[k] /\ entry = EntryAt(s, q)
  BY <1>6
<1>8. PICK after : after = AfterEntry(it.loc, it.index)
  OBVIOUS
<1>9. after.loc # NOWHERE /\ AtEntry(after.loc, after.index, s, k)
  <2>1. q + 1 < Room(s)
    BY <1>2, <1>4, EntryRange, DirFacts DEF Pos
  <2> QED BY <1>2, <1>5, <1>8, <2>1, AfterMoves
<1>10. PICK moved : moved = [it EXCEPT !.loc = after.loc, !.index = after.index]
  OBVIOUS
<1>11. moved = [loc |-> after.loc, index |-> after.index, reading_lfn |-> reading, buffer |-> buffer,
                status |-> "more", entry |-> e, filename |-> name]
  BY <1>3, <1>10
<1>12. /\ moved.loc = after.loc /\ moved.index = after.index
       /\ moved.reading_lfn = it.reading_lfn /\ moved.buffer = it.buffer
  BY <1>3, <1>11
<1>13. Examine(it) = Examined(it, entry, after, moved)
  <2>1. TurnAt(it, EntryAt(s, q))
    BY ExamineCases
  <2> QED BY <1>7, <1>8, <1>10, <2>1, Zenon DEF TurnAt
<1>14. entry.first # "END" /\ after.loc # NOWHERE
  BY <1>6, <1>7, <1>9
<1>15. k \in p .. l /\ k \in Nat
  BY <1>2, <1>5
<1>16. CASE Shown(entry)
  <2>1. Examine(it) = [moved EXCEPT !.status = "entry", !.entry = entry,
                            !.filename = IF it.reading_lfn THEN CString(it.buffer)
                                         ELSE ShortName(entry)]
    BY <1>13, <1>16, <1>14 DEF Examined, Shown, IsDir, LFN
  <2>2. nm[k] = IF it.reading_lfn THEN CString(it.buffer) ELSE ShortName(entry)
    <3>1. q < Len(volume.dirs[s]) /\ Shown(volume.dirs[s][q + 1])
      BY <1>1, <1>5, <1>7, <1>16
    <3>2. nm[q + 1] = IF it.reading_lfn THEN CString(it.buffer) ELSE ShortName(d[q + 1])
      BY <3>1, NameFits
    <3> QED BY <1>5, <1>7, <3>2
  <2>3. /\ Examine(it).status = "entry" /\ Examine(it).entry = entry
        /\ Examine(it).filename = nm[k] /\ Examine(it).loc = after.loc
        /\ Examine(it).index = after.index
    BY <1>11, <2>1, <2>2
  <2>4. k \in p + 1 .. l
    BY <1>2, <1>5
  <2>5. Finds(Examine(it), s, nm, p, k)
    BY <1>1, <1>2, <1>5, <1>7, <1>9, <1>16, <2>3, <2>4 DEF Finds
  <2> QED BY <1>15, <2>5 DEF Found
<1>17. CASE ~ Shown(entry)
  <2>1. NoneShown(s, p, k)
    <3>1. ASSUME NEW i \in p + 1 .. k PROVE ~ Shown(d[i])
      <4>1. i = k \/ i \in p + 1 .. q
        BY <1>2, <1>5
      <4> QED BY <1>2, <1>7, <1>17, <4>1 DEF NoneShown
    <3> QED BY <3>1 DEF NoneShown
  <2>2. CASE IsPart(entry)
    <3>1. PICK v \in k + 1 .. l, m \in Nat :
             /\ PartOf(s, nm, k, v, m)
             /\ Assembled(it.buffer, nm[v], FAT_LFN_CHAR_COUNT * (v - k))
             /\ it.reading_lfn = TRUE \/ v - k = m
      <4>1. q < Len(volume.dirs[s]) /\ IsPart(volume.dirs[s][q + 1])
        BY <1>1, <1>5, <1>7, <2>2
      <4>2. FitsPart(it, s, nm, q + 1)
        BY <4>1, PartFits, Zenon
      <4>3. FitsPart(it, s, nm, k)
        BY <1>5, <4>2
      <4> QED BY <1>1, <4>3, Zenon DEF FitsPart
    <3>2. v \in Nat /\ v \in k + 1 .. l /\ v \in 1 .. l
      BY <1>5, <3>1
    <3>3. PICK j \in 1 .. m : j = v - k /\ v - j = k /\ j - 1 = v - k - 1
      <4>1. v - k \in 1 .. m
        BY <3>1 DEF PartOf
      <4> QED BY <3>2, <4>1
    <3>4. LongName(d, v, m, nm[v]) /\ nm[v] \in Seq(Nat)
      <4>1. LongName(d, v, m, nm[v]) /\ Shown(d[v])
        BY <3>1 DEF PartOf
      <4> QED BY <1>1, <3>2, <4>1 DEF NamesOf
    <3>5. Assembled(it.buffer, nm[v], FAT_LFN_CHAR_COUNT * j)
      BY <3>1, <3>3
    <3>6. /\ WithLfn(it.buffer, d[v - j]) \in Buffers
          /\ Assembled(WithLfn(it.buffer, d[v - j]), nm[v], FAT_LFN_CHAR_COUNT * (j - 1))
      BY <1>2, <3>2, <3>4, <3>5, PartPlaced
    <3>7. entry.last = (j = m)
      <4>1. d[v - j].last = (j = m)
        BY <3>4, Zenon DEF LongName
      <4> QED BY <1>7, <3>3, <4>1
    <3>8. (moved.reading_lfn \/ entry.last) = TRUE
      BY <1>12, <3>1, <3>3, <3>7
    <3>9. Examine(it) = [moved EXCEPT !.buffer = WithLfn(it.buffer, entry), !.reading_lfn = TRUE]
      BY <1>13, <1>14, <2>2, <3>8, Zenon DEF IsPart, Examined
    <3>10. Examine(it) = [loc |-> after.loc, index |-> after.index, reading_lfn |-> TRUE,
                          buffer |-> WithLfn(it.buffer, entry), status |-> "more",
                          entry |-> e, filename |-> name]
      BY <1>11, <3>9
    <3>11. PICK next : next = Examine(it)
      OBVIOUS
    <3>12. /\ next = [loc |-> next.loc, index |-> next.index, reading_lfn |-> next.reading_lfn,
                      buffer |-> next.buffer, status |-> "more", entry |-> next.entry,
                      filename |-> next.filename]
           /\ next.loc = after.loc /\ next.index = after.index /\ next.reading_lfn = TRUE
           /\ next.buffer = WithLfn(it.buffer, entry)
      BY <3>10, <3>11
    <3>13. ~ Between(s, k)
      BY <1>7, <1>15, <1>5, <2>2 DEF Between
    <3>14. Assembled(next.buffer, nm[v], FAT_LFN_CHAR_COUNT * (v - k - 1)) /\ next.buffer \in Buffers
      BY <1>7, <3>3, <3>6, <3>12
    <3>15. ReadsName(next, s, nm, k)
      BY <1>1, <3>1, <3>2, <3>12, <3>13, <3>14, Zenon DEF ReadsName
    <3>16. Seeks(next, s, nm, p, k)
      BY <1>1, <1>9, <1>15, <2>1, <3>12, <3>14, <3>15, Zenon DEF Seeks
    <3> QED BY <1>5, <3>11, <3>16
  <2>3. CASE ~ IsPart(entry)
    <3>1. Examine(it) = moved
      BY <1>13, <1>17, <1>14, <2>3 DEF Examined, IsPart, Shown, IsDir, LFN
    <3>2. Between(s, k)
      BY <1>7, <2>3 DEF Between
    <3>3. Between(s, q)
      <4>1. SUFFICES ASSUME ~ Between(s, q) PROVE FALSE
        OBVIOUS
      <4>2. PICK v \in q + 1 .. l, m \in Nat : PartOf(s, nm, q, v, m)
        BY <1>1, <1>2, <4>1, Zenon DEF ReadsName
      <4>3. v \in Nat
        BY <4>2
      <4>4. v = k
        BY <1>5, <1>7, <2>3, <4>2, <4>3, RunGoesOn
      <4>5. Shown(d[k])
        BY <4>2, <4>4 DEF PartOf
      <4> QED BY <1>7, <1>17, <4>5
    <3>4. it.reading_lfn = FALSE /\ \A x \in 1 .. NameLength : it.buffer[x] = 0
      BY <1>2, <3>3, Zenon DEF ReadsName
    <3>5. /\ moved = [loc |-> moved.loc, index |-> moved.index, reading_lfn |-> moved.reading_lfn,
                      buffer |-> moved.buffer, status |-> "more", entry |-> moved.entry,
                      filename |-> moved.filename]
          /\ moved.loc = after.loc /\ moved.index = after.index
          /\ moved.reading_lfn = it.reading_lfn /\ moved.buffer = it.buffer
      BY <1>11, <1>12
    <3>6. ReadsName(moved, s, nm, k)
      BY <3>2, <3>4, <3>5, Zenon DEF ReadsName
    <3>7. Seeks(moved, s, nm, p, k)
      BY <1>1, <1>2, <1>9, <1>15, <2>1, <3>5, <3>6, Zenon DEF Seeks
    <3> QED BY <1>5, <3>1, <3>7
  <2> QED BY <2>2, <2>3
<1> QED BY <1>16, <1>17

\* fat_32_directory_entry_iterator_next from behind p entries on: the next entry
\* that stands for a file with its name, the end, or no end entry.
LEMMA IteratorEffect ==
    ASSUME Ready, NEW s \in DOMAIN volume.dirs, NEW nm, NamesOf(s, nm),
           NEW p \in 0 .. Len(volume.dirs[s]), NEW loc, NEW index,
           AtEntry(loc, index, s, p), Between(s, p)
    PROVE  Found(NextEntry(loc, index), s, nm, p)
<1>1. PICK l \in Nat, t \in Nat : l = Len(volume.dirs[s]) /\ t = MaxTurns
  BY DirLength, Constants DEF Pos
<1>2. PICK g : /\ g[0] = Iterator(loc, index)
               /\ \A n \in 1 .. t : g[n] = Examine(g[n - 1])
               /\ NextEntry(loc, index) = g[t]
  BY <1>1, NextEntrySteps
<1>3. p \in Nat /\ p <= l
  BY <1>1
<1> DEFINE S == {n \in Nat : Seeks(g[n], s, nm, p, p + n) \/ Found(g[n], s, nm, p)}
<1>4. 0 \in S
  <2>1. PICK it : it = Iterator(loc, index)
    OBVIOUS
  <2>2. /\ it = [loc |-> it.loc, index |-> it.index, reading_lfn |-> it.reading_lfn,
                 buffer |-> it.buffer, status |-> "more", entry |-> it.entry,
                 filename |-> it.filename]
        /\ it.loc = loc /\ it.index = index /\ it.reading_lfn = FALSE
        /\ it.buffer = [i \in 1 .. NameLength |-> 0]
    BY <2>1 DEF Iterator
  <2>3. it.buffer \in Buffers /\ \A x \in 1 .. NameLength : it.buffer[x] = 0
    BY <2>2 DEF Buffers
  <2>4. NoneShown(s, p, p)
    BY <1>3 DEF NoneShown
  <2>5. ReadsName(it, s, nm, p)
    BY <2>2, <2>3, Zenon DEF ReadsName
  <2>6. p \in p .. Len(volume.dirs[s])
    BY <1>1, <1>3
  <2>7. Seeks(it, s, nm, p, p)
    BY <2>2, <2>3, <2>4, <2>5, <2>6, Zenon DEF Seeks
  <2> QED BY <1>2, <1>3, <2>1, <2>7
<1>5. ASSUME NEW n \in 0 .. t - 1, n \in S PROVE n + 1 \in S
  <2>1. n + 1 \in 1 .. t /\ (n + 1) - 1 = n /\ n \in Nat
    OBVIOUS
  <2>2. g[n + 1] = Examine(g[n])
    BY <1>2, <2>1
  <2>3. CASE Seeks(g[n], s, nm, p, p + n)
    <3>1. PICK q \in Nat : q = p + n /\ q + 1 = p + (n + 1)
      BY <1>3, <2>1
    <3>2. Seeks(g[n + 1], s, nm, p, q + 1) \/ Found(g[n + 1], s, nm, p)
      BY <1>3, <2>2, <2>3, <3>1, ExamineTurn
    <3> QED BY <2>1, <3>1, <3>2
  <2>4. CASE Found(g[n], s, nm, p)
    <3>1. g[n].status # "more"
      BY <2>4 DEF Found, Finds, Ends, Overruns
    <3>2. g[n + 1] = g[n]
      BY <2>2, <3>1, Zenon DEF Examine, ExamineEntry
    <3> QED BY <2>1, <2>4, <3>2
  <2> QED BY <1>5, <2>3, <2>4
<1> HIDE DEF S
<1>6. t \in S
  <2>1. \A n \in 0 .. t : n \in S
    BY <1>4, <1>5, Steps
  <2> QED BY <2>1
<1>7. ~ Seeks(g[t], s, nm, p, p + t)
  <2>1. SUFFICES ASSUME Seeks(g[t], s, nm, p, p + t) PROVE FALSE
    OBVIOUS
  <2>2. p + t \in 0 .. Room(s) - 1
    BY <2>1, EntryRange DEF Seeks
  <2>3. Room(s) <= t /\ Room(s) \in Nat
    BY <1>1, DirFacts DEF Pos
  <2> QED BY <1>3, <2>2, <2>3
<1> QED BY <1>2, <1>6, <1>7 DEF S

\* The iterator stops behind an entry that is no part of a name.
LEMMA EndIsBetween ==
    ASSUME Ready, NEW s \in DOMAIN volume.dirs
    PROVE  Between(s, Len(volume.dirs[s]))
<1>1. PICK l \in Nat : l = Len(volume.dirs[s])
  BY DirLength
<1>2. SUFFICES ASSUME l # 0, IsPart(volume.dirs[s][l]) PROVE FALSE
  BY <1>1 DEF Between
<1>3. DirsOk(volume)
  BY VolumesAssumption DEF Ready
<1>4. l \in 1 .. l
  BY <1>2
<1>5. PICK n \in l + 1 .. l : TRUE
  BY <1>1, <1>2, <1>3, <1>4, Zenon DEF DirsOk
<1> QED BY <1>5

-----------------------------------------------------------------------------
(* Listings                                                                *)

\* The entries of a directory that a path leads to.
DirOf(path) == volume.tree[path].cluster
EntriesOf(path) == volume.dirs[DirOf(path)]
List(path) == volume.listing[path]

\* Where the entries of the files in a listing are.
PlacedIn(v, path, at) ==
    LET list == v.listing[path]
        d == v.dirs[v.tree[path].cluster]
    IN  /\ at \in [1 .. Len(list) -> 1 .. Len(d)]
        /\ \A i, j \in 1 .. Len(list) : i < j => at[i] < at[j]
        /\ {at[i] : i \in 1 .. Len(list)} = {k \in 1 .. Len(d) : Shown(d[k])}
        /\ \A i \in 1 .. Len(list) :
              LET entry == d[at[i]]
                  child == Append(path, list[i].name)
              IN  /\ Named(d, at[i], list[i].name)
                  /\ list[i] = [name |-> list[i].name, is_dir |-> IsDir(entry)]
                  /\ child \in DOMAIN v.tree
                  /\ v.tree[child] = [cluster |-> entry.cluster, size |-> entry.size]
PlacesIn(v, path) ==
    CHOOSE at \in [1 .. Len(v.listing[path]) -> 1 .. Len(v.dirs[v.tree[path].cluster])] :
        PlacedIn(v, path, at)
Placed(path, at) == PlacedIn(volume, path, at)
At(path) == PlacesIn(volume, path)

\* The name of each entry.
NameAt(path) ==
    [k \in 1 .. Len(EntriesOf(path)) |->
       List(path)[CHOOSE i \in 1 .. Len(List(path)) : At(path)[i] = k].name]

\* A listing is that of a directory.
LEMMA ListingFacts ==
    ASSUME Ready, NEW path \in DOMAIN volume.listing
    PROVE  /\ path \in DOMAIN volume.tree /\ path \in Seq(Seq(Nat))
           /\ DirOf(path) \in DOMAIN volume.dirs
           /\ List(path) \in Seq([name : Seq(Nat), is_dir : BOOLEAN])
           /\ Len(List(path)) \in Nat /\ Len(EntriesOf(path)) \in Nat
           /\ Placed(path, At(path))
           /\ \A i, j \in 1 .. Len(List(path)) : List(path)[i].name = List(path)[j].name => i = j
<1>1. TreeOk(volume)
  BY VolumesAssumption DEF Ready
<1>2. path \in DOMAIN volume.tree /\ path \in Seq(Seq(Nat)) /\ DirOf(path) \in DOMAIN volume.dirs
  BY <1>1, Zenon DEF TreeOk, DirOf
<1>3. List(path) \in Seq([name : Seq(Nat), is_dir : BOOLEAN]) /\ ListingOk(volume, path)
  BY <1>1, Zenon DEF TreeOk, List
<1>4. Len(List(path)) \in Nat /\ Len(EntriesOf(path)) \in Nat
  BY <1>2, <1>3, DirLength DEF EntriesOf
<1>5. \E at \in [1 .. Len(List(path)) -> 1 .. Len(EntriesOf(path))] : Placed(path, at)
  BY <1>3, Zenon DEF ListingOk, Placed, PlacedIn, List, EntriesOf, DirOf
<1>6. Placed(path, At(path))
  BY <1>5, Zenon DEF At, PlacesIn, Placed, List, EntriesOf, DirOf
<1>7. \A i, j \in 1 .. Len(List(path)) : List(path)[i].name = List(path)[j].name => i = j
  BY <1>3, Zenon DEF ListingOk, List
<1> QED BY <1>2, <1>3, <1>4, <1>6, <1>7

\* The places of the files, in order.
LEMMA PlaceFacts ==
    ASSUME Ready, NEW path \in DOMAIN volume.listing, NEW i \in 1 .. Len(List(path))
    PROVE  /\ At(path)[i] \in 1 .. Len(EntriesOf(path)) /\ At(path)[i] \in Nat
           /\ Shown(EntriesOf(path)[At(path)[i]])
           /\ \A j \in 1 .. Len(List(path)) : /\ i < j => At(path)[i] < At(path)[j]
                                              /\ At(path)[i] = At(path)[j] => i = j
<1> DEFINE at == At(path)
           l == Len(List(path))
           d == EntriesOf(path)
<1>1. Placed(path, at)
  BY ListingFacts
<1>2. /\ at \in [1 .. l -> 1 .. Len(d)] /\ \A h, j \in 1 .. l : h < j => at[h] < at[j]
      /\ {at[h] : h \in 1 .. l} = {k \in 1 .. Len(d) : Shown(d[k])}
  BY <1>1, Zenon DEF Placed, PlacedIn, List, EntriesOf, DirOf
<1>3. l \in Nat /\ Len(d) \in Nat /\ i \in 1 .. l
  BY ListingFacts
<1> HIDE DEF at, l, d
<1>4. at[i] \in 1 .. Len(d)
  BY <1>2, <1>3
<1>5. at[i] \in Nat
  BY <1>3, <1>4
<1>6. Shown(d[at[i]])
  <2>1. at[i] \in {at[h] : h \in 1 .. l}
    BY <1>3
  <2>2. at[i] \in {k \in 1 .. Len(d) : Shown(d[k])}
    BY <1>2, <2>1, Zenon
  <2> QED BY <2>2
<1>7. ASSUME NEW j \in 1 .. l PROVE (i < j => at[i] < at[j]) /\ (at[i] = at[j] => i = j)
  <2>1. /\ i < j => at[i] < at[j]
        /\ j < i => at[j] < at[i]
    BY <1>2, <1>3
  <2>2. at[j] \in 1 .. Len(d)
    BY <1>2
  <2> QED BY <1>3, <1>5, <2>1, <2>2
<1> QED BY <1>4, <1>5, <1>6, <1>7 DEF at, l, d

\* Every entry that stands for a file is in the listing.
LEMMA ShownIsListed ==
    ASSUME Ready, NEW path \in DOMAIN volume.listing, NEW k \in 1 .. Len(EntriesOf(path)),
           Shown(EntriesOf(path)[k])
    PROVE  \E i \in 1 .. Len(List(path)) : At(path)[i] = k
<1>1. {At(path)[h] : h \in 1 .. Len(List(path))}
        = {e \in 1 .. Len(EntriesOf(path)) : Shown(EntriesOf(path)[e])}
  BY ListingFacts, Zenon DEF Placed, PlacedIn, List, EntriesOf, DirOf
<1>2. k \in {At(path)[h] : h \in 1 .. Len(List(path))}
  BY <1>1
<1> QED BY <1>2

\* The names of the entries are those of the listing.
LEMMA NamesAt ==
    ASSUME Ready, NEW path \in DOMAIN volume.listing
    PROVE  /\ NamesOf(DirOf(path), NameAt(path))
           /\ \A i \in 1 .. Len(List(path)) : NameAt(path)[At(path)[i]] = List(path)[i].name
<1>1. ASSUME NEW i \in 1 .. Len(List(path)) PROVE NameAt(path)[At(path)[i]] = List(path)[i].name
  <2>1. PICK k \in 1 .. Len(EntriesOf(path)) : k = At(path)[i]
    BY PlaceFacts
  <2>2. PICK j : j = CHOOSE h \in 1 .. Len(List(path)) : At(path)[h] = k
    OBVIOUS
  <2>3. j \in 1 .. Len(List(path)) /\ At(path)[j] = k
    BY <2>1, <2>2
  <2>4. j = i
    BY <2>1, <2>3, PlaceFacts
  <2> QED BY <2>1, <2>2, <2>4 DEF NameAt
<1>2. ASSUME NEW k \in 1 .. Len(EntriesOf(path)), Shown(EntriesOf(path)[k])
      PROVE  NameAt(path)[k] \in Seq(Nat) /\ Named(EntriesOf(path), k, NameAt(path)[k])
  <2>1. PICK i \in 1 .. Len(List(path)) : At(path)[i] = k
    BY <1>2, ShownIsListed
  <2>2. NameAt(path)[k] = List(path)[i].name
    BY <1>1, <2>1
  <2>3. List(path)[i] \in [name : Seq(Nat), is_dir : BOOLEAN]
    <3>1. List(path) \in Seq([name : Seq(Nat), is_dir : BOOLEAN])
      BY ListingFacts
    <3> QED BY <3>1, ElementOf, Zenon
  <2>4. Named(EntriesOf(path), At(path)[i], List(path)[i].name)
    BY ListingFacts, Zenon DEF Placed, PlacedIn, List, EntriesOf, DirOf
  <2> QED BY <2>1, <2>2, <2>3, <2>4
<1> QED BY <1>1, <1>2, Zenon DEF NamesOf, EntriesOf

\* The first i files of the listing lie up to entry p.
Passed(path, p, i) ==
    \A j \in 1 .. Len(List(path)) : At(path)[j] <= p <=> j <= i

\* The iterator stands behind file i of the listing.
Stands(it, path, i) ==
    /\ i \in 1 .. Len(List(path)) /\ it.status = "entry"
    /\ it.entry = EntriesOf(path)[At(path)[i]] /\ it.filename = List(path)[i].name
    /\ AtEntry(it.loc, it.index, DirOf(path), At(path)[i])

\* Behind file i are the first i files.
LEMMA PassedAt ==
    ASSUME Ready, NEW path \in DOMAIN volume.listing, NEW i \in 1 .. Len(List(path))
    PROVE  Passed(path, At(path)[i], i) /\ Between(DirOf(path), At(path)[i])
<1>1. ASSUME NEW j \in 1 .. Len(List(path)) PROVE At(path)[j] <= At(path)[i] <=> j <= i
  <2>1. PICK l \in Nat, x \in Nat, y \in Nat :
           l = Len(List(path)) /\ x = At(path)[i] /\ y = At(path)[j]
           /\ (i < j => x < y) /\ (j < i => y < x)
    <3>1. Len(List(path)) \in Nat
      BY ListingFacts
    <3>2. At(path)[i] \in Nat /\ At(path)[j] \in Nat
      BY PlaceFacts
    <3>3. (i < j => At(path)[i] < At(path)[j]) /\ (j < i => At(path)[j] < At(path)[i])
      BY PlaceFacts
    <3> QED BY <3>1, <3>2, <3>3, Zenon
  <2>2. i \in 1 .. l /\ j \in 1 .. l
    BY <2>1
  <2>3. i = j \/ i < j \/ j < i
    BY <2>2
  <2> QED BY <2>1, <2>2, <2>3
<1>2. ~ IsPart(EntriesOf(path)[At(path)[i]])
  BY PlaceFacts, ShownIsNoPart
<1> QED BY <1>1, <1>2 DEF Passed, Between, EntriesOf

\* The next entry that the iterator finds is the next file of the listing.
LEMMA FindsNext ==
    ASSUME Ready, NEW path \in DOMAIN volume.listing, NEW p \in Nat, NEW i \in 0 .. Len(List(path)),
           Passed(path, p, i), NEW it, NEW q \in Nat,
           Finds(it, DirOf(path), NameAt(path), p, q)
    PROVE  Stands(it, path, i + 1) /\ At(path)[i + 1] = q /\ p < q
<1> DEFINE d == volume.dirs[DirOf(path)]
<1>1. PICK l \in Nat, m \in Nat : l = Len(List(path)) /\ m = Len(d)
  BY ListingFacts DEF EntriesOf
<1>2. /\ it.status = "entry" /\ q \in p + 1 .. m /\ Shown(d[q])
      /\ NoneShown(DirOf(path), p, q - 1) /\ it.entry = d[q] /\ it.filename = NameAt(path)[q]
      /\ AtEntry(it.loc, it.index, DirOf(path), q)
  BY <1>1 DEF Finds
<1>3. q \in 1 .. m /\ p < q /\ i \in 0 .. l
  BY <1>1, <1>2
<1>4. PICK j \in 1 .. l : At(path)[j] = q
  BY <1>1, <1>2, <1>3, ShownIsListed DEF EntriesOf
<1>5. i < j
  <2>1. ~ (At(path)[j] <= p)
    BY <1>3, <1>4
  <2>2. ~ (j <= i)
    BY <1>1, <1>4, <2>1 DEF Passed
  <2> QED BY <1>3, <2>2
<1>6. PICK h \in 1 .. l : h = i + 1
  BY <1>3, <1>5
<1>7. PICK a \in Nat : a = At(path)[h] /\ a \in 1 .. m /\ Shown(d[a])
  BY <1>1, <1>6, PlaceFacts DEF EntriesOf
<1>8. ~ (a <= p)
  <2>1. ~ (h <= i)
    BY <1>3, <1>6
  <2> QED BY <1>1, <1>7, <2>1 DEF Passed
<1>9. ~ (h < j)
  <2>1. SUFFICES ASSUME h < j PROVE FALSE
    OBVIOUS
  <2>2. a < q
    BY <1>1, <1>4, <1>7, <2>1, PlaceFacts
  <2>3. a \in p + 1 .. q - 1
    BY <1>3, <1>8, <2>2
  <2> QED BY <1>2, <1>7, <2>3 DEF NoneShown
<1>10. h = j
  BY <1>3, <1>5, <1>6, <1>9
<1>11. NameAt(path)[q] = List(path)[j].name
  BY <1>1, <1>4, NamesAt
<1> QED BY <1>1, <1>2, <1>3, <1>4, <1>6, <1>10, <1>11 DEF Stands, EntriesOf

\* At the end the iterator has passed all files.
LEMMA EndsLast ==
    ASSUME Ready, NEW path \in DOMAIN volume.listing, NEW p \in Nat, NEW i \in 0 .. Len(List(path)),
           Passed(path, p, i), NEW it, Ends(it, DirOf(path), p)
    PROVE  i = Len(List(path)) /\ Passed(path, Len(EntriesOf(path)), i)
<1>1. PICK l \in Nat, m \in Nat : l = Len(List(path)) /\ m = Len(EntriesOf(path))
  BY ListingFacts
<1>2. NoneShown(DirOf(path), p, m)
  BY <1>1 DEF Ends, EntriesOf
<1>3. ASSUME NEW j \in 1 .. l PROVE At(path)[j] \in 1 .. m /\ j <= i
  <2>1. PICK a \in Nat : a = At(path)[j] /\ a \in 1 .. m /\ Shown(EntriesOf(path)[a])
    BY <1>1, PlaceFacts
  <2>2. a <= p
    <3>1. SUFFICES ASSUME ~ (a <= p) PROVE FALSE
      OBVIOUS
    <3>2. a \in p + 1 .. m
      BY <2>1, <3>1
    <3> QED BY <1>2, <2>1, <3>2 DEF NoneShown, EntriesOf
  <2> QED BY <1>1, <2>1, <2>2 DEF Passed
<1>4. i = l
  <2>1. i \in 0 .. l
    BY <1>1
  <2>2. CASE l = 0
    BY <2>1, <2>2
  <2>3. CASE l # 0
    <3>1. l \in 1 .. l
      BY <2>3
    <3>2. l <= i
      BY <1>3, <3>1
    <3> QED BY <2>1, <3>2
  <2> QED BY <2>2, <2>3
<1>5. \A j \in 1 .. l : At(path)[j] <= m
  BY <1>3
<1>6. \A j \in 1 .. l : j <= i
  BY <1>3
<1> QED BY <1>1, <1>4, <1>5, <1>6 DEF Passed

\* The iterator, in terms of the listing: the next file, the end behind the
\* last one, or a directory without an end entry.
AtEnd(it, path, i) ==
    /\ it.status = "end" /\ i = Len(List(path))
    /\ AtEntry(it.loc, it.index, DirOf(path), Len(EntriesOf(path)))
    /\ Passed(path, Len(EntriesOf(path)), i)
NextFile(it, path, p, i) ==
    \/ Stands(it, path, i + 1) /\ p < At(path)[i + 1]
    \/ AtEnd(it, path, i)
    \/ Overruns(it, DirOf(path))

\* fat_32_directory_entry_iterator_next, called behind i files, gives file i + 1.
LEMMA IteratorLists ==
    ASSUME Ready, NEW path \in DOMAIN volume.listing, NEW p \in 0 .. Len(EntriesOf(path)),
           NEW i \in 0 .. Len(List(path)), Passed(path, p, i), Between(DirOf(path), p),
           NEW loc, NEW index, AtEntry(loc, index, DirOf(path), p)
    PROVE  NextFile(NextEntry(loc, index), path, p, i)
<1>1. PICK s \in DOMAIN volume.dirs : s = DirOf(path) /\ volume.dirs[s] = EntriesOf(path)
  BY ListingFacts DEF EntriesOf
<1>2. PICK nm : nm = NameAt(path) /\ NamesOf(s, nm)
  BY <1>1, NamesAt
<1>3. PICK it : it = NextEntry(loc, index)
  OBVIOUS
<1>4. Found(it, s, nm, p)
  BY <1>1, <1>2, <1>3, IteratorEffect
<1>5. p \in Nat
  BY ListingFacts
<1>6. CASE \E q \in Nat : Finds(it, s, nm, p, q)
  <2>1. PICK q \in Nat : Finds(it, s, nm, p, q)
    BY <1>6
  <2>2. Stands(it, path, i + 1) /\ At(path)[i + 1] = q /\ p < q
    BY <1>1, <1>2, <1>5, <2>1, FindsNext
  <2> QED BY <1>3, <2>2 DEF NextFile
<1>7. CASE Ends(it, s, p)
  <2>1. i = Len(List(path)) /\ Passed(path, Len(EntriesOf(path)), i)
    BY <1>1, <1>5, <1>7, EndsLast
  <2> QED BY <1>1, <1>3, <1>7, <2>1 DEF Ends, NextFile, AtEnd
<1>8. CASE Overruns(it, s)
  BY <1>1, <1>3, <1>8 DEF NextFile
<1> QED BY <1>4, <1>6, <1>7, <1>8 DEF Found

-----------------------------------------------------------------------------
(* Lookup                                                                  *)

\* _fat32fs_inode_lookup found the file of that name, or there is none, or the
\* directory has no end entry.
Hit(it, path, name) == \E i \in Nat : Stands(it, path, i) /\ List(path)[i].name = name
Missed(it, path, name) ==
    it.status = "end" /\ \A i \in 1 .. Len(List(path)) : List(path)[i].name # name
Differ(path, name, n) == \A i \in 1 .. Len(List(path)) : i <= n => List(path)[i].name # name
LooksAt(it, path, name, n) ==
    /\ Stands(it, path, n + 1) /\ n + 1 <= At(path)[n + 1] /\ Differ(path, name, n)
Looked(it, path, name) ==
    Hit(it, path, name) \/ Missed(it, path, name) \/ Overruns(it, DirOf(path))

\* The next entry, after n other names.
LEMMA LooksOn ==
    ASSUME Ready, NEW path \in DOMAIN volume.listing, NEW p \in Nat, NEW n \in Nat, NEW name,
           n <= Len(List(path)), NEW it, NextFile(it, path, p, n), n <= p, Differ(path, name, n)
    PROVE  LooksAt(it, path, name, n) \/ Looked(it, path, name)
<1>1. PICK l \in Nat : l = Len(List(path)) /\ n <= l
  BY ListingFacts
<1>2. CASE Stands(it, path, n + 1) /\ p < At(path)[n + 1]
  <2>1. n + 1 \in 1 .. Len(List(path))
    BY <1>2 DEF Stands
  <2>2. PICK a \in Nat : a = At(path)[n + 1]
    BY <2>1, PlaceFacts
  <2>3. n + 1 <= a
    BY <1>2, <2>2
  <2> QED BY <1>2, <2>2, <2>3 DEF LooksAt
<1>3. CASE AtEnd(it, path, n)
  <2>1. it.status = "end" /\ n = l
    BY <1>1, <1>3 DEF AtEnd
  <2>2. \A i \in 1 .. Len(List(path)) : List(path)[i].name # name
    BY <1>1, <2>1 DEF Differ
  <2> QED BY <2>1, <2>2 DEF Looked, Missed
<1>4. CASE Overruns(it, DirOf(path))
  BY <1>4 DEF Looked
<1> QED BY <1>2, <1>3, <1>4 DEF NextFile

\* One turn of its loop.
LEMMA CompareTurn ==
    ASSUME Ready, NEW path \in DOMAIN volume.listing, NEW n \in Nat, NEW name, NEW it,
           LooksAt(it, path, name, n)
    PROVE  \/ LooksAt(Compare(it, name), path, name, n + 1)
           \/ Looked(Compare(it, name), path, name)
<1>1. PICK i \in 1 .. Len(List(path)) : i = n + 1
  BY DEF LooksAt, Stands
<1>2. /\ Stands(it, path, i) /\ i <= At(path)[i] /\ Differ(path, name, n) /\ it.status = "entry"
      /\ it.filename = List(path)[i].name /\ AtEntry(it.loc, it.index, DirOf(path), At(path)[i])
  BY <1>1 DEF LooksAt, Stands
<1>3. CASE it.filename = name
  <2>1. Compare(it, name) = it
    BY <1>3 DEF Compare
  <2>2. i \in Nat
    BY <1>1
  <2> QED BY <1>2, <1>3, <2>1, <2>2 DEF Looked, Hit
<1>4. CASE it.filename # name
  <2>1. Compare(it, name) = NextEntry(it.loc, it.index)
    BY <1>2, <1>4 DEF Compare
  <2>2. PICK l \in Nat, m \in Nat : l = Len(List(path)) /\ m = Len(EntriesOf(path))
    BY ListingFacts
  <2>3. PICK a \in Nat : a = At(path)[i] /\ a \in 1 .. m
    BY <2>2, PlaceFacts
  <2>4. i \in Nat /\ i <= l /\ i \in 0 .. l /\ a \in 0 .. m
    BY <1>1, <2>2, <2>3
  <2>5. Passed(path, a, i) /\ Between(DirOf(path), a)
    BY <2>3, PassedAt
  <2>6. NextFile(Compare(it, name), path, a, i)
    BY <1>2, <2>1, <2>2, <2>3, <2>4, <2>5, IteratorLists
  <2>7. Differ(path, name, i)
    <3>1. ASSUME NEW j \in 1 .. l, j <= i PROVE List(path)[j].name # name
      <4>1. j = i \/ j <= n
        BY <1>1, <3>1
      <4> QED BY <1>2, <1>4, <2>2, <4>1 DEF Differ
    <3> QED BY <2>2, <3>1 DEF Differ
  <2>8. LooksAt(Compare(it, name), path, name, i) \/ Looked(Compare(it, name), path, name)
    BY <1>2, <2>2, <2>3, <2>4, <2>6, <2>7, LooksOn
  <2> QED BY <1>1, <2>8
<1> QED BY <1>3, <1>4

\* _fat32fs_inode_lookup
LEMMA LookupEffect ==
    ASSUME Ready, NEW path \in DOMAIN volume.listing, NEW inode, inode.cluster = DirOf(path), NEW name
    PROVE  Looked(Lookup(inode, name), path, name)
<1>1. PICK l \in Nat, m \in Nat, t \in Nat :
        l = Len(List(path)) /\ m = Len(EntriesOf(path)) /\ t = MaxTurns
  BY ListingFacts, Constants DEF Pos
<1>2. PICK g : /\ g[0] = NextEntry(StartOf(inode.cluster), 0)
               /\ \A n \in 1 .. t : g[n] = Compare(g[n - 1], name)
               /\ Lookup(inode, name) = g[t]
  BY <1>1, LookupSteps
<1> DEFINE S == {n \in Nat : LooksAt(g[n], path, name, n) \/ Looked(g[n], path, name)}
<1>3. 0 \in S
  <2>1. AtEntry(StartOf(inode.cluster), 0, DirOf(path), 0)
    BY ListingFacts, EntriesStart
  <2>2. Passed(path, 0, 0) /\ Between(DirOf(path), 0) /\ Differ(path, name, 0)
    <3>1. ASSUME NEW j \in 1 .. l PROVE ~ (At(path)[j] <= 0) /\ ~ (j <= 0)
      <4>1. At(path)[j] \in 1 .. m
        BY <1>1, PlaceFacts
      <4> QED BY <4>1
    <3> QED BY <1>1, <3>1 DEF Passed, Between, Differ
  <2>3. 0 \in 0 .. m /\ 0 \in 0 .. l /\ 0 <= l
    OBVIOUS
  <2>4. NextFile(g[0], path, 0, 0)
    BY <1>1, <1>2, <2>1, <2>2, <2>3, IteratorLists
  <2>5. LooksAt(g[0], path, name, 0) \/ Looked(g[0], path, name)
    BY <1>1, <2>2, <2>3, <2>4, LooksOn
  <2> QED BY <2>5
<1>4. ASSUME NEW n \in 0 .. t - 1, n \in S PROVE n + 1 \in S
  <2>1. n + 1 \in 1 .. t /\ (n + 1) - 1 = n /\ n \in Nat
    OBVIOUS
  <2>2. g[n + 1] = Compare(g[n], name)
    BY <1>2, <2>1
  <2>3. CASE LooksAt(g[n], path, name, n)
    <3>1. LooksAt(g[n + 1], path, name, n + 1) \/ Looked(g[n + 1], path, name)
      BY <2>1, <2>2, <2>3, CompareTurn
    <3> QED BY <2>1, <3>1
  <2>4. CASE Looked(g[n], path, name)
    <3>1. g[n].status # "entry" \/ g[n].filename = name
      BY <2>4 DEF Looked, Hit, Missed, Overruns, Stands
    <3>2. g[n + 1] = g[n]
      BY <2>2, <3>1, Zenon DEF Compare
    <3> QED BY <2>1, <2>4, <3>2
  <2> QED BY <1>4, <2>3, <2>4
<1> HIDE DEF S
<1>5. t \in S
  <2>1. \A n \in 0 .. t : n \in S
    BY <1>3, <1>4, Steps
  <2> QED BY <2>1
<1>6. ~ LooksAt(g[t], path, name, t)
  <2>1. SUFFICES ASSUME LooksAt(g[t], path, name, t) PROVE FALSE
    OBVIOUS
  <2>2. /\ AtEntry(g[t].loc, g[t].index, DirOf(path), At(path)[t + 1]) /\ t + 1 <= At(path)[t + 1]
    BY <2>1 DEF LooksAt, Stands
  <2>3. PICK s \in DOMAIN volume.dirs : s = DirOf(path)
    BY ListingFacts
  <2>4. PICK a \in Nat : a = At(path)[t + 1] /\ a \in 0 .. Room(s) - 1
    BY <2>2, <2>3, EntryRange
  <2>5. Room(s) <= t /\ Room(s) \in Nat
    BY <1>1, DirFacts DEF Pos
  <2> QED BY <2>2, <2>4, <2>5
<1> QED BY <1>2, <1>5, <1>6 DEF S

-----------------------------------------------------------------------------
(* Paths                                                                   *)

\* A directory without an end entry.
FullDir == \E s \in DOMAIN volume.dirs : Len(volume.dirs[s]) = Room(s)

\* The inode of a path.
IsInode(inode, path) ==
    /\ path \in DOMAIN volume.tree
    /\ inode.cluster = volume.tree[path].cluster /\ inode.size = volume.tree[path].size
    /\ inode.is_dir = (inode.cluster \in DOMAIN volume.dirs)
    /\ volume.tree[path] = [cluster |-> inode.cluster, size |-> inode.size]
    /\ inode.is_dir \/ Regular(inode.cluster, inode.size)
Walked(w, path) ==
    \/ w.status = "entry" /\ IsInode(w.inode, path)
    \/ w.status = "end" /\ path \notin DOMAIN volume.tree
    \/ w.status = "fatal" /\ FullDir

\* The inode of an entry that stands for a file.
LEMMA InodeFacts ==
    ASSUME Ready, NEW path \in DOMAIN volume.listing, NEW i \in 1 .. Len(List(path))
    PROVE  IsInode(InodeOf(EntriesOf(path)[At(path)[i]]), Append(path, List(path)[i].name))
<1>1. PICK entry : entry = EntriesOf(path)[At(path)[i]]
  OBVIOUS
<1>2. PICK s \in DOMAIN volume.dirs, k \in 1 .. Len(volume.dirs[DirOf(path)]) :
         s = DirOf(path) /\ k = At(path)[i] /\ Shown(entry) /\ entry = volume.dirs[s][k]
  <2>1. DirOf(path) \in DOMAIN volume.dirs
    BY ListingFacts
  <2>2. At(path)[i] \in 1 .. Len(volume.dirs[DirOf(path)]) /\ Shown(entry)
        /\ entry = volume.dirs[DirOf(path)][At(path)[i]]
    BY <1>1, PlaceFacts DEF EntriesOf
  <2> QED BY <2>1, <2>2, Zenon
<1>3. InodeOk(volume, entry)
  <2>1. DirsOk(volume)
    BY VolumesAssumption DEF Ready
  <2> QED BY <1>2, <2>1, Zenon DEF DirsOk
<1>4. PICK child : child = Append(path, List(path)[i].name)
  OBVIOUS
<1>5. child \in DOMAIN volume.tree /\ volume.tree[child] = [cluster |-> entry.cluster, size |-> entry.size]
  BY <1>1, <1>4, ListingFacts, Zenon DEF Placed, PlacedIn, List, EntriesOf, DirOf
<1>6. volume.tree[child].cluster = entry.cluster /\ volume.tree[child].size = entry.size
  BY <1>5
<1>7. PICK inode : inode = InodeOf(entry)
  OBVIOUS
<1>8. inode.is_dir = IsDir(entry) /\ inode.cluster = entry.cluster /\ inode.size = entry.size
  BY <1>7 DEF InodeOf
<1>9. inode.is_dir = (inode.cluster \in DOMAIN volume.dirs)
  BY <1>3, <1>8 DEF InodeOk, IsDir
<1>10. ASSUME ~ IsDir(entry) PROVE Regular(entry.cluster, entry.size)
  <2>1. /\ entry.cluster \notin DOMAIN volume.dirs /\ entry.size \in 0 .. Modulus - 1
        /\ \/ entry.cluster = 0 /\ entry.size = 0
           \/ /\ entry.cluster \in DOMAIN volume.chains
              /\ entry.size <= SectorsOf(volume, entry.cluster) * FAT32_SECTOR_SIZE
    BY <1>3, <1>10 DEF InodeOk
  <2>2. CASE entry.cluster = 0 /\ entry.size = 0
    <3>1. HasChain(entry.cluster)
      BY <2>2 DEF HasChain
    <3>2. Sectors(entry.cluster) * FAT32_SECTOR_SIZE \in Nat
      BY <3>1, SectorsPos, Constants, Product DEF Pos
    <3> QED BY <2>1, <2>2, <3>1, <3>2 DEF Regular
  <2>3. CASE /\ entry.cluster \in DOMAIN volume.chains
             /\ entry.size <= SectorsOf(volume, entry.cluster) * FAT32_SECTOR_SIZE
    <3>1. HasChain(entry.cluster)
      BY <2>3 DEF HasChain
    <3>2. entry.cluster # 0
      <4>1. entry.cluster \in 2 .. FAT_ENTRY_END - 1
        BY <2>3, ChainFacts
      <4> QED BY <4>1, Constants
    <3>3. SectorsOf(volume, entry.cluster) = Sectors(entry.cluster)
      BY <3>2 DEF SectorsOf, Sectors, ChainOf
    <3> QED BY <2>1, <2>3, <3>1, <3>2, <3>3 DEF Regular
  <2> QED BY <2>1, <2>2, <2>3
<1>11. IsInode(inode, child)
  BY <1>5, <1>6, <1>8, <1>9, <1>10 DEF IsInode
<1> QED BY <1>1, <1>4, <1>7, <1>11

\* A sequence with one more element.
LEMMA Appended ==
    ASSUME NEW T, NEW list \in Seq(T), NEW e \in T
    PROVE  /\ Append(list, e) # <<>> /\ Append(list, e)[Len(Append(list, e))] = e
           /\ SubSeq(Append(list, e), 1, Len(Append(list, e)) - 1) = list
<1>1. PICK longer \in Seq(T) : longer = Append(list, e)
  <2>1. Append(list, e) \in Seq(T)
    OBVIOUS
  <2> QED BY <2>1, Zenon
<1>2. PICK n \in Nat : n = Len(list) /\ Len(longer) = n + 1 /\ longer[n + 1] = e
  BY <1>1
<1>3. \A k \in 1 .. n : longer[k] = list[k]
  BY <1>1, <1>2
<1>4. SubSeq(longer, 1, n) \in Seq(T) /\ Len(SubSeq(longer, 1, n)) = n
      /\ \A k \in 1 .. n : SubSeq(longer, 1, n)[k] = longer[k]
  BY <1>2
<1>5. SubSeq(longer, 1, n) = list
  BY <1>2, <1>3, <1>4
<1>6. longer # <<>> /\ Len(longer) - 1 = n
  BY <1>2
<1> QED BY <1>1, <1>2, <1>5, <1>6

\* A path of the tree that is longer than the root is in the listing of its parent.
LEMMA ParentFacts ==
    ASSUME Ready, NEW path \in Seq(Seq(Nat)), NEW name \in Seq(Nat),
           Append(path, name) \in DOMAIN volume.tree
    PROVE  /\ path \in DOMAIN volume.listing
           /\ \E i \in 1 .. Len(List(path)) : List(path)[i].name = name
<1>1. PICK child : child = Append(path, name)
  OBVIOUS
<1>2. child # <<>> /\ child[Len(child)] = name
  BY <1>1, Appended, Zenon
<1>3. SubSeq(child, 1, Len(child) - 1) = path
  BY <1>1, Appended, Zenon
<1>4. TreeOk(volume)
  BY VolumesAssumption DEF Ready
<1>5. child \in DOMAIN volume.tree \ {<<>>}
  BY <1>1, <1>2
<1>6. LET parent == SubSeq(child, 1, Len(child) - 1)
      IN  /\ parent \in DOMAIN volume.listing
          /\ \E i \in 1 .. Len(volume.listing[parent]) : volume.listing[parent][i].name = child[Len(child)]
  BY <1>4, <1>5, Zenon DEF TreeOk
<1> QED BY <1>2, <1>3, <1>6 DEF List

\* A record of the walk.
WalkRecord(w) == w = [status |-> w.status, inode |-> w.inode]

\* One name further on the path.
LEMMA DescendStep ==
    ASSUME Ready, NEW path \in Seq(Seq(Nat)), NEW name \in Seq(Nat), NEW w, Walked(w, path),
           WalkRecord(w)
    PROVE  Walked(Descend(w, name), Append(path, name)) /\ WalkRecord(Descend(w, name))
<1>1. PICK status, inode : w = [status |-> status, inode |-> inode]
  BY Zenon DEF WalkRecord
<1>2. w.status = status /\ w.inode = inode
  BY <1>1
<1>3. PICK next : next = Descend(w, name)
  OBVIOUS
<1>4. PICK child : child = Append(path, name)
  OBVIOUS
<1>5. TreeOk(volume)
  BY VolumesAssumption DEF Ready
<1>6. CASE w.status = "end" /\ path \notin DOMAIN volume.tree
  <2>1. next = w
    BY <1>3, <1>6 DEF Descend, Entered
  <2>2. DOMAIN volume.listing = {p \in DOMAIN volume.tree : volume.tree[p].cluster \in DOMAIN volume.dirs}
    BY <1>5, Zenon DEF TreeOk
  <2>3. child \notin DOMAIN volume.tree
    BY <1>4, <1>6, <2>2, ParentFacts
  <2> QED BY <1>3, <1>4, <1>6, <2>1, <2>3 DEF Walked, WalkRecord
<1>7. CASE w.status = "fatal" /\ FullDir
  <2>1. next = w
    BY <1>3, <1>7 DEF Descend, Entered
  <2> QED BY <1>3, <1>4, <1>7, <2>1 DEF Walked
<1>8. CASE w.status = "entry" /\ IsInode(w.inode, path)
  <2>1. path \in DOMAIN volume.tree /\ inode.cluster = volume.tree[path].cluster
        /\ inode.is_dir = (inode.cluster \in DOMAIN volume.dirs)
    BY <1>2, <1>8 DEF IsInode
  <2>2. path \in DOMAIN volume.listing <=> inode.is_dir
    <3>1. DOMAIN volume.listing = {p \in DOMAIN volume.tree : volume.tree[p].cluster \in DOMAIN volume.dirs}
      BY <1>5, Zenon DEF TreeOk
    <3> QED BY <2>1, <3>1
  <2>3. CASE ~ inode.is_dir
    <3>1. next = [w EXCEPT !.status = "end"]
      BY <1>2, <1>3, <1>8, <2>3, Zenon DEF Descend, Entered
    <3>2. next = [status |-> "end", inode |-> inode] /\ next.status = "end" /\ next.inode = inode
      BY <1>1, <3>1
    <3>3. child \notin DOMAIN volume.tree
      BY <1>4, <2>2, <2>3, ParentFacts
    <3> QED BY <1>3, <1>4, <3>2, <3>3 DEF Walked, WalkRecord
  <2>4. CASE inode.is_dir
    <3>1. PICK it : it = Lookup(inode, name)
      OBVIOUS
    <3>2. next = [status |-> it.status,
                  inode |-> IF it.status = "entry" THEN InodeOf(it.entry) ELSE w.inode]
      BY <1>2, <1>3, <1>8, <2>4, <3>1, Zenon DEF Descend, Entered
    <3>3. next.status = it.status
          /\ next.inode = (IF it.status = "entry" THEN InodeOf(it.entry) ELSE w.inode)
          /\ next = [status |-> next.status, inode |-> next.inode]
      BY <3>2
    <3>4. path \in DOMAIN volume.listing /\ inode.cluster = DirOf(path)
      BY <2>1, <2>2, <2>4 DEF DirOf
    <3>5. Looked(it, path, name)
      BY <3>1, <3>4, LookupEffect
    <3>6. CASE Hit(it, path, name)
      <4>1. PICK i \in Nat : Stands(it, path, i) /\ List(path)[i].name = name
        BY <3>6 DEF Hit
      <4>2. i \in 1 .. Len(List(path)) /\ it.status = "entry" /\ it.entry = EntriesOf(path)[At(path)[i]]
        BY <4>1 DEF Stands
      <4>3. IsInode(InodeOf(it.entry), child)
        BY <1>4, <3>4, <4>1, <4>2, InodeFacts
      <4> QED BY <1>3, <1>4, <3>3, <4>2, <4>3 DEF Walked, WalkRecord
    <3>7. CASE Missed(it, path, name)
      <4>1. it.status = "end" /\ child \notin DOMAIN volume.tree
        BY <1>4, <3>7, ParentFacts DEF Missed
      <4> QED BY <1>3, <1>4, <3>3, <4>1 DEF Walked, WalkRecord
    <3>8. CASE Overruns(it, DirOf(path))
      <4>1. it.status = "fatal" /\ FullDir
        BY <3>4, <3>8, ListingFacts DEF Overruns, FullDir
      <4> QED BY <1>3, <1>4, <3>3, <4>1 DEF Walked, WalkRecord
    <3> QED BY <3>5, <3>6, <3>7, <3>8 DEF Looked
  <2> QED BY <2>3, <2>4
<1> QED BY <1>6, <1>7, <1>8 DEF Walked

\* The prefixes of a sequence.
LEMMA Prefixes ==
    ASSUME NEW T, NEW list \in Seq(T), NEW n \in 0 .. Len(list)
    PROVE  /\ SubSeq(list, 1, n) \in Seq(T) /\ SubSeq(list, 1, 0) = <<>>
           /\ SubSeq(list, 1, Len(list)) = list
           /\ n < Len(list) => SubSeq(list, 1, n + 1) = Append(SubSeq(list, 1, n), list[n + 1])
                               /\ list[n + 1] \in T
<1>1. SubSeq(list, 1, n) \in Seq(T) /\ SubSeq(list, 1, 0) = <<>> /\ SubSeq(list, 1, Len(list)) = list
  OBVIOUS
<1>2. ASSUME n < Len(list)
      PROVE  SubSeq(list, 1, n + 1) = Append(SubSeq(list, 1, n), list[n + 1])
  <2>1. PICK a \in Seq(T), b \in Seq(T) : a = SubSeq(list, 1, n + 1) /\ b = SubSeq(list, 1, n)
    <3>1. SubSeq(list, 1, n + 1) \in Seq(T) /\ SubSeq(list, 1, n) \in Seq(T)
      BY <1>2
    <3> QED BY <3>1, Zenon
  <2>2. Len(a) = n + 1 /\ Len(b) = n /\ (\A k \in 1 .. n + 1 : a[k] = list[k])
        /\ (\A k \in 1 .. n : b[k] = list[k]) /\ list[n + 1] \in T
    BY <1>2, <2>1
  <2>3. PICK c \in Seq(T) : c = Append(b, list[n + 1])
    <3>1. Append(b, list[n + 1]) \in Seq(T)
      BY <2>2
    <3> QED BY <3>1, Zenon
  <2>4. Len(c) = n + 1 /\ \A k \in 1 .. n + 1 : c[k] = list[k]
    BY <2>2, <2>3
  <2> QED BY <2>1, <2>2, <2>3, <2>4
<1>3. n < Len(list) => list[n + 1] \in T
  OBVIOUS
<1> QED BY <1>1, <1>2, <1>3

\* The lookups along a path.
LEMMA WalkEffect ==
    ASSUME Ready, NEW path \in Seq(Seq(Nat))
    PROVE  Walked(Walk(path), path)
<1>1. PICK l \in Nat : l = Len(path)
  OBVIOUS
<1>2. PICK g : /\ g[0] = [status |-> "entry", inode |-> RootInode]
               /\ \A n \in 1 .. l : g[n] = Descend(g[n - 1], path[n])
               /\ Walk(path) = g[l]
  BY <1>1, WalkSteps
<1> DEFINE S == {n \in Nat : Walked(g[n], SubSeq(path, 1, n))
                             /\ WalkRecord(g[n])}
<1>3. 0 \in S
  <2>1. SubSeq(path, 1, 0) = <<>>
    BY <1>1, Prefixes
  <2>2. /\ volume.tree[<<>>] = [cluster |-> volume.root, size |-> 0] /\ <<>> \in DOMAIN volume.tree
        /\ volume.root \in DOMAIN volume.dirs
    BY VolumesAssumption, Zenon DEF Ready, TreeOk, DirsOk
  <2>3. sb.root_cluster = volume.root
    BY Numbers
  <2>4. PICK inode : inode = RootInode
    OBVIOUS
  <2>5. inode.is_dir = TRUE /\ inode.cluster = volume.root /\ inode.size = 0
    BY <2>3, <2>4 DEF RootInode
  <2>6. volume.tree[<<>>].cluster = volume.root /\ volume.tree[<<>>].size = 0
    BY <2>2
  <2>7. IsInode(inode, <<>>)
    BY <2>2, <2>5, <2>6 DEF IsInode
  <2>8. g[0].status = "entry" /\ g[0].inode = inode
    BY <1>2, <2>4
  <2>9. g[0] = [status |-> g[0].status, inode |-> g[0].inode]
    BY <1>2, <2>4, <2>8
  <2>10. Walked(g[0], <<>>)
    BY <2>7, <2>8 DEF Walked
  <2> QED BY <2>1, <2>9, <2>10 DEF WalkRecord
<1>4. ASSUME NEW n \in 0 .. l - 1, n \in S PROVE n + 1 \in S
  <2>1. n + 1 \in 1 .. l /\ (n + 1) - 1 = n /\ n \in Nat /\ n \in 0 .. l /\ n < l
    OBVIOUS
  <2>2. g[n + 1] = Descend(g[n], path[n + 1])
    BY <1>2, <2>1
  <2>3. /\ SubSeq(path, 1, n) \in Seq(Seq(Nat)) /\ path[n + 1] \in Seq(Nat)
        /\ SubSeq(path, 1, n + 1) = Append(SubSeq(path, 1, n), path[n + 1])
    BY <1>1, <2>1, Prefixes, Zenon
  <2>4. Walked(g[n], SubSeq(path, 1, n)) /\ WalkRecord(g[n])
    BY <1>4
  <2>5. Walked(g[n + 1], SubSeq(path, 1, n + 1))
        /\ WalkRecord(g[n + 1])
    BY <2>2, <2>3, <2>4, DescendStep, Zenon
  <2> QED BY <2>1, <2>5
<1> HIDE DEF S
<1>5. l \in S
  <2>1. \A n \in 0 .. l : n \in S
    BY <1>3, <1>4, Steps
  <2> QED BY <2>1
<1>6. SubSeq(path, 1, l) = path
  BY <1>1, Prefixes
<1> QED BY <1>2, <1>5, <1>6 DEF S

-----------------------------------------------------------------------------
(* The open directory                                                      *)

\* loc and index are behind the first i files of the listing.
ListPos(loc, index, path, q, i) ==
    /\ q \in 0 .. Len(EntriesOf(path)) /\ i \in 0 .. Len(List(path))
    /\ AtEntry(loc, index, DirOf(path), q) /\ Between(DirOf(path), q) /\ Passed(path, q, i)

OpenDir(f) ==
    /\ f = [path |-> f.path, loc |-> f.loc, index |-> f.index, listed |-> f.listed,
            complete |-> f.complete]
    /\ f.path \in DOMAIN volume.listing
    /\ \E q, i \in Nat : /\ ListPos(f.loc, f.index, f.path, q, i)
                         /\ f.listed = SubSeq(List(f.path), 1, i)
                         /\ f.complete => i = Len(List(f.path))
DirOk == dir # CLOSED => OpenDir(dir)

\* Files as readdir returns them.
Dirents == [name : Seq(Nat), is_dir : BOOLEAN]

\* What a call of readdir has listed, behind what earlier calls did.
Lists(r, path, before, q, i) ==
    /\ ListPos(r.loc, r.index, path, q, i) /\ r.listed \in Seq(Dirents)
    /\ before \o r.listed = SubSeq(List(path), 1, i)
    /\ r.status = "entry" \/ (r.status = "end" /\ i = Len(List(path)))
LongListed(path) ==
    \E i \in 1 .. Len(volume.listing[path]) :
        Len(volume.listing[path][i].name) >= MAX_DIR_NAME_LEN
Listing(r, path, before) ==
    \/ r.status = "fatal" /\ FullDir
    \/ r.status = "overrun" /\ LongListed(path)
    \/ \E q, i \in Nat : Lists(r, path, before, q, i)

\* A sequence appended to a sequence, element by element.
LEMMA Concat ==
    ASSUME NEW T, NEW a \in Seq(T), NEW b \in Seq(T), NEW e \in T
    PROVE  a \o Append(b, e) = Append(a \o b, e) /\ Append(b, e) \in Seq(T)
<1>1. Append(b, e) \in Seq(T)
  OBVIOUS
<1>2. PICK c \in Seq(T), d \in Seq(T) : c = Append(b, e) /\ d = a \o b
  <2>1. Append(b, e) \in Seq(T) /\ a \o b \in Seq(T)
    OBVIOUS
  <2> QED BY <2>1, Zenon
<1>3. PICK x \in Seq(T), y \in Seq(T) : x = a \o c /\ y = Append(d, e)
  <2>1. a \o c \in Seq(T) /\ Append(d, e) \in Seq(T)
    OBVIOUS
  <2> QED BY <2>1, Zenon
<1>4. PICK m \in Nat, n \in Nat : m = Len(a) /\ n = Len(b)
  OBVIOUS
<1>5. Len(c) = n + 1 /\ (\A k \in 1 .. n : c[k] = b[k]) /\ c[n + 1] = e
  BY <1>2, <1>4
<1>6. Len(d) = m + n /\ (\A k \in 1 .. m : d[k] = a[k]) /\ \A k \in m + 1 .. m + n : d[k] = b[k - m]
  BY <1>2, <1>4
<1>7. Len(x) = m + n + 1 /\ (\A k \in 1 .. m : x[k] = a[k]) /\ \A k \in m + 1 .. m + n + 1 : x[k] = c[k - m]
  <2>1. PICK h \in Nat : h = Len(c)
    OBVIOUS
  <2>2. Len(x) = m + h /\ (\A k \in 1 .. m : x[k] = a[k]) /\ \A k \in m + 1 .. m + h : x[k] = c[k - m]
    BY <1>3, <1>4, <2>1
  <2>3. m + h = m + n + 1
    BY <1>5, <2>1
  <2> QED BY <2>2, <2>3
<1>8. Len(y) = m + n + 1 /\ (\A k \in 1 .. m + n : y[k] = d[k]) /\ y[m + n + 1] = e
  <2>1. PICK h \in Nat : h = Len(d)
    OBVIOUS
  <2>2. Len(y) = h + 1 /\ (\A k \in 1 .. h : y[k] = d[k]) /\ y[h + 1] = e
    BY <1>3, <2>1
  <2> QED BY <1>6, <2>1, <2>2
<1>9. ASSUME NEW k \in 1 .. m + n + 1 PROVE x[k] = y[k]
  <2>1. CASE k <= m
    BY <1>6, <1>7, <1>8, <2>1
  <2>2. CASE k > m /\ k <= m + n
    <3>1. k - m \in 1 .. n /\ k \in m + 1 .. m + n /\ k \in 1 .. m + n /\ k \in m + 1 .. m + n + 1
      BY <2>2
    <3> QED BY <1>5, <1>6, <1>7, <1>8, <3>1
  <2>3. CASE k = m + n + 1
    <3>1. k - m = n + 1 /\ k \in m + 1 .. m + n + 1
      BY <2>3
    <3> QED BY <1>5, <1>7, <1>8, <2>3, <3>1
  <2> QED BY <2>1, <2>2, <2>3
<1>10. x = y
  BY <1>7, <1>8, <1>9
<1> QED BY <1>1, <1>2, <1>3, <1>10

\* One turn of the loop of _fat32_fs_dir_readdir.
LEMMA ReaddirTurns ==
    ASSUME Ready, NEW path \in DOMAIN volume.listing, NEW before \in Seq(Dirents), NEW r,
           Listing(r, path, before)
    PROVE  Listing(ReaddirTurn(r), path, before)
<1>1. CASE r.status # "entry"
  <2>1. ReaddirTurn(r) = r
    BY <1>1, Zenon DEF ReaddirTurn, ReaddirEntry
  <2> QED BY <2>1
<1>2. CASE r.status = "entry"
  <2>1. PICK q \in Nat, i \in Nat : Lists(r, path, before, q, i)
    BY <1>2 DEF Listing
  <2>2. /\ q \in 0 .. Len(EntriesOf(path)) /\ i \in 0 .. Len(List(path))
        /\ AtEntry(r.loc, r.index, DirOf(path), q) /\ Between(DirOf(path), q) /\ Passed(path, q, i)
        /\ r.listed \in Seq(Dirents) /\ before \o r.listed = SubSeq(List(path), 1, i)
    BY <2>1 DEF Lists, ListPos
  <2>3. PICK it : it = NextEntry(r.loc, r.index)
    OBVIOUS
  <2>4. NextFile(it, path, q, i)
    BY <2>2, <2>3, IteratorLists
  <2>5. PICK next : next = ReaddirTurn(r)
    OBVIOUS
  <2> DEFINE long == it.status = "entry" /\ Len(it.filename) + 1 > MAX_DIR_NAME_LEN
  <2>11. next = 
         IF long THEN [loc |-> r.loc, index |-> r.index, status |-> "overrun", listed |-> r.listed]
         ELSE [loc |-> it.loc, index |-> it.index, status |-> it.status,
               listed |-> IF it.status # "entry" THEN r.listed
                          ELSE Append(r.listed, [name |-> it.filename, is_dir |-> IsDir(it.entry)])]
    BY <1>2, <2>3, <2>5, Zenon DEF ReaddirTurn, ReaddirEntry
  <2>6. ~ long => next = [loc |-> it.loc, index |-> it.index, status |-> it.status,
                listed |-> IF it.status # "entry" THEN r.listed
                           ELSE Append(r.listed, [name |-> it.filename, is_dir |-> IsDir(it.entry)])]
    BY <2>11, Zenon
  <2>7. PICK l \in Nat, m \in Nat : l = Len(List(path)) /\ m = Len(EntriesOf(path))
    BY ListingFacts
  <2>12. CASE Stands(it, path, i + 1) /\ long
    <3>1. PICK j \in 1 .. l : j = i + 1
      BY <2>7, <2>12 DEF Stands
    <3>2. it.filename = List(path)[j].name
      BY <2>12, <3>1 DEF Stands
    <3>3. MAX_DIR_NAME_LEN \in Nat /\ Len(it.filename) \in Nat
      <4>1. List(path) \in Seq(Dirents)
        BY ListingFacts DEF Dirents
      <4>2. List(path)[j] \in Dirents
        BY <2>7, <3>1, <4>1, ElementOf, Zenon
      <4>3. it.filename \in Seq(Nat)
        BY <3>2, <4>2 DEF Dirents
      <4>4. MAX_DIR_NAME_LEN \in Nat
        BY Fat32Assumption
      <4> QED BY <4>3, <4>4
    <3>4. Len(List(path)[j].name) >= MAX_DIR_NAME_LEN
      BY <2>12, <3>2, <3>3
    <3>5. LongListed(path)
      BY <2>7, <3>1, <3>4 DEF LongListed, List
    <3>6. next.status = "overrun"
      BY <2>11, <2>12
    <3> QED BY <2>5, <3>5, <3>6 DEF Listing
  <2>8. CASE Stands(it, path, i + 1) /\ ~ long
    <3>1. PICK j \in 1 .. l : j = i + 1
      BY <2>7, <2>8 DEF Stands
    <3>2. /\ it.status = "entry" /\ it.entry = EntriesOf(path)[At(path)[j]]
          /\ it.filename = List(path)[j].name /\ AtEntry(it.loc, it.index, DirOf(path), At(path)[j])
      BY <2>8, <3>1 DEF Stands
    <3>3. List(path)[j] = [name |-> List(path)[j].name, is_dir |-> IsDir(EntriesOf(path)[At(path)[j]])]
      BY <2>7, <3>1, ListingFacts, Zenon DEF Placed, PlacedIn, List, EntriesOf, DirOf
    <3>4. PICK e : e = List(path)[j]
      OBVIOUS
    <3>5. next.loc = it.loc /\ next.index = it.index /\ next.status = "entry"
          /\ next.listed = Append(r.listed, e)
      BY <2>6, <2>8, <3>2, <3>3, <3>4
    <3>6. e \in Dirents
      <4>1. List(path) \in Seq(Dirents)
        BY ListingFacts DEF Dirents
      <4> QED BY <2>7, <3>1, <3>4, <4>1, ElementOf, Zenon
    <3>7. next.listed \in Seq(Dirents) /\ before \o next.listed = Append(before \o r.listed, e)
      <4>1. /\ Append(r.listed, e) \in Seq(Dirents)
            /\ before \o Append(r.listed, e) = Append(before \o r.listed, e)
        <5>1. r.listed \in Seq(Dirents)
          BY <2>2
        <5> QED BY <3>6, <5>1, Concat
      <4> QED BY <3>5, <4>1, Zenon
    <3>8. before \o next.listed = SubSeq(List(path), 1, j)
      <4>1. List(path) \in Seq(Dirents)
        BY ListingFacts DEF Dirents
      <4>2. i < Len(List(path)) /\ i \in 0 .. Len(List(path))
        BY <2>7, <3>1
      <4>3. SubSeq(List(path), 1, i + 1) = Append(SubSeq(List(path), 1, i), List(path)[i + 1])
        BY <4>1, <4>2, Prefixes, Zenon
      <4> QED BY <2>2, <3>1, <3>4, <3>7, <4>3
    <3>9. PICK a \in Nat : a = At(path)[j] /\ a \in 1 .. m
      BY <2>7, PlaceFacts
    <3>10. Passed(path, a, j) /\ Between(DirOf(path), a)
      BY <2>7, <3>9, PassedAt
    <3>11. a \in 0 .. m /\ j \in 0 .. l /\ j \in Nat
      BY <3>9
    <3>12. ListPos(next.loc, next.index, path, a, j)
      BY <2>7, <3>2, <3>5, <3>9, <3>10, <3>11 DEF ListPos
    <3>13. Lists(next, path, before, a, j)
      BY <3>5, <3>7, <3>8, <3>12 DEF Lists
    <3> QED BY <2>5, <3>11, <3>13 DEF Listing
  <2>9. CASE AtEnd(it, path, i)
    <3>1. /\ it.status = "end" /\ i = l /\ AtEntry(it.loc, it.index, DirOf(path), m)
          /\ Passed(path, m, i)
      BY <2>7, <2>9 DEF AtEnd
    <3>2. next.loc = it.loc /\ next.index = it.index /\ next.status = "end" /\ next.listed = r.listed
      BY <2>6, <3>1
    <3>3. Between(DirOf(path), m)
      BY <2>7, ListingFacts, EndIsBetween DEF EntriesOf
    <3>4. m \in 0 .. m /\ i \in 0 .. l
      BY <3>1
    <3>5. ListPos(next.loc, next.index, path, m, i)
      BY <2>7, <3>1, <3>2, <3>3, <3>4 DEF ListPos
    <3>6. Lists(next, path, before, m, i)
      BY <2>2, <2>7, <3>1, <3>2, <3>5 DEF Lists
    <3> QED BY <2>5, <3>6 DEF Listing
  <2>10. CASE Overruns(it, DirOf(path))
    <3>1. it.status = "fatal" /\ FullDir
      BY <2>10, ListingFacts DEF Overruns, FullDir
    <3>2. next.status = "fatal"
      BY <2>6, <3>1
    <3> QED BY <2>5, <3>1, <3>2 DEF Listing
  <2> QED BY <2>4, <2>8, <2>9, <2>10, <2>12 DEF NextFile
<1> QED BY <1>1, <1>2

\* _fat32_fs_dir_readdir
LEMMA ReaddirEffect ==
    ASSUME Ready, OpenDir(dir), NEW count \in Nat
    PROVE  Listing(ReaddirLoop(count), dir.path, dir.listed) /\ dir.listed \in Seq(Dirents)
<1>1. PICK path \in DOMAIN volume.listing : path = dir.path
  BY DEF OpenDir
<1>2. PICK q \in Nat, i \in Nat :
          ListPos(dir.loc, dir.index, path, q, i) /\ dir.listed = SubSeq(List(path), 1, i)
  BY <1>1 DEF OpenDir
<1>3. PICK before \in Seq(Dirents) : before = dir.listed
  <2>1. List(path) \in Seq(Dirents)
    BY ListingFacts DEF Dirents
  <2>2. i \in 0 .. Len(List(path))
    BY <1>2 DEF ListPos
  <2>3. SubSeq(List(path), 1, i) \in Seq(Dirents)
    BY <2>1, <2>2, Prefixes, Zenon
  <2> QED BY <1>2, <2>3
<1>4. PICK g : /\ g[0] = ReaddirStart
               /\ \A n \in 1 .. count : g[n] = ReaddirTurn(g[n - 1])
               /\ ReaddirLoop(count) = g[count]
  BY ReaddirLoopSteps
<1> DEFINE S == {n \in Nat : Listing(g[n], path, before)}
<1>5. 0 \in S
  <2>1. g[0] = [loc |-> dir.loc, index |-> dir.index, status |-> "entry", listed |-> <<>>]
    BY <1>4 DEF ReaddirStart
  <2>2. g[0].loc = dir.loc /\ g[0].index = dir.index /\ g[0].status = "entry" /\ g[0].listed = <<>>
    BY <2>1
  <2>3. before \o <<>> = before /\ <<>> \in Seq(Dirents)
    OBVIOUS
  <2>4. Lists(g[0], path, before, q, i)
    BY <1>2, <1>3, <2>2, <2>3 DEF Lists
  <2> QED BY <2>4 DEF Listing
<1>6. ASSUME NEW n \in 0 .. count - 1, n \in S PROVE n + 1 \in S
  <2>1. n + 1 \in 1 .. count /\ (n + 1) - 1 = n /\ n \in Nat
    OBVIOUS
  <2>2. g[n + 1] = ReaddirTurn(g[n])
    BY <1>4, <2>1
  <2>3. Listing(g[n + 1], path, before)
    BY <1>6, <2>2, ReaddirTurns
  <2> QED BY <2>1, <2>3
<1> HIDE DEF S
<1>7. count \in S
  <2>1. \A n \in 0 .. count : n \in S
    BY <1>5, <1>6, Steps
  <2> QED BY <2>1
<1> QED BY <1>1, <1>3, <1>4, <1>7 DEF S

\* The open file after a call.
LEMMA FileAfter ==
    ASSUME volume' = volume, NEW f, file' = f, f # CLOSED => OpenFile(f)
    PROVE  FileOk'
BY DEF FileOk, OpenFile, Regular, HasChain, Sectors, ChainOf, Cursor, AtSector, CLOSED

\* The open directory after a call.
LEMMA DirAfter ==
    ASSUME volume' = volume, NEW f, dir' = f, f # CLOSED => OpenDir(f)
    PROVE  DirOk'
<1>1. SUFFICES ASSUME f # CLOSED PROVE OpenDir(dir)'
  BY DEF DirOk, CLOSED
<1>2. PICK q \in Nat, i \in Nat :
        /\ ListPos(f.loc, f.index, f.path, q, i) /\ f.listed = SubSeq(List(f.path), 1, i)
        /\ f.complete => i = Len(List(f.path))
  BY <1>1 DEF OpenDir
<1>3. ListPos(dir.loc, dir.index, dir.path, q, i)'
  <2>1. AtEntry(dir.loc, dir.index, DirOf(dir.path), q)'
    <3>1. AtEntry(f.loc, f.index, DirOf(f.path), q)
      BY <1>2 DEF ListPos
    <3> QED BY <3>1 DEF AtEntry, AtSector, Sectors, ChainOf, DirOf
  <2>2. (q \in 0 .. Len(EntriesOf(dir.path)) /\ i \in 0 .. Len(List(dir.path)))'
    BY <1>2 DEF ListPos, EntriesOf, DirOf, List
  <2>3. Between(DirOf(dir.path), q)'
    BY <1>2 DEF ListPos, Between, DirOf
  <2>4. Passed(dir.path, q, i)'
    BY <1>2 DEF ListPos, Passed, At, List
  <2> QED BY <2>1, <2>2, <2>3, <2>4 DEF ListPos
<1>4. (/\ dir = [path |-> dir.path, loc |-> dir.loc, index |-> dir.index, listed |-> dir.listed,
                complete |-> dir.complete]
       /\ dir.path \in DOMAIN volume.listing /\ dir.listed = SubSeq(List(dir.path), 1, i)
       /\ dir.complete => i = Len(List(dir.path)))'
  BY <1>1, <1>2 DEF OpenDir, List
<1> QED BY <1>3, <1>4 DEF OpenDir

-----------------------------------------------------------------------------
(* The invariant                                                           *)

\* The mounted file system is that of the volume; nothing is open before it is
\* mounted; the cursor of the open file is at its position; the open directory is
\* behind the files that were listed; the machine stops only for a reason.
Inv ==
    /\ volume \in Volumes
    /\ IF sb = NOT_MOUNTED THEN file = CLOSED /\ dir = CLOSED ELSE sb = SbOf(volume)
    /\ FileOk /\ DirOk /\ StopsOnlyOutside

\* A mounted file system is that of the volume.
LEMMA MountedIsReady ==
    ASSUME Inv, Mounted
    PROVE  Ready /\ (file # CLOSED => OpenFile(file)) /\ (dir # CLOSED => OpenDir(dir))
BY DEF Inv, Mounted, Ready, FileOk, DirOk

\* The bytes of the clusters of a file.
LEMMA AllocatedIs ==
    ASSUME Ready, NEW c, HasChain(c)
    PROVE  /\ Allocated(c) = Sectors(c) * FAT32_SECTOR_SIZE
           /\ Allocated(c) \div FAT32_SECTOR_SIZE = Sectors(c)
<1>1. PICK l \in Nat, p \in Nat, s \in Pos :
        l = Len(ChainOf(c)) /\ p = volume.sectors_per_cluster /\ s = FAT32_SECTOR_SIZE
  BY ChainOfFacts, Numbers, Constants DEF Pos
<1>2. l * (p * s) = (l * p) * s
  BY DEF Pos
<1>3. PICK m \in Int : m = l * p
  OBVIOUS
<1>4. (m * s + 0) \div s = m
  <2>1. 0 \in 0 .. s - 1
    BY DEF Pos
  <2> QED BY <2>1, DivModUnique
<1>5. m * s + 0 = m * s
  BY DEF Pos
<1>6. Allocated(c) = m * s /\ Sectors(c) = m
  BY <1>1, <1>2, <1>3 DEF Allocated, ClusterSize, Sectors
<1> QED BY <1>1, <1>4, <1>5, <1>6

\* Why a call may stop the machine.
MayStop(op, pos) ==
    /\ op = "seek" => pos \notin 0 .. Allocated(file.cluster) - 1
    /\ op = "read" => pos > file.size
    /\ op \in {"lookup", "readdir"} => Ready /\ FullDir
    /\ op = "overrun" => LongListed(dir.path)
    /\ op = "mount" => volume.bytes_per_sector # FAT32_SECTOR_SIZE

\* A call that stops the machine for such a reason keeps the invariant.
LEMMA StopKeeps ==
    ASSUME Inv, NEW op, NEW pos, Stop(op, pos), MayStop(op, pos)
    PROVE  Inv'
<1>1. volume' = volume /\ sb' = sb /\ file' = file /\ dir' = dir
      /\ panic'.op = op /\ panic'.pos = pos
  BY DEF Stop
<1>2. FileOk' /\ DirOk'
  BY <1>1, FileAfter, DirAfter DEF Inv, FileOk, DirOk
<1>3. StopsOnlyOutside'
  <2>1. CASE op = "seek"
    BY <1>1, <2>1 DEF StopsOnlyOutside, MayStop, Allocated, ChainOf, ClusterSize
  <2>2. CASE op = "read"
    BY <1>1, <2>2 DEF StopsOnlyOutside, MayStop
  <2>3. CASE op \in {"lookup", "readdir"}
    <3>1. PICK s \in DOMAIN volume.dirs : Len(volume.dirs[s]) = Room(s)
      BY <2>3 DEF MayStop, FullDir
    <3>2. Allocated(s) \div FAT32_SECTOR_SIZE = Sectors(s)
      BY <2>3, DirFacts, AllocatedIs DEF MayStop
    <3>3. Len(volume.dirs[s]) = (Allocated(s) \div FAT32_SECTOR_SIZE) * DirEntries
      BY <3>1, <3>2 DEF Room
    <3> QED BY <1>1, <2>3, <3>3 DEF StopsOnlyOutside, Allocated, ChainOf, ClusterSize
  <2>4. CASE op = "mount"
    BY <1>1, <2>4 DEF StopsOnlyOutside, MayStop
  <2>6. CASE op = "overrun"
    BY <1>1, <2>6 DEF StopsOnlyOutside, MayStop, LongListed
  <2>5. CASE op \notin {"seek", "read", "lookup", "readdir", "mount", "overrun"}
    BY <1>1, <2>5 DEF StopsOnlyOutside
  <2> QED BY <2>1, <2>2, <2>3, <2>4, <2>5, <2>6
<1> QED BY <1>1, <1>2, <1>3 DEF Inv

\* So does a call that returns, when what it leaves open is in order.
LEMMA ReturnKeeps ==
    ASSUME Inv, Mounted, volume' = volume, sb' = sb, panic' = panic,
           NEW f, file' = f, f # CLOSED => OpenFile(f), NEW d, dir' = d, d # CLOSED => OpenDir(d)
    PROVE  Inv'
<1>1. FileOk' /\ DirOk'
  BY FileAfter, DirAfter
<1>2. StopsOnlyOutside'
  BY DEF Mounted, Running, RUNNING, StopsOnlyOutside
<1> QED BY <1>1, <1>2 DEF Inv, Mounted

\* fat32_create_filesystem
LEMMA MountKeeps == ASSUME Inv, Mount PROVE Inv'
<1>1. CASE volume.bytes_per_sector # FAT32_SECTOR_SIZE
  <2>1. Stop("mount", 0) /\ MayStop("mount", 0)
    BY <1>1 DEF Mount, MayStop
  <2> QED BY <2>1, StopKeeps
<1>2. CASE volume.bytes_per_sector = FAT32_SECTOR_SIZE
  <2>1. /\ file = CLOSED /\ dir = CLOSED /\ file' = file /\ dir' = dir
        /\ volume' = volume /\ panic' = RUNNING /\ volume \in Volumes
    BY <1>2 DEF Inv, Mount, Fail, Running
  <2>2. sb' = NOT_MOUNTED \/ sb' = SbOf(volume)
    BY <1>2 DEF Mount, Fail, SbOf
  <2>3. StopsOnlyOutside'
    BY <2>1 DEF RUNNING, StopsOnlyOutside
  <2> QED BY <2>1, <2>2, <2>3 DEF Inv, FileOk, DirOk, SbOf, DataArea
<1> QED BY <1>1, <1>2

\* The file that _fat32_fs_reg_file_open opens has its cursor at the start.
LEMMA OpensFile ==
    ASSUME Ready, NEW path, NEW inode, IsInode(inode, path), ~ inode.is_dir
    PROVE  OpenFile([path |-> path, cluster |-> inode.cluster, size |-> inode.size, pos |-> 0,
                     loc |-> StartOf(inode.cluster), offset |-> 0])
<1>1. PICK c, z : c = inode.cluster /\ z = inode.size
  OBVIOUS
<1>2. /\ path \in DOMAIN volume.tree /\ volume.tree[path] = [cluster |-> c, size |-> z]
      /\ Regular(c, z)
  BY <1>1, Zenon DEF IsInode
<1>3. HasChain(c)
  BY <1>2 DEF Regular
<1>4. AtSector(StartOf(c), c, 0) /\ 0 \in 0 .. Sectors(c) - 1
  BY <1>3, StartsAtZero, SectorsPos DEF Pos
<1>5. 0 = 0 * FAT32_SECTOR_SIZE + 0 /\ 0 \in 0 .. FAT32_SECTOR_SIZE
  BY Constants DEF Pos
<1>6. PICK f : f = [path |-> path, cluster |-> c, size |-> z, pos |-> 0,
                    loc |-> StartOf(c), offset |-> 0]
  OBVIOUS
<1>7. /\ f.path = path /\ f.cluster = c /\ f.size = z /\ f.pos = 0 /\ f.loc = StartOf(c)
      /\ f.offset = 0
  BY <1>6
<1>8. Cursor(f)
  BY <1>4, <1>5, <1>7 DEF Cursor
<1>9. OpenFile(f)
  BY <1>2, <1>5, <1>6, <1>7, <1>8 DEF OpenFile
<1> QED BY <1>1, <1>6, <1>9

\* The directory that _fat32_fs_dir_open opens is before its first file.
LEMMA OpensDir ==
    ASSUME Ready, NEW path, NEW inode, IsInode(inode, path), inode.is_dir
    PROVE  OpenDir([path |-> path, loc |-> StartOf(inode.cluster), index |-> 0,
                    listed |-> <<>>, complete |-> FALSE])
<1>1. path \in DOMAIN volume.listing /\ inode.cluster = DirOf(path)
  <2>1. /\ path \in DOMAIN volume.tree /\ inode.cluster = volume.tree[path].cluster
        /\ inode.cluster \in DOMAIN volume.dirs
    BY Zenon DEF IsInode
  <2>2. DOMAIN volume.listing = {p \in DOMAIN volume.tree : volume.tree[p].cluster \in DOMAIN volume.dirs}
    BY VolumesAssumption, Zenon DEF Ready, TreeOk
  <2> QED BY <2>1, <2>2, Zenon DEF DirOf
<1>2. PICK l \in Nat, m \in Nat : l = Len(List(path)) /\ m = Len(EntriesOf(path))
  BY <1>1, ListingFacts
<1>3. AtEntry(StartOf(inode.cluster), 0, DirOf(path), 0)
  BY <1>1, ListingFacts, EntriesStart
<1>4. Passed(path, 0, 0) /\ Between(DirOf(path), 0)
  <2>1. ASSUME NEW j \in 1 .. l PROVE ~ (At(path)[j] <= 0) /\ ~ (j <= 0)
    <3>1. At(path)[j] \in 1 .. m
      BY <1>1, <1>2, PlaceFacts
    <3> QED BY <3>1
  <2> QED BY <1>2, <2>1 DEF Passed, Between
<1>5. ListPos(StartOf(inode.cluster), 0, path, 0, 0)
  BY <1>2, <1>3, <1>4 DEF ListPos
<1>6. <<>> = SubSeq(List(path), 1, 0)
  BY <1>1, ListingFacts, Prefixes
<1>7. PICK f : f = [path |-> path, loc |-> StartOf(inode.cluster), index |-> 0,
                    listed |-> <<>>, complete |-> FALSE]
  OBVIOUS
<1>8. /\ f.path = path /\ f.loc = StartOf(inode.cluster) /\ f.index = 0
      /\ f.listed = <<>> /\ f.complete = FALSE
  BY <1>7
<1>9. OpenDir(f)
  BY <1>1, <1>5, <1>6, <1>7, <1>8 DEF OpenDir
<1> QED BY <1>7, <1>9

\* The lookups and the open of a path.
LEMMA OpenKeeps == ASSUME Inv, NEW path \in Paths, Open(path) PROVE Inv'
<1>1. Mounted /\ Ready /\ (file # CLOSED => OpenFile(file)) /\ (dir # CLOSED => OpenDir(dir))
  BY MountedIsReady DEF Open
<1>2. PICK walk : walk = Walk(path)
  OBVIOUS
<1>3. path \in Seq(Seq(Nat))
  BY Fat32Assumption
<1>4. Walked(walk, path)
  BY <1>1, <1>2, <1>3, WalkEffect
<1>5. CASE walk.status = "fatal"
  <2>1. Stop("lookup", 0)
    BY <1>2, <1>5 DEF Open
  <2>2. MayStop("lookup", 0)
    BY <1>1, <1>4, <1>5 DEF MayStop, Walked
  <2> QED BY <2>1, <2>2, StopKeeps
<1>6. CASE walk.status = "end"
  <2>1. Fail
    BY <1>2, <1>6 DEF Open
  <2> QED BY <1>1, <2>1, ReturnKeeps DEF Fail
<1>7. CASE walk.status = "entry"
  <2>1. PICK inode : inode = walk.inode
    OBVIOUS
  <2>2. IsInode(inode, path)
    BY <1>4, <1>7, <2>1 DEF Walked
  <2>3. CASE inode.is_dir
    <3>1. /\ dir' = [path |-> path, loc |-> StartOf(inode.cluster), index |-> 0,
                     listed |-> <<>>, complete |-> FALSE]
          /\ file' = file /\ volume' = volume /\ sb' = sb /\ panic' = panic
      BY <1>2, <1>7, <2>1, <2>3 DEF Open
    <3>2. OpenDir([path |-> path, loc |-> StartOf(inode.cluster), index |-> 0,
                   listed |-> <<>>, complete |-> FALSE])
      BY <1>1, <2>2, <2>3, OpensDir
    <3> QED BY <1>1, <3>1, <3>2, ReturnKeeps
  <2>4. CASE ~ inode.is_dir
    <3>1. /\ file' = [path |-> path, cluster |-> inode.cluster, size |-> inode.size, pos |-> 0,
                      loc |-> StartOf(inode.cluster), offset |-> 0]
          /\ dir' = dir /\ volume' = volume /\ sb' = sb /\ panic' = panic
      BY <1>2, <1>7, <2>1, <2>4 DEF Open
    <3>2. OpenFile([path |-> path, cluster |-> inode.cluster, size |-> inode.size, pos |-> 0,
                    loc |-> StartOf(inode.cluster), offset |-> 0])
      BY <1>1, <2>2, <2>4, OpensFile
    <3> QED BY <1>1, <3>1, <3>2, ReturnKeeps
  <2> QED BY <2>3, <2>4
<1> QED BY <1>4, <1>5, <1>6, <1>7 DEF Walked

\* _fat32_fs_reg_file_release, _fat32_fs_dir_release
LEMMA CloseKeeps == ASSUME Inv, Close PROVE Inv'
<1>1. Mounted
  BY DEF Close
<1>2. /\ file # CLOSED => OpenFile(file)
      /\ dir # CLOSED => OpenDir(dir)
  BY <1>1, MountedIsReady
<1>3. /\ volume' = volume /\ sb' = sb /\ panic' = panic
      /\ (file' = CLOSED /\ dir' = dir) \/ (file' = file /\ dir' = CLOSED)
  BY DEF Close
<1>4. CASE file' = CLOSED /\ dir' = dir
  BY <1>1, <1>2, <1>3, <1>4, ReturnKeeps
<1>5. CASE file' = file /\ dir' = CLOSED
  BY <1>1, <1>2, <1>3, <1>5, ReturnKeeps
<1> QED BY <1>3, <1>4, <1>5

\* The open file with another location and position.
Moved(loc, offset, pos) == [file EXCEPT !.loc = loc, !.offset = offset, !.pos = pos]

\* A file whose location moved is in order when the location is that of its position.
LEMMA CursorMoves ==
    ASSUME Ready, OpenFile(file), NEW loc, NEW offset \in 0 .. FAT32_SECTOR_SIZE, NEW pos,
           NEW n \in 0 .. Sectors(file.cluster) - 1, AtSector(loc, file.cluster, n),
           pos = n * FAT32_SECTOR_SIZE + offset
    PROVE  OpenFile(Moved(loc, offset, pos))
<1>1. PICK f : f = Moved(loc, offset, pos)
  OBVIOUS
<1>2. file = [path |-> file.path, cluster |-> file.cluster, size |-> file.size, pos |-> file.pos,
              loc |-> file.loc, offset |-> file.offset]
  BY DEF OpenFile
<1>3. f = [path |-> file.path, cluster |-> file.cluster, size |-> file.size, pos |-> pos,
           loc |-> loc, offset |-> offset]
  BY <1>1, <1>2 DEF Moved
<1>4. /\ f.path = file.path /\ f.cluster = file.cluster /\ f.size = file.size /\ f.pos = pos
      /\ f.loc = loc /\ f.offset = offset
  BY <1>3
<1>5. Cursor(f)
  BY <1>4 DEF Cursor
<1>6. OpenFile(f)
  BY <1>3, <1>4, <1>5 DEF OpenFile
<1> QED BY <1>1, <1>6

\* _fat32_fs_reg_file_read
LEMMA ReadKeeps == ASSUME Inv, NEW size \in ReadSizes, Read(size) PROVE Inv'
<1>1. Mounted /\ Ready /\ OpenFile(file) /\ (dir # CLOSED => OpenDir(dir))
  BY MountedIsReady DEF Read
<1>2. PICK r : r = ReadLoop(size)
  OBVIOUS
<1>3. size \in Nat
  BY Fat32Assumption
<1>4. /\ ReadOk(r, file.cluster, file.pos, size, Rest(file))
      /\ file.pos <= file.size => InFile(r, file.cluster, file.pos)
  BY <1>1, <1>2, <1>3, ReadEffect
<1>5. CASE r.loc = NOWHERE
  <2>1. Stop("read", file.pos)
    BY <1>2, <1>5 DEF Read
  <2>2. ~ (file.pos <= file.size)
    BY <1>4, <1>5 DEF InFile
  <2>3. file.pos > file.size
    BY <1>1, <2>2, FileFacts
  <2>4. MayStop("read", file.pos)
    BY <2>3 DEF MayStop
  <2> QED BY <2>1, <2>4, StopKeeps
<1>6. CASE r.loc # NOWHERE
  <2>1. /\ file' = [file EXCEPT !.loc = r.loc, !.offset = r.offset, !.pos = @ + Len(r.data)]
        /\ volume' = volume /\ sb' = sb /\ dir' = dir /\ panic' = panic
    BY <1>2, <1>6 DEF Read
  <2>2. PICK n \in Nat : /\ AtSector(r.loc, file.cluster, n)
                         /\ file.pos + Len(r.data) = n * FAT32_SECTOR_SIZE + r.offset
    BY <1>4, <1>6 DEF ReadOk
  <2>3. n \in 0 .. Sectors(file.cluster) - 1
    BY <1>1, <2>2, FileFacts, AtSectorFacts
  <2>4. r.offset \in 0 .. FAT32_SECTOR_SIZE
    BY <1>4 DEF ReadOk
  <2>5. PICK pos : pos = file.pos + Len(r.data)
    OBVIOUS
  <2>6. OpenFile(Moved(r.loc, r.offset, pos))
    BY <1>1, <2>2, <2>3, <2>4, <2>5, CursorMoves
  <2>7. file' = Moved(r.loc, r.offset, pos)
    BY <2>1, <2>5 DEF Moved
  <2> QED BY <1>1, <2>1, <2>6, <2>7, ReturnKeeps
<1> QED BY <1>5, <1>6

\* _fat32_fs_reg_file_seek
LEMMA SeekKeeps ==
    ASSUME Inv, NEW offset \in Offsets, NEW whence \in Whences, Seek(offset, whence)
    PROVE  Inv'
<1>1. Mounted /\ Ready /\ OpenFile(file) /\ (dir # CLOSED => OpenDir(dir))
  BY MountedIsReady DEF Seek
<1>2. PICK reference : reference = CASE whence = "SEEK_SET" -> 0
                                     [] whence = "SEEK_END" -> file.size
                                     [] OTHER -> file.pos
  OBVIOUS
<1>3. reference \in Nat /\ offset \in Int
  <2>1. file.size \in Nat /\ file.pos \in Nat
    BY <1>1, FileFacts
  <2> QED BY <1>2, <2>1, Fat32Assumption
<1>4. PICK new_pos \in Int : new_pos = reference + offset
  BY <1>3
<1>5. PICK total : total = file.offset + new_pos - file.pos
  OBVIOUS
<1>6. PICK loc : loc = SeekLoc(total \div FAT32_SECTOR_SIZE)
  OBVIOUS
<1>7. /\ total % FAT32_SECTOR_SIZE \in 0 .. FAT32_SECTOR_SIZE
      /\ loc # NOWHERE =>
            \E n \in 0 .. Sectors(file.cluster) - 1 :
                /\ AtSector(loc, file.cluster, n)
                /\ new_pos = n * FAT32_SECTOR_SIZE + (total % FAT32_SECTOR_SIZE)
      /\ new_pos \in 0 .. Sectors(file.cluster) * FAT32_SECTOR_SIZE - 1 => loc # NOWHERE
  BY <1>1, <1>5, <1>6, SeekEffect
<1>8. IF whence = "INVALID" THEN Stop("whence", 0)
      ELSE IF new_pos = file.pos
      THEN ret' = Returned(new_pos, <<>>) /\ UNCHANGED <<volume, sb, file, dir, panic>>
      ELSE IF loc = NOWHERE THEN Stop("seek", new_pos)
      ELSE /\ file' = [file EXCEPT !.loc = loc, !.pos = new_pos,
                                   !.offset = OffsetInSector(total)]
           /\ ret' = Returned(new_pos, <<>>) /\ UNCHANGED <<volume, sb, dir, panic>>
  BY <1>2, <1>4, <1>5, <1>6, Zenon DEF Seek, SeekLoc
<1>9. CASE whence = "INVALID"
  <2>1. Stop("whence", 0) /\ MayStop("whence", 0)
    BY <1>8, <1>9 DEF MayStop
  <2> QED BY <2>1, StopKeeps
<1>10. CASE whence # "INVALID" /\ new_pos = file.pos
  <2>1. volume' = volume /\ sb' = sb /\ file' = file /\ dir' = dir /\ panic' = panic
    BY <1>8, <1>10
  <2> QED BY <1>1, <2>1, ReturnKeeps
<1>11. CASE whence # "INVALID" /\ new_pos # file.pos /\ loc = NOWHERE
  <2>1. Stop("seek", new_pos)
    BY <1>8, <1>11
  <2>2. Allocated(file.cluster) = Sectors(file.cluster) * FAT32_SECTOR_SIZE
    BY <1>1, FileFacts, AllocatedIs
  <2>3. new_pos \notin 0 .. Allocated(file.cluster) - 1
    BY <1>7, <1>11, <2>2
  <2>4. MayStop("seek", new_pos)
    BY <2>3 DEF MayStop
  <2> QED BY <2>1, <2>4, StopKeeps
<1>12. CASE whence # "INVALID" /\ new_pos # file.pos /\ loc # NOWHERE
  <2>1. PICK o \in 0 .. FAT32_SECTOR_SIZE : o = total % FAT32_SECTOR_SIZE
    BY <1>7
  <2>2. /\ file' = [file EXCEPT !.loc = loc, !.pos = new_pos, !.offset = o]
        /\ volume' = volume /\ sb' = sb /\ dir' = dir /\ panic' = panic
    BY <1>8, <1>12, <2>1 DEF OffsetInSector
  <2>3. PICK n \in 0 .. Sectors(file.cluster) - 1 :
          AtSector(loc, file.cluster, n) /\ new_pos = n * FAT32_SECTOR_SIZE + o
    BY <1>7, <1>12, <2>1
  <2>4. OpenFile(Moved(loc, o, new_pos))
    BY <1>1, <2>1, <2>3, CursorMoves
  <2>5. [file EXCEPT !.loc = loc, !.pos = new_pos, !.offset = o] = Moved(loc, o, new_pos)
    BY DEF Moved
  <2> QED BY <1>1, <2>2, <2>4, <2>5, ReturnKeeps
<1> QED BY <1>9, <1>10, <1>11, <1>12

\* The open directory with another location and more files listed.
ListedOn(loc, index, listed, complete) ==
    [dir EXCEPT !.loc = loc, !.index = index, !.listed = listed, !.complete = complete]

\* Its fields.
LEMMA DirUpdate ==
    ASSUME NEW loc, NEW index, NEW listed, NEW complete, OpenDir(dir)
    PROVE  ListedOn(loc, index, listed, complete)
             = [path |-> dir.path, loc |-> loc, index |-> index, listed |-> listed,
                complete |-> complete]
<1>1. PICK p, o, x, s, e : dir = [path |-> p, loc |-> o, index |-> x, listed |-> s, complete |-> e]
  BY DEF OpenDir
<1>2. PICK d : d = [dir EXCEPT !.loc = loc, !.index = index]
  OBVIOUS
<1>3. d = [path |-> p, loc |-> loc, index |-> index, listed |-> s, complete |-> e]
  BY <1>1, <1>2
<1>4. PICK f : f = [d EXCEPT !.listed = listed]
  OBVIOUS
<1>5. f = [path |-> p, loc |-> loc, index |-> index, listed |-> listed, complete |-> e]
  BY <1>3, <1>4
<1>6. [f EXCEPT !.complete = complete]
        = [path |-> p, loc |-> loc, index |-> index, listed |-> listed, complete |-> complete]
  BY <1>5
<1>7. ListedOn(loc, index, listed, complete) = [f EXCEPT !.complete = complete]
  BY <1>2, <1>4, Zenon DEF ListedOn
<1>8. dir.path = p
  BY <1>1
<1> QED BY <1>6, <1>7, <1>8, Zenon

\* _fat32_fs_dir_readdir
LEMMA ReaddirKeeps == ASSUME Inv, NEW count \in ReadSizes, Readdir(count) PROVE Inv'
<1>1. Mounted /\ Ready /\ OpenDir(dir) /\ (file # CLOSED => OpenFile(file))
  BY MountedIsReady DEF Readdir
<1>2. PICK r : r = ReaddirLoop(count)
  OBVIOUS
<1>3. count \in Nat
  BY Fat32Assumption
<1>4. Listing(r, dir.path, dir.listed)
  BY <1>1, <1>2, <1>3, ReaddirEffect
<1>5. CASE r.status = "fatal"
  <2>1. Stop("readdir", 0)
    BY <1>2, <1>5 DEF Readdir
  <2>2. FullDir
    BY <1>4, <1>5 DEF Listing, Lists
  <2>3. MayStop("readdir", 0)
    BY <1>1, <2>2 DEF MayStop
  <2> QED BY <2>1, <2>3, StopKeeps
<1>7. CASE r.status = "overrun"
  <2>1. Stop("overrun", 0)
    BY <1>2, <1>7 DEF Readdir
  <2>2. LongListed(dir.path)
    BY <1>4, <1>7 DEF Listing, Lists
  <2>3. MayStop("overrun", 0)
    BY <1>1, <2>2 DEF MayStop
  <2> QED BY <2>1, <2>3, StopKeeps
<1>6. CASE r.status \notin {"fatal", "overrun"}
  <2>1. /\ dir' = [dir EXCEPT !.loc = r.loc, !.index = r.index, !.listed = @ \o r.listed,
                              !.complete = r.status = "end"]
        /\ volume' = volume /\ sb' = sb /\ file' = file /\ panic' = panic
    BY <1>2, <1>6 DEF Readdir
  <2>2. PICK q \in Nat, i \in Nat : Lists(r, dir.path, dir.listed, q, i)
    BY <1>4, <1>6 DEF Listing
  <2>3. PICK listed, complete : listed = dir.listed \o r.listed /\ complete = (r.status = "end")
    OBVIOUS
  <2>4. PICK d : d = [path |-> dir.path, loc |-> r.loc, index |-> r.index, listed |-> listed,
                      complete |-> complete]
    OBVIOUS
  <2>5. dir = [path |-> dir.path, loc |-> dir.loc, index |-> dir.index, listed |-> dir.listed,
               complete |-> dir.complete] /\ dir.path \in DOMAIN volume.listing
    BY <1>1 DEF OpenDir
  <2>6. dir' = d
    <3>1. dir' = ListedOn(r.loc, r.index, listed, complete)
      BY <2>1, <2>3 DEF ListedOn
    <3>2. PICK loc, index : loc = r.loc /\ index = r.index
      OBVIOUS
    <3>3. OpenDir(dir)
      BY <1>1
    <3>4. ListedOn(loc, index, listed, complete)
            = [path |-> dir.path, loc |-> loc, index |-> index, listed |-> listed,
               complete |-> complete]
      BY <3>3, DirUpdate
    <3>5. d = ListedOn(loc, index, listed, complete)
      BY <2>4, <3>2, <3>4
    <3> QED BY <3>1, <3>2, <3>5
  <2>7. /\ d.path = dir.path /\ d.loc = r.loc /\ d.index = r.index /\ d.listed = listed
        /\ d.complete = complete
    BY <2>4
  <2>8. /\ ListPos(r.loc, r.index, dir.path, q, i) /\ listed = SubSeq(List(dir.path), 1, i)
        /\ complete => i = Len(List(dir.path))
    BY <2>2, <2>3 DEF Lists
  <2>9. OpenDir(d)
    BY <2>4, <2>5, <2>7, <2>8 DEF OpenDir
  <2> QED BY <1>1, <2>1, <2>6, <2>9, ReturnKeeps
<1> QED BY <1>5, <1>6, <1>7

\* The invariant holds after every step.
LEMMA NextKeeps == ASSUME Inv, [Next]_vars PROVE Inv'
<1>1. CASE UNCHANGED vars
  <2>1. volume' = volume /\ sb' = sb /\ file' = file /\ dir' = dir /\ panic' = panic
    BY <1>1 DEF vars
  <2>2. FileOk' /\ DirOk'
    BY <2>1, FileAfter, DirAfter DEF Inv, FileOk, DirOk
  <2>3. StopsOnlyOutside'
    BY <2>1 DEF Inv, StopsOnlyOutside, Allocated, ChainOf, ClusterSize
  <2> QED BY <2>1, <2>2, <2>3 DEF Inv
<1>2. CASE Mount
  BY <1>2, MountKeeps
<1>3. CASE Close
  BY <1>3, CloseKeeps
<1>4. CASE NotImplemented
  <2>1. Stop("not_implemented", 0) /\ MayStop("not_implemented", 0)
    BY <1>4 DEF NotImplemented, MayStop
  <2> QED BY <2>1, StopKeeps
<1>5. CASE Reboot
  <2>1. /\ sb' = NOT_MOUNTED /\ file' = CLOSED /\ dir' = CLOSED /\ panic' = RUNNING
        /\ volume' = volume
    BY <1>5 DEF Reboot
  <2>2. StopsOnlyOutside'
    BY <2>1 DEF RUNNING, StopsOnlyOutside
  <2> QED BY <2>1, <2>2 DEF Inv, FileOk, DirOk
<1>6. ASSUME NEW path \in Paths, Open(path) PROVE Inv'
  BY <1>6, OpenKeeps
<1>7. ASSUME NEW size \in ReadSizes, Read(size) PROVE Inv'
  BY <1>7, ReadKeeps
<1>8. ASSUME NEW size \in ReadSizes, Readdir(size) PROVE Inv'
  BY <1>8, ReaddirKeeps
<1>9. ASSUME NEW offset \in Offsets, NEW whence \in Whences, Seek(offset, whence) PROVE Inv'
  BY <1>9, SeekKeeps
<1> QED BY <1>1, <1>2, <1>3, <1>4, <1>5, <1>6, <1>7, <1>8, <1>9 DEF Next

\* The invariant holds initially.
LEMMA InitInv == ASSUME Init PROVE Inv
BY DEF Init, Inv, FileOk, DirOk, StopsOnlyOutside, RUNNING

-----------------------------------------------------------------------------
(* Theorems                                                                *)

\* On every volume and after every sequence of calls, Inv holds.
THEOREM Invariance == Spec => []Inv
<1>1. Init => Inv
  BY InitInv
<1>2. Inv /\ [Next]_vars => Inv'
  BY NextKeeps
<1> QED BY <1>1, <1>2, PTL DEF Spec

\* A file is open only while the file system is mounted.
LEMMA OpenIsReady ==
    ASSUME Inv, file # CLOSED \/ dir # CLOSED
    PROVE  Ready
BY DEF Inv, Ready

\* The indices of a chain.
LEMMA ChainDomain ==
    ASSUME Ready, NEW c, HasChain(c)
    PROVE  DOMAIN ChainOf(c) = 1 .. Len(ChainOf(c))
<1>1. CASE c = 0
  BY <1>1 DEF ChainOf
<1>2. CASE c # 0
  <2>1. c \in DOMAIN volume.chains /\ ChainOf(c) = volume.chains[c]
    BY <1>2 DEF HasChain, ChainOf
  <2> QED BY <2>1, ChainFacts
<1> QED BY <1>1, <1>2

\* The invariant has the cursor at the position.
LEMMA InvCursor == ASSUME Inv PROVE CursorMatchesPos
<1>1. SUFFICES ASSUME file # CLOSED
               PROVE  LET chain == ChainOf(file.cluster) IN
                      /\ file.loc.start_cluster = file.cluster
                      /\ file.loc.sector_index \in 0 .. sb.sectors_per_cluster - 1
                      /\ file.offset \in 0 .. FAT32_SECTOR_SIZE
                      /\ \E k \in DOMAIN chain :
                            /\ chain[k] = file.loc.cluster
                            /\ file.pos = (k - 1) * ClusterSize
                                 + file.loc.sector_index * FAT32_SECTOR_SIZE + file.offset
  BY DEF CursorMatchesPos
<1>2. Ready /\ OpenFile(file)
  BY <1>1, OpenIsReady DEF Inv, FileOk
<1>3. PICK n \in 0 .. Sectors(file.cluster) - 1 :
        AtSector(file.loc, file.cluster, n) /\ file.pos = n * FAT32_SECTOR_SIZE + file.offset
  BY <1>2 DEF OpenFile, Cursor
<1>4. PICK k \in 1 .. Len(ChainOf(file.cluster)), i \in 0 .. volume.sectors_per_cluster - 1 :
        /\ file.loc = [start_cluster |-> file.cluster, cluster |-> ChainOf(file.cluster)[k],
                       sector_index |-> i]
        /\ n = (k - 1) * volume.sectors_per_cluster + i
  BY <1>3 DEF AtSector
<1>5. /\ file.loc.start_cluster = file.cluster /\ file.loc.sector_index = i
      /\ file.loc.cluster = ChainOf(file.cluster)[k]
  BY <1>4
<1>6. PICK p \in Nat, s \in Nat, l \in Nat, o \in Nat :
        /\ p = volume.sectors_per_cluster /\ s = FAT32_SECTOR_SIZE
        /\ l = Len(ChainOf(file.cluster)) /\ o = file.offset
  <2>1. /\ volume.sectors_per_cluster \in Nat /\ FAT32_SECTOR_SIZE \in Nat
        /\ Len(ChainOf(file.cluster)) \in Nat /\ file.offset \in Nat
    BY <1>2, FileFacts, ChainOfFacts, Numbers, Constants DEF Pos
  <2> QED BY <2>1, Zenon
<1>7. PICK h \in Int : h = k - 1
  BY <1>4, <1>6
<1>8. i \in Int
  BY <1>4, <1>6
<1>9. (h * p + i) * s = h * (p * s) + i * s
  BY <1>8
<1>10. file.pos = (h * p + i) * s + o
  BY <1>3, <1>4, <1>6, <1>7
<1>11. file.pos = (k - 1) * ClusterSize + file.loc.sector_index * FAT32_SECTOR_SIZE + file.offset
  BY <1>5, <1>6, <1>7, <1>9, <1>10 DEF ClusterSize
<1>12. k \in DOMAIN ChainOf(file.cluster)
  BY <1>2, FileFacts, ChainDomain
<1>13. file.offset \in 0 .. FAT32_SECTOR_SIZE /\ sb.sectors_per_cluster = volume.sectors_per_cluster
  BY <1>2, Numbers DEF OpenFile
<1> QED BY <1>4, <1>5, <1>11, <1>12, <1>13

\* The invariant has the listing in order.
LEMMA InvListing == ASSUME Inv PROVE ListingComplete
<1>1. SUFFICES ASSUME dir # CLOSED
               PROVE  /\ \E n \in 0 .. Len(List(dir.path)) : dir.listed = SubSeq(List(dir.path), 1, n)
                      /\ dir.complete => dir.listed = List(dir.path)
  BY DEF ListingComplete, List
<1>2. Ready /\ OpenDir(dir)
  BY <1>1, OpenIsReady DEF Inv, DirOk
<1>3. PICK q \in Nat, i \in Nat :
        /\ ListPos(dir.loc, dir.index, dir.path, q, i)
        /\ dir.listed = SubSeq(List(dir.path), 1, i)
        /\ dir.complete => i = Len(List(dir.path))
  BY <1>2 DEF OpenDir
<1>4. i \in 0 .. Len(List(dir.path))
  BY <1>3 DEF ListPos
<1>5. PICK list \in Seq(Dirents) : list = List(dir.path)
  BY <1>2, ListingFacts DEF OpenDir, Dirents
<1>6. SubSeq(list, 1, Len(list)) = list
  BY Prefixes
<1> QED BY <1>3, <1>4, <1>5, <1>6

\* After any sequence of reads and seeks, on every volume, the location that
\* _fat32_fs_reg_file_read and _fat32_fs_reg_file_seek move along the chain is the
\* place of the position.
THEOREM CursorHolds == Spec => []CursorMatchesPos
<1>1. Inv => CursorMatchesPos
  BY InvCursor
<1> QED BY <1>1, Invariance, PTL

\* No call inside a file follows the FAT to the end of its chain, and the
\* iterator leaves a directory only when it has no end entry.
THEOREM StopsHold == Spec => []StopsOnlyOutside
<1>1. Inv => StopsOnlyOutside
  BY DEF Inv
<1> QED BY <1>1, Invariance, PTL

\* Calls of _fat32_fs_dir_readdir list the files of the directory once each, in
\* order and under their names.
THEOREM ListingHolds == Spec => []ListingComplete
<1>1. Inv => ListingComplete
  BY InvListing
<1> QED BY <1>1, Invariance, PTL

\* What an open of a path finds.
LEMMA Resolves ==
    ASSUME Inv, NEW path \in Paths, Open(path), panic' = RUNNING
    PROVE  /\ ret' = IF path \in DOMAIN volume.tree THEN Done ELSE Failed
           /\ file' # file /\ file' # CLOSED =>
                 [cluster |-> file'.cluster, size |-> file'.size] = volume.tree[path]
<1>1. Mounted /\ Ready
  BY MountedIsReady DEF Open
<1>2. PICK walk : walk = Walk(path)
  OBVIOUS
<1>3. path \in Seq(Seq(Nat))
  BY Fat32Assumption
<1>4. Walked(walk, path)
  BY <1>1, <1>2, <1>3, WalkEffect
<1>5. CASE walk.status = "fatal"
  <2>1. Stop("lookup", 0)
    BY <1>2, <1>5 DEF Open
  <2> QED BY <2>1 DEF Stop, RUNNING
<1>6. CASE walk.status = "end"
  <2>1. Fail
    BY <1>2, <1>6 DEF Open
  <2>2. path \notin DOMAIN volume.tree
    BY <1>4, <1>6 DEF Walked
  <2> QED BY <2>1, <2>2 DEF Fail
<1>7. CASE walk.status = "entry"
  <2>1. PICK inode : inode = walk.inode
    OBVIOUS
  <2>2. /\ path \in DOMAIN volume.tree
        /\ volume.tree[path] = [cluster |-> inode.cluster, size |-> inode.size]
    BY <1>4, <1>7, <2>1 DEF Walked, IsInode
  <2>3. ret' = Done
    BY <1>2, <1>7 DEF Open
  <2>4. CASE inode.is_dir
    <3>1. file' = file
      BY <1>2, <1>7, <2>1, <2>4 DEF Open
    <3> QED BY <2>2, <2>3, <3>1
  <2>5. CASE ~ inode.is_dir
    <3>1. file' = [path |-> path, cluster |-> inode.cluster, size |-> inode.size, pos |-> 0,
                   loc |-> StartOf(inode.cluster), offset |-> 0]
      BY <1>2, <1>7, <2>1, <2>5 DEF Open
    <3>2. file'.cluster = inode.cluster /\ file'.size = inode.size
      BY <3>1
    <3> QED BY <2>2, <2>3, <3>2
  <2> QED BY <2>4, <2>5
<1> QED BY <1>4, <1>5, <1>6, <1>7 DEF Walked

\* A path is found exactly when the volume has it, through any number of
\* directories (_fat32fs_inode_lookup).
THEOREM PathsHold == Spec => PathsResolve
<1> DEFINE Resolved ==
        \A path \in Paths :
            Open(path) /\ panic' = RUNNING =>
                /\ ret' = IF path \in DOMAIN volume.tree THEN Done ELSE Failed
                /\ file' # file /\ file' # CLOSED =>
                      [cluster |-> file'.cluster, size |-> file'.size] = volume.tree[path]
<1>1. Inv /\ [Next]_vars => Resolved
  BY Resolves
<1>2. PathsResolve <=> [][Resolved]_vars
  BY PTL DEF PathsResolve
<1> QED BY <1>1, <1>2, Invariance, PTL DEF Spec

\* A part of a sequence.
LEMMA SliceIs ==
    ASSUME NEW T, NEW bytes \in Seq(T), NEW U, NEW data \in Seq(U), NEW a \in Nat, NEW b \in Nat,
           a <= b, b <= Len(bytes), a + Len(data) = b,
           \A i \in 1 .. Len(data) : data[i] = bytes[a + i]
    PROVE  data = SubSeq(bytes, a + 1, b)
<1>1. PICK l \in Nat : l = Len(data)
  OBVIOUS
<1>2. PICK s : s = SubSeq(bytes, a + 1, b)
  OBVIOUS
<1>3. s \in Seq(T) /\ Len(s) = l /\ \A i \in 1 .. l : s[i] = bytes[a + i]
  <2>1. \A i \in 1 .. l : a + i \in 1 .. Len(bytes) /\ (a + 1) + i - 1 = a + i
    BY <1>1
  <2>2. b - (a + 1) + 1 = l /\ a + 1 \in 1 .. Len(bytes) + 1
    BY <1>1
  <2>3. PICK c \in Nat, h \in Nat :
            c = a + 1 /\ h = Len(bytes) /\ c >= 1 /\ b <= h /\ c <= b + 1 /\ b - c + 1 = l
    <3>1. PICK h \in Nat : h = Len(bytes)
      OBVIOUS
    <3>2. b <= h /\ a + l = b
      BY <1>1, <3>1
    <3>3. PICK c \in Nat : c = a + 1
      OBVIOUS
    <3>4. c >= 1 /\ c <= b + 1 /\ b - c + 1 = l
      BY <3>2, <3>3
    <3> QED BY <3>1, <3>2, <3>3, <3>4, Zenon
  <2>4. s = SubSeq(bytes, c, b)
    BY <1>2, <2>3
  <2>5. s \in Seq(T)
    BY <2>3, <2>4
  <2>6. Len(s) = b - c + 1 /\ \A i \in 1 .. b - c + 1 : s[i] = bytes[c + i - 1]
    BY <2>3, <2>4
  <2>7. \A i \in 1 .. l : c + i - 1 = a + i
    BY <2>3
  <2>8. Len(s) = l /\ \A i \in 1 .. l : s[i] = bytes[c + i - 1]
    BY <2>3, <2>6, Zenon
  <2> QED BY <2>5, <2>7, <2>8, Zenon
<1>4. DOMAIN s = 1 .. l /\ DOMAIN data = 1 .. l
  BY <1>1, <1>3
<1> QED BY <1>1, <1>2, <1>3, <1>4

\* The bytes of a file, as a sequence.
LEMMA ContentsFacts ==
    ASSUME Ready, OpenFile(file)
    PROVE  LET bytes == Contents(file.path) IN
           /\ bytes \in Seq({FileByte(file.cluster, i) : i \in 1 .. file.size})
           /\ Len(bytes) = file.size
           /\ \A i \in 1 .. file.size : bytes[i] = FileByte(file.cluster, i)
<1>1. volume.tree[file.path] = [cluster |-> file.cluster, size |-> file.size]
  BY DEF OpenFile
<1>2. volume.tree[file.path].cluster = file.cluster /\ volume.tree[file.path].size = file.size
  BY <1>1
<1>3. Contents(file.path) = [i \in 1 .. file.size |-> FileByte(file.cluster, i)]
  BY <1>2, Zenon DEF Contents, FileByte
<1>4. PICK c, z : z = file.size /\ c = file.cluster /\ z \in Nat
  BY FileFacts
<1>5. PICK T : T = {FileByte(c, i) : i \in 1 .. z}
  OBVIOUS
<1>6. PICK bytes : bytes = [i \in 1 .. z |-> FileByte(c, i)]
  OBVIOUS
<1>7. bytes \in [1 .. z -> T] /\ \A i \in 1 .. z : bytes[i] = FileByte(c, i)
  BY <1>5, <1>6
<1>8. bytes \in Seq(T) /\ Len(bytes) = z
  BY <1>4, <1>7, FunctionIsSeq, Zenon
<1>9. Contents(file.path) = bytes
  BY <1>3, <1>4, <1>6, Zenon
<1>10. T = {FileByte(file.cluster, i) : i \in 1 .. file.size}
  BY <1>4, <1>5, Zenon
<1>11. \A i \in 1 .. file.size : bytes[i] = FileByte(file.cluster, i)
  BY <1>4, <1>7, Zenon
<1> QED BY <1>4, <1>8, <1>9, <1>10, <1>11, Zenon

\* What a read in a file returns.
LEMMA Returns ==
    ASSUME Inv, NEW size \in ReadSizes, Read(size), panic' = RUNNING, file.pos <= file.size
    PROVE  LET bytes == Contents(file.path)
               end == MinOf(file.pos + size, Len(bytes))
           IN  ret'.data = SubSeq(bytes, file.pos + 1, end) /\ file'.pos = end
<1>1. Mounted /\ Ready /\ OpenFile(file)
  BY MountedIsReady DEF Read
<1>2. PICK r : r = ReadLoop(size)
  OBVIOUS
<1>3. size \in Nat
  BY Fat32Assumption
<1>4. /\ ReadOk(r, file.cluster, file.pos, size, Rest(file)) /\ ReadEnds(r)
      /\ InFile(r, file.cluster, file.pos)
  BY <1>1, <1>2, <1>3, ReadEffect
<1>5. r.loc # NOWHERE /\ \A i \in 1 .. Len(r.data) : r.data[i] = FileByte(file.cluster, file.pos + i)
  BY <1>4 DEF InFile
<1>6. PICK f : f = file /\ f.pos = file.pos
  OBVIOUS
<1>7. /\ file' = [file EXCEPT !.loc = r.loc, !.offset = r.offset, !.pos = @ + Len(r.data)]
      /\ ret' = Returned(Len(r.data), r.data)
  BY <1>2, <1>5 DEF Read
<1>8. ret'.data = r.data
  BY <1>7 DEF Returned
<1>9. file'.pos = file.pos + Len(r.data)
  <2>1. PICK pos : pos = file.pos + Len(r.data)
    OBVIOUS
  <2>2. file' = Moved(r.loc, r.offset, pos)
    BY <1>7, <2>1 DEF Moved
  <2>3. PICK p, c, z, o, l, x : file = [path |-> p, cluster |-> c, size |-> z, pos |-> o,
                                        loc |-> l, offset |-> x]
    BY <1>1 DEF OpenFile
  <2>4. file'.pos = pos
    BY <2>2, <2>3 DEF Moved
  <2> QED BY <2>1, <2>4
<1>10. PICK p \in Nat, z \in Nat : p = file.pos /\ z = file.size
  BY <1>1, FileFacts
<1>11. Rest(file) = file.size - file.pos
  BY <1>1, <1>3, StartsOk
<1>12. PICK data \in Seq(Nat), l \in Nat, m \in Nat, k \in Nat :
         /\ data = r.data /\ l = Len(data) /\ m = r.size /\ k = r.remain
         /\ l + m = size /\ l + k = Rest(file)
  <2>1. /\ r.data \in Seq(Nat) /\ Len(r.data) \in Nat /\ r.size \in Nat /\ r.remain \in Nat
        /\ Len(r.data) + r.size = size /\ Len(r.data) + r.remain = Rest(file)
    BY <1>4, ReadFacts
  <2> QED BY <2>1, Zenon
<1>13. m = 0 \/ k = 0
  BY <1>4, <1>5, <1>12 DEF ReadEnds
<1>14. l + k = z - p
  BY <1>10, <1>11, <1>12
<1>15. PICK b \in Nat : b = p + l /\ p <= b /\ b <= z /\ b = MinOf(p + size, z)
  <2>1. l + m = size
    BY <1>12
  <2> QED BY <1>3, <1>13, <1>14, <2>1 DEF MinOf
<1>16. PICK bytes, T : /\ bytes = Contents(file.path) /\ bytes \in Seq(T) /\ Len(bytes) = z
                       /\ \A i \in 1 .. z : bytes[i] = FileByte(file.cluster, i)
  BY <1>1, <1>10, ContentsFacts, Zenon
<1>17. ASSUME NEW i \in 1 .. l PROVE data[i] = bytes[p + i]
  <2>1. p + i \in 1 .. z /\ i \in 1 .. l
    BY <1>15
  <2>2. bytes[p + i] = FileByte(file.cluster, p + i)
    BY <1>16, <2>1
  <2>3. data[i] = FileByte(file.cluster, p + i)
    BY <1>5, <1>10, <1>12, <2>1
  <2> QED BY <2>2, <2>3
<1>18. data = SubSeq(bytes, p + 1, b)
  BY <1>12, <1>15, <1>16, <1>17, SliceIs
<1>19. MinOf(file.pos + size, Len(bytes)) = b /\ file'.pos = b
  BY <1>9, <1>10, <1>12, <1>15, <1>16
<1> QED BY <1>8, <1>10, <1>12, <1>16, <1>18, <1>19

\* A read at a position in a file returns the bytes of the file there, over
\* sectors and clusters, wherever the clusters are on the volume.
THEOREM ReadsHold == Spec => ReadsFile
<1> DEFINE Reads ==
        \A size \in ReadSizes :
            Read(size) /\ panic' = RUNNING /\ file.pos <= file.size =>
                LET bytes == Contents(file.path)
                    end == MinOf(file.pos + size, Len(bytes))
                IN  ret'.data = SubSeq(bytes, file.pos + 1, end) /\ file'.pos = end
<1>1. Inv /\ [Next]_vars => Reads
  BY Returns
<1>2. ReadsFile <=> [][Reads]_vars
  BY PTL DEF ReadsFile
<1> QED BY <1>1, <1>2, Invariance, PTL DEF Spec

=============================================================================

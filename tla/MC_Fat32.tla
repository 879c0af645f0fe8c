------------------------------ MODULE MC_Fat32 ------------------------------
(* Fat32 for TLC: sectors of 2 bytes or 2 entries, clusters of 2 sectors.     *)
EXTENDS Fat32, TLC

A == 65
B == 66
a == 97
b == 98

\* Entries as mkfs.fat and mtools write them: a short name, its directory, the
\* parts of a long name (the last one first) before the short name.
Sfn(name, ext, attributes, cluster, size) ==
    [first |-> "NAME", attributes |-> attributes, name |-> name, ext |-> ext,
     name_lower |-> FALSE, ext_lower |-> FALSE, cluster |-> cluster, size |-> size]
SfnLower(name, ext, cluster, size) ==
    [Sfn(name, ext, {"ARCHIVE"}, cluster, size) EXCEPT !.name_lower = TRUE, !.ext_lower = TRUE]
Dot(cluster) == [Sfn(<<46>>, <<>>, {"DIRECTORY"}, cluster, 0) EXCEPT !.first = "DOT"]
Gone == [Sfn(<<B>>, <<>>, {"ARCHIVE"}, 3, 1) EXCEPT !.first = "DELETED"]
Part(seq, last, cars) ==
    [first |-> "SEQ", attributes |-> LFN, seq |-> seq, last |-> last, part |-> cars]

Listed(name, is_dir) == [name |-> name, is_dir |-> is_dir]
Inode(cluster, size) == [cluster |-> cluster, size |-> size]

\* The root directory takes two clusters that are not neighbours; the long name
\* "aba" has its parts on both sides of a cluster boundary, and one of its
\* characters is no char. A file fills its
\* clusters, which are not in order, up to the last byte; one is empty; one is
\* in a directory.
Scattered ==
    [blocks |-> 24, bytes_per_sector |-> 2, table_size_16 |-> 0,
     reserved |-> 2, fat_count |-> 2, table_size |-> 4, sectors_per_cluster |-> 2, root |-> 2,
     chains |-> (2 :> <<2, 7>>) @@ (3 :> <<3>>) @@ (6 :> <<6, 4, 5>>),
     dirs |-> (2 :> << Sfn(<<B, B>>, <<>>, {"DIRECTORY"}, 3, 0), Gone,
                       SfnLower(<<A, B>>, <<B, A>>, 6, 12), Part(2, TRUE, <<a, 0>>),
                       Part(1, FALSE, <<256 + a, b>>), Sfn(<<A, B>>, <<>>, {"ARCHIVE"}, 0, 0) >>)
              @@ (3 :> << Dot(3), Dot(2) >>),
     tree |-> (<<>> :> Inode(2, 0)) @@ (<< <<B, B>> >> :> Inode(3, 0)) @@ (<< <<a, b, 46, b, a>> >> :> Inode(6, 12))
              @@ (<< <<a, b, a>> >> :> Inode(0, 0)),
     listing |-> (<<>> :> << Listed(<<B, B>>, TRUE), Listed(<<a, b, 46, b, a>>, FALSE),
                             Listed(<<a, b, a>>, FALSE) >>)
                 @@ (<< <<B, B>> >> :> <<>>)]

\* One copy of the FAT, a file that ends inside its second sector, and a
\* subdirectory whose entries fill its cluster: it has no end entry.
Full ==
    [blocks |-> 16, bytes_per_sector |-> 2, table_size_16 |-> 0,
     reserved |-> 1, fat_count |-> 1, table_size |-> 4, sectors_per_cluster |-> 2, root |-> 2,
     chains |-> (2 :> <<2>>) @@ (3 :> <<3>>) @@ (4 :> <<4>>),
     dirs |-> (2 :> << Sfn(<<B, B>>, <<>>, {"DIRECTORY"}, 3, 0) >>)
              @@ (3 :> << Dot(3), Dot(2), Gone, Sfn(<<A>>, <<>>, {"ARCHIVE"}, 4, 3) >>),
     tree |-> (<<>> :> Inode(2, 0)) @@ (<< <<B, B>> >> :> Inode(3, 0)) @@ (<< <<B, B>>, <<A>> >> :> Inode(4, 3)),
     listing |-> (<<>> :> << Listed(<<B, B>>, TRUE) >>)
                 @@ (<< <<B, B>> >> :> << Listed(<<A>>, FALSE) >>)]

\* A subdirectory with room left, and clusters of one sector.
Small ==
    [Full EXCEPT !.sectors_per_cluster = 1,
       !.chains = (2 :> <<2>>) @@ (3 :> <<3, 6, 7>>) @@ (4 :> <<4, 5>>)]

\* A long name of three parts, which does not fit d_name.
Long ==
    [Full EXCEPT
       !.chains = (2 :> <<2, 5>>) @@ (3 :> <<3>>) @@ (4 :> <<4>>),
       !.dirs = (2 :> << Sfn(<<B, B>>, <<>>, {"DIRECTORY"}, 3, 0), Part(3, TRUE, <<a, b>>),
                         Part(2, FALSE, <<b, b>>), Part(1, FALSE, <<a, b>>),
                         Sfn(<<A, B>>, <<>>, {"ARCHIVE"}, 4, 3) >>) @@ (3 :> << Dot(3), Dot(2) >>),
       !.tree = (<<>> :> Inode(2, 0)) @@ (<< <<B, B>> >> :> Inode(3, 0))
                @@ (<< <<a, b, b, b, a, b>> >> :> Inode(4, 3)),
       !.listing = (<<>> :> << Listed(<<B, B>>, TRUE), Listed(<<a, b, b, b, a, b>>, FALSE) >>)
                   @@ (<< <<B, B>> >> :> <<>>)]

\* Not fat32; sectors of another size.
Fat16 == [Full EXCEPT !.table_size_16 = 1]
LargeSectors == [Full EXCEPT !.bytes_per_sector = 4]

SmallVolumes == {Scattered, Full, Small, Long, Fat16, LargeSectors}
SomePaths == {<<>>, << <<B, B>> >>, << <<a, b, 46, b, a>> >>, << <<a, b, a>> >>, << <<A, B>> >>,
              << <<B, B>>, <<A>> >>, << <<a, b, a>>, <<A>> >>, << <<a, b, b, b, a, b>> >>}
SomeOffsets == {-3, -1, 0, 1, 5}
=============================================================================

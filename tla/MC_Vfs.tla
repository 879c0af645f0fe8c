---- MODULE MC_Vfs ----
EXTENDS Vfs, TLC

CONSTANTS a, b

\* A disk with a directory a, and in it a file b.
Disk == 0 :> (a :> 1) @@ 1 :> (b :> 2) @@ 2 :> <<>>
DiskFormats == 0 :> "DIR" @@ 1 :> "DIR" @@ 2 :> "REG"

\* "/", "/a", "/b", "/a/b", "/a/", "//a".
ShortPaths == {<<EMPTY>>, <<a>>, <<b>>, <<a, b>>, <<a, EMPTY>>, <<EMPTY, a>>}
BlockDevices == {<<b>>}
=======================

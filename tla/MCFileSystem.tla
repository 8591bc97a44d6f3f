---------------------------- MODULE MCFileSystem ----------------------------
EXTENDS FileSystem, TLC

CONSTANTS t1, t2, x, y, z

TwoBytes == {<<<<z, z>>>>}

Symmetric == Permutations(Threads) \cup Permutations(Names) \cup Permutations(DataIds)

\* Ids that do not clash with 0 or with a mount point are interchangeable too.
SymmetricIds == Symmetric \cup Permutations(Inodes)
=============================================================================

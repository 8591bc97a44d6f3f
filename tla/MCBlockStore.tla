---------------------------- MODULE MCBlockStore ----------------------------
(* Small instances of BlockStore.                                            *)
EXTENDS BlockStoreInv, BlockStoreRefinement

CONSTANTS a, b      \* two bytes other than Zero

\* Buffers of one, two and three bytes with blocks of two: inside a block, at
\* its end, across blocks and ending exactly at a boundary.
OneBuffer == {<<<<a>>>>, <<<<b, a>>>>, <<<<a, a, b>>>>}
OneOrTwoBuffers == {<<<<a, a, b>>>>, <<<<a>>, <<a>>>>}
ZeroBuffer == {<<<<Zero, Zero>>>>}

Symmetric == Permutations(Threads) \cup Permutations(Inodes) \cup Permutations(DataIds)
SymmetricIds == Permutations(Inodes) \cup Permutations(DataIds)
=============================================================================

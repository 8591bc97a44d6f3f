------------------------- MODULE BlockStoreRefinement -------------------------
(* BlockStore implements BlockArray.                                         *)
EXTENDS BlockStore

\* The block of file i at each order, read through fs_lookup and fs_data.
BlockAt(i, n) == LET e == CHOOSE f \in Entries(i) : f.order = n
                 IN  data[e.id]

Array == INSTANCE BlockArray WITH
             array <- [i \in Inodes |-> [n \in 1 .. Cardinality(Entries(i)) |-> BlockAt(i, n - 1)]],
             size <- md

\* The three collections, changed one document at a time by several threads,
\* show every file as one array of blocks: what a growing, writing or
\* truncating call does between two of its round trips is never more than one
\* step of BlockArray.
ImplementsBlockArray == Array!Spec
===============================================================================

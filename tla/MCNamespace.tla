---------------------------- MODULE MCNamespace ----------------------------
EXTENDS Namespace, TLC

CONSTANTS t1, t2, i1, i2, i3, x, y

\* Threads, names and inodes are interchangeable.
Symmetric == Permutations({t1, t2}) \cup Permutations({x, y}) \cup Permutations({i1, i2})
                 \cup Permutations({i1, i2, i3})
=============================================================================

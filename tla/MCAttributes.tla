---------------------------- MODULE MCAttributes ----------------------------
EXTENDS Attributes

\* An owner granted nothing, something or all, with others granted less or
\* more.
SmallModes == [user : {{}, {"read", "write"}, {"read", "write", "exec"}}, group : {{"read"}}, univ : {{}}]

\* The boundaries of a block of 8 bytes and of an int of five bits.
BoundarySizes == {0, 1, 7, 8, 15, 16, 17, 24, 31, 32, 33}
=============================================================================

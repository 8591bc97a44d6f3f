------------------------------ MODULE BlockMath ------------------------------
(* The arithmetic by which the file system cuts a file into blocks.  A file  *)
(* of `size' bytes owns size / BLOCK_SIZE + 1 blocks, so one that fills its  *)
(* last block exactly owns one block more: the loops of read_buf and         *)
(* write_buf may look the block of position `size' up.                       *)
EXTENDS Naturals, Sequences

CONSTANTS BLOCK_SIZE,   \* fs::FSConfig::BLOCK_SIZE, 4096 in the build
          Bytes,        \* the values a byte of a block may have
          Zero          \* the byte of a value-initialised buffer

ASSUME BlockSizeAssumption == BLOCK_SIZE \in Nat \ {0}
ASSUME ZeroAssumption == Zero \in Bytes

Positions == 0 .. BLOCK_SIZE - 1
Block == [Positions -> Bytes]

\* new char[BLOCK_SIZE]()
ZeroBlock == [p \in Positions |-> Zero]

\* The number of blocks the code keeps for a file of this many bytes.
Blocks(size) == size \div BLOCK_SIZE + 1

\* The order of the block that holds position fp, and the first position
\* after that block.
OrderOf(fp) == fp \div BLOCK_SIZE
BlockEndOffByOne(fp) == OrderOf(fp) * BLOCK_SIZE        \* mutant of BlockEnd
BlockEnd(fp) == (OrderOf(fp) + 1) * BLOCK_SIZE

Least(a, b) == IF a < b THEN a ELSE b
Greatest(a, b) == IF a < b THEN b ELSE a

\* Where the inner copy loops leave cur_fp when they entered at fp and the
\* last position wanted is the one before stop.
AfterBlock(fp, stop) == Greatest(fp, Least(BlockEnd(fp), stop))

\* Mutants of Patch: the bytes around the range are not kept; the buffer is
\* indexed by the position in the block.
PatchFreshBlock(block, fp, off, buf) ==
    LET base == OrderOf(fp) * BLOCK_SIZE
    IN  [p \in Positions |->
            IF base + p \in fp .. AfterBlock(fp, off + Len(buf)) - 1
            THEN buf[base + p - off + 1] ELSE Zero]
PatchFromBlockStart(block, fp, off, buf) ==
    LET base == OrderOf(fp) * BLOCK_SIZE
    IN  [p \in Positions |->
            IF base + p \in fp .. AfterBlock(fp, off + Len(buf)) - 1 /\ p + 1 \in DOMAIN buf
            THEN buf[p + 1] ELSE block[p]]

\* The block after `buf', which starts at file position off, was copied over
\* the positions from fp on (the inner loop of write_fuse_bufvec_to_mongo).
Patch(block, fp, off, buf) ==
    LET base == OrderOf(fp) * BLOCK_SIZE
        last == AfterBlock(fp, off + Len(buf))
    IN  [p \in Positions |->
            IF base + p \in fp .. last - 1 THEN buf[base + p - off + 1]
                                           ELSE block[p]]

\* Mutant of Slice: the position in the block is forgotten.
SliceFromStart(block, fp, last) == [n \in 1 .. last - fp |-> block[(n - 1) % BLOCK_SIZE]]

\* The bytes of `block' at the file positions fp .. last - 1, which all lie
\* in that block (the inner loop of read_mongo_to_fuse_bufvec).
Slice(block, fp, last) ==
    [n \in 1 .. last - fp |-> block[(fp + n - 1) % BLOCK_SIZE]]

\* A reply buffer of n bytes, allocated zeroed, after `bytes' went into it.
Padded(bytes, n) == [k \in 1 .. n |-> IF k \in DOMAIN bytes THEN bytes[k] ELSE Zero]
=============================================================================

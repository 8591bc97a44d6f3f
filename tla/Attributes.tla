------------------------------ MODULE Attributes ------------------------------
(* The life of one document of fs_metadata: what create or mkdir is asked    *)
(* for, what to_document stores, what bson_to_md_entry reads back and what   *)
(* getattr reports; and how many blocks write_buf and truncate keep for the  *)
(* size it stores.  The C++ types on the way are narrower than the kernel's: *)
(* permissions go through Mode, times through a call of time(), sizes and    *)
(* positions through an int of IntRange values, in which -1 stands for a     *)
(* directory's missing size and which is unsigned when BLOCK_SIZE, an        *)
(* unsigned number, divides it.                                              *)
EXTENDS Integers

CONSTANTS Modes,        \* permissions a file is made with: [user, group, univ]
          Sizes,        \* sizes and offsets (off_t) of truncates and writes
          BLOCK_SIZE,   \* FSConfig::BLOCK_SIZE
          IntRange,     \* the values of an int, 2 ^ 32
          MaxBlocks,    \* bound: blocks that a write or truncate finds
          MaxTime       \* bound: the clock

Perm == SUBSET {"read", "write", "exec"}
Mode == [user : Perm, group : Perm, univ : Perm]
ASSUME ModesAssumption == Modes \subseteq Mode
ASSUME SizesAssumption ==
    IntRange \in Nat \ {0} /\ IntRange % 2 = 0 /\ BLOCK_SIZE \in Nat \ {0} /\ Sizes \subseteq Nat
    /\ MaxBlocks \in Nat /\ MaxTime \in Nat

VARIABLES
    now,        \* time(NULL)
    doc,        \* the document: [kind, mode, times, size]
    blocks,     \* how many blocks fs_lookup has for it, numbered from 0
    asked,      \* what the program that uses the file asked for:
                \* [kind, mode, time, size]
    largest,    \* history: the largest size it asked for
    stat,       \* the last answer of getattr, with its st_blocks
    dead        \* what ended the daemon: "size", file_size.value() threw,
                \* "block", the assert of read_entry_with_inode_order, or "no"

vars == <<now, doc, blocks, asked, largest, stat, dead>>

Missing == -1
None == [kind |-> "none"]

\* (int) of an off_t.
ToIntUnwrapped(n) == n % IntRange       \* mutants of ToInt: no sign; a shorter int
ToShort(n) == n % (IntRange \div 4)
ToInt(n) == LET m == n % IntRange IN IF m >= IntRange \div 2 THEN m - IntRange ELSE m

-----------------------------------------------------------------------------
(* Conversions.                                                              *)

\* Mode::Mode(mode_t) and to_document take all three from the user's bits.
FromGroup(m) == [user |-> m.group, group |-> m.group, univ |-> m.group]     \* mutant of FromModeT
FromModeT(m) == [user |-> m.user, group |-> m.user, univ |-> m.user]
ToDocument(e) == [e EXCEPT !.mode = FromModeT(e.mode)]

\* bson_to_md_entry hands the time it has read to time(), which returns the
\* present.  A size of -1 is none.
ZeroIsNone(d) == [d EXCEPT !.time = now, !.size = IF @ = 0 THEN Missing ELSE @]    \* mutant
FromDocument(d) == [d EXCEPT !.time = now]

\* size / BLOCK_SIZE + 1 for a size that is an int, a position that is an int,
\* and an off_t.
RoundedUp(n) == (n + BLOCK_SIZE - 1) \div BLOCK_SIZE       \* mutant of Blocks
SignedCount(n) == n \div BLOCK_SIZE + 1                    \* mutant of IntBlocks
IntBlocks(n) == (n % IntRange) \div BLOCK_SIZE + 1
OrderOf(p) == (ToInt(p) % IntRange) \div BLOCK_SIZE
Blocks(n) == n \div BLOCK_SIZE + 1

\* getattr reports a size that is missing as 0, with no block.
ToStat(e) == [e |-> [e EXCEPT !.size = IF @ = Missing THEN 0 ELSE @],
              blocks |-> IF e.size = Missing THEN 0 ELSE IntBlocks(e.size)]

-----------------------------------------------------------------------------
Init == /\ now = 0  /\ doc = None  /\ blocks = 0  /\ asked = None  /\ largest = 0
        /\ stat = None  /\ dead = "no"

\* create and mkdir; a directory has no size and no block.
Make(kind, mode) ==
    /\ doc = None
    /\ asked' = [kind |-> kind, mode |-> mode, time |-> now, size |-> 0]
    /\ doc' = ToDocument([kind |-> kind, mode |-> FromModeT(mode), time |-> now,
                          size |-> IF kind = "file" THEN 0 ELSE Missing])
    /\ blocks' = IF kind = "file" THEN 1 ELSE 0
    /\ UNCHANGED <<now, largest, stat, dead>>

\* search_by_inode and file_size.value() at the head of truncate and write_buf.
Size == FromDocument(doc).size
IsFile == doc # None /\ doc.kind = "file" /\ dead = "no"
Serves == IsFile /\ blocks <= MaxBlocks
SizeThrows == /\ Serves  /\ Size = Missing
              /\ dead' = "size"
              /\ UNCHANGED <<now, doc, blocks, asked, largest, stat>>

Store(n) == /\ asked' = [asked EXCEPT !.size = n]
            /\ largest' = IF n > largest THEN n ELSE largest

\* truncate_file; a size that is an int is equal to an off_t only if it has
\* not wrapped.
Truncate(n) ==
    /\ Serves  /\ Size # Missing  /\ Store(n)
    /\ \/ Size = n  /\ UNCHANGED <<doc, blocks>>
       \/ /\ Size # n  /\ doc' = [doc EXCEPT !.size = ToInt(n)]
          /\ blocks' = CASE IntBlocks(Size) < Blocks(n) -> blocks + (Blocks(n) - IntBlocks(Size))
                         [] IntBlocks(Size) > Blocks(n) /\ blocks > Blocks(n) -> Blocks(n)
                         [] OTHER -> blocks
    /\ UNCHANGED <<now, stat, dead>>

\* write_fuse_bufvec_to_mongo for one buffer of the positions off .. end - 1.
\* The size is compared as an unsigned number of 64 bits, so that no write
\* passes a size below 0.
Write(off, end) ==
    LET grows == Size >= 0 /\ end > Size
        need  == Blocks(end) - IntBlocks(Size)
        have  == blocks + IF grows /\ need > 0 THEN need ELSE 0
    IN  /\ Serves  /\ Size # Missing  /\ off < end
        /\ blocks' = have
        /\ IF \E p \in off .. end - 1 : OrderOf(p) >= have
           THEN dead' = "block" /\ UNCHANGED <<doc, asked, largest>>
           ELSE /\ doc' = IF grows THEN [doc EXCEPT !.size = ToInt(end)] ELSE doc
                /\ Store(IF end > asked.size THEN end ELSE asked.size)
                /\ UNCHANGED dead
        /\ UNCHANGED <<now, stat>>

Getattr ==
    /\ doc # None  /\ dead = "no"
    /\ stat' = ToStat(FromDocument(doc))
    /\ UNCHANGED <<now, doc, blocks, asked, largest, dead>>

Tick == now < MaxTime /\ now' = now + 1 /\ UNCHANGED <<doc, blocks, asked, largest, stat, dead>>

Next == \/ \E kind \in {"file", "dir"}, mode \in Modes : Make(kind, mode)
        \/ \E n \in Sizes : Truncate(n) \/ (\E off \in Sizes : Write(off, n))
        \/ SizeThrows \/ Getattr \/ Tick

Spec == Init /\ [][Next]_vars
-----------------------------------------------------------------------------
(* Properties.                                                               *)

Entry == [kind : {"file", "dir"}, mode : Mode, time : 0 .. MaxTime, size : Int]

\* Documents and answers have their fields, and a stored size fits an int.
TypeOK ==
    /\ now \in 0 .. MaxTime  /\ dead \in {"no", "size", "block"}  /\ {blocks, largest} \subseteq Nat
    /\ {doc, asked} \subseteq Entry \cup {None}
    /\ stat \in [e : Entry, blocks : Nat] \cup {None}
    /\ doc # None => doc.size \in -(IntRange \div 2) .. IntRange \div 2 - 1

FitsInt(n) == n < IntRange \div 2

\* stat reports the kind and the owner's permissions the file was made with.
OwnerKept == [][stat' # stat => stat'.e.kind = asked.kind /\ stat'.e.mode.user = asked.mode.user]_vars

\* stat reports the size a file was given last, and the blocks it has, as long
\* as an int holds that size and no larger one came before that even an
\* unsigned int cannot hold.
StatAgrees == [][stat' # stat /\ FitsInt(asked.size) /\ largest < IntRange =>
                    stat'.e.size = asked.size /\ stat'.blocks = blocks]_vars

\* A size that an int holds has its blocks, one for each BLOCK_SIZE and one
\* more, whatever truncates and writes led to it: also those of sizes that are
\* negative as an int, which the division takes for unsigned.
BlocksAgree == IsFile /\ FitsInt(asked.size) /\ largest < IntRange => blocks = Blocks(asked.size)

\* No call on a file finds it without a size, unless it was once given one that
\* an unsigned int can not hold or just holds: the int may then be the missing
\* size of a directory.
SizePresent == dead = "size" => largest >= IntRange - 1

\* No write misses a block that its own growth loop should have made, unless
\* a size that an int does not hold was given to the file before.
WritesFindBlocks == dead = "block" => ~FitsInt(largest)

\* Each of the three columns of permissions holds what its name says
\* (fs_metadata_collection.cpp:19-29).
ModeKept == [][stat' # stat => stat'.e.mode = asked.mode]_vars
===============================================================================

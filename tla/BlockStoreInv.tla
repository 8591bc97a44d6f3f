---------------------------- MODULE BlockStoreInv ----------------------------
(* The inductive invariants behind the theorems of BlockStoreProofs,         *)
(* BlockStoreCoverProofs and BlockStoreOrderProofs.                          *)
EXTENDS BlockStore

Linking == {"max_order", "new_lookup"}
Growing == {"new_data"} \cup Linking
Copying == {"find_lookup", "find_data"}
Cutting == {"find_ids", "del_lookup", "del_data"}

\* The round trips each handler makes.
MakesTrip(op, label) ==
    \/ op = "none" /\ label = "idle"
    \/ op = "create" /\ label \in Growing \cup {"insert_md", "reply"}
    \/ op = "read" /\ label \in Copying \cup {"find_md", "reply"}
    \/ op = "write" /\ label \in Growing \cup Copying \cup {"find_md", "update_data", "set_size", "reply"}
    \/ op = "truncate" /\ label \in Growing \cup Cutting \cup {"find_md", "set_size", "reply"}

\* What the code relies on between two round trips of one thread that serves
\* request c, has local variables l and makes the round trip `label' next.
ControlAt(c, label, l) ==
    /\ MakesTrip(c.op, label)
    /\ label # "idle" => c.inode \in Inodes
    /\ c.op \in {"write", "read", "truncate"} => c.inode \in DOMAIN md
    /\ c.op = "write" => 1 \in DOMAIN c.bufs
    /\ c.op = "write" /\ label \notin {"find_md", "reply"} => l.idx \in DOMAIN c.bufs /\ c.off <= l.fp
    /\ label \in Growing => l.need >= 1
    /\ label \in Linking => l.id \in DataIds
ControlOK == \A t \in Threads : ControlAt(call[t], pc[t], loc[t])

\* So that the maximum of the orders of a file exists.
OrdersBounded == \E m \in Nat : \A e \in lookup : e.order <= m

TypeInv == TypeOK /\ ControlOK /\ OrdersBounded

-----------------------------------------------------------------------------
(* The links between fs_lookup and fs_data.                                  *)

\* The kernel's inode lock.
OneModifier ==
    \A t, u \in Threads : t # u /\ Modifies(call[t].op) /\ Modifies(call[u].op)
                            => call[t].inode # call[u].inode

\* A block inserted and not linked yet is in no other hands ...
PendingOwned ==
    /\ \A t \in Threads : Pending(t) \subseteq DOMAIN data \ Linked
    /\ \A t, u \in Threads : t # u => Pending(t) \cap Pending(u) = {}

\* ... nor is one whose lookup document was deleted.
RemovingOwned ==
    /\ \A t \in Threads : Removing(t) \subseteq DOMAIN data \ Linked
    /\ \A t, u \in Threads : t # u => Removing(t) \cap Removing(u) = {}
    /\ \A t, u \in Threads : Pending(t) \cap Removing(u) = {}

\* The ids the find returned still belong to documents the delete will match.
FoundStillThere ==
    \A t \in Threads : pc[t] = "del_lookup" =>
        loc[t].gone \subseteq {e.id : e \in EntriesFrom(call[t].inode, Blocks(call[t].size))}

LinkInv == NoDangling /\ NoSharing /\ OneModifier /\ PendingOwned /\ RemovingOwned /\ FoundStillThere
-----------------------------------------------------------------------------
(* Sizes and blocks.                                                         *)

\* The local variables of a call that modifies a file: the size a write works
\* with is no smaller than the one stored and reaches to the end of the buffer,
\* and the block it has found is that of its position.
SizedAt(c, label, l) ==
    /\ c.op = "write" => \A k \in DOMAIN c.bufs : Len(c.bufs[k]) >= 1
    /\ c.op = "write" /\ label \notin {"find_md", "reply"} =>
           md[c.inode] <= l.cur /\ BufEnd(c, l.idx) <= l.cur
    /\ c.op = "write" /\ label \in Growing \cup Copying => l.fp < BufEnd(c, l.idx)
    /\ c.op = "write" /\ label = "find_data" =>
           \E e \in Entries(c.inode) : e.id = l.id /\ e.order = OrderOf(l.fp)
    /\ c.op = "truncate" /\ label \notin {"find_md", "reply"} => l.cur = c.size
    /\ c.op = "truncate" /\ label \in Cutting => Blocks(c.size) < Blocks(md[c.inode])
    /\ c.op = "create" /\ label \in Growing => l.need = 1
SizedOK == \A t \in Threads : SizedAt(call[t], pc[t], loc[t])

\* The files that no call has damaged.
Intruded(i) == \E t \in Threads : Intruding(t) /\ call[t].inode = i
Whole(i) == i \notin torn /\ ~Intruded(i)

\* Their blocks are numbered from 0 without a gap ...
Gapless(i) == \A n \in Orders(i) : \A m \in 0 .. n : m \in Orders(i)
GaplessOK == \A i \in Inodes : Whole(i) => Gapless(i)

\* ... and reach as far as the size, unless a truncate is at work.
ShrunkBy(t, i) == Shrinking(t) /\ call[t].inode = i
CoveredOK ==
    \A i \in DOMAIN md : Whole(i) => OrderOf(md[i]) \in Orders(i) \/ \E t \in Threads : ShrunkBy(t, i)

\* What a call knows of the blocks of its file: while it adds `need' blocks, the
\* file has all those before them, the next order is the one it has computed,
\* and then it has the block of the size the call works with.
BackedAt(c, label, l) ==
    /\ Modifies(c.op) /\ label \in Growing => OrderOf(l.cur) - l.need \in Orders(c.inode)
    /\ Modifies(c.op) /\ label = "new_lookup" =>
           l.order - 1 \in Orders(c.inode) /\ OrderOf(l.cur) - l.need < l.order
    /\ c.op = "write" /\ label \in Copying \cup {"update_data", "set_size"} =>
           OrderOf(l.cur) \in Orders(c.inode)
    /\ c.op = "truncate" /\ label \in {"del_data", "set_size"} => OrderOf(l.cur) \in Orders(c.inode)
    /\ c.op = "create" /\ c.inode \notin DOMAIN md /\ label = "new_lookup" =>
           l.order = 0 \/ l.order - 1 \in Orders(c.inode)
    /\ c.op = "create" /\ c.inode \notin DOMAIN md /\ label = "insert_md" => 0 \in Orders(c.inode)
BackedOK == \A t \in Threads : Whole(call[t].inode) => BackedAt(call[t], pc[t], loc[t])

CoverInv == SizedOK /\ GaplessOK /\ CoveredOK /\ BackedOK /\ ModifiersNeverAssert

-----------------------------------------------------------------------------
(* Contents.                                                                 *)

\* A block that is not linked yet is all zeros.
FreshOK == \A t \in Threads : pc[t] \in Linking => data[loc[t].id] = ZeroBlock

\* The block a write is about to put back is that of one document of its file,
\* and differs from what is stored only where the write has a buffer.
InBuffer(c, e, q) == \E k \in DOMAIN c.bufs : e.order * BLOCK_SIZE + q \in c.off .. BufEnd(c, k) - 1
PutBackAt(c, l, e) ==
    /\ e.id = l.id
    /\ \A q \in Positions : l.blk[q] = data[e.id][q] \/ InBuffer(c, e, q)
PatchedOK ==
    \A t \in Threads : pc[t] = "update_data" => \E e \in Entries(call[t].inode) : PutBackAt(call[t], loc[t], e)

ContentInv == FreshOK /\ PatchedOK

-----------------------------------------------------------------------------
(* Without ids that clash.                                                   *)

\* A create has its inode to itself until its document is there.
ExclusiveOK ==
    \A t \in Threads : call[t].op = "create" /\ pc[t] # "reply" =>
        /\ call[t].inode \notin DOMAIN md
        /\ \A u \in Threads \ {t} : call[u].inode # call[t].inode

\* So the order that get_max_order returned is still the next one.
NextOrderOK == \A t \in Threads : pc[t] = "new_lookup" => loc[t].order = NextOrder(call[t].inode)

\* The find and the delete of a truncate match the same documents.
FoundAll ==
    \A t \in Threads : pc[t] = "del_lookup" =>
        {e.id : e \in EntriesFrom(call[t].inode, Blocks(call[t].size))} \subseteq loc[t].gone

\* A call at work on file i, alone: a modification, or a create until the
\* document of the file is there.
Working(t, i) ==
    /\ call[t].inode = i  /\ call[t].op \in {"create", "write", "truncate"}
    /\ call[t].op = "create" => pc[t] # "reply"

\* Before the first crash no block lies past the size, and a call knows how far
\* those of its file reach.
Within(i, n) == \A x \in Orders(i) : x <= n
TightAt(c, label, l) ==
    /\ Modifies(c.op) /\ label \in {"find_md", "reply"} => Within(c.inode, OrderOf(md[c.inode]))
    /\ Modifies(c.op) /\ label \in Growing =>
           l.need <= OrderOf(l.cur) /\ Within(c.inode, OrderOf(l.cur) - l.need)
    /\ c.op = "write" /\ label \in Copying \cup {"update_data", "set_size"} =>
           Within(c.inode, OrderOf(l.cur))
    /\ c.op = "truncate" /\ label \in {"del_data", "set_size"} => Within(c.inode, OrderOf(l.cur))
    /\ c.op = "create" /\ label \in Growing => Orders(c.inode) = {}
    /\ c.op = "create" /\ label = "insert_md" => Within(c.inode, 0)
TightFile(i) == Orders(i) # {} => i \in DOMAIN md /\ Within(i, OrderOf(md[i]))
TightOK ==
    up /\ mounts = 1 =>
        /\ \A t \in Threads : TightAt(call[t], pc[t], loc[t])
        /\ \A i \in Inodes : (\A t \in Threads : ~Working(t, i)) => TightFile(i)

StartedOK == mounts >= 1

OrderInv == ExclusiveOK /\ NextOrderOK /\ FoundAll /\ BlocksInOrder /\ TightOK /\ NoLeak /\ StartedOK
-----------------------------------------------------------------------------
(* The daemon's life.                                                        *)

\* No call outlives the daemon, and no file is damaged before it first ends.
RunInv ==
    /\ up \/ \A t \in Threads : pc[t] = "idle"
    /\ up /\ mounts = 1 => torn = {}
    /\ mounts <= MaxMounts

-----------------------------------------------------------------------------
(* Writes of one buffer.                                                     *)

SingleBuffers == \A bufs \in BufVecs : Len(bufs) = 1

\* The bytes counted are those from the write's offset to the position it has
\* reached; when it returns, that is the end of the buffer and the size stored
\* is no smaller.  A truncate returns with its size stored.
CountedAt(c, label, l) ==
    /\ c.op = "write" => Len(c.bufs) = 1
    /\ c.op = "write" /\ label = "find_md" => l.total = 0
    /\ c.op = "write" /\ label # "find_md" => l.fp = c.off + l.total
    /\ c.op = "write" /\ label \in Growing => l.total = 0
    /\ c.op = "write" /\ label = "update_data" => l.fp <= BufEnd(c, 1)
    /\ c.op = "write" /\ label \in {"set_size", "reply"} => l.fp = BufEnd(c, 1)
    /\ c.op = "write" /\ label = "reply" => BufEnd(c, 1) <= md[c.inode]
    /\ c.op = "truncate" /\ label = "reply" => md[c.inode] = c.size
CountedOK == \A t \in Threads : CountedAt(call[t], pc[t], loc[t])

\* The kernel takes a file that is not there for empty.
AbsentEmpty == up => \A i \in Inodes \ DOMAIN md : isize[i] = 0

KernelInv == CountedOK /\ AbsentEmpty /\ KernelSizeInside

\* From its offset to the position it has reached, a write finds its own bytes
\* in its file, once the block it is about to put back is there.
ShowsAt(c, label, l, p) ==
    \E e \in Entries(c.inode) :
        /\ e.order = OrderOf(p)
        /\ (IF label = "update_data" /\ e.id = l.id THEN l.blk ELSE data[e.id])[p % BLOCK_SIZE]
               = c.bufs[1][p - c.off + 1]
StoredAt(c, label, l) ==
    c.op = "write" /\ label # "find_md" => \A p \in c.off .. l.fp - 1 : ShowsAt(c, label, l, p)
StoredOK == \A t \in Threads : StoredAt(call[t], pc[t], loc[t])

-----------------------------------------------------------------------------
(* Reads that nothing disturbs.                                              *)

\* A read works with the size stored, has the bytes from its offset to the
\* position it has reached, none of them past the size, and returns when it has
\* reached the end of what was asked for or of the file.
ReadAt(c, label, l) ==
    c.op = "read" =>
        /\ c.size >= 1
        /\ label = "find_md" => l.out = <<>>
        /\ label # "find_md" =>
               /\ l.cur = md[c.inode]  /\ l.fp = c.off + Len(l.out)
               /\ l.fp = c.off \/ l.fp <= l.cur
               /\ \A n \in 1 .. Len(l.out) :
                      \E e \in Entries(c.inode) : /\ e.order = OrderOf(c.off + n - 1)
                                                  /\ data[e.id][(c.off + n - 1) % BLOCK_SIZE] = l.out[n]
        /\ label = "find_data" => \E e \in Entries(c.inode) : e.id = l.id /\ e.order = OrderOf(l.fp)
        /\ label = "reply" => Least(c.off + c.size, l.cur) <= l.fp

\* ... or that no write and no truncate of the same file runs beside: what the
\* read has gathered stays what the file has there.
Undisturbed(t) ==
    \A u \in Threads \ {t} : ~(Modifies(call[u].op) /\ call[u].inode = call[t].inode)
ReadsGoOn ==
    \A t \in Threads : ReadAt(call[t], pc[t], loc[t]) /\ Undisturbed(t) => ReadAt(call[t], pc[t], loc[t])'
QuietReads == [][ReadsGoOn]_vars

\* A read that no write and no truncate of the same file runs beside returns the
\* bytes of the file at the positions asked for, and zeros past its end.
ReadsReturn ==
    \A t \in Threads : ReadAt(call[t], pc[t], loc[t]) /\ Undisturbed(t) => ReturnsFile(t)'
ReadReturnsFile == [][ReadsReturn]_vars
=============================================================================

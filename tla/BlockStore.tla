----------------------------- MODULE BlockStore -----------------------------
(* The data path of the file system: the handlers create, write_buf,         *)
(* read_buf and truncate over the three MongoDB collections, one atomic      *)
(* action per round trip to the database.  MongoDB runs one operation on one *)
(* document at a time; the handlers use no transaction and take no lock, and *)
(* libfuse calls them from several threads.                                  *)
(*                                                                           *)
(* A failed assert, a duplicate-key exception or a kill ends the daemon and  *)
(* every call in it (Abort, Kill); the collections survive and the daemon    *)
(* may be mounted again.                                                     *)
EXTENDS BlockMath, FiniteSets, FiniteSetsExt, SequencesExt

CONSTANTS Threads,      \* libfuse worker threads
          Inodes,       \* what generate_id may return for a file
          DataIds,      \* what generate_id may return for a block
          NoId,         \* a block id variable that is not set
          NoInode,      \* the inode of a thread that runs no call
          Offsets,      \* file offsets of reads and writes
          BufVecs,      \* fuse_bufvecs to write: sequences of buffers
          ReadSizes,    \* sizes of reads
          NewSizes,     \* sizes given to truncate
          AllocSizes,   \* ends of the ranges given to fallocate
          SpliceFrom,   \* libfuse may hand a buffer of this size as a pipe
          MaxMounts,    \* bound: how often the daemon is started
          IdClash       \* may generate_id return an id that is in use?

ASSUME NoIdAssumption == NoId \notin DataIds /\ NoInode \notin Inodes
ASSUME RequestAssumption ==
    /\ Offsets \subseteq Nat
    /\ BufVecs \subseteq Seq(Seq(Bytes) \ {<<>>}) \ {<<>>}
    /\ ReadSizes \subseteq Nat \ {0}
    /\ NewSizes \subseteq Nat  /\ AllocSizes \subseteq Nat  /\ SpliceFrom \in Nat
    /\ MaxMounts \in Nat \ {0}
    /\ IdClash \in BOOLEAN

VARIABLES
    md,         \* fs_metadata: inode of a file -> its file_size
    lookup,     \* fs_lookup: documents [inode, order, id]
    data,       \* fs_data: block id -> its BLOCK_SIZE bytes
    isize,      \* the kernel's cached size of each file
    up,         \* is the daemon running?
    mounts,     \* how often it was started
    fault,      \* what ended it, NoFault while it runs or when it was killed
    torn,       \* history: files that a call cut short left damaged
    pc,         \* thread -> the round trip it makes next
    call,       \* thread -> the request it serves
    loc         \* thread -> the local variables of the handler

store == <<md, lookup, data>>
daemon == <<up, mounts, fault, torn>>
threads == <<pc, call, loc>>
vars == <<md, lookup, data, isize, up, mounts, fault, torn, pc, call, loc>>

Labels == {"idle", "find_md", "new_data", "max_order", "new_lookup",
           "insert_md", "find_lookup", "find_data", "update_data",
           "set_size", "find_ids", "del_lookup", "del_data", "reply"}

NoCall == [op |-> "none", inode |-> NoInode, off |-> 0, size |-> 0, bufs |-> <<>>]
NoLocals == [cur |-> 0, idx |-> 0, fp |-> 0, need |-> 0, id |-> NoId,
             order |-> 0, blk |-> ZeroBlock, total |-> 0,
             gone |-> {}, out |-> <<>>]
NoFault == [cause |-> "none", op |-> "none", inode |-> NoInode]

Init ==
    /\ md = <<>>  /\ lookup = {}  /\ data = <<>>
    /\ isize = [i \in Inodes |-> 0]
    /\ up = TRUE  /\ mounts = 1  /\ fault = NoFault  /\ torn = {}
    /\ pc = [t \in Threads |-> "idle"]
    /\ call = [t \in Threads |-> NoCall]
    /\ loc = [t \in Threads |-> NoLocals]

-----------------------------------------------------------------------------
(* The documents of fs_lookup, and those of one file.                        *)
Entry == [inode : Inodes, order : Nat, id : DataIds]
Entries(i) == {e \in lookup : e.inode = i}
Orders(i) == {e.order : e \in Entries(i)}
EntriesAbove(i, n) == {e \in Entries(i) : e.order > n}  \* mutants of EntriesFrom
EntriesFromLast(i, n) == {e \in Entries(i) : e.order >= n - 1}
EntriesFrom(i, n) == {e \in Entries(i) : e.order >= n}
Linked == {e.id : e \in lookup}

\* Mutant of NextOrder: the maximum itself.
LastOrder(i) == IF Entries(i) = {} THEN 0 ELSE Max(Orders(i))

\* FSLookupCollection::get_max_order, and the 0 that stands for nullopt.
NextOrder(i) == IF Entries(i) = {} THEN 0 ELSE Max(Orders(i)) + 1

\* The local variables of t's handler after a step, and the round trip next.
Goto(t, label, l) == /\ pc' = [pc EXCEPT ![t] = label]
                     /\ loc' = [loc EXCEPT ![t] = l]

Modifies(op) == op \in {"write", "truncate"}

\* The kernel holds its inode's lock over WRITE and SETATTR.
KernelLocked(i) == \E u \in Threads : call[u].inode = i /\ Modifies(call[u].op)

\* The calls that leave their file damaged if they end now: a truncate between
\* its deletions and its size update, and a create that has drawn the inode of
\* another file and linked its block there.
Shrinking(t) == call[t].op = "truncate" /\ pc[t] \in {"del_data", "set_size"}
                /\ call[t].inode \in DOMAIN md
                /\ Blocks(call[t].size) < Blocks(md[call[t].inode])
Intruding(t) == call[t].op = "create" /\ pc[t] = "insert_md" /\ call[t].inode \in DOMAIN md
Hurt(i) == \E t \in Threads : (Shrinking(t) \/ Intruding(t)) /\ call[t].inode = i

\* The daemon dies, and with it every call.
Die == /\ up' = FALSE
       /\ torn' = torn \cup {i \in Inodes : Hurt(i)}
       /\ pc' = [t \in Threads |-> "idle"]
       /\ call' = [t \in Threads |-> NoCall]
       /\ loc' = [t \in Threads |-> NoLocals]
       /\ UNCHANGED <<store, isize, mounts>>
Abort(t, cause) == /\ fault' = [cause |-> cause, op |-> call[t].op, inode |-> call[t].inode]
                   /\ Die

-----------------------------------------------------------------------------
(* The kernel hands a request to an idle thread.                             *)
Begin(t, label, request, blocks) ==
    /\ up  /\ pc[t] = "idle"
    /\ call' = [call EXCEPT ![t] = request]
    /\ Goto(t, label, [NoLocals EXCEPT !.need = blocks])
    /\ UNCHANGED <<store, isize, daemon>>

\* A file name is looked up and created under the directory's lock; what two
\* creates may share is the inode that generate_id returned.
Unused(i) == i \notin DOMAIN md /\ Entries(i) = {} /\ \A u \in Threads : call[u].inode # i
BeginCreate(t) ==
    \E i \in Inodes :
        /\ Unused(i) \/ IdClash
        /\ Begin(t, "new_data", [NoCall EXCEPT !.op = "create", !.inode = i], 1)

\* WRITE, READ and SETATTR of the file i, the last from ftruncate, which comes
\* with the handle of the open file.
SendWrite(t, i) ==
    \E off \in Offsets, bufs \in BufVecs :
        Begin(t, "find_md", [NoCall EXCEPT !.op = "write", !.inode = i, !.off = off, !.bufs = bufs], 0)
SendRead(t, i, offsets) ==
    \E off \in offsets, n \in ReadSizes :
        Begin(t, "find_md", [NoCall EXCEPT !.op = "read", !.inode = i, !.off = off, !.size = n], 0)
SendTruncate(t, i) ==
    \E n \in NewSizes :
        Begin(t, "find_md", [NoCall EXCEPT !.op = "truncate", !.inode = i, !.size = n], 0)

\* The kernel reaches a file by one inode of its own, whose lock it holds, and
\* writes no mapped pages back; FileSystem drops the first of these premises.
BeginWrite(t) == \E i \in DOMAIN md : ~KernelLocked(i) /\ SendWrite(t, i)
BeginTruncate(t) == \E i \in DOMAIN md : ~KernelLocked(i) /\ SendTruncate(t, i)

\* It asks only for positions below the size it has cached.
BeginRead(t) == \E i \in DOMAIN md : SendRead(t, i, {off \in Offsets : off < isize[i]})

\* truncate by path comes without a fuse_file_info, and the handler reads its fh.
TruncateByPath(t) ==
    /\ up  /\ pc[t] = "idle"
    /\ \E i \in DOMAIN md :
        /\ ~KernelLocked(i)
        /\ fault' = [cause |-> "null_ffi", op |-> "truncate", inode |-> i]
    /\ Die

\* OPEN with O_TRUNC.  libfuse leaves the truncation to the open handler, which
\* only prints flags; the kernel takes the file for empty.
OpenTrunc(t) ==
    /\ up  /\ pc[t] = "idle"
    /\ \E i \in DOMAIN md : ~KernelLocked(i) /\ isize' = [isize EXCEPT ![i] = 0]
    /\ UNCHANGED <<store, daemon, threads>>

\* fallocate reports success and allocates nothing; the kernel takes the file for
\* as long as it asked.
Fallocate(t) ==
    /\ up  /\ pc[t] = "idle"
    /\ \E i \in DOMAIN md, n \in AllocSizes :
        ~KernelLocked(i) /\ n > isize[i] /\ isize' = [isize EXCEPT ![i] = n]
    /\ UNCHANGED <<store, daemon, threads>>

-----------------------------------------------------------------------------
(* The outer loop of write_fuse_bufvec_to_mongo, up to its next round trip:  *)
(* buffer number k is written from the call's offset on.                     *)
BufEnd(c, k) == c.off + Len(c.bufs[k])
\* Mutants of EnterBuffer: blocks are counted for every write; the size is the
\* write's end.
EnterBufferUnguarded(c, l, k) ==
    [l EXCEPT !.idx = k, !.fp = c.off,
              !.need = Blocks(BufEnd(c, k)) - Blocks(l.cur), !.cur = Greatest(l.cur, BufEnd(c, k))]
EnterBufferSetsEnd(c, l, k) ==
    [l EXCEPT !.idx = k, !.fp = c.off,
              !.need = IF BufEnd(c, k) > l.cur THEN Blocks(BufEnd(c, k)) - Blocks(l.cur) ELSE 0,
              !.cur = BufEnd(c, k)]
EnterBuffer(c, l, k) ==
    [l EXCEPT !.idx = k, !.fp = c.off,
              !.need = IF BufEnd(c, k) > l.cur THEN Blocks(BufEnd(c, k)) - Blocks(l.cur) ELSE 0,
              !.cur = Greatest(l.cur, BufEnd(c, k))]
AfterGrowth(op) == CASE op = "create" -> "insert_md"
                     [] op = "write" -> "find_lookup"
                     [] op = "truncate" -> "set_size"
GrowOr(l, label) == IF l.need > 0 THEN "new_data" ELSE label

\* search_by_inode at the head of write_buf, read_buf and truncate.  Files are
\* never removed (unlink does nothing), so the document is found.
FindMdForWrite(t) ==
    /\ pc[t] = "find_md"  /\ call[t].op = "write"
    /\ LET l == EnterBuffer(call[t], [loc[t] EXCEPT !.cur = md[call[t].inode]], 1)
       IN  Goto(t, GrowOr(l, "find_lookup"), l)
    /\ UNCHANGED <<store, isize, daemon, call>>

\* libfuse splices a large write into a pipe unless it is told not to; the
\* handler asserts that a buffer is no descriptor before it touches a block.
PipeFails(t) ==
    /\ pc[t] = "find_md"  /\ call[t].op = "write"  /\ Len(call[t].bufs[1]) >= SpliceFrom
    /\ Abort(t, "assert_fd")

FindMdForRead(t) ==
    /\ pc[t] = "find_md"  /\ call[t].op = "read"
    /\ Goto(t, "find_lookup", [loc[t] EXCEPT !.cur = md[call[t].inode], !.fp = call[t].off])
    /\ UNCHANGED <<store, isize, daemon, call>>

FindMdForTruncate(t) ==
    /\ pc[t] = "find_md"  /\ call[t].op = "truncate"
    /\ LET old == md[call[t].inode]
           new == call[t].size
           l   == [loc[t] EXCEPT !.cur = new]
       IN  \/ /\ new = old
              /\ Goto(t, "reply", l)
           \/ /\ new # old  /\ Blocks(new) = Blocks(old)
              /\ Goto(t, "set_size", l)
           \/ /\ Blocks(new) > Blocks(old)
              /\ Goto(t, "new_data", [l EXCEPT !.need = Blocks(new) - Blocks(old)])
           \/ /\ Blocks(new) < Blocks(old)
              /\ Goto(t, "find_ids", l)
    /\ UNCHANGED <<store, isize, daemon, call>>

-----------------------------------------------------------------------------
(* create_next_data_lookup_entries: one block and its lookup document.       *)

\* Mutant of NewData: the insert is an upsert.
NewDataUpsert(t) ==
    /\ pc[t] = "new_data"
    /\ \E d \in DataIds :
        /\ data' = [x \in DOMAIN data \cup {d} |-> IF x = d THEN ZeroBlock ELSE data[x]]
        /\ Goto(t, "max_order", [loc[t] EXCEPT !.id = d])
    /\ UNCHANGED <<md, lookup, isize, daemon, call>>

NewData(t) ==
    /\ pc[t] = "new_data"
    /\ \E d \in DataIds \ DOMAIN data :
        /\ data' = [x \in DOMAIN data \cup {d} |-> IF x = d THEN ZeroBlock ELSE data[x]]
        /\ Goto(t, "max_order", [loc[t] EXCEPT !.id = d])
    /\ UNCHANGED <<md, lookup, isize, daemon, call>>

\* generate_id returns the id of a block: insert_one throws.
NewDataClash(t) ==
    /\ pc[t] = "new_data"  /\ IdClash  /\ data # <<>>
    /\ Abort(t, "dup_data")

MaxOrder(t) ==
    /\ pc[t] = "max_order"
    /\ Goto(t, "new_lookup", [loc[t] EXCEPT !.order = NextOrder(call[t].inode)])
    /\ UNCHANGED <<store, isize, daemon, call>>

NewLookup(t) ==
    /\ pc[t] = "new_lookup"
    /\ lookup' = lookup \cup {[inode |-> call[t].inode, order |-> loc[t].order, id |-> loc[t].id]}
    /\ LET l == [loc[t] EXCEPT !.id = NoId, !.order = 0, !.need = @ - 1]
       IN  Goto(t, GrowOr(l, AfterGrowth(call[t].op)), l)
    /\ UNCHANGED <<md, data, isize, daemon, call>>

\* create_entry_with_dir_parent, after the file's block 0 exists.
InsertMd(t) ==
    /\ pc[t] = "insert_md"  /\ call[t].inode \notin DOMAIN md
    /\ md' = [i \in DOMAIN md \cup {call[t].inode} |-> IF i = call[t].inode THEN 0 ELSE md[i]]
    /\ Goto(t, "reply", loc[t])
    /\ UNCHANGED <<lookup, data, isize, daemon, call>>

InsertMdClash(t) ==
    /\ pc[t] = "insert_md"  /\ call[t].inode \in DOMAIN md
    /\ Abort(t, "dup_inode")

-----------------------------------------------------------------------------
(* The block loops of write_buf and read_buf.                                *)
Wanted(t) == {e \in Entries(call[t].inode) : e.order = OrderOf(loc[t].fp)}

\* read_entry_with_inode_order; find_one returns any match.
FindLookup(t) ==
    /\ pc[t] = "find_lookup"
    /\ \E e \in Wanted(t) : Goto(t, "find_data", [loc[t] EXCEPT !.id = e.id])
    /\ UNCHANGED <<store, isize, daemon, call>>

FindLookupFails(t) ==
    /\ pc[t] = "find_lookup"  /\ Wanted(t) = {}
    /\ Abort(t, "assert_lookup")

\* FSDataCollection::read_entry and the copy into the block read.
FindDataForWrite(t) ==
    /\ pc[t] = "find_data"  /\ call[t].op = "write"  /\ loc[t].id \in DOMAIN data
    /\ LET l    == loc[t]
           c    == call[t]
           next == AfterBlock(l.fp, BufEnd(c, l.idx))
       IN  Goto(t, "update_data",
                [l EXCEPT !.blk = Patch(data[l.id], l.fp, c.off, c.bufs[l.idx]),
                          !.fp = next, !.total = @ + (next - l.fp)])
    /\ UNCHANGED <<store, isize, daemon, call>>

\* ... and the copy out of it, which returns at the end of the file.
FindDataForRead(t) ==
    /\ pc[t] = "find_data"  /\ call[t].op = "read"  /\ loc[t].id \in DOMAIN data
    /\ LET l    == loc[t]
           end  == call[t].off + call[t].size
           next == AfterBlock(l.fp, Least(end, l.cur))
           more == next = BlockEnd(l.fp) /\ next < end
       IN  Goto(t, IF more THEN "find_lookup" ELSE "reply",
                [l EXCEPT !.out = @ \o Slice(data[l.id], l.fp, next), !.fp = next, !.id = NoId])
    /\ UNCHANGED <<store, isize, daemon, call>>

FindDataFails(t) ==
    /\ pc[t] = "find_data"  /\ loc[t].id \notin DOMAIN data
    /\ Abort(t, "assert_data")

\* update_entry replaces the whole block; then the loop conditions.
UpdateData(t) ==
    /\ pc[t] = "update_data"
    /\ data' = [d \in DOMAIN data |-> IF d = loc[t].id THEN loc[t].blk ELSE data[d]]
    /\ LET c == call[t]
           l == [loc[t] EXCEPT !.id = NoId, !.blk = ZeroBlock]
           n == EnterBuffer(c, l, l.idx + 1)
       IN  \/ /\ l.fp < BufEnd(c, l.idx)
              /\ Goto(t, "find_lookup", l)
           \/ /\ l.fp >= BufEnd(c, l.idx)  /\ l.idx < Len(c.bufs)
              /\ Goto(t, GrowOr(n, "find_lookup"), n)
           \/ /\ l.fp >= BufEnd(c, l.idx)  /\ l.idx = Len(c.bufs)
              /\ Goto(t, "set_size", l)
    /\ UNCHANGED <<md, lookup, isize, daemon, call>>

SetSize(t) ==
    /\ pc[t] = "set_size"
    /\ md' = [md EXCEPT ![call[t].inode] = loc[t].cur]
    /\ Goto(t, "reply", loc[t])
    /\ UNCHANGED <<lookup, data, isize, daemon, call>>

-----------------------------------------------------------------------------
(* remove_data_lookup_entries_above: find, delete_many, then the blocks.     *)

\* Mutants of FindIds: the find runs after the delete; the delete is forgotten.
FindIdsTooLate(t) ==
    /\ pc[t] = "find_ids"
    /\ Goto(t, "del_lookup", loc[t])
    /\ UNCHANGED <<store, isize, daemon, call>>
FindIdsOnly(t) ==
    /\ pc[t] = "find_ids"
    /\ Goto(t, "del_data",
            [loc[t] EXCEPT !.gone = {e.id : e \in EntriesFrom(call[t].inode, Blocks(call[t].size))}])
    /\ UNCHANGED <<store, isize, daemon, call>>

FindIds(t) ==
    /\ pc[t] = "find_ids"
    /\ Goto(t, "del_lookup",
            [loc[t] EXCEPT !.gone = {e.id : e \in EntriesFrom(call[t].inode, Blocks(call[t].size))}])
    /\ UNCHANGED <<store, isize, daemon, call>>

DelLookup(t) ==
    /\ pc[t] = "del_lookup"
    /\ lookup' = lookup \ EntriesFrom(call[t].inode, Blocks(call[t].size))
    /\ Goto(t, IF loc[t].gone = {} THEN "set_size" ELSE "del_data", loc[t])
    /\ UNCHANGED <<md, data, isize, daemon, call>>

DelData(t) ==
    /\ pc[t] = "del_data"
    /\ \E d \in loc[t].gone :
        /\ data' = [x \in DOMAIN data \ {d} |-> data[x]]
        /\ Goto(t, IF loc[t].gone = {d} THEN "set_size" ELSE "del_data",
                [loc[t] EXCEPT !.gone = @ \ {d}])
    /\ UNCHANGED <<md, lookup, isize, daemon, call>>

\* The handler returns; the kernel updates the size it has cached and drops
\* the inode's lock.
Reply(t) ==
    /\ pc[t] = "reply"
    /\ LET c == call[t]
       IN  isize' = CASE c.op = "write" -> [isize EXCEPT ![c.inode] = Greatest(@, c.off + loc[t].total)]
                      [] c.op = "truncate" -> [isize EXCEPT ![c.inode] = c.size]
                      [] OTHER -> isize
    /\ Goto(t, "idle", NoLocals)
    /\ call' = [call EXCEPT ![t] = NoCall]
    /\ UNCHANGED <<store, daemon>>

-----------------------------------------------------------------------------
Kill ==
    /\ up  /\ mounts < MaxMounts
    /\ fault' = NoFault  /\ Die

\* fuse_main again: the kernel starts with the sizes of the documents.
Mount ==
    /\ ~up  /\ mounts < MaxMounts
    /\ up' = TRUE  /\ mounts' = mounts + 1  /\ fault' = NoFault
    /\ isize' = [i \in Inodes |-> IF i \in DOMAIN md THEN md[i] ELSE 0]
    /\ UNCHANGED <<store, torn, threads>>

Start(t) == BeginCreate(t) \/ BeginWrite(t) \/ BeginRead(t) \/ BeginTruncate(t)
            \/ TruncateByPath(t) \/ OpenTrunc(t) \/ Fallocate(t)

Step(t) ==
    \/ FindMdForWrite(t) \/ PipeFails(t) \/ FindMdForRead(t) \/ FindMdForTruncate(t)
    \/ NewData(t) \/ NewDataClash(t) \/ MaxOrder(t) \/ NewLookup(t)
    \/ InsertMd(t) \/ InsertMdClash(t)
    \/ FindLookup(t) \/ FindLookupFails(t)
    \/ FindDataForWrite(t) \/ FindDataForRead(t) \/ FindDataFails(t)
    \/ UpdateData(t) \/ SetSize(t)
    \/ FindIds(t) \/ DelLookup(t) \/ DelData(t) \/ Reply(t)

Next == (\E t \in Threads : Start(t) \/ Step(t)) \/ Kill \/ Mount

Spec == Init /\ [][Next]_vars

\* libfuse's threads are scheduled and MongoDB answers: a call that has begun
\* keeps stepping.  Nothing makes the kernel send another one.
FairSpec == Spec /\ \A t \in Threads : WF_vars(Step(t))
-----------------------------------------------------------------------------
(* Properties.                                                               *)

Ops == {"none", "create", "write", "read", "truncate"}
Causes == {"none", "dup_data", "dup_inode", "assert_lookup", "assert_data", "assert_fd", "null_ffi"}
FaultTypes == [cause : Causes, op : Ops, inode : Inodes \cup {NoInode}]
RequestTypes ==
    [op : Ops, inode : Inodes \cup {NoInode},
     off : Nat, size : Nat, bufs : Seq(Seq(Bytes))]
LocalTypes ==
    [cur : Nat, idx : Nat, fp : Nat, need : Nat, id : DataIds \cup {NoId}, order : Nat,
     blk : Block, total : Nat, gone : SUBSET DataIds, out : Seq(Bytes)]

\* Every collection holds documents of its schema and every thread variables
\* of their declared types.
TypeOK ==
    /\ DOMAIN md \subseteq Inodes  /\ md \in [DOMAIN md -> Nat]
    /\ lookup \subseteq Entry
    /\ DOMAIN data \subseteq DataIds  /\ data \in [DOMAIN data -> Block]
    /\ isize \in [Inodes -> Nat]
    /\ up \in BOOLEAN  /\ mounts \in Nat  /\ torn \subseteq Inodes
    /\ fault \in FaultTypes
    /\ pc \in [Threads -> Labels]
    /\ call \in [Threads -> RequestTypes]
    /\ loc \in [Threads -> LocalTypes]

\* Every lookup document leads to a block: the data is inserted before the
\* lookup document and deleted after it, whatever else runs or crashes between
\* the two (create_next_data_lookup_entries, remove_data_lookup_entries_above).
NoDangling == \A e \in lookup : e.id \in DOMAIN data

\* No block belongs to two places of the file system, so that a write to one
\* file never shows in another; fs_lookup has no index that would forbid it.
NoSharing == \A e, f \in lookup : e.id = f.id => e = f

\* The blocks of a file are numbered 0 .. k-1 without gap or duplicate,
\* although get_max_order and the insert are two round trips and no index of
\* fs_lookup is unique.
BlocksInOrder ==
    /\ \A e, f \in lookup : e.inode = f.inode /\ e.order = f.order => e = f
    /\ \A e \in lookup : \A n \in 0 .. e.order : n \in Orders(e.inode)

\* The size in the metadata never runs ahead of the blocks: the block of
\* position file_size exists, so that read_entry_with_inode_order finds every
\* block a size allows.  Not so inside a shrink or under an intruding create,
\* nor for good in a file that such a call, cut short, left behind.
Covered == \A i \in DOMAIN md \ torn : Hurt(i) \/ OrderOf(md[i]) \in Orders(i)

\* Nor do the blocks run ahead of the size once the calls on a file are over.
NoExtraBlocks ==
    up /\ mounts = 1 =>
        \A e \in lookup :
            \/ \E t \in Threads : call[t].inode = e.inode /\ call[t].op # "read"
            \/ e.inode \in DOMAIN md /\ e.order <= OrderOf(md[e.inode])

\* While the daemon has not crashed every block is in a file, about to be put
\* in one, or about to be removed.
Pending(t) == IF pc[t] \in {"max_order", "new_lookup"} THEN {loc[t].id} ELSE {}
Removing(t) == IF pc[t] = "del_data" THEN loc[t].gone ELSE {}
NoLeak ==
    up /\ mounts = 1 =>
        DOMAIN data = Linked \cup UNION {Pending(t) \cup Removing(t) : t \in Threads}

\* No assert on a document found fails in a call that holds the kernel's inode
\* lock, unless its file was damaged: ids that clash hurt no file but the one
\* whose inode was drawn again.
ModifiersNeverAssert ==
    fault.cause \in {"assert_lookup", "assert_data"} => fault.op = "read" \/ fault.inode \in torn

\* The assert of read_entry_with_inode_order, which takes it for granted that
\* the block asked for exists (fs_lookup_collection.cpp:68).
LookupFound == fault.cause # "assert_lookup"

Readable(i, p) == OrderOf(p) \in Orders(i)
ByteAt(i, p) == LET e == CHOOSE f \in Entries(i) : f.order = OrderOf(p)
                IN  data[e.id][p % BLOCK_SIZE]
Holds(i, off, bytes) ==
    \A n \in DOMAIN bytes : Readable(i, off + n - 1) /\ ByteAt(i, off + n - 1) = bytes[n]

\* A write of one buffer that is about to report its bytes written has stored
\* them at the offset asked for and within the file's size, whatever ran beside.
WriteStored ==
    \A t \in Threads : pc[t] = "reply" /\ call[t].op = "write" /\ Len(call[t].bufs) = 1 =>
        LET bytes == FlattenSeq(call[t].bufs)
        IN  /\ loc[t].total = Len(bytes)
            /\ md[call[t].inode] >= call[t].off + Len(bytes)
            /\ Holds(call[t].inode, call[t].off, bytes)

\* The kernel never takes a file for longer than its metadata says, so that the
\* positions it lets a program read exist, unless fallocate told it so.
KernelSizeInside ==
    \A i \in DOMAIN md : up /\ isize[i] > md[i] =>
        isize[i] \in AllocSizes \/ \E t \in Threads : call[t].op = "truncate" /\ call[t].inode = i

\* A write to a file that an open with O_TRUNC emptied replaces what was in it
\* (README.md:11, echo <data> > <file_name>).
RedirectReplaces ==
    \A t \in Threads : pc[t] = "reply" /\ call[t].op = "write" /\ isize[call[t].inode] = 0 =>
        md[call[t].inode] = call[t].off + loc[t].total

\* A read that returns has the bytes of the file, and zeros past its end.
ReturnsFile(t) ==
    pc[t] = "reply" /\ call[t].op = "read" =>
        LET c == call[t]
            reply == Padded(loc[t].out, c.size)
        IN  \A n \in 1 .. c.size :
                reply[n] = IF c.off + n - 1 < md[c.inode] THEN ByteAt(c.inode, c.off + n - 1) ELSE Zero

\* A byte of a file's blocks, inside its size or past it, changes only in a
\* write with a buffer for its position, although a write replaces whole blocks
\* it read earlier; and a block that joins a file is all zeros.  So a file that
\* grows shows zeros or what it held itself at that position, never the bytes
\* of another file.
ChangesOnlyInRange ==
    \A e \in lookup', q \in Positions :
        \/ e \in lookup  /\ data'[e.id][q] = data[e.id][q]
        \/ e \notin lookup  /\ data'[e.id][q] = Zero
        \/ \E t \in Threads : /\ call[t].op = "write"  /\ call[t].inode = e.inode
                              /\ \E k \in DOMAIN call[t].bufs :
                                    e.order * BLOCK_SIZE + q \in call[t].off .. BufEnd(call[t], k) - 1
WritesStayInRange == [][ChangesOnlyInRange]_vars

\* Only a truncate makes a file shorter: a write that works with the size it
\* read at its head never takes back an extension.
ShrinksOnlyByTruncate ==
    \A i \in DOMAIN md : md'[i] < md[i] =>
        \E t \in Threads : call[t].op = "truncate" /\ call[t].inode = i
OnlyTruncateShrinks == [][ShrinksOnlyByTruncate]_vars

\* Every call returns, or the daemon dies: the block loops end.
EveryCallReturns == \A t \in Threads : pc[t] # "idle" ~> pc[t] = "idle"
=============================================================================

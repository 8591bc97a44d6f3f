--------------------------- MODULE FileSystemProofs ---------------------------
(* Theorems about FileSystem.  Its fs_lookup and fs_data, its sizes and its  *)
(* data calls have here the names that BlockStore gives them, so that what   *)
(* is proved of BlockStore's steps can be used; F is FileSystem with those   *)
(* variables, and with others for the half that Namespace describes.         *)
EXTENDS BlockStoreCoverProofs

CONSTANTS Roots, ZeroInode, Names, MaxDepth, MaxHandles, MaxRenames

VARIABLES docs, blocked, root, stage, nfault, dentries, node, made, handles, renames, npc, ncall, nloc, lock, twice

F == INSTANCE FileSystemInv WITH
        Zero <- ZeroInode, md <- docs, fault <- nfault, pc <- npc, call <- ncall, loc <- nloc,
        ZeroByte <- Zero, sizes <- md, dfault <- fault, dpc <- pc, dcall <- call, dloc <- loc

-----------------------------------------------------------------------------
(* The data steps of FileSystem are those of BlockStore.                     *)

\* What the two halves say of threads and blocks is the same.
LEMMA SameHelpers ==
    /\ F!Data!daemon = daemon  /\ F!Data!store = store  /\ F!Data!threads = threads
    /\ F!Data!NoCall = NoCall  /\ F!Data!NoLocals = NoLocals  /\ F!Data!NoFault = NoFault
    /\ F!Data!ZeroBlock = ZeroBlock
    /\ \A i : F!Data!Orders(i) = Orders(i) /\ F!Data!Entries(i) = Entries(i)
    /\ \A i : F!Data!KernelLocked(i) = KernelLocked(i)
    /\ \A i, n : F!Data!EntriesFrom(i, n) = EntriesFrom(i, n)
    /\ \A n : F!Data!Blocks(n) = Blocks(n) /\ F!Data!OrderOf(n) = OrderOf(n) /\ F!Data!BlockEnd(n) = BlockEnd(n)
BY DEF F!Data!daemon, daemon, F!Data!store, store, F!Data!threads, threads, F!Data!NoCall, NoCall,
       F!Data!NoLocals, NoLocals, F!Data!NoFault, NoFault, F!Data!ZeroBlock, ZeroBlock,
       F!Data!Positions, Positions, F!Data!Orders, Orders, F!Data!Entries, Entries,
       F!Data!KernelLocked, KernelLocked, F!Data!Modifies, Modifies, F!Data!EntriesFrom, EntriesFrom,
       F!Data!Blocks, Blocks, F!Data!OrderOf, OrderOf, F!Data!BlockEnd, BlockEnd

\* ... and of how buffers, bytes and orders are computed.
LEMMA SameOperators ==
    /\ \A i : F!Data!NextOrder(i) = NextOrder(i)
    /\ \A c, k : F!Data!BufEnd(c, k) = BufEnd(c, k)
    /\ \A c, l, k : F!Data!EnterBuffer(c, l, k) = EnterBuffer(c, l, k)
    /\ \A l, label : F!Data!GrowOr(l, label) = GrowOr(l, label)
    /\ \A op : F!Data!AfterGrowth(op) = AfterGrowth(op)
    /\ \A fp, stop : F!Data!AfterBlock(fp, stop) = AfterBlock(fp, stop)
    /\ \A a, b : F!Data!Least(a, b) = Least(a, b) /\ F!Data!Greatest(a, b) = Greatest(a, b)
    /\ \A block, fp, off, buf : F!Data!Patch(block, fp, off, buf) = Patch(block, fp, off, buf)
    /\ \A block, fp, last : F!Data!Slice(block, fp, last) = Slice(block, fp, last)
    /\ \A t : F!Data!Wanted(t) = Wanted(t)
<1>1. \A a, b : F!Data!Least(a, b) = Least(a, b) /\ F!Data!Greatest(a, b) = Greatest(a, b)
  BY DEF F!Data!Least, Least, F!Data!Greatest, Greatest
<1>2. \A fp, stop : F!Data!AfterBlock(fp, stop) = AfterBlock(fp, stop)
  BY <1>1, SameHelpers DEF F!Data!AfterBlock, AfterBlock
<1>3. \A c, k : F!Data!BufEnd(c, k) = BufEnd(c, k)
  BY DEF F!Data!BufEnd, BufEnd
<1>4. \A c, l, k : F!Data!EnterBuffer(c, l, k) = EnterBuffer(c, l, k)
  BY <1>1, <1>3, SameHelpers, Zenon DEF F!Data!EnterBuffer, EnterBuffer
<1>5. /\ \A l, label : F!Data!GrowOr(l, label) = GrowOr(l, label)
      /\ \A op : F!Data!AfterGrowth(op) = AfterGrowth(op)
  BY DEF F!Data!GrowOr, GrowOr, F!Data!AfterGrowth, AfterGrowth
<1>6. \A block, fp, off, buf : F!Data!Patch(block, fp, off, buf) = Patch(block, fp, off, buf)
  <2>1. F!Data!Positions = Positions /\ \A n : F!Data!OrderOf(n) = OrderOf(n)
    BY SameHelpers, Zenon DEF F!Data!Positions, Positions
  <2> SUFFICES ASSUME NEW block, NEW fp, NEW off, NEW buf
               PROVE  F!Data!Patch(block, fp, off, buf) = Patch(block, fp, off, buf)
    OBVIOUS
  <2>2. /\ F!Data!OrderOf(fp) = OrderOf(fp)
        /\ F!Data!AfterBlock(fp, off + Len(buf)) = AfterBlock(fp, off + Len(buf))
    BY <1>2, <2>1, Zenon
  <2> QED
    BY <2>1, <2>2 DEF F!Data!Patch, Patch
<1>7. \A block, fp, last : F!Data!Slice(block, fp, last) = Slice(block, fp, last)
  BY DEF F!Data!Slice, Slice
<1>8. \A i : F!Data!NextOrder(i) = NextOrder(i)
  <2>1. \A S : F!Data!Max(S) = Max(S)
    BY Zenon DEF F!Data!Max, Max
  <2> QED
    BY <2>1, SameHelpers DEF F!Data!NextOrder, NextOrder
<1>9. \A t : F!Data!Wanted(t) = Wanted(t)
  BY SameHelpers DEF F!Data!Wanted, Wanted
<1> QED
  BY <1>1, <1>2, <1>3, <1>4, <1>5, <1>6, <1>7, <1>8, <1>9

\* The daemon dies in the same way, and damages the same files.
LEMMA SameDeaths ==
    /\ F!Data!Die <=> Die
    /\ \A t, cause : F!Data!Abort(t, cause) <=> Abort(t, cause)
<1>1. F!Data!Die <=> Die
  <2>1. \A i : F!Data!Hurt(i) <=> Hurt(i)
    BY SameHelpers DEF F!Data!Hurt, Hurt, F!Data!Shrinking, Shrinking, F!Data!Intruding, Intruding
  <2> QED
    BY <2>1, SameHelpers DEF F!Data!Die, Die, F!Data!store, store
<1> QED
  BY <1>1 DEF F!Data!Abort, Abort

\* Requests begin in the same way.
LEMMA SameStarts ==
    ASSUME NEW t \in Threads
    PROVE  /\ \A label, c, n : F!Data!Begin(t, label, c, n) <=> Begin(t, label, c, n)
           /\ \A i : F!Data!SendWrite(t, i) <=> SendWrite(t, i)
           /\ \A i, offsets : F!Data!SendRead(t, i, offsets) <=> SendRead(t, i, offsets)
           /\ \A i : F!Data!SendTruncate(t, i) <=> SendTruncate(t, i)
           /\ F!Data!OpenTrunc(t) => Start(t)
<1>1. \A label, c, n : F!Data!Begin(t, label, c, n) <=> Begin(t, label, c, n)
  BY SameHelpers DEF F!Data!Begin, Begin, F!Data!Goto, Goto, F!Data!store, store, F!Data!daemon, daemon
<1>2. \A i : F!Data!SendWrite(t, i) <=> SendWrite(t, i)
  BY <1>1, SameHelpers DEF F!Data!SendWrite, SendWrite
<1>3. \A i, offsets : F!Data!SendRead(t, i, offsets) <=> SendRead(t, i, offsets)
  BY <1>1, SameHelpers DEF F!Data!SendRead, SendRead
<1>4. \A i : F!Data!SendTruncate(t, i) <=> SendTruncate(t, i)
  BY <1>1, SameHelpers DEF F!Data!SendTruncate, SendTruncate
<1>5. F!Data!OpenTrunc(t) => OpenTrunc(t)
  BY SameHelpers DEF F!Data!OpenTrunc, OpenTrunc, F!Data!store, store, F!Data!daemon, daemon,
       F!Data!threads, threads
<1> QED
  BY <1>1, <1>2, <1>3, <1>4, <1>5 DEF Start

\* Every round trip of a data call is one of BlockStore's.
LEMMA SameSteps ==
    ASSUME NEW t \in Threads
    PROVE  /\ F!Data!NewLookup(t) <=> NewLookup(t)
           /\ F!Data!InsertMd(t) <=> InsertMd(t)
           /\ F!Data!Step(t) <=> Step(t)
<1>0. \A label, l : F!Data!Goto(t, label, l) <=> Goto(t, label, l)
  BY DEF F!Data!Goto, Goto
<1>1. F!Data!FindMdForWrite(t) <=> FindMdForWrite(t)
  BY <1>0, SameHelpers, SameOperators DEF F!Data!FindMdForWrite, FindMdForWrite,
       F!Data!store, store, F!Data!daemon, daemon
<1>2. F!Data!FindMdForRead(t) <=> FindMdForRead(t)
  BY <1>0, SameHelpers DEF F!Data!FindMdForRead, FindMdForRead,
       F!Data!store, store, F!Data!daemon, daemon
<1>3. F!Data!FindMdForTruncate(t) <=> FindMdForTruncate(t)
  BY <1>0, SameHelpers DEF F!Data!FindMdForTruncate, FindMdForTruncate,
       F!Data!store, store, F!Data!daemon, daemon
<1>4. F!Data!NewData(t) <=> NewData(t)
  BY <1>0, SameHelpers DEF F!Data!NewData, NewData,
       F!Data!store, store, F!Data!daemon, daemon
<1>5. F!Data!MaxOrder(t) <=> MaxOrder(t)
  BY <1>0, SameHelpers, SameOperators DEF F!Data!MaxOrder, MaxOrder,
       F!Data!store, store, F!Data!daemon, daemon
<1>6. F!Data!NewLookup(t) <=> NewLookup(t)
  BY <1>0, SameHelpers, SameOperators DEF F!Data!NewLookup, NewLookup,
       F!Data!store, store, F!Data!daemon, daemon
<1>7. F!Data!InsertMd(t) <=> InsertMd(t)
  BY <1>0, SameHelpers DEF F!Data!InsertMd, InsertMd,
       F!Data!store, store, F!Data!daemon, daemon
<1>8. F!Data!FindLookup(t) <=> FindLookup(t)
  BY <1>0, SameHelpers, SameOperators DEF F!Data!FindLookup, FindLookup,
       F!Data!store, store, F!Data!daemon, daemon
<1>9. F!Data!FindDataForWrite(t) <=> FindDataForWrite(t)
  BY <1>0, SameHelpers, SameOperators DEF F!Data!FindDataForWrite, FindDataForWrite,
       F!Data!store, store, F!Data!daemon, daemon
<1>10. F!Data!FindDataForRead(t) <=> FindDataForRead(t)
  BY <1>0, SameHelpers, SameOperators DEF F!Data!FindDataForRead, FindDataForRead,
       F!Data!store, store, F!Data!daemon, daemon
<1>11. F!Data!UpdateData(t) <=> UpdateData(t)
  BY <1>0, SameHelpers, SameOperators DEF F!Data!UpdateData, UpdateData,
       F!Data!store, store, F!Data!daemon, daemon
<1>12. F!Data!SetSize(t) <=> SetSize(t)
  BY <1>0, SameHelpers DEF F!Data!SetSize, SetSize,
       F!Data!store, store, F!Data!daemon, daemon
<1>13. F!Data!FindIds(t) <=> FindIds(t)
  BY <1>0, SameHelpers DEF F!Data!FindIds, FindIds,
       F!Data!store, store, F!Data!daemon, daemon
<1>14. F!Data!DelLookup(t) <=> DelLookup(t)
  BY <1>0, SameHelpers DEF F!Data!DelLookup, DelLookup,
       F!Data!store, store, F!Data!daemon, daemon
<1>15. F!Data!DelData(t) <=> DelData(t)
  BY <1>0, SameHelpers DEF F!Data!DelData, DelData,
       F!Data!store, store, F!Data!daemon, daemon
<1>16. F!Data!Reply(t) <=> Reply(t)
  BY <1>0, SameHelpers, SameOperators DEF F!Data!Reply, Reply,
       F!Data!store, store, F!Data!daemon, daemon
<1>17. /\ F!Data!PipeFails(t) <=> PipeFails(t)
       /\ F!Data!NewDataClash(t) <=> NewDataClash(t)
       /\ F!Data!InsertMdClash(t) <=> InsertMdClash(t)
       /\ F!Data!FindLookupFails(t) <=> FindLookupFails(t)
       /\ F!Data!FindDataFails(t) <=> FindDataFails(t)
  BY SameDeaths, SameOperators
     DEF F!Data!PipeFails, PipeFails, F!Data!NewDataClash, NewDataClash, F!Data!InsertMdClash, InsertMdClash,
         F!Data!FindLookupFails, FindLookupFails, F!Data!FindDataFails, FindDataFails
<1> QED
  BY <1>1, <1>2, <1>3, <1>4, <1>5, <1>6, <1>7, <1>8, <1>9, <1>10, <1>11, <1>12, <1>13, <1>14, <1>15,
     <1>16, <1>17 DEF F!Data!Step, Step

-----------------------------------------------------------------------------
(* First blocks.                                                             *)
First ==
    /\ \A e \in lookup : 0 \in Orders(e.inode)
    /\ \A t \in Threads : pc[t] = "new_lookup" => loc[t].order = 0 \/ 0 \in Orders(call[t].inode)

BlockInv == TypeInv /\ LinkInv /\ CoverInv /\ First
KeepsFirsts == \A i : 0 \in Orders(i) => 0 \in Orders(i)'

\* First is FileSystemInv's part about them.
LEMMA FirstIsFirst == F!FirstOK <=> First
BY SameHelpers DEF F!FirstOK, First

\* A step that leaves fs_lookup alone, and after which the thread has no order
\* to insert.
LEMMA FirstFrame ==
    ASSUME TypeOK, First, NEW t \in Threads, NEW label, label # "new_lookup", NEW l, Goto(t, label, l),
           UNCHANGED lookup, \A u \in Threads \ {t} : call'[u] = call[u]
    PROVE  First' /\ KeepsFirsts
<1>1. \A i : Orders(i)' = Orders(i)
  BY DEF Orders, Entries
<1>2. pc'[t] = label /\ \A u \in Threads \ {t} : pc'[u] = pc[u] /\ loc'[u] = loc[u]
  BY GotoEffect
<1>3. \A e \in lookup' : 0 \in Orders(e.inode)'
  BY <1>1 DEF First
<1>4. ASSUME NEW u \in Threads, pc'[u] = "new_lookup"
      PROVE  (loc[u].order = 0 \/ 0 \in Orders(call[u].inode))'
  <2>1. u # t
    BY <1>2, <1>4
  <2> QED
    BY <1>1, <1>2, <1>4, <2>1 DEF First
<1> QED
  BY <1>1, <1>3, <1>4 DEF First, KeepsFirsts

\* When the daemon dies, or nothing happens to the calls and fs_lookup.
LEMMA FirstQuiet ==
    ASSUME First, UNCHANGED lookup, Die \/ UNCHANGED <<pc, call, loc>>
    PROVE  First' /\ KeepsFirsts
<1>1. \A i : Orders(i)' = Orders(i)
  BY DEF Orders, Entries
<1>2. CASE Die
  BY <1>1, <1>2 DEF First, KeepsFirsts, Die
<1>3. CASE UNCHANGED <<pc, call, loc>>
  BY <1>1, <1>3 DEF First, KeepsFirsts
<1> QED
  BY <1>2, <1>3

\* The order to insert is 0 or follows one that is there.
LEMMA FirstMaxOrder ==
    ASSUME BlockInv, NEW t \in Threads, MaxOrder(t)
    PROVE  First' /\ KeepsFirsts
<1> DEFINE l == [loc[t] EXCEPT !.order = NextOrder(call[t].inode)]
<1>1. Goto(t, "new_lookup", l) /\ UNCHANGED <<lookup, call>>
  BY DEF MaxOrder, store
<1>2. \A i : Orders(i)' = Orders(i)
  BY <1>1 DEF Orders, Entries
<1>3. loc[t] \in LocalTypes /\ TypeOK
  BY ThreadTypes DEF BlockInv, TypeInv
<1>4. l.order = NextOrder(call[t].inode)
  BY <1>3 DEF LocalTypes
<1>5. l.order = 0 \/ 0 \in Orders(call[t].inode)
  BY <1>4 DEF NextOrder, BlockInv, First, Entries
<1> HIDE DEF l
<1>6. /\ pc'[t] = "new_lookup"  /\ loc'[t] = l
      /\ \A u \in Threads \ {t} : pc'[u] = pc[u] /\ loc'[u] = loc[u]
  BY <1>1, <1>3, GotoEffect
<1>7. ASSUME NEW u \in Threads, pc'[u] = "new_lookup"
      PROVE  (loc[u].order = 0 \/ 0 \in Orders(call[u].inode))'
  BY <1>1, <1>2, <1>5, <1>6, <1>7 DEF BlockInv, First
<1> QED
  BY <1>1, <1>2, <1>7 DEF BlockInv, First, KeepsFirsts

\* The insert makes an order of the file be there, and with it the first.
LEMMA FirstNewLookup ==
    ASSUME BlockInv, NEW t \in Threads, NewLookup(t)
    PROVE  First' /\ KeepsFirsts /\ 0 \in Orders(call[t].inode)'
<1> DEFINE e == [inode |-> call[t].inode, order |-> loc[t].order, id |-> loc[t].id]
           l == [loc[t] EXCEPT !.id = NoId, !.order = 0, !.need = @ - 1]
           label == GrowOr(l, AfterGrowth(call[t].op))
<1>1. /\ pc[t] = "new_lookup"  /\ lookup' = lookup \cup {e}  /\ Goto(t, label, l)  /\ UNCHANGED call
  BY DEF NewLookup
<1>2. \A i, n : n \in Orders(i) => n \in Orders(i)'
  BY <1>1 DEF Orders, Entries
<1>3. loc[t].order \in Orders(call[t].inode)'
  <2>1. e \in lookup' /\ e.inode = call'[t].inode /\ e.order = loc[t].order
    BY <1>1
  <2> QED
    BY <2>1 DEF Orders, Entries
<1>4. 0 \in Orders(call[t].inode)'
  BY <1>1, <1>2, <1>3 DEF BlockInv, First
<1>5. label # "new_lookup"
  <2>1. call[t].op \in {"create", "write", "truncate"}
    BY <1>1, ThreadTypes DEF BlockInv, ControlAt, MakesTrip, Growing, Linking, Copying, Cutting
  <2> QED
    BY <2>1 DEF GrowOr, AfterGrowth
<1>6. \A f \in lookup' : 0 \in Orders(f.inode)'
  BY <1>1, <1>2, <1>4 DEF BlockInv, First
<1> HIDE DEF l, label
<1>7. pc'[t] = label /\ \A u \in Threads \ {t} : pc'[u] = pc[u] /\ loc'[u] = loc[u]
  BY <1>1, GotoEffect DEF BlockInv, TypeInv
<1>8. ASSUME NEW u \in Threads, pc'[u] = "new_lookup"
      PROVE  (loc[u].order = 0 \/ 0 \in Orders(call[u].inode))'
  BY <1>1, <1>2, <1>5, <1>7, <1>8 DEF BlockInv, First
<1> QED
  BY <1>2, <1>4, <1>6, <1>8 DEF First, KeepsFirsts

\* A truncate deletes no order below the count of blocks of its size, which is
\* never 0.
LEMMA FirstDelLookup ==
    ASSUME BlockInv, NEW t \in Threads, DelLookup(t)
    PROVE  First' /\ KeepsFirsts
<1> DEFINE n == Blocks(call[t].size)
           label == IF loc[t].gone = {} THEN "set_size" ELSE "del_data"
<1>1. lookup' = lookup \ EntriesFrom(call[t].inode, n) /\ Goto(t, label, loc[t]) /\ UNCHANGED call
  BY DEF DelLookup
<1>2. call[t].size \in Nat
  BY ThreadTypes DEF BlockInv, RequestTypes
<1>3. n \in Nat /\ n >= 1
  BY <1>2, BlocksMonotone
<1> HIDE DEF n
<1>4. \A i : 0 \in Orders(i) => 0 \in Orders(i)'
  <2> SUFFICES ASSUME NEW i, NEW e \in lookup, e.inode = i, e.order = 0
               PROVE  e \in lookup'
    BY DEF Orders, Entries
  <2> QED
    BY <1>1, <1>3 DEF EntriesFrom
<1>5. \A e \in lookup' : 0 \in Orders(e.inode)'
  BY <1>1, <1>4 DEF BlockInv, First
<1>6. pc'[t] = label /\ \A u \in Threads \ {t} : pc'[u] = pc[u] /\ loc'[u] = loc[u]
  BY <1>1, GotoEffect DEF BlockInv, TypeInv
<1>7. ASSUME NEW u \in Threads, pc'[u] = "new_lookup"
      PROVE  (loc[u].order = 0 \/ 0 \in Orders(call[u].inode))'
  BY <1>1, <1>4, <1>6, <1>7 DEF BlockInv, First
<1> QED
  BY <1>4, <1>5, <1>7 DEF First, KeepsFirsts

\* Every round trip keeps first blocks.
LEMMA FirstStep ==
    ASSUME BlockInv, NEW t \in Threads, Step(t)
    PROVE  First' /\ KeepsFirsts
<1>1. TypeOK /\ First
  BY DEF BlockInv, TypeInv
<1>2. CASE MaxOrder(t)
  BY <1>2, FirstMaxOrder
<1>3. CASE NewLookup(t)
  BY <1>3, FirstNewLookup
<1>4. CASE DelLookup(t)
  BY <1>4, FirstDelLookup
<1>5. CASE PipeFails(t) \/ NewDataClash(t) \/ InsertMdClash(t) \/ FindLookupFails(t) \/ FindDataFails(t)
  BY <1>1, <1>5, FirstQuiet
     DEF PipeFails, NewDataClash, InsertMdClash, FindLookupFails, FindDataFails, Abort, Die, store
<1>6. CASE FindMdForWrite(t) \/ FindMdForRead(t) \/ FindMdForTruncate(t)
  <2>1. /\ UNCHANGED <<lookup, call>>
        /\ \E label, l : label # "new_lookup" /\ Goto(t, label, l)
    BY <1>6 DEF FindMdForWrite, FindMdForRead, FindMdForTruncate, GrowOr, store
  <2> QED
    BY <1>1, <2>1, FirstFrame
<1>7. CASE NewData(t) \/ InsertMd(t) \/ FindLookup(t) \/ FindDataForWrite(t) \/ FindDataForRead(t)
  <2>1. /\ UNCHANGED <<lookup, call>>
        /\ \E label, l : label # "new_lookup" /\ Goto(t, label, l)
    BY <1>7 DEF NewData, InsertMd, FindLookup, FindDataForWrite, FindDataForRead, store
  <2> QED
    BY <1>1, <2>1, FirstFrame
<1>8. CASE UpdateData(t) \/ SetSize(t) \/ FindIds(t) \/ DelData(t)
  <2>1. /\ UNCHANGED <<lookup, call>>
        /\ \E label, l : label # "new_lookup" /\ Goto(t, label, l)
    BY <1>8 DEF UpdateData, SetSize, FindIds, DelData, GrowOr, store
  <2> QED
    BY <1>1, <2>1, FirstFrame
<1>9. CASE Reply(t)
  <2>1. UNCHANGED lookup /\ Goto(t, "idle", NoLocals) /\ call' = [call EXCEPT ![t] = NoCall]
    BY <1>9 DEF Reply, store
  <2>2. \A u \in Threads \ {t} : call'[u] = call[u]
    BY <1>1, <2>1 DEF TypeOK
  <2> QED
    BY <1>1, <2>1, <2>2, FirstFrame
<1> QED
  BY <1>2, <1>3, <1>4, <1>5, <1>6, <1>7, <1>8, <1>9 DEF Step

-----------------------------------------------------------------------------
(* What is proved of BlockStore, for the steps of FileSystem.                *)

\* A round trip of a data call.
LEMMA StepBlocks ==
    ASSUME BlockInv, NEW t \in Threads, Step(t)
    PROVE  BlockInv' /\ KeepsFirsts
BY StepTypes, StepLinks, StepCover, FirstStep DEF BlockInv

\* A data request.
LEMMA StartBlocks ==
    ASSUME BlockInv, NEW t \in Threads, Start(t)
    PROVE  BlockInv' /\ KeepsFirsts
<1>1. TypeOK /\ First
  BY DEF BlockInv, TypeInv
<1>2. ASSUME NEW label, NEW c, NEW n, label # "new_lookup", Begin(t, label, c, n)
      PROVE  First' /\ KeepsFirsts
  <2>1. /\ UNCHANGED lookup  /\ \E l : Goto(t, label, l)
        /\ \A u \in Threads \ {t} : call'[u] = call[u]
    BY <1>1, <1>2 DEF Begin, store, TypeOK
  <2> QED
    BY <1>1, <1>2, <2>1, FirstFrame
<1>3. ASSUME TruncateByPath(t) \/ OpenTrunc(t) \/ Fallocate(t)
      PROVE  First' /\ KeepsFirsts
  <2>1. UNCHANGED lookup /\ (Die \/ UNCHANGED <<pc, call, loc>>)
    BY <1>3 DEF TruncateByPath, OpenTrunc, Fallocate, Die, store, threads
  <2> QED
    BY <1>1, <2>1, FirstQuiet
<1>4. First' /\ KeepsFirsts
  BY <1>2, <1>3 DEF Start, BeginCreate, BeginWrite, SendWrite, BeginRead, SendRead, BeginTruncate, SendTruncate
<1> QED
  BY <1>4, StartTypes, StartLinks, StartCover DEF BlockInv

\* A create that begins to link its block, whichever inode it has drawn.
LEMMA CreateBlocks ==
    ASSUME BlockInv, NEW t \in Threads, NEW i \in Inodes,
           Begin(t, "new_data", [NoCall EXCEPT !.op = "create", !.inode = i], 1)
    PROVE  BlockInv' /\ KeepsFirsts
<1> DEFINE c == [NoCall EXCEPT !.op = "create", !.inode = i]
<1>1. c \in RequestTypes /\ c.op = "create" /\ c.inode = i
  BY IdleTypes DEF RequestTypes, NoCall, Ops
<1>2. Begin(t, "new_data", c, 1) /\ TypeOK
  BY DEF BlockInv, TypeInv
<1> HIDE DEF c
<1>3. \A l \in LocalTypes : l.need = 1 => ControlAt(c, "new_data", l)
  BY <1>1 DEF ControlAt, MakesTrip, Growing, Linking
<1>4. TypeInv'
  BY <1>1, <1>2, <1>3, BeginTypes DEF BlockInv, Labels
<1>5. LinkInv' /\ CoverInv'
  BY <1>1, <1>2, BeginLinks, BeginCover DEF BlockInv, Modifies
<1>6. /\ UNCHANGED lookup  /\ \E l : Goto(t, "new_data", l)
      /\ \A u \in Threads \ {t} : call'[u] = call[u]
  BY <1>2 DEF Begin, store, TypeOK
<1>7. First' /\ KeepsFirsts
  BY <1>2, <1>6, FirstFrame DEF BlockInv
<1> QED
  BY <1>4, <1>5, <1>7 DEF BlockInv

\* The daemon dies of a call of the other half, or is killed.
LEMMA DieBlocks ==
    ASSUME BlockInv, Die, fault' = NoFault
    PROVE  BlockInv' /\ KeepsFirsts
<1>1. fault' \in FaultTypes /\ ModifiersNeverAssert'
  BY DEF NoFault, FaultTypes, Causes, Ops, ModifiersNeverAssert
<1>2. UNCHANGED lookup
  BY DEF Die, store
<1> QED
  BY <1>1, <1>2, DieTypes, DieLinks, DieCover, FirstQuiet DEF BlockInv

\* A step of the other half alone, or one of init_db and mount, which may take
\* sizes out of the metadata while no call is in progress.
LEMMA RestBlocks ==
    ASSUME BlockInv, UNCHANGED <<lookup, data, torn, pc, call, loc>>,
           isize' \in [Inodes -> Nat], up' \in BOOLEAN, mounts' \in Nat, fault' \in {fault, NoFault},
           \/ md' = md
           \/ /\ \A t \in Threads : pc[t] = "idle"
              /\ \E S \in SUBSET DOMAIN md : md' = [i \in S |-> md[i]]
    PROVE  BlockInv' /\ KeepsFirsts
<1>1. TypeOK' /\ DOMAIN md' \subseteq DOMAIN md /\ \A i \in DOMAIN md' : md'[i] = md[i]
  <2>1. NoFault \in FaultTypes
    BY DEF NoFault, FaultTypes, Causes, Ops
  <2>2. /\ DOMAIN md' \subseteq DOMAIN md  /\ \A i \in DOMAIN md' : md'[i] = md[i]
        /\ md' \in [DOMAIN md' -> Nat]
    BY DEF BlockInv, TypeInv, TypeOK
  <2> QED
    BY <2>1, <2>2 DEF BlockInv, TypeInv, TypeOK, Block, Positions
<1>2. CASE md' = md
  <2>1. ControlOK' /\ OrdersBounded'
    BY <1>2 DEF BlockInv, TypeInv, ControlOK, ControlAt, OrdersBounded
  <2> QED
    BY <1>1, <1>2, <2>1, StutterLinks, StutterCover, FirstQuiet DEF BlockInv, TypeInv
<1>3. CASE \A t \in Threads : pc[t] = "idle"
  <2>1. \A t \in Threads : call[t].op = "none"
    BY <1>3, ThreadTypes DEF BlockInv, ControlAt, MakesTrip, Growing, Linking, Copying, Cutting
  <2>2. ControlOK'
    BY <1>3, <2>1 DEF BlockInv, TypeInv, ControlOK, ControlAt, Growing, Linking
  <2>3. OrdersBounded'
    BY DEF BlockInv, TypeInv, OrdersBounded
  <2>4. LinkInv' /\ First' /\ KeepsFirsts
    BY StutterLinks, FirstQuiet DEF BlockInv
  <2>5. SizedOK' /\ BackedOK'
    BY <1>3, <2>1 DEF SizedOK, SizedAt, BackedOK, BackedAt, Modifies, Growing, Linking, Copying
  <2>6. \A i : Orders(i)' = Orders(i)
    BY DEF Orders, Entries
  <2>7. \A i : ~Intruded(i) /\ ~Intruded(i)'
    BY <1>3, <2>1 DEF Intruded, Intruding
  <2>8. \A i : ~\E t \in Threads : ShrunkBy(t, i)
    BY <2>1 DEF ShrunkBy, Shrinking
  <2>9. GaplessOK' /\ CoveredOK'
    BY <1>1, <2>6, <2>7, <2>8 DEF BlockInv, CoverInv, GaplessOK, Gapless, CoveredOK, Whole
  <2>10. ModifiersNeverAssert'
    BY DEF BlockInv, CoverInv, ModifiersNeverAssert, NoFault
  <2> QED
    BY <1>1, <2>2, <2>3, <2>4, <2>5, <2>9, <2>10 DEF BlockInv, TypeInv, CoverInv
<1> QED
  BY <1>2, <1>3


-----------------------------------------------------------------------------
(* The namespace half.                                                       *)

\* Which orders a file has is the same in both, before a step and after it.
LEMMA SameOrders ==
    /\ \A i : F!Data!Orders(i) = Orders(i)
    /\ \A i : F!Data!Orders(i)' = Orders(i)'
BY DEF F!Data!Orders, F!Data!Entries, Orders, Entries

\* What a step of t does for the invariant, when it is a handler's and the
\* daemon survives it.
Others(t) ==
    \A u \in Threads \ {t} : npc'[u] = npc[u] /\ ncall'[u] = ncall[u] /\ nloc'[u] = nloc[u]
NamesGo(t) ==
    /\ stage = "up"  /\ stage' = "up"  /\ F!ShapeOK'  /\ Others(t)
    /\ DOMAIN docs \subseteq DOMAIN docs'
    /\ \A i \in F!Files : i \in F!Files'
    /\ \A i \in F!Files' : \/ i \in F!Files
                           \/ npc[t] = "insert_md" /\ ncall[t].op = "create" /\ i = nloc[t].ino
    /\ F!Answers(t)'
    /\ npc'[t] = "insert_block" => ncall'[t].op = "create" /\ nloc'[t].phase = "make"
    /\ nloc'[t].phase = "make" => nloc'[t].ino \in Inodes
    /\ npc'[t] = "insert_md" /\ ncall'[t].op = "create" =>
           /\ npc[t] = "insert_block"
           /\ nloc'[t].ino = nloc[t].ino

\* A handler goes on to another round trip, having changed no document.
LEMMA GoesOn ==
    ASSUME F!JoinInv, NEW t \in Threads, stage = "up", UNCHANGED <<docs, stage>>,
           NEW label, NEW l, F!Goto(t, label, l), DOMAIN l = F!LocalFields,
           NEW c, ncall' = [ncall EXCEPT ![t] = c],
           l.ans # NoInode => label = "reply" /\ l.ans \in DOMAIN docs,
           c.op = "create" => l.fh = ZeroInode,
           c.op = "create" /\ l.phase = "confirm" => label \in {"search", "reply"} /\ l.ans \in {NoInode, ZeroInode},
           label = "insert_block" => c.op = "create" /\ l.phase = "make",
           l.phase = "make" => l.ino \in Inodes,
           label = "insert_md" /\ c.op = "create" => npc[t] = "insert_block" /\ l.ino = nloc[t].ino
    PROVE  NamesGo(t)
<1>1. /\ npc' = [npc EXCEPT ![t] = label]  /\ nloc' = [nloc EXCEPT ![t] = l]
      /\ npc = [u \in Threads |-> npc[u]]  /\ ncall = [u \in Threads |-> ncall[u]]
      /\ nloc = [u \in Threads |-> nloc[u]]
      /\ \A u \in Threads : DOMAIN nloc[u] = F!LocalFields
  BY DEF F!Goto, F!JoinInv, F!ShapeOK
<1>2. npc'[t] = label /\ nloc'[t] = l /\ ncall'[t] = c /\ Others(t)
  BY <1>1 DEF Others
<1>3. F!ShapeOK'
  <2>1. \A u \in Threads : DOMAIN (nloc'[u]) = F!LocalFields
    BY <1>1
  <2>2. npc' = [u \in Threads |-> npc'[u]] /\ nloc' = [u \in Threads |-> nloc'[u]]
    BY <1>1
  <2>3. ncall' = [u \in Threads |-> ncall'[u]]
    BY <1>1
  <2> QED
    BY <2>1, <2>2, <2>3 DEF F!ShapeOK, F!LocalFields
<1>4. F!Files' = F!Files
  BY DEF F!Files
<1>5. F!Answers(t)'
  BY <1>2 DEF F!Answers
<1> QED
  BY <1>2, <1>3, <1>4, <1>5 DEF NamesGo

\* What the invariant says of the thread that takes a step.
LEMMA ThreadShape ==
    ASSUME F!JoinInv, NEW t \in Threads
    PROVE  /\ DOMAIN nloc[t] = F!LocalFields  /\ F!Joint(t)  /\ F!Answers(t)
           /\ ncall = [ncall EXCEPT ![t] = ncall[t]]
           /\ npc[t] # "idle" => stage = "up"
BY DEF F!JoinInv, F!ShapeOK, F!JointOK, F!AnswersOK, F!TogetherOK

\* The local variables a request starts with.
LEMMA FirstLocals ==
    /\ DOMAIN F!NoLocals = F!LocalFields
    /\ F!NoLocals.ans = NoInode  /\ F!NoLocals.phase = "lookup"  /\ F!NoLocals.fh = ZeroInode
BY DEF F!NoLocals, F!LocalFields

\* A walk changes only where a thread is; at its end a create links its block
\* and a mkdir inserts its document.
LEMMA WalkGoes ==
    ASSUME NEW t \in Threads, NEW op, NEW p, NEW l, DOMAIN l = F!LocalFields, F!Walk(t, op, p, l)
    PROVE  \E label, m :
               /\ F!Goto(t, label, m)  /\ DOMAIN m = F!LocalFields
               /\ m.phase = l.phase  /\ m.ino = l.ino  /\ m.fh = l.fh  /\ m.ans = l.ans
               /\ label \in {"walk", "child", "insert_block", "insert_md"}
               /\ label = "insert_block" => op = "create" /\ l.phase = "make"
               /\ label = "insert_md" => op # "create"
<1> DEFINE label == IF Len(p) > 1 THEN "walk" ELSE F!Target(op, l.phase)
           m == [l EXCEPT !.cur = IF p = <<>> THEN ZeroInode ELSE root, !.k = 1]
<1>1. F!Goto(t, label, m)
  BY DEF F!Walk
<1>2. DOMAIN m = F!LocalFields /\ m.phase = l.phase /\ m.ino = l.ino /\ m.fh = l.fh /\ m.ans = l.ans
  BY DEF F!LocalFields
<1>3. /\ label \in {"walk", "child", "insert_block", "insert_md"}
      /\ label = "insert_block" => op = "create" /\ l.phase = "make"
      /\ label = "insert_md" => op # "create"
  BY DEF F!Target
<1> QED
  BY <1>1, <1>2, <1>3

\* An answer is a reply, or a make after a lookup that found nothing.
LEMMA AnswerGoes ==
    ASSUME F!JoinInv, NEW t \in Threads, NEW a, F!Answer(t, a), a # NoInode => a \in DOMAIN docs,
           UNCHANGED <<docs, stage, ncall>>, npc[t] # "idle",
           ncall[t].op = "create" /\ nloc[t].phase = "confirm" => a \in {NoInode, ZeroInode}
    PROVE  NamesGo(t)
<1> DEFINE label == IF ncall[t].op \in F!Makers /\ nloc[t].phase = "lookup" /\ a = NoInode THEN "make" ELSE "reply"
           l == [nloc[t] EXCEPT !.ans = a]
<1>1. DOMAIN nloc[t] = F!LocalFields /\ F!Joint(t) /\ F!Answers(t) /\ stage = "up"
  BY ThreadShape
<1>2. F!Goto(t, label, l)
  BY DEF F!Answer
<1>3. /\ DOMAIN l = F!LocalFields  /\ l.ans = a  /\ l.fh = nloc[t].fh
      /\ l.phase = nloc[t].phase  /\ l.ino = nloc[t].ino
  BY <1>1 DEF F!LocalFields
<1>4. label \in {"make", "reply"} /\ (label = "make" => nloc[t].phase = "lookup" /\ a = NoInode)
  OBVIOUS
<1>5. ncall' = [ncall EXCEPT ![t] = ncall[t]]
  BY ThreadShape
<1> HIDE DEF label, l
<1>6. ncall[t].op = "create" => l.fh = ZeroInode
  BY <1>1, <1>3 DEF F!Answers
<1>7. l.phase = "make" => l.ino \in Inodes
  BY <1>1, <1>3 DEF F!Joint
<1> QED
  BY <1>1, <1>2, <1>3, <1>4, <1>5, <1>6, <1>7, GoesOn

\* Every request starts a walk, a search or a listing.
LEMMA NamesStart ==
    ASSUME F!JoinInv, NEW t \in Threads, F!Start(t)
    PROVE  NamesGo(t)
<1>1. ASSUME NEW op, NEW p, NEW n, F!Begin(t, op, p, n), NEW label, NEW l, F!Goto(t, label, l),
             label \notin {"insert_block", "insert_md"}, DOMAIN l = F!LocalFields,
             l.ans = NoInode, l.phase = "lookup", op = "create" => l.fh = ZeroInode
      PROVE  NamesGo(t)
  <2>1. \E w : ncall' = [ncall EXCEPT ![t] = [op |-> op, path |-> p, node |-> n, was |-> w]]
    BY <1>1 DEF F!Begin
  <2>2. PICK w : ncall' = [ncall EXCEPT ![t] = [op |-> op, path |-> p, node |-> n, was |-> w]]
    BY <2>1
  <2>3. PICK d : d = [op |-> op, path |-> p, node |-> n, was |-> w]
    OBVIOUS
  <2>4. d.op = op /\ ncall' = [ncall EXCEPT ![t] = d]
    BY <2>2, <2>3
  <2>5. stage = "up" /\ UNCHANGED <<docs, stage>>
    BY <1>1 DEF F!Begin, F!database, F!kernel, F!daemon
  <2> QED
    BY <1>1, <2>4, <2>5, GoesOn
<1>2. ASSUME NEW op, NEW p, NEW n, F!Begin(t, op, p, n), F!Walk(t, op, p, F!NoLocals)
      PROVE  NamesGo(t)
  <2>1. PICK label, l :
            /\ F!Goto(t, label, l)  /\ DOMAIN l = F!LocalFields
            /\ l.phase = "lookup"  /\ l.fh = ZeroInode  /\ l.ans = NoInode
            /\ label \in {"walk", "child", "insert_block", "insert_md"}
            /\ label \notin {"insert_block", "insert_md"}
    <3>1. F!Target(op, "lookup") = "child"
      BY DEF F!Target
    <3>2. PICK label, l : label = (IF Len(p) > 1 THEN "walk" ELSE F!Target(op, "lookup"))
              /\ l = [F!NoLocals EXCEPT !.cur = IF p = <<>> THEN ZeroInode ELSE root, !.k = 1]
      OBVIOUS
    <3>3. F!Goto(t, label, l)
      BY <1>2, <3>2, FirstLocals DEF F!Walk
    <3>4. DOMAIN l = F!LocalFields /\ l.phase = "lookup" /\ l.fh = ZeroInode /\ l.ans = NoInode
      BY <3>2 DEF F!NoLocals, F!LocalFields
    <3>5. label \in {"walk", "child"}
      BY <3>1, <3>2
    <3>6. label \in {"walk", "child", "insert_block", "insert_md"} /\ label \notin {"insert_block", "insert_md"}
      BY <3>5
    <3> QED
      BY <3>3, <3>4, <3>6, Zenon
  <2> QED
    BY <1>1, <1>2, <2>1
<1>3. CASE F!BeginGetattr(t) \/ F!BeginMake(t)
  BY <1>2, <1>3 DEF F!BeginGetattr, F!BeginMake
<1>4. CASE F!BeginOpen(t)
  BY <1>2, <1>4 DEF F!BeginOpen
<1>5. ASSUME F!BeginFgetattr(t) \/ F!BeginReaddir(t)
      PROVE  NamesGo(t)
  <2>1. PICK op, p, n, label, f : /\ F!Begin(t, op, p, n) /\ F!Goto(t, label, [F!NoLocals EXCEPT !.fh = f])
                                  /\ op # "create"     /\ label \in {"search", "list"}
    BY <1>5 DEF F!BeginFgetattr, F!BeginReaddir
  <2>2. PICK l : l = [F!NoLocals EXCEPT !.fh = f]
    OBVIOUS
  <2>3. DOMAIN l = F!LocalFields /\ l.ans = NoInode /\ l.phase = "lookup"
    BY <2>2 DEF F!NoLocals, F!LocalFields
  <2>4. F!Goto(t, label, l) /\ label \notin {"insert_block", "insert_md"}
    BY <2>1, <2>2
  <2> QED
    BY <1>1, <2>1, <2>3, <2>4
<1>6. CASE F!Unlink(t) \/ F!Rename(t)
  <2>1. stage = "up" /\ npc[t] = "idle" /\ UNCHANGED <<docs, stage, npc, ncall, nloc>>
    BY <1>6 DEF F!Unlink, F!Rename, F!database, F!daemon
  <2>2. F!Goto(t, npc[t], nloc[t]) /\ ncall' = [ncall EXCEPT ![t] = ncall[t]]
    BY <2>1 DEF F!Goto, F!JoinInv, F!ShapeOK
  <2>3. DOMAIN nloc[t] = F!LocalFields /\ F!Joint(t) /\ F!Answers(t)
    BY ThreadShape
  <2>4. nloc[t].ans = NoInode /\ (nloc[t].phase = "make" => nloc[t].ino \in Inodes)
    BY <2>1, <2>3 DEF F!Joint, F!Answers
  <2>5. /\ ncall[t].op = "create" => nloc[t].fh = ZeroInode
        /\ ~(ncall[t].op = "create" /\ nloc[t].phase = "confirm")
    BY <2>1, <2>3 DEF F!Answers
  <2> QED
    BY <2>1, <2>2, <2>3, <2>4, <2>5, GoesOn
<1> QED
  BY <1>3, <1>4, <1>5, <1>6 DEF F!Start

\* A walk that changed the phase or the inode of a request: make and the mkdir
\* that asks for attributes.
LEMMA WalkOn ==
    ASSUME F!JoinInv, NEW t \in Threads, npc[t] # "idle", UNCHANGED <<docs, stage, ncall>>,
           NEW l, DOMAIN l = F!LocalFields, l.ans = NoInode, l.fh = nloc[t].fh,
           l.phase = "make" => l.ino \in Inodes,
           ncall[t].op = "create" => l.phase # "confirm",
           F!Walk(t, ncall[t].op, ncall[t].path, l)
    PROVE  NamesGo(t)
<1>1. F!Answers(t) /\ stage = "up" /\ ncall' = [ncall EXCEPT ![t] = ncall[t]]
  BY ThreadShape
<1>2. PICK label, m :
          /\ F!Goto(t, label, m)  /\ DOMAIN m = F!LocalFields
          /\ m.phase = l.phase  /\ m.ino = l.ino  /\ m.fh = l.fh  /\ m.ans = l.ans
          /\ label \in {"walk", "child", "insert_block", "insert_md"}
          /\ label = "insert_block" => ncall[t].op = "create" /\ l.phase = "make"
          /\ label = "insert_md" => ncall[t].op # "create"
  BY WalkGoes
<1>3. ncall[t].op = "create" => m.fh = ZeroInode
  BY <1>1, <1>2 DEF F!Answers
<1>4. /\ m.ans = NoInode  /\ (m.phase = "make" => m.ino \in Inodes)
      /\ ~(ncall[t].op = "create" /\ m.phase = "confirm")
      /\ label = "insert_block" => ncall[t].op = "create" /\ m.phase = "make"
      /\ ~(label = "insert_md" /\ ncall[t].op = "create")
  BY <1>2
<1>5. UNCHANGED <<docs, stage>> /\ F!Goto(t, label, m) /\ DOMAIN m = F!LocalFields
  BY <1>2
<1>6. m.ans # NoInode => label = "reply" /\ m.ans \in DOMAIN docs
  BY <1>4, Zenon
<1>7. ncall[t].op = "create" /\ m.phase = "confirm" => label \in {"search", "reply"} /\ m.ans \in {NoInode, ZeroInode}
  BY <1>4, Zenon
<1>8. label = "insert_md" /\ ncall[t].op = "create" => npc[t] = "insert_block" /\ m.ino = nloc[t].ino
  BY <1>4, Zenon
<1>9. /\ label = "insert_block" => ncall[t].op = "create" /\ m.phase = "make"
      /\ m.phase = "make" => m.ino \in Inodes
  BY <1>4, Zenon
<1> QED
  BY <1>1, <1>3, <1>5, <1>6, <1>7, <1>8, <1>9, GoesOn, Zenon

\* A step of a walk descends.
LEMMA WalkStepGoes ==
    ASSUME F!JoinInv, NEW t \in Threads, F!WalkStep(t)
    PROVE  NamesGo(t)
<1>1. /\ DOMAIN nloc[t] = F!LocalFields /\ F!Joint(t) /\ F!Answers(t)
      /\ npc[t] = "walk" /\ stage = "up" /\ ncall' = [ncall EXCEPT ![t] = ncall[t]]
  BY ThreadShape DEF F!WalkStep
<1>2. UNCHANGED <<docs, stage, ncall>>
  BY DEF F!WalkStep, F!database, F!kernel, F!daemon
<1>3. PICK c : LET l == [nloc[t] EXCEPT !.cur = c, !.k = @ + 1]
               IN  F!Goto(t, IF l.k = Len(ncall[t].path) THEN F!Target(ncall[t].op, l.phase) ELSE "walk", l)
  BY DEF F!WalkStep
<1>4. PICK l : l = [nloc[t] EXCEPT !.cur = c, !.k = @ + 1]
  OBVIOUS
<1>5. PICK label : label = IF l.k = Len(ncall[t].path) THEN F!Target(ncall[t].op, l.phase) ELSE "walk"
  OBVIOUS
<1>6. F!Goto(t, label, l)
  BY <1>3, <1>4, <1>5
<1>7. DOMAIN l = F!LocalFields /\ l.phase = nloc[t].phase /\ l.ino = nloc[t].ino /\ l.fh = nloc[t].fh /\ l.ans = nloc[t].ans
  BY <1>1, <1>4 DEF F!LocalFields
<1>8. /\ label = "insert_block" => ncall[t].op = "create" /\ l.phase = "make"
      /\ label = "insert_md" => ncall[t].op # "create"
  BY <1>5 DEF F!Target
<1>9. l.ans = NoInode /\ (l.phase = "make" => l.ino \in Inodes)
  BY <1>1, <1>7 DEF F!Joint, F!Answers
<1>10. /\ ncall[t].op = "create" => l.fh = ZeroInode
       /\ ~(ncall[t].op = "create" /\ l.phase = "confirm")
  BY <1>1, <1>7 DEF F!Answers
<1> QED
  BY <1>1, <1>2, <1>6, <1>7, <1>8, <1>9, <1>10, GoesOn

\* After a make, create searches for its handle and mkdir walks to its path.
LEMMA ConfirmGoes ==
    ASSUME F!JoinInv, NEW t \in Threads, npc[t] \in {"walk", "insert_md"}, F!Confirm(t)
    PROVE  \E label, m :
               /\ F!Goto(t, label, m)  /\ DOMAIN m = F!LocalFields
               /\ m.phase = "confirm"  /\ m.ino = nloc[t].ino  /\ m.fh = nloc[t].fh  /\ m.ans = NoInode
               /\ label \in {"walk", "child", "insert_md", "search"}
               /\ ncall[t].op = "create" => label = "search"
<1>1. DOMAIN nloc[t] = F!LocalFields /\ nloc[t].ans = NoInode
  BY ThreadShape DEF F!Answers
<1>2. PICK l : l = [nloc[t] EXCEPT !.phase = "confirm"]
  OBVIOUS
<1>3. DOMAIN l = F!LocalFields /\ l.phase = "confirm" /\ l.ino = nloc[t].ino /\ l.fh = nloc[t].fh /\ l.ans = NoInode
  BY <1>1, <1>2 DEF F!LocalFields
<1>4. IF ncall[t].op = "create" THEN F!Goto(t, "search", l) ELSE F!Walk(t, "mkdir", ncall[t].path, l)
  BY <1>2 DEF F!Confirm
<1>5. CASE ncall[t].op = "create"
  <2>1. F!Goto(t, "search", l)
    BY <1>4, <1>5
  <2> QED
    BY <1>3, <2>1
<1>6. CASE ncall[t].op # "create"
  <2>1. PICK label, m :
            /\ F!Goto(t, label, m)  /\ DOMAIN m = F!LocalFields
            /\ m.phase = l.phase  /\ m.ino = l.ino  /\ m.fh = l.fh  /\ m.ans = l.ans
            /\ label \in {"walk", "child", "insert_block", "insert_md"}
            /\ label = "insert_block" => "mkdir" = "create" /\ l.phase = "make"
            /\ label = "insert_md" => "mkdir" # "create"
    BY <1>3, <1>4, <1>6, WalkGoes
  <2>2. label \in {"walk", "child", "insert_md", "search"}
    BY <2>1
  <2>3. m.phase = "confirm"  /\ m.ino = nloc[t].ino  /\ m.fh = nloc[t].fh  /\ m.ans = NoInode
    BY <1>3, <2>1
  <2> QED
    BY <1>6, <2>1, <2>2, <2>3
<1> QED
  BY <1>5, <1>6

\* A missing component ends a lookup, and is passed over by a make.
LEMMA WalkFailsGoes ==
    ASSUME F!JoinInv, NEW t \in Threads, F!WalkFails(t)
    PROVE  NamesGo(t)
<1>1. /\ DOMAIN nloc[t] = F!LocalFields /\ F!Answers(t)
      /\ npc[t] = "walk" /\ stage = "up" /\ ncall' = [ncall EXCEPT ![t] = ncall[t]]
  BY ThreadShape DEF F!WalkFails
<1>2. UNCHANGED <<docs, stage, ncall>>
  BY DEF F!WalkFails, F!database, F!kernel, F!daemon
<1>3. CASE nloc[t].phase # "make"
  BY <1>1, <1>2, <1>3, AnswerGoes DEF F!WalkFails
<1>4. CASE nloc[t].phase = "make"
  <2>1. F!Confirm(t)
    BY <1>4 DEF F!WalkFails
  <2>2. PICK label, m :
               /\ F!Goto(t, label, m)  /\ DOMAIN m = F!LocalFields
               /\ m.phase = "confirm"  /\ m.ino = nloc[t].ino  /\ m.fh = nloc[t].fh  /\ m.ans = NoInode
               /\ label \in {"walk", "child", "insert_md", "search"}
               /\ ncall[t].op = "create" => label = "search"
    BY <1>1, <2>1, ConfirmGoes
  <2>3. ncall[t].op = "create" => m.fh = ZeroInode
    BY <1>1, <2>2 DEF F!Answers
  <2>4. /\ label # "insert_block"
        /\ label = "insert_md" => ncall[t].op # "create"
        /\ ncall[t].op = "create" => label \in {"search", "reply"}
    BY <2>2
  <2>5. m.ans \in {NoInode, ZeroInode} /\ m.phase # "make"
    BY <2>2
  <2> QED
    BY <1>1, <1>2, <2>2, <2>3, <2>4, <2>5, GoesOn
<1> QED
  BY <1>3, <1>4

\* What a search finds is in the metadata; a create, which has 0 for a handle,
\* finds the document of that inode or none.
LEMMA FindGoes ==
    ASSUME F!JoinInv, NEW t \in Threads, F!FindChild(t) \/ F!SearchByInode(t)
    PROVE  NamesGo(t)
<1>1. UNCHANGED <<docs, stage, ncall>>
  BY DEF F!FindChild, F!SearchByInode, F!database, F!kernel, F!daemon
<1>2. F!Answers(t)
  BY ThreadShape
<1>3. CASE F!FindChild(t)
  <2>1. npc[t] = "child"
    BY <1>3 DEF F!FindChild
  <2>2. PICK a : F!Answer(t, a) /\ (a # NoInode => a \in DOMAIN docs)
    BY <1>3 DEF F!FindChild, F!Named, F!Children
  <2>3. ~(ncall[t].op = "create" /\ nloc[t].phase = "confirm")
    BY <1>2, <2>1 DEF F!Answers
  <2> QED
    BY <1>1, <2>1, <2>2, <2>3, AnswerGoes
<1>4. CASE F!SearchByInode(t)
  <2>1. npc[t] = "search"
    BY <1>4 DEF F!SearchByInode
  <2>2. PICK a : a = IF nloc[t].fh \in DOMAIN docs THEN nloc[t].fh ELSE NoInode
    OBVIOUS
  <2>3. F!Answer(t, a) /\ (a # NoInode => a \in DOMAIN docs)
    BY <1>4, <2>2 DEF F!SearchByInode
  <2>4. ncall[t].op = "create" => a \in {NoInode, ZeroInode}
    BY <1>2, <2>2 DEF F!Answers
  <2> QED
    BY <1>1, <2>1, <2>3, <2>4, AnswerGoes
<1> QED
  BY <1>3, <1>4

\* The other round trips of a handler that change no document.
LEMMA QuietGoes ==
    ASSUME F!JoinInv, NEW t \in Threads, F!Make(t) \/ F!InsertBlock(t) \/ F!ListChildren(t)
    PROVE  NamesGo(t)
<1>1. UNCHANGED <<docs, stage, ncall>>
  BY DEF F!Make, F!InsertBlock, F!ListChildren, F!database, F!kernel, F!daemon
<1>2. /\ DOMAIN nloc[t] = F!LocalFields  /\ F!Joint(t)  /\ F!Answers(t)
      /\ ncall' = [ncall EXCEPT ![t] = ncall[t]]
  BY <1>1, ThreadShape
<1>3. CASE F!Make(t)
  <2>1. PICK i \in Inodes : F!Walk(t, ncall[t].op, ncall[t].path, [nloc[t] EXCEPT !.phase = "make", !.ino = i])
    BY <1>3 DEF F!Make
  <2>2. PICK l : l = [nloc[t] EXCEPT !.phase = "make", !.ino = i]
    OBVIOUS
  <2>3. npc[t] = "make"
    BY <1>3 DEF F!Make
  <2>4. nloc[t].ans = NoInode
    BY <1>2, <2>3 DEF F!Answers
  <2>5. DOMAIN l = F!LocalFields /\ l.ans = NoInode /\ l.fh = nloc[t].fh /\ l.phase = "make" /\ l.ino = i
    BY <1>2, <2>2, <2>4 DEF F!LocalFields
  <2>6. F!Walk(t, ncall[t].op, ncall[t].path, l)
    BY <2>1, <2>2
  <2> QED
    BY <1>1, <2>3, <2>5, <2>6, WalkOn
<1>4. CASE F!InsertBlock(t)
  <2>1. npc[t] = "insert_block" /\ F!Goto(t, "insert_md", nloc[t]) /\ stage = "up"
    BY <1>4, ThreadShape DEF F!InsertBlock
  <2>2. ncall[t].op = "create" /\ nloc[t].phase = "make" /\ nloc[t].ino \in Inodes
    BY <1>2, <2>1 DEF F!Joint
  <2>3. nloc[t].ans = NoInode /\ nloc[t].fh = ZeroInode
    BY <1>2, <2>1, <2>2 DEF F!Answers
  <2> QED
    BY <1>1, <1>2, <2>1, <2>2, <2>3, GoesOn
<1>5. CASE F!ListChildren(t)
  <2>1. npc[t] = "list" /\ stage = "up"
    BY <1>5, ThreadShape DEF F!ListChildren
  <2>2. PICK l : l = [nloc[t] EXCEPT !.names = {docs[c].name : c \in F!Children(nloc[t].fh)}]
    OBVIOUS
  <2>3. PICK label : label = "reply" /\ F!Goto(t, label, l)
    BY <1>5, <2>2 DEF F!ListChildren
  <2>4. DOMAIN l = F!LocalFields /\ l.phase = nloc[t].phase /\ l.ino = nloc[t].ino /\ l.fh = nloc[t].fh /\ l.ans = nloc[t].ans
    BY <1>2, <2>2 DEF F!LocalFields
  <2>5. l.ans = NoInode /\ (l.phase = "make" => l.ino \in Inodes)
    BY <1>2, <2>1, <2>4 DEF F!Joint, F!Answers
  <2>6. /\ ncall[t].op = "create" => l.fh = ZeroInode
        /\ ~(ncall[t].op = "create" /\ l.phase = "confirm")
    BY <1>2, <2>1, <2>4 DEF F!Answers
  <2>7. label \notin {"insert_block", "insert_md"} /\ DOMAIN l = F!LocalFields
    BY <2>3, <2>4
  <2> QED
    BY <1>1, <1>2, <2>1, <2>3, <2>5, <2>6, <2>7, GoesOn
<1> QED
  BY <1>3, <1>4, <1>5

\* The document that is inserted becomes a file only for a create.
LEMMA InsertGoes ==
    ASSUME F!JoinInv, NEW t \in Threads, F!InsertMd(t)
    PROVE  NamesGo(t)
<1> DEFINE doc == [parent |-> nloc[t].cur, name |-> F!Last(ncall[t].path), kind |-> F!KindMade(ncall[t].op)]
<1>1. /\ npc[t] = "insert_md"  /\ nloc[t].ino \notin DOMAIN docs
      /\ docs' = [c \in DOMAIN docs \cup {nloc[t].ino} |-> IF c = nloc[t].ino THEN doc ELSE docs[c]]
      /\ F!Confirm(t)  /\ UNCHANGED <<stage, ncall>>
  BY DEF F!InsertMd, F!Add, F!kernel, F!daemon
<1>2. doc.kind = IF ncall[t].op = "create" THEN "file" ELSE "dir"
  BY DEF F!KindMade
<1> HIDE DEF doc
<1>3. /\ F!Joint(t)  /\ F!Answers(t)  /\ stage = "up"
      /\ ncall' = [ncall EXCEPT ![t] = ncall[t]]
  BY <1>1, ThreadShape
<1>4. PICK label, m :
          /\ F!Goto(t, label, m)  /\ DOMAIN m = F!LocalFields
          /\ m.phase = "confirm"  /\ m.ino = nloc[t].ino  /\ m.fh = nloc[t].fh  /\ m.ans = NoInode
          /\ label \in {"walk", "child", "insert_md", "search"}
          /\ ncall[t].op = "create" => label = "search"
  BY <1>1, ConfirmGoes
<1>5. /\ npc = [u \in Threads |-> npc[u]]  /\ ncall = [u \in Threads |-> ncall[u]]
      /\ nloc = [u \in Threads |-> nloc[u]]
      /\ \A u \in Threads : DOMAIN nloc[u] = F!LocalFields
  BY DEF F!JoinInv, F!ShapeOK
<1>6. npc' = [npc EXCEPT ![t] = label] /\ nloc' = [nloc EXCEPT ![t] = m]
  BY <1>4 DEF F!Goto
<1>7. npc'[t] = label /\ nloc'[t] = m /\ ncall'[t] = ncall[t] /\ Others(t)
  BY <1>1, <1>5, <1>6 DEF Others
<1>8. F!ShapeOK'
  <2>1. \A u \in Threads : DOMAIN (nloc'[u]) = F!LocalFields
    BY <1>4, <1>5, <1>6
  <2>2. npc' = [u \in Threads |-> npc'[u]] /\ nloc' = [u \in Threads |-> nloc'[u]]
    BY <1>5, <1>6
  <2>3. ncall' = [u \in Threads |-> ncall'[u]]
    BY <1>1, <1>5
  <2> QED
    BY <2>1, <2>2, <2>3 DEF F!ShapeOK, F!LocalFields
<1>9. /\ DOMAIN docs \subseteq DOMAIN docs'
      /\ \A i \in DOMAIN docs : docs'[i] = docs[i]
      /\ \A i \in DOMAIN docs' : i \in DOMAIN docs \/ (i = nloc[t].ino /\ docs'[i] = doc)
  BY <1>1
<1>10. /\ \A i \in F!Files : i \in F!Files'
       /\ \A i \in F!Files' : \/ i \in F!Files
                              \/ npc[t] = "insert_md" /\ ncall[t].op = "create" /\ i = nloc[t].ino
  BY <1>1, <1>2, <1>9 DEF F!Files
<1>11. F!Answers(t)'
  BY <1>3, <1>4, <1>7 DEF F!Answers
<1>12. npc'[t] = "insert_md" => ncall'[t].op # "create"
  BY <1>4, <1>7
<1> QED
  BY <1>1, <1>3, <1>4, <1>7, <1>8, <1>9, <1>10, <1>11, <1>12 DEF NamesGo

\* A reply leaves the documents as they are.
LEMMA ReplyGoes ==
    ASSUME F!JoinInv, NEW t \in Threads, F!Reply(t)
    PROVE  NamesGo(t)
<1>1. /\ npc[t] = "reply"  /\ F!Goto(t, "idle", F!NoLocals)  /\ ncall' = [ncall EXCEPT ![t] = F!NoCall]
      /\ UNCHANGED <<docs, stage>>
  BY DEF F!Reply, F!database, F!daemon
<1>2. F!Answers(t) /\ stage = "up"
  BY <1>1, ThreadShape
<1>3. /\ npc = [u \in Threads |-> npc[u]]  /\ ncall = [u \in Threads |-> ncall[u]]
      /\ nloc = [u \in Threads |-> nloc[u]]
      /\ \A u \in Threads : DOMAIN nloc[u] = F!LocalFields
  BY DEF F!JoinInv, F!ShapeOK
<1>4. npc' = [npc EXCEPT ![t] = "idle"] /\ nloc' = [nloc EXCEPT ![t] = F!NoLocals]
  BY <1>1 DEF F!Goto
<1>5. npc'[t] = "idle" /\ nloc'[t] = F!NoLocals /\ ncall'[t] = F!NoCall /\ Others(t)
  BY <1>1, <1>3, <1>4 DEF Others
<1>6. F!ShapeOK'
  <2>1. \A u \in Threads : DOMAIN (nloc'[u]) = F!LocalFields
    BY <1>3, <1>4, FirstLocals
  <2>2. npc' = [u \in Threads |-> npc'[u]] /\ nloc' = [u \in Threads |-> nloc'[u]]
    BY <1>3, <1>4
  <2>3. ncall' = [u \in Threads |-> ncall'[u]]
    BY <1>1, <1>3
  <2> QED
    BY <2>1, <2>2, <2>3 DEF F!ShapeOK, F!LocalFields
<1>7. F!Files' = F!Files
  BY <1>1 DEF F!Files
<1>8. F!Answers(t)'
  BY <1>5, FirstLocals DEF F!Answers, F!NoCall
<1>9. nloc'[t].phase # "make"
  BY <1>5, FirstLocals
<1> QED
  BY <1>1, <1>2, <1>5, <1>6, <1>7, <1>8, <1>9 DEF NamesGo

\* Every round trip of a handler, unless the daemon dies of it.
LEMMA NamesStep ==
    ASSUME F!JoinInv, NEW t \in Threads, F!Step(t)
    PROVE  (\E cause : F!Die(cause)) \/ NamesGo(t)
<1>1. CASE F!FindRoot(t)
  <2>1. CASE root \in DOMAIN docs
    <3>1. /\ F!Answer(t, root)  /\ npc[t] = "child"
          /\ UNCHANGED <<docs, stage, ncall>>
      BY <1>1, <2>1 DEF F!FindRoot, F!database, F!kernel, F!daemon
    <3>2. ~(ncall[t].op = "create" /\ nloc[t].phase = "confirm")
      BY <3>1, ThreadShape DEF F!Answers
    <3> QED
      BY <2>1, <3>1, <3>2, AnswerGoes
  <2>2. CASE root \notin DOMAIN docs
    BY <1>1, <2>2 DEF F!FindRoot
  <2> QED
    BY <2>1, <2>2
<1>2. CASE F!InsertMdClash(t) \/ F!ListFails(t)
  BY <1>2 DEF F!InsertMdClash, F!ListFails
<1> QED
  BY <1>1, <1>2, WalkStepGoes, WalkFailsGoes, FindGoes, QuietGoes, InsertGoes, ReplyGoes DEF F!Step


-----------------------------------------------------------------------------
(* Joint steps.                                                              *)

\* What a round trip of a data call, or one of a create before the last two,
\* does for the invariant when the daemon survives it.
DataOthers(t) == \A u \in Threads \ {t} : pc'[u] = pc[u] /\ call'[u] = call[u]
DataGo(t) ==
    /\ UNCHANGED up  /\ DOMAIN md \subseteq DOMAIN md'  /\ DataOthers(t)
    /\ \/ /\ pc[t] # "reply"  /\ call'[t] = call[t]  /\ pc'[t] # "idle"
          /\ call[t].op = "create" => pc'[t] # "insert_md"
       \/ pc'[t] = "idle" /\ call'[t].op = "none"

\* Every such round trip is one of these, or ends the daemon.
LEMMA StepGoes ==
    ASSUME BlockInv, NEW t \in Threads, Step(t), pc[t] # "insert_md",
           ~(pc[t] = "new_lookup" /\ call[t].op = "create")
    PROVE  Die \/ DataGo(t)
<1>1. TypeOK /\ call[t].op \in Ops
  BY ThreadTypes DEF BlockInv, TypeInv, RequestTypes
<1>2. ASSUME NEW label, NEW l, Goto(t, label, l), label # "idle", call[t].op = "create" => label # "insert_md",
             pc[t] # "reply", UNCHANGED <<up, call>>, DOMAIN md \subseteq DOMAIN md'
      PROVE  DataGo(t)
  <2>1. pc'[t] = label /\ \A u \in Threads \ {t} : pc'[u] = pc[u]
    BY <1>1, <1>2, GotoEffect
  <2> QED
    BY <1>2, <2>1 DEF DataGo, DataOthers
<1>3. CASE FindMdForWrite(t) \/ FindMdForRead(t) \/ FindMdForTruncate(t)
  <2>1. /\ UNCHANGED <<up, call, md>>  /\ pc[t] # "reply"
        /\ \E label, l : label \notin {"insert_md", "idle"} /\ Goto(t, label, l)
    BY <1>3 DEF FindMdForWrite, FindMdForRead, FindMdForTruncate, GrowOr, store, daemon
  <2> QED
    BY <1>2, <2>1
<1>4. CASE NewData(t) \/ MaxOrder(t) \/ FindLookup(t) \/ FindDataForWrite(t) \/ FindDataForRead(t)
  <2>1. /\ UNCHANGED <<up, call, md>>  /\ pc[t] # "reply"
        /\ \E label, l : label \notin {"insert_md", "idle"} /\ Goto(t, label, l)
    BY <1>4 DEF NewData, MaxOrder, FindLookup, FindDataForWrite, FindDataForRead, store, daemon
  <2> QED
    BY <1>2, <2>1
<1>5. CASE UpdateData(t) \/ FindIds(t) \/ DelLookup(t) \/ DelData(t)
  <2>1. /\ UNCHANGED <<up, call, md>>  /\ pc[t] # "reply"
        /\ \E label, l : label \notin {"insert_md", "idle"} /\ Goto(t, label, l)
    BY <1>5 DEF UpdateData, FindIds, DelLookup, DelData, GrowOr, store, daemon
  <2> QED
    BY <1>2, <2>1
<1>6. CASE SetSize(t)
  <2>1. /\ UNCHANGED <<up, call>>  /\ pc[t] # "reply"  /\ DOMAIN md' = DOMAIN md
        /\ Goto(t, "reply", loc[t])
    BY <1>6 DEF SetSize, daemon
  <2> QED
    BY <1>2, <2>1
<1>7. CASE NewLookup(t)
  <2>1. /\ UNCHANGED <<up, call, md>>  /\ pc[t] = "new_lookup"
        /\ \E l : Goto(t, GrowOr(l, AfterGrowth(call[t].op)), l)
    BY <1>7 DEF NewLookup, daemon
  <2>2. call[t].op \in {"write", "truncate"}
    BY <2>1, ThreadTypes DEF BlockInv, ControlAt, MakesTrip, Growing, Linking, Copying, Cutting
  <2>3. \A l : GrowOr(l, AfterGrowth(call[t].op)) \in {"new_data", "find_lookup", "set_size"}
    BY <2>2 DEF GrowOr, AfterGrowth
  <2> QED
    BY <1>2, <2>1, <2>3
<1>8. CASE Reply(t)
  <2>1. Goto(t, "idle", NoLocals) /\ call' = [call EXCEPT ![t] = NoCall] /\ UNCHANGED <<up, md>>
    BY <1>8 DEF Reply, store, daemon
  <2>2. pc'[t] = "idle" /\ \A u \in Threads \ {t} : pc'[u] = pc[u]
    BY <1>1, <2>1, GotoEffect
  <2>3. call'[t] = NoCall /\ \A u \in Threads \ {t} : call'[u] = call[u]
    BY <1>1, <2>1 DEF TypeOK
  <2> QED
    BY <2>1, <2>2, <2>3 DEF DataGo, DataOthers, NoCall
<1>9. CASE PipeFails(t) \/ NewDataClash(t) \/ FindLookupFails(t) \/ FindDataFails(t)
  BY <1>9 DEF PipeFails, NewDataClash, FindLookupFails, FindDataFails, Abort
<1> QED
  BY <1>3, <1>4, <1>5, <1>6, <1>7, <1>8, <1>9 DEF Step, InsertMd, InsertMdClash

\* A data request of the kernel is no create; without one nothing happens to
\* the calls, or the daemon dies.
LEMMA StartGoes ==
    ASSUME BlockInv, NEW t \in Threads,
           \/ \E i : SendWrite(t, i) \/ SendTruncate(t, i) \/ \E offsets : SendRead(t, i, offsets)
           \/ F!Data!OpenTrunc(t)
    PROVE  /\ UNCHANGED <<up, md>>  /\ DataOthers(t)
           /\ up  /\ call'[t].op # "create"
<1>1. TypeOK
  BY DEF BlockInv, TypeInv
<1>2. ASSUME NEW label, NEW c, NEW n, Begin(t, label, c, n), c.op # "create"
      PROVE  /\ UNCHANGED <<up, md>>  /\ DataOthers(t)
             /\ up  /\ call'[t].op # "create"
  <2>1. \E l : Goto(t, label, l)
    BY <1>2 DEF Begin
  <2>2. \A u \in Threads \ {t} : pc'[u] = pc[u]
    BY <1>1, <2>1, GotoEffect
  <2> QED
    BY <1>1, <1>2, <2>2 DEF Begin, store, daemon, DataOthers, TypeOK
<1>3. ASSUME NEW i, SendWrite(t, i)
      PROVE  UNCHANGED <<up, md>> /\ DataOthers(t) /\ up /\ call'[t].op # "create"
  <2>1. PICK off, bufs :
            Begin(t, "find_md", [NoCall EXCEPT !.op = "write", !.inode = i, !.off = off, !.bufs = bufs], 0)
    BY <1>3 DEF SendWrite
  <2>2. PICK c : c = [NoCall EXCEPT !.op = "write", !.inode = i, !.off = off, !.bufs = bufs]
    OBVIOUS
  <2>3. c.op # "create"
    BY <2>2 DEF NoCall
  <2> QED
    BY <1>2, <2>1, <2>2, <2>3
<1>4. ASSUME NEW i, NEW offsets, SendRead(t, i, offsets)
      PROVE  UNCHANGED <<up, md>> /\ DataOthers(t) /\ up /\ call'[t].op # "create"
  <2>1. PICK off, n :
            Begin(t, "find_md", [NoCall EXCEPT !.op = "read", !.inode = i, !.off = off, !.size = n], 0)
    BY <1>4 DEF SendRead
  <2>2. PICK c : c = [NoCall EXCEPT !.op = "read", !.inode = i, !.off = off, !.size = n]
    OBVIOUS
  <2>3. c.op # "create"
    BY <2>2 DEF NoCall
  <2> QED
    BY <1>2, <2>1, <2>2, <2>3
<1>5. ASSUME NEW i, SendTruncate(t, i)
      PROVE  UNCHANGED <<up, md>> /\ DataOthers(t) /\ up /\ call'[t].op # "create"
  <2>1. PICK n :
            Begin(t, "find_md", [NoCall EXCEPT !.op = "truncate", !.inode = i, !.size = n], 0)
    BY <1>5 DEF SendTruncate
  <2>2. PICK c : c = [NoCall EXCEPT !.op = "truncate", !.inode = i, !.size = n]
    OBVIOUS
  <2>3. c.op # "create"
    BY <2>2 DEF NoCall
  <2> QED
    BY <1>2, <2>1, <2>2, <2>3
<1>6. CASE F!Data!OpenTrunc(t)
  <2>1. up /\ pc[t] = "idle" /\ UNCHANGED <<md, up, pc, call>>
    BY <1>6 DEF F!Data!OpenTrunc, F!Data!store, F!Data!daemon, F!Data!threads
  <2>2. call[t].op = "none"
    BY <2>1, ThreadTypes DEF BlockInv, ControlAt, MakesTrip, Growing, Linking, Copying, Cutting
  <2> QED
    BY <2>1, <2>2 DEF DataOthers
<1> QED
  BY <1>3, <1>4, <1>5, <1>6

\* A step of one thread keeps the invariant when it does so for that thread,
\* and takes no document and no first block from the others.
LEMMA JoinFrame ==
    ASSUME F!JoinInv, BlockInv', KeepsFirsts, NEW t \in Threads, Others(t), DataOthers(t),
           DOMAIN docs \subseteq DOMAIN docs',
           stage' = "up", up', F!ShapeOK', F!Joint(t)', F!Answers(t)', F!FilesServed'
    PROVE  F!JoinInv'
<1>1. F!TogetherOK'
  BY DEF F!TogetherOK
<1>2. F!FirstOK'
  <2>1. First'
    BY DEF BlockInv
  <2> QED
    BY <2>1, FirstIsFirst, PTL
<1>3. ASSUME NEW u \in Threads \ {t}
      PROVE  F!Joint(u)' /\ F!Answers(u)'
  <2>1. F!Joint(u) /\ F!Answers(u)
    BY ThreadShape
  <2>2. /\ npc'[u] = npc[u] /\ ncall'[u] = ncall[u] /\ nloc'[u] = nloc[u]
        /\ pc'[u] = pc[u] /\ call'[u] = call[u]
    BY DEF Others, DataOthers
  <2>3. \A i : 0 \in F!Data!Orders(i) => 0 \in F!Data!Orders(i)'
    BY SameOrders DEF KeepsFirsts
  <2>4. F!Joint(u)'
    <3>1. PICK i : i = nloc[u].ino
      OBVIOUS
    <3>2. 0 \in F!Data!Orders(nloc[u].ino) => 0 \in F!Data!Orders(nloc[u].ino)'
      <4>1. F!Data!Orders(nloc[u].ino) = F!Data!Orders(i)
        BY <3>1
      <4>2. F!Data!Orders(nloc[u].ino)' = F!Data!Orders(i)'
        BY <2>2, <3>1 DEF F!Data!Orders, F!Data!Entries
      <4> QED
        BY <2>3, <4>1, <4>2
    <3> QED
      BY <2>1, <2>2, <3>2 DEF F!Joint
  <2>5. F!Answers(u)'
    BY <2>1, <2>2 DEF F!Answers
  <2> QED
    BY <2>4, <2>5
<1>4. F!JointOK' /\ F!AnswersOK'
  BY <1>3 DEF F!JointOK, F!AnswersOK
<1> QED
  BY <1>1, <1>2, <1>4 DEF F!JoinInv

\* When the daemon dies both halves forget their calls.
LEMMA DeathJoins ==
    ASSUME F!JoinInv, BlockInv', KeepsFirsts, Die, NEW cause, F!Die(cause)
    PROVE  F!JoinInv'
<1>1. /\ up' = FALSE  /\ stage' = "down"  /\ handles' = {}
      /\ npc' = [u \in Threads |-> "idle"]  /\ pc' = [u \in Threads |-> "idle"]
      /\ ncall' = [u \in Threads |-> F!NoCall]  /\ call' = [u \in Threads |-> NoCall]
      /\ nloc' = [u \in Threads |-> F!NoLocals]  /\ UNCHANGED <<docs, md>>
  BY DEF Die, store, F!Die, F!database
<1>2. F!TogetherOK'
  BY <1>1 DEF F!TogetherOK
<1>3. F!ShapeOK'
  <2>1. \A u \in Threads : DOMAIN (nloc'[u]) = F!LocalFields
    BY <1>1, FirstLocals
  <2>2. npc' = [u \in Threads |-> npc'[u]] /\ nloc' = [u \in Threads |-> nloc'[u]] /\ ncall' = [u \in Threads |-> ncall'[u]]
    BY <1>1
  <2> QED
    BY <2>1, <2>2 DEF F!ShapeOK, F!LocalFields
<1>4. ASSUME NEW u \in Threads
      PROVE  F!Joint(u)' /\ F!Answers(u)'
  <2>1. npc'[u] = "idle" /\ ncall'[u].op = "none" /\ call'[u].op = "none"
    BY <1>1 DEF NoCall, F!NoCall
  <2>2. nloc'[u].ans = NoInode /\ nloc'[u].phase = "lookup"
    BY <1>1, FirstLocals
  <2> QED
    BY <2>1, <2>2 DEF F!Joint, F!Answers
<1>5. F!FirstOK'
  <2>1. First'
    BY DEF BlockInv
  <2> QED
    BY <2>1, FirstIsFirst, PTL
<1>6. F!FilesServed'
  BY <1>1, SameOrders DEF F!FilesServed, F!Files, F!JoinInv, KeepsFirsts
<1> QED
  BY <1>2, <1>3, <1>4, <1>5, <1>6 DEF F!JoinInv, F!JointOK, F!AnswersOK

\* A file of before a step is still served after it.
LEMMA StillServed ==
    ASSUME F!JoinInv, KeepsFirsts, DOMAIN md \subseteq DOMAIN md', NEW i \in F!Files
    PROVE  i \in DOMAIN md' /\ 0 \in F!Data!Orders(i)'
BY SameOrders DEF F!JoinInv, F!FilesServed, KeepsFirsts

\* No handler mounts.
LEMMA SameMounts == ASSUME NEW t \in Threads, F!Start(t) \/ F!Step(t) PROVE mounts' = mounts
<1>1. CASE F!Start(t)
  BY <1>1 DEF F!Start, F!BeginGetattr, F!BeginMake, F!BeginOpen, F!BeginFgetattr, F!BeginReaddir, F!Begin,
              F!Unlink, F!Rename, F!daemon
<1>2. CASE F!Step(t)
  BY <1>2 DEF F!Step, F!WalkStep, F!WalkFails, F!FindChild, F!FindRoot, F!SearchByInode, F!Make,
              F!InsertBlock, F!InsertMd, F!InsertMdClash, F!ListChildren, F!ListFails, F!Reply, F!daemon, F!Die
<1> QED
  BY <1>1, <1>2

\* A step of a handler that touches neither fs_lookup nor fs_data.
LEMMA NameStepJoins ==
    ASSUME F!JoinInv, BlockInv, NEW t \in Threads, F!NameStep(t)
    PROVE  F!JoinInv' /\ BlockInv'
<1>1. pc[t] = "idle" /\ npc[t] # "insert_block"
  BY DEF F!NameStep
<1>2. CASE stage' # "up"
  <2>1. Die /\ fault' = NoFault
    BY <1>2, SameDeaths, SameHelpers DEF F!NameStep, F!DataDies
  <2>2. BlockInv' /\ KeepsFirsts
    BY <2>1, DieBlocks
  <2>3. \E cause : F!Die(cause)
    BY <1>2, NamesStart, NamesStep DEF F!NameStep, NamesGo
  <2> QED
    BY <2>1, <2>2, <2>3, DeathJoins
<1>3. CASE stage' = "up"
  <2>1. UNCHANGED <<md, lookup, data, isize, up, torn, fault, pc, call, loc>>
    BY <1>3 DEF F!NameStep, F!storage
  <2>2. NamesGo(t)
    BY <1>3, NamesStart, NamesStep DEF F!NameStep, F!Die
  <2>3. mounts' = mounts
    BY SameMounts DEF F!NameStep
  <2>4. BlockInv' /\ KeepsFirsts
    BY <2>1, <2>3, RestBlocks DEF BlockInv, TypeInv, TypeOK
  <2>5. up'
    BY <2>1, <2>2 DEF NamesGo, F!JoinInv, F!TogetherOK
  <2>6. call[t].op = "none"
    BY <1>1, ThreadTypes DEF BlockInv, ControlAt, MakesTrip, Growing, Linking, Copying, Cutting
  <2>7. F!Joint(t)'
    BY <1>1, <2>1, <2>2, <2>6 DEF F!Joint, NamesGo
  <2>8. ~(npc[t] = "insert_md" /\ ncall[t].op = "create")
    BY <1>1, ThreadShape DEF F!Joint
  <2>9. F!FilesServed'
    <3>1. \A i \in F!Files' : i \in F!Files
      BY <2>2, <2>8 DEF NamesGo
    <3> QED
      BY <2>1, <2>4, <3>1, StillServed DEF F!FilesServed
  <2>10. DataOthers(t)
    BY <2>1 DEF DataOthers
  <2> QED
    BY <1>3, <2>2, <2>4, <2>5, <2>7, <2>9, <2>10, JoinFrame DEF NamesGo
<1> QED
  BY <1>2, <1>3

\* A step of data calls alone keeps what the other half says of a thread.
LEMMA DataJoins ==
    ASSUME F!JoinInv, BlockInv', KeepsFirsts, UNCHANGED F!names, NEW t \in Threads,
           DataOthers(t), DOMAIN md \subseteq DOMAIN md', stage = "up", up', F!Joint(t)'
    PROVE  F!JoinInv'
<1>1. UNCHANGED <<docs, stage, handles, npc, ncall, nloc>>
  BY DEF F!names, F!vars
<1>2. Others(t) /\ F!ShapeOK' /\ F!Files' = F!Files
  BY <1>1 DEF Others, F!ShapeOK, F!LocalFields, F!Files, F!JoinInv
<1>3. F!Answers(t)'
  BY <1>1, <1>2, ThreadShape DEF F!Answers
<1>4. F!FilesServed'
  BY <1>2, StillServed DEF F!FilesServed
<1> QED
  BY <1>1, <1>2, <1>3, <1>4, JoinFrame

\* A create begins to link the block of the inode that it has drawn.
LEMMA LinkBlockJoins ==
    ASSUME F!JoinInv, BlockInv, NEW t \in Threads, F!LinkBlock(t)
    PROVE  F!JoinInv' /\ BlockInv'
<1>1. PICK i : i = nloc[t].ino
  OBVIOUS
<1>2. PICK c : c = [NoCall EXCEPT !.op = "create", !.inode = i]
  OBVIOUS
<1>3. /\ npc[t] = "insert_block"  /\ UNCHANGED F!names
      /\ Begin(t, "new_data", c, 1)
  BY <1>1, <1>2, SameStarts, SameHelpers DEF F!LinkBlock, F!LinkFor
<1>4. /\ ncall[t].op = "create"  /\ nloc[t].phase = "make"  /\ i \in Inodes  /\ stage = "up"
  BY <1>1, <1>3, ThreadShape DEF F!Joint
<1>5. BlockInv' /\ KeepsFirsts
  BY <1>2, <1>3, <1>4, CreateBlocks
<1>6. TypeOK /\ c.op = "create" /\ c.inode = i
  BY <1>2 DEF BlockInv, TypeInv, NoCall
<1>7. \E l : Goto(t, "new_data", l)
  BY <1>3 DEF Begin
<1>8. pc'[t] = "new_data" /\ \A u \in Threads \ {t} : pc'[u] = pc[u]
  BY <1>6, <1>7, GotoEffect
<1>9. /\ call'[t] = c  /\ \A u \in Threads \ {t} : call'[u] = call[u]
      /\ up /\ up' = up /\ md' = md
  BY <1>3, <1>6 DEF Begin, TypeOK, daemon, store
<1>10. UNCHANGED <<npc, ncall, nloc>>
  BY <1>3 DEF F!names, F!vars
<1>11. F!Joint(t)'
  BY <1>1, <1>3, <1>4, <1>6, <1>8, <1>9, <1>10 DEF F!Joint
<1> QED
  BY <1>3, <1>4, <1>5, <1>8, <1>9, <1>11, DataJoins DEF DataOthers

\* A round trip of a data call or of a create that has not linked its block.
LEMMA DataStepJoins ==
    ASSUME F!JoinInv, BlockInv, NEW t \in Threads, F!DataStep(t)
    PROVE  F!JoinInv' /\ BlockInv'
<1>1. /\ Step(t)  /\ pc[t] # "insert_md"  /\ ~(pc[t] = "new_lookup" /\ call[t].op = "create")
      /\ IF up' THEN UNCHANGED F!names ELSE F!Die("data_call")
  BY SameSteps DEF F!DataStep
<1>2. BlockInv' /\ KeepsFirsts
  BY <1>1, StepBlocks
<1>3. pc[t] # "idle"
  BY <1>1, ThreadTypes
     DEF Step, FindMdForWrite, PipeFails, FindMdForRead, FindMdForTruncate, NewData, NewDataClash, MaxOrder,
         NewLookup, InsertMd, InsertMdClash, FindLookup, FindLookupFails, FindDataForWrite, FindDataForRead,
         FindDataFails, UpdateData, SetSize, FindIds, DelLookup, DelData, Reply
<1>4. stage = "up" /\ up
  BY <1>3 DEF F!JoinInv, F!TogetherOK
<1>5. CASE Die
  BY <1>1, <1>2, <1>5, DeathJoins DEF Die
<1>6. CASE DataGo(t)
  <2>1. up' /\ UNCHANGED F!names
    BY <1>1, <1>4, <1>6 DEF DataGo
  <2>2. UNCHANGED <<npc, ncall, nloc>> /\ F!Joint(t)
    BY <2>1, ThreadShape DEF F!names, F!vars
  <2>3. F!Joint(t)'
    <3>1. CASE pc'[t] = "idle" /\ call'[t].op = "none"
      BY <1>1, <2>2, <3>1 DEF F!Joint
    <3>2. CASE /\ pc[t] # "reply"  /\ call'[t] = call[t]  /\ pc'[t] # "idle"
               /\ call[t].op = "create" => pc'[t] # "insert_md"
      BY <1>1, <1>3, <2>2, <3>2 DEF F!Joint
    <3> QED
      BY <1>6, <3>1, <3>2 DEF DataGo
  <2> QED
    BY <1>2, <1>4, <1>6, <2>1, <2>3, DataJoins DEF DataGo
<1> QED
  BY <1>1, <1>5, <1>6, StepGoes

\* The last round trip that links the block.
LEMMA BlockLinkedJoins ==
    ASSUME F!JoinInv, BlockInv, NEW t \in Threads, F!BlockLinked(t)
    PROVE  F!JoinInv' /\ BlockInv'
<1>1. NewLookup(t) /\ F!InsertBlock(t)
  BY SameSteps DEF F!BlockLinked
<1>2. /\ pc[t] = "new_lookup"  /\ UNCHANGED <<md, up, call, mounts>>
      /\ npc[t] = "insert_block"  /\ F!Goto(t, "insert_md", nloc[t])  /\ UNCHANGED <<docs, ncall>>
  BY <1>1 DEF NewLookup, daemon, F!InsertBlock
<1>3. /\ call[t].op = "create"  /\ call[t].inode = nloc[t].ino  /\ ncall[t].op = "create"
      /\ nloc[t].phase = "make"  /\ nloc[t].ino \in Inodes
  BY <1>2, ThreadShape DEF F!Joint
<1>4. BlockInv' /\ KeepsFirsts /\ 0 \in Orders(call[t].inode)'
  BY <1>1, StepBlocks, FirstNewLookup DEF Step
<1>5. NamesGo(t)
  BY <1>1, QuietGoes
<1>6. TypeOK /\ loc[t].need = 1
  BY <1>2, <1>3 DEF BlockInv, TypeInv, CoverInv, SizedOK, SizedAt, Growing, Linking
<1>7. loc[t] \in LocalTypes
  BY <1>6, ThreadTypes DEF BlockInv
<1>8. PICK l : l = [loc[t] EXCEPT !.id = NoId, !.order = 0, !.need = @ - 1]
  OBVIOUS
<1>9. l.need = 0
  BY <1>6, <1>7, <1>8 DEF LocalTypes
<1>10. GrowOr(l, AfterGrowth("create")) = "insert_md"
  BY <1>9 DEF GrowOr, AfterGrowth
<1>11. Goto(t, "insert_md", l)
  BY <1>1, <1>3, <1>8, <1>10 DEF NewLookup
<1>12. pc'[t] = "insert_md" /\ DataOthers(t)
  BY <1>2, <1>6, <1>11, GotoEffect DEF DataOthers
<1>13. npc'[t] = "insert_md" /\ nloc'[t] = nloc[t]
  BY <1>2 DEF F!Goto, F!JoinInv, F!ShapeOK
<1>14. PICK i : i = nloc[t].ino
  OBVIOUS
<1>15. 0 \in F!Data!Orders(i)'
  <2>1. Orders(call[t].inode)' = Orders(i)'
    BY <1>2, <1>3, <1>14 DEF Orders, Entries
  <2> QED
    BY <1>4, <2>1, SameOrders
<1>16. 0 \in F!Data!Orders(nloc[t].ino)'
  <2>1. F!Data!Orders(nloc[t].ino)' = F!Data!Orders(i)'
    BY <1>13, <1>14 DEF F!Data!Orders, F!Data!Entries
  <2> QED
    BY <1>15, <2>1
<1>17. F!Joint(t)'
  BY <1>2, <1>3, <1>12, <1>13, <1>16 DEF F!Joint
<1>18. up'
  BY <1>2, <1>5 DEF NamesGo, F!JoinInv, F!TogetherOK
<1>19. F!FilesServed'
  <2>1. F!Files' = F!Files
    BY <1>2 DEF F!Files
  <2> QED
    BY <1>2, <1>4, <2>1, StillServed DEF F!FilesServed
<1> QED
  BY <1>4, <1>5, <1>12, <1>17, <1>18, <1>19, JoinFrame DEF NamesGo

\* The document of a file is inserted, with a size.
LEMMA FileMadeJoins ==
    ASSUME F!JoinInv, BlockInv, NEW t \in Threads, F!FileMade(t)
    PROVE  F!JoinInv' /\ BlockInv'
<1>1. InsertMd(t) /\ F!InsertMd(t)
  BY SameSteps DEF F!FileMade
<1>2. /\ pc[t] = "insert_md"  /\ UNCHANGED <<up, call, mounts>>  /\ Goto(t, "reply", loc[t])
      /\ DOMAIN md' = DOMAIN md \cup {call[t].inode}
  BY <1>1 DEF InsertMd, daemon
<1>3. call[t].op = "create"
  BY <1>2, ThreadTypes DEF BlockInv, ControlAt, MakesTrip, Growing, Linking, Copying, Cutting
<1>4. /\ call[t].inode = nloc[t].ino  /\ ncall[t].op = "create"  /\ 0 \in F!Data!Orders(nloc[t].ino)
  BY <1>2, <1>3, ThreadShape DEF F!Joint
<1>5. BlockInv' /\ KeepsFirsts
  BY <1>1, StepBlocks DEF Step
<1>6. NamesGo(t)
  BY <1>1, InsertGoes
<1>7. pc'[t] = "reply" /\ DataOthers(t)
  <2>1. TypeOK
    BY DEF BlockInv, TypeInv
  <2> QED
    BY <1>2, <2>1, GotoEffect DEF DataOthers
<1>8. ncall'[t].op = "create"
  BY <1>1, <1>4 DEF F!InsertMd
<1>9. F!Joint(t)'
  <2>1. /\ npc'[t] # "insert_md"
        /\ npc'[t] = "insert_block" => nloc'[t].phase = "make"
        /\ nloc'[t].phase = "make" => nloc'[t].ino \in Inodes
    BY <1>1, <1>6, <1>8 DEF NamesGo, F!InsertMd
  <2>2. npc'[t] = "search"
    <3>1. F!Confirm(t) /\ npc[t] = "insert_md"
      BY <1>1 DEF F!InsertMd
    <3> QED
      BY <1>4, <3>1 DEF F!Confirm, F!Goto, F!JoinInv, F!ShapeOK
  <2> QED
    BY <1>7, <2>1, <2>2 DEF F!Joint
<1>10. up'
  BY <1>2, <1>6 DEF NamesGo, F!JoinInv, F!TogetherOK
<1>11. F!FilesServed'
  <2> SUFFICES ASSUME NEW i \in F!Files'
               PROVE  i \in DOMAIN md' /\ 0 \in F!Data!Orders(i)'
    BY DEF F!FilesServed
  <2>1. CASE i \in F!Files
    BY <1>2, <1>5, <2>1, StillServed
  <2>2. CASE i = nloc[t].ino
    BY <1>2, <1>4, <1>5, <2>2, SameOrders DEF KeepsFirsts
  <2> QED
    BY <1>6, <2>1, <2>2 DEF NamesGo
<1> QED
  BY <1>5, <1>6, <1>7, <1>9, <1>10, <1>11, JoinFrame DEF NamesGo

\* generate_id has returned the inode of another file, and the insert throws.
LEMMA FileClashesJoins ==
    ASSUME F!JoinInv, BlockInv, NEW t \in Threads, F!FileClashes(t)
    PROVE  F!JoinInv' /\ BlockInv'
<1>1. pc[t] = "insert_md" /\ Abort(t, "dup_inode") /\ F!Die("dup_inode") /\ npc[t] = "insert_md"
  BY SameDeaths DEF F!FileClashes, F!InsertMdClash
<1>2. Die /\ UNCHANGED lookup
  BY <1>1 DEF Abort, Die, store
<1>3. call[t].op = "create"
  BY <1>1, ThreadTypes DEF BlockInv, ControlAt, MakesTrip, Growing, Linking, Copying, Cutting
<1>4. fault' \in FaultTypes /\ ModifiersNeverAssert'
  <2>1. call[t].op \in Ops /\ call[t].inode \in Inodes \cup {NoInode}
    BY ThreadTypes DEF BlockInv, RequestTypes
  <2> QED
    BY <1>1, <1>3, <2>1 DEF Abort, FaultTypes, Causes, ModifiersNeverAssert
<1>5. BlockInv' /\ KeepsFirsts
  BY <1>2, <1>4, DieTypes, DieLinks, DieCover, FirstQuiet DEF BlockInv
<1> QED
  BY <1>1, <1>2, <1>5, DeathJoins

\* When the kernel has one inode for each file, the lock of the handle's is
\* that of the document.
LEMMA LockOfFile ==
    ASSUME BlockInv, NEW t \in Threads, NEW h \in handles, h.kind = "file", h.fh \in DOMAIN md,
           ~F!Locked(h.node), F!Shared = {}
    PROVE  ~KernelLocked(h.fh)
<1> SUFFICES ASSUME NEW u \in Threads, call[u].inode = h.fh, Modifies(call[u].op)
             PROVE  FALSE
  BY DEF KernelLocked
<1>1. h.fh \in Inodes
  BY DEF BlockInv, TypeInv, TypeOK
<1>2. h.node \in F!Through(h.fh)
  BY DEF F!Through
<1>3. call[u].op # "create"
  BY DEF Modifies
<1>4. lock[u] \in F!Through(h.fh)
  BY <1>3 DEF F!Through
<1>5. lock[u] = h.node
  BY <1>1, <1>2, <1>4 DEF F!Shared
<1> QED
  BY <1>5 DEF F!Locked, F!Data!Modifies, Modifies

\* A data request of the kernel, through a handle.
LEMMA DataCallJoins ==
    ASSUME F!JoinInv, BlockInv, twice = {}, F!Shared = {},
           NEW t \in Threads, F!DataCall(t) \/ F!OpenTrunc(t)
    PROVE  F!JoinInv' /\ BlockInv'
<1>1. npc[t] = "idle" /\ pc[t] = "idle" /\ UNCHANGED F!names
  BY DEF F!DataCall, F!OpenTrunc, F!Idle
<1>2. ASSUME F!DataCall(t)
      PROVE  /\ Start(t)
             /\ \E i : SendWrite(t, i) \/ SendTruncate(t, i) \/ \E offsets : SendRead(t, i, offsets)
  <2>1. PICK h \in handles :
            /\ h.kind = "file"  /\ h.fh \in DOMAIN md
            /\ \/ SendRead(t, h.fh, {off \in Offsets : off < isize[h.fh] \/ h.fh \in twice})
               \/ ~F!Locked(h.node) /\ (SendWrite(t, h.fh) \/ SendTruncate(t, h.fh))
    BY <1>2, SameStarts DEF F!DataCall
  <2>2. {off \in Offsets : off < isize[h.fh] \/ h.fh \in twice} = {off \in Offsets : off < isize[h.fh]}
    OBVIOUS
  <2>3. CASE SendRead(t, h.fh, {off \in Offsets : off < isize[h.fh] \/ h.fh \in twice})
    <3>1. Start(t)
      BY <2>1, <2>2, <2>3 DEF Start, BeginRead
    <3> QED
      BY <2>3, <3>1
  <2>4. CASE ~F!Locked(h.node) /\ (SendWrite(t, h.fh) \/ SendTruncate(t, h.fh))
    <3>1. ~KernelLocked(h.fh)
      BY <2>1, <2>4, LockOfFile
    <3> QED
      BY <2>1, <2>4, <3>1 DEF Start, BeginWrite, BeginTruncate
  <2>5. Start(t)
    BY <2>1, <2>3, <2>4
  <2>6. PICK i, offsets : i = h.fh /\ offsets = {off \in Offsets : off < isize[h.fh] \/ h.fh \in twice}
    OBVIOUS
  <2>7. SendWrite(t, i) \/ SendTruncate(t, i) \/ SendRead(t, i, offsets)
    BY <2>1, <2>6
  <2> QED
    BY <2>5, <2>7
<1>3. F!OpenTrunc(t) => Start(t) /\ F!Data!OpenTrunc(t)
  BY SameStarts DEF F!OpenTrunc
<1>4. /\ Start(t)
      /\ \/ \E i : SendWrite(t, i) \/ SendTruncate(t, i) \/ \E offsets : SendRead(t, i, offsets)
         \/ F!Data!OpenTrunc(t)
  BY <1>2, <1>3
<1>5. BlockInv' /\ KeepsFirsts
  BY <1>4, StartBlocks
<1>6. UNCHANGED <<up, md>> /\ DataOthers(t) /\ up /\ call'[t].op # "create"
  BY <1>4, StartGoes
<1>7. stage = "up"
  BY <1>6 DEF F!JoinInv, F!TogetherOK
<1>8. F!Joint(t)'
  <2>1. UNCHANGED <<npc, ncall, nloc>>
    BY <1>1 DEF F!names, F!vars
  <2> QED
    BY <1>1, <1>6, <2>1, ThreadShape DEF F!Joint
<1> QED
  BY <1>1, <1>5, <1>6, <1>7, <1>8, DataJoins

\* A data request that throws at its head: the document of its handle has no
\* size, or it is a truncate that reads a null fuse_file_info.
LEMMA ThrownJoins ==
    ASSUME F!JoinInv, BlockInv, NEW t \in Threads, F!SizeMissing(t) \/ F!TruncateByPath(t)
    PROVE  F!JoinInv' /\ BlockInv'
<1>1. Die /\ fault' = NoFault /\ \E cause : F!Die(cause)
  BY SameDeaths, SameHelpers DEF F!SizeMissing, F!TruncateByPath, F!DataDies
<1> QED
  BY <1>1, DieBlocks, DeathJoins

\* init_db while no call is in progress, mount and kill.
LEMMA BootJoins ==
    ASSUME F!JoinInv, BlockInv, F!Boot
    PROVE  F!JoinInv' /\ BlockInv'
<1>1. CASE (F!InsertRootFails \/ F!Kill) /\ F!DataDies
  <2>1. Die /\ fault' = NoFault /\ \E cause : F!Die(cause)
    BY <1>1, SameDeaths, SameHelpers DEF F!InsertRootFails, F!Kill, F!DataDies
  <2> QED
    BY <2>1, DieBlocks, DeathJoins
<1>2. ASSUME stage # "up", UNCHANGED <<lookup, data, torn, pc, call, loc, npc, ncall, nloc, handles>>,
             BlockInv' /\ KeepsFirsts, up' <=> stage' = "up",
             \A i \in F!Files' : i \in F!Files /\ i \in DOMAIN md'
      PROVE  F!JoinInv' /\ BlockInv'
  <2>1. handles = {} /\ \A t \in Threads : npc[t] = "idle" /\ pc[t] = "idle"
    BY <1>2 DEF F!JoinInv, F!TogetherOK
  <2>2. F!TogetherOK' /\ F!ShapeOK'
    BY <1>2, <2>1 DEF F!JoinInv, F!TogetherOK, F!ShapeOK, F!LocalFields
  <2>3. F!FirstOK'
    <3>1. First'
      BY <1>2 DEF BlockInv
    <3> QED
      BY <3>1, FirstIsFirst, PTL
  <2>4. F!FilesServed'
    BY <1>2, SameOrders DEF F!FilesServed, F!JoinInv, KeepsFirsts
  <2>5. ASSUME NEW t \in Threads
        PROVE  F!Joint(t)' /\ F!Answers(t)'
    <3>1. call[t].op = "none"
      BY <2>1, ThreadTypes DEF BlockInv, ControlAt, MakesTrip, Growing, Linking, Copying, Cutting
    <3>2. F!Joint(t) /\ F!Answers(t)
      BY ThreadShape
    <3> QED
      BY <1>2, <2>1, <3>1, <3>2 DEF F!Joint, F!Answers
  <2> QED
    BY <1>2, <2>2, <2>3, <2>4, <2>5 DEF F!JoinInv, F!JointOK, F!AnswersOK
<1>3. ASSUME stage # "up"
      PROVE  \A t \in Threads : pc[t] = "idle"
  BY <1>3 DEF F!JoinInv, F!TogetherOK
<1>4. TypeOK
  BY DEF BlockInv, TypeInv
<1>5. ASSUME /\ F!RemoveRoot
             /\ md' = [i \in DOMAIN md \cap DOMAIN docs' |-> md[i]]
             /\ UNCHANGED <<lookup, data, isize, up, torn, fault, pc, call, loc>>
      PROVE  F!JoinInv' /\ BlockInv'
  <2>1. /\ stage # "up"  /\ stage' # "up"  /\ UNCHANGED <<mounts, npc, ncall, nloc, handles>>
        /\ \A i \in DOMAIN docs' : i \in DOMAIN docs /\ docs'[i] = docs[i]
    BY <1>5 DEF F!RemoveRoot, F!kernel
  <2>2. DOMAIN md \cap DOMAIN docs' \in SUBSET DOMAIN md
    OBVIOUS
  <2>3. BlockInv' /\ KeepsFirsts
    BY <1>3, <1>4, <1>5, <2>1, <2>2, RestBlocks DEF TypeOK
  <2>4. \A i \in F!Files' : i \in F!Files /\ i \in DOMAIN md'
    BY <1>5, <2>1 DEF F!Files, F!JoinInv, F!FilesServed
  <2>5. up' <=> stage' = "up"
    BY <1>5, <2>1 DEF F!JoinInv, F!TogetherOK
  <2> QED
    BY <1>2, <1>5, <2>1, <2>3, <2>4, <2>5
<1>6. ASSUME /\ F!InsertRoot
             /\ isize' = [i \in Inodes |-> IF i \in DOMAIN md THEN md[i] ELSE 0]
             /\ up' = TRUE  /\ fault' = F!Data!NoFault
             /\ UNCHANGED <<md, lookup, data, torn, pc, call, loc>>
      PROVE  F!JoinInv' /\ BlockInv'
  <2> DEFINE doc == [parent |-> ZeroInode, name |-> F!RootName, kind |-> "dir"]
  <2>1. /\ stage # "up"  /\ stage' = "up"  /\ UNCHANGED <<mounts, npc, ncall, nloc, handles>>
        /\ docs' = [c \in DOMAIN docs \cup {root} |-> IF c = root THEN doc ELSE docs[c]]
    BY <1>6 DEF F!InsertRoot, F!Add
  <2>2. isize' \in [Inodes -> Nat] /\ up' \in BOOLEAN /\ mounts' \in Nat /\ fault' = NoFault
    BY <1>4, <1>6, <2>1, SameHelpers DEF TypeOK
  <2>3. BlockInv' /\ KeepsFirsts
    BY <1>6, <2>2, RestBlocks
  <2>4. doc.kind # "file"
    OBVIOUS
  <2> HIDE DEF doc
  <2>5. \A i \in F!Files' : i \in F!Files /\ i \in DOMAIN md'
    BY <1>6, <2>1, <2>4 DEF F!Files, F!JoinInv, F!FilesServed
  <2> QED
    BY <1>2, <1>6, <2>1, <2>3, <2>5
<1>7. ASSUME F!Mount, UNCHANGED F!storage
      PROVE  F!JoinInv' /\ BlockInv'
  <2>1. /\ stage # "up"  /\ stage' # "up"  /\ UNCHANGED <<npc, ncall, nloc, handles, docs>>  /\ mounts' = mounts + 1
    BY <1>7 DEF F!Mount, F!kernel, F!database
  <2>2. UNCHANGED <<md, lookup, data, isize, up, torn, fault, pc, call, loc>>
    BY <1>7 DEF F!storage
  <2>3. BlockInv' /\ KeepsFirsts
    BY <1>4, <2>1, <2>2, RestBlocks DEF TypeOK
  <2>4. \A i \in F!Files' : i \in F!Files /\ i \in DOMAIN md'
    BY <2>1, <2>2 DEF F!Files, F!JoinInv, F!FilesServed
  <2>5. up' <=> stage' = "up"
    BY <2>1, <2>2 DEF F!JoinInv, F!TogetherOK
  <2> QED
    BY <1>2, <2>1, <2>2, <2>3, <2>4, <2>5
<1> QED
  BY <1>1, <1>5, <1>6, <1>7 DEF F!Boot

\* Every step of the file system, and one that changes nothing.
LEMMA NextJoins ==
    ASSUME F!JoinInv, BlockInv, twice = {}, F!Shared = {}, [F!NextAll]_F!allVars
    PROVE  F!JoinInv' /\ BlockInv'
<1>1. CASE F!NextAll
  BY <1>1, NameStepJoins, LinkBlockJoins, BlockLinkedJoins, FileMadeJoins, FileClashesJoins, DataCallJoins,
     ThrownJoins, DataStepJoins, BootJoins DEF F!NextAll
<1>2. CASE UNCHANGED F!allVars
  <2>1. UNCHANGED <<docs, blocked, root, stage, mounts, nfault, dentries, handles, renames, npc, ncall, nloc>>
    BY <1>2 DEF F!allVars, F!names, F!vars
  <2>2. UNCHANGED <<md, lookup, data, isize, up, torn, fault, pc, call, loc>>
    BY <1>2 DEF F!allVars, F!storage
  <2>3. BlockInv' /\ KeepsFirsts
    BY <2>1, <2>2, RestBlocks DEF BlockInv, TypeInv, TypeOK
  <2>4. F!FirstOK'
    <3>1. First'
      BY <2>3 DEF BlockInv
    <3> QED
      BY <3>1, FirstIsFirst, PTL
  <2>5. F!TogetherOK' /\ F!ShapeOK' /\ F!AnswersOK'
    BY <2>1, <2>2 DEF F!JoinInv, F!TogetherOK, F!ShapeOK, F!LocalFields, F!AnswersOK, F!Answers
  <2>6. F!JointOK' /\ F!FilesServed'
    BY <2>1, <2>2 DEF F!JoinInv, F!JointOK, F!Joint, F!FilesServed, F!Files, F!Data!Orders, F!Data!Entries
  <2> QED
    BY <2>3, <2>4, <2>5, <2>6 DEF F!JoinInv
<1> QED
  BY <1>1, <1>2

\* The start: no document, no block and no call.
LEMMA InitJoins == F!InitAll => F!JoinInv /\ BlockInv
<1> SUFFICES ASSUME F!InitAll PROVE F!JoinInv /\ BlockInv
  OBVIOUS
<1>1. /\ md = <<>>  /\ lookup = {}  /\ data = <<>>  /\ isize = [i \in Inodes |-> 0]
      /\ up = FALSE  /\ torn = {}  /\ fault = NoFault  /\ mounts = 1
      /\ pc = [t \in Threads |-> "idle"]  /\ call = [t \in Threads |-> NoCall]
      /\ loc = [t \in Threads |-> NoLocals]
  BY SameHelpers DEF F!InitAll, F!Init
<1>2. /\ docs = <<>>  /\ stage = "remove_root"  /\ handles = {}
      /\ npc = [t \in Threads |-> "idle"]  /\ ncall = [t \in Threads |-> F!NoCall]
      /\ nloc = [t \in Threads |-> F!NoLocals]
  BY DEF F!InitAll, F!Init
<1>3. \A t \in Threads : pc[t] = "idle" /\ call[t] = NoCall
  BY <1>1
<1>4. TypeInv
  <2>1. TypeOK
    <3>1. NoFault \in FaultTypes
      BY DEF NoFault, FaultTypes, Causes, Ops
    <3>2. /\ DOMAIN md \subseteq Inodes  /\ md \in [DOMAIN md -> Nat]  /\ lookup \subseteq Entry
          /\ DOMAIN data \subseteq DataIds  /\ data \in [DOMAIN data -> Block]
      BY <1>1
    <3>3. /\ isize \in [Inodes -> Nat]  /\ up \in BOOLEAN  /\ mounts \in Nat  /\ torn \subseteq Inodes
          /\ pc \in [Threads -> Labels]
      BY <1>1 DEF Labels
    <3>4. call \in [Threads -> RequestTypes] /\ loc \in [Threads -> LocalTypes]
      BY <1>1, IdleTypes
    <3> QED
      BY <1>1, <3>1, <3>2, <3>3, <3>4 DEF TypeOK
  <2>2. ControlOK
    BY <1>1, IdleTypes DEF ControlOK
  <2>3. OrdersBounded
    BY <1>1 DEF OrdersBounded
  <2> QED
    BY <2>1, <2>2, <2>3 DEF TypeInv
<1>5. LinkInv
  <2>1. OneModifier
    BY <1>3 DEF OneModifier, NoCall, Modifies
  <2>2. PendingOwned /\ RemovingOwned /\ FoundStillThere
    BY <1>3 DEF PendingOwned, RemovingOwned, FoundStillThere, Pending, Removing
  <2> QED
    BY <1>1, <2>1, <2>2 DEF LinkInv, NoDangling, NoSharing
<1>6. CoverInv
  <2>1. SizedOK /\ BackedOK
    BY <1>3 DEF SizedOK, SizedAt, BackedOK, BackedAt, Modifies, NoCall
  <2>2. GaplessOK /\ CoveredOK
    BY <1>1 DEF GaplessOK, Gapless, Orders, Entries, CoveredOK
  <2>3. ModifiersNeverAssert
    BY <1>1 DEF NoFault, ModifiersNeverAssert
  <2> QED
    BY <2>1, <2>2, <2>3 DEF CoverInv
<1>7. First
  BY <1>1 DEF First
<1>8. F!TogetherOK
  BY <1>1, <1>2 DEF F!TogetherOK
<1>9. F!ShapeOK
  BY <1>2, FirstLocals DEF F!ShapeOK
<1>10. F!FirstOK /\ F!FilesServed
  BY <1>2, <1>7, FirstIsFirst DEF F!FilesServed, F!Files
<1>11. ASSUME NEW t \in Threads
       PROVE  F!Joint(t) /\ F!Answers(t)
  BY <1>2, <1>3, FirstLocals DEF F!Joint, F!Answers, F!NoCall, NoCall
<1> QED
  BY <1>4, <1>5, <1>6, <1>7, <1>8, <1>9, <1>10, <1>11
     DEF F!JoinInv, F!JointOK, F!AnswersOK, BlockInv

\* No step forgets a file that has come to have two inodes of the kernel.
LEMMA SharedKept ==
    ASSUME F!Shared \subseteq twice, [F!NextAll]_F!allVars
    PROVE  twice \subseteq twice' /\ F!Shared' \subseteq twice'
<1>1. CASE F!NextAll
  <2>1. ASSUME NEW t \in Threads,
               \/ F!NameStep(t) \/ F!LinkBlock(t) \/ F!BlockLinked(t) \/ F!FileMade(t) \/ F!FileClashes(t)
               \/ F!DataCall(t) \/ F!SizeMissing(t) \/ F!OpenTrunc(t) \/ F!TruncateByPath(t) \/ F!DataStep(t)
        PROVE  twice' = twice \cup F!Shared'
    BY <2>1 DEF F!NameStep, F!LinkBlock, F!LinkFor, F!BlockLinked, F!FileMade, F!FileClashes, F!DataCall,
                F!SizeMissing, F!OpenTrunc, F!TruncateByPath, F!DataStep, F!Settled
  <2>2. ASSUME F!Boot
        PROVE  twice' = twice \cup F!Shared'
    BY <2>2 DEF F!Boot, F!Settled
  <2>3. twice' = twice \cup F!Shared'
    BY <1>1, <2>1, <2>2 DEF F!NextAll
  <2> QED
    BY <2>3
<1>2. CASE UNCHANGED F!allVars
  <2>1. UNCHANGED <<handles, call, lock, twice>>
    BY <1>2 DEF F!allVars, F!names, F!vars, F!storage
  <2>2. \A i : F!Through(i)' = F!Through(i)
    BY <2>1 DEF F!Through
  <2>3. F!Shared' = F!Shared
    BY <2>2 DEF F!Shared
  <2> QED
    BY <2>1, <2>3
<1> QED
  BY <1>1, <1>2

\* As long as the kernel has one inode for each file both halves of the daemon
\* fit together, and the half that BlockStore describes keeps its invariants
\* under the locks of the inodes that its calls have come through.
THEOREM JoinInvHolds == F!SpecAll => [](twice = {} => F!JoinInv /\ BlockInv)
<1> DEFINE Inv == F!Shared \subseteq twice /\ (twice = {} => F!JoinInv /\ BlockInv)
<1>1. F!InitAll => Inv
  <2> SUFFICES ASSUME F!InitAll PROVE Inv
    OBVIOUS
  <2>1. F!JoinInv /\ BlockInv
    BY InitJoins
  <2>2. handles = {} /\ call = [t \in Threads |-> NoCall]
    BY SameHelpers DEF F!InitAll, F!Init
  <2>3. \A t \in Threads : call[t].inode = NoInode
    BY <2>2 DEF NoCall
  <2>4. \A i \in Inodes : F!Through(i) = {}
    BY <2>2, <2>3, NoIdAssumption DEF F!Through
  <2>5. F!Shared = {}
    BY <2>4 DEF F!Shared
  <2> QED
    BY <2>1, <2>5
<1>2. Inv /\ [F!NextAll]_F!allVars => Inv'
  <2> SUFFICES ASSUME Inv, [F!NextAll]_F!allVars PROVE Inv'
    OBVIOUS
  <2>1. twice \subseteq twice' /\ F!Shared' \subseteq twice'
    BY SharedKept
  <2>2. ASSUME twice' = {}
        PROVE  F!JoinInv' /\ BlockInv'
    <3>1. twice = {} /\ F!Shared = {}
      BY <2>1, <2>2
    <3>2. F!JoinInv /\ BlockInv
      BY <3>1
    <3> HIDE DEF Inv
    <3> QED
      BY <3>1, <3>2, NextJoins
  <2> QED
    BY <2>1, <2>2
<1>3. Inv => (twice = {} => F!JoinInv /\ BlockInv)
  OBVIOUS
<1> HIDE DEF Inv
<1> QED
  BY <1>1, <1>2, <1>3, PTL DEF F!SpecAll

\* Whoever opens a path to a file finds its first block and the bytes of it:
\* create inserts the document last, and no truncate, crash, remount or clash
\* of ids takes away what it relies on.
THEOREM FilesHaveDataHolds == F!SpecAll => []F!FilesHaveData
<1>1. (twice = {} => F!JoinInv /\ BlockInv) => F!FilesHaveData
  <2> SUFFICES ASSUME F!JoinInv, BlockInv, NEW i \in F!Files
               PROVE  \E e \in lookup : e.inode = i /\ e.order = 0 /\ e.id \in DOMAIN data
    BY DEF F!FilesHaveData
  <2>1. 0 \in Orders(i)
    BY SameOrders DEF F!JoinInv, F!FilesServed
  <2> QED
    BY <2>1 DEF Orders, Entries, BlockInv, LinkInv, NoDangling
<1> QED
  BY <1>1, JoinInvHolds, PTL

\* Sizes stay covered by blocks under the calls that handles and the locks of
\* the kernel's inodes let through, with creates that draw the inode of another
\* file among them, until a file comes to have two of those inodes.
THEOREM CoveredTogether == F!SpecAll => [](twice = {} => F!Covered)
<1>1. F!JoinInv /\ BlockInv => F!Covered
  <2> SUFFICES ASSUME BlockInv, NEW i \in DOMAIN md \ torn, ~F!Data!Hurt(i)
               PROVE  OrderOf(md[i]) \in Orders(i)
    BY SameHelpers DEF F!Covered
  <2>1. Whole(i) /\ \A t \in Threads : ~ShrunkBy(t, i)
    BY SameHelpers
       DEF F!Data!Hurt, F!Data!Shrinking, F!Data!Intruding, Whole, Intruded, Intruding, ShrunkBy, Shrinking
  <2> QED
    BY <2>1 DEF BlockInv, CoverInv, CoveredOK
<1>2. (twice = {} => F!JoinInv /\ BlockInv) => (twice = {} => F!Covered)
  BY <1>1
<1> QED
  BY <1>2, JoinInvHolds, PTL
=============================================================================

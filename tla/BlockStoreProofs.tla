--------------------------- MODULE BlockStoreProofs ---------------------------
(* Theorems about BlockStore for every number of threads, files, blocks and  *)
(* mounts, every block size and every set of requests, and whether or not    *)
(* generate_id may return an id in use.                                      *)
EXTENDS BlockStoreInv, WellFoundedInduction, SequenceTheorems, TLAPS

-----------------------------------------------------------------------------
(* Arithmetic and maxima.                                                    *)

\* Every nonempty set of naturals has a least element.
LEMMA LeastOfNats ==
    ASSUME NEW S \in SUBSET Nat, S # {}
    PROVE  \E x \in S : \A y \in S : x <= y
<1> DEFINE R == OpToRel(<, Nat)
<1>1. IsWellFoundedOn(R, Nat)
  BY NatLessThanWellFounded
<1>2. PICK x \in S : \A y \in S : ~(<<y, x>> \in R)
  BY <1>1, WFMin, Zenon
<1>3. \A y \in S : ~(y < x)
  BY <1>2 DEF OpToRel
<1> QED
  BY <1>3

\* Max is the maximum of a nonempty bounded set of naturals.
LEMMA MaxOfBounded ==
    ASSUME NEW S \in SUBSET Nat, S # {}, NEW m \in Nat, \A x \in S : x <= m
    PROVE  Max(S) \in S /\ \A x \in S : x <= Max(S)
<1> DEFINE U == {n \in Nat : \A x \in S : x <= n}
<1>1. PICK n \in U : \A y \in U : n <= y
  <2>1. U \in SUBSET Nat /\ m \in U
    OBVIOUS
  <2> HIDE DEF U
  <2> QED
    BY <2>1, LeastOfNats
<1>2. n \in S
  <2>1. SUFFICES ASSUME n \notin S PROVE FALSE
    OBVIOUS
  <2>2. PICK x \in S : x # n /\ x <= n
    BY <2>1, <1>1
  <2>3. n - 1 \in U
    BY <2>1, <2>2, <1>1
  <2> QED
    BY <2>3, <1>1
<1> QED
  BY <1>1, <1>2 DEF Max

\* Products of naturals are naturals.
LEMMA Products == ASSUME NEW x \in Nat, NEW y \in Nat PROVE x * y \in Nat
  OBVIOUS

\* The number of blocks grows with the size.
LEMMA BlocksMonotone ==
    ASSUME NEW x \in Nat, NEW y \in Nat
    PROVE  /\ OrderOf(x) \in Nat  /\ Blocks(x) \in Nat  /\ Blocks(x) >= 1
           /\ x <= y => Blocks(x) <= Blocks(y)
  BY BlockSizeAssumption DEF Blocks, OrderOf

\* ... and the growth of a block count is a natural number.
LEMMA BlocksGrowth ==
    ASSUME NEW x \in Nat, NEW y \in Nat, x <= y
    PROVE  Blocks(y) - Blocks(x) \in Nat
  BY BlocksMonotone

\* A block is reached from any position in it without going back.
LEMMA AfterBlockBounds ==
    ASSUME NEW fp \in Nat, NEW stop \in Nat
    PROVE  /\ AfterBlock(fp, stop) \in Nat
           /\ fp <= AfterBlock(fp, stop)
           /\ AfterBlock(fp, stop) <= Greatest(fp, stop)
           /\ BlockEnd(fp) \in Nat
<1>1. BlockEnd(fp) \in Nat
  BY BlocksMonotone, BlockSizeAssumption DEF BlockEnd
<1> QED
  BY <1>1 DEF AfterBlock, Greatest, Least

\* Patching a block with bytes yields a block.
LEMMA PatchIsBlock ==
    ASSUME NEW block \in Block, NEW off \in Nat, NEW fp \in Nat, off <= fp,
           NEW buf \in Seq(Bytes)
    PROVE  Patch(block, fp, off, buf) \in Block
<1> DEFINE base == OrderOf(fp) * BLOCK_SIZE
           last == AfterBlock(fp, off + Len(buf))
<1>1. base \in Nat
  BY BlocksMonotone, BlockSizeAssumption, Products
<1>2. last \in Nat /\ last <= Greatest(fp, off + Len(buf))
  <2>1. off + Len(buf) \in Nat
    OBVIOUS
  <2> QED
    BY <2>1, AfterBlockBounds
<1>3. ASSUME NEW p \in Positions, base + p \in fp .. last - 1
      PROVE  buf[base + p - off + 1] \in Bytes
  <2>1. p \in Nat
    BY BlockSizeAssumption DEF Positions
  <2>2. base + p >= fp /\ base + p <= last - 1
    BY <1>1, <1>2, <1>3, <2>1
  <2>3. base + p - off + 1 \in 1 .. Len(buf)
    BY <1>1, <1>2, <2>1, <2>2 DEF Greatest
  <2> QED
    BY <2>3
<1> HIDE DEF base, last
<1>4. [p \in Positions |-> IF base + p \in fp .. last - 1 THEN buf[base + p - off + 1] ELSE block[p]] \in Block
  BY <1>3 DEF Block
<1> QED
  BY <1>4 DEF Patch, base, last

\* A slice of a block is a sequence of bytes.
LEMMA SliceIsBytes ==
    ASSUME NEW block \in Block, NEW fp \in Nat, NEW last \in Nat, fp <= last
    PROVE  Slice(block, fp, last) \in Seq(Bytes)
<1>1. \A n \in 1 .. last - fp : (fp + n - 1) % BLOCK_SIZE \in Positions
  BY BlockSizeAssumption DEF Positions
<1>2. last - fp \in Nat
  OBVIOUS
<1>3. Slice(block, fp, last) \in [1 .. last - fp -> Bytes]
  BY <1>1 DEF Slice, Block
<1> QED
  BY <1>2, <1>3, SeqDef

-----------------------------------------------------------------------------
(* Type correctness.                                                         *)

\* What a step of thread t does to the thread variables.
LEMMA GotoThreads ==
    ASSUME TypeOK, NEW t \in Threads, NEW label \in Labels, NEW l \in LocalTypes, Goto(t, label, l)
    PROVE  /\ pc' \in [Threads -> Labels]  /\ loc' \in [Threads -> LocalTypes]
           /\ pc'[t] = label  /\ loc'[t] = l
           /\ \A u \in Threads \ {t} : pc'[u] = pc[u] /\ loc'[u] = loc[u]
  BY DEF TypeOK, Goto

\* What other threads rely on stays true: no document leaves fs_metadata.
LEMMA GotoControl ==
    ASSUME TypeInv, NEW t \in Threads, NEW label \in Labels, NEW l \in LocalTypes, Goto(t, label, l),
           UNCHANGED call, DOMAIN md \subseteq DOMAIN md', ControlAt(call[t], label, l)
    PROVE  ControlOK'
<1> SUFFICES ASSUME NEW u \in Threads PROVE ControlAt(call[u], pc[u], loc[u])'
  BY DEF ControlOK
<1>1. ControlAt(call[u], pc'[u], loc'[u])
  BY GotoThreads DEF TypeInv, ControlOK
<1>2. call'[u] = call[u]
  OBVIOUS
<1> QED
  BY <1>1, <1>2 DEF ControlAt

\* What TypeInv says of one thread.
LEMMA ThreadTypes ==
    ASSUME TypeInv, NEW t \in Threads
    PROVE  call[t] \in RequestTypes /\ loc[t] \in LocalTypes /\ ControlAt(call[t], pc[t], loc[t])
  BY DEF TypeInv, TypeOK, ControlOK

\* A step that touches only its thread's local variables keeps the types.
LEMMA LocalStep ==
    ASSUME TypeInv, NEW t \in Threads, NEW label \in Labels, NEW l \in LocalTypes, Goto(t, label, l),
           UNCHANGED <<store, isize, daemon, call>>, ControlAt(call[t], label, l)
    PROVE  TypeInv'
<1>1. TypeOK'
  BY GotoThreads DEF TypeInv, TypeOK, store, daemon
<1>2. ControlOK'
  BY GotoControl DEF store
<1>3. OrdersBounded'
  BY DEF TypeInv, OrdersBounded, store
<1> QED
  BY <1>1, <1>2, <1>3 DEF TypeInv

\* The loop head of a write.
LEMMA EnterBufferTypes ==
    ASSUME NEW c \in RequestTypes, NEW l \in LocalTypes, NEW k \in DOMAIN c.bufs
    PROVE  /\ EnterBuffer(c, l, k) \in LocalTypes
           /\ EnterBuffer(c, l, k).idx = k
           /\ EnterBuffer(c, l, k).fp = c.off
           /\ BufEnd(c, k) \in Nat
<1>1. k \in Nat /\ c.off \in Nat /\ c.bufs[k] \in Seq(Bytes) /\ BufEnd(c, k) \in Nat
  BY DEF RequestTypes, Ops, BufEnd
<1>2. l.cur \in Nat
  BY DEF LocalTypes
<1>3. BufEnd(c, k) > l.cur => Blocks(BufEnd(c, k)) - Blocks(l.cur) \in Nat
  <2> DEFINE e == BufEnd(c, k)
             o == l.cur
  <2>1. e \in Nat /\ o \in Nat
    BY <1>1, <1>2
  <2> HIDE DEF e, o
  <2>2. e > o => Blocks(e) - Blocks(o) \in Nat
    BY <2>1, BlocksGrowth
  <2> QED
    BY <2>2 DEF e, o
<1>4. Greatest(l.cur, BufEnd(c, k)) \in Nat
  BY <1>1, <1>2 DEF Greatest
<1> QED
  BY <1>1, <1>3, <1>4 DEF EnterBuffer, LocalTypes

\* FindMdForWrite keeps the types: the metadata document of an open file is there, its
\* size is a natural and the loop head counts the blocks to add from it.
LEMMA FindMdForWriteTypes ==
    ASSUME TypeInv, NEW t \in Threads, FindMdForWrite(t)
    PROVE  TypeInv'
<1> DEFINE c == call[t]
           l == EnterBuffer(c, [loc[t] EXCEPT !.cur = md[c.inode]], 1)
<1>1. c \in RequestTypes /\ loc[t] \in LocalTypes /\ ControlAt(c, pc[t], loc[t])
  BY ThreadTypes
<1>2. c.inode \in DOMAIN md /\ 1 \in DOMAIN c.bufs /\ c.inode \in Inodes
  BY <1>1 DEF FindMdForWrite, ControlAt
<1>3. [loc[t] EXCEPT !.cur = md[c.inode]] \in LocalTypes
  BY <1>1, <1>2 DEF TypeInv, TypeOK, LocalTypes
<1>4. l \in LocalTypes /\ l.idx = 1 /\ l.fp = c.off
  BY <1>1, <1>2, <1>3, EnterBufferTypes
<1>5. Goto(t, GrowOr(l, "find_lookup"), l) /\ c.op = "write"
      /\ UNCHANGED <<store, isize, daemon, call>>
  BY DEF FindMdForWrite
<1> HIDE DEF l
<1>6. GrowOr(l, "find_lookup") \in Labels
  BY DEF GrowOr, Labels
<1>7. ControlAt(c, GrowOr(l, "find_lookup"), l)
  <2>1. c.off <= l.fp /\ l.need \in Nat
    BY <1>1, <1>4 DEF RequestTypes, Ops, LocalTypes
  <2>2. c.op = "write" /\ l.idx \in DOMAIN c.bufs
    BY <1>2, <1>4, <1>5
  <2> HIDE DEF c
  <2> QED
    BY <1>2, <2>1, <2>2 DEF ControlAt, GrowOr, MakesTrip, Growing, Linking, Copying
<1> QED
  BY <1>4, <1>5, <1>6, <1>7, LocalStep

\* FindMdForRead keeps the types: a read starts with the size in the document.
LEMMA FindMdForReadTypes ==
    ASSUME TypeInv, NEW t \in Threads, FindMdForRead(t)
    PROVE  TypeInv'
<1> DEFINE l == [loc[t] EXCEPT !.cur = md[call[t].inode], !.fp = call[t].off]
<1>1. call[t] \in RequestTypes /\ loc[t] \in LocalTypes /\ ControlAt(call[t], pc[t], loc[t])
  BY ThreadTypes
<1>2. call[t].inode \in DOMAIN md /\ call[t].inode \in Inodes /\ md[call[t].inode] \in Nat
  BY <1>1 DEF FindMdForRead, ControlAt, TypeInv, TypeOK
<1>3. l \in LocalTypes
  BY <1>1, <1>2 DEF LocalTypes, RequestTypes, Ops
<1>4. ControlAt(call[t], "find_lookup", l)
  BY <1>2 DEF FindMdForRead, ControlAt, MakesTrip, Growing, Linking, Copying
<1> QED
  BY <1>3, <1>4, LocalStep DEF FindMdForRead, Labels

\* FindMdForTruncate keeps the types: each of the four branches.
LEMMA FindMdForTruncateTypes ==
    ASSUME TypeInv, NEW t \in Threads, FindMdForTruncate(t)
    PROVE  TypeInv'
<1> DEFINE old == md[call[t].inode]
           new == call[t].size
           l == [loc[t] EXCEPT !.cur = new]
           g == [l EXCEPT !.need = Blocks(new) - Blocks(old)]
<1>1. call[t] \in RequestTypes /\ loc[t] \in LocalTypes /\ ControlAt(call[t], pc[t], loc[t])
  BY ThreadTypes
<1>2. call[t].inode \in DOMAIN md /\ call[t].inode \in Inodes /\ old \in Nat /\ new \in Nat
  BY <1>1 DEF FindMdForTruncate, ControlAt, TypeInv, TypeOK, RequestTypes, Ops
<1>3. l \in LocalTypes
  BY <1>1, <1>2 DEF LocalTypes
<1>4. \A label \in {"reply", "set_size", "find_ids"} : ControlAt(call[t], label, l) /\ label \in Labels
  BY <1>2 DEF FindMdForTruncate, ControlAt, MakesTrip, Growing, Linking, Copying, Cutting, Labels
<1>5. ASSUME Blocks(new) > Blocks(old)
      PROVE  g \in LocalTypes /\ ControlAt(call[t], "new_data", g) /\ "new_data" \in Labels
  <2> HIDE DEF new, old
  <2>1. Blocks(new) \in Nat /\ Blocks(old) \in Nat
    BY <1>2, BlocksMonotone
  <2>2. Blocks(new) - Blocks(old) \in Nat /\ Blocks(new) - Blocks(old) >= 1
    BY <2>1, <1>5
  <2> DEFINE n == Blocks(new) - Blocks(old)
  <2> HIDE DEF n
  <2>3. g = [l EXCEPT !.need = n] /\ n \in Nat /\ n >= 1
    BY <2>2 DEF n
  <2>4. g \in LocalTypes /\ g.need = n
    BY <1>3, <2>3 DEF LocalTypes
  <2> QED
    BY <1>2, <2>3, <2>4 DEF FindMdForTruncate, ControlAt, MakesTrip, Growing, Linking, Copying, Cutting, Labels
<1>6. /\ UNCHANGED <<store, isize, daemon, call>>
      /\ \/ \E label \in {"reply", "set_size", "find_ids"} : Goto(t, label, l)
         \/ Blocks(new) > Blocks(old) /\ Goto(t, "new_data", g)
  BY DEF FindMdForTruncate
<1> HIDE DEF l, g
<1> QED
  BY <1>3, <1>4, <1>5, <1>6, LocalStep

\* MaxOrder keeps the types: the next order exists and is a natural number.
LEMMA MaxOrderTypes ==
    ASSUME TypeInv, NEW t \in Threads, MaxOrder(t)
    PROVE  TypeInv'
<1> DEFINE l == [loc[t] EXCEPT !.order = NextOrder(call[t].inode)]
           i == call[t].inode
<1>1. call[t] \in RequestTypes /\ loc[t] \in LocalTypes /\ ControlAt(call[t], pc[t], loc[t])
  BY ThreadTypes
<1>2. NextOrder(i) \in Nat
  <2>1. CASE Entries(i) = {}
    BY <2>1 DEF NextOrder
  <2>2. CASE Entries(i) # {}
    <3>1. Orders(i) \in SUBSET Nat /\ Orders(i) # {}
      BY <2>2 DEF TypeInv, TypeOK, Entry, Orders, Entries
    <3>2. PICK m \in Nat : \A x \in Orders(i) : x <= m
      BY DEF TypeInv, OrdersBounded, Orders, Entries
    <3>3. Max(Orders(i)) \in Nat
      BY <3>1, <3>2, MaxOfBounded
    <3> QED
      BY <2>2, <3>3 DEF NextOrder
  <2> QED
    BY <2>1, <2>2
<1>3. l \in LocalTypes /\ l.need = loc[t].need /\ l.id = loc[t].id
      /\ l.idx = loc[t].idx /\ l.fp = loc[t].fp
  BY <1>1, <1>2 DEF LocalTypes
<1>4. Goto(t, "new_lookup", l) /\ pc[t] = "max_order" /\ UNCHANGED <<store, isize, daemon, call>>
  BY DEF MaxOrder
<1> HIDE DEF l, i
<1>5. ControlAt(call[t], "new_lookup", l)
  BY <1>1, <1>3, <1>4 DEF ControlAt, MakesTrip, Growing, Linking, Copying, Cutting
<1> QED
  BY <1>3, <1>4, <1>5, LocalStep DEF Labels

\* NewData keeps the types: the new block is all zeros.
LEMMA NewDataTypes ==
    ASSUME TypeInv, NEW t \in Threads, NewData(t)
    PROVE  TypeInv'
<1>1. call[t] \in RequestTypes /\ loc[t] \in LocalTypes /\ ControlAt(call[t], pc[t], loc[t])
  BY ThreadTypes
<1>2. PICK d \in DataIds \ DOMAIN data :
          /\ data' = [x \in DOMAIN data \cup {d} |-> IF x = d THEN ZeroBlock ELSE data[x]]
          /\ Goto(t, "max_order", [loc[t] EXCEPT !.id = d])
  BY DEF NewData
<1> DEFINE l == [loc[t] EXCEPT !.id = d]
<1>3. l \in LocalTypes /\ l.need = loc[t].need /\ l.id = d /\ l.idx = loc[t].idx /\ l.fp = loc[t].fp
  BY <1>1 DEF LocalTypes
<1>4. Goto(t, "max_order", l) /\ pc[t] = "new_data"
      /\ UNCHANGED <<md, lookup, isize, daemon, call>>
  BY <1>2 DEF NewData
<1> HIDE DEF l
<1>5. ControlAt(call[t], "max_order", l)
  BY <1>1, <1>3, <1>4 DEF ControlAt, MakesTrip, Growing, Linking, Copying
<1>6. DOMAIN data' \subseteq DataIds /\ data' \in [DOMAIN data' -> Block]
  <2>1. ZeroBlock \in Block
    BY ZeroAssumption DEF ZeroBlock, Block
  <2> QED
    BY <1>2, <2>1 DEF TypeInv, TypeOK
<1>7. TypeOK'
  BY <1>3, <1>4, <1>6, GotoThreads DEF TypeInv, TypeOK, daemon, Labels
<1>8. ControlOK'
  BY <1>3, <1>4, <1>5, GotoControl DEF Labels
<1> QED
  BY <1>4, <1>7, <1>8 DEF TypeInv, OrdersBounded

\* NewLookup keeps the types: the counter of blocks to add never passes zero.
LEMMA NewLookupTypes ==
    ASSUME TypeInv, NEW t \in Threads, NewLookup(t)
    PROVE  TypeInv'
<1> DEFINE e == [inode |-> call[t].inode, order |-> loc[t].order, id |-> loc[t].id]
           n == loc[t].need - 1
           l == [loc[t] EXCEPT !.id = NoId, !.order = 0, !.need = @ - 1]
           label == GrowOr(l, AfterGrowth(call[t].op))
<1>1. call[t] \in RequestTypes /\ loc[t] \in LocalTypes /\ ControlAt(call[t], pc[t], loc[t])
  BY ThreadTypes
<1>2. /\ pc[t] = "new_lookup"  /\ lookup' = lookup \cup {e}  /\ Goto(t, label, l)
      /\ UNCHANGED <<md, data, isize, daemon, call>>
  BY DEF NewLookup
<1>3. e \in Entry
  BY <1>1, <1>2 DEF ControlAt, Growing, Linking, LocalTypes, Entry
<1>4. n \in Nat
  BY <1>1, <1>2 DEF ControlAt, Growing, Linking, LocalTypes
<1>5. l \in LocalTypes /\ l.need = n /\ l.idx = loc[t].idx /\ l.fp = loc[t].fp
  <2>1. l = [loc[t] EXCEPT !.id = NoId, !.order = 0, !.need = n]
    OBVIOUS
  <2> HIDE DEF n
  <2> QED
    BY <1>1, <1>4, <2>1 DEF LocalTypes
<1>6. call[t].op \in {"create", "write", "truncate"}
  BY <1>1, <1>2 DEF ControlAt, MakesTrip, Copying, Cutting
<1> HIDE DEF l, n, e
<1>7. ControlAt(call[t], label, l) /\ label \in Labels
  <2>1. CASE l.need > 0
    BY <1>1, <1>2, <1>4, <1>5, <1>6, <2>1
       DEF ControlAt, MakesTrip, Growing, Linking, Copying, Cutting, GrowOr, Labels
  <2>2. CASE ~(l.need > 0)
    BY <1>1, <1>2, <1>5, <1>6, <2>2
       DEF ControlAt, MakesTrip, Growing, Linking, Copying, Cutting, GrowOr, AfterGrowth, Labels
  <2> QED
    BY <2>1, <2>2
<1> HIDE DEF label
<1>8. TypeOK'
  BY <1>2, <1>3, <1>5, <1>7, GotoThreads DEF TypeInv, TypeOK, daemon
<1>9. ControlOK'
  BY <1>2, <1>5, <1>7, GotoControl
<1>10. OrdersBounded'
  <2>1. PICK m \in Nat : \A f \in lookup : f.order <= m
    BY DEF TypeInv, OrdersBounded
  <2>2. e.order \in Nat
    BY <1>3 DEF Entry
  <2>3. m + e.order \in Nat /\ \A f \in lookup' : f.order <= m + e.order
    <3> SUFFICES ASSUME NEW f \in lookup' PROVE f.order <= m + e.order
      BY <2>1, <2>2
    <3>1. f.order \in Nat
      BY <1>2, <1>3 DEF TypeInv, TypeOK, Entry
    <3> QED
      BY <1>2, <2>1, <2>2, <3>1
  <2> QED
    BY <2>3 DEF OrdersBounded
<1> QED
  BY <1>8, <1>9, <1>10 DEF TypeInv

\* InsertMd keeps the types: a new file is empty.
LEMMA InsertMdTypes ==
    ASSUME TypeInv, NEW t \in Threads, InsertMd(t)
    PROVE  TypeInv'
<1>1. call[t] \in RequestTypes /\ loc[t] \in LocalTypes /\ ControlAt(call[t], pc[t], loc[t])
  BY ThreadTypes
<1>2. call[t].op = "create" /\ call[t].inode \in Inodes
  BY <1>1 DEF InsertMd, ControlAt, MakesTrip, Growing, Linking, Copying, Cutting
<1>3. DOMAIN md \subseteq DOMAIN md' /\ DOMAIN md' \subseteq Inodes /\ md' \in [DOMAIN md' -> Nat]
  BY <1>2 DEF InsertMd, TypeInv, TypeOK
<1>4. ControlAt(call[t], "reply", loc[t])
  BY <1>1, <1>2 DEF ControlAt, MakesTrip, Growing, Linking
<1>5. Goto(t, "reply", loc[t]) /\ "reply" \in Labels
      /\ UNCHANGED <<lookup, data, isize, daemon, call>>
  BY DEF InsertMd, Labels
<1>6. TypeOK'
  BY <1>1, <1>3, <1>5, GotoThreads DEF TypeInv, TypeOK, daemon
<1>7. ControlOK'
  BY <1>1, <1>3, <1>4, <1>5, GotoControl
<1> QED
  BY <1>5, <1>6, <1>7 DEF TypeInv, OrdersBounded

\* FindLookup keeps the types: the id found is one of a block.
LEMMA FindLookupTypes ==
    ASSUME TypeInv, NEW t \in Threads, FindLookup(t)
    PROVE  TypeInv'
<1>1. call[t] \in RequestTypes /\ loc[t] \in LocalTypes /\ ControlAt(call[t], pc[t], loc[t])
  BY ThreadTypes
<1>2. PICK e \in Wanted(t) : Goto(t, "find_data", [loc[t] EXCEPT !.id = e.id])
  BY DEF FindLookup
<1> DEFINE l == [loc[t] EXCEPT !.id = e.id]
<1>3. e.id \in DataIds
  BY DEF Wanted, Entries, TypeInv, TypeOK, Entry
<1>4. l \in LocalTypes /\ l.idx = loc[t].idx /\ l.fp = loc[t].fp
  BY <1>1, <1>3 DEF LocalTypes
<1>5. Goto(t, "find_data", l) /\ pc[t] = "find_lookup" /\ UNCHANGED <<store, isize, daemon, call>>
  BY <1>2 DEF FindLookup
<1> HIDE DEF l
<1>6. ControlAt(call[t], "find_data", l)
  BY <1>1, <1>4, <1>5 DEF ControlAt, MakesTrip, Growing, Linking, Copying, Cutting
<1> QED
  BY <1>4, <1>5, <1>6, LocalStep DEF Labels

\* FindDataForWrite keeps the types: the patched block has BLOCK_SIZE bytes and the
\* position moves forward.
LEMMA FindDataForWriteTypes ==
    ASSUME TypeInv, NEW t \in Threads, FindDataForWrite(t)
    PROVE  TypeInv'
<1> DEFINE c == call[t]
           k == loc[t].idx
           fp == loc[t].fp
           next == AfterBlock(fp, BufEnd(c, k))
           blk == Patch(data[loc[t].id], fp, c.off, c.bufs[k])
           total == loc[t].total + (next - fp)
           l == [loc[t] EXCEPT !.blk = blk, !.fp = next, !.total = total]
<1>1. c \in RequestTypes /\ loc[t] \in LocalTypes /\ ControlAt(c, pc[t], loc[t])
  BY ThreadTypes
<1>2. /\ pc[t] = "find_data"  /\ c.op = "write"  /\ loc[t].id \in DOMAIN data
      /\ Goto(t, "update_data", l)  /\ UNCHANGED <<store, isize, daemon, call>>
  BY DEF FindDataForWrite
<1>3. k \in DOMAIN c.bufs /\ c.off <= fp /\ c.inode \in DOMAIN md /\ c.inode \in Inodes /\ 1 \in DOMAIN c.bufs
  BY <1>1, <1>2 DEF ControlAt
<1>4. fp \in Nat /\ c.off \in Nat /\ c.bufs[k] \in Seq(Bytes) /\ loc[t].total \in Nat
  BY <1>1, <1>3 DEF LocalTypes, RequestTypes, Ops
<1>5. BufEnd(c, k) \in Nat
  BY <1>1, <1>3, EnterBufferTypes
<1>6. next \in Nat /\ fp <= next
  BY <1>4, <1>5, AfterBlockBounds
<1>7. blk \in Block
  <2>1. data[loc[t].id] \in Block
    BY <1>2 DEF TypeInv, TypeOK
  <2> QED
    BY <1>3, <1>4, <2>1, PatchIsBlock
<1>8. total \in Nat /\ c.off <= next
  <2> HIDE DEF next, fp
  <2> QED
    BY <1>3, <1>4, <1>6
<1> HIDE DEF next, blk, total
<1>9. l \in LocalTypes /\ l.idx = k /\ l.fp = next
  BY <1>1, <1>6, <1>7, <1>8 DEF LocalTypes
<1> HIDE DEF l
<1>10. ControlAt(c, "update_data", l)
  BY <1>2, <1>3, <1>8, <1>9 DEF ControlAt, MakesTrip, Growing, Linking
<1> QED
  BY <1>2, <1>9, <1>10, LocalStep DEF Labels

\* FindDataForRead keeps the types: the bytes returned are bytes of the block.
LEMMA FindDataForReadTypes ==
    ASSUME TypeInv, NEW t \in Threads, FindDataForRead(t)
    PROVE  TypeInv'
<1> DEFINE fp == loc[t].fp
           end == call[t].off + call[t].size
           next == AfterBlock(fp, Least(end, loc[t].cur))
           more == next = BlockEnd(fp) /\ next < end
           out == loc[t].out \o Slice(data[loc[t].id], fp, next)
           l == [loc[t] EXCEPT !.out = out, !.fp = next, !.id = NoId]
           label == IF more THEN "find_lookup" ELSE "reply"
<1>1. call[t] \in RequestTypes /\ loc[t] \in LocalTypes /\ ControlAt(call[t], pc[t], loc[t])
  BY ThreadTypes
<1>2. /\ pc[t] = "find_data"  /\ call[t].op = "read"  /\ loc[t].id \in DOMAIN data
      /\ Goto(t, label, l)  /\ UNCHANGED <<store, isize, daemon, call>>
  BY DEF FindDataForRead
<1>3. fp \in Nat /\ end \in Nat /\ loc[t].cur \in Nat /\ loc[t].out \in Seq(Bytes)
  <2>1. fp \in Nat /\ loc[t].cur \in Nat /\ loc[t].out \in Seq(Bytes)
    BY <1>1 DEF LocalTypes
  <2>2. call[t].off \in Nat /\ call[t].size \in Nat
    BY <1>1 DEF RequestTypes
  <2> QED
    BY <2>1, <2>2
<1>4. next \in Nat /\ fp <= next
  <2>1. Least(end, loc[t].cur) \in Nat
    BY <1>3 DEF Least
  <2> QED
    BY <1>3, <2>1, AfterBlockBounds
<1>5. out \in Seq(Bytes)
  <2>1. data[loc[t].id] \in Block
    BY <1>2 DEF TypeInv, TypeOK
  <2>2. Slice(data[loc[t].id], fp, next) \in Seq(Bytes)
    BY <1>3, <1>4, <2>1, SliceIsBytes
  <2> QED
    BY <1>3, <2>2, ConcatProperties
<1> HIDE DEF next, out, more
<1>6. l \in LocalTypes
  BY <1>1, <1>4, <1>5 DEF LocalTypes
<1> HIDE DEF l
<1>7. ControlAt(call[t], label, l) /\ label \in Labels
  BY <1>1, <1>2 DEF ControlAt, MakesTrip, Growing, Linking, Copying, Labels
<1> HIDE DEF label
<1> QED
  BY <1>2, <1>6, <1>7, LocalStep

\* UpdateData keeps the types: the loop goes on, enters a buffer that exists, or ends.
LEMMA UpdateDataTypes ==
    ASSUME TypeInv, NEW t \in Threads, UpdateData(t)
    PROVE  TypeInv'
<1> DEFINE c == call[t]
           l == [loc[t] EXCEPT !.id = NoId, !.blk = ZeroBlock]
           n == EnterBuffer(c, l, l.idx + 1)
<1>1. c \in RequestTypes /\ loc[t] \in LocalTypes /\ ControlAt(c, pc[t], loc[t])
  BY ThreadTypes
<1>2. /\ pc[t] = "update_data"
      /\ data' = [d \in DOMAIN data |-> IF d = loc[t].id THEN loc[t].blk ELSE data[d]]
      /\ \/ Goto(t, "find_lookup", l)
         \/ l.idx < Len(c.bufs) /\ Goto(t, GrowOr(n, "find_lookup"), n)
         \/ Goto(t, "set_size", l)
      /\ UNCHANGED <<md, lookup, isize, daemon, call>>
  BY DEF UpdateData
<1>3. c.op = "write" /\ c.inode \in DOMAIN md /\ c.inode \in Inodes /\ 1 \in DOMAIN c.bufs
      /\ loc[t].idx \in DOMAIN c.bufs /\ c.off <= loc[t].fp
  BY <1>1, <1>2 DEF ControlAt, MakesTrip, Growing, Linking, Copying, Cutting
<1>4. ZeroBlock \in Block
  BY ZeroAssumption DEF ZeroBlock, Block
<1>5. l \in LocalTypes /\ l.idx = loc[t].idx /\ l.fp = loc[t].fp
  BY <1>1, <1>4 DEF LocalTypes
<1>6. data' \in [DOMAIN data' -> Block] /\ DOMAIN data' = DOMAIN data
  <2>1. loc[t].blk \in Block
    BY <1>1 DEF LocalTypes
  <2> QED
    BY <1>2, <2>1 DEF TypeInv, TypeOK
<1> HIDE DEF l
<1>7. \A label \in {"find_lookup", "set_size"} : label \in Labels /\ ControlAt(c, label, l)
  BY <1>3, <1>5 DEF ControlAt, MakesTrip, Growing, Linking, Copying, Labels
<1>8. ASSUME l.idx < Len(c.bufs)
      PROVE  /\ n \in LocalTypes  /\ GrowOr(n, "find_lookup") \in Labels
             /\ ControlAt(c, GrowOr(n, "find_lookup"), n)
  <2>1. l.idx + 1 \in DOMAIN c.bufs
    BY <1>1, <1>3, <1>5, <1>8 DEF RequestTypes, Ops
  <2>2. n \in LocalTypes /\ n.idx = l.idx + 1 /\ n.fp = c.off
    BY <1>1, <1>5, <2>1, EnterBufferTypes
  <2>3. n.need \in Nat /\ c.off <= n.fp
    BY <1>1, <2>2 DEF LocalTypes, RequestTypes, Ops
  <2> HIDE DEF n
  <2>4. GrowOr(n, "find_lookup") \in Labels
    BY DEF GrowOr, Labels
  <2>5. n.idx \in DOMAIN c.bufs
    BY <2>1, <2>2
  <2> HIDE DEF c
  <2>6. ControlAt(c, GrowOr(n, "find_lookup"), n)
    BY <1>3, <2>3, <2>5 DEF ControlAt, GrowOr, MakesTrip, Growing, Linking, Copying
  <2> QED
    BY <2>2, <2>4, <2>6
<1> HIDE DEF n
<1>9. PICK label, m : label \in Labels /\ m \in LocalTypes /\ ControlAt(c, label, m) /\ Goto(t, label, m)
  BY <1>2, <1>5, <1>7, <1>8
<1>10. TypeOK'
  BY <1>2, <1>6, <1>9, GotoThreads DEF TypeInv, TypeOK, daemon
<1>11. ControlOK'
  BY <1>2, <1>9, GotoControl
<1> QED
  BY <1>2, <1>10, <1>11 DEF TypeInv, OrdersBounded

\* SetSize keeps the types: the size stored is a natural number.
LEMMA SetSizeTypes ==
    ASSUME TypeInv, NEW t \in Threads, SetSize(t)
    PROVE  TypeInv'
<1>1. call[t] \in RequestTypes /\ loc[t] \in LocalTypes /\ ControlAt(call[t], pc[t], loc[t])
  BY ThreadTypes
<1>2. loc[t].cur \in Nat
  BY <1>1 DEF LocalTypes
<1>3. DOMAIN md' = DOMAIN md /\ md' \in [DOMAIN md' -> Nat]
  BY <1>2 DEF SetSize, TypeInv, TypeOK
<1>4. Goto(t, "reply", loc[t]) /\ "reply" \in Labels /\ pc[t] = "set_size"
      /\ UNCHANGED <<lookup, data, isize, daemon, call>>
  BY DEF SetSize, Labels
<1>5. ControlAt(call[t], "reply", loc[t])
  BY <1>1, <1>4 DEF ControlAt, MakesTrip, Growing, Linking, Copying, Cutting
<1>6. TypeOK'
  BY <1>1, <1>3, <1>4, GotoThreads DEF TypeInv, TypeOK, daemon
<1>7. ControlOK'
  BY <1>1, <1>3, <1>4, <1>5, GotoControl
<1> QED
  BY <1>4, <1>6, <1>7 DEF TypeInv, OrdersBounded

\* FindIds keeps the types: the ids found are ids of blocks.
LEMMA FindIdsTypes ==
    ASSUME TypeInv, NEW t \in Threads, FindIds(t)
    PROVE  TypeInv'
<1> DEFINE found == {e.id : e \in EntriesFrom(call[t].inode, Blocks(call[t].size))}
           l == [loc[t] EXCEPT !.gone = found]
<1>1. call[t] \in RequestTypes /\ loc[t] \in LocalTypes /\ ControlAt(call[t], pc[t], loc[t])
  BY ThreadTypes
<1>2. found \in SUBSET DataIds
  BY DEF EntriesFrom, Entries, TypeInv, TypeOK, Entry
<1>3. Goto(t, "del_lookup", l) /\ pc[t] = "find_ids" /\ UNCHANGED <<store, isize, daemon, call>>
  BY DEF FindIds
<1> HIDE DEF found
<1>4. l \in LocalTypes
  BY <1>1, <1>2 DEF LocalTypes
<1>5. ControlAt(call[t], "del_lookup", l)
  BY <1>1, <1>3 DEF ControlAt, MakesTrip, Growing, Linking, Copying, Cutting
<1> QED
  BY <1>3, <1>4, <1>5, LocalStep DEF Labels

\* DelLookup keeps the types: documents only go.
LEMMA DelLookupTypes ==
    ASSUME TypeInv, NEW t \in Threads, DelLookup(t)
    PROVE  TypeInv'
<1>1. call[t] \in RequestTypes /\ loc[t] \in LocalTypes /\ ControlAt(call[t], pc[t], loc[t])
  BY ThreadTypes
<1>2. lookup' \subseteq lookup /\ pc[t] = "del_lookup" /\ UNCHANGED <<md, data, isize, daemon, call>>
  BY DEF DelLookup
<1>3. PICK label \in {"set_size", "del_data"} : Goto(t, label, loc[t])
  BY DEF DelLookup
<1>4. ControlAt(call[t], label, loc[t]) /\ label \in Labels
  BY <1>1, <1>2 DEF ControlAt, MakesTrip, Growing, Linking, Copying, Cutting, Labels
<1>5. TypeOK'
  BY <1>1, <1>2, <1>3, <1>4, GotoThreads DEF TypeInv, TypeOK, daemon
<1>6. ControlOK'
  BY <1>1, <1>2, <1>3, <1>4, GotoControl
<1> QED
  BY <1>2, <1>5, <1>6 DEF TypeInv, OrdersBounded

\* DelData keeps the types: blocks only go.
LEMMA DelDataTypes ==
    ASSUME TypeInv, NEW t \in Threads, DelData(t)
    PROVE  TypeInv'
<1>1. call[t] \in RequestTypes /\ loc[t] \in LocalTypes /\ ControlAt(call[t], pc[t], loc[t])
  BY ThreadTypes
<1>2. PICK d \in loc[t].gone, label \in {"set_size", "del_data"} :
          /\ data' = [x \in DOMAIN data \ {d} |-> data[x]]
          /\ Goto(t, label, [loc[t] EXCEPT !.gone = @ \ {d}])
  BY DEF DelData
<1> DEFINE l == [loc[t] EXCEPT !.gone = @ \ {d}]
<1>3. l \in LocalTypes
  <2>1. loc[t].gone \ {d} \in SUBSET DataIds
    BY <1>1 DEF LocalTypes
  <2> QED
    BY <1>1, <2>1 DEF LocalTypes
<1>4. pc[t] = "del_data" /\ Goto(t, label, l) /\ UNCHANGED <<md, lookup, isize, daemon, call>>
  BY <1>2 DEF DelData
<1> HIDE DEF l
<1>5. ControlAt(call[t], label, l) /\ label \in Labels
  BY <1>1, <1>4 DEF ControlAt, MakesTrip, Growing, Linking, Copying, Cutting, Labels
<1>6. DOMAIN data' \subseteq DataIds /\ data' \in [DOMAIN data' -> Block]
  BY <1>2 DEF TypeInv, TypeOK
<1>7. TypeOK'
  BY <1>3, <1>4, <1>5, <1>6, GotoThreads DEF TypeInv, TypeOK, daemon
<1>8. ControlOK'
  BY <1>3, <1>4, <1>5, GotoControl
<1> QED
  BY <1>4, <1>7, <1>8 DEF TypeInv, OrdersBounded

\* The variables of a thread that runs no call have their types.
LEMMA IdleTypes ==
    NoCall \in RequestTypes /\ NoLocals \in LocalTypes /\ ControlAt(NoCall, "idle", NoLocals)
<1>1. ZeroBlock \in Block
  BY ZeroAssumption DEF ZeroBlock, Block
<1> QED
  BY <1>1 DEF NoCall, NoLocals, RequestTypes, Ops, LocalTypes, ControlAt, MakesTrip, Growing, Linking

\* Reply keeps the types: the kernel's new size is a natural number.
LEMMA ReplyTypes ==
    ASSUME TypeInv, NEW t \in Threads, Reply(t)
    PROVE  TypeInv'
<1>1. call[t] \in RequestTypes /\ loc[t] \in LocalTypes /\ ControlAt(call[t], pc[t], loc[t])
  BY ThreadTypes
<1>2. pc' = [pc EXCEPT ![t] = "idle"] /\ loc' = [loc EXCEPT ![t] = NoLocals]
      /\ call' = [call EXCEPT ![t] = NoCall] /\ UNCHANGED <<store, daemon>>
  BY DEF Reply, Goto
<1>3. isize' \in [Inodes -> Nat]
  <2>1. call[t].off + loc[t].total \in Nat /\ call[t].size \in Nat
    <3>1. call[t].off \in Nat /\ call[t].size \in Nat
      BY <1>1 DEF RequestTypes
    <3>2. loc[t].total \in Nat
      BY <1>1 DEF LocalTypes
    <3> QED
      BY <3>1, <3>2
  <2> DEFINE e == call[t].off + loc[t].total
             i == call[t].inode
             s == call[t].size
  <2>2. isize' \in {isize, [isize EXCEPT ![i] = Greatest(@, e)], [isize EXCEPT ![i] = s]}
    BY DEF Reply
  <2> HIDE DEF e, i, s
  <2>3. e \in Nat /\ s \in Nat /\ isize \in [Inodes -> Nat]
    BY <2>1 DEF TypeInv, TypeOK, e, s
  <2>4. \A n \in Nat : Greatest(n, e) \in Nat
    BY <2>3 DEF Greatest
  <2> QED
    BY <2>2, <2>3, <2>4
<1>4. TypeOK'
  BY <1>2, <1>3, IdleTypes DEF TypeInv, TypeOK, Labels, store, daemon
<1>5. ControlOK'
  <2> SUFFICES ASSUME NEW u \in Threads PROVE ControlAt(call[u], pc[u], loc[u])'
    BY DEF ControlOK
  <2>1. CASE u = t
    BY <1>2, <2>1, IdleTypes DEF TypeInv, TypeOK, ControlAt, store
  <2>2. CASE u # t
    BY <1>2, <2>2 DEF TypeInv, TypeOK, ControlOK, ControlAt, store
  <2> QED
    BY <2>1, <2>2
<1> QED
  BY <1>2, <1>4, <1>5 DEF TypeInv, OrdersBounded, store

\* The end of the daemon keeps the types: every thread goes idle.
LEMMA DieTypes ==
    ASSUME TypeInv, Die, fault' \in FaultTypes
    PROVE  TypeInv'
<1>1. torn' \subseteq Inodes
  BY DEF Die, TypeInv, TypeOK
<1>2. TypeOK'
  BY <1>1, IdleTypes DEF Die, TypeInv, TypeOK, Labels, store
<1>3. ControlOK'
  BY IdleTypes DEF Die, ControlOK, ControlAt, store
<1> QED
  BY <1>2, <1>3 DEF Die, TypeInv, OrdersBounded, store

\* A failed assert or a thrown exception keeps the types: the fault names its call.
LEMMA AbortTypes ==
    ASSUME TypeInv, NEW t \in Threads, NEW cause \in Causes, Abort(t, cause)
    PROVE  TypeInv'
<1>1. call[t] \in RequestTypes
  BY ThreadTypes
<1>2. fault' \in FaultTypes
  BY <1>1 DEF Abort, RequestTypes, Ops, FaultTypes
<1> QED
  BY <1>2, DieTypes DEF Abort

\* A new request keeps the types: what its first round trip relies on holds.
LEMMA BeginTypes ==
    ASSUME TypeInv, NEW t \in Threads, NEW label \in Labels, NEW c \in RequestTypes, NEW n \in Nat,
           Begin(t, label, c, n), \A l \in LocalTypes : l.need = n => ControlAt(c, label, l)
    PROVE  TypeInv'
<1> DEFINE l == [NoLocals EXCEPT !.need = n]
<1>1. l \in LocalTypes /\ l.need = n
  BY IdleTypes DEF LocalTypes
<1>2. call' = [call EXCEPT ![t] = c] /\ Goto(t, label, l) /\ UNCHANGED <<store, isize, daemon>>
  BY DEF Begin
<1>3. ControlAt(c, label, l)
  BY <1>1
<1> HIDE DEF l
<1>4. TypeOK'
  BY <1>1, <1>2, GotoThreads DEF TypeInv, TypeOK, store, daemon
<1>5. ControlOK'
  <2> SUFFICES ASSUME NEW u \in Threads PROVE ControlAt(call[u], pc[u], loc[u])'
    BY DEF ControlOK
  <2>1. CASE u = t
    BY <1>1, <1>2, <1>3, <2>1, GotoThreads DEF TypeInv, TypeOK, ControlAt, store
  <2>2. CASE u # t
    BY <1>1, <1>2, <2>2, GotoThreads DEF TypeInv, TypeOK, ControlOK, ControlAt, store
  <2> QED
    BY <2>1, <2>2
<1> QED
  BY <1>2, <1>4, <1>5 DEF TypeInv, OrdersBounded, store

\* Every request keeps the types: one case for each kind.
LEMMA StartTypes ==
    ASSUME TypeInv, NEW t \in Threads, Start(t)
    PROVE  TypeInv'
<1>1. CASE BeginCreate(t)
  <2>1. PICK i \in Inodes : Begin(t, "new_data", [NoCall EXCEPT !.op = "create", !.inode = i], 1)
    BY <1>1 DEF BeginCreate
  <2> DEFINE c == [NoCall EXCEPT !.op = "create", !.inode = i]
  <2>2. c \in RequestTypes /\ c.op = "create" /\ c.inode = i
    BY IdleTypes DEF RequestTypes, Ops
  <2> HIDE DEF c
  <2>3. \A l \in LocalTypes : l.need = 1 => ControlAt(c, "new_data", l)
    BY <2>2 DEF ControlAt, MakesTrip, Growing, Linking
  <2> QED
    BY <2>1, <2>2, <2>3, BeginTypes DEF Labels, c
<1>2. ASSUME NEW i \in DOMAIN md, NEW op \in {"write", "read", "truncate"}, NEW c \in RequestTypes,
             c.op = op, c.inode = i, op = "write" => 1 \in DOMAIN c.bufs, Begin(t, "find_md", c, 0)
      PROVE  TypeInv'
  <2>1. i \in Inodes
    BY DEF TypeInv, TypeOK
  <2>2. \A l \in LocalTypes : l.need = 0 => ControlAt(c, "find_md", l)
    BY <1>2, <2>1 DEF ControlAt, MakesTrip, Growing, Linking
  <2> QED
    BY <1>2, <2>2, BeginTypes DEF Labels
<1>3. CASE BeginWrite(t)
  <2>1. PICK i \in DOMAIN md, off \in Offsets, bufs \in BufVecs :
            Begin(t, "find_md", [NoCall EXCEPT !.op = "write", !.inode = i, !.off = off, !.bufs = bufs], 0)
    BY <1>3 DEF BeginWrite, SendWrite
  <2> DEFINE c == [NoCall EXCEPT !.op = "write", !.inode = i, !.off = off, !.bufs = bufs]
  <2>2. i \in Inodes /\ off \in Nat /\ bufs \in Seq(Seq(Bytes))
    <3>1. bufs \in Seq(Seq(Bytes) \ {<<>>})
      BY RequestAssumption
    <3>2. bufs \in Seq(Seq(Bytes))
      BY <3>1, SeqMonotonic
    <3> QED
      BY <3>2, RequestAssumption DEF TypeInv, TypeOK
  <2>3. c \in RequestTypes /\ c.op = "write" /\ c.inode = i /\ c.bufs = bufs
    BY <2>2 DEF NoCall, RequestTypes, Ops
  <2>4. 1 \in DOMAIN bufs
    <3>1. bufs # <<>>
      BY RequestAssumption
    <3> QED
      BY <2>2, <3>1
  <2> QED
    BY <1>2, <2>1, <2>3, <2>4
<1>4. CASE BeginRead(t)
  <2>1. PICK i \in DOMAIN md, off \in Offsets, n \in ReadSizes :
            Begin(t, "find_md", [NoCall EXCEPT !.op = "read", !.inode = i, !.off = off, !.size = n], 0)
    BY <1>4 DEF BeginRead, SendRead
  <2> DEFINE c == [NoCall EXCEPT !.op = "read", !.inode = i, !.off = off, !.size = n]
  <2>2. i \in Inodes /\ off \in Nat /\ n \in Nat
    BY RequestAssumption DEF TypeInv, TypeOK
  <2>3. c \in RequestTypes /\ c.op = "read" /\ c.inode = i
    BY <2>2, IdleTypes DEF RequestTypes, Ops
  <2> QED
    BY <1>2, <2>1, <2>3
<1>5. CASE BeginTruncate(t)
  <2>1. PICK i \in DOMAIN md, n \in NewSizes :
            Begin(t, "find_md", [NoCall EXCEPT !.op = "truncate", !.inode = i, !.size = n], 0)
    BY <1>5 DEF BeginTruncate, SendTruncate
  <2> DEFINE c == [NoCall EXCEPT !.op = "truncate", !.inode = i, !.size = n]
  <2>2. i \in Inodes /\ n \in Nat
    BY RequestAssumption DEF TypeInv, TypeOK
  <2>3. c \in RequestTypes /\ c.op = "truncate" /\ c.inode = i
    BY <2>2, IdleTypes DEF RequestTypes, Ops
  <2> QED
    BY <1>2, <2>1, <2>3
<1>6. CASE OpenTrunc(t)
  <2>1. isize' \in [Inodes -> Nat]
    BY <1>6 DEF OpenTrunc, TypeInv, TypeOK
  <2>2. TypeOK'
    BY <1>6, <2>1 DEF OpenTrunc, TypeInv, TypeOK, store, daemon, threads
  <2> QED
    BY <1>6, <2>2 DEF OpenTrunc, TypeInv, ControlOK, ControlAt, OrdersBounded, store, threads
<1>7. CASE TruncateByPath(t)
  <2>1. fault' \in FaultTypes /\ Die
    BY <1>7 DEF TruncateByPath, FaultTypes, Causes, Ops, TypeInv, TypeOK
  <2> QED
    BY <2>1, DieTypes
<1>8. CASE Fallocate(t)
  <2>1. isize' \in [Inodes -> Nat]
    BY <1>8, RequestAssumption DEF Fallocate, TypeInv, TypeOK
  <2>2. TypeOK'
    BY <1>8, <2>1 DEF Fallocate, TypeInv, TypeOK, store, daemon, threads
  <2> QED
    BY <1>8, <2>2 DEF Fallocate, TypeInv, ControlOK, ControlAt, OrdersBounded, store, threads
<1> QED
  BY <1>1, <1>3, <1>4, <1>5, <1>6, <1>7, <1>8 DEF Start

\* Every step of a thread keeps the types: one lemma for each action.
LEMMA StepTypes ==
    ASSUME TypeInv, NEW t \in Threads, Step(t)
    PROVE  TypeInv'
<1>1. CASE PipeFails(t) \/ NewDataClash(t) \/ InsertMdClash(t) \/ FindLookupFails(t) \/ FindDataFails(t)
  BY <1>1, AbortTypes DEF PipeFails, NewDataClash, InsertMdClash, FindLookupFails, FindDataFails, Causes
<1> QED
  BY <1>1, FindMdForWriteTypes, FindMdForReadTypes, FindMdForTruncateTypes, NewDataTypes,
     MaxOrderTypes, NewLookupTypes, InsertMdTypes, FindLookupTypes, FindDataForWriteTypes,
     FindDataForReadTypes, UpdateDataTypes, SetSizeTypes, FindIdsTypes, DelLookupTypes,
     DelDataTypes, ReplyTypes DEF Step

\* Every step of the specification preserves TypeInv.
LEMMA TypeInvInductive == TypeInv /\ [Next]_vars => TypeInv'
<1> SUFFICES ASSUME TypeInv, [Next]_vars PROVE TypeInv'
  OBVIOUS
<1>1. CASE \E t \in Threads : Start(t) \/ Step(t)
  BY <1>1, StartTypes, StepTypes
<1>2. CASE Kill
  BY <1>2, DieTypes DEF Kill, NoFault, FaultTypes, Causes, Ops
<1>3. CASE Mount
  <2>1. isize' \in [Inodes -> Nat]
    BY <1>3 DEF Mount, TypeInv, TypeOK
  <2>2. mounts' \in Nat /\ fault' = NoFault
    BY <1>3 DEF Mount, TypeInv, TypeOK
  <2>3. TypeOK'
    BY <1>3, <2>1, <2>2 DEF Mount, NoFault, FaultTypes, Causes, Ops, TypeInv, TypeOK, store, threads
  <2> QED
    BY <1>3, <2>3 DEF Mount, TypeInv, ControlOK, ControlAt, OrdersBounded, store, threads
<1>4. CASE UNCHANGED vars
  BY <1>4 DEF vars, TypeInv, TypeOK, ControlOK, ControlAt, OrdersBounded
<1> QED
  BY <1>1, <1>2, <1>3, <1>4 DEF Next

\* TypeInv holds initially.
LEMMA TypeInvInitial == Init => TypeInv
<1> SUFFICES ASSUME Init PROVE TypeInv
  OBVIOUS
<1>1. TypeOK
  BY IdleTypes DEF Init, TypeOK, Labels, NoFault, FaultTypes, Causes, Ops
<1>2. ControlOK
  BY IdleTypes DEF Init, ControlOK
<1>3. OrdersBounded
  BY DEF Init, OrdersBounded
<1> QED
  BY <1>1, <1>2, <1>3 DEF TypeInv

\* Each thread's round trip and local variables fit the request it serves, in
\* every state that the handlers reach.
THEOREM TypeInvHolds == Spec => []TypeInv
<1> QED
  BY TypeInvInitial, TypeInvInductive, PTL DEF Spec

\* The collections keep their schemas and every handler's local variables
\* their types, for all requests, block sizes and numbers of threads; in
\* particular no block count goes below zero.
THEOREM TypeCorrect == Spec => []TypeOK
<1>1. TypeInv => TypeOK
  BY DEF TypeInv
<1> QED
  BY <1>1, TypeInvHolds, PTL

-----------------------------------------------------------------------------
(* The links between fs_lookup and fs_data.                                  *)

\* What Goto leaves in the variables of the threads.
LEMMA GotoEffect ==
    ASSUME TypeOK, NEW t \in Threads, NEW label, NEW l, Goto(t, label, l)
    PROVE  /\ pc'[t] = label  /\ loc'[t] = l
           /\ \A u \in Threads \ {t} : pc'[u] = pc[u] /\ loc'[u] = loc[u]
  BY DEF TypeOK, Goto

\* A step that neither links nor unlinks, and after which no thread holds
\* blocks it did not hold before.
LEMMA FrameLinks ==
    ASSUME LinkInv, lookup' = lookup, DOMAIN data' = DOMAIN data, OneModifier', FoundStillThere',
           \A u \in Threads : Pending(u)' \subseteq Pending(u) /\ Removing(u)' \subseteq Removing(u)
    PROVE  LinkInv'
<1>1. NoDangling' /\ NoSharing' /\ Linked' = Linked
  BY DEF LinkInv, NoDangling, NoSharing, Linked
<1>2. PendingOwned'
  BY <1>1 DEF LinkInv, PendingOwned
<1>3. RemovingOwned'
  BY <1>1 DEF LinkInv, RemovingOwned
<1> QED
  BY <1>1, <1>2, <1>3 DEF LinkInv

\* A step of one thread after which it holds no block.
LEMMA QuietStep ==
    ASSUME TypeOK, LinkInv, NEW t \in Threads,
           NEW label \in Labels \ {"max_order", "new_lookup", "del_lookup", "del_data"}, NEW l,
           Goto(t, label, l), lookup' = lookup, DOMAIN data' = DOMAIN data, OneModifier',
           \A u \in Threads \ {t} : call'[u] = call[u]
    PROVE  LinkInv'
<1>1. pc'[t] = label /\ \A u \in Threads \ {t} : pc'[u] = pc[u] /\ loc'[u] = loc[u]
  BY GotoEffect
<1>2. \A u \in Threads : Pending(u)' \subseteq Pending(u) /\ Removing(u)' \subseteq Removing(u)
  BY <1>1 DEF Pending, Removing
<1>3. FoundStillThere'
  BY <1>1 DEF LinkInv, FoundStillThere, EntriesFrom, Entries
<1> QED
  BY <1>2, <1>3, FrameLinks

\* Steps that move no block from hand to hand.
LEMMA QuietLinks ==
    ASSUME TypeInv, LinkInv, NEW t \in Threads,
           \/ FindMdForWrite(t) \/ FindMdForRead(t) \/ FindMdForTruncate(t) \/ InsertMd(t)
           \/ FindLookup(t) \/ FindDataForWrite(t) \/ FindDataForRead(t)
           \/ UpdateData(t) \/ SetSize(t)
    PROVE  LinkInv'
<1>1. lookup' = lookup /\ call' = call
  BY DEF FindMdForWrite, FindMdForRead, FindMdForTruncate, InsertMd, FindLookup, FindDataForWrite,
         FindDataForRead, UpdateData, SetSize, store
<1>2. DOMAIN data' = DOMAIN data
  BY DEF FindMdForWrite, FindMdForRead, FindMdForTruncate, InsertMd, FindLookup, FindDataForWrite,
         FindDataForRead, UpdateData, SetSize, store
<1>3. PICK label \in {"new_data", "find_lookup", "reply", "set_size", "find_ids", "find_data", "update_data"} :
          \E l : Goto(t, label, l)
  <2>1. CASE FindMdForWrite(t)
    BY <2>1 DEF FindMdForWrite, GrowOr
  <2>2. CASE FindMdForTruncate(t)
    BY <2>2 DEF FindMdForTruncate
  <2>3. CASE UpdateData(t)
    BY <2>3 DEF UpdateData, GrowOr
  <2>4. CASE FindDataForRead(t)
    BY <2>4 DEF FindDataForRead
  <2>5. CASE FindMdForRead(t) \/ InsertMd(t) \/ FindLookup(t) \/ FindDataForWrite(t) \/ SetSize(t)
    BY <2>5 DEF FindMdForRead, InsertMd, FindLookup, FindDataForWrite, SetSize
  <2> QED
    BY <2>1, <2>2, <2>3, <2>4, <2>5
<1>4. PICK l : Goto(t, label, l)
  BY <1>3
<1>5. OneModifier'
  BY <1>1 DEF LinkInv, OneModifier
<1> QED
  BY <1>1, <1>2, <1>4, <1>5, QuietStep DEF TypeInv, Labels

\* A new block is pending in the hands of the thread that made it, and of no other.
LEMMA NewDataLinks ==
    ASSUME TypeInv, LinkInv, NEW t \in Threads, NewData(t)
    PROVE  LinkInv'
<1>1. PICK d \in DataIds \ DOMAIN data :
          DOMAIN data' = DOMAIN data \cup {d} /\ Goto(t, "max_order", [loc[t] EXCEPT !.id = d])
  BY DEF NewData
<1>2. pc[t] = "new_data" /\ UNCHANGED <<lookup, call>>
  BY DEF NewData
<1>3. pc'[t] = "max_order" /\ loc'[t].id = d
      /\ \A u \in Threads \ {t} : pc'[u] = pc[u] /\ loc'[u] = loc[u]
  BY <1>1, GotoEffect, ThreadTypes DEF TypeInv, LocalTypes
<1>4. Linked' = Linked /\ d \notin Linked
  BY <1>1, <1>2 DEF Linked, LinkInv, NoDangling
<1>5. Pending(t)' = {d} /\ Removing(t)' = {}
      /\ \A u \in Threads \ {t} : Pending(u)' = Pending(u) /\ Removing(u)' = Removing(u)
  BY <1>3 DEF Pending, Removing
<1>6. NoDangling' /\ NoSharing' /\ OneModifier'
  BY <1>1, <1>2 DEF LinkInv, NoDangling, NoSharing, OneModifier
<1>7. PendingOwned'
  BY <1>1, <1>4, <1>5 DEF LinkInv, PendingOwned
<1>8. RemovingOwned'
  BY <1>1, <1>4, <1>5 DEF LinkInv, RemovingOwned
<1>9. FoundStillThere'
  BY <1>2, <1>3 DEF LinkInv, FoundStillThere, EntriesFrom, Entries
<1> QED
  BY <1>6, <1>7, <1>8, <1>9 DEF LinkInv

\* The pending block stays pending.
LEMMA MaxOrderLinks ==
    ASSUME TypeInv, LinkInv, NEW t \in Threads, MaxOrder(t)
    PROVE  LinkInv'
<1>1. pc[t] = "max_order" /\ UNCHANGED <<lookup, data, call>>
  BY DEF MaxOrder, store
<1>2. pc'[t] = "new_lookup" /\ loc'[t].id = loc[t].id
      /\ \A u \in Threads \ {t} : pc'[u] = pc[u] /\ loc'[u] = loc[u]
  <2>1. Goto(t, "new_lookup", [loc[t] EXCEPT !.order = NextOrder(call[t].inode)])
    BY DEF MaxOrder
  <2> QED
    BY <2>1, GotoEffect, ThreadTypes DEF TypeInv, LocalTypes
<1>3. \A u \in Threads : Pending(u)' \subseteq Pending(u) /\ Removing(u)' \subseteq Removing(u)
  BY <1>1, <1>2 DEF Pending, Removing
<1>4. OneModifier' /\ FoundStillThere'
  BY <1>1, <1>2 DEF LinkInv, OneModifier, FoundStillThere, EntriesFrom, Entries
<1> QED
  BY <1>1, <1>3, <1>4, FrameLinks

\* The pending block becomes a linked one.
LEMMA NewLookupLinks ==
    ASSUME TypeInv, LinkInv, NEW t \in Threads, NewLookup(t)
    PROVE  LinkInv'
<1> DEFINE e == [inode |-> call[t].inode, order |-> loc[t].order, id |-> loc[t].id]
<1>1. pc[t] = "new_lookup" /\ lookup' = lookup \cup {e} /\ UNCHANGED <<data, call>>
  BY DEF NewLookup
<1>2. PICK label \in {"new_data", "insert_md", "find_lookup", "set_size"} : \E l : Goto(t, label, l)
  <2>1. call[t].op \in {"create", "write", "truncate"}
    BY <1>1, ThreadTypes DEF ControlAt, MakesTrip, Copying, Cutting
  <2> QED
    BY <2>1 DEF NewLookup, GrowOr, AfterGrowth
<1>3. pc'[t] = label /\ \A u \in Threads \ {t} : pc'[u] = pc[u] /\ loc'[u] = loc[u]
  BY <1>2, GotoEffect DEF TypeInv
<1>4. e.id \in Pending(t) /\ Pending(t)' = {} /\ Removing(t)' = {}
      /\ \A u \in Threads \ {t} : Pending(u)' = Pending(u) /\ Removing(u)' = Removing(u)
  BY <1>1, <1>3 DEF Pending, Removing
<1> HIDE DEF e
<1>5. e.id \in DOMAIN data /\ e.id \notin Linked /\ Linked' = Linked \cup {e.id}
  BY <1>1, <1>4 DEF LinkInv, PendingOwned, Linked
<1>6. NoDangling'
  BY <1>1, <1>5 DEF LinkInv, NoDangling
<1>7. NoSharing'
  BY <1>1, <1>5 DEF LinkInv, NoSharing, Linked
<1>8. PendingOwned'
  BY <1>1, <1>4, <1>5 DEF LinkInv, PendingOwned
<1>9. RemovingOwned'
  BY <1>1, <1>4, <1>5 DEF LinkInv, PendingOwned, RemovingOwned
<1>10. OneModifier' /\ FoundStillThere'
  BY <1>1, <1>3 DEF LinkInv, OneModifier, FoundStillThere, EntriesFrom, Entries
<1> QED
  BY <1>6, <1>7, <1>8, <1>9, <1>10 DEF LinkInv

\* What the find returns is what the delete will match.
LEMMA FindIdsLinks ==
    ASSUME TypeInv, LinkInv, NEW t \in Threads, FindIds(t)
    PROVE  LinkInv'
<1> DEFINE found == {e.id : e \in EntriesFrom(call[t].inode, Blocks(call[t].size))}
<1>1. UNCHANGED <<lookup, data, call>>
  BY DEF FindIds, store
<1>2. pc'[t] = "del_lookup" /\ loc'[t].gone = found
      /\ \A u \in Threads \ {t} : pc'[u] = pc[u] /\ loc'[u] = loc[u]
  <2>1. Goto(t, "del_lookup", [loc[t] EXCEPT !.gone = found])
    BY DEF FindIds
  <2> HIDE DEF found
  <2> QED
    BY <2>1, GotoEffect, ThreadTypes DEF TypeInv, LocalTypes
<1>3. \A u \in Threads : Pending(u)' \subseteq Pending(u) /\ Removing(u)' \subseteq Removing(u)
  BY <1>2 DEF Pending, Removing
<1>4. OneModifier'
  BY <1>1 DEF LinkInv, OneModifier
<1>5. FoundStillThere'
  BY <1>1, <1>2 DEF LinkInv, FoundStillThere, EntriesFrom, Entries
<1> QED
  BY <1>1, <1>3, <1>4, <1>5, FrameLinks

\* The delete takes away exactly the documents of the blocks to remove, and
\* no other truncate runs on the file.
LEMMA DelLookupLinks ==
    ASSUME TypeInv, LinkInv, NEW t \in Threads, DelLookup(t)
    PROVE  LinkInv'
<1> DEFINE cut == EntriesFrom(call[t].inode, Blocks(call[t].size))
<1>1. pc[t] = "del_lookup" /\ lookup' = lookup \ cut /\ UNCHANGED <<data, call>>
  BY DEF DelLookup
<1>2. PICK label \in {"set_size", "del_data"} : Goto(t, label, loc[t])
  BY DEF DelLookup
<1>3. pc'[t] = label /\ loc'[t] = loc[t]
      /\ \A u \in Threads \ {t} : pc'[u] = pc[u] /\ loc'[u] = loc[u]
  BY <1>2, GotoEffect DEF TypeInv
<1>4. cut \subseteq lookup /\ loc[t].gone \subseteq {e.id : e \in cut}
  BY <1>1 DEF LinkInv, FoundStillThere, EntriesFrom, Entries
<1>5. Linked' \subseteq Linked
  BY <1>1 DEF Linked
<1>6. loc[t].gone \subseteq Linked /\ loc[t].gone \subseteq DOMAIN data
  BY <1>4 DEF LinkInv, NoDangling, Linked
<1>7. loc[t].gone \cap Linked' = {}
  <2> SUFFICES ASSUME NEW e \in cut, NEW f \in lookup', e.id = f.id PROVE FALSE
    BY <1>4 DEF Linked
  <2> QED
    BY <1>1, <1>4 DEF LinkInv, NoSharing
<1> HIDE DEF cut
<1>8. Pending(t)' = {} /\ Removing(t)' \subseteq loc[t].gone
      /\ \A u \in Threads \ {t} : Pending(u)' = Pending(u) /\ Removing(u)' = Removing(u)
  BY <1>3 DEF Pending, Removing
<1>9. NoDangling' /\ NoSharing' /\ OneModifier'
  BY <1>1 DEF LinkInv, NoDangling, NoSharing, OneModifier
<1>10. PendingOwned'
  BY <1>1, <1>5, <1>8 DEF LinkInv, PendingOwned
<1>11. RemovingOwned'
  <2>1. \A u \in Threads : Removing(u)' \subseteq DOMAIN data' \ Linked'
    BY <1>1, <1>5, <1>6, <1>7, <1>8 DEF LinkInv, RemovingOwned
  <2>2. \A u \in Threads \ {t} : Removing(t)' \cap Removing(u)' = {}
    BY <1>6, <1>8 DEF LinkInv, RemovingOwned
  <2>3. \A u, v \in Threads : u # v => Removing(u)' \cap Removing(v)' = {}
    BY <1>8, <2>2 DEF LinkInv, RemovingOwned
  <2>4. \A u, v \in Threads : Pending(u)' \cap Removing(v)' = {}
    BY <1>6, <1>8 DEF LinkInv, PendingOwned, RemovingOwned
  <2> QED
    BY <2>1, <2>3, <2>4 DEF RemovingOwned
<1>12. FoundStillThere'
  <2> SUFFICES ASSUME NEW u \in Threads, pc'[u] = "del_lookup"
               PROVE  loc'[u].gone \subseteq {e.id : e \in EntriesFrom(call[u].inode, Blocks(call[u].size))'}
    BY <1>1 DEF FoundStillThere, EntriesFrom, Entries
  <2>1. u # t /\ pc[u] = "del_lookup" /\ loc'[u] = loc[u]
    BY <1>3
  <2>2. call[u].op = "truncate" /\ call[t].op = "truncate"
    BY <1>1, <2>1, ThreadTypes DEF ControlAt, MakesTrip, Growing, Linking, Copying
  <2>3. call[u].inode # call[t].inode
    BY <2>1, <2>2 DEF LinkInv, OneModifier, Modifies
  <2>4. EntriesFrom(call[u].inode, Blocks(call[u].size))' = EntriesFrom(call[u].inode, Blocks(call[u].size))
    BY <1>1, <2>3 DEF EntriesFrom, Entries, cut
  <2> QED
    BY <2>1, <2>4 DEF LinkInv, FoundStillThere
<1> QED
  BY <1>9, <1>10, <1>11, <1>12 DEF LinkInv

\* A block without a lookup document goes, and nobody else holds it.
LEMMA DelDataLinks ==
    ASSUME TypeInv, LinkInv, NEW t \in Threads, DelData(t)
    PROVE  LinkInv'
<1>1. PICK d \in loc[t].gone, label \in {"set_size", "del_data"} :
          DOMAIN data' = DOMAIN data \ {d} /\ Goto(t, label, [loc[t] EXCEPT !.gone = @ \ {d}])
  BY DEF DelData
<1>2. pc[t] = "del_data" /\ UNCHANGED <<lookup, call>>
  BY DEF DelData
<1>3. pc'[t] = label /\ loc'[t].gone = loc[t].gone \ {d}
      /\ \A u \in Threads \ {t} : pc'[u] = pc[u] /\ loc'[u] = loc[u]
  BY <1>1, GotoEffect, ThreadTypes DEF TypeInv, LocalTypes
<1>4. d \in Removing(t) /\ Pending(t)' = {} /\ Removing(t)' \subseteq Removing(t) \ {d}
      /\ \A u \in Threads \ {t} : Pending(u)' = Pending(u) /\ Removing(u)' = Removing(u)
  BY <1>1, <1>2, <1>3 DEF Pending, Removing
<1>5. d \notin Linked /\ Linked' = Linked
  BY <1>2, <1>4 DEF LinkInv, RemovingOwned, Linked
<1>6. NoDangling' /\ NoSharing' /\ OneModifier'
  BY <1>1, <1>2, <1>5 DEF LinkInv, NoDangling, NoSharing, OneModifier, Linked
<1>7. PendingOwned'
  BY <1>1, <1>4, <1>5 DEF LinkInv, PendingOwned, RemovingOwned
<1>8. RemovingOwned'
  BY <1>1, <1>4, <1>5 DEF LinkInv, RemovingOwned
<1>9. FoundStillThere'
  BY <1>2, <1>3 DEF LinkInv, FoundStillThere, EntriesFrom, Entries
<1> QED
  BY <1>6, <1>7, <1>8, <1>9 DEF LinkInv

\* A call that ends gives up the kernel's lock and holds no block.
LEMMA ReplyLinks ==
    ASSUME TypeInv, LinkInv, NEW t \in Threads, Reply(t)
    PROVE  LinkInv'
<1>1. call'[t] = NoCall /\ \A u \in Threads \ {t} : call'[u] = call[u]
  BY DEF Reply, TypeInv, TypeOK
<1>2. OneModifier'
  BY <1>1 DEF LinkInv, OneModifier, Modifies, NoCall
<1> QED
  BY <1>1, <1>2, QuietStep DEF Reply, TypeInv, Labels, store

\* A new request that modifies a file finds the kernel's lock on it free.
LEMMA BeginLinks ==
    ASSUME TypeInv, LinkInv, NEW t \in Threads, NEW label \in {"new_data", "find_md"}, NEW c, NEW n,
           Begin(t, label, c, n), Modifies(c.op) => ~KernelLocked(c.inode)
    PROVE  LinkInv'
<1>1. call'[t] = c /\ \A u \in Threads \ {t} : call'[u] = call[u]
  BY DEF Begin, TypeInv, TypeOK
<1>2. OneModifier'
  BY <1>1 DEF LinkInv, OneModifier, KernelLocked
<1> QED
  BY <1>1, <1>2, QuietStep DEF Begin, TypeInv, Labels, store

\* Steps that touch neither the links nor the threads.
LEMMA StutterLinks ==
    ASSUME LinkInv, UNCHANGED <<lookup, data, pc, call, loc>>
    PROVE  LinkInv'
<1>1. \A u \in Threads : Pending(u)' = Pending(u) /\ Removing(u)' = Removing(u)
  BY DEF Pending, Removing
<1>2. OneModifier' /\ FoundStillThere'
  BY DEF LinkInv, OneModifier, FoundStillThere, EntriesFrom, Entries
<1> QED
  BY <1>1, <1>2, FrameLinks

\* A crash drops what the calls held: blocks leak, no link breaks.
LEMMA DieLinks ==
    ASSUME LinkInv, Die
    PROVE  LinkInv'
<1>1. lookup' = lookup /\ DOMAIN data' = DOMAIN data
  BY DEF Die, store
<1>2. \A u \in Threads : pc'[u] = "idle" /\ call'[u].op = "none"
  BY DEF Die, NoCall
<1>3. OneModifier' /\ FoundStillThere'
  BY <1>2 DEF OneModifier, Modifies, FoundStillThere
<1>4. \A u \in Threads : Pending(u)' = {} /\ Removing(u)' = {}
  BY <1>2 DEF Pending, Removing
<1> QED
  BY <1>1, <1>3, <1>4, FrameLinks

\* A new request holds no block.
LEMMA StartLinks ==
    ASSUME TypeInv, LinkInv, NEW t \in Threads, Start(t)
    PROVE  LinkInv'
<1>1. CASE BeginCreate(t)
  <2>1. PICK i \in Inodes : Begin(t, "new_data", [NoCall EXCEPT !.op = "create", !.inode = i], 1)
    BY <1>1 DEF BeginCreate
  <2>2. ~Modifies([NoCall EXCEPT !.op = "create", !.inode = i].op)
    BY DEF Modifies, NoCall
  <2> QED
    BY <2>1, <2>2, BeginLinks
<1>2. CASE BeginWrite(t)
  <2>1. PICK i \in DOMAIN md, off \in Offsets, bufs \in BufVecs :
            /\ ~KernelLocked(i)
            /\ Begin(t, "find_md", [NoCall EXCEPT !.op = "write", !.inode = i, !.off = off, !.bufs = bufs], 0)
    BY <1>2 DEF BeginWrite, SendWrite
  <2>2. [NoCall EXCEPT !.op = "write", !.inode = i, !.off = off, !.bufs = bufs].inode = i
    BY DEF NoCall
  <2> QED
    BY <2>1, <2>2, BeginLinks
<1>3. CASE BeginRead(t)
  <2>1. PICK i \in DOMAIN md, off \in Offsets, n \in ReadSizes :
            Begin(t, "find_md", [NoCall EXCEPT !.op = "read", !.inode = i, !.off = off, !.size = n], 0)
    BY <1>3 DEF BeginRead, SendRead
  <2>2. ~Modifies([NoCall EXCEPT !.op = "read", !.inode = i, !.off = off, !.size = n].op)
    BY DEF Modifies, NoCall
  <2> QED
    BY <2>1, <2>2, BeginLinks
<1>4. CASE BeginTruncate(t)
  <2>1. PICK i \in DOMAIN md, n \in NewSizes :
            /\ ~KernelLocked(i)
            /\ Begin(t, "find_md", [NoCall EXCEPT !.op = "truncate", !.inode = i, !.size = n], 0)
    BY <1>4 DEF BeginTruncate, SendTruncate
  <2>2. [NoCall EXCEPT !.op = "truncate", !.inode = i, !.size = n].inode = i
    BY DEF NoCall
  <2> QED
    BY <2>1, <2>2, BeginLinks
<1>5. CASE OpenTrunc(t)
  BY <1>5, StutterLinks DEF OpenTrunc, store, threads
<1>6. CASE TruncateByPath(t)
  BY <1>6, DieLinks DEF TruncateByPath
<1>7. CASE Fallocate(t)
  BY <1>7, StutterLinks DEF Fallocate, store, threads
<1> QED
  BY <1>1, <1>2, <1>3, <1>4, <1>5, <1>6, <1>7 DEF Start

\* Every step of a thread preserves LinkInv.
LEMMA StepLinks ==
    ASSUME TypeInv, LinkInv, NEW t \in Threads, Step(t)
    PROVE  LinkInv'
<1>1. CASE PipeFails(t) \/ NewDataClash(t) \/ InsertMdClash(t) \/ FindLookupFails(t) \/ FindDataFails(t)
  BY <1>1, DieLinks DEF PipeFails, NewDataClash, InsertMdClash, FindLookupFails, FindDataFails, Abort
<1> QED
  BY <1>1, QuietLinks, NewDataLinks, MaxOrderLinks, NewLookupLinks, FindIdsLinks, DelLookupLinks,
     DelDataLinks, ReplyLinks DEF Step

\* Every step of the specification preserves LinkInv.
LEMMA LinkInvInductive == TypeInv /\ LinkInv /\ [Next]_vars => LinkInv'
<1> SUFFICES ASSUME TypeInv, LinkInv, [Next]_vars PROVE LinkInv'
  OBVIOUS
<1>1. CASE \E t \in Threads : Start(t) \/ Step(t)
  BY <1>1, StartLinks, StepLinks
<1>2. CASE Kill
  BY <1>2, DieLinks DEF Kill
<1>3. CASE Mount
  BY <1>3, StutterLinks DEF Mount, store, threads
<1>4. CASE UNCHANGED vars
  BY <1>4, StutterLinks DEF vars
<1> QED
  BY <1>1, <1>2, <1>3, <1>4 DEF Next

\* LinkInv holds in empty collections.
LEMMA LinkInvInitial == Init => LinkInv
<1> SUFFICES ASSUME Init PROVE LinkInv
  OBVIOUS
<1>1. \A t \in Threads : pc[t] = "idle" /\ call[t].op = "none"
  BY DEF Init, NoCall
<1>2. \A t \in Threads : Pending(t) = {} /\ Removing(t) = {}
  BY <1>1 DEF Pending, Removing
<1>3. lookup = {}
  BY DEF Init
<1> QED
  BY <1>1, <1>2, <1>3 DEF LinkInv, NoDangling, NoSharing, OneModifier, Modifies, PendingOwned,
                          RemovingOwned, FoundStillThere

\* Every block that the calls in progress inserted or unlinked is in the hands of
\* exactly one of them, whatever they interleave and wherever the daemon dies.
THEOREM LinkInvHolds == Spec => []LinkInv
<1> QED
  BY TypeInvHolds, LinkInvInitial, LinkInvInductive, PTL DEF Spec

\* Whatever the threads interleave, wherever the daemon dies and whichever ids
\* generate_id draws, a lookup document leads to a block.
THEOREM NoDanglingHolds == Spec => []NoDangling
<1>1. LinkInv => NoDangling
  BY DEF LinkInv
<1> QED
  BY <1>1, LinkInvHolds, PTL

\* ... and no two lookup documents lead to the same block, so that a write to
\* one block of one file changes no other, although nothing in the schema of
\* fs_lookup or in generate_id forbids it.
THEOREM NoSharingHolds == Spec => []NoSharing
<1>1. LinkInv => NoSharing
  BY DEF LinkInv
<1> QED
  BY <1>1, LinkInvHolds, PTL
=============================================================================

------------------------ MODULE BlockStoreCoverProofs ------------------------
(* The size of a file never runs ahead of its blocks, except where a call    *)
(* that was cut short or a clash of inodes damaged the file; so the calls    *)
(* that hold the kernel's lock find every block they ask for, the kernel     *)
(* never takes a file for longer than it is, and what a write has stored     *)
(* stays stored.  For every number of threads, files, blocks and mounts,     *)
(* every block size and every set of requests, whether or not generate_id    *)
(* may return an id in use.                                                  *)
EXTENDS BlockStoreProofs

\* A call of thread t holds the kernel's lock on file i.
Owns(t, i) == Modifies(call[t].op) /\ call[t].inode = i

\* The other threads go on as before.
Alone(t) == \A u \in Threads \ {t} : pc'[u] = pc[u] /\ loc'[u] = loc[u] /\ call'[u] = call[u]

\* What a step of thread t may do to the other threads and to their files.
Apart(t) ==
    /\ Alone(t)
    /\ \A i \in DOMAIN md : i \in DOMAIN md' /\ (md'[i] = md[i] \/ Owns(t, i))
    /\ \A i \in Inodes : (\A e \in Entries(i) : e \in lookup') \/ Owns(t, i)
    /\ torn' = torn

-----------------------------------------------------------------------------
(* Arithmetic.                                                               *)

\* A size has a number of blocks one above the order of its last position, and
\* both grow with it.
LEMMA OrderFacts ==
    ASSUME NEW x \in Nat, NEW y \in Nat
    PROVE  /\ OrderOf(x) \in Nat  /\ Blocks(x) = OrderOf(x) + 1
           /\ x <= y => OrderOf(x) <= OrderOf(y)
  BY BlockSizeAssumption DEF Blocks, OrderOf

\* An empty file has its first block.
LEMMA OrderOfZero == OrderOf(0) = 0
  BY BlockSizeAssumption DEF OrderOf

\* The loop head of a write counts the blocks between the two sizes.
LEMMA EnterBufferSizes ==
    ASSUME NEW c \in RequestTypes, NEW l \in LocalTypes, NEW k \in DOMAIN c.bufs,
           NEW m, m = EnterBuffer(c, l, k)
    PROVE  /\ m \in LocalTypes  /\ m.idx = k  /\ m.fp = c.off
           /\ l.cur <= m.cur  /\ BufEnd(c, k) <= m.cur
           /\ OrderOf(m.cur) - m.need = OrderOf(l.cur)
<1>1. m \in LocalTypes /\ m.idx = k /\ m.fp = c.off /\ BufEnd(c, k) \in Nat
  BY EnterBufferTypes
<1>2. l.cur \in Nat
  BY DEF LocalTypes
<1> DEFINE e == BufEnd(c, k)
           o == l.cur
<1>3. /\ m.cur = Greatest(o, e)
      /\ m.need = IF e > o THEN Blocks(e) - Blocks(o) ELSE 0
  BY DEF EnterBuffer, LocalTypes
<1>4. o \in Nat /\ e \in Nat
  BY <1>1, <1>2
<1> HIDE DEF e, o
<1>5. o <= m.cur /\ e <= m.cur /\ OrderOf(m.cur) - m.need = OrderOf(o)
  <2>1. OrderOf(o) \in Nat /\ OrderOf(e) \in Nat /\ Blocks(o) = OrderOf(o) + 1 /\ Blocks(e) = OrderOf(e) + 1
    BY <1>4, OrderFacts
  <2>2. CASE e > o
    <3>1. m.cur = e /\ m.need = Blocks(e) - Blocks(o)
      BY <1>3, <1>4, <2>2 DEF Greatest
    <3> QED
      BY <1>4, <2>1, <2>2, <3>1
  <2>3. CASE ~(e > o)
    <3>1. m.cur = o /\ m.need = 0
      BY <1>3, <1>4, <2>3 DEF Greatest
    <3> QED
      BY <1>4, <2>1, <2>3, <3>1
  <2> QED
    BY <2>2, <2>3
<1> QED
  BY <1>1, <1>5 DEF e, o

\* The orders of a file are natural numbers, and those of one without a gap
\* are all that are no greater than one of them.
LEMMA OrdersNat ==
    ASSUME TypeOK, NEW i
    PROVE  Orders(i) \subseteq Nat
  BY DEF TypeOK, Entry, Orders, Entries

\* A file without a gap has every order below one that it has.
LEMMA GaplessBelow ==
    ASSUME TypeOK, NEW i, Gapless(i), NEW n \in Orders(i), NEW m \in Nat, m <= n
    PROVE  m \in Orders(i)
  BY OrdersNat DEF Gapless

-----------------------------------------------------------------------------
(* What a step of one thread leaves alone.                                   *)

\* A file that is whole was whole before: damage is never repaired.
LEMMA WholeBefore ==
    ASSUME TypeInv, NEW t \in Threads, Apart(t), Intruding(t) => call'[t] = call[t] /\ pc'[t] = pc[t],
           NEW i, Whole(i)'
    PROVE  Whole(i)
<1>1. i \notin torn
  BY DEF Whole, Apart, Alone
<1>2. ASSUME NEW u \in Threads, Intruding(u), call[u].inode = i PROVE FALSE
  <2>1. call'[u] = call[u] /\ pc'[u] = pc[u]
    BY <1>2 DEF Apart, Alone
  <2>2. Intruding(u)' /\ call'[u].inode = i
    BY <1>2, <2>1 DEF Intruding, Apart, Alone
  <2> QED
    BY <2>2 DEF Whole, Intruded
<1> QED
  BY <1>1, <1>2 DEF Whole, Intruded

\* The other threads keep what they know of their files.
LEMMA OthersSized ==
    ASSUME TypeInv, LinkInv, SizedOK, NEW t \in Threads, Apart(t), NEW u \in Threads \ {t}
    PROVE  SizedAt(call[u], pc[u], loc[u])'
<1>1. call'[u] = call[u] /\ pc'[u] = pc[u] /\ loc'[u] = loc[u]
  BY DEF Apart, Alone
<1> DEFINE c == call[u]
<1>2. SizedAt(c, pc[u], loc[u])
  BY DEF SizedOK
<1>3. CASE ~Modifies(c.op)
  BY <1>1, <1>2, <1>3 DEF SizedAt, Modifies
<1>4. CASE Modifies(c.op)
  <2>1. c.inode \in DOMAIN md /\ c.inode \in Inodes /\ ~Owns(t, c.inode)
    BY <1>4, ThreadTypes DEF ControlAt, MakesTrip, Modifies, LinkInv, OneModifier, Owns, TypeInv, TypeOK
  <2>2. md'[c.inode] = md[c.inode]
    BY <2>1 DEF Apart, Alone
  <2>3. \A e \in Entries(c.inode) : e \in Entries(c.inode)'
    BY <1>1, <2>1 DEF Apart, Alone, Entries
  <2> QED
    BY <1>1, <1>2, <2>2, <2>3 DEF SizedAt, BufEnd, Blocks, OrderOf
<1> QED
  BY <1>3, <1>4

\* What the other calls know of the blocks of their files outlasts the step of t.
LEMMA OthersBacked ==
    ASSUME TypeInv, LinkInv, BackedOK, NEW t \in Threads, Apart(t), NEW u \in Threads \ {t},
           Whole(call[u].inode)
    PROVE  BackedAt(call[u], pc[u], loc[u])'
<1>1. call'[u] = call[u] /\ pc'[u] = pc[u] /\ loc'[u] = loc[u]
  BY DEF Apart, Alone
<1> DEFINE c == call[u]
<1>2. BackedAt(c, pc[u], loc[u])
  BY DEF BackedOK
<1>3. c.inode \notin DOMAIN md' => c.inode \notin DOMAIN md
  BY DEF Apart, Alone
<1>4. CASE c.inode \in Inodes /\ ~Owns(t, c.inode)
  <2>1. Orders(c.inode) \subseteq Orders(c.inode)'
    BY <1>1, <1>4 DEF Apart, Alone, Orders, Entries
  <2> QED
    BY <1>1, <1>2, <1>3, <2>1 DEF BackedAt, OrderOf
<1>5. CASE Owns(t, c.inode)
  <2>1. c.inode \in DOMAIN md /\ c.inode \in DOMAIN md'
    BY <1>5, ThreadTypes DEF ControlAt, Owns, Modifies, Apart, Alone
  <2>2. ~Modifies(c.op)
    BY <1>5 DEF LinkInv, OneModifier, Owns
  <2> QED
    BY <1>1, <2>1, <2>2 DEF BackedAt, Modifies
<1>6. CASE c.inode \notin Inodes
  <2>1. pc[u] = "idle"
    BY <1>6, ThreadTypes DEF ControlAt
  <2> QED
    BY <1>1, <2>1 DEF BackedAt, Growing, Linking, Copying
<1> QED
  BY <1>4, <1>5, <1>6

\* A step of thread t keeps the invariant if it keeps what t knows and what is
\* said of the files.
LEMMA StepOf ==
    ASSUME TypeInv, LinkInv, CoverInv, NEW t \in Threads, Apart(t), UNCHANGED fault,
           Intruding(t) => call'[t] = call[t] /\ pc'[t] = pc[t],
           SizedAt(call[t], pc[t], loc[t])',
           \A i : i = call'[t].inode /\ Whole(i) /\ Whole(i)' => BackedAt(call[t], pc[t], loc[t])',
           \A i \in Inodes : Whole(i) /\ Whole(i)' => Gapless(i)',
           \A i \in DOMAIN md' : Whole(i) /\ Whole(i)' =>
               OrderOf(md'[i]) \in Orders(i)' \/ \E u \in Threads : ShrunkBy(u, i)'
    PROVE  CoverInv'
<1>1. ASSUME NEW i, Whole(i)' PROVE Whole(i)
  BY <1>1, WholeBefore
<1>2. SizedOK'
  <2> SUFFICES ASSUME NEW u \in Threads PROVE SizedAt(call[u], pc[u], loc[u])'
    BY DEF SizedOK
  <2> QED
    BY OthersSized DEF CoverInv
<1>3. BackedOK'
  <2> SUFFICES ASSUME NEW u \in Threads, Whole(call[u].inode)' PROVE BackedAt(call[u], pc[u], loc[u])'
    BY DEF BackedOK
  <2> DEFINE i == call'[u].inode
  <2>1. PICK j : j = i
    OBVIOUS
  <2>2. Whole(j)'
    BY <2>1 DEF Whole, Intruded
  <2>3. Whole(j)
    BY <1>1, <2>2
  <2>4. CASE u = t
    BY <2>1, <2>2, <2>3, <2>4
  <2>5. CASE u # t
    BY <2>1, <2>3, <2>5, OthersBacked DEF CoverInv, Apart, Alone
  <2> QED
    BY <2>4, <2>5
<1>4. GaplessOK'
  BY <1>1 DEF GaplessOK
<1>5. CoveredOK'
  BY <1>1 DEF CoveredOK, OrderOf
<1>6. ModifiersNeverAssert'
  BY DEF CoverInv, ModifiersNeverAssert, Apart, Alone
<1> QED
  BY <1>2, <1>3, <1>4, <1>5, <1>6 DEF CoverInv


\* A step that touches only the thread's local variables, or blocks.
LEMMA LocalCover ==
    ASSUME TypeInv, LinkInv, CoverInv, NEW t \in Threads, NEW label, NEW l, Goto(t, label, l),
           UNCHANGED <<md, lookup, torn, fault, call>>,
           pc[t] # "insert_md", Shrinking(t) => label \in {"del_data", "set_size"},
           SizedAt(call[t], label, l), Whole(call[t].inode) => BackedAt(call[t], label, l)
    PROVE  CoverInv'
<1>1. pc'[t] = label /\ loc'[t] = l /\ \A u \in Threads \ {t} : pc'[u] = pc[u] /\ loc'[u] = loc[u]
  BY GotoEffect DEF TypeInv
<1>2. /\ call' = call  /\ md' = md  /\ lookup' = lookup  /\ torn' = torn
      /\ \A i : Entries(i)' = Entries(i) /\ Orders(i)' = Orders(i)
  BY DEF Entries, Orders
<1>3. Apart(t)
  BY <1>1, <1>2 DEF Apart, Alone, Entries
<1>4. ~Intruding(t)
  BY DEF Intruding
<1>5. SizedAt(call[t], pc[t], loc[t])'
  BY <1>1, <1>2 DEF SizedAt, BufEnd, Blocks, OrderOf
<1>6. ASSUME NEW i, i = call'[t].inode, Whole(i) PROVE BackedAt(call[t], pc[t], loc[t])'
  <2>1. BackedAt(call[t], label, l)
    BY <1>2, <1>6
  <2> QED
    BY <1>1, <1>2, <2>1 DEF BackedAt, OrderOf
<1>7. \A i \in Inodes : Whole(i) => Gapless(i)'
  BY <1>2 DEF CoverInv, GaplessOK, Gapless
<1>8. ASSUME NEW i \in DOMAIN md', Whole(i)
      PROVE  OrderOf(md'[i]) \in Orders(i)' \/ \E u \in Threads : ShrunkBy(u, i)'
  <2>1. CASE OrderOf(md[i]) \in Orders(i)
    BY <1>2, <2>1
  <2>2. ASSUME NEW u \in Threads, ShrunkBy(u, i) PROVE ShrunkBy(u, i)'
    BY <1>1, <1>2, <2>2 DEF ShrunkBy, Shrinking, Blocks
  <2> QED
    BY <1>2, <1>8, <2>1, <2>2 DEF CoverInv, CoveredOK
<1> QED
  BY <1>3, <1>4, <1>5, <1>6, <1>7, <1>8, StepOf

\* While a call holds the lock on a whole file and has not cut it, the block of
\* the size is there.
LEMMA CoveredForOwner ==
    ASSUME TypeInv, LinkInv, CoverInv, NEW t \in Threads, Modifies(call[t].op), ~Shrinking(t),
           Whole(call[t].inode)
    PROVE  /\ call[t].inode \in DOMAIN md  /\ call[t].inode \in Inodes
           /\ md[call[t].inode] \in Nat
           /\ OrderOf(md[call[t].inode]) \in Orders(call[t].inode)
           /\ Gapless(call[t].inode)
<1> DEFINE i == call[t].inode
<1>1. i \in DOMAIN md /\ i \in Inodes /\ md[i] \in Nat
  BY ThreadTypes DEF ControlAt, Modifies, TypeInv, TypeOK
<1>2. ASSUME NEW u \in Threads, ShrunkBy(u, i) PROVE FALSE
  BY <1>2 DEF ShrunkBy, Shrinking, LinkInv, OneModifier, Modifies
<1> QED
  BY <1>1, <1>2 DEF CoverInv, CoveredOK, GaplessOK


-----------------------------------------------------------------------------
(* The actions.                                                              *)

\* A write starts from the size stored, and that size has its block.
LEMMA FindMdForWriteCover ==
    ASSUME TypeInv, LinkInv, CoverInv, NEW t \in Threads, FindMdForWrite(t)
    PROVE  CoverInv'
<1> DEFINE c == call[t]
           s == [loc[t] EXCEPT !.cur = md[c.inode]]
           l == EnterBuffer(c, s, 1)
           label == GrowOr(l, "find_lookup")
<1>1. /\ pc[t] = "find_md"  /\ c.op = "write"
      /\ Goto(t, label, l)  /\ UNCHANGED <<md, lookup, torn, fault, call>>
  BY DEF FindMdForWrite, store, daemon
<1>2. c \in RequestTypes /\ loc[t] \in LocalTypes /\ ControlAt(c, pc[t], loc[t])
  BY ThreadTypes
<1>3. c.inode \in DOMAIN md /\ c.inode \in Inodes /\ 1 \in DOMAIN c.bufs /\ md[c.inode] \in Nat
  BY <1>1, <1>2 DEF ControlAt, TypeInv, TypeOK
<1>4. s \in LocalTypes /\ s.cur = md[c.inode]
  BY <1>2, <1>3 DEF LocalTypes
<1> HIDE DEF s
<1>5. /\ l \in LocalTypes  /\ l.idx = 1  /\ l.fp = c.off
      /\ md[c.inode] <= l.cur  /\ BufEnd(c, 1) <= l.cur
      /\ OrderOf(l.cur) - l.need = OrderOf(md[c.inode])
  BY <1>2, <1>3, <1>4, EnterBufferSizes
<1>6. \A k \in DOMAIN c.bufs : Len(c.bufs[k]) >= 1
  BY <1>1 DEF CoverInv, SizedOK, SizedAt
<1>7. l.fp < BufEnd(c, 1)
  BY <1>2, <1>3, <1>5, <1>6 DEF BufEnd, RequestTypes
<1>8. l.need \in Nat /\ OrderOf(l.cur) \in Nat /\ l.cur \in Nat
  BY <1>5, OrderFacts DEF LocalTypes
<1> HIDE DEF l
<1>9. label = (IF l.need > 0 THEN "new_data" ELSE "find_lookup")
  BY DEF GrowOr
<1> HIDE DEF c, label
<1>10. SizedAt(c, label, l)
  BY <1>1, <1>5, <1>6, <1>7, <1>9 DEF SizedAt, Growing, Linking, Copying, Cutting
<1>11. ASSUME Whole(c.inode) PROVE BackedAt(c, label, l)
  <2>1. OrderOf(md[c.inode]) \in Orders(c.inode)
    BY <1>1, <1>11, CoveredForOwner DEF Shrinking, Modifies, c
  <2>2. label = "find_lookup" => OrderOf(l.cur) = OrderOf(md[c.inode])
    BY <1>5, <1>8, <1>9
  <2> QED
    BY <1>1, <1>5, <1>9, <2>1, <2>2 DEF BackedAt, Growing, Linking, Copying, Modifies
<1> QED
  BY <1>1, <1>10, <1>11, LocalCover DEF Shrinking, c

\* A truncate knows on which side of the stored size its own lies.
LEMMA FindMdForTruncateCover ==
    ASSUME TypeInv, LinkInv, CoverInv, NEW t \in Threads, FindMdForTruncate(t)
    PROVE  CoverInv'
<1> DEFINE c == call[t]
           old == md[c.inode]
           new == c.size
<1>1. /\ pc[t] = "find_md"  /\ c.op = "truncate"
      /\ UNCHANGED <<md, lookup, torn, fault, call>>
  BY DEF FindMdForTruncate, store, daemon
<1>2. c \in RequestTypes /\ loc[t] \in LocalTypes /\ ControlAt(c, pc[t], loc[t])
  BY ThreadTypes
<1>3. c.inode \in DOMAIN md /\ c.inode \in Inodes /\ old \in Nat /\ new \in Nat
  BY <1>1, <1>2 DEF ControlAt, TypeInv, TypeOK, RequestTypes
<1>4. PICK label, l :
          /\ Goto(t, label, l)  /\ l.cur = new
          /\ \/ label = "reply"
             \/ label = "set_size" /\ Blocks(new) = Blocks(old)
             \/ label = "new_data" /\ l.need = Blocks(new) - Blocks(old)
             \/ label = "find_ids" /\ Blocks(new) < Blocks(old)
  <2> DEFINE l == [loc[t] EXCEPT !.cur = new]
             g == [l EXCEPT !.need = Blocks(new) - Blocks(old)]
  <2>1. l.cur = new /\ g.cur = new /\ g.need = Blocks(new) - Blocks(old)
    BY <1>2 DEF LocalTypes
  <2>2. \/ Goto(t, "reply", l)
        \/ Blocks(new) = Blocks(old) /\ Goto(t, "set_size", l)
        \/ Goto(t, "new_data", g)
        \/ Blocks(new) < Blocks(old) /\ Goto(t, "find_ids", l)
    BY DEF FindMdForTruncate
  <2> HIDE DEF l, g, c, new, old
  <2> QED
    BY <2>1, <2>2
<1>5. /\ OrderOf(new) \in Nat  /\ Blocks(new) = OrderOf(new) + 1
      /\ OrderOf(old) \in Nat  /\ Blocks(old) = OrderOf(old) + 1
  BY <1>3, OrderFacts
<1> HIDE DEF c, old, new
<1>6. SizedAt(c, label, l)
  BY <1>1, <1>4 DEF SizedAt, Growing, Linking, Copying, Cutting, old, new
<1>7. ASSUME Whole(c.inode) PROVE BackedAt(c, label, l)
  <2>1. OrderOf(old) \in Orders(c.inode)
    BY <1>1, <1>7, CoveredForOwner DEF Shrinking, Modifies, c, old
  <2>2. label = "set_size" => OrderOf(l.cur) = OrderOf(old)
    BY <1>4, <1>5
  <2>3. label = "new_data" => OrderOf(l.cur) - l.need = OrderOf(old)
    BY <1>4, <1>5
  <2> QED
    BY <1>1, <1>4, <2>1, <2>2, <2>3 DEF BackedAt, Growing, Linking, Copying, Modifies
<1> QED
  BY <1>1, <1>4, <1>6, <1>7, LocalCover DEF Shrinking, c

\* get_max_order finds the last block, and the next order is the one after it.
LEMMA MaxOrderCover ==
    ASSUME TypeInv, LinkInv, CoverInv, NEW t \in Threads, MaxOrder(t)
    PROVE  CoverInv'
<1> DEFINE c == call[t]
           i == c.inode
           l == [loc[t] EXCEPT !.order = NextOrder(i)]
<1>1. /\ pc[t] = "max_order"  /\ Goto(t, "new_lookup", l)
      /\ UNCHANGED <<md, lookup, torn, fault, call>>
  BY DEF MaxOrder, store, daemon
<1>2. c \in RequestTypes /\ loc[t] \in LocalTypes /\ ControlAt(c, pc[t], loc[t])
  BY ThreadTypes
<1>3. /\ l.order = NextOrder(i)  /\ l.cur = loc[t].cur  /\ l.need = loc[t].need
      /\ l.fp = loc[t].fp  /\ l.idx = loc[t].idx  /\ l.need \in Nat  /\ l.cur \in Nat
  BY <1>2 DEF LocalTypes
<1>4. SizedAt(c, "max_order", loc[t]) /\ (Whole(i) => BackedAt(c, "max_order", loc[t]))
  BY <1>1 DEF CoverInv, SizedOK, BackedOK
<1>5. Entries(i) = {} <=> Orders(i) = {}
  BY DEF Orders
<1>6. Orders(i) # {} => /\ l.order - 1 \in Orders(i)
                        /\ \A x \in Orders(i) : x < l.order
  <2> SUFFICES ASSUME Orders(i) # {} PROVE l.order - 1 \in Orders(i) /\ \A x \in Orders(i) : x < l.order
    OBVIOUS
  <2>1. Orders(i) \in SUBSET Nat
    BY OrdersNat DEF TypeInv
  <2>2. PICK m \in Nat : \A x \in Orders(i) : x <= m
    BY DEF TypeInv, OrdersBounded, Orders, Entries
  <2>3. Max(Orders(i)) \in Orders(i) /\ \A x \in Orders(i) : x <= Max(Orders(i))
    BY <2>1, <2>2, MaxOfBounded
  <2>4. l.order = Max(Orders(i)) + 1
    BY <1>3, <1>5 DEF NextOrder
  <2> QED
    BY <2>1, <2>3, <2>4
<1> HIDE DEF l
<1>7. SizedAt(c, "new_lookup", l)
  BY <1>3, <1>4 DEF SizedAt, Growing, Linking, Copying, Cutting, BufEnd
<1>8. ASSUME Whole(i) PROVE BackedAt(c, "new_lookup", l)
  <2>1. CASE Modifies(c.op)
    <3>1. OrderOf(l.cur) - l.need \in Orders(i)
      BY <1>3, <1>4, <1>8, <2>1 DEF BackedAt, Growing, Linking
    <3> QED
      BY <1>6, <2>1, <3>1 DEF BackedAt, Modifies, Copying
  <2>2. CASE ~Modifies(c.op)
    <3>1. Orders(i) = {} => l.order = 0
      BY <1>3, <1>5 DEF NextOrder
    <3> QED
      BY <1>6, <2>2, <3>1 DEF BackedAt, Modifies
  <2> QED
    BY <2>1, <2>2
<1> QED
  BY <1>1, <1>7, <1>8, LocalCover DEF Shrinking


\* What a read knows of blocks matters to nobody: it holds no lock.
LEMMA ReadCover ==
    ASSUME TypeInv, LinkInv, CoverInv, NEW t \in Threads, FindMdForRead(t) \/ FindDataForRead(t)
    PROVE  CoverInv'
<1>1. /\ call[t].op = "read"  /\ pc[t] \in {"find_md", "find_data"}
      /\ UNCHANGED <<md, lookup, torn, fault, call>>
  BY DEF FindMdForRead, FindDataForRead, store, daemon
<1>2. PICK label, l : Goto(t, label, l)
  BY DEF FindMdForRead, FindDataForRead
<1>3. SizedAt(call[t], label, l) /\ BackedAt(call[t], label, l)
  BY <1>1 DEF SizedAt, BackedAt, Modifies
<1> QED
  BY <1>1, <1>2, <1>3, LocalCover DEF Shrinking

\* The block inserted is not linked yet.
LEMMA NewDataCover ==
    ASSUME TypeInv, LinkInv, CoverInv, NEW t \in Threads, NewData(t)
    PROVE  CoverInv'
<1> DEFINE c == call[t]
<1>1. pc[t] = "new_data" /\ UNCHANGED <<md, lookup, torn, fault, call>>
  BY DEF NewData, daemon
<1>2. PICK l : /\ Goto(t, "max_order", l)  /\ l.cur = loc[t].cur  /\ l.need = loc[t].need
               /\ l.fp = loc[t].fp  /\ l.idx = loc[t].idx
  BY ThreadTypes DEF NewData, LocalTypes
<1>3. SizedAt(c, "new_data", loc[t]) /\ (Whole(c.inode) => BackedAt(c, "new_data", loc[t]))
  BY <1>1 DEF CoverInv, SizedOK, BackedOK
<1>4. SizedAt(c, "max_order", l)
  BY <1>2, <1>3 DEF SizedAt, Growing, Linking, Copying, Cutting, BufEnd
<1>5. Whole(c.inode) => BackedAt(c, "max_order", l)
  BY <1>2, <1>3 DEF BackedAt, Growing, Linking, Copying, Modifies
<1> QED
  BY <1>1, <1>2, <1>4, <1>5, LocalCover DEF Shrinking

\* The block found is that of the position.
LEMMA FindLookupCover ==
    ASSUME TypeInv, LinkInv, CoverInv, NEW t \in Threads, FindLookup(t)
    PROVE  CoverInv'
<1> DEFINE c == call[t]
<1>1. pc[t] = "find_lookup" /\ UNCHANGED <<md, lookup, torn, fault, call>>
  BY DEF FindLookup, store, daemon
<1>2. PICK e \in Wanted(t) : Goto(t, "find_data", [loc[t] EXCEPT !.id = e.id])
  BY DEF FindLookup
<1>3. PICK l : /\ Goto(t, "find_data", l)  /\ l.cur = loc[t].cur  /\ l.id = e.id
               /\ l.fp = loc[t].fp  /\ l.idx = loc[t].idx
  BY <1>2, ThreadTypes DEF LocalTypes
<1>4. SizedAt(c, "find_lookup", loc[t]) /\ (Whole(c.inode) => BackedAt(c, "find_lookup", loc[t]))
  BY <1>1 DEF CoverInv, SizedOK, BackedOK
<1>5. e \in Entries(c.inode) /\ e.order = OrderOf(l.fp)
  BY <1>3 DEF Wanted
<1>6. c.op \in {"read", "write"}
  BY <1>1, ThreadTypes DEF ControlAt, MakesTrip, Growing, Linking, Cutting
<1>7. SizedAt(c, "find_data", l)
  BY <1>3, <1>4, <1>5, <1>6 DEF SizedAt, Growing, Linking, Copying, Cutting, BufEnd
<1>8. Whole(c.inode) => BackedAt(c, "find_data", l)
  BY <1>3, <1>4, <1>6 DEF BackedAt, Growing, Linking, Copying, Modifies
<1> QED
  BY <1>1, <1>3, <1>7, <1>8, LocalCover DEF Shrinking

\* A write reads the block of its position and moves on in the buffer.
LEMMA FindDataForWriteCover ==
    ASSUME TypeInv, LinkInv, CoverInv, NEW t \in Threads, FindDataForWrite(t)
    PROVE  CoverInv'
<1> DEFINE c == call[t]
<1>1. pc[t] = "find_data" /\ c.op = "write" /\ UNCHANGED <<md, lookup, torn, fault, call>>
  BY DEF FindDataForWrite, store, daemon
<1>2. PICK l : Goto(t, "update_data", l) /\ l.cur = loc[t].cur /\ l.idx = loc[t].idx
  <2> DEFINE next == AfterBlock(loc[t].fp, BufEnd(c, loc[t].idx))
             m == [loc[t] EXCEPT !.blk = Patch(data[loc[t].id], loc[t].fp, c.off, c.bufs[loc[t].idx]),
                                 !.fp = next, !.total = @ + (next - loc[t].fp)]
  <2>1. Goto(t, "update_data", m)
    BY DEF FindDataForWrite
  <2>2. m.cur = loc[t].cur /\ m.idx = loc[t].idx
    BY ThreadTypes DEF LocalTypes
  <2> HIDE DEF m
  <2> QED
    BY <2>1, <2>2
<1>3. SizedAt(c, "find_data", loc[t]) /\ (Whole(c.inode) => BackedAt(c, "find_data", loc[t]))
  BY <1>1 DEF CoverInv, SizedOK, BackedOK
<1>4. SizedAt(c, "update_data", l)
  BY <1>1, <1>2, <1>3 DEF SizedAt, Growing, Linking, Copying, Cutting, BufEnd
<1>5. Whole(c.inode) => BackedAt(c, "update_data", l)
  BY <1>1, <1>2, <1>3 DEF BackedAt, Growing, Linking, Copying, Modifies
<1> QED
  BY <1>1, <1>2, <1>4, <1>5, LocalCover DEF Shrinking

\* The loop goes on in the buffer, enters the next one or ends.
LEMMA UpdateDataCover ==
    ASSUME TypeInv, LinkInv, CoverInv, NEW t \in Threads, UpdateData(t)
    PROVE  CoverInv'
<1> DEFINE c == call[t]
           l == [loc[t] EXCEPT !.id = NoId, !.blk = ZeroBlock]
           n == EnterBuffer(c, l, l.idx + 1)
<1>1. /\ pc[t] = "update_data"  /\ UNCHANGED <<md, lookup, torn, fault, call>>
      /\ \/ l.fp < BufEnd(c, l.idx) /\ Goto(t, "find_lookup", l)
         \/ l.idx < Len(c.bufs) /\ Goto(t, GrowOr(n, "find_lookup"), n)
         \/ Goto(t, "set_size", l)
  BY DEF UpdateData, daemon
<1>2. c \in RequestTypes /\ loc[t] \in LocalTypes /\ ControlAt(c, pc[t], loc[t])
  BY ThreadTypes
<1>3. c.op = "write" /\ loc[t].idx \in DOMAIN c.bufs
  BY <1>1, <1>2 DEF ControlAt, MakesTrip, Growing, Linking, Copying, Cutting
<1>4. l \in LocalTypes /\ l.cur = loc[t].cur /\ l.idx = loc[t].idx /\ l.fp = loc[t].fp
  BY <1>2, ZeroAssumption DEF LocalTypes, ZeroBlock, Block
<1>5. SizedAt(c, "update_data", loc[t]) /\ (Whole(c.inode) => BackedAt(c, "update_data", loc[t]))
  BY <1>1 DEF CoverInv, SizedOK, BackedOK
<1>6. \A k \in DOMAIN c.bufs : Len(c.bufs[k]) >= 1
  BY <1>3, <1>5 DEF SizedAt
<1>7. md[c.inode] <= l.cur /\ BufEnd(c, l.idx) <= l.cur /\ md[c.inode] \in Nat /\ l.cur \in Nat
  <2>1. md[c.inode] \in Nat
    BY <1>2, <1>3 DEF ControlAt, TypeInv, TypeOK
  <2> QED
    BY <1>3, <1>4, <1>5, <2>1 DEF SizedAt, BufEnd, Growing, Linking, Copying, LocalTypes
<1> HIDE DEF l
<1>8. ASSUME NEW label, label \in {"set_size", "find_lookup"}, Goto(t, label, l),
             label = "find_lookup" => l.fp < BufEnd(c, l.idx)
      PROVE  CoverInv'
  <2>1. SizedAt(c, label, l)
    BY <1>3, <1>6, <1>7, <1>8 DEF SizedAt, Growing, Linking, Copying, Cutting
  <2>2. Whole(c.inode) => BackedAt(c, label, l)
    BY <1>3, <1>4, <1>5, <1>8 DEF BackedAt, Growing, Linking, Copying, Modifies
  <2> QED
    BY <1>1, <1>8, <2>1, <2>2, LocalCover DEF Shrinking
<1>9. ASSUME l.idx < Len(c.bufs), NEW label, label = GrowOr(n, "find_lookup"), Goto(t, label, n)
      PROVE  CoverInv'
  <2>1. l.idx + 1 \in DOMAIN c.bufs
    BY <1>2, <1>3, <1>4, <1>9 DEF RequestTypes
  <2>2. /\ n \in LocalTypes  /\ n.idx = l.idx + 1  /\ n.fp = c.off
        /\ l.cur <= n.cur  /\ BufEnd(c, n.idx) <= n.cur
        /\ OrderOf(n.cur) - n.need = OrderOf(l.cur)
    BY <1>4, <2>1, <1>2, EnterBufferSizes
  <2>3. n.need \in Nat /\ n.cur \in Nat /\ OrderOf(n.cur) \in Nat
    BY <2>2, OrderFacts DEF LocalTypes
  <2>4. n.fp < BufEnd(c, n.idx)
    BY <1>2, <1>6, <2>1, <2>2 DEF BufEnd, RequestTypes
  <2>5. md[c.inode] <= n.cur
    BY <1>7, <2>2, <2>3
  <2>6. label = (IF n.need > 0 THEN "new_data" ELSE "find_lookup")
    BY <1>9 DEF GrowOr
  <2> HIDE DEF n
  <2>7. SizedAt(c, label, n)
    BY <1>3, <1>6, <2>2, <2>4, <2>5, <2>6 DEF SizedAt, Growing, Linking, Copying, Cutting
  <2>8. ASSUME Whole(c.inode) PROVE BackedAt(c, label, n)
    <3>1. OrderOf(l.cur) \in Orders(c.inode)
      BY <1>3, <1>4, <1>5, <2>8 DEF BackedAt
    <3>2. label = "find_lookup" => OrderOf(n.cur) = OrderOf(l.cur)
      BY <2>2, <2>3, <2>6
    <3> QED
      BY <1>3, <2>2, <2>6, <3>1, <3>2 DEF BackedAt, Growing, Linking, Copying, Modifies
  <2> QED
    BY <1>1, <1>9, <2>7, <2>8, LocalCover DEF Shrinking
<1>10. CASE l.fp < BufEnd(c, l.idx) /\ Goto(t, "find_lookup", l)
  BY <1>8, <1>10
<1>11. CASE l.idx < Len(c.bufs) /\ Goto(t, GrowOr(n, "find_lookup"), n)
  <2> DEFINE g == GrowOr(n, "find_lookup")
  <2>1. PICK label : label = g
    OBVIOUS
  <2> HIDE DEF n
  <2> QED
    BY <1>9, <1>11, <2>1
<1>12. CASE Goto(t, "set_size", l)
  BY <1>8, <1>12
<1> QED
  BY <1>1, <1>10, <1>11, <1>12

\* A truncate notes the blocks it will delete.
LEMMA FindIdsCover ==
    ASSUME TypeInv, LinkInv, CoverInv, NEW t \in Threads, FindIds(t)
    PROVE  CoverInv'
<1> DEFINE c == call[t]
<1>1. pc[t] = "find_ids" /\ UNCHANGED <<md, lookup, torn, fault, call>>
  BY DEF FindIds, store, daemon
<1>2. PICK l : Goto(t, "del_lookup", l) /\ l.cur = loc[t].cur
  BY ThreadTypes DEF FindIds, LocalTypes
<1>3. c.op = "truncate"
  BY <1>1, ThreadTypes DEF ControlAt, MakesTrip, Growing, Linking, Copying
<1>4. SizedAt(c, "find_ids", loc[t])
  BY <1>1 DEF CoverInv, SizedOK
<1>5. SizedAt(c, "del_lookup", l)
  BY <1>2, <1>3, <1>4 DEF SizedAt, Growing, Linking, Copying, Cutting
<1>6. BackedAt(c, "del_lookup", l)
  BY <1>3 DEF BackedAt, Growing, Linking
<1> QED
  BY <1>1, <1>2, <1>5, <1>6, LocalCover DEF Shrinking

\* A truncate deletes a block that no document names any more.
LEMMA DelDataCover ==
    ASSUME TypeInv, LinkInv, CoverInv, NEW t \in Threads, DelData(t)
    PROVE  CoverInv'
<1> DEFINE c == call[t]
<1>1. pc[t] = "del_data" /\ UNCHANGED <<md, lookup, torn, fault, call>>
  BY DEF DelData, daemon
<1>2. PICK label, l : label \in {"set_size", "del_data"} /\ Goto(t, label, l) /\ l.cur = loc[t].cur
  BY ThreadTypes DEF DelData, LocalTypes
<1>3. c.op = "truncate"
  BY <1>1, ThreadTypes DEF ControlAt, MakesTrip, Growing, Linking, Copying
<1>4. SizedAt(c, "del_data", loc[t]) /\ (Whole(c.inode) => BackedAt(c, "del_data", loc[t]))
  BY <1>1 DEF CoverInv, SizedOK, BackedOK
<1>5. SizedAt(c, label, l)
  BY <1>2, <1>3, <1>4 DEF SizedAt, Growing, Linking, Copying, Cutting
<1>6. Whole(c.inode) => BackedAt(c, label, l)
  BY <1>2, <1>3, <1>4 DEF BackedAt, Growing, Linking
<1> QED
  BY <1>1, <1>2, <1>5, <1>6, LocalCover

-----------------------------------------------------------------------------
(* Documents of fs_lookup and fs_metadata come and go.                       *)

\* A new document extends its file by the next block, or is one whose place was
\* taken: then the file has all blocks up to it already.
LEMMA NewLookupCover ==
    ASSUME TypeInv, LinkInv, CoverInv, NEW t \in Threads, NewLookup(t)
    PROVE  CoverInv'
<1>0. PICK i : i = call[t].inode
  OBVIOUS
<1> DEFINE c == call[t]
           o == loc[t].order
           e == [inode |-> i, order |-> o, id |-> loc[t].id]
<1>1. /\ pc[t] = "new_lookup"  /\ lookup' = lookup \cup {e}
      /\ UNCHANGED <<md, torn, fault, call>>
  BY <1>0 DEF NewLookup, daemon
<1>2. c \in RequestTypes /\ loc[t] \in LocalTypes /\ ControlAt(c, pc[t], loc[t])
  BY ThreadTypes
<1>3. PICK label, l :
          /\ Goto(t, label, l)  /\ l.cur = loc[t].cur  /\ l.need = loc[t].need - 1
          /\ l.fp = loc[t].fp  /\ l.idx = loc[t].idx
          /\ label = GrowOr(l, AfterGrowth(c.op))
  <2> DEFINE m == [loc[t] EXCEPT !.id = NoId, !.order = 0, !.need = @ - 1]
  <2>1. Goto(t, GrowOr(m, AfterGrowth(c.op)), m)
    BY DEF NewLookup
  <2>2. /\ m.cur = loc[t].cur  /\ m.need = loc[t].need - 1
        /\ m.fp = loc[t].fp  /\ m.idx = loc[t].idx
    BY <1>2 DEF LocalTypes
  <2> HIDE DEF m
  <2> QED
    BY <2>1, <2>2
<1>4. /\ o \in Nat  /\ loc[t].need \in Nat  /\ loc[t].need >= 1  /\ l.need \in Nat
      /\ l.cur \in Nat  /\ OrderOf(l.cur) \in Nat  /\ i \in Inodes
      /\ c.op \in {"create", "write", "truncate"}
  <2>1. loc[t].cur \in Nat /\ loc[t].need >= 1 /\ o \in Nat /\ loc[t].need \in Nat
    BY <1>1, <1>2 DEF ControlAt, Growing, Linking, LocalTypes
  <2> QED
    BY <1>0, <1>1, <1>2, <1>3, <2>1, OrderFacts DEF ControlAt, MakesTrip, Copying, Cutting
<1>5. SizedAt(c, "new_lookup", loc[t]) /\ (Whole(i) => BackedAt(c, "new_lookup", loc[t]))
  BY <1>0, <1>1 DEF CoverInv, SizedOK, BackedOK
<1>6. label = (IF l.need > 0 THEN "new_data" ELSE AfterGrowth(c.op))
  BY <1>3 DEF GrowOr
<1>7. c.op = "create" => l.need = 0 /\ label = "insert_md"
  BY <1>3, <1>4, <1>5, <1>6 DEF SizedAt, Growing, Linking, AfterGrowth
<1>8. /\ c.op = "write" => label \in {"new_data", "find_lookup"}
      /\ c.op = "truncate" => label \in {"new_data", "set_size"}
  BY <1>6 DEF AfterGrowth
<1>9. /\ pc'[t] = label  /\ loc'[t] = l  /\ call' = call  /\ md' = md
      /\ \A u \in Threads \ {t} : pc'[u] = pc[u] /\ loc'[u] = loc[u]
  BY <1>1, <1>3, GotoEffect DEF TypeInv
<1>10. /\ \A j : Entries(j) \subseteq Entries(j)'
       /\ Orders(i)' = Orders(i) \cup {o}
       /\ \A j : j # i => Orders(j)' = Orders(j)
  <2>1. \A j : Entries(j)' = Entries(j) \cup (IF j = i THEN {e} ELSE {})
    BY <1>1 DEF Entries
  <2>2. e.order = o
    OBVIOUS
  <2> HIDE DEF e
  <2> QED
    BY <2>1, <2>2 DEF Orders
<1> HIDE DEF e, o
<1>11. Apart(t)
  BY <1>0, <1>1, <1>9, <1>10 DEF Apart, Alone, Entries, Owns
<1>12. Intruding(t) => call'[t] = call[t] /\ pc'[t] = pc[t]
  BY <1>1 DEF Intruding
<1>13. SizedAt(c, label, l)
  BY <1>3, <1>5, <1>7, <1>8 DEF SizedAt, Growing, Linking, Copying, Cutting, BufEnd
<1>14. SizedAt(call[t], pc[t], loc[t])'
  BY <1>7, <1>8, <1>9, <1>13 DEF SizedAt, BufEnd, Growing, Linking, Copying, Cutting
<1>15. Whole(i)' => (c.op = "create" => i \notin DOMAIN md)
  BY <1>0, <1>7, <1>9 DEF Whole, Intruded, Intruding
<1>16. ASSUME Whole(i), Whole(i)'
       PROVE  /\ o = 0 \/ o - 1 \in Orders(i)
              /\ Modifies(c.op) => OrderOf(l.cur) - l.need \in Orders(i) \cup {o}
              /\ c.op = "create" => 0 \in Orders(i) \cup {o}
  <2>1. o = 0 \/ o - 1 \in Orders(i)
    BY <1>0, <1>4, <1>5, <1>15, <1>16 DEF BackedAt, Modifies, Growing, Linking, o
  <2>2. Gapless(i) /\ Orders(i) \subseteq Nat
    BY <1>4, <1>16, OrdersNat DEF CoverInv, GaplessOK, TypeInv
  <2>3. c.op = "create" => 0 \in Orders(i) \cup {o}
    BY <2>1, <2>2 DEF Gapless
  <2>4. ASSUME Modifies(c.op) PROVE OrderOf(l.cur) - l.need \in Orders(i) \cup {o}
    <3> DEFINE k == OrderOf(l.cur) - loc[t].need
    <3>1. k \in Orders(i) /\ k < o /\ o - 1 \in Orders(i)
      BY <1>0, <1>3, <1>5, <1>16, <2>4 DEF BackedAt, Growing, Linking, o
    <3>2. OrderOf(l.cur) - l.need = k + 1
      BY <1>3, <1>4
    <3> HIDE DEF k
    <3>3. k \in Nat /\ k + 1 \in Nat
      BY <2>2, <3>1
    <3>4. k + 1 = o \/ k + 1 <= o - 1
      BY <1>4, <3>1, <3>3
    <3>5. k + 1 \in Orders(i) \cup {o}
      BY <2>2, <3>1, <3>3, <3>4, GaplessBelow DEF TypeInv
    <3> QED
      BY <3>2, <3>5
  <2> QED
    BY <2>1, <2>3, <2>4
<1>17. ASSUME NEW j, j = call'[t].inode, Whole(j), Whole(j)' PROVE BackedAt(call[t], pc[t], loc[t])'
  <2>1. j = i
    BY <1>0, <1>9, <1>17
  <2>2. /\ Modifies(c.op) => OrderOf(l.cur) - l.need \in Orders(i)'
        /\ c.op = "create" => 0 \in Orders(i)'
    BY <1>10, <1>16, <1>17, <2>1
  <2>3. label # "new_data" => OrderOf(l.cur) - l.need = OrderOf(l.cur)
    BY <1>4, <1>6
  <2>4. label # "new_lookup"
    BY <1>4, <1>7, <1>8 DEF AfterGrowth
  <2> QED
    BY <1>0, <1>4, <1>7, <1>8, <1>9, <2>2, <2>3, <2>4
       DEF BackedAt, Modifies, Growing, Linking, Copying, OrderOf
<1>18. ASSUME NEW j \in Inodes, Whole(j), Whole(j)' PROVE Gapless(j)'
  <2>1. Gapless(j)
    BY <1>18 DEF CoverInv, GaplessOK
  <2>2. CASE j # i
    BY <1>10, <2>1, <2>2 DEF Gapless
  <2>3. CASE j = i
    <3>1. o = 0 \/ o - 1 \in Orders(i)
      BY <1>16, <1>18, <2>3
    <3>2. \A m \in 0 .. o : m = o \/ m \in Orders(i)
      BY <1>4, <2>1, <2>3, <3>1 DEF Gapless
    <3> QED
      BY <1>10, <2>1, <2>3, <3>2 DEF Gapless
  <2> QED
    BY <2>2, <2>3
<1>19. ASSUME NEW j \in DOMAIN md', Whole(j), Whole(j)'
       PROVE  OrderOf(md'[j]) \in Orders(j)' \/ \E u \in Threads : ShrunkBy(u, j)'
  <2>1. CASE OrderOf(md[j]) \in Orders(j)
    BY <1>9, <1>10, <2>1
  <2>2. ASSUME NEW u \in Threads, ShrunkBy(u, j) PROVE ShrunkBy(u, j)'
    <3>1. u # t
      BY <1>1, <2>2 DEF ShrunkBy, Shrinking
    <3> QED
      BY <1>9, <2>2, <3>1 DEF ShrunkBy, Shrinking, Blocks
  <2> QED
    BY <1>9, <1>19, <2>1, <2>2 DEF CoverInv, CoveredOK
<1> QED
  BY <1>1, <1>11, <1>12, <1>14, <1>17, <1>18, <1>19, StepOf

\* A file appears with its first block there.
LEMMA InsertMdCover ==
    ASSUME TypeInv, LinkInv, CoverInv, NEW t \in Threads, InsertMd(t)
    PROVE  CoverInv'
<1>0. PICK i : i = call[t].inode
  OBVIOUS
<1>1. /\ pc[t] = "insert_md"  /\ i \notin DOMAIN md  /\ Goto(t, "reply", loc[t])
      /\ md' = [j \in DOMAIN md \cup {i} |-> IF j = i THEN 0 ELSE md[j]]
      /\ UNCHANGED <<lookup, torn, fault, call>>
  BY <1>0 DEF InsertMd, daemon
<1>2. call[t].op = "create"
  BY <1>1, ThreadTypes DEF ControlAt, MakesTrip, Growing, Linking, Copying, Cutting
<1>3. /\ pc'[t] = "reply"  /\ call' = call  /\ torn' = torn
      /\ \A u \in Threads \ {t} : pc'[u] = pc[u] /\ loc'[u] = loc[u]
  BY <1>1, GotoEffect DEF TypeInv
<1>4. \A j : Entries(j)' = Entries(j) /\ Orders(j)' = Orders(j)
  BY <1>1 DEF Orders, Entries
<1>5. DOMAIN md' = DOMAIN md \cup {i} /\ md'[i] = 0 /\ \A j \in DOMAIN md : md'[j] = md[j]
  BY <1>1
<1>6. Apart(t)
  BY <1>1, <1>3, <1>5 DEF Apart, Alone, Entries
<1>7. ~Intruding(t)
  BY <1>0, <1>1 DEF Intruding
<1>8. SizedAt(call[t], pc[t], loc[t])' /\ BackedAt(call[t], pc[t], loc[t])'
  BY <1>2, <1>3 DEF SizedAt, BackedAt, Modifies, Growing, Linking
<1>9. \A j \in Inodes : Whole(j) => Gapless(j)'
  BY <1>4 DEF CoverInv, GaplessOK, Gapless
<1>10. ASSUME NEW j \in DOMAIN md', Whole(j)
       PROVE  OrderOf(md'[j]) \in Orders(j)' \/ \E u \in Threads : ShrunkBy(u, j)'
  <2>1. CASE j = i
    <3>1. 0 \in Orders(i)
      BY <1>0, <1>1, <1>2, <1>10, <2>1 DEF CoverInv, BackedOK, BackedAt
    <3> QED
      BY <1>4, <1>5, <2>1, <3>1, OrderOfZero
  <2>2. CASE j # i /\ OrderOf(md[j]) \in Orders(j)
    BY <1>4, <1>5, <1>10, <2>2
  <2>3. ASSUME NEW u \in Threads, ShrunkBy(u, j) PROVE ShrunkBy(u, j)'
    <3>1. u # t
      BY <1>1, <2>3 DEF ShrunkBy, Shrinking
    <3> QED
      BY <1>3, <1>5, <2>3, <3>1 DEF ShrunkBy, Shrinking, Blocks
  <2> QED
    BY <1>5, <1>10, <2>1, <2>2, <2>3 DEF CoverInv, CoveredOK
<1> QED
  BY <1>1, <1>6, <1>7, <1>8, <1>9, <1>10, StepOf

\* The size stored is one whose block the call has seen to.
LEMMA SetSizeCover ==
    ASSUME TypeInv, LinkInv, CoverInv, NEW t \in Threads, SetSize(t)
    PROVE  CoverInv'
<1>0. PICK i, n : i = call[t].inode /\ n = loc[t].cur
  OBVIOUS
<1>1. /\ pc[t] = "set_size"  /\ Goto(t, "reply", loc[t])  /\ md' = [md EXCEPT ![i] = n]
      /\ UNCHANGED <<lookup, torn, fault, call>>
  BY <1>0 DEF SetSize, daemon
<1>2. call[t].op \in {"write", "truncate"} /\ i \in DOMAIN md
  BY <1>0, <1>1, ThreadTypes DEF ControlAt, MakesTrip, Growing, Linking, Copying, Cutting
<1>3. /\ pc'[t] = "reply"  /\ call' = call  /\ torn' = torn
      /\ \A u \in Threads \ {t} : pc'[u] = pc[u] /\ loc'[u] = loc[u]
  BY <1>1, GotoEffect DEF TypeInv
<1>4. \A j : Entries(j)' = Entries(j) /\ Orders(j)' = Orders(j)
  BY <1>1 DEF Orders, Entries
<1>5. DOMAIN md' = DOMAIN md /\ md'[i] = n /\ \A j \in DOMAIN md \ {i} : md'[j] = md[j]
  BY <1>1, <1>2
<1>6. Apart(t)
  BY <1>0, <1>1, <1>2, <1>3, <1>5 DEF Apart, Alone, Entries, Owns, Modifies
<1>7. ~Intruding(t)
  BY <1>1 DEF Intruding
<1>8. SizedAt(call[t], pc[t], loc[t])' /\ BackedAt(call[t], pc[t], loc[t])'
  <2>1. SizedAt(call[t], pc[t], loc[t])
    BY DEF CoverInv, SizedOK
  <2> QED
    BY <1>2, <1>3, <2>1 DEF SizedAt, BackedAt, Modifies, Growing, Linking, Copying, Cutting
<1>9. \A j \in Inodes : Whole(j) => Gapless(j)'
  BY <1>4 DEF CoverInv, GaplessOK, Gapless
<1>10. ASSUME NEW j \in DOMAIN md', Whole(j)
       PROVE  OrderOf(md'[j]) \in Orders(j)' \/ \E u \in Threads : ShrunkBy(u, j)'
  <2>1. CASE j = i
    <3>1. OrderOf(n) \in Orders(i)
      BY <1>0, <1>1, <1>2, <1>10, <2>1 DEF CoverInv, BackedOK, BackedAt
    <3> QED
      BY <1>4, <1>5, <2>1, <3>1
  <2>2. CASE j # i /\ OrderOf(md[j]) \in Orders(j)
    BY <1>4, <1>5, <1>10, <2>2
  <2>3. ASSUME j # i, NEW u \in Threads, ShrunkBy(u, j) PROVE ShrunkBy(u, j)'
    <3>1. u # t
      BY <1>0, <2>3 DEF ShrunkBy
    <3> QED
      BY <1>3, <1>5, <2>3, <3>1 DEF ShrunkBy, Shrinking, Blocks
  <2> QED
    BY <1>5, <1>10, <2>1, <2>2, <2>3 DEF CoverInv, CoveredOK
<1> QED
  BY <1>1, <1>6, <1>7, <1>8, <1>9, <1>10, StepOf

\* The delete takes the blocks past the new size, and never the last one of it.
LEMMA DelLookupCover ==
    ASSUME TypeInv, LinkInv, CoverInv, NEW t \in Threads, DelLookup(t)
    PROVE  CoverInv'
<1>0. PICK i, n, b : i = call[t].inode /\ n = call[t].size /\ b = Blocks(n)
  OBVIOUS
<1>1. /\ pc[t] = "del_lookup"  /\ lookup' = lookup \ EntriesFrom(i, b)
      /\ UNCHANGED <<md, torn, fault, call>>
  BY <1>0 DEF DelLookup, daemon
<1>2. PICK label \in {"set_size", "del_data"} : Goto(t, label, loc[t])
  BY DEF DelLookup
<1>3. call[t].op = "truncate" /\ i \in DOMAIN md /\ i \in Inodes /\ n \in Nat /\ md[i] \in Nat
  BY <1>0, <1>1, ThreadTypes
     DEF ControlAt, MakesTrip, Growing, Linking, Copying, Cutting, TypeInv, TypeOK, RequestTypes
<1>4. /\ pc'[t] = label  /\ loc'[t] = loc[t]  /\ call' = call  /\ torn' = torn  /\ md' = md
      /\ \A u \in Threads \ {t} : pc'[u] = pc[u] /\ loc'[u] = loc[u]
  BY <1>1, <1>2, GotoEffect DEF TypeInv
<1>5. b < Blocks(md[i]) /\ loc[t].cur = n
  BY <1>0, <1>1, <1>3 DEF CoverInv, SizedOK, SizedAt, Cutting
<1>6. /\ OrderOf(n) \in Nat  /\ b = OrderOf(n) + 1
      /\ OrderOf(md[i]) \in Nat  /\ OrderOf(n) < OrderOf(md[i])
  BY <1>0, <1>3, <1>5, OrderFacts
<1>7. /\ \A j : j # i => Entries(j)' = Entries(j) /\ Orders(j)' = Orders(j)
      /\ Orders(i)' = {x \in Orders(i) : ~(x >= b)}
  <2>1. /\ \A j : j # i => Entries(j)' = Entries(j)
        /\ Entries(i)' = {e \in Entries(i) : ~(e.order >= b)}
    BY <1>1 DEF EntriesFrom, Entries
  <2> QED
    BY <2>1 DEF Orders
<1>8. Apart(t)
  BY <1>0, <1>3, <1>4, <1>7 DEF Apart, Alone, Entries, Owns, Modifies
<1>9. ~Intruding(t) /\ ~Shrinking(t)
  BY <1>1 DEF Intruding, Shrinking
<1>10. ShrunkBy(t, i)'
  BY <1>0, <1>3, <1>4, <1>5 DEF ShrunkBy, Shrinking, Blocks
<1>11. SizedAt(call[t], pc[t], loc[t])'
  BY <1>0, <1>3, <1>4, <1>5 DEF SizedAt, Growing, Linking, Copying, Cutting, Blocks
<1>12. ASSUME Whole(i) PROVE OrderOf(n) \in Orders(i)' /\ Gapless(i)
  <2>1. OrderOf(md[i]) \in Orders(i) /\ Gapless(i)
    BY <1>0, <1>3, <1>9, <1>12, CoveredForOwner DEF Modifies
  <2>2. OrderOf(n) \in Orders(i)
    BY <1>6, <2>1, GaplessBelow DEF TypeInv
  <2> QED
    BY <1>6, <1>7, <2>1, <2>2
<1>13. ASSUME NEW j, j = call'[t].inode, Whole(j) PROVE BackedAt(call[t], pc[t], loc[t])'
  <2>1. OrderOf(n) \in Orders(j)'
    BY <1>0, <1>4, <1>12, <1>13
  <2> QED
    BY <1>3, <1>4, <1>5, <1>13, <2>1 DEF BackedAt, Modifies, Growing, Linking, OrderOf
<1>14. ASSUME NEW j \in Inodes, Whole(j) PROVE Gapless(j)'
  <2>1. Gapless(j)
    BY <1>14 DEF CoverInv, GaplessOK
  <2>2. CASE j # i
    BY <1>7, <2>1, <2>2 DEF Gapless
  <2>3. CASE j = i
    BY <1>6, <1>7, <2>1, <2>3, OrdersNat DEF Gapless, TypeInv
  <2> QED
    BY <2>2, <2>3
<1>15. ASSUME NEW j \in DOMAIN md', Whole(j)
       PROVE  OrderOf(md'[j]) \in Orders(j)' \/ \E u \in Threads : ShrunkBy(u, j)'
  <2>1. CASE j = i
    BY <1>10, <2>1
  <2>2. CASE j # i /\ OrderOf(md[j]) \in Orders(j)
    BY <1>4, <1>7, <2>2
  <2>3. ASSUME NEW u \in Threads, ShrunkBy(u, j) PROVE ShrunkBy(u, j)'
    <3>1. u # t
      BY <1>9, <2>3 DEF ShrunkBy
    <3> QED
      BY <1>4, <2>3, <3>1 DEF ShrunkBy, Shrinking, Blocks
  <2> QED
    BY <1>4, <1>15, <2>1, <2>2, <2>3 DEF CoverInv, CoveredOK
<1> QED
  BY <1>1, <1>8, <1>9, <1>11, <1>13, <1>14, <1>15, StepOf

-----------------------------------------------------------------------------
(* Calls begin and end.                                                      *)

\* A call that returns says nothing any more of its file.
LEMMA ReplyCover ==
    ASSUME TypeInv, LinkInv, CoverInv, NEW t \in Threads, Reply(t)
    PROVE  CoverInv'
<1>1. /\ pc[t] = "reply"  /\ Goto(t, "idle", NoLocals)  /\ call' = [call EXCEPT ![t] = NoCall]
      /\ UNCHANGED <<md, lookup, torn, fault>>
  BY DEF Reply, store, daemon
<1>2. /\ pc'[t] = "idle"  /\ call'[t] = NoCall
      /\ \A u \in Threads \ {t} : pc'[u] = pc[u] /\ loc'[u] = loc[u] /\ call'[u] = call[u]
  BY <1>1, GotoEffect DEF TypeInv, TypeOK
<1>3. \A j : Entries(j)' = Entries(j) /\ Orders(j)' = Orders(j)
  BY <1>1 DEF Orders, Entries
<1>4. Apart(t)
  BY <1>1, <1>2 DEF Apart, Alone, Entries
<1>5. ~Intruding(t) /\ ~Shrinking(t)
  BY <1>1 DEF Intruding, Shrinking
<1>6. SizedAt(call[t], pc[t], loc[t])' /\ BackedAt(call[t], pc[t], loc[t])'
  BY <1>2 DEF SizedAt, BackedAt, Modifies, NoCall
<1>7. \A j \in Inodes : Whole(j) => Gapless(j)'
  BY <1>3 DEF CoverInv, GaplessOK, Gapless
<1>8. ASSUME NEW j \in DOMAIN md', Whole(j)
      PROVE  OrderOf(md'[j]) \in Orders(j)' \/ \E u \in Threads : ShrunkBy(u, j)'
  <2>1. CASE OrderOf(md[j]) \in Orders(j)
    BY <1>1, <1>3, <2>1
  <2>2. ASSUME NEW u \in Threads, ShrunkBy(u, j) PROVE ShrunkBy(u, j)'
    <3>1. u # t
      BY <1>5, <2>2 DEF ShrunkBy
    <3> QED
      BY <1>1, <1>2, <2>2, <3>1 DEF ShrunkBy, Shrinking, Blocks
  <2> QED
    BY <1>1, <1>8, <2>1, <2>2 DEF CoverInv, CoveredOK
<1> QED
  BY <1>1, <1>4, <1>5, <1>6, <1>7, <1>8, StepOf

\* A request knows nothing yet of its file, and only a create adds blocks at once.
LEMMA BeginCover ==
    ASSUME TypeInv, LinkInv, CoverInv, NEW t \in Threads, NEW label, NEW c, NEW n,
           Begin(t, label, c, n),
           \/ label = "find_md" /\ c.op # "create"
           \/ label = "new_data" /\ c.op = "create" /\ n = 1,
           c.op = "write" => \A k \in DOMAIN c.bufs : Len(c.bufs[k]) >= 1
    PROVE  CoverInv'
<1>1. /\ pc[t] = "idle"  /\ call' = [call EXCEPT ![t] = c]
      /\ Goto(t, label, [NoLocals EXCEPT !.need = n])
      /\ UNCHANGED <<md, lookup, torn, fault>>
  BY DEF Begin, store, daemon
<1>2. /\ pc'[t] = label  /\ call'[t] = c  /\ loc'[t].need = n
      /\ \A u \in Threads \ {t} : pc'[u] = pc[u] /\ loc'[u] = loc[u] /\ call'[u] = call[u]
  BY <1>1, GotoEffect DEF TypeInv, TypeOK, NoLocals
<1>3. \A j : Entries(j)' = Entries(j) /\ Orders(j)' = Orders(j)
  BY <1>1 DEF Orders, Entries
<1>4. Apart(t)
  BY <1>1, <1>2 DEF Apart, Alone, Entries
<1>5. ~Intruding(t) /\ ~Shrinking(t)
  BY <1>1 DEF Intruding, Shrinking
<1>6. SizedAt(call[t], pc[t], loc[t])' /\ BackedAt(call[t], pc[t], loc[t])'
  BY <1>2 DEF SizedAt, BackedAt, Modifies, Growing, Linking, Copying, Cutting
<1>7. \A j \in Inodes : Whole(j) => Gapless(j)'
  BY <1>3 DEF CoverInv, GaplessOK, Gapless
<1>8. ASSUME NEW j \in DOMAIN md', Whole(j)
      PROVE  OrderOf(md'[j]) \in Orders(j)' \/ \E u \in Threads : ShrunkBy(u, j)'
  <2>1. CASE OrderOf(md[j]) \in Orders(j)
    BY <1>1, <1>3, <2>1
  <2>2. ASSUME NEW u \in Threads, ShrunkBy(u, j) PROVE ShrunkBy(u, j)'
    <3>1. u # t
      BY <1>5, <2>2 DEF ShrunkBy
    <3> QED
      BY <1>1, <1>2, <2>2, <3>1 DEF ShrunkBy, Shrinking, Blocks
  <2> QED
    BY <1>1, <1>8, <2>1, <2>2 DEF CoverInv, CoveredOK
<1> QED
  BY <1>1, <1>4, <1>5, <1>6, <1>7, <1>8, StepOf

\* Steps that touch neither the files nor the threads; a new mount forgets what
\* ended the last.
LEMMA StutterCover ==
    ASSUME CoverInv, UNCHANGED <<md, lookup, torn, pc, call, loc>>, fault' \in {fault, NoFault}
    PROVE  CoverInv'
<1>1. \A j : /\ Entries(j)' = Entries(j)  /\ Orders(j)' = Orders(j)
             /\ Whole(j)' <=> Whole(j)
             /\ \A u \in Threads : ShrunkBy(u, j)' <=> ShrunkBy(u, j)
  BY DEF Orders, Entries, Whole, Intruded, Intruding, ShrunkBy, Shrinking, Blocks
<1>2. SizedOK'
  BY <1>1 DEF CoverInv, SizedOK, SizedAt, BufEnd, Blocks, OrderOf
<1>3. GaplessOK' /\ CoveredOK'
  BY <1>1 DEF CoverInv, GaplessOK, Gapless, CoveredOK, OrderOf
<1>4. BackedOK'
  <2> SUFFICES ASSUME NEW u \in Threads, Whole(call[u].inode)' PROVE BackedAt(call[u], pc[u], loc[u])'
    BY DEF BackedOK
  <2>1. BackedAt(call[u], pc[u], loc[u])
    BY DEF CoverInv, BackedOK, Whole, Intruded, Intruding
  <2> QED
    BY <1>1, <2>1 DEF BackedAt, OrderOf, Orders, Entries
<1>5. ModifiersNeverAssert'
  BY DEF CoverInv, ModifiersNeverAssert, NoFault
<1> QED
  BY <1>2, <1>3, <1>4, <1>5 DEF CoverInv

\* When the daemon dies, the files that its calls leave damaged are not whole.
LEMMA DieCover ==
    ASSUME TypeInv, CoverInv, Die, ModifiersNeverAssert'
    PROVE  CoverInv'
<1>1. /\ torn' = torn \cup {i \in Inodes : Hurt(i)}  /\ md' = md  /\ lookup' = lookup
      /\ \A u \in Threads : pc'[u] = "idle" /\ call'[u] = NoCall
  BY DEF Die, store
<1>2. \A j : Entries(j)' = Entries(j) /\ Orders(j)' = Orders(j)
  BY <1>1 DEF Orders, Entries
<1>3. SizedOK' /\ BackedOK'
  BY <1>1 DEF SizedOK, SizedAt, BackedOK, BackedAt, Modifies, NoCall
<1>4. ASSUME NEW i \in Inodes, Whole(i)' PROVE Whole(i) /\ \A u \in Threads : ~ShrunkBy(u, i)
  BY <1>1, <1>4 DEF Whole, Intruded, Hurt, ShrunkBy
<1>5. GaplessOK'
  BY <1>2, <1>4 DEF CoverInv, GaplessOK, Gapless
<1>6. CoveredOK'
  BY <1>1, <1>2, <1>4 DEF CoverInv, CoveredOK, OrderOf, TypeInv, TypeOK
<1> QED
  BY <1>3, <1>5, <1>6 DEF CoverInv

\* The asserts of a write never fail on a whole file: it has the block of the
\* position, and every lookup document leads to a block.
LEMMA AssertCover ==
    ASSUME TypeInv, LinkInv, CoverInv, NEW t \in Threads, FindLookupFails(t) \/ FindDataFails(t)
    PROVE  CoverInv'
<1>0. PICK i : i = call[t].inode
  OBVIOUS
<1>1. /\ pc[t] \in Copying  /\ fault'.op = call[t].op  /\ fault'.inode = i  /\ Die
  BY <1>0 DEF FindLookupFails, FindDataFails, Abort, Copying
<1>2. call[t].op \in {"read", "write"} /\ i \in Inodes
  BY <1>0, <1>1, ThreadTypes DEF ControlAt, MakesTrip, Growing, Linking, Copying, Cutting
<1>3. ASSUME call[t].op = "write", i \notin torn' PROVE FALSE
  <2>1. Whole(i)
    BY <1>0, <1>1, <1>2, <1>3 DEF Die, Whole, Intruded, Hurt
  <2>2. SizedAt(call[t], pc[t], loc[t]) /\ BackedAt(call[t], pc[t], loc[t])
    BY <1>0, <2>1 DEF CoverInv, SizedOK, BackedOK
  <2>3. CASE FindDataFails(t)
    BY <1>3, <2>2, <2>3 DEF FindDataFails, SizedAt, LinkInv, NoDangling, Entries
  <2>4. CASE FindLookupFails(t)
    <3>1. PICK fp, cur, end : fp = loc[t].fp /\ cur = loc[t].cur /\ end = BufEnd(call[t], loc[t].idx)
      OBVIOUS
    <3>2. fp < end /\ end <= cur /\ OrderOf(cur) \in Orders(i)
      BY <1>0, <1>1, <1>3, <2>2, <3>1 DEF SizedAt, BackedAt, Copying, Growing, Linking
    <3>3. fp \in Nat /\ cur \in Nat /\ end \in Nat
      <4>1. loc[t] \in LocalTypes /\ call[t] \in RequestTypes /\ loc[t].idx \in DOMAIN call[t].bufs
        BY <1>1, <1>3, ThreadTypes DEF ControlAt, Copying
      <4>2. fp \in Nat /\ cur \in Nat
        BY <3>1, <4>1 DEF LocalTypes
      <4>3. end \in Nat
        BY <3>1, <4>1, EnterBufferTypes
      <4> QED
        BY <4>2, <4>3
    <3>4. OrderOf(fp) \in Nat /\ OrderOf(fp) <= OrderOf(cur)
      BY <3>2, <3>3, OrderFacts
    <3>5. OrderOf(fp) \in Orders(i)
      BY <1>2, <2>1, <3>2, <3>4, GaplessBelow DEF CoverInv, GaplessOK, TypeInv
    <3> QED
      BY <1>0, <2>4, <3>1, <3>5 DEF FindLookupFails, Wanted, Orders
  <2> QED
    BY <2>3, <2>4
<1>4. ModifiersNeverAssert'
  BY <1>1, <1>2, <1>3 DEF ModifiersNeverAssert
<1> QED
  BY <1>1, <1>4, DieCover

-----------------------------------------------------------------------------
(* The invariant, and what it is for.                                        *)

\* Every request to write has bytes in each of its buffers.
LEMMA StartCover ==
    ASSUME TypeInv, LinkInv, CoverInv, NEW t \in Threads, Start(t)
    PROVE  CoverInv'
<1>1. CASE BeginCreate(t)
  <2>1. PICK i \in Inodes : Begin(t, "new_data", [NoCall EXCEPT !.op = "create", !.inode = i], 1)
    BY <1>1 DEF BeginCreate
  <2>2. [NoCall EXCEPT !.op = "create", !.inode = i].op = "create"
    BY DEF NoCall
  <2> QED
    BY <2>1, <2>2, BeginCover
<1>2. CASE BeginWrite(t)
  <2>1. PICK i \in DOMAIN md, off \in Offsets, bufs \in BufVecs :
            Begin(t, "find_md", [NoCall EXCEPT !.op = "write", !.inode = i, !.off = off, !.bufs = bufs], 0)
    BY <1>2 DEF BeginWrite, SendWrite
  <2> DEFINE c == [NoCall EXCEPT !.op = "write", !.inode = i, !.off = off, !.bufs = bufs]
  <2>2. c.op = "write" /\ c.bufs = bufs
    BY DEF NoCall
  <2>3. \A k \in DOMAIN bufs : Len(bufs[k]) >= 1
    <3>1. bufs \in Seq(Seq(Bytes) \ {<<>>})
      BY RequestAssumption
    <3>2. \A b \in Seq(Bytes) \ {<<>>} : Len(b) >= 1
      BY EmptySeq
    <3> QED
      BY <3>1, <3>2
  <2> HIDE DEF c
  <2> QED
    BY <2>1, <2>2, <2>3, BeginCover DEF c
<1>3. CASE BeginRead(t)
  <2>1. PICK i \in DOMAIN md, off \in Offsets, n \in ReadSizes :
            Begin(t, "find_md", [NoCall EXCEPT !.op = "read", !.inode = i, !.off = off, !.size = n], 0)
    BY <1>3 DEF BeginRead, SendRead
  <2>2. [NoCall EXCEPT !.op = "read", !.inode = i, !.off = off, !.size = n].op = "read"
    BY DEF NoCall
  <2> QED
    BY <2>1, <2>2, BeginCover
<1>4. CASE BeginTruncate(t)
  <2>1. PICK i \in DOMAIN md, n \in NewSizes :
            Begin(t, "find_md", [NoCall EXCEPT !.op = "truncate", !.inode = i, !.size = n], 0)
    BY <1>4 DEF BeginTruncate, SendTruncate
  <2>2. [NoCall EXCEPT !.op = "truncate", !.inode = i, !.size = n].op = "truncate"
    BY DEF NoCall
  <2> QED
    BY <2>1, <2>2, BeginCover
<1>5. CASE OpenTrunc(t) \/ Fallocate(t)
  BY <1>5, StutterCover DEF OpenTrunc, Fallocate, store, daemon, threads
<1>6. CASE TruncateByPath(t)
  <2>1. fault'.cause = "null_ffi"
    BY <1>6 DEF TruncateByPath
  <2>2. ModifiersNeverAssert'
    BY <2>1 DEF ModifiersNeverAssert
  <2> QED
    BY <1>6, <2>2, DieCover DEF TruncateByPath
<1> QED
  BY <1>1, <1>2, <1>3, <1>4, <1>5, <1>6 DEF Start

\* Every step of a thread preserves CoverInv.
LEMMA StepCover ==
    ASSUME TypeInv, LinkInv, CoverInv, NEW t \in Threads, Step(t)
    PROVE  CoverInv'
<1>1. CASE PipeFails(t) \/ NewDataClash(t) \/ InsertMdClash(t)
  <2>1. fault'.cause \in {"assert_fd", "dup_data", "dup_inode"} /\ Die
    BY <1>1 DEF PipeFails, NewDataClash, InsertMdClash, Abort
  <2>2. ModifiersNeverAssert'
    BY <2>1 DEF ModifiersNeverAssert
  <2> QED
    BY <2>1, <2>2, DieCover
<1> QED
  BY <1>1, FindMdForWriteCover, FindMdForTruncateCover, MaxOrderCover, ReadCover, NewDataCover,
     FindLookupCover, FindDataForWriteCover, UpdateDataCover, FindIdsCover, DelDataCover,
     NewLookupCover, InsertMdCover, SetSizeCover, DelLookupCover, ReplyCover, AssertCover DEF Step

\* Every step of the specification preserves CoverInv.
LEMMA CoverInvInductive == TypeInv /\ LinkInv /\ CoverInv /\ [Next]_vars => CoverInv'
<1> SUFFICES ASSUME TypeInv, LinkInv, CoverInv, [Next]_vars PROVE CoverInv'
  OBVIOUS
<1>1. CASE \E t \in Threads : Start(t) \/ Step(t)
  BY <1>1, StartCover, StepCover
<1>2. CASE Kill
  <2>1. ModifiersNeverAssert'
    BY <1>2 DEF Kill, NoFault, ModifiersNeverAssert
  <2> QED
    BY <1>2, <2>1, DieCover DEF Kill
<1>3. CASE Mount
  BY <1>3, StutterCover DEF Mount, store, threads
<1>4. CASE UNCHANGED vars
  BY <1>4, StutterCover DEF vars
<1> QED
  BY <1>1, <1>2, <1>3, <1>4 DEF Next

\* CoverInv holds in empty collections.
LEMMA CoverInvInitial == Init => CoverInv
<1> SUFFICES ASSUME Init PROVE CoverInv
  OBVIOUS
<1>1. \A t \in Threads : pc[t] = "idle" /\ call[t] = NoCall
  BY DEF Init
<1>2. SizedOK /\ BackedOK
  BY <1>1 DEF SizedOK, SizedAt, BackedOK, BackedAt, Modifies, NoCall
<1>3. GaplessOK /\ CoveredOK
  BY DEF Init, GaplessOK, Gapless, Orders, Entries, CoveredOK
<1>4. ModifiersNeverAssert
  BY DEF Init, NoFault, ModifiersNeverAssert
<1> QED
  BY <1>2, <1>3, <1>4 DEF CoverInv

\* What the calls in progress know of the sizes and blocks of their files stays
\* true whatever the others do, although each learnt it several round trips ago.
THEOREM CoverInvHolds == Spec => []CoverInv
<1> QED
  BY TypeInvHolds, LinkInvHolds, CoverInvInitial, CoverInvInductive, PTL DEF Spec

\* The block of position file_size is there, in every file that no truncate is
\* cutting, no create with a clashing inode has reached and no call that was cut
\* short has damaged: each size update comes after the inserts it counts on.
THEOREM CoveredHolds == Spec => []Covered
<1>1. TypeInv /\ CoverInv => Covered
  <2> SUFFICES ASSUME TypeInv, CoverInv, NEW i \in DOMAIN md \ torn, ~Hurt(i)
               PROVE  OrderOf(md[i]) \in Orders(i)
    BY DEF Covered
  <2>1. Whole(i) /\ \A t \in Threads : ~ShrunkBy(t, i)
    BY DEF Whole, Intruded, Hurt, ShrunkBy
  <2> QED
    BY <2>1 DEF CoverInv, CoveredOK
<1> QED
  BY <1>1, TypeInvHolds, CoverInvHolds, PTL

\* No assert on a document found ends a write or a truncate, except on a file
\* that a call cut short or a clash of inodes damaged: the blocks a write was
\* promised when it read the size are there when it comes to them.
THEOREM ModifiersNeverAssertHolds == Spec => []ModifiersNeverAssert
<1>1. CoverInv => ModifiersNeverAssert
  BY DEF CoverInv
<1> QED
  BY <1>1, CoverInvHolds, PTL

\* Only a truncate makes a file shorter: the size that a write stores is no less
\* than the one in the document, though it read that one at its head and the
\* update overwrites whatever is there.
THEOREM OnlyTruncateShrinksHolds == Spec => OnlyTruncateShrinks
<1>1. TypeInv /\ CoverInv /\ [Next]_vars => [ShrinksOnlyByTruncate]_vars
  <2> SUFFICES ASSUME TypeInv, CoverInv, Next, NEW i \in DOMAIN md, md'[i] < md[i]
               PROVE  \E t \in Threads : call[t].op = "truncate" /\ call[t].inode = i
    BY DEF ShrinksOnlyByTruncate
  <2>1. md[i] \in Nat
    BY DEF TypeInv, TypeOK
  <2>2. CASE UNCHANGED md
    BY <2>1, <2>2
  <2>3. ASSUME NEW t \in Threads, InsertMd(t) PROVE FALSE
    BY <2>1, <2>3 DEF InsertMd
  <2>4. ASSUME NEW t \in Threads, SetSize(t) PROVE call[t].op = "truncate" /\ call[t].inode = i
    <3>1. pc[t] = "set_size" /\ md' = [md EXCEPT ![call[t].inode] = loc[t].cur]
      BY <2>4 DEF SetSize
    <3>2. call[t].inode = i /\ md'[i] = loc[t].cur
      BY <2>1, <3>1
    <3>3. call[t].op \in {"write", "truncate"} /\ loc[t].cur \in Nat
      BY <3>1, ThreadTypes DEF ControlAt, MakesTrip, Growing, Linking, Copying, Cutting, LocalTypes
    <3>4. call[t].op = "write" => md[i] <= loc[t].cur
      BY <3>1, <3>2 DEF CoverInv, SizedOK, SizedAt
    <3> QED
      BY <2>1, <3>2, <3>3, <3>4
  <2>5. UNCHANGED md \/ \E t \in Threads : InsertMd(t) \/ SetSize(t)
    <3>1. ASSUME NEW t \in Threads, Start(t) PROVE UNCHANGED md
      BY <3>1 DEF Start, BeginCreate, BeginWrite, SendWrite, BeginRead, SendRead, BeginTruncate, SendTruncate, Begin, TruncateByPath,
                  OpenTrunc, Fallocate, Die, store
    <3>2. ASSUME NEW t \in Threads, Step(t), ~InsertMd(t), ~SetSize(t) PROVE UNCHANGED md
      <4>1. CASE \/ PipeFails(t) \/ NewDataClash(t) \/ InsertMdClash(t)
                 \/ FindLookupFails(t) \/ FindDataFails(t)
        BY <4>1 DEF PipeFails, NewDataClash, InsertMdClash, FindLookupFails, FindDataFails,
                    Abort, Die, store
      <4>2. CASE \/ FindMdForWrite(t) \/ FindMdForRead(t) \/ FindMdForTruncate(t)
                 \/ FindLookup(t) \/ FindDataForWrite(t) \/ FindDataForRead(t)
        BY <4>2 DEF FindMdForWrite, FindMdForRead, FindMdForTruncate, FindLookup,
                    FindDataForWrite, FindDataForRead, store
      <4>3. CASE \/ NewData(t) \/ MaxOrder(t) \/ NewLookup(t) \/ UpdateData(t)
                 \/ FindIds(t) \/ DelLookup(t) \/ DelData(t) \/ Reply(t)
        BY <4>3 DEF NewData, MaxOrder, NewLookup, UpdateData, FindIds, DelLookup, DelData, Reply, store
      <4> QED
        BY <3>2, <4>1, <4>2, <4>3, Zenon DEF Step
    <3>3. Kill \/ Mount => UNCHANGED md
      BY DEF Kill, Mount, Die, store
    <3> QED
      BY <3>1, <3>2, <3>3, Zenon DEF Next
  <2> QED
    BY <2>2, <2>3, <2>4, <2>5
<1> QED
  BY <1>1, TypeInvHolds, CoverInvHolds, PTL DEF Spec, OnlyTruncateShrinks

-----------------------------------------------------------------------------
(* Contents.  A write puts whole blocks back that it read one round trip     *)
(* earlier; what it did not mean to change in them is still what is stored.  *)

\* A step of thread t keeps the invariant if it leaves alone the blocks of the
\* files it holds no lock on, and the blocks that others have not linked yet.
LEMMA FrameContent ==
    ASSUME TypeInv, LinkInv, ContentInv, NEW t \in Threads, Alone(t),
           \A e \in lookup : (e \in lookup' /\ data'[e.id] = data[e.id]) \/ Owns(t, e.inode),
           \A u \in Threads \ {t} : \A d \in Pending(u) : data'[d] = data[d],
           pc'[t] \in Linking => data'[loc'[t].id] = ZeroBlock,
           pc'[t] = "update_data" =>
               \E e \in lookup' : e.inode = call'[t].inode /\ PutBackAt(call[t], loc[t], e)'
    PROVE  ContentInv'
<1>1. FreshOK'
  <2> SUFFICES ASSUME NEW u \in Threads, pc'[u] \in Linking PROVE data'[loc'[u].id] = ZeroBlock
    BY DEF FreshOK, Linking, ZeroBlock
  <2>1. CASE u # t
    <3>1. pc[u] \in Linking /\ loc'[u] = loc[u] /\ loc[u].id \in Pending(u)
      BY <2>1 DEF Alone, Pending, Linking
    <3>2. data[loc[u].id] = ZeroBlock
      BY <3>1 DEF ContentInv, FreshOK
    <3> QED
      BY <2>1, <3>1, <3>2
  <2> QED
    BY <2>1
<1>2. PatchedOK'
  <2> SUFFICES ASSUME NEW u \in Threads, pc'[u] = "update_data"
               PROVE  \E e \in lookup' : e.inode = call'[u].inode /\ PutBackAt(call[u], loc[u], e)'
    BY DEF PatchedOK, Entries
  <2>1. CASE u # t
    <3>1. pc[u] = "update_data" /\ loc'[u] = loc[u] /\ call'[u] = call[u]
      BY <2>1 DEF Alone
    <3>2. PICK e \in lookup : e.inode = call[u].inode /\ PutBackAt(call[u], loc[u], e)
      BY <3>1 DEF ContentInv, PatchedOK, Entries
    <3>3. Modifies(call[u].op)
      BY <3>1, ThreadTypes DEF ControlAt, MakesTrip, Growing, Linking, Copying, Cutting, Modifies
    <3>4. ~Owns(t, e.inode)
      BY <2>1, <3>2, <3>3 DEF LinkInv, OneModifier, Owns
    <3>5. e \in lookup' /\ data'[e.id] = data[e.id]
      BY <3>4
    <3>6. PutBackAt(call[u], loc[u], e)'
      BY <3>1, <3>2, <3>5 DEF PutBackAt, InBuffer, BufEnd
    <3> QED
      BY <3>1, <3>2, <3>5, <3>6
  <2> QED
    BY <2>1
<1> QED
  BY <1>1, <1>2 DEF ContentInv

\* A step that touches neither lookup documents nor blocks, and after which the
\* thread holds no block.
LEMMA QuietContent ==
    ASSUME TypeInv, LinkInv, ContentInv, NEW t \in Threads, NEW label, NEW l, Goto(t, label, l),
           UNCHANGED <<lookup, data>>, \A u \in Threads \ {t} : call'[u] = call[u],
           label \notin Linking, label # "update_data"
    PROVE  ContentInv'
<1>1. pc'[t] = label /\ Alone(t)
  BY GotoEffect DEF Alone, TypeInv
<1> QED
  BY <1>1, FrameContent

\* A step that touches neither documents nor threads.
LEMMA StutterContent ==
    ASSUME ContentInv, UNCHANGED <<lookup, data, pc, call, loc>>
    PROVE  ContentInv'
  BY DEF ContentInv, FreshOK, PatchedOK, PutBackAt, InBuffer, BufEnd, Entries, ZeroBlock

\* When the daemon dies nothing is pending and nothing is put back.
LEMMA DieContent ==
    ASSUME Die
    PROVE  ContentInv'
<1>1. \A u \in Threads : pc'[u] = "idle"
  BY DEF Die
<1> QED
  BY <1>1 DEF ContentInv, FreshOK, PatchedOK, Linking

-----------------------------------------------------------------------------
(* The actions.                                                              *)

\* Round trips that only read, or write fs_metadata.
LEMMA LocalContent ==
    ASSUME TypeInv, LinkInv, ContentInv, NEW t \in Threads,
           \/ FindMdForWrite(t) \/ FindMdForRead(t) \/ FindMdForTruncate(t) \/ InsertMd(t)
           \/ FindLookup(t) \/ FindDataForRead(t) \/ SetSize(t) \/ FindIds(t)
    PROVE  ContentInv'
<1>1. UNCHANGED <<lookup, data, call>>
  BY DEF FindMdForWrite, FindMdForRead, FindMdForTruncate, InsertMd, FindLookup,
         FindDataForRead, SetSize, FindIds, store
<1>2. PICK label \in {"new_data", "find_lookup", "reply", "set_size", "find_ids", "find_data", "del_lookup"} :
          \E l : Goto(t, label, l)
  <2>1. CASE FindMdForWrite(t)
    BY <2>1 DEF FindMdForWrite, GrowOr
  <2>2. CASE FindMdForTruncate(t)
    BY <2>2 DEF FindMdForTruncate
  <2>3. CASE FindDataForRead(t)
    BY <2>3 DEF FindDataForRead
  <2>4. CASE FindMdForRead(t) \/ InsertMd(t) \/ FindLookup(t) \/ SetSize(t) \/ FindIds(t)
    BY <2>4 DEF FindMdForRead, InsertMd, FindLookup, SetSize, FindIds
  <2> QED
    BY <2>1, <2>2, <2>3, <2>4
<1> QED
  BY <1>1, <1>2, QuietContent DEF Linking

\* The block made is new, and all zeros.
LEMMA NewDataContent ==
    ASSUME TypeInv, LinkInv, ContentInv, NEW t \in Threads, NewData(t)
    PROVE  ContentInv'
<1>1. PICK d \in DataIds \ DOMAIN data :
          /\ data' = [x \in DOMAIN data \cup {d} |-> IF x = d THEN ZeroBlock ELSE data[x]]
          /\ Goto(t, "max_order", [loc[t] EXCEPT !.id = d])
  BY DEF NewData
<1>2. UNCHANGED <<lookup, call>>
  BY DEF NewData
<1>3. pc'[t] = "max_order" /\ loc'[t].id = d /\ Alone(t)
  BY <1>1, <1>2, GotoEffect, ThreadTypes DEF Alone, TypeInv, LocalTypes
<1>4. data'[d] = ZeroBlock /\ \A x \in DOMAIN data : data'[x] = data[x]
  BY <1>1
<1>5. \A e \in lookup : data'[e.id] = data[e.id]
  BY <1>4 DEF LinkInv, NoDangling
<1>6. \A u \in Threads : \A x \in Pending(u) : data'[x] = data[x]
  BY <1>4 DEF LinkInv, PendingOwned
<1> QED
  BY <1>2, <1>3, <1>4, <1>5, <1>6, FrameContent

\* The block stays as it was made.
LEMMA MaxOrderContent ==
    ASSUME TypeInv, LinkInv, ContentInv, NEW t \in Threads, MaxOrder(t)
    PROVE  ContentInv'
<1>1. pc[t] = "max_order" /\ UNCHANGED <<lookup, data, call>>
  BY DEF MaxOrder, store
<1>2. pc'[t] = "new_lookup" /\ loc'[t].id = loc[t].id /\ Alone(t)
  <2>1. Goto(t, "new_lookup", [loc[t] EXCEPT !.order = NextOrder(call[t].inode)])
    BY DEF MaxOrder
  <2> QED
    BY <1>1, <2>1, GotoEffect, ThreadTypes DEF Alone, TypeInv, LocalTypes
<1>3. data[loc[t].id] = ZeroBlock
  BY <1>1 DEF ContentInv, FreshOK, Linking
<1> QED
  BY <1>1, <1>2, <1>3, FrameContent

\* A new lookup document changes no block.
LEMMA NewLookupContent ==
    ASSUME TypeInv, LinkInv, ContentInv, NEW t \in Threads, NewLookup(t)
    PROVE  ContentInv'
<1>1. pc[t] = "new_lookup" /\ lookup \subseteq lookup' /\ UNCHANGED <<data, call>>
  BY DEF NewLookup
<1>2. PICK label \in {"new_data", "insert_md", "find_lookup", "set_size"} : \E l : Goto(t, label, l)
  <2>1. call[t].op \in {"create", "write", "truncate"}
    BY <1>1, ThreadTypes DEF ControlAt, MakesTrip, Copying, Cutting
  <2> QED
    BY <2>1 DEF NewLookup, GrowOr, AfterGrowth
<1>3. pc'[t] = label /\ Alone(t)
  BY <1>1, <1>2, GotoEffect DEF Alone, TypeInv
<1> QED
  BY <1>1, <1>3, FrameContent DEF Linking

\* The copy reaches only the positions that the buffer is for.
LEMMA FindDataForWriteContent ==
    ASSUME TypeInv, LinkInv, SizedOK, ContentInv, NEW t \in Threads, FindDataForWrite(t)
    PROVE  ContentInv'
<1>0. PICK c, o, k, fp, id, end, next :
          /\ c = call[t]  /\ o = c.off  /\ k = loc[t].idx  /\ fp = loc[t].fp  /\ id = loc[t].id
          /\ end = BufEnd(c, k)  /\ next = AfterBlock(fp, end)
  OBVIOUS
<1>1. pc[t] = "find_data" /\ c.op = "write" /\ UNCHANGED <<lookup, data, call>>
  BY <1>0 DEF FindDataForWrite, store
<1>2. c \in RequestTypes /\ loc[t] \in LocalTypes /\ k \in DOMAIN c.bufs /\ o <= fp
  BY <1>0, <1>1, ThreadTypes DEF ControlAt
<1>3. o \in Nat /\ fp \in Nat /\ end \in Nat /\ end = o + Len(c.bufs[k])
  BY <1>0, <1>2, EnterBufferTypes DEF RequestTypes, LocalTypes, BufEnd
<1>4. PICK l : Goto(t, "update_data", l) /\ l.id = id /\ l.blk = Patch(data[id], fp, o, c.bufs[k])
  <2> DEFINE m == [loc[t] EXCEPT !.blk = Patch(data[id], fp, o, c.bufs[k]),
                                 !.fp = next, !.total = @ + (next - fp)]
  <2>1. Goto(t, "update_data", m)
    BY <1>0 DEF FindDataForWrite
  <2>2. m.id = id /\ m.blk = Patch(data[id], fp, o, c.bufs[k])
    BY <1>0, <1>2 DEF LocalTypes
  <2> HIDE DEF m
  <2> QED
    BY <2>1, <2>2
<1>5. PICK e \in lookup : e.inode = c.inode /\ e.id = id /\ e.order = OrderOf(fp)
  BY <1>0, <1>1 DEF SizedOK, SizedAt, Entries
<1>6. fp < end
  BY <1>0, <1>1 DEF SizedOK, SizedAt, Copying, Growing, Linking
<1>7. next \in Nat /\ next <= end
  BY <1>0, <1>3, <1>6, AfterBlockBounds DEF Greatest
<1>8. ASSUME NEW q \in Positions PROVE l.blk[q] = data[e.id][q] \/ InBuffer(c, e, q)
  <2>1. PICK p : p = OrderOf(fp) * BLOCK_SIZE + q
    OBVIOUS
  <2>2. p \in Nat
    <3>1. OrderOf(fp) \in Nat /\ BLOCK_SIZE \in Nat
      BY <1>3, BlocksMonotone, BlockSizeAssumption
    <3>2. OrderOf(fp) * BLOCK_SIZE \in Nat
      BY <3>1, Products
    <3> QED
      BY <2>1, <3>1, <3>2 DEF Positions
  <2>3. CASE p \in fp .. next - 1
    <3>1. p \in o .. BufEnd(c, k) - 1
      BY <1>0, <1>2, <1>3, <1>7, <2>2, <2>3
    <3> QED
      BY <1>0, <1>2, <1>5, <2>1, <3>1 DEF InBuffer
  <2>4. CASE p \notin fp .. next - 1
    BY <1>0, <1>3, <1>4, <1>5, <2>1, <2>4 DEF Patch
  <2> QED
    BY <2>3, <2>4
<1>9. pc'[t] = "update_data" /\ loc'[t] = l /\ Alone(t)
  BY <1>1, <1>4, GotoEffect DEF Alone, TypeInv
<1>10. PutBackAt(call[t], loc[t], e)'
  BY <1>0, <1>1, <1>4, <1>5, <1>8, <1>9 DEF PutBackAt, InBuffer, BufEnd
<1> QED
  BY <1>0, <1>1, <1>5, <1>9, <1>10, FrameContent DEF Linking

\* What is put back is a block of the caller's own file.
LEMMA UpdateDataContent ==
    ASSUME TypeInv, LinkInv, ContentInv, NEW t \in Threads, UpdateData(t)
    PROVE  ContentInv'
<1>0. PICK id : id = loc[t].id
  OBVIOUS
<1>1. /\ pc[t] = "update_data"  /\ UNCHANGED <<lookup, call>>
      /\ data' = [d \in DOMAIN data |-> IF d = id THEN loc[t].blk ELSE data[d]]
  BY <1>0 DEF UpdateData
<1>2. PICK label \in {"new_data", "find_lookup", "set_size"} : \E l : Goto(t, label, l)
  BY DEF UpdateData, GrowOr
<1>3. pc'[t] = label /\ Alone(t)
  BY <1>1, <1>2, GotoEffect DEF Alone, TypeInv
<1>4. PICK e \in lookup : e.inode = call[t].inode /\ e.id = id
  BY <1>0, <1>1 DEF ContentInv, PatchedOK, PutBackAt, Entries
<1>5. Owns(t, e.inode)
  BY <1>1, <1>4, ThreadTypes DEF ControlAt, MakesTrip, Growing, Linking, Copying, Cutting, Owns, Modifies
<1>6. \A f \in lookup : data'[f.id] = data[f.id] \/ Owns(t, f.inode)
  BY <1>1, <1>4, <1>5 DEF LinkInv, NoSharing, NoDangling
<1>7. \A u \in Threads : \A d \in Pending(u) : data'[d] = data[d]
  BY <1>1, <1>4 DEF LinkInv, PendingOwned, Linked
<1> QED
  BY <1>1, <1>3, <1>6, <1>7, FrameContent DEF Linking

\* A delete on one file takes no document of another.
LEMMA DelLookupContent ==
    ASSUME TypeInv, LinkInv, ContentInv, NEW t \in Threads, DelLookup(t)
    PROVE  ContentInv'
<1>1. /\ pc[t] = "del_lookup"  /\ UNCHANGED <<data, call>>
      /\ lookup' = lookup \ EntriesFrom(call[t].inode, Blocks(call[t].size))
  BY DEF DelLookup
<1>2. PICK label \in {"set_size", "del_data"} : Goto(t, label, loc[t])
  BY DEF DelLookup
<1>3. pc'[t] = label /\ Alone(t)
  BY <1>1, <1>2, GotoEffect DEF Alone, TypeInv
<1>4. Modifies(call[t].op)
  BY <1>1, ThreadTypes DEF ControlAt, MakesTrip, Growing, Linking, Copying, Cutting, Modifies
<1>5. \A e \in lookup : e \in lookup' \/ Owns(t, e.inode)
  BY <1>1, <1>4 DEF EntriesFrom, Entries, Owns
<1> QED
  BY <1>1, <1>3, <1>5, FrameContent DEF Linking

\* A block that goes is in nobody else's hands and in no file.
LEMMA DelDataContent ==
    ASSUME TypeInv, LinkInv, ContentInv, NEW t \in Threads, DelData(t)
    PROVE  ContentInv'
<1>1. PICK d \in loc[t].gone, label \in {"set_size", "del_data"} :
          /\ data' = [x \in DOMAIN data \ {d} |-> data[x]]
          /\ \E l : Goto(t, label, l)
  BY DEF DelData
<1>2. pc[t] = "del_data" /\ UNCHANGED <<lookup, call>>
  BY DEF DelData
<1>3. pc'[t] = label /\ Alone(t)
  BY <1>1, <1>2, GotoEffect DEF Alone, TypeInv
<1>4. d \in Removing(t)
  BY <1>2 DEF Removing
<1>5. \A e \in lookup : data'[e.id] = data[e.id]
  BY <1>1, <1>4 DEF LinkInv, NoDangling, RemovingOwned, Linked
<1>6. \A u \in Threads : \A x \in Pending(u) : data'[x] = data[x]
  BY <1>1, <1>4 DEF LinkInv, PendingOwned, RemovingOwned
<1> QED
  BY <1>2, <1>3, <1>5, <1>6, FrameContent DEF Linking

\* A new request holds no block.
LEMMA StartContent ==
    ASSUME TypeInv, LinkInv, ContentInv, NEW t \in Threads, Start(t)
    PROVE  ContentInv'
<1>1. CASE BeginCreate(t) \/ BeginWrite(t) \/ BeginRead(t) \/ BeginTruncate(t)
  <2>1. PICK label \in {"new_data", "find_md"} : \E c, n : Begin(t, label, c, n)
    BY <1>1 DEF BeginCreate, BeginWrite, SendWrite, BeginRead, SendRead, BeginTruncate, SendTruncate
  <2>2. /\ UNCHANGED <<lookup, data>>  /\ \A u \in Threads \ {t} : call'[u] = call[u]
        /\ \E l : Goto(t, label, l)
    BY <2>1 DEF Begin, store, TypeInv, TypeOK
  <2> QED
    BY <2>1, <2>2, QuietContent DEF Linking
<1>2. CASE OpenTrunc(t) \/ Fallocate(t)
  BY <1>2, StutterContent DEF OpenTrunc, Fallocate, store, threads
<1>3. CASE TruncateByPath(t)
  BY <1>3, DieContent DEF TruncateByPath
<1> QED
  BY <1>1, <1>2, <1>3 DEF Start

\* A call that returns holds no block.
LEMMA ReplyContent ==
    ASSUME TypeInv, LinkInv, ContentInv, NEW t \in Threads, Reply(t)
    PROVE  ContentInv'
<1>1. /\ UNCHANGED <<lookup, data>>  /\ \A u \in Threads \ {t} : call'[u] = call[u]
      /\ Goto(t, "idle", NoLocals)
  BY DEF Reply, store, TypeInv, TypeOK
<1> QED
  BY <1>1, QuietContent DEF Linking

-----------------------------------------------------------------------------
(* The invariant, and what it is for.                                        *)

\* Every step of a thread preserves ContentInv.
LEMMA StepContent ==
    ASSUME TypeInv, LinkInv, SizedOK, ContentInv, NEW t \in Threads, Step(t)
    PROVE  ContentInv'
<1>1. CASE PipeFails(t) \/ NewDataClash(t) \/ InsertMdClash(t) \/ FindLookupFails(t) \/ FindDataFails(t)
  BY <1>1, DieContent DEF PipeFails, NewDataClash, InsertMdClash, FindLookupFails, FindDataFails, Abort
<1> QED
  BY <1>1, LocalContent, NewDataContent, MaxOrderContent, NewLookupContent, FindDataForWriteContent,
     UpdateDataContent, DelLookupContent, DelDataContent, ReplyContent DEF Step

\* Every step of the specification preserves ContentInv.
LEMMA ContentInvInductive == TypeInv /\ LinkInv /\ SizedOK /\ ContentInv /\ [Next]_vars => ContentInv'
<1> SUFFICES ASSUME TypeInv, LinkInv, SizedOK, ContentInv, [Next]_vars PROVE ContentInv'
  OBVIOUS
<1>1. CASE \E t \in Threads : Start(t) \/ Step(t)
  BY <1>1, StartContent, StepContent
<1>2. CASE Kill
  BY <1>2, DieContent DEF Kill
<1>3. CASE Mount
  BY <1>3, StutterContent DEF Mount, store, threads
<1>4. CASE UNCHANGED vars
  BY <1>4, StutterContent DEF vars
<1> QED
  BY <1>1, <1>2, <1>3, <1>4 DEF Next

\* Between the read of a block and its replacement no other call touches it, and
\* a block stays zeroed until its lookup document is there.
THEOREM ContentInvHolds == Spec => []ContentInv
<1>1. Init => ContentInv
  BY DEF Init, ContentInv, FreshOK, PatchedOK, Linking
<1>2. CoverInv => SizedOK
  BY DEF CoverInv
<1> QED
  BY <1>1, <1>2, TypeInvHolds, LinkInvHolds, CoverInvHolds, ContentInvInductive, PTL DEF Spec

\* A byte of a file changes only in a write with a buffer for its position, and a
\* block that joins a file is all zeros: no write undoes another one that fell
\* between its find and its update of the block, and no file shows bytes that
\* were another's.
THEOREM WritesStayInRangeHolds == Spec => WritesStayInRange
<1>1. TypeInv /\ LinkInv /\ ContentInv /\ [Next]_vars => [ChangesOnlyInRange]_vars
  <2> SUFFICES ASSUME TypeInv, LinkInv, ContentInv, Next, NEW e \in lookup', NEW q \in Positions
               PROVE  \/ e \in lookup  /\ data'[e.id][q] = data[e.id][q]
                      \/ e \notin lookup  /\ data'[e.id][q] = Zero
                      \/ \E t \in Threads : /\ call[t].op = "write"  /\ call[t].inode = e.inode
                                            /\ InBuffer(call[t], e, q)
    BY DEF ChangesOnlyInRange, InBuffer
  <2>1. CASE lookup' \subseteq lookup /\ UNCHANGED data
    BY <2>1
  <2>2. ASSUME NEW t \in Threads, NewData(t) PROVE e \in lookup /\ data'[e.id] = data[e.id]
    <3>1. PICK d \in DataIds \ DOMAIN data :
              data' = [x \in DOMAIN data \cup {d} |-> IF x = d THEN ZeroBlock ELSE data[x]]
      BY <2>2 DEF NewData
    <3>2. e \in lookup
      BY <2>2 DEF NewData
    <3> QED
      BY <3>1, <3>2 DEF LinkInv, NoDangling
  <2>3. ASSUME NEW t \in Threads, DelData(t) PROVE e \in lookup /\ data'[e.id] = data[e.id]
    <3>1. PICK d \in Removing(t) : data' = [x \in DOMAIN data \ {d} |-> data[x]]
      BY <2>3 DEF DelData, Removing
    <3>2. e \in lookup
      BY <2>3 DEF DelData
    <3> QED
      BY <3>1, <3>2 DEF LinkInv, NoDangling, RemovingOwned, Linked
  <2>4. ASSUME NEW t \in Threads, NewLookup(t)
        PROVE  UNCHANGED data /\ (e \in lookup \/ data[e.id] = ZeroBlock)
    <3>1. /\ pc[t] = "new_lookup"  /\ UNCHANGED data
          /\ lookup' = lookup \cup {[inode |-> call[t].inode, order |-> loc[t].order, id |-> loc[t].id]}
      BY <2>4 DEF NewLookup
    <3>2. data[loc[t].id] = ZeroBlock
      BY <3>1 DEF ContentInv, FreshOK, Linking
    <3> QED
      BY <3>1, <3>2
  <2>5. ASSUME NEW t \in Threads, UpdateData(t)
        PROVE  /\ e \in lookup
               /\ \/ data'[e.id][q] = data[e.id][q]
                  \/ call[t].op = "write" /\ call[t].inode = e.inode /\ InBuffer(call[t], e, q)
    <3>1. /\ pc[t] = "update_data"  /\ e \in lookup
          /\ data' = [d \in DOMAIN data |-> IF d = loc[t].id THEN loc[t].blk ELSE data[d]]
      BY <2>5 DEF UpdateData
    <3>2. call[t].op = "write"
      BY <3>1, ThreadTypes DEF ControlAt, MakesTrip, Growing, Linking, Copying, Cutting
    <3>3. PICK f \in lookup : f.inode = call[t].inode /\ PutBackAt(call[t], loc[t], f)
      BY <3>1 DEF ContentInv, PatchedOK, Entries
    <3>4. e.id \in DOMAIN data /\ (e.id = loc[t].id => e = f)
      BY <3>1, <3>3 DEF PutBackAt, LinkInv, NoSharing, NoDangling
    <3> QED
      BY <3>1, <3>2, <3>3, <3>4 DEF PutBackAt
  <2>6. \/ lookup' \subseteq lookup /\ UNCHANGED data
        \/ \E t \in Threads : NewData(t) \/ DelData(t) \/ NewLookup(t) \/ UpdateData(t)
    <3>1. ASSUME NEW t \in Threads, Start(t) PROVE UNCHANGED <<lookup, data>>
      <4>1. CASE BeginCreate(t) \/ BeginWrite(t) \/ BeginRead(t) \/ BeginTruncate(t)
        BY <4>1 DEF BeginCreate, BeginWrite, SendWrite, BeginRead, SendRead, BeginTruncate, SendTruncate, Begin, store
      <4>2. CASE TruncateByPath(t) \/ OpenTrunc(t) \/ Fallocate(t)
        BY <4>2 DEF TruncateByPath, OpenTrunc, Fallocate, Die, store
      <4> QED
        BY <3>1, <4>1, <4>2 DEF Start
    <3>2. ASSUME NEW t \in Threads, Step(t),
                 ~(NewData(t) \/ DelData(t) \/ NewLookup(t) \/ UpdateData(t))
          PROVE  lookup' \subseteq lookup /\ UNCHANGED data
      <4>1. CASE PipeFails(t) \/ NewDataClash(t) \/ InsertMdClash(t) \/ FindLookupFails(t) \/ FindDataFails(t)
        BY <4>1 DEF PipeFails, NewDataClash, InsertMdClash, FindLookupFails, FindDataFails, Abort, Die, store
      <4>2. CASE DelLookup(t)
        BY <4>2 DEF DelLookup
      <4>3. CASE FindMdForWrite(t) \/ FindMdForRead(t) \/ FindMdForTruncate(t) \/ MaxOrder(t) \/ InsertMd(t)
        BY <4>3 DEF FindMdForWrite, FindMdForRead, FindMdForTruncate, MaxOrder, InsertMd, store
      <4>4. CASE FindLookup(t) \/ FindDataForWrite(t) \/ FindDataForRead(t) \/ SetSize(t) \/ FindIds(t) \/ Reply(t)
        BY <4>4 DEF FindLookup, FindDataForWrite, FindDataForRead, SetSize, FindIds, Reply, store
      <4> QED
        BY <3>2, <4>1, <4>2, <4>3, <4>4 DEF Step
    <3>3. Kill \/ Mount => UNCHANGED <<lookup, data>>
      BY DEF Kill, Mount, Die, store
    <3> QED
      BY <3>1, <3>2, <3>3 DEF Next
  <2>7. ZeroBlock[q] = Zero
    BY DEF ZeroBlock
  <2> QED
    BY <2>1, <2>2, <2>3, <2>4, <2>5, <2>6, <2>7
<1> QED
  BY <1>1, TypeInvHolds, LinkInvHolds, ContentInvHolds, PTL DEF Spec, WritesStayInRange

-----------------------------------------------------------------------------
(* The size the kernel has cached.                                           *)

\* A step of one thread leaves the others where they are, or the daemon dies.
LEMMA StepAlone ==
    ASSUME TypeInv, NEW t \in Threads, Start(t) \/ Step(t)
    PROVE  Alone(t) \/ Die
<1>1. ASSUME NEW label, NEW l, Goto(t, label, l), \A u \in Threads \ {t} : call'[u] = call[u]
      PROVE  Alone(t)
  BY <1>1, GotoEffect DEF Alone, TypeInv
<1>2. CASE TruncateByPath(t) \/ PipeFails(t) \/ NewDataClash(t) \/ InsertMdClash(t) \/ FindLookupFails(t)
           \/ FindDataFails(t)
  BY <1>2 DEF TruncateByPath, PipeFails, NewDataClash, InsertMdClash, FindLookupFails, FindDataFails, Abort
<1>3. CASE OpenTrunc(t) \/ Fallocate(t)
  BY <1>3 DEF OpenTrunc, Fallocate, threads, Alone
<1>4. CASE BeginCreate(t) \/ BeginWrite(t) \/ BeginRead(t) \/ BeginTruncate(t)
  <2>1. \E label, c, n : Begin(t, label, c, n)
    BY <1>4 DEF BeginCreate, BeginWrite, SendWrite, BeginRead, SendRead, BeginTruncate, SendTruncate
  <2>2. PICK label, l : Goto(t, label, l)
    BY <2>1 DEF Begin
  <2>3. \A u \in Threads \ {t} : call'[u] = call[u]
    BY <2>1 DEF Begin, TypeInv, TypeOK
  <2> QED
    BY <1>1, <2>2, <2>3
<1>5. CASE Reply(t)
  <2>1. Goto(t, "idle", NoLocals) /\ \A u \in Threads \ {t} : call'[u] = call[u]
    BY <1>5 DEF Reply, TypeInv, TypeOK
  <2> QED
    BY <1>1, <2>1
<1>6. CASE \/ FindMdForWrite(t) \/ FindMdForRead(t) \/ FindMdForTruncate(t) \/ NewData(t) \/ MaxOrder(t)
           \/ NewLookup(t) \/ InsertMd(t) \/ FindLookup(t) \/ FindDataForWrite(t) \/ FindDataForRead(t)
           \/ UpdateData(t) \/ SetSize(t) \/ FindIds(t) \/ DelLookup(t) \/ DelData(t)
  <2>1. UNCHANGED call
    BY <1>6 DEF FindMdForWrite, FindMdForRead, FindMdForTruncate, NewData, MaxOrder, NewLookup, InsertMd,
                FindLookup, FindDataForWrite, FindDataForRead, UpdateData, SetSize, FindIds, DelLookup, DelData
  <2>2. \E label, l : Goto(t, label, l)
    <3>1. CASE FindMdForWrite(t) \/ FindMdForRead(t) \/ FindMdForTruncate(t) \/ NewData(t) \/ MaxOrder(t)
      BY <3>1 DEF FindMdForWrite, FindMdForRead, FindMdForTruncate, NewData, MaxOrder
    <3>2. CASE NewLookup(t) \/ InsertMd(t) \/ FindLookup(t) \/ FindDataForWrite(t) \/ FindDataForRead(t)
      BY <3>2 DEF NewLookup, InsertMd, FindLookup, FindDataForWrite, FindDataForRead
    <3>3. CASE UpdateData(t) \/ SetSize(t) \/ FindIds(t) \/ DelLookup(t) \/ DelData(t)
      BY <3>3 DEF UpdateData, SetSize, FindIds, DelLookup, DelData
    <3> QED
      BY <1>6, <3>1, <3>2, <3>3
  <2> QED
    BY <1>1, <2>1, <2>2
<1> QED
  BY <1>2, <1>3, <1>4, <1>5, <1>6 DEF Start, Step

\* Only two round trips write fs_metadata.
LEMMA SizeSteps ==
    ASSUME NEW t \in Threads, Start(t) \/ Step(t)
    PROVE  UNCHANGED md \/ InsertMd(t) \/ SetSize(t)
  BY DEF Start, Step, BeginCreate, BeginWrite, SendWrite, BeginRead, SendRead, BeginTruncate, SendTruncate, Begin, TruncateByPath,
         OpenTrunc, Fallocate, FindMdForWrite, PipeFails, FindMdForRead, FindMdForTruncate, NewData,
         NewDataClash, MaxOrder, NewLookup, InsertMdClash, FindLookup, FindLookupFails,
         FindDataForWrite, FindDataForRead, FindDataFails, UpdateData, FindIds, DelLookup, DelData,
         Reply, Abort, Die, store

\* A step of one thread leaves the sizes of the files alone that it holds no
\* lock on.
LEMMA OthersSizes ==
    ASSUME TypeInv, NEW t \in Threads, Start(t) \/ Step(t), NEW i \in DOMAIN md
    PROVE  i \in DOMAIN md' /\ (Owns(t, i) \/ md'[i] = md[i])
<1>1. CASE InsertMd(t)
  BY <1>1 DEF InsertMd
<1>2. CASE SetSize(t)
  <2>1. pc[t] = "set_size" /\ md' = [md EXCEPT ![call[t].inode] = loc[t].cur]
    BY <1>2 DEF SetSize
  <2>2. Modifies(call[t].op)
    BY <2>1, ThreadTypes DEF ControlAt, MakesTrip, Growing, Linking, Copying, Cutting, Modifies
  <2> QED
    BY <2>1, <2>2 DEF Owns
<1> QED
  BY <1>1, <1>2, SizeSteps

\* What the other threads have counted stays counted.
LEMMA OthersCounted ==
    ASSUME TypeInv, LinkInv, CountedOK, NEW t \in Threads, Start(t) \/ Step(t), Alone(t),
           CountedAt(call[t], pc[t], loc[t])'
    PROVE  CountedOK'
<1> SUFFICES ASSUME NEW u \in Threads \ {t} PROVE CountedAt(call[u], pc[u], loc[u])'
  BY DEF CountedOK
<1>1. call'[u] = call[u] /\ pc'[u] = pc[u] /\ loc'[u] = loc[u]
  BY DEF Alone
<1>2. CountedAt(call[u], pc[u], loc[u])
  BY DEF CountedOK
<1>3. Modifies(call[u].op) => md'[call[u].inode] = md[call[u].inode]
  <2> SUFFICES ASSUME Modifies(call[u].op) PROVE md'[call[u].inode] = md[call[u].inode]
    OBVIOUS
  <2>1. call[u].inode \in DOMAIN md
    BY ThreadTypes DEF ControlAt, Modifies
  <2>2. ~Owns(t, call[u].inode)
    BY DEF LinkInv, OneModifier, Owns
  <2> QED
    BY <2>1, <2>2, OthersSizes
<1> QED
  BY <1>1, <1>2, <1>3 DEF CountedAt, BufEnd, Modifies

\* A step that touches only the thread's local variables, or documents and blocks.
LEMMA LocalCounted ==
    ASSUME TypeInv, NEW t \in Threads, NEW label, NEW l, Goto(t, label, l), UNCHANGED <<md, call>>,
           CountedAt(call[t], label, l)
    PROVE  CountedAt(call[t], pc[t], loc[t])'
<1>1. pc'[t] = label /\ loc'[t] = l
  BY GotoEffect DEF TypeInv
<1> QED
  BY <1>1 DEF CountedAt, BufEnd

\* A write has one buffer and starts with nothing counted.
LEMMA FindMdForWriteCounted ==
    ASSUME TypeInv, CountedOK, NEW t \in Threads, FindMdForWrite(t)
    PROVE  CountedAt(call[t], pc[t], loc[t])'
<1> DEFINE c == call[t]
           s == [loc[t] EXCEPT !.cur = md[c.inode]]
           l == EnterBuffer(c, s, 1)
           label == GrowOr(l, "find_lookup")
<1>1. pc[t] = "find_md" /\ c.op = "write" /\ Goto(t, label, l) /\ UNCHANGED <<md, call>>
  BY DEF FindMdForWrite, store
<1>2. c \in RequestTypes /\ loc[t] \in LocalTypes
  BY ThreadTypes
<1>3. l.fp = c.off /\ l.total = loc[t].total
  BY <1>2 DEF EnterBuffer, LocalTypes
<1>4. label \in {"new_data", "find_lookup"}
  BY DEF GrowOr
<1>5. loc[t].total = 0 /\ Len(c.bufs) = 1 /\ c.off \in Nat
  BY <1>1, <1>2 DEF CountedOK, CountedAt, RequestTypes
<1> HIDE DEF label, l
<1>6. CountedAt(c, label, l)
  BY <1>1, <1>3, <1>4, <1>5 DEF CountedAt, Growing, Linking
<1> QED
  BY <1>1, <1>6, LocalCounted

\* A truncate that returns at once finds the size it asks for.
LEMMA FindMdForTruncateCounted ==
    ASSUME TypeInv, NEW t \in Threads, FindMdForTruncate(t)
    PROVE  CountedAt(call[t], pc[t], loc[t])'
<1>1. PICK label, l : Goto(t, label, l) /\ (label = "reply" => md[call[t].inode] = call[t].size)
  BY DEF FindMdForTruncate
<1>2. call[t].op = "truncate" /\ UNCHANGED <<md, call>>
  BY DEF FindMdForTruncate, store
<1>3. CountedAt(call[t], label, l)
  BY <1>1, <1>2 DEF CountedAt
<1> QED
  BY <1>1, <1>2, <1>3, LocalCounted

\* Adding blocks and looking one up counts nothing.
LEMMA GrowingCounted ==
    ASSUME TypeInv, CountedOK, NEW t \in Threads, NewData(t) \/ MaxOrder(t) \/ NewLookup(t) \/ FindLookup(t)
    PROVE  CountedAt(call[t], pc[t], loc[t])'
<1>1. PICK c : c = call[t]
  OBVIOUS
<1>2. c \in RequestTypes /\ loc[t] \in LocalTypes /\ MakesTrip(c.op, pc[t]) /\ CountedAt(c, pc[t], loc[t])
  BY <1>1, ThreadTypes DEF ControlAt, CountedOK
<1>3. UNCHANGED <<md, call>> /\ pc[t] \in Growing \cup {"find_lookup"}
  BY DEF NewData, MaxOrder, NewLookup, FindLookup, store, Growing, Linking
<1>4. ASSUME NEW label, NEW l, Goto(t, label, l), l.fp = loc[t].fp, l.total = loc[t].total,
             label \in Growing \cup {"insert_md", "find_lookup", "find_data", "set_size"},
             label \in Growing => pc[t] \in Growing, label = "set_size" => c.op = "truncate"
      PROVE  CountedAt(call[t], pc[t], loc[t])'
  <2>1. CountedAt(c, label, l)
    BY <1>2, <1>3, <1>4 DEF CountedAt, Growing, Linking
  <2> QED
    BY <1>1, <1>3, <1>4, <2>1, LocalCounted
<1>5. CASE NewData(t)
  <2>1. PICK d : Goto(t, "max_order", [loc[t] EXCEPT !.id = d])
    BY <1>5 DEF NewData
  <2>2. PICK l : l = [loc[t] EXCEPT !.id = d]
    OBVIOUS
  <2>3. Goto(t, "max_order", l) /\ l.fp = loc[t].fp /\ l.total = loc[t].total /\ pc[t] = "new_data"
    BY <1>2, <1>5, <2>1, <2>2 DEF LocalTypes, NewData
  <2> QED
    BY <1>4, <2>3 DEF Growing, Linking
<1>6. CASE MaxOrder(t)
  <2>1. PICK l : l = [loc[t] EXCEPT !.order = NextOrder(c.inode)]
    OBVIOUS
  <2>2. Goto(t, "new_lookup", l) /\ l.fp = loc[t].fp /\ l.total = loc[t].total /\ pc[t] = "max_order"
    BY <1>1, <1>2, <1>6, <2>1 DEF LocalTypes, MaxOrder
  <2> QED
    BY <1>4, <2>2 DEF Growing, Linking
<1>7. CASE NewLookup(t)
  <2>1. PICK l : l = [loc[t] EXCEPT !.id = NoId, !.order = 0, !.need = @ - 1]
    OBVIOUS
  <2>2. PICK label : label = GrowOr(l, AfterGrowth(c.op))
    OBVIOUS
  <2>3. pc[t] = "new_lookup" /\ Goto(t, label, l) /\ l.fp = loc[t].fp /\ l.total = loc[t].total
    BY <1>1, <1>2, <1>7, <2>1, <2>2 DEF NewLookup, LocalTypes
  <2>4. c.op \in {"create", "write", "truncate"}
    BY <1>2, <2>3 DEF MakesTrip, Copying, Cutting
  <2>5. label \in {"new_data", "insert_md", "find_lookup", "set_size"} /\ (label = "set_size" => c.op = "truncate")
    BY <2>2, <2>4 DEF GrowOr, AfterGrowth
  <2> QED
    BY <1>4, <2>3, <2>5 DEF Growing, Linking
<1>8. CASE FindLookup(t)
  <2>1. PICK d : Goto(t, "find_data", [loc[t] EXCEPT !.id = d])
    BY <1>8 DEF FindLookup
  <2>2. PICK l : l = [loc[t] EXCEPT !.id = d]
    OBVIOUS
  <2>3. Goto(t, "find_data", l) /\ l.fp = loc[t].fp /\ l.total = loc[t].total
    BY <1>2, <2>1, <2>2 DEF LocalTypes
  <2> QED
    BY <1>4, <2>3 DEF Growing, Linking
<1> QED
  BY <1>5, <1>6, <1>7, <1>8

\* A copied block counts for its bytes.
LEMMA FindDataForWriteCounted ==
    ASSUME TypeInv, SizedOK, CountedOK, NEW t \in Threads, FindDataForWrite(t)
    PROVE  CountedAt(call[t], pc[t], loc[t])'
<1>0. PICK c, fp, end, next :
          c = call[t] /\ fp = loc[t].fp /\ end = BufEnd(c, 1) /\ next = AfterBlock(fp, end)
  OBVIOUS
<1>1. pc[t] = "find_data" /\ c.op = "write" /\ UNCHANGED <<md, call>>
  BY <1>0 DEF FindDataForWrite, store
<1>2. c \in RequestTypes /\ loc[t] \in LocalTypes /\ loc[t].idx \in DOMAIN c.bufs /\ 1 \in DOMAIN c.bufs
  BY <1>0, <1>1, ThreadTypes DEF ControlAt
<1>3. Len(c.bufs) = 1 /\ fp = c.off + loc[t].total
  BY <1>0, <1>1 DEF CountedOK, CountedAt
<1>4. loc[t].idx = 1
  BY <1>2, <1>3 DEF RequestTypes
<1>5. PICK l : Goto(t, "update_data", l) /\ l.fp = next /\ l.total = loc[t].total + (next - fp)
  <2> DEFINE m == [loc[t] EXCEPT !.blk = Patch(data[loc[t].id], fp, c.off, c.bufs[1]),
                                 !.fp = next, !.total = @ + (next - fp)]
  <2>1. Goto(t, "update_data", m)
    BY <1>0, <1>4 DEF FindDataForWrite
  <2>2. m.fp = next /\ m.total = loc[t].total + (next - fp)
    BY <1>2 DEF LocalTypes
  <2> HIDE DEF m
  <2> QED
    BY <2>1, <2>2
<1>6. end \in Nat /\ fp \in Nat /\ loc[t].total \in Nat /\ c.off \in Nat
  BY <1>0, <1>2, EnterBufferTypes DEF LocalTypes, RequestTypes
<1>7. fp < end
  BY <1>0, <1>1, <1>4 DEF SizedOK, SizedAt, Copying, Growing, Linking
<1>8. next \in Nat /\ next <= end
  BY <1>0, <1>6, <1>7, AfterBlockBounds DEF Greatest
<1>9. l.fp = c.off + l.total
  BY <1>3, <1>5, <1>6, <1>8
<1>10. CountedAt(c, "update_data", l)
  BY <1>0, <1>1, <1>3, <1>5, <1>8, <1>9 DEF CountedAt, Growing, Linking
<1> QED
  BY <1>0, <1>1, <1>5, <1>10, LocalCounted

\* The block loop ends at the end of the buffer.
LEMMA UpdateDataCounted ==
    ASSUME TypeInv, CountedOK, NEW t \in Threads, UpdateData(t)
    PROVE  CountedAt(call[t], pc[t], loc[t])'
<1>0. PICK c, l : c = call[t] /\ l = [loc[t] EXCEPT !.id = NoId, !.blk = ZeroBlock]
  OBVIOUS
<1>1. pc[t] = "update_data" /\ UNCHANGED <<md, call>>
  BY DEF UpdateData
<1>2. c \in RequestTypes /\ loc[t] \in LocalTypes /\ c.op = "write" /\ loc[t].idx \in DOMAIN c.bufs
      /\ 1 \in DOMAIN c.bufs
  BY <1>0, <1>1, ThreadTypes DEF ControlAt, MakesTrip, Growing, Linking, Copying, Cutting
<1>3. Len(c.bufs) = 1 /\ loc[t].fp = c.off + loc[t].total /\ loc[t].fp <= BufEnd(c, 1)
  BY <1>0, <1>1, <1>2 DEF CountedOK, CountedAt
<1>4. l.idx = 1 /\ l.fp = loc[t].fp /\ l.total = loc[t].total
  BY <1>0, <1>2, <1>3 DEF RequestTypes, LocalTypes
<1>5. BufEnd(c, 1) \in Nat /\ l.fp \in Nat
  BY <1>2, <1>4, EnterBufferTypes DEF LocalTypes
<1>6. \/ Goto(t, "find_lookup", l)
      \/ Goto(t, "set_size", l) /\ l.fp >= BufEnd(c, 1)
  BY <1>0, <1>3, <1>4 DEF UpdateData
<1>7. CASE Goto(t, "find_lookup", l)
  <2>1. CountedAt(c, "find_lookup", l)
    BY <1>2, <1>3, <1>4 DEF CountedAt, Growing, Linking
  <2> QED
    BY <1>0, <1>1, <1>7, <2>1, LocalCounted
<1>8. CASE Goto(t, "set_size", l) /\ l.fp >= BufEnd(c, 1)
  <2>1. l.fp = BufEnd(c, 1)
    BY <1>3, <1>4, <1>5, <1>8
  <2>2. CountedAt(c, "set_size", l)
    BY <1>2, <1>3, <1>4, <2>1 DEF CountedAt, Growing, Linking
  <2> QED
    BY <1>0, <1>1, <1>8, <2>2, LocalCounted
<1> QED
  BY <1>6, <1>7, <1>8

\* The size stored reaches to the end of the write.
LEMMA SetSizeCounted ==
    ASSUME TypeInv, SizedOK, CountedOK, NEW t \in Threads, SetSize(t)
    PROVE  CountedAt(call[t], pc[t], loc[t])'
<1>0. PICK c, i, l : c = call[t] /\ i = c.inode /\ l = loc[t]
  OBVIOUS
<1>1. pc[t] = "set_size" /\ md' = [md EXCEPT ![i] = l.cur] /\ Goto(t, "reply", l) /\ call' = call
  BY <1>0 DEF SetSize
<1>2. c \in RequestTypes /\ l \in LocalTypes /\ c.op \in {"write", "truncate"} /\ i \in DOMAIN md
  BY <1>0, <1>1, ThreadTypes DEF ControlAt, MakesTrip, Growing, Linking, Copying, Cutting
<1>3. SizedAt(c, "set_size", l) /\ CountedAt(c, "set_size", l)
  BY <1>0, <1>1 DEF SizedOK, CountedOK
<1>4. md'[i] = l.cur
  BY <1>1, <1>2
<1>5. c.op = "write" => l.idx = 1
  BY <1>0, <1>1, <1>2, <1>3, ThreadTypes DEF ControlAt, CountedAt, RequestTypes
<1>6. pc'[t] = "reply" /\ loc'[t] = l
  BY <1>1, GotoEffect DEF TypeInv
<1>7. c.op = "write" => BufEnd(c, 1) <= md'[i]
  BY <1>3, <1>4, <1>5 DEF SizedAt
<1>8. c.op = "truncate" => md'[i] = c.size
  BY <1>3, <1>4 DEF SizedAt
<1> QED
  BY <1>0, <1>1, <1>2, <1>3, <1>6, <1>7, <1>8 DEF CountedAt, BufEnd, Growing, Linking


\* A request begins with nothing counted, in one buffer.
LEMMA BeginCounted ==
    ASSUME TypeInv, SingleBuffers, NEW t \in Threads,
           BeginCreate(t) \/ BeginWrite(t) \/ BeginRead(t) \/ BeginTruncate(t)
    PROVE  CountedAt(call[t], pc[t], loc[t])'
<1>1. ASSUME NEW label, NEW c, NEW n, Begin(t, label, c, n)
      PROVE  call'[t] = c /\ pc'[t] = label /\ loc'[t] = [NoLocals EXCEPT !.need = n]
  BY <1>1, GotoEffect DEF Begin, TypeInv, TypeOK
<1>2. CASE BeginWrite(t)
  <2>1. PICK i \in DOMAIN md, off \in Offsets, bufs \in BufVecs :
            Begin(t, "find_md", [NoCall EXCEPT !.op = "write", !.inode = i, !.off = off, !.bufs = bufs], 0)
    BY <1>2 DEF BeginWrite, SendWrite
  <2>2. PICK c : c = [NoCall EXCEPT !.op = "write", !.inode = i, !.off = off, !.bufs = bufs]
    OBVIOUS
  <2>3. c.op = "write" /\ c.bufs = bufs
    BY <2>2 DEF NoCall
  <2>4. call'[t] = c /\ pc'[t] = "find_md" /\ loc'[t] = [NoLocals EXCEPT !.need = 0]
    BY <1>1, <2>1, <2>2
  <2>5. loc'[t].total = 0
    BY <2>4 DEF NoLocals
  <2>6. Len(bufs) = 1
    BY DEF SingleBuffers
  <2> QED
    BY <2>3, <2>4, <2>5, <2>6 DEF CountedAt, Growing, Linking
<1>3. CASE BeginCreate(t) \/ BeginRead(t) \/ BeginTruncate(t)
  <2>1. PICK label, c, n : /\ Begin(t, label, c, n)
                           /\ c.op \in {"create", "read", "truncate"}  /\ label # "reply"
    <3>1. CASE BeginCreate(t)
      <4>1. PICK i \in Inodes : Begin(t, "new_data", [NoCall EXCEPT !.op = "create", !.inode = i], 1)
        BY <3>1 DEF BeginCreate
      <4>2. [NoCall EXCEPT !.op = "create", !.inode = i].op = "create"
        BY DEF NoCall
      <4> QED
        BY <4>1, <4>2
    <3>2. CASE BeginRead(t)
      <4>1. PICK i \in DOMAIN md, off \in Offsets, n \in ReadSizes :
              Begin(t, "find_md", [NoCall EXCEPT !.op = "read", !.inode = i, !.off = off, !.size = n], 0)
        BY <3>2 DEF BeginRead, SendRead
      <4>2. [NoCall EXCEPT !.op = "read", !.inode = i, !.off = off, !.size = n].op = "read"
        BY DEF NoCall
      <4> QED
        BY <4>1, <4>2
    <3>3. CASE BeginTruncate(t)
      <4>1. PICK i \in DOMAIN md, n \in NewSizes :
              Begin(t, "find_md", [NoCall EXCEPT !.op = "truncate", !.inode = i, !.size = n], 0)
        BY <3>3 DEF BeginTruncate, SendTruncate
      <4>2. [NoCall EXCEPT !.op = "truncate", !.inode = i, !.size = n].op = "truncate"
        BY DEF NoCall
      <4> QED
        BY <4>1, <4>2
    <3> QED
      BY <1>3, <3>1, <3>2, <3>3
  <2>2. call'[t] = c /\ pc'[t] = label
    BY <1>1, <2>1
  <2> QED
    BY <2>1, <2>2 DEF CountedAt
<1> QED
  BY <1>2, <1>3

\* Nothing is counted by a read, a create, the deletions of a truncate, or a call that is over.
LEMMA UncountedSteps ==
    ASSUME TypeInv, NEW t \in Threads,
           \/ FindMdForRead(t) \/ FindDataForRead(t) \/ InsertMd(t)
           \/ FindIds(t) \/ DelLookup(t) \/ DelData(t) \/ Reply(t)
    PROVE  CountedAt(call[t], pc[t], loc[t])'
<1>1. MakesTrip(call[t].op, pc[t])
  BY ThreadTypes DEF ControlAt
<1>2. CASE FindMdForRead(t) \/ FindDataForRead(t) \/ InsertMd(t)
  <2>1. call' = call /\ call[t].op \in {"read", "create"}
    BY <1>1, <1>2 DEF FindMdForRead, FindDataForRead, InsertMd, MakesTrip, Growing, Linking, Copying, Cutting
  <2> QED
    BY <2>1 DEF CountedAt
<1>3. CASE FindIds(t) \/ DelLookup(t) \/ DelData(t)
  <2>1. call' = call /\ pc[t] \in Cutting
    BY <1>3 DEF FindIds, DelLookup, DelData, Cutting
  <2>2. call[t].op = "truncate"
    BY <1>1, <2>1 DEF MakesTrip, Growing, Linking, Copying, Cutting
  <2>3. \E label, l : Goto(t, label, l) /\ label # "reply"
    <3>1. CASE FindIds(t)
      BY <3>1 DEF FindIds
    <3>2. CASE DelLookup(t)
      <4>1. Goto(t, IF loc[t].gone = {} THEN "set_size" ELSE "del_data", loc[t])
        BY <3>2 DEF DelLookup
      <4> QED
        BY <4>1
    <3>3. CASE DelData(t)
      <4>1. PICK d, l : Goto(t, IF loc[t].gone = {d} THEN "set_size" ELSE "del_data", l)
        BY <3>3 DEF DelData
      <4> QED
        BY <4>1
    <3> QED
      BY <1>3, <3>1, <3>2, <3>3
  <2>4. pc'[t] # "reply"
    BY <2>3, GotoEffect DEF TypeInv
  <2> QED
    BY <2>1, <2>2, <2>4 DEF CountedAt
<1>4. CASE Reply(t)
  <2>1. call'[t] = NoCall
    BY <1>4 DEF Reply, TypeInv, TypeOK
  <2> QED
    BY <2>1 DEF CountedAt, NoCall
<1> QED
  BY <1>2, <1>3, <1>4

\* When the daemon dies nothing is being counted, and no size is cached.
LEMMA DieKernel ==
    ASSUME Die
    PROVE  KernelInv'
  BY DEF Die, KernelInv, CountedOK, CountedAt, AbsentEmpty, KernelSizeInside, NoCall

LEMMA CountedStep ==
    ASSUME TypeInv, LinkInv, SizedOK, CountedOK, SingleBuffers, NEW t \in Threads, Start(t) \/ Step(t), Alone(t),
           ~Die
    PROVE  CountedOK'
<1>1. CASE BeginCreate(t) \/ BeginWrite(t) \/ BeginRead(t) \/ BeginTruncate(t)
  BY <1>1, BeginCounted, OthersCounted
<1>2. CASE OpenTrunc(t) \/ Fallocate(t)
  BY <1>2 DEF OpenTrunc, Fallocate, store, threads, CountedOK, CountedAt, BufEnd
<1>3. CASE Step(t)
  BY <1>3, FindMdForWriteCounted, FindMdForTruncateCounted, GrowingCounted, FindDataForWriteCounted,
     UpdateDataCounted, SetSizeCounted, UncountedSteps, OthersCounted
     DEF Step, PipeFails, NewDataClash, InsertMdClash, FindLookupFails, FindDataFails, Abort
<1> QED
  BY <1>1, <1>2, <1>3 DEF Start, TruncateByPath


\* The three kinds of step that leave a file no longer in the kernel's eyes
\* than it was: nothing changes, a new document, a new size.
LEMMA KernelUnmoved ==
    ASSUME TypeInv, SizedOK, AbsentEmpty, KernelSizeInside, NEW t \in Threads, Alone(t), UNCHANGED <<isize, up>>,
           call[t].op = "truncate" => call'[t] = call[t],
           UNCHANGED md \/ InsertMd(t) \/ SetSize(t)
    PROVE  (AbsentEmpty /\ KernelSizeInside)'
<1>1. ASSUME NEW u \in Threads, call[u].op = "truncate"
      PROVE  call'[u] = call[u]
  BY <1>1 DEF Alone
<1>2. CASE UNCHANGED md
  <2>1. AbsentEmpty'
    BY <1>2 DEF AbsentEmpty
  <2>2. KernelSizeInside'
    <3> SUFFICES ASSUME NEW i \in DOMAIN md, up, isize[i] > md[i]
                 PROVE  isize[i] \in AllocSizes \/ \E u \in Threads : call'[u].op = "truncate" /\ call'[u].inode = i
      BY <1>2 DEF KernelSizeInside
    <3> QED
      BY <1>1 DEF KernelSizeInside
  <2> QED
    BY <2>1, <2>2
<1>3. CASE InsertMd(t)
  <2>1. /\ md' = [i \in DOMAIN md \cup {call[t].inode} |-> IF i = call[t].inode THEN 0 ELSE md[i]]
        /\ call[t].inode \notin DOMAIN md
    BY <1>3 DEF InsertMd
  <2>2. AbsentEmpty'
    BY <2>1 DEF AbsentEmpty
  <2>3. call[t].inode \in Inodes
    BY <1>3, ThreadTypes DEF InsertMd, ControlAt
  <2>4. KernelSizeInside'
    <3> SUFFICES ASSUME NEW i \in DOMAIN md', up, isize[i] > md'[i]
                 PROVE  isize[i] \in AllocSizes \/ \E u \in Threads : call'[u].op = "truncate" /\ call'[u].inode = i
      BY DEF KernelSizeInside
    <3>1. CASE i = call[t].inode
      <4>1. isize[i] = 0 /\ md'[i] = 0
        BY <2>1, <2>3, <3>1 DEF AbsentEmpty
      <4> QED
        BY <4>1
    <3>2. CASE i # call[t].inode
      <4>1. i \in DOMAIN md /\ md'[i] = md[i]
        BY <2>1, <3>2
      <4> QED
        BY <1>1, <4>1 DEF KernelSizeInside
    <3> QED
      BY <3>1, <3>2
  <2> QED
    BY <2>2, <2>4
<1>4. CASE SetSize(t)
  <2>1. pc[t] = "set_size" /\ md' = [md EXCEPT ![call[t].inode] = loc[t].cur] /\ call' = call
    BY <1>4 DEF SetSize
  <2>2. call[t].op \in {"write", "truncate"} /\ call[t].inode \in DOMAIN md
    BY <2>1, ThreadTypes DEF ControlAt, MakesTrip, Growing, Linking, Copying, Cutting
  <2>3. call[t].op = "write" => md[call[t].inode] <= loc[t].cur
    BY <2>1 DEF SizedOK, SizedAt
  <2>4. AbsentEmpty'
    BY <2>1 DEF AbsentEmpty
  <2>5. KernelSizeInside'
    <3> SUFFICES ASSUME NEW i \in DOMAIN md, up, isize[i] > md'[i]
                 PROVE  isize[i] \in AllocSizes \/ \E u \in Threads : call[u].op = "truncate" /\ call[u].inode = i
      BY <2>1 DEF KernelSizeInside
    <3>0. isize[i] \in Nat /\ md[i] \in Nat /\ loc[t].cur \in Nat
      BY ThreadTypes DEF TypeInv, TypeOK, LocalTypes
    <3>1. CASE i = call[t].inode /\ call[t].op = "write"
      <4>1. isize[i] > md[i]
        BY <2>1, <2>2, <2>3, <3>0, <3>1
      <4> QED
        BY <4>1 DEF KernelSizeInside
    <3>2. CASE i # call[t].inode
      BY <2>1, <3>2 DEF KernelSizeInside
    <3>3. CASE i = call[t].inode /\ call[t].op = "truncate"
      BY <3>3
    <3> QED
      BY <2>2, <3>1, <3>2, <3>3
  <2> QED
    BY <2>4, <2>5
<1> QED
  BY <1>2, <1>3, <1>4

\* A reply: what the kernel takes over is stored.
LEMMA ReplyKernel ==
    ASSUME TypeInv, LinkInv, KernelInv, NEW t \in Threads, Reply(t)
    PROVE  (AbsentEmpty /\ KernelSizeInside)'
<1>0. PICK c, i : c = call[t] /\ i = c.inode
  OBVIOUS
<1>1. pc[t] = "reply" /\ UNCHANGED <<md, up>> /\ call' = [call EXCEPT ![t] = NoCall]
  BY DEF Reply, store, daemon
<1>2. c \in RequestTypes /\ loc[t] \in LocalTypes /\ c.op \in {"create", "write", "read", "truncate"}
      /\ (Modifies(c.op) => i \in DOMAIN md)
  BY <1>0, <1>1, ThreadTypes DEF ControlAt, MakesTrip, Growing, Linking, Copying, Cutting, Modifies
<1>3. CountedAt(c, "reply", loc[t])
  BY <1>0, <1>1 DEF KernelInv, CountedOK
<1>4. \A u \in Threads \ {t} : call'[u] = call[u]
  BY <1>1 DEF TypeInv, TypeOK
<1>5. \/ ~Modifies(c.op) /\ isize' = isize
      \/ c.op = "write" /\ isize' = [isize EXCEPT ![i] = Greatest(@, c.off + loc[t].total)]
      \/ c.op = "truncate" /\ isize' = [isize EXCEPT ![i] = c.size]
  BY <1>0, <1>2 DEF Reply, Modifies
<1>6. ASSUME NEW j \in Inodes, ~Modifies(c.op) \/ j # i
      PROVE  isize'[j] = isize[j]
  BY <1>5, <1>6 DEF TypeInv, TypeOK, Modifies
<1>7. AbsentEmpty'
  BY <1>1, <1>2, <1>6 DEF AbsentEmpty, KernelInv
<1>8. KernelSizeInside'
  <2> SUFFICES ASSUME NEW j \in DOMAIN md, up, isize'[j] > md[j]
               PROVE  isize'[j] \in AllocSizes \/ \E u \in Threads : call'[u].op = "truncate" /\ call'[u].inode = j
    BY <1>1 DEF KernelSizeInside
  <2>0. j \in Inodes /\ isize[j] \in Nat /\ md[j] \in Nat
    BY DEF TypeInv, TypeOK
  <2>1. CASE ~Modifies(c.op) \/ j # i
    <3>1. isize[j] > md[j] /\ isize'[j] = isize[j]
      BY <1>6, <2>0, <2>1
    <3>2. isize[j] \in AllocSizes \/ \E u \in Threads : call[u].op = "truncate" /\ call[u].inode = j
      BY <3>1 DEF KernelInv, KernelSizeInside
    <3>3. ~(call[t].op = "truncate" /\ call[t].inode = j)
      BY <1>0, <2>1 DEF Modifies
    <3> QED
      BY <1>4, <3>1, <3>2, <3>3
  <2>2. CASE c.op = "write" /\ j = i
    <3>1. c.off + loc[t].total <= md[j]
      BY <1>0, <1>3, <2>2 DEF CountedAt
    <3>2. isize'[j] = Greatest(isize[j], c.off + loc[t].total)
      BY <1>5, <2>0, <2>2 DEF TypeInv, TypeOK, Modifies
    <3>3. c.off + loc[t].total \in Nat
      BY <1>2 DEF RequestTypes, LocalTypes
    <3>4. isize[j] > md[j] /\ isize'[j] = isize[j]
      BY <2>0, <3>1, <3>2, <3>3 DEF Greatest
    <3>5. isize[j] \in AllocSizes \/ \E u \in Threads : call[u].op = "truncate" /\ call[u].inode = j
      BY <3>4 DEF KernelInv, KernelSizeInside
    <3>6. call[t].op # "truncate"
      BY <1>0, <2>2
    <3> QED
      BY <1>4, <3>4, <3>5, <3>6
  <2>3. CASE c.op = "truncate" /\ j = i
    <3>1. md[j] = c.size
      BY <1>0, <1>3, <2>3 DEF CountedAt
    <3>2. isize'[j] = c.size
      BY <1>5, <2>0, <2>3 DEF TypeInv, TypeOK, Modifies
    <3> QED
      BY <2>0, <3>1, <3>2
  <2> QED
    BY <2>1, <2>2, <2>3 DEF Modifies
<1> QED
  BY <1>7, <1>8

\* An open with O_TRUNC and a fallocate change what the kernel believes, and nothing else.
LEMMA OpenKernel ==
    ASSUME TypeInv, KernelInv, NEW t \in Threads, OpenTrunc(t) \/ Fallocate(t)
    PROVE  (AbsentEmpty /\ KernelSizeInside)'
<1>1. UNCHANGED <<md, up, call>>
  BY DEF OpenTrunc, Fallocate, store, daemon, threads
<1>2. PICK i \in DOMAIN md, n \in AllocSizes \cup {0} : isize' = [isize EXCEPT ![i] = n]
  BY DEF OpenTrunc, Fallocate
<1>3. \A j \in Inodes : isize'[j] = IF j = i THEN n ELSE isize[j]
  BY <1>2 DEF TypeInv, TypeOK
<1>4. AbsentEmpty'
  BY <1>1, <1>3 DEF AbsentEmpty, KernelInv
<1>5. \A j \in DOMAIN md : j \in Inodes /\ md[j] \in Nat
  BY DEF TypeInv, TypeOK
<1>6. KernelSizeInside'
  <2> SUFFICES ASSUME NEW j \in DOMAIN md, up, isize'[j] > md[j]
               PROVE  isize'[j] \in AllocSizes \/ \E u \in Threads : call[u].op = "truncate" /\ call[u].inode = j
    BY <1>1 DEF KernelSizeInside
  <2> QED
    BY <1>2, <1>3, <1>5 DEF KernelInv, KernelSizeInside
<1> QED
  BY <1>4, <1>6

\* One step of the daemon, of the kernel or of a thread.
LEMMA KernelInvInductive ==
    ASSUME SingleBuffers
    PROVE  TypeInv /\ LinkInv /\ SizedOK /\ KernelInv /\ [Next]_vars => KernelInv'
<1> SUFFICES ASSUME TypeInv, LinkInv, SizedOK, KernelInv, [Next]_vars PROVE KernelInv'
  OBVIOUS
<1>1. ASSUME NEW t \in Threads, Start(t) \/ Step(t), ~Die
      PROVE  KernelInv'
  <2>1. Alone(t)
    BY <1>1, StepAlone
  <2>2. CountedOK'
    BY <1>1, <2>1, CountedStep DEF KernelInv
  <2>3. CASE Reply(t)
    BY <2>2, <2>3, ReplyKernel DEF KernelInv
  <2>4. CASE OpenTrunc(t) \/ Fallocate(t)
    BY <2>2, <2>4, OpenKernel DEF KernelInv
  <2>5. CASE BeginCreate(t) \/ BeginWrite(t) \/ BeginRead(t) \/ BeginTruncate(t)
    <3>1. pc[t] = "idle" /\ UNCHANGED <<md, isize, up>>
      BY <2>5 DEF BeginCreate, BeginWrite, SendWrite, BeginRead, SendRead, BeginTruncate, SendTruncate, Begin, store, daemon
    <3>2. call[t].op # "truncate"
      BY <3>1, ThreadTypes DEF ControlAt, MakesTrip, Growing, Linking, Cutting
    <3> QED
      BY <2>1, <2>2, <3>1, <3>2, KernelUnmoved DEF KernelInv
  <2>6. CASE Step(t) /\ ~Reply(t)
    <3>1. UNCHANGED <<isize, up, call>>
      BY <1>1, <2>6 DEF Step, FindMdForWrite, FindMdForRead, FindMdForTruncate, NewData, MaxOrder, NewLookup,
         InsertMd, FindLookup, FindDataForWrite, FindDataForRead, UpdateData, SetSize, FindIds, DelLookup,
         DelData, PipeFails, NewDataClash, InsertMdClash, FindLookupFails, FindDataFails, Abort, daemon
    <3> QED
      BY <2>1, <2>2, <2>6, <3>1, SizeSteps, KernelUnmoved DEF KernelInv
  <2> QED
    BY <1>1, <2>3, <2>4, <2>5, <2>6 DEF Start, TruncateByPath
<1>2. CASE Die
  BY <1>2, DieKernel
<1>3. CASE Mount
  <2>1. UNCHANGED <<md, pc, call, loc>> /\ isize' = [i \in Inodes |-> IF i \in DOMAIN md THEN md[i] ELSE 0]
    BY <1>3 DEF Mount, store, threads
  <2>2. CountedOK'
    BY <2>1 DEF KernelInv, CountedOK, CountedAt, BufEnd
  <2>3. AbsentEmpty'
    BY <2>1 DEF AbsentEmpty
  <2>4. \A i \in DOMAIN md : i \in Inodes /\ md[i] \in Nat
    BY DEF TypeInv, TypeOK
  <2>5. KernelSizeInside'
    BY <2>1, <2>4 DEF KernelSizeInside
  <2> QED
    BY <2>2, <2>3, <2>5 DEF KernelInv
<1>4. CASE UNCHANGED vars
  BY <1>4 DEF vars, KernelInv, CountedOK, CountedAt, BufEnd, AbsentEmpty, KernelSizeInside
<1> QED
  BY <1>1, <1>2, <1>3, <1>4 DEF Next, Kill

LEMMA KernelInvInitial == Init => KernelInv
  BY DEF Init, KernelInv, CountedOK, CountedAt, NoCall, AbsentEmpty, KernelSizeInside

\* Calls whose buffers come one at a time count what they have stored.
THEOREM KernelInvHolds == ASSUME SingleBuffers PROVE Spec => []KernelInv
<1>1. TypeInv /\ LinkInv /\ SizedOK /\ KernelInv /\ [Next]_vars => KernelInv'
  BY KernelInvInductive
<1>2. CoverInv => SizedOK
  BY DEF CoverInv
<1> QED
  BY <1>1, <1>2, KernelInvInitial, TypeInvHolds, LinkInvHolds, CoverInvHolds, PTL DEF Spec

\* The kernel never takes a file for longer than its metadata says, unless
\* fallocate told it so or a truncate of it is under way: the size the kernel
\* adds up from the replies of write_buf is within the one write_buf stored.
THEOREM KernelSizeInsideHolds == ASSUME SingleBuffers PROVE Spec => []KernelSizeInside
<1>1. KernelInv => KernelSizeInside
  BY DEF KernelInv
<1> QED
  BY <1>1, KernelInvHolds, PTL


-----------------------------------------------------------------------------
(* What a write has stored stays stored while it goes on.                    *)

\* A step of one thread leaves the blocks of the files alone that it holds no
\* lock on.
LEMMA OthersBlocks ==
    ASSUME TypeInv, LinkInv, ContentInv, NEW t \in Threads, Start(t) \/ Step(t), NEW e \in lookup
    PROVE  (e \in lookup' /\ data'[e.id] = data[e.id]) \/ Owns(t, e.inode)
<1>0. e.id \in DOMAIN data /\ \A f \in lookup : f.id = e.id => f = e
  BY DEF LinkInv, NoDangling, NoSharing
<1>1. CASE NewData(t)
  <2>1. PICK d \in DataIds \ DOMAIN data :
            data' = [x \in DOMAIN data \cup {d} |-> IF x = d THEN ZeroBlock ELSE data[x]]
    BY <1>1 DEF NewData
  <2>2. lookup' = lookup
    BY <1>1 DEF NewData
  <2> QED
    BY <1>0, <2>1, <2>2
<1>2. CASE NewLookup(t)
  BY <1>2 DEF NewLookup
<1>3. CASE UpdateData(t)
  <2>1. /\ pc[t] = "update_data"  /\ lookup' = lookup
        /\ data' = [x \in DOMAIN data |-> IF x = loc[t].id THEN loc[t].blk ELSE data[x]]
    BY <1>3 DEF UpdateData
  <2>2. PICK f \in lookup : f.inode = call[t].inode /\ f.id = loc[t].id
    BY <2>1 DEF ContentInv, PatchedOK, PutBackAt, Entries
  <2>3. Modifies(call[t].op)
    BY <2>1, ThreadTypes DEF ControlAt, MakesTrip, Growing, Linking, Copying, Cutting, Modifies
  <2>4. e.id = loc[t].id => Owns(t, e.inode)
    BY <1>0, <2>2, <2>3 DEF Owns
  <2>5. e.id # loc[t].id => data'[e.id] = data[e.id]
    BY <1>0, <2>1
  <2> QED
    BY <2>1, <2>4, <2>5
<1>4. CASE DelLookup(t)
  <2>1. /\ pc[t] = "del_lookup"  /\ data' = data
        /\ lookup' = lookup \ EntriesFrom(call[t].inode, Blocks(call[t].size))
    BY <1>4 DEF DelLookup
  <2>2. Modifies(call[t].op)
    BY <2>1, ThreadTypes DEF ControlAt, MakesTrip, Growing, Linking, Copying, Cutting, Modifies
  <2> QED
    BY <2>1, <2>2 DEF EntriesFrom, Entries, Owns
<1>5. CASE DelData(t)
  <2>1. PICK d \in Removing(t) : data' = [x \in DOMAIN data \ {d} |-> data[x]]
    BY <1>5 DEF DelData, Removing
  <2>2. lookup' = lookup
    BY <1>5 DEF DelData
  <2>3. e.id # d
    BY <2>1 DEF LinkInv, RemovingOwned, Linked
  <2> QED
    BY <1>0, <2>1, <2>2, <2>3
<1>6. CASE UNCHANGED <<lookup, data>>
  BY <1>6
<1>7. \/ NewData(t) \/ NewLookup(t) \/ UpdateData(t) \/ DelLookup(t) \/ DelData(t)
      \/ UNCHANGED <<lookup, data>>
  BY DEF Start, Step, BeginCreate, BeginWrite, SendWrite, BeginRead, SendRead, BeginTruncate, SendTruncate, Begin, TruncateByPath,
         OpenTrunc, Fallocate, FindMdForWrite, PipeFails, FindMdForRead, FindMdForTruncate,
         NewDataClash, MaxOrder, InsertMd, InsertMdClash, FindLookup, FindLookupFails, SetSize,
         FindDataForWrite, FindDataForRead, FindDataFails, FindIds, Reply, Abort, Die, store
<1> QED
  BY <1>1, <1>2, <1>3, <1>4, <1>5, <1>6, <1>7

\* What the other threads have stored stays stored.
LEMMA OthersStored ==
    ASSUME TypeInv, LinkInv, ContentInv, StoredOK, NEW t \in Threads, Start(t) \/ Step(t), Alone(t),
           StoredAt(call[t], pc[t], loc[t])'
    PROVE  StoredOK'
<1> SUFFICES ASSUME NEW u \in Threads \ {t} PROVE StoredAt(call[u], pc[u], loc[u])'
  BY DEF StoredOK
<1>1. call'[u] = call[u] /\ pc'[u] = pc[u] /\ loc'[u] = loc[u]
  BY DEF Alone
<1> SUFFICES ASSUME call[u].op = "write", pc[u] # "find_md", NEW p \in call[u].off .. loc[u].fp - 1
             PROVE  ShowsAt(call[u], pc[u], loc[u], p)'
  BY <1>1 DEF StoredAt
<1>2. ShowsAt(call[u], pc[u], loc[u], p)
  BY DEF StoredOK, StoredAt
<1>3. PICK e \in lookup :
          /\ e.inode = call[u].inode  /\ e.order = OrderOf(p)
          /\ (IF pc[u] = "update_data" /\ e.id = loc[u].id THEN loc[u].blk ELSE data[e.id])[p % BLOCK_SIZE]
                 = call[u].bufs[1][p - call[u].off + 1]
  BY <1>2 DEF ShowsAt, Entries
<1>4. ~Owns(t, e.inode)
  BY <1>3 DEF LinkInv, OneModifier, Owns, Modifies
<1>5. e \in lookup' /\ data'[e.id] = data[e.id]
  BY <1>4, OthersBlocks
<1> QED
  BY <1>1, <1>3, <1>5 DEF ShowsAt, Entries, OrderOf

\* A step of the write itself that keeps its position and the blocks there are.
LEMMA KeepsStored ==
    ASSUME TypeInv, StoredOK, NEW t \in Threads, NEW label, NEW l, Goto(t, label, l), call' = call,
           pc[t] # "find_md", pc[t] # "update_data", label # "update_data", l.fp = loc[t].fp,
           \A e \in lookup : e \in lookup' /\ data'[e.id] = data[e.id]
    PROVE  StoredAt(call[t], pc[t], loc[t])'
<1>1. pc'[t] = label /\ loc'[t] = l
  BY GotoEffect DEF TypeInv
<1> SUFFICES ASSUME call[t].op = "write", NEW p \in call[t].off .. loc[t].fp - 1
             PROVE  ShowsAt(call[t], pc[t], loc[t], p)'
  BY <1>1 DEF StoredAt
<1>2. ShowsAt(call[t], pc[t], loc[t], p)
  BY DEF StoredOK, StoredAt
<1>3. PICK e \in lookup :
          /\ e.inode = call[t].inode  /\ e.order = OrderOf(p)
          /\ data[e.id][p % BLOCK_SIZE] = call[t].bufs[1][p - call[t].off + 1]
  BY <1>2 DEF ShowsAt, Entries
<1>4. e \in lookup' /\ data'[e.id] = data[e.id]
  OBVIOUS
<1> QED
  BY <1>1, <1>3, <1>4 DEF ShowsAt, Entries, OrderOf

\* A write begins with nothing stored.
LEMMA FindMdForWriteStored ==
    ASSUME TypeInv, NEW t \in Threads, FindMdForWrite(t)
    PROVE  StoredAt(call[t], pc[t], loc[t])'
<1> DEFINE l == EnterBuffer(call[t], [loc[t] EXCEPT !.cur = md[call[t].inode]], 1)
<1>1. Goto(t, GrowOr(l, "find_lookup"), l) /\ call' = call
  BY DEF FindMdForWrite
<1>2. loc'[t] = l
  BY <1>1, GotoEffect DEF TypeInv
<1>3. l.fp = call[t].off
  BY ThreadTypes DEF EnterBuffer, LocalTypes
<1>4. call[t].off \in Nat
  BY ThreadTypes DEF RequestTypes
<1>5. call'[t].off .. loc'[t].fp - 1 = {}
  BY <1>1, <1>2, <1>3, <1>4
<1> QED
  BY <1>5 DEF StoredAt

\* New blocks, and finding one, take nothing away.
LEMMA GrowingStored ==
    ASSUME TypeInv, LinkInv, StoredOK, NEW t \in Threads, NewData(t) \/ MaxOrder(t) \/ NewLookup(t) \/ FindLookup(t)
    PROVE  StoredAt(call[t], pc[t], loc[t])'
<1>0. call' = call /\ pc[t] # "find_md" /\ pc[t] # "update_data" /\ loc[t] \in LocalTypes
  BY ThreadTypes DEF NewData, MaxOrder, NewLookup, FindLookup
<1>1. CASE NewData(t)
  <2>1. PICK d \in DataIds \ DOMAIN data :
            /\ data' = [x \in DOMAIN data \cup {d} |-> IF x = d THEN ZeroBlock ELSE data[x]]
            /\ Goto(t, "max_order", [loc[t] EXCEPT !.id = d])
    BY <1>1 DEF NewData
  <2>2. lookup' = lookup
    BY <1>1 DEF NewData
  <2>3. \A e \in lookup : data'[e.id] = data[e.id]
    BY <2>1 DEF LinkInv, NoDangling
  <2>4. PICK l : l = [loc[t] EXCEPT !.id = d]
    OBVIOUS
  <2>5. l.fp = loc[t].fp
    BY <1>0, <2>4 DEF LocalTypes
  <2> QED
    BY <1>0, <2>1, <2>2, <2>3, <2>4, <2>5, KeepsStored
<1>2. CASE MaxOrder(t)
  <2>1. PICK l : l = [loc[t] EXCEPT !.order = NextOrder(call[t].inode)]
    OBVIOUS
  <2>2. Goto(t, "new_lookup", l) /\ l.fp = loc[t].fp /\ UNCHANGED <<lookup, data>>
    BY <1>0, <1>2, <2>1 DEF LocalTypes, MaxOrder, store
  <2> QED
    BY <1>0, <2>2, KeepsStored
<1>3. CASE NewLookup(t)
  <2>1. PICK l : l = [loc[t] EXCEPT !.id = NoId, !.order = 0, !.need = @ - 1]
    OBVIOUS
  <2>2. PICK label : label = GrowOr(l, AfterGrowth(call[t].op))
    OBVIOUS
  <2>3. /\ pc[t] = "new_lookup"  /\ Goto(t, label, l)  /\ l.fp = loc[t].fp
        /\ lookup \subseteq lookup'  /\ data' = data
    BY <1>0, <1>3, <2>1, <2>2 DEF NewLookup, LocalTypes
  <2>4. call[t].op \in {"create", "write", "truncate"}
    BY <2>3, ThreadTypes DEF ControlAt, MakesTrip, Copying, Cutting
  <2>5. label # "update_data"
    BY <2>2, <2>4 DEF GrowOr, AfterGrowth
  <2> QED
    BY <1>0, <2>3, <2>5, KeepsStored
<1>4. CASE FindLookup(t)
  <2>1. PICK d : Goto(t, "find_data", [loc[t] EXCEPT !.id = d])
    BY <1>4 DEF FindLookup
  <2>2. PICK l : l = [loc[t] EXCEPT !.id = d]
    OBVIOUS
  <2>3. Goto(t, "find_data", l) /\ l.fp = loc[t].fp /\ UNCHANGED <<lookup, data>>
    BY <1>0, <1>4, <2>1, <2>2 DEF LocalTypes, FindLookup, store
  <2> QED
    BY <1>0, <2>3, KeepsStored
<1> QED
  BY <1>1, <1>2, <1>3, <1>4

\* The size changes no block.
LEMMA SetSizeStored ==
    ASSUME TypeInv, StoredOK, NEW t \in Threads, SetSize(t)
    PROVE  StoredAt(call[t], pc[t], loc[t])'
<1>1. pc[t] = "set_size" /\ Goto(t, "reply", loc[t]) /\ call' = call /\ UNCHANGED <<lookup, data>>
  BY DEF SetSize
<1> QED
  BY <1>1, KeepsStored


\* The positions that one round of the copy loop reaches are in one block.
LEMMA InOneBlock ==
    ASSUME NEW fp \in Nat, NEW stop \in Nat, NEW p \in Nat
    PROVE  /\ p % BLOCK_SIZE \in Positions  /\ OrderOf(p) * BLOCK_SIZE + (p % BLOCK_SIZE) = p
           /\ p \in fp .. AfterBlock(fp, stop) - 1 => OrderOf(p) = OrderOf(fp)
<1>1. PICK b, n, r, q, s :
          b = BLOCK_SIZE /\ n = OrderOf(p) /\ r = p % BLOCK_SIZE /\ q = OrderOf(fp) /\ s = fp % BLOCK_SIZE
  OBVIOUS
<1>2. /\ b \in Nat \ {0}  /\ n \in Nat  /\ q \in Nat  /\ r \in 0 .. b - 1  /\ s \in 0 .. b - 1
      /\ p = b * n + r  /\ fp = b * q + s
  BY <1>1, BlockSizeAssumption DEF OrderOf
<1>3. r \in Positions /\ n * b + r = p
  BY <1>1, <1>2 DEF Positions
<1>4. ASSUME p \in fp .. AfterBlock(fp, stop) - 1 PROVE n = q
  <2>1. AfterBlock(fp, stop) <= Greatest(fp, BlockEnd(fp)) /\ BlockEnd(fp) = (q + 1) * b /\ BlockEnd(fp) \in Nat
    BY <1>1, AfterBlockBounds DEF AfterBlock, BlockEnd, Greatest, Least
  <2>2. AfterBlock(fp, stop) \in Nat
    BY AfterBlockBounds
  <2>3. fp <= p /\ p < BlockEnd(fp)
    BY <1>4, <2>1, <2>2 DEF Greatest
  <2>4. q <= n
    BY <1>1, <2>3, OrderFacts
  <2>5. ASSUME q + 1 <= n PROVE FALSE
    <3>1. (q + 1) * b <= n * b
      BY <1>2, <2>5
    <3>2. n * b <= p
      BY <1>2, <1>3
    <3> QED
      BY <1>2, <2>1, <2>3, <3>1, <3>2
  <2> QED
    BY <1>2, <2>4, <2>5
<1> QED
  BY <1>1, <1>3, <1>4

\* What is copied into the block shows in it, and what was there before it stays.
LEMMA FindDataForWriteStored ==
    ASSUME TypeInv, LinkInv, SizedOK, CountedOK, StoredOK, NEW t \in Threads, FindDataForWrite(t)
    PROVE  StoredAt(call[t], pc[t], loc[t])'
<1>0. PICK c, o, fp, id, buf, end, next, blk :
          /\ c = call[t]  /\ o = c.off  /\ fp = loc[t].fp  /\ id = loc[t].id  /\ buf = c.bufs[1]
          /\ end = BufEnd(c, 1)  /\ next = AfterBlock(fp, end)  /\ blk = Patch(data[id], fp, o, buf)
  OBVIOUS
<1>1. pc[t] = "find_data" /\ c.op = "write" /\ UNCHANGED <<lookup, data, call>>
  BY <1>0 DEF FindDataForWrite, store
<1>2. /\ c \in RequestTypes  /\ loc[t] \in LocalTypes  /\ loc[t].idx \in DOMAIN c.bufs
      /\ 1 \in DOMAIN c.bufs  /\ o <= fp
  BY <1>0, <1>1, ThreadTypes DEF ControlAt
<1>3. loc[t].idx = 1
  BY <1>0, <1>1, <1>2 DEF CountedOK, CountedAt, RequestTypes
<1>4. PICK l : Goto(t, "update_data", l) /\ l.id = id /\ l.fp = next /\ l.blk = blk
  <2> DEFINE m == [loc[t] EXCEPT !.blk = blk, !.fp = next, !.total = @ + (next - fp)]
  <2>1. Goto(t, "update_data", m)
    BY <1>0, <1>3 DEF FindDataForWrite
  <2>2. m.id = id /\ m.fp = next /\ m.blk = blk
    BY <1>0, <1>2 DEF LocalTypes
  <2> HIDE DEF m
  <2> QED
    BY <2>1, <2>2
<1>5. o \in Nat /\ fp \in Nat /\ end \in Nat /\ end = o + Len(buf)
  BY <1>0, <1>2, EnterBufferTypes DEF RequestTypes, LocalTypes, BufEnd
<1>6. next \in Nat /\ fp <= next
  BY <1>0, <1>5, AfterBlockBounds
<1>7. PICK f \in lookup : f.inode = c.inode /\ f.id = id /\ f.order = OrderOf(fp)
  BY <1>0, <1>1 DEF SizedOK, SizedAt, Entries
<1>8. ASSUME NEW p \in Nat, OrderOf(p) = OrderOf(fp)
      PROVE  blk[p % BLOCK_SIZE] = IF p \in fp .. next - 1 THEN buf[p - o + 1] ELSE data[id][p % BLOCK_SIZE]
  <2>1. PICK q : q = p % BLOCK_SIZE
    OBVIOUS
  <2>2. q \in Positions /\ OrderOf(fp) * BLOCK_SIZE + q = p
    BY <1>5, <1>8, <2>1, InOneBlock
  <2>3. PICK base : base = OrderOf(fp) * BLOCK_SIZE
    OBVIOUS
  <2>4. AfterBlock(fp, o + Len(buf)) = next
    BY <1>0, <1>5
  <2>5. blk = [x \in Positions |-> IF base + x \in fp .. next - 1 THEN buf[base + x - o + 1] ELSE data[id][x]]
    BY <1>0, <2>3, <2>4, Zenon DEF Patch
  <2>6. base + q = p
    BY <2>2, <2>3
  <2>7. blk[q] = IF base + q \in fp .. next - 1 THEN buf[base + q - o + 1] ELSE data[id][q]
    BY <2>2, <2>5, Zenon
  <2>8. base \in Nat /\ q \in Nat
    <3>1. OrderOf(fp) \in Nat /\ BLOCK_SIZE \in Nat
      BY <1>5, OrderFacts, BlockSizeAssumption
    <3> QED
      BY <2>2, <2>3, <3>1, Products DEF Positions
  <2>9. blk[q] = IF p \in fp .. next - 1 THEN buf[p - o + 1] ELSE data[id][q]
    BY <1>5, <1>6, <2>6, <2>7, <2>8
  <2> QED
    BY <2>1, <2>9
<1>9. pc'[t] = "update_data" /\ loc'[t] = l
  BY <1>4, GotoEffect DEF TypeInv
<1> SUFFICES ASSUME NEW p \in o .. next - 1
             PROVE  \E e \in lookup : /\ e.inode = c.inode  /\ e.order = OrderOf(p)
                                      /\ (IF e.id = id THEN blk ELSE data[e.id])[p % BLOCK_SIZE] = buf[p - o + 1]
  BY <1>0, <1>1, <1>4, <1>9 DEF StoredAt, ShowsAt, Entries, OrderOf
<1>10. p \in Nat
  BY <1>5, <1>6
<1>11. CASE p \in fp .. next - 1
  <2>1. OrderOf(p) = OrderOf(fp)
    BY <1>0, <1>5, <1>10, <1>11, InOneBlock
  <2> QED
    BY <1>7, <1>8, <1>10, <1>11, <2>1
<1>12. CASE p \notin fp .. next - 1
  <2>1. p \in o .. fp - 1
    BY <1>2, <1>5, <1>6, <1>10, <1>12
  <2>2. PICK e \in lookup :
            e.inode = c.inode /\ e.order = OrderOf(p) /\ data[e.id][p % BLOCK_SIZE] = buf[p - o + 1]
    BY <1>0, <1>1, <2>1 DEF StoredOK, StoredAt, ShowsAt, Entries
  <2>3. CASE e.id = id
    <3>1. e = f
      BY <1>7, <2>3 DEF LinkInv, NoSharing
    <3> QED
      BY <1>7, <1>8, <1>10, <1>12, <2>2, <3>1
  <2>4. CASE e.id # id
    BY <2>2, <2>4
  <2> QED
    BY <2>3, <2>4
<1> QED
  BY <1>11, <1>12

\* The block put back shows what it showed before.
LEMMA UpdateDataStored ==
    ASSUME TypeInv, LinkInv, CountedOK, StoredOK, NEW t \in Threads, UpdateData(t)
    PROVE  StoredAt(call[t], pc[t], loc[t])'
<1>0. PICK c, o, id, blk, l :
          /\ c = call[t]  /\ o = c.off  /\ id = loc[t].id  /\ blk = loc[t].blk
          /\ l = [loc[t] EXCEPT !.id = NoId, !.blk = ZeroBlock]
  OBVIOUS
<1>1. /\ pc[t] = "update_data"  /\ UNCHANGED <<lookup, call>>
      /\ data' = [x \in DOMAIN data |-> IF x = id THEN blk ELSE data[x]]
  BY <1>0 DEF UpdateData
<1>2. c \in RequestTypes /\ loc[t] \in LocalTypes /\ c.op = "write" /\ loc[t].idx \in DOMAIN c.bufs
  BY <1>0, <1>1, ThreadTypes DEF ControlAt, MakesTrip, Growing, Linking, Copying, Cutting
<1>3. Len(c.bufs) = 1
  BY <1>0, <1>2 DEF CountedOK, CountedAt
<1>4. l.idx = 1 /\ l.fp = loc[t].fp
  BY <1>0, <1>2, <1>3 DEF RequestTypes, LocalTypes
<1>5. PICK label \in {"find_lookup", "set_size"} : Goto(t, label, l)
  BY <1>0, <1>3, <1>4 DEF UpdateData
<1>6. pc'[t] = label /\ loc'[t] = l
  BY <1>5, GotoEffect DEF TypeInv
<1> SUFFICES ASSUME NEW p \in o .. loc[t].fp - 1
             PROVE  \E e \in lookup : /\ e.inode = c.inode  /\ e.order = OrderOf(p)
                                      /\ data'[e.id][p % BLOCK_SIZE] = c.bufs[1][p - o + 1]
  BY <1>0, <1>1, <1>4, <1>6 DEF StoredAt, ShowsAt, Entries, OrderOf
<1>7. PICK e \in lookup :
          /\ e.inode = c.inode  /\ e.order = OrderOf(p)
          /\ (IF e.id = id THEN blk ELSE data[e.id])[p % BLOCK_SIZE] = c.bufs[1][p - o + 1]
  BY <1>0, <1>1, <1>2 DEF StoredOK, StoredAt, ShowsAt, Entries
<1>8. data'[e.id] = IF e.id = id THEN blk ELSE data[e.id]
  BY <1>1 DEF LinkInv, NoDangling
<1> QED
  BY <1>7, <1>8

\* The other steps are of calls that store no bytes, or begin or end one.
LEMMA UnstoredSteps ==
    ASSUME TypeInv, NEW t \in Threads,
           \/ BeginCreate(t) \/ BeginWrite(t) \/ BeginRead(t) \/ BeginTruncate(t)
           \/ FindMdForRead(t) \/ FindMdForTruncate(t) \/ FindDataForRead(t) \/ InsertMd(t)
           \/ FindIds(t) \/ DelLookup(t) \/ DelData(t) \/ Reply(t)
    PROVE  StoredAt(call[t], pc[t], loc[t])'
<1>1. MakesTrip(call[t].op, pc[t])
  BY ThreadTypes DEF ControlAt
<1>2. CASE \/ FindMdForRead(t) \/ FindMdForTruncate(t) \/ FindDataForRead(t) \/ InsertMd(t)
           \/ FindIds(t) \/ DelLookup(t) \/ DelData(t)
  <2>1. call' = call /\ call[t].op # "write"
    BY <1>1, <1>2 DEF FindMdForRead, FindMdForTruncate, FindDataForRead, InsertMd, FindIds, DelLookup, DelData,
                      MakesTrip, Growing, Linking, Copying, Cutting
  <2> QED
    BY <2>1 DEF StoredAt
<1>3. CASE BeginCreate(t) \/ BeginWrite(t) \/ BeginRead(t) \/ BeginTruncate(t)
  <2>1. ASSUME NEW label, NEW c, NEW n, Begin(t, label, c, n), label = "find_md" \/ c.op # "write"
        PROVE  StoredAt(call[t], pc[t], loc[t])'
    <3>1. call'[t] = c /\ pc'[t] = label
      BY <2>1, GotoEffect DEF Begin, TypeInv, TypeOK
    <3> QED
      BY <2>1, <3>1 DEF StoredAt
  <2>2. CASE BeginCreate(t)
    <3>1. PICK i \in Inodes : Begin(t, "new_data", [NoCall EXCEPT !.op = "create", !.inode = i], 1)
      BY <2>2 DEF BeginCreate
    <3>2. [NoCall EXCEPT !.op = "create", !.inode = i].op = "create"
      BY DEF NoCall
    <3> QED
      BY <2>1, <3>1, <3>2
  <2>3. CASE BeginWrite(t) \/ BeginRead(t) \/ BeginTruncate(t)
    <3>1. \E c, n : Begin(t, "find_md", c, n)
      BY <2>3 DEF BeginWrite, SendWrite, BeginRead, SendRead, BeginTruncate, SendTruncate
    <3> QED
      BY <2>1, <3>1
  <2> QED
    BY <1>3, <2>2, <2>3
<1>4. CASE Reply(t)
  <2>1. call'[t] = NoCall
    BY <1>4 DEF Reply, TypeInv, TypeOK
  <2> QED
    BY <2>1 DEF StoredAt, NoCall
<1> QED
  BY <1>2, <1>3, <1>4

\* A step that touches neither documents nor threads.
LEMMA StutterStored ==
    ASSUME StoredOK, UNCHANGED <<lookup, data, pc, call, loc>>
    PROVE  StoredOK'
  BY DEF StoredOK, StoredAt, ShowsAt, Entries, OrderOf

LEMMA StoredInductive ==
    TypeInv /\ LinkInv /\ SizedOK /\ ContentInv /\ CountedOK /\ StoredOK /\ [Next]_vars => StoredOK'
<1> SUFFICES ASSUME TypeInv, LinkInv, SizedOK, ContentInv, CountedOK, StoredOK, [Next]_vars PROVE StoredOK'
  OBVIOUS
<1>1. ASSUME NEW t \in Threads, Start(t) \/ Step(t), ~Die
      PROVE  StoredOK'
  <2>1. Alone(t)
    BY <1>1, StepAlone
  <2>2. CASE OpenTrunc(t) \/ Fallocate(t)
    BY <2>2, StutterStored DEF OpenTrunc, Fallocate, store, threads
  <2>3. CASE BeginCreate(t) \/ BeginWrite(t) \/ BeginRead(t) \/ BeginTruncate(t)
    BY <1>1, <2>1, <2>3, UnstoredSteps, OthersStored
  <2>4. CASE Step(t)
    BY <1>1, <2>1, <2>4, FindMdForWriteStored, GrowingStored, FindDataForWriteStored, UpdateDataStored,
       SetSizeStored, UnstoredSteps, OthersStored
       DEF Step, PipeFails, NewDataClash, InsertMdClash, FindLookupFails, FindDataFails, Abort
  <2> QED
    BY <1>1, <2>2, <2>3, <2>4 DEF Start, TruncateByPath
<1>2. CASE Die
  BY <1>2 DEF Die, StoredOK, StoredAt, NoCall
<1>3. CASE Mount \/ UNCHANGED vars
  BY <1>3, StutterStored DEF Mount, store, threads, vars
<1> QED
  BY <1>1, <1>2, <1>3 DEF Next, Kill

\* Up to the position it has reached, a write finds its bytes in its file,
\* whatever the other calls do meanwhile and whatever ids they draw.
THEOREM StoredHolds == ASSUME SingleBuffers PROVE Spec => []StoredOK
<1>1. Init => StoredOK
  BY DEF Init, StoredOK, StoredAt, NoCall
<1>2. CoverInv => SizedOK
  BY DEF CoverInv
<1>3. KernelInv => CountedOK
  BY DEF KernelInv
<1> QED
  BY <1>1, <1>2, <1>3, StoredInductive, TypeInvHolds, LinkInvHolds, CoverInvHolds, ContentInvHolds,
     KernelInvHolds, PTL DEF Spec
=============================================================================

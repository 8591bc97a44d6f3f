------------------------ MODULE BlockStoreOrderProofs ------------------------
(* When generate_id returns no id in use: the blocks of a file are numbered  *)
(* 0 .. k-1 each once, none is past the size once the calls are over, and    *)
(* none is lost before the first crash; until then the collections implement *)
(* BlockArray; a write stores its bytes and a read returns those of the      *)
(* file.  For every number of threads, files and blocks, every block size    *)
(* and every set of requests.                                                *)
EXTENDS BlockStoreCoverProofs, BlockStoreRefinement, FiniteSetTheorems

-----------------------------------------------------------------------------
(* One call at a time works on a file.                                       *)

\* The blocks of one file, numbered.
Numbered(i) ==
    /\ \A e, f \in Entries(i) : e.order = f.order => e = f
    /\ \A e \in Entries(i) : \A n \in 0 .. e.order : n \in Orders(i)

\* What a step does to the documents of a file it does not work on: nothing.
Same(i) == /\ Entries(i)' = Entries(i)
           /\ i \in DOMAIN md' <=> i \in DOMAIN md
           /\ i \in DOMAIN md => md'[i] = md[i]

\* BlocksInOrder, file by file.
LEMMA NumberedFiles ==
    ASSUME TypeOK
    PROVE  BlocksInOrder <=> \A i \in Inodes : Numbered(i)
  BY DEF TypeOK, Entry, BlocksInOrder, Numbered, Entries

\* The kernel's lock keeps the calls that modify a file apart, and a create has
\* its inode to itself.
LEMMA OneWorker ==
    ASSUME TypeInv, LinkInv, ExclusiveOK, NEW t \in Threads, NEW u \in Threads, t # u, NEW i,
           Working(t, i), Working(u, i)
    PROVE  FALSE
  BY DEF ExclusiveOK, Working, LinkInv, OneModifier, Modifies

\* A step of thread t keeps the invariant if it leaves the files alone that t
\* does not work on, and keeps what is said of t and of its file.
LEMMA FrameOrder ==
    ASSUME TypeInv, LinkInv, OrderInv, TypeOK', NEW t \in Threads, Alone(t), UNCHANGED <<up, mounts>>,
           \A i \in Inodes : Same(i) \/ Working(t, i),
           \/ call'[t] = call[t]
           \/ call'[t].inode \notin Inodes
           \/ call'[t].inode \in DOMAIN md
           \/ \A u \in Threads \ {t} : call[u].inode # call'[t].inode,
           call'[t].op = "create" /\ pc'[t] # "reply" =>
               call'[t].inode \notin DOMAIN md' /\ \A u \in Threads \ {t} : call[u].inode # call'[t].inode,
           pc'[t] = "new_lookup" => loc'[t].order = NextOrder(call[t].inode)',
           pc'[t] = "del_lookup" =>
               \A e \in lookup' : e.inode = call'[t].inode /\ e.order >= Blocks(call'[t].size)
                                    => e.id \in loc'[t].gone,
           \A i \in Inodes : Working(t, i) => Numbered(i)',
           up /\ mounts = 1 =>
               /\ TightAt(call[t], pc[t], loc[t])'
               /\ \A i \in Inodes : Working(t, i) /\ ~Working(t, i)' => TightFile(i)',
           NoLeak'
    PROVE  OrderInv'
<1> USE DEF OrderInv
<1>1. \A i \in Inodes : Numbered(i)'
  <2> SUFFICES ASSUME NEW i \in Inodes, ~Working(t, i) PROVE Numbered(i)'
    OBVIOUS
  <2>1. Numbered(i)
    BY NumberedFiles DEF TypeInv
  <2> QED
    BY <2>1 DEF Same, Numbered, Orders
<1>2. ASSUME NEW u \in Threads \ {t}, NEW i \in Inodes, Working(u, i) PROVE ~Working(t, i) /\ Same(i)
  BY <1>2, OneWorker
<1>3. ASSUME NEW u \in Threads \ {t} PROVE pc'[u] = pc[u] /\ loc'[u] = loc[u] /\ call'[u] = call[u]
  BY DEF Alone
<1>4. ExclusiveOK'
  <2> SUFFICES ASSUME NEW u \in Threads, call'[u].op = "create", pc'[u] # "reply",
                      NEW i, i = call'[u].inode
               PROVE  i \notin DOMAIN md' /\ \A v \in Threads \ {u} : call'[v].inode # i
    BY DEF ExclusiveOK
  <2>1. CASE u = t
    BY <1>3, <2>1
  <2>2. CASE u # t
    <3>1. call[u].op = "create" /\ pc[u] # "reply" /\ i = call[u].inode
      BY <1>3, <2>2
    <3>2. i \in Inodes /\ i \notin DOMAIN md /\ \A v \in Threads \ {u} : call[v].inode # i
      BY <3>1, ThreadTypes DEF ExclusiveOK, ControlAt, MakesTrip, Growing, Linking
    <3>3. i \notin DOMAIN md'
      BY <1>2, <2>2, <3>1, <3>2 DEF Working, Same
    <3>4. call'[t].inode # i
      BY <2>2, <3>1, <3>2
    <3> QED
      BY <1>3, <3>2, <3>3, <3>4
  <2> QED
    BY <2>1, <2>2
<1>5. NextOrderOK'
  <2> SUFFICES ASSUME NEW u \in Threads, pc'[u] = "new_lookup"
               PROVE  loc'[u].order = NextOrder(call[u].inode)'
    BY DEF NextOrderOK
  <2>1. CASE u # t
    <3>1. pc[u] = "new_lookup"
      BY <1>3, <2>1
    <3>2. PICK i : i = call[u].inode
      OBVIOUS
    <3>3. Working(u, i) /\ i \in Inodes
      BY <3>1, <3>2, ThreadTypes DEF Working, ControlAt, MakesTrip, Copying, Cutting
    <3>4. Entries(i)' = Entries(i)
      BY <1>2, <2>1, <3>3 DEF Same
    <3>5. NextOrder(i)' = NextOrder(i)
      BY <3>4 DEF NextOrder, Orders
    <3> QED
      BY <1>3, <2>1, <3>1, <3>2, <3>5 DEF NextOrderOK
  <2> QED
    BY <2>1
<1>6. FoundAll'
  <2> SUFFICES ASSUME NEW u \in Threads, pc'[u] = "del_lookup", NEW e \in lookup',
                      e.inode = call'[u].inode, e.order >= Blocks(call'[u].size)
               PROVE  e.id \in loc'[u].gone
    BY DEF FoundAll, EntriesFrom, Entries, Blocks
  <2>1. CASE u # t
    <3>1. pc[u] = "del_lookup" /\ e.inode = call[u].inode /\ e.order >= Blocks(call[u].size)
      BY <1>3, <2>1
    <3>2. PICK i : i = call[u].inode
      OBVIOUS
    <3>3. Working(u, i) /\ i \in Inodes
      BY <3>1, <3>2, ThreadTypes DEF Working, ControlAt, MakesTrip, Growing, Linking, Copying
    <3>4. Entries(i)' = Entries(i)
      BY <1>2, <2>1, <3>3 DEF Same
    <3>5. e \in EntriesFrom(i, Blocks(call[u].size))
      BY <3>1, <3>2, <3>4 DEF Entries, EntriesFrom
    <3> QED
      BY <1>3, <2>1, <3>1, <3>2, <3>5 DEF FoundAll
  <2> QED
    BY <2>1
<1>7. BlocksInOrder'
  <2>1. \A e, f \in lookup' : e.inode = f.inode /\ e.order = f.order => e = f
    BY <1>1 DEF Numbered, Entries, TypeOK, Entry
  <2>2. \A e \in lookup' : \A n \in 0 .. e.order : n \in Orders(e.inode)'
    BY <1>1 DEF Numbered, Entries, TypeOK, Entry
  <2> QED
    BY <2>1, <2>2 DEF BlocksInOrder, Orders, Entries
<1>8. TightOK'
  <2> SUFFICES ASSUME up, mounts = 1
               PROVE  /\ \A u \in Threads : TightAt(call[u], pc[u], loc[u])'
                      /\ \A i \in Inodes : (\A u \in Threads : ~Working(u, i)') => TightFile(i)'
    BY DEF TightOK
  <2>1. ASSUME NEW u \in Threads \ {t} PROVE TightAt(call[u], pc[u], loc[u])'
    <3>1. TightAt(call[u], pc[u], loc[u])
      BY DEF TightOK
    <3>2. PICK i : i = call[u].inode
      OBVIOUS
    <3>3. CASE Working(u, i) /\ i \in Inodes
      <4>1. Entries(i)' = Entries(i) /\ (i \in DOMAIN md => md'[i] = md[i])
        BY <1>2, <3>3 DEF Same
      <4>2. Orders(i)' = Orders(i)
        BY <4>1 DEF Orders
      <4>3. Modifies(call[u].op) => i \in DOMAIN md
        BY <3>2, ThreadTypes DEF ControlAt, Modifies
      <4> QED
        BY <1>3, <3>1, <3>2, <4>1, <4>2, <4>3 DEF TightAt, Within, OrderOf
    <3>4. CASE ~(Working(u, i) /\ i \in Inodes)
      <4>1. call[u].op \in {"none", "read"} \/ (call[u].op = "create" /\ pc[u] = "reply")
        <5>1. MakesTrip(call[u].op, pc[u]) /\ (pc[u] # "idle" => i \in Inodes)
          BY <3>2, ThreadTypes DEF ControlAt
        <5>2. call[u].op \in {"none", "read", "create", "write", "truncate"}
          BY <5>1 DEF MakesTrip
        <5>3. pc[u] = "idle" => call[u].op \notin {"create", "write", "truncate"}
          BY <5>1 DEF MakesTrip, Growing, Linking, Copying, Cutting
        <5> QED
          BY <3>2, <3>4, <5>1, <5>2, <5>3 DEF Working
      <4> QED
        BY <1>3, <4>1 DEF TightAt, Modifies, Growing, Linking
    <3> QED
      BY <3>3, <3>4
  <2>2. ASSUME NEW i \in Inodes, \A u \in Threads : ~Working(u, i)' PROVE TightFile(i)'
    <3>1. CASE Working(t, i)
      BY <2>2, <3>1
    <3>2. CASE ~Working(t, i)
      <4>1. \A u \in Threads : ~Working(u, i)
        BY <1>3, <2>2, <3>2 DEF Working
      <4>2. TightFile(i) /\ Same(i)
        BY <3>2, <4>1 DEF TightOK
      <4> QED
        BY <4>2 DEF TightFile, Within, Same, Orders, OrderOf
    <3> QED
      BY <3>1, <3>2
  <2> QED
    BY <2>1, <2>2
<1>9. StartedOK'
  BY DEF StartedOK
<1> QED
  BY <1>4, <1>5, <1>6, <1>7, <1>8, <1>9

-----------------------------------------------------------------------------
(* Steps that touch no document.                                             *)

\* NoLeak, block by block.
Held(d) == d \in Linked \/ \E t \in Threads : d \in Pending(t) \cup Removing(t)

\* NoLeak, in one sentence.
LEMMA LeakFree == NoLeak <=> (up /\ mounts = 1 => \A d : d \in DOMAIN data <=> Held(d))
  BY DEF NoLeak, Held

\* A step that makes, links and removes no block.
LEMMA FrameLeak ==
    ASSUME NoLeak, UNCHANGED <<up, mounts>>, Linked' = Linked, DOMAIN data' = DOMAIN data,
           \A u \in Threads : Pending(u)' = Pending(u) /\ Removing(u)' = Removing(u)
    PROVE  NoLeak'
<1>1. up /\ mounts = 1 => \A d : d \in DOMAIN data' <=> Held(d)'
  BY LeakFree DEF Held
<1> QED
  BY <1>1 DEF NoLeak, Held

\* A step that touches only the thread's local variables, or blocks.
LEMMA LocalOrder ==
    ASSUME TypeInv, LinkInv, OrderInv, TypeOK', NEW t \in Threads, NEW label, NEW l, Goto(t, label, l),
           UNCHANGED <<md, lookup, up, mounts, call>>,
           pc[t] # "reply", call[t].op = "create" => label # "reply",
           label = "new_lookup" => l.order = NextOrder(call[t].inode),
           label = "del_lookup" => \A e \in EntriesFrom(call[t].inode, Blocks(call[t].size)) : e.id \in l.gone,
           up /\ mounts = 1 => TightAt(call[t], label, l),
           NoLeak'
    PROVE  OrderInv'
<1>1. pc'[t] = label /\ loc'[t] = l /\ call' = call /\ Alone(t)
  BY GotoEffect DEF TypeInv, Alone
<1>2. \A i : Entries(i)' = Entries(i) /\ Orders(i)' = Orders(i) /\ Same(i)
  BY DEF Same, Entries, Orders
<1>3. call'[t].op = "create" /\ pc'[t] # "reply" =>
          call'[t].inode \notin DOMAIN md' /\ \A u \in Threads \ {t} : call[u].inode # call'[t].inode
  BY <1>1 DEF OrderInv, ExclusiveOK
<1>4. pc'[t] = "new_lookup" => loc'[t].order = NextOrder(call[t].inode)'
  BY <1>1, <1>2 DEF NextOrder, Entries, Orders
<1>5. pc'[t] = "del_lookup" =>
          \A e \in lookup' : e.inode = call'[t].inode /\ e.order >= Blocks(call'[t].size)
                               => e.id \in loc'[t].gone
  BY <1>1 DEF EntriesFrom, Entries
<1>6. \A i \in Inodes : Numbered(i)'
  <2> SUFFICES ASSUME NEW i \in Inodes PROVE Numbered(i)'
    OBVIOUS
  <2>1. Numbered(i)
    BY NumberedFiles DEF OrderInv, TypeInv
  <2> QED
    BY <1>2, <2>1 DEF Numbered
<1>7. up /\ mounts = 1 => TightAt(call[t], pc[t], loc[t])'
  <2> SUFFICES ASSUME up, mounts = 1 PROVE TightAt(call[t], pc[t], loc[t])'
    OBVIOUS
  <2>1. TightAt(call[t], label, l)
    OBVIOUS
  <2> QED
    BY <1>1, <1>2, <2>1 DEF TightAt, Within, OrderOf, Orders, Entries
<1>8. \A i \in Inodes : Working(t, i) => Working(t, i)'
  BY <1>1 DEF Working
<1> QED
  BY <1>1, <1>2, <1>3, <1>4, <1>5, <1>6, <1>7, <1>8, FrameOrder

\* ... and makes, links and removes no block.
LEMMA QuietOrder ==
    ASSUME TypeInv, LinkInv, OrderInv, TypeOK', NEW t \in Threads, NEW label, NEW l, Goto(t, label, l),
           UNCHANGED <<md, lookup, up, mounts, call>>, DOMAIN data' = DOMAIN data,
           pc[t] \notin {"reply", "del_data"} \cup Linking,
           label \notin {"reply", "del_data", "del_lookup"} \cup Linking,
           up /\ mounts = 1 => TightAt(call[t], label, l)
    PROVE  OrderInv'
<1>1. pc'[t] = label /\ \A u \in Threads \ {t} : pc'[u] = pc[u] /\ loc'[u] = loc[u]
  BY GotoEffect DEF TypeInv
<1>2. \A u \in Threads : Pending(u)' = Pending(u) /\ Removing(u)' = Removing(u)
  BY <1>1 DEF Pending, Removing, Linking
<1>3. NoLeak'
  BY <1>2, FrameLeak DEF OrderInv, Linked
<1> QED
  BY <1>3, LocalOrder DEF Linking

\* What TightOK says of one thread.
LEMMA TightThread ==
    ASSUME OrderInv, NEW t \in Threads
    PROVE  up /\ mounts = 1 => TightAt(call[t], pc[t], loc[t])
  BY DEF OrderInv, TightOK

\* A write adds as many blocks as its buffer needs past the size stored.
LEMMA FindMdForWriteOrder ==
    ASSUME TypeInv, LinkInv, OrderInv, TypeOK', NEW t \in Threads, FindMdForWrite(t)
    PROVE  OrderInv'
<1>0. PICK c, o : c = call[t] /\ o = md[c.inode]
  OBVIOUS
<1> DEFINE s == [loc[t] EXCEPT !.cur = o]
           l == EnterBuffer(c, s, 1)
           label == GrowOr(l, "find_lookup")
<1>1. /\ pc[t] = "find_md"  /\ c.op = "write"  /\ Goto(t, label, l)
      /\ UNCHANGED <<md, lookup, data, up, mounts, call>>
  BY <1>0 DEF FindMdForWrite, store, daemon
<1>2. c \in RequestTypes /\ loc[t] \in LocalTypes /\ ControlAt(c, pc[t], loc[t])
  BY <1>0, ThreadTypes
<1>3. c.inode \in DOMAIN md /\ 1 \in DOMAIN c.bufs /\ o \in Nat
  BY <1>0, <1>1, <1>2 DEF ControlAt, TypeInv, TypeOK
<1>4. s \in LocalTypes /\ s.cur = o
  BY <1>2, <1>3 DEF LocalTypes
<1> HIDE DEF s
<1>5. l \in LocalTypes /\ o <= l.cur /\ OrderOf(l.cur) - l.need = OrderOf(o)
  BY <1>2, <1>3, <1>4, EnterBufferSizes
<1>6. l.need \in Nat /\ OrderOf(l.cur) \in Nat /\ OrderOf(o) \in Nat
  BY <1>3, <1>5, OrderFacts DEF LocalTypes
<1> HIDE DEF l
<1>7. label = (IF l.need > 0 THEN "new_data" ELSE "find_lookup")
  BY DEF GrowOr
<1> HIDE DEF label
<1>8. up /\ mounts = 1 => TightAt(c, label, l)
  <2> SUFFICES ASSUME up, mounts = 1 PROVE TightAt(c, label, l)
    OBVIOUS
  <2>1. Within(c.inode, OrderOf(o))
    BY <1>0, <1>1, TightThread DEF TightAt, Modifies
  <2>2. l.need <= OrderOf(l.cur) /\ (~(l.need > 0) => OrderOf(l.cur) = OrderOf(o))
    BY <1>5, <1>6
  <2> QED
    BY <1>1, <1>5, <1>7, <2>1, <2>2 DEF TightAt, Growing, Linking, Copying, Modifies
<1> QED
  BY <1>0, <1>1, <1>7, <1>8, QuietOrder DEF Linking

\* So does a truncate that makes the file longer; others find nothing past the size.
LEMMA FindMdForTruncateOrder ==
    ASSUME TypeInv, LinkInv, OrderInv, TypeOK', NEW t \in Threads, FindMdForTruncate(t)
    PROVE  OrderInv'
<1>0. PICK c, old, new : c = call[t] /\ old = md[c.inode] /\ new = c.size
  OBVIOUS
<1>1. pc[t] = "find_md" /\ c.op = "truncate" /\ UNCHANGED <<md, lookup, data, up, mounts, call>>
  BY <1>0 DEF FindMdForTruncate, store, daemon
<1>2. c \in RequestTypes /\ loc[t] \in LocalTypes /\ ControlAt(c, pc[t], loc[t])
  BY <1>0, ThreadTypes
<1>3. c.inode \in DOMAIN md /\ old \in Nat /\ new \in Nat
  BY <1>0, <1>1, <1>2 DEF ControlAt, TypeInv, TypeOK, RequestTypes
<1>4. PICK label, l :
          /\ Goto(t, label, l)  /\ l.cur = new
          /\ \/ label = "reply"
             \/ label = "set_size" /\ Blocks(new) = Blocks(old)
             \/ label = "new_data" /\ l.need = Blocks(new) - Blocks(old)
             \/ label = "find_ids"
  <2> DEFINE l == [loc[t] EXCEPT !.cur = new]
             g == [l EXCEPT !.need = Blocks(new) - Blocks(old)]
  <2>1. l.cur = new /\ g.cur = new /\ g.need = Blocks(new) - Blocks(old)
    BY <1>2 DEF LocalTypes
  <2>2. \/ Goto(t, "reply", l)
        \/ Blocks(new) = Blocks(old) /\ Goto(t, "set_size", l)
        \/ Goto(t, "new_data", g)
        \/ Goto(t, "find_ids", l)
    BY <1>0 DEF FindMdForTruncate
  <2> HIDE DEF l, g
  <2> QED
    BY <2>1, <2>2
<1>5. /\ OrderOf(new) \in Nat  /\ Blocks(new) = OrderOf(new) + 1
      /\ OrderOf(old) \in Nat  /\ Blocks(old) = OrderOf(old) + 1
  BY <1>3, OrderFacts
<1>6. up /\ mounts = 1 => TightAt(c, label, l)
  <2> SUFFICES ASSUME up, mounts = 1 PROVE TightAt(c, label, l)
    OBVIOUS
  <2>1. Within(c.inode, OrderOf(old)) /\ Within(c.inode, OrderOf(md[c.inode]))
    BY <1>0, <1>1, TightThread DEF TightAt, Modifies
  <2>2. label = "set_size" => OrderOf(l.cur) = OrderOf(old)
    BY <1>4, <1>5
  <2>3. label = "new_data" => OrderOf(l.cur) - l.need = OrderOf(old) /\ l.need <= OrderOf(l.cur)
    BY <1>4, <1>5
  <2> QED
    BY <1>1, <1>4, <2>1, <2>2, <2>3 DEF TightAt, Growing, Linking, Copying, Modifies
<1>7. NoLeak'
  <2>1. pc'[t] = label /\ \A u \in Threads \ {t} : pc'[u] = pc[u] /\ loc'[u] = loc[u]
    BY <1>4, GotoEffect DEF TypeInv
  <2>2. \A u \in Threads : Pending(u)' = Pending(u) /\ Removing(u)' = Removing(u)
    BY <1>1, <1>4, <2>1 DEF Pending, Removing
  <2> QED
    BY <1>1, <2>2, FrameLeak DEF OrderInv, Linked
<1> QED
  BY <1>0, <1>1, <1>4, <1>6, <1>7, LocalOrder

\* A read works on no file.
LEMMA ReadOrder ==
    ASSUME TypeInv, LinkInv, OrderInv, TypeOK', NEW t \in Threads, FindMdForRead(t) \/ FindDataForRead(t)
    PROVE  OrderInv'
<1>1. /\ call[t].op = "read"  /\ pc[t] \in {"find_md", "find_data"}
      /\ UNCHANGED <<md, lookup, data, up, mounts, call>>
  BY DEF FindMdForRead, FindDataForRead, store, daemon
<1>2. PICK label \in {"find_lookup", "reply"} : \E l : Goto(t, label, l)
  BY DEF FindMdForRead, FindDataForRead
<1>3. PICK l : Goto(t, label, l)
  BY <1>2
<1>4. TightAt(call[t], label, l)
  BY <1>1 DEF TightAt, Modifies
<1>5. NoLeak'
  <2>1. pc'[t] = label /\ \A u \in Threads \ {t} : pc'[u] = pc[u] /\ loc'[u] = loc[u]
    BY <1>3, GotoEffect DEF TypeInv
  <2>2. \A u \in Threads : Pending(u)' = Pending(u) /\ Removing(u)' = Removing(u)
    BY <1>1, <2>1 DEF Pending, Removing
  <2> QED
    BY <1>1, <2>2, FrameLeak DEF OrderInv, Linked
<1> QED
  BY <1>1, <1>3, <1>4, <1>5, LocalOrder

\* The new block is pending.
LEMMA NewDataOrder ==
    ASSUME TypeInv, LinkInv, OrderInv, TypeOK', NEW t \in Threads, NewData(t)
    PROVE  OrderInv'
<1>1. PICK d \in DataIds \ DOMAIN data :
          /\ DOMAIN data' = DOMAIN data \cup {d}
          /\ Goto(t, "max_order", [loc[t] EXCEPT !.id = d])
  BY DEF NewData
<1>2. pc[t] = "new_data" /\ UNCHANGED <<md, lookup, up, mounts, call>>
  BY DEF NewData, daemon
<1>3. PICK l : Goto(t, "max_order", l) /\ l.cur = loc[t].cur /\ l.need = loc[t].need /\ l.id = d
  BY <1>1, ThreadTypes DEF LocalTypes
<1>4. up /\ mounts = 1 => TightAt(call[t], "max_order", l)
  BY <1>2, <1>3, TightThread DEF TightAt, Growing, Linking, Copying
<1>5. /\ pc'[t] = "max_order"  /\ loc'[t].id = d
      /\ \A u \in Threads \ {t} : pc'[u] = pc[u] /\ loc'[u] = loc[u]
  BY <1>3, GotoEffect DEF TypeInv
<1>6. /\ Pending(t) = {}  /\ Removing(t) = {}  /\ Pending(t)' = {d}  /\ Removing(t)' = {}
      /\ \A u \in Threads \ {t} : Pending(u)' = Pending(u) /\ Removing(u)' = Removing(u)
  BY <1>2, <1>5 DEF Pending, Removing
<1>7. NoLeak'
  <2>1. up /\ mounts = 1 => \A x : x \in DOMAIN data' <=> Held(x)'
    BY <1>1, <1>2, <1>6, LeakFree DEF OrderInv, Held, Linked
  <2> QED
    BY <1>2, <2>1 DEF NoLeak, Held
<1> QED
  BY <1>2, <1>3, <1>4, <1>7, LocalOrder

\* The order computed is the next one.
LEMMA MaxOrderOrder ==
    ASSUME TypeInv, LinkInv, OrderInv, TypeOK', NEW t \in Threads, MaxOrder(t)
    PROVE  OrderInv'
<1>1. pc[t] = "max_order" /\ UNCHANGED <<md, lookup, data, up, mounts, call>>
  BY DEF MaxOrder, store, daemon
<1>2. PICK l : /\ Goto(t, "new_lookup", l)  /\ l.cur = loc[t].cur  /\ l.need = loc[t].need
               /\ l.id = loc[t].id  /\ l.order = NextOrder(call[t].inode)
  BY ThreadTypes DEF MaxOrder, LocalTypes
<1>3. up /\ mounts = 1 => TightAt(call[t], "new_lookup", l)
  BY <1>1, <1>2, TightThread DEF TightAt, Growing, Linking, Copying
<1>4. /\ pc'[t] = "new_lookup"  /\ loc'[t].id = loc[t].id
      /\ \A u \in Threads \ {t} : pc'[u] = pc[u] /\ loc'[u] = loc[u]
  BY <1>2, GotoEffect DEF TypeInv
<1>5. \A u \in Threads : Pending(u)' = Pending(u) /\ Removing(u)' = Removing(u)
  BY <1>1, <1>4 DEF Pending, Removing
<1>6. NoLeak'
  BY <1>1, <1>5, FrameLeak DEF OrderInv, Linked
<1> QED
  BY <1>1, <1>2, <1>3, <1>6, LocalOrder

\* The loop over the blocks leaves their number alone.
LEMMA CopyOrder ==
    ASSUME TypeInv, LinkInv, OrderInv, TypeOK', NEW t \in Threads, FindLookup(t) \/ FindDataForWrite(t)
    PROVE  OrderInv'
<1>1. pc[t] \in Copying /\ UNCHANGED <<md, lookup, data, up, mounts, call>>
  BY DEF FindLookup, FindDataForWrite, Copying, store, daemon
<1>2. call[t].op \in {"read", "write"}
  BY <1>1, ThreadTypes DEF ControlAt, MakesTrip, Growing, Linking, Cutting, Copying
<1>3. PICK label \in {"find_data", "update_data"} : \E l : Goto(t, label, l) /\ l.cur = loc[t].cur
  <2>1. CASE FindLookup(t)
    BY <2>1, ThreadTypes DEF FindLookup, LocalTypes
  <2>2. CASE FindDataForWrite(t)
    <3> DEFINE next == AfterBlock(loc[t].fp, BufEnd(call[t], loc[t].idx))
               m == [loc[t] EXCEPT !.blk = Patch(data[loc[t].id], loc[t].fp, call[t].off, call[t].bufs[loc[t].idx]),
                                   !.fp = next, !.total = @ + (next - loc[t].fp)]
    <3>1. Goto(t, "update_data", m)
      BY <2>2 DEF FindDataForWrite
    <3>2. m.cur = loc[t].cur
      BY ThreadTypes DEF LocalTypes
    <3> HIDE DEF m
    <3> QED
      BY <3>1, <3>2
  <2> QED
    BY <2>1, <2>2
<1>4. PICK l : Goto(t, label, l) /\ l.cur = loc[t].cur
  BY <1>3
<1>5. up /\ mounts = 1 => TightAt(call[t], label, l)
  BY <1>1, <1>2, <1>4, TightThread DEF TightAt, Growing, Linking, Copying, Modifies
<1> QED
  BY <1>1, <1>4, <1>5, QuietOrder DEF Linking, Copying

\* The next buffer may need more blocks, past those there are.
LEMMA UpdateDataOrder ==
    ASSUME TypeInv, LinkInv, OrderInv, TypeOK', NEW t \in Threads, UpdateData(t)
    PROVE  OrderInv'
<1>0. PICK c : c = call[t]
  OBVIOUS
<1> DEFINE l == [loc[t] EXCEPT !.id = NoId, !.blk = ZeroBlock]
           n == EnterBuffer(c, l, l.idx + 1)
<1>1. /\ pc[t] = "update_data"  /\ UNCHANGED <<md, lookup, up, mounts, call>>
      /\ DOMAIN data' = DOMAIN data
      /\ \/ Goto(t, "find_lookup", l)
         \/ l.idx < Len(c.bufs) /\ Goto(t, GrowOr(n, "find_lookup"), n)
         \/ Goto(t, "set_size", l)
  BY <1>0 DEF UpdateData, daemon
<1>2. c \in RequestTypes /\ loc[t] \in LocalTypes /\ ControlAt(c, pc[t], loc[t])
  BY <1>0, ThreadTypes
<1>3. c.op = "write" /\ loc[t].idx \in DOMAIN c.bufs
  BY <1>1, <1>2 DEF ControlAt, MakesTrip, Growing, Linking, Copying, Cutting
<1>4. l \in LocalTypes /\ l.cur = loc[t].cur /\ l.idx = loc[t].idx
  BY <1>2, ZeroAssumption DEF LocalTypes, ZeroBlock, Block
<1>5. up /\ mounts = 1 => Within(c.inode, OrderOf(l.cur))
  BY <1>0, <1>1, <1>3, <1>4, TightThread DEF TightAt
<1> HIDE DEF l
<1>6. ASSUME NEW label, label \in {"set_size", "find_lookup"}, Goto(t, label, l)
      PROVE  OrderInv'
  <2>1. up /\ mounts = 1 => TightAt(c, label, l)
    BY <1>3, <1>5, <1>6 DEF TightAt, Growing, Linking, Copying, Modifies
  <2> QED
    BY <1>0, <1>1, <1>6, <2>1, QuietOrder DEF Linking
<1>7. ASSUME l.idx < Len(c.bufs), NEW label, label = GrowOr(n, "find_lookup"), Goto(t, label, n)
      PROVE  OrderInv'
  <2>1. l.idx + 1 \in DOMAIN c.bufs
    BY <1>2, <1>3, <1>4, <1>7 DEF RequestTypes
  <2>2. n \in LocalTypes /\ OrderOf(n.cur) - n.need = OrderOf(l.cur)
    BY <1>2, <1>4, <2>1, EnterBufferSizes
  <2>3. n.need \in Nat /\ OrderOf(n.cur) \in Nat /\ OrderOf(l.cur) \in Nat
    BY <1>4, <2>2, OrderFacts DEF LocalTypes
  <2>4. label = (IF n.need > 0 THEN "new_data" ELSE "find_lookup")
    BY <1>7 DEF GrowOr
  <2> HIDE DEF n
  <2>5. n.need <= OrderOf(n.cur) /\ (~(n.need > 0) => OrderOf(n.cur) = OrderOf(l.cur))
    BY <2>2, <2>3
  <2>6. up /\ mounts = 1 => TightAt(c, label, n)
    BY <1>3, <1>5, <2>2, <2>4, <2>5 DEF TightAt, Growing, Linking, Copying, Modifies
  <2> QED
    BY <1>0, <1>1, <1>7, <2>4, <2>6, QuietOrder DEF Linking
<1>8. CASE Goto(t, "find_lookup", l)
  BY <1>6, <1>8
<1>9. CASE l.idx < Len(c.bufs) /\ Goto(t, GrowOr(n, "find_lookup"), n)
  <2> DEFINE g == GrowOr(n, "find_lookup")
  <2>1. PICK label : label = g
    OBVIOUS
  <2> HIDE DEF n
  <2> QED
    BY <1>7, <1>9, <2>1
<1>10. CASE Goto(t, "set_size", l)
  BY <1>6, <1>10
<1> QED
  BY <1>1, <1>8, <1>9, <1>10

\* The find has all that the delete will take.
LEMMA FindIdsOrder ==
    ASSUME TypeInv, LinkInv, OrderInv, TypeOK', NEW t \in Threads, FindIds(t)
    PROVE  OrderInv'
<1> DEFINE found == {e.id : e \in EntriesFrom(call[t].inode, Blocks(call[t].size))}
<1>1. pc[t] = "find_ids" /\ UNCHANGED <<md, lookup, data, up, mounts, call>>
  BY DEF FindIds, store, daemon
<1>2. PICK l : Goto(t, "del_lookup", l) /\ l.gone = found
  <2>1. Goto(t, "del_lookup", [loc[t] EXCEPT !.gone = found])
    BY DEF FindIds
  <2> HIDE DEF found
  <2> QED
    BY <2>1, ThreadTypes DEF LocalTypes
<1>3. call[t].op = "truncate"
  BY <1>1, ThreadTypes DEF ControlAt, MakesTrip, Growing, Linking, Copying
<1>4. TightAt(call[t], "del_lookup", l)
  BY <1>3 DEF TightAt, Growing, Linking
<1>5. pc'[t] = "del_lookup" /\ \A u \in Threads \ {t} : pc'[u] = pc[u] /\ loc'[u] = loc[u]
  BY <1>2, GotoEffect DEF TypeInv
<1>6. \A u \in Threads : Pending(u)' = Pending(u) /\ Removing(u)' = Removing(u)
  BY <1>1, <1>5 DEF Pending, Removing
<1>7. NoLeak'
  BY <1>1, <1>6, FrameLeak DEF OrderInv, Linked
<1>8. \A e \in EntriesFrom(call[t].inode, Blocks(call[t].size)) : e.id \in l.gone
  BY <1>2
<1> HIDE DEF found
<1> QED
  BY <1>1, <1>2, <1>4, <1>7, <1>8, LocalOrder

\* A block that was unlinked goes.
LEMMA DelDataOrder ==
    ASSUME TypeInv, LinkInv, OrderInv, TypeOK', NEW t \in Threads, DelData(t)
    PROVE  OrderInv'
<1>1. PICK d \in loc[t].gone :
          /\ DOMAIN data' = DOMAIN data \ {d}
          /\ Goto(t, IF loc[t].gone = {d} THEN "set_size" ELSE "del_data", [loc[t] EXCEPT !.gone = @ \ {d}])
  BY DEF DelData
<1>2. pc[t] = "del_data" /\ UNCHANGED <<md, lookup, up, mounts, call>>
  BY DEF DelData, daemon
<1>3. PICK label, l :
          /\ Goto(t, label, l)  /\ l.cur = loc[t].cur  /\ l.gone = loc[t].gone \ {d}
          /\ label = (IF loc[t].gone = {d} THEN "set_size" ELSE "del_data")
  BY <1>1, ThreadTypes DEF LocalTypes
<1>4. call[t].op = "truncate"
  BY <1>2, ThreadTypes DEF ControlAt, MakesTrip, Growing, Linking, Copying
<1>5. up /\ mounts = 1 => TightAt(call[t], label, l)
  BY <1>2, <1>3, <1>4, TightThread DEF TightAt, Growing, Linking
<1>6. /\ pc'[t] = label  /\ loc'[t] = l
      /\ \A u \in Threads \ {t} : pc'[u] = pc[u] /\ loc'[u] = loc[u]
  BY <1>3, GotoEffect DEF TypeInv
<1>7. /\ Pending(t) = {}  /\ Pending(t)' = {}  /\ d \in Removing(t)  /\ Removing(t)' = Removing(t) \ {d}
      /\ \A u \in Threads \ {t} : Pending(u)' = Pending(u) /\ Removing(u)' = Removing(u)
  BY <1>2, <1>3, <1>6 DEF Pending, Removing
<1>8. d \notin Linked /\ Linked' = Linked
  BY <1>2, <1>7 DEF LinkInv, RemovingOwned, Linked
<1>9. \A u \in Threads \ {t} : d \notin Pending(u) /\ d \notin Removing(u)
  BY <1>7 DEF LinkInv, RemovingOwned
<1>10. NoLeak'
  <2>1. up /\ mounts = 1 => \A x : x \in DOMAIN data' <=> Held(x)'
    BY <1>1, <1>2, <1>7, <1>8, <1>9, LeakFree DEF OrderInv, Held
  <2> QED
    BY <1>2, <2>1 DEF NoLeak, Held
<1> QED
  BY <1>2, <1>3, <1>5, <1>10, LocalOrder

-----------------------------------------------------------------------------
(* Documents come and go.                                                    *)

\* The next order of a numbered file is not taken, and the one after the last.
LEMMA NextOrderFacts ==
    ASSUME TypeInv, NEW i, Numbered(i)
    PROVE  /\ NextOrder(i) \in Nat
           /\ \A n \in Orders(i) : n < NextOrder(i)
           /\ \A n \in 0 .. NextOrder(i) : n = NextOrder(i) \/ n \in Orders(i)
           /\ \A n \in Nat : Within(i, n) => NextOrder(i) <= n + 1
           /\ Orders(i) = {} => NextOrder(i) = 0
<1>1. Entries(i) = {} <=> Orders(i) = {}
  BY DEF Orders
<1>2. CASE Orders(i) = {}
  <2>1. NextOrder(i) = 0
    BY <1>1, <1>2 DEF NextOrder
  <2> QED
    BY <1>2, <2>1
<1>3. CASE Orders(i) # {}
  <2>1. Orders(i) \in SUBSET Nat
    BY OrdersNat DEF TypeInv
  <2>2. PICK m \in Nat : \A x \in Orders(i) : x <= m
    BY DEF TypeInv, OrdersBounded, Orders, Entries
  <2>3. Max(Orders(i)) \in Orders(i) /\ \A x \in Orders(i) : x <= Max(Orders(i))
    BY <1>3, <2>1, <2>2, MaxOfBounded
  <2>4. NextOrder(i) = Max(Orders(i)) + 1
    BY <1>1, <1>3 DEF NextOrder
  <2> DEFINE x == Max(Orders(i))
  <2>5. x \in Nat /\ x \in Orders(i) /\ NextOrder(i) = x + 1 /\ \A n \in Orders(i) : n <= x
    BY <2>1, <2>3, <2>4
  <2> HIDE DEF x
  <2>6. \A n \in 0 .. x : n \in Orders(i)
    BY <2>5 DEF Numbered, Orders
  <2>7. \A n \in Orders(i) : n < NextOrder(i)
    BY <2>1, <2>5
  <2>8. \A n \in Nat : Within(i, n) => NextOrder(i) <= n + 1
    BY <2>5 DEF Within
  <2> QED
    BY <1>3, <2>5, <2>6, <2>7, <2>8
<1> QED
  BY <1>2, <1>3

\* A new document gets the number after the last one of its file.
LEMMA NewLookupOrder ==
    ASSUME TypeInv, LinkInv, SizedOK, OrderInv, TypeOK', NEW t \in Threads, NewLookup(t)
    PROVE  OrderInv'
<1>0. PICK c, i, o, id : c = call[t] /\ i = c.inode /\ o = loc[t].order /\ id = loc[t].id
  OBVIOUS
<1> DEFINE e == [inode |-> i, order |-> o, id |-> id]
<1>1. /\ pc[t] = "new_lookup"  /\ lookup' = lookup \cup {e}
      /\ UNCHANGED <<md, data, up, mounts, call>>
  BY <1>0 DEF NewLookup, daemon
<1>2. c \in RequestTypes /\ loc[t] \in LocalTypes /\ ControlAt(c, pc[t], loc[t])
  BY <1>0, ThreadTypes
<1>3. PICK label, l :
          /\ Goto(t, label, l)  /\ l.cur = loc[t].cur  /\ l.need = loc[t].need - 1
          /\ label = GrowOr(l, AfterGrowth(c.op))
  <2> DEFINE m == [loc[t] EXCEPT !.id = NoId, !.order = 0, !.need = @ - 1]
  <2>1. Goto(t, GrowOr(m, AfterGrowth(c.op)), m)
    BY <1>0 DEF NewLookup
  <2>2. m.cur = loc[t].cur /\ m.need = loc[t].need - 1
    BY <1>2 DEF LocalTypes
  <2> HIDE DEF m
  <2> QED
    BY <2>1, <2>2
<1>4. /\ loc[t].need \in Nat  /\ loc[t].need >= 1  /\ l.need \in Nat
      /\ OrderOf(l.cur) \in Nat  /\ i \in Inodes
      /\ c.op \in {"create", "write", "truncate"}
  <2>1. loc[t].cur \in Nat /\ loc[t].need >= 1 /\ loc[t].need \in Nat
    BY <1>1, <1>2 DEF ControlAt, Growing, Linking, LocalTypes
  <2> QED
    BY <1>0, <1>1, <1>2, <1>3, <2>1, OrderFacts DEF ControlAt, MakesTrip, Copying, Cutting
<1>5. label = (IF l.need > 0 THEN "new_data" ELSE AfterGrowth(c.op))
  BY <1>3 DEF GrowOr
<1>6. /\ c.op = "create" => label \in {"new_data", "insert_md"}
      /\ c.op = "write" => label \in {"new_data", "find_lookup"}
      /\ c.op = "truncate" => label \in {"new_data", "set_size"}
  BY <1>5 DEF AfterGrowth
<1>7. /\ pc'[t] = label  /\ loc'[t] = l  /\ call' = call  /\ Alone(t)
      /\ \A u \in Threads \ {t} : pc'[u] = pc[u] /\ loc'[u] = loc[u]
  BY <1>1, <1>3, GotoEffect DEF TypeInv, Alone
<1>8. Numbered(i) /\ o = NextOrder(i)
  BY <1>0, <1>1, <1>4, NumberedFiles DEF OrderInv, NextOrderOK, TypeInv
<1>9. /\ o \in Nat  /\ \A n \in Orders(i) : n < o
      /\ \A n \in 0 .. o : n = o \/ n \in Orders(i)
      /\ \A n \in Nat : Within(i, n) => o <= n + 1
      /\ Orders(i) = {} => o = 0
  BY <1>8, NextOrderFacts
<1>10. e.inode = i /\ e.order = o /\ e.id = id
  OBVIOUS
<1> HIDE DEF e
<1>11. /\ \A j : j # i => Entries(j)' = Entries(j)
       /\ Entries(i)' = Entries(i) \cup {e}
       /\ Orders(i)' = Orders(i) \cup {o}
  <2>1. \A j : Entries(j)' = Entries(j) \cup (IF j = i THEN {e} ELSE {})
    BY <1>1, <1>10 DEF Entries
  <2> QED
    BY <1>10, <2>1 DEF Orders
<1>12. Working(t, i) /\ \A j \in Inodes : Same(j) \/ Working(t, j)
  BY <1>0, <1>1, <1>4, <1>11 DEF Working, Same
<1>13. Numbered(i)'
  <2>1. \A f \in Entries(i) : f.order \in Orders(i)
    BY DEF Orders
  <2>2. \A f, g \in Entries(i)' : f.order = g.order => f = g
    BY <1>8, <1>9, <1>10, <1>11, <2>1 DEF Numbered
  <2>3. \A f \in Entries(i)' : \A n \in 0 .. f.order : n \in Orders(i)'
    BY <1>8, <1>9, <1>10, <1>11 DEF Numbered
  <2> QED
    BY <2>2, <2>3 DEF Numbered
<1>14. up /\ mounts = 1 => TightAt(c, label, l)'
  <2> SUFFICES ASSUME up, mounts = 1 PROVE TightAt(c, label, l)'
    OBVIOUS
  <2>1. TightAt(c, "new_lookup", loc[t])
    BY <1>0, <1>1, TightThread
  <2>2. CASE c.op = "create"
    <3>1. Orders(i) = {} /\ o = 0
      BY <1>0, <1>9, <2>1, <2>2 DEF TightAt, Growing, Linking
    <3>2. Orders(i)' = {0}
      BY <1>11, <3>1
    <3>3. label = "insert_md"
      <4>1. loc[t].need = 1
        BY <1>0, <1>1, <2>2 DEF SizedOK, SizedAt, Growing, Linking
      <4> QED
        BY <1>3, <1>4, <1>5, <2>2, <4>1 DEF AfterGrowth
    <3> QED
      BY <1>0, <2>2, <3>2, <3>3 DEF TightAt, Within, Modifies, Growing, Linking
  <2>3. CASE Modifies(c.op)
    <3>1. loc[t].need <= OrderOf(l.cur) /\ Within(i, OrderOf(l.cur) - loc[t].need)
      BY <1>0, <1>3, <2>1, <2>3 DEF TightAt, Growing, Linking
    <3> DEFINE k == OrderOf(l.cur) - loc[t].need
    <3>2. k \in Nat /\ OrderOf(l.cur) - l.need = k + 1 /\ l.need <= OrderOf(l.cur)
      BY <1>3, <1>4, <3>1
    <3>3. Within(i, k)
      BY <3>1
    <3> HIDE DEF k
    <3>4. \A n \in Orders(i)' : n <= k + 1
      BY <1>9, <1>11, <3>2, <3>3, OrdersNat DEF Within, TypeInv
    <3>5. label # "new_data" => OrderOf(l.cur) = k + 1
      BY <1>4, <1>5, <3>2
    <3> QED
      BY <1>0, <1>6, <2>3, <3>2, <3>4, <3>5
         DEF TightAt, Within, Modifies, Growing, Linking, Copying, OrderOf
  <2> QED
    BY <1>4, <2>2, <2>3 DEF Modifies
<1>15. NoLeak'
  <2>1. /\ Pending(t) = {id}  /\ Removing(t) = {}  /\ Pending(t)' = {}  /\ Removing(t)' = {}
        /\ \A u \in Threads \ {t} : Pending(u)' = Pending(u) /\ Removing(u)' = Removing(u)
    BY <1>0, <1>1, <1>6, <1>4, <1>7 DEF Pending, Removing
  <2>2. Linked' = Linked \cup {id}
    BY <1>1, <1>10 DEF Linked
  <2>3. up /\ mounts = 1 => \A x : x \in DOMAIN data' <=> Held(x)'
    BY <1>1, <2>1, <2>2, LeakFree DEF OrderInv, Held
  <2> QED
    BY <1>1, <2>3 DEF NoLeak, Held
<1>16. label \notin {"new_lookup", "del_lookup", "reply"}
  BY <1>4, <1>6
<1>17. call'[t].op = "create" /\ pc'[t] # "reply" =>
           call'[t].inode \notin DOMAIN md' /\ \A u \in Threads \ {t} : call[u].inode # call'[t].inode
  BY <1>1, <1>7 DEF OrderInv, ExclusiveOK
<1>18. \A j \in Inodes : Working(t, j) => Numbered(j)' /\ Working(t, j)'
  BY <1>0, <1>7, <1>13, <1>16 DEF Working
<1>19. up /\ mounts = 1 => TightAt(call[t], pc[t], loc[t])'
  BY <1>0, <1>7, <1>14 DEF TightAt
<1> QED
  BY <1>1, <1>7, <1>12, <1>15, <1>16, <1>17, <1>18, <1>19, FrameOrder

\* A new file has one block, and its size is 0.
LEMMA InsertMdOrder ==
    ASSUME TypeInv, LinkInv, OrderInv, TypeOK', NEW t \in Threads, InsertMd(t)
    PROVE  OrderInv'
<1>0. PICK i : i = call[t].inode
  OBVIOUS
<1>1. /\ pc[t] = "insert_md"  /\ i \notin DOMAIN md  /\ Goto(t, "reply", loc[t])
      /\ md' = [j \in DOMAIN md \cup {i} |-> IF j = i THEN 0 ELSE md[j]]
      /\ UNCHANGED <<lookup, data, up, mounts, call>>
  BY <1>0 DEF InsertMd, daemon
<1>2. call[t].op = "create" /\ Working(t, i)
  BY <1>0, <1>1, ThreadTypes DEF ControlAt, MakesTrip, Growing, Linking, Copying, Cutting, Working
<1>3. /\ pc'[t] = "reply"  /\ call' = call  /\ Alone(t)
      /\ \A u \in Threads \ {t} : pc'[u] = pc[u] /\ loc'[u] = loc[u]
  BY <1>1, GotoEffect DEF TypeInv, Alone
<1>4. \A j : Entries(j)' = Entries(j) /\ Orders(j)' = Orders(j)
  BY <1>1 DEF Orders, Entries
<1>5. i \in DOMAIN md' /\ md'[i] = 0 /\ \A j \in Inodes : Same(j) \/ Working(t, j)
  BY <1>1, <1>2, <1>4 DEF Same
<1>6. \A j \in Inodes : Numbered(j)'
  <2> SUFFICES ASSUME NEW j \in Inodes PROVE Numbered(j)'
    OBVIOUS
  <2>1. Numbered(j)
    BY NumberedFiles DEF OrderInv, TypeInv
  <2> QED
    BY <1>4, <2>1 DEF Numbered
<1>7. TightAt(call[t], pc[t], loc[t])'
  BY <1>2, <1>3 DEF TightAt, Modifies, Growing, Linking
<1>8. ASSUME up, mounts = 1, NEW j \in Inodes, Working(t, j) PROVE TightFile(j)'
  <2>1. j = i
    BY <1>0, <1>8 DEF Working
  <2>2. Within(i, 0)
    BY <1>0, <1>1, <1>2, <1>8, TightThread DEF TightAt
  <2> QED
    BY <1>4, <1>5, <2>1, <2>2, OrderOfZero DEF TightFile, Within
<1>9. NoLeak'
  <2>1. \A u \in Threads : Pending(u)' = Pending(u) /\ Removing(u)' = Removing(u)
    BY <1>1, <1>3 DEF Pending, Removing
  <2> QED
    BY <1>1, <2>1, FrameLeak DEF OrderInv, Linked
<1> QED
  BY <1>1, <1>3, <1>5, <1>6, <1>7, <1>8, <1>9, FrameOrder

\* The size stored reaches the last block.
LEMMA SetSizeOrder ==
    ASSUME TypeInv, LinkInv, OrderInv, TypeOK', NEW t \in Threads, SetSize(t)
    PROVE  OrderInv'
<1>0. PICK i, n : i = call[t].inode /\ n = loc[t].cur
  OBVIOUS
<1>1. /\ pc[t] = "set_size"  /\ Goto(t, "reply", loc[t])  /\ md' = [md EXCEPT ![i] = n]
      /\ UNCHANGED <<lookup, data, up, mounts, call>>
  BY <1>0 DEF SetSize, daemon
<1>2. call[t].op \in {"write", "truncate"} /\ i \in DOMAIN md /\ Working(t, i)
  BY <1>0, <1>1, ThreadTypes DEF ControlAt, MakesTrip, Growing, Linking, Copying, Cutting, Working
<1>3. /\ pc'[t] = "reply"  /\ call' = call  /\ Alone(t)
      /\ \A u \in Threads \ {t} : pc'[u] = pc[u] /\ loc'[u] = loc[u]
  BY <1>1, GotoEffect DEF TypeInv, Alone
<1>4. \A j : Entries(j)' = Entries(j) /\ Orders(j)' = Orders(j)
  BY <1>1 DEF Orders, Entries
<1>5. md'[i] = n /\ \A j \in Inodes : Same(j) \/ Working(t, j)
  BY <1>1, <1>2, <1>4 DEF Same
<1>6. \A j \in Inodes : Numbered(j)'
  <2> SUFFICES ASSUME NEW j \in Inodes PROVE Numbered(j)'
    OBVIOUS
  <2>1. Numbered(j)
    BY NumberedFiles DEF OrderInv, TypeInv
  <2> QED
    BY <1>4, <2>1 DEF Numbered
<1>7. up /\ mounts = 1 => TightAt(call[t], pc[t], loc[t])'
  <2> SUFFICES ASSUME up, mounts = 1 PROVE TightAt(call[t], pc[t], loc[t])'
    OBVIOUS
  <2>1. Within(i, OrderOf(n))
    BY <1>0, <1>1, <1>2, TightThread DEF TightAt
  <2>2. \A x \in Orders(i)' : x <= OrderOf(md'[i])
    BY <1>4, <1>5, <2>1 DEF Within
  <2> QED
    BY <1>0, <1>2, <1>3, <2>2 DEF TightAt, Modifies, Within, Growing, Linking, Copying, OrderOf
<1>8. \A j \in Inodes : Working(t, j) => Working(t, j)'
  BY <1>2, <1>3 DEF Working
<1>9. NoLeak'
  <2>1. \A u \in Threads : Pending(u)' = Pending(u) /\ Removing(u)' = Removing(u)
    BY <1>1, <1>3 DEF Pending, Removing
  <2> QED
    BY <1>1, <2>1, FrameLeak DEF OrderInv, Linked
<1> QED
  BY <1>1, <1>2, <1>3, <1>5, <1>6, <1>7, <1>8, <1>9, FrameOrder

\* The delete leaves the blocks of the new size, and what it unlinks is removed next.
LEMMA DelLookupOrder ==
    ASSUME TypeInv, LinkInv, SizedOK, OrderInv, TypeOK', NEW t \in Threads, DelLookup(t)
    PROVE  OrderInv'
<1>0. PICK i, n, b : i = call[t].inode /\ n = call[t].size /\ b = Blocks(n)
  OBVIOUS
<1>1. /\ pc[t] = "del_lookup"  /\ lookup' = lookup \ EntriesFrom(i, b)
      /\ UNCHANGED <<md, data, up, mounts, call>>
  BY <1>0 DEF DelLookup, daemon
<1>2. PICK label : /\ label = (IF loc[t].gone = {} THEN "set_size" ELSE "del_data")
                   /\ Goto(t, label, loc[t])
  BY DEF DelLookup
<1>3. call[t].op = "truncate" /\ i \in Inodes /\ n \in Nat /\ Working(t, i)
  BY <1>0, <1>1, ThreadTypes
     DEF ControlAt, MakesTrip, Growing, Linking, Copying, Cutting, RequestTypes, Working
<1>4. /\ pc'[t] = label  /\ loc'[t] = loc[t]  /\ call' = call  /\ md' = md  /\ Alone(t)
      /\ \A u \in Threads \ {t} : pc'[u] = pc[u] /\ loc'[u] = loc[u]
  BY <1>1, <1>2, GotoEffect DEF TypeInv, Alone
<1>5. loc[t].cur = n
  BY <1>0, <1>1, <1>3 DEF SizedOK, SizedAt
<1>6. OrderOf(n) \in Nat /\ b = OrderOf(n) + 1
  BY <1>0, <1>3, OrderFacts
<1>7. /\ \A j : j # i => Entries(j)' = Entries(j)
      /\ Entries(i)' = {e \in Entries(i) : ~(e.order >= b)}
      /\ Orders(i)' = {x \in Orders(i) : ~(x >= b)}
  <2>1. /\ \A j : j # i => Entries(j)' = Entries(j)
        /\ Entries(i)' = {e \in Entries(i) : ~(e.order >= b)}
    BY <1>1 DEF EntriesFrom, Entries
  <2> QED
    BY <2>1 DEF Orders
<1>8. \A j \in Inodes : Same(j) \/ Working(t, j)
  BY <1>3, <1>4, <1>7 DEF Same
<1>9. Orders(i) \subseteq Nat /\ \A e \in Entries(i) : e.order \in Orders(i)
  BY OrdersNat DEF TypeInv, Orders
<1>10. Numbered(i)'
  <2>1. Numbered(i)
    BY <1>3, NumberedFiles DEF OrderInv, TypeInv
  <2>2. \A e, f \in Entries(i)' : e.order = f.order => e = f
    BY <1>7, <2>1 DEF Numbered
  <2>3. ASSUME NEW e \in Entries(i)', NEW x \in 0 .. e.order PROVE x \in Orders(i)'
    <3>1. e \in Entries(i) /\ ~(e.order >= b) /\ e.order \in Nat
      BY <1>7, <1>9
    <3>2. x \in Orders(i)
      BY <2>1, <3>1 DEF Numbered
    <3> QED
      BY <1>6, <1>7, <3>1, <3>2
  <2> QED
    BY <2>2, <2>3 DEF Numbered
<1>11. TightAt(call[t], pc[t], loc[t])'
  <2>1. \A x \in Orders(i)' : x <= OrderOf(n)
    BY <1>6, <1>7, <1>9
  <2> QED
    BY <1>0, <1>2, <1>3, <1>4, <1>5, <2>1 DEF TightAt, Modifies, Within, Growing, Linking, OrderOf
<1>12. \A j \in Inodes : Working(t, j) => Working(t, j)' /\ Numbered(j)'
  BY <1>0, <1>3, <1>4, <1>10 DEF Working
<1>13. NoLeak'
  <2>1. Linked = Linked' \cup loc[t].gone
    <3>1. {e.id : e \in EntriesFrom(i, b)} = loc[t].gone
      BY <1>0, <1>1 DEF OrderInv, FoundAll, LinkInv, FoundStillThere
    <3>2. EntriesFrom(i, b) \subseteq lookup
      BY DEF EntriesFrom, Entries
    <3> QED
      BY <1>1, <3>1, <3>2 DEF Linked
  <2>2. /\ Pending(t) = {}  /\ Removing(t) = {}  /\ Pending(t)' = {}  /\ Removing(t)' = loc[t].gone
        /\ \A u \in Threads \ {t} : Pending(u)' = Pending(u) /\ Removing(u)' = Removing(u)
    BY <1>1, <1>2, <1>4 DEF Pending, Removing
  <2>3. up /\ mounts = 1 => \A x : x \in DOMAIN data' <=> Held(x)'
    BY <1>1, <2>1, <2>2, LeakFree DEF OrderInv, Held
  <2> QED
    BY <1>1, <2>3 DEF NoLeak, Held
<1>14. call'[t] = call[t] /\ call'[t].op # "create" /\ pc'[t] \notin {"new_lookup", "del_lookup"}
  BY <1>2, <1>3, <1>4
<1> QED
  BY <1>1, <1>4, <1>8, <1>11, <1>12, <1>13, <1>14, FrameOrder

-----------------------------------------------------------------------------
(* Calls begin and end.                                                      *)

\* The documents of every file, when a step touches none.
LEMMA SameFiles ==
    ASSUME TypeInv, OrderInv, UNCHANGED <<md, lookup>>
    PROVE  /\ \A i : Same(i) /\ Orders(i)' = Orders(i)
           /\ \A i \in Inodes : Numbered(i)'
<1>1. \A i : Same(i) /\ Orders(i)' = Orders(i)
  BY DEF Same, Entries, Orders
<1>2. \A i \in Inodes : Numbered(i)
  BY NumberedFiles DEF OrderInv, TypeInv
<1> QED
  BY <1>1, <1>2 DEF Numbered, Same

\* A call that ends leaves no block past the size.
LEMMA ReplyOrder ==
    ASSUME TypeInv, LinkInv, OrderInv, TypeOK', NEW t \in Threads, Reply(t)
    PROVE  OrderInv'
<1>1. /\ pc[t] = "reply"  /\ call' = [call EXCEPT ![t] = NoCall]
      /\ Goto(t, "idle", NoLocals)  /\ UNCHANGED <<md, lookup, data, up, mounts>>
  BY DEF Reply, store, daemon
<1>2. /\ pc'[t] = "idle"  /\ call'[t] = NoCall  /\ Alone(t)
      /\ \A u \in Threads \ {t} : pc'[u] = pc[u] /\ loc'[u] = loc[u]
  BY <1>1, GotoEffect DEF TypeInv, TypeOK, Alone
<1>3. call'[t].op = "none" /\ call'[t].inode \notin Inodes
  BY <1>2, NoIdAssumption DEF NoCall
<1>4. /\ \A i : Same(i) /\ Orders(i)' = Orders(i)
      /\ \A i \in Inodes : Numbered(i)'
  BY <1>1, SameFiles
<1>5. TightAt(call[t], pc[t], loc[t])'
  BY <1>2, <1>3 DEF TightAt, Modifies
<1>6. ASSUME up, mounts = 1, NEW i \in Inodes, Working(t, i) PROVE TightFile(i)'
  <2>1. i = call[t].inode /\ Modifies(call[t].op)
    BY <1>1, <1>6 DEF Working, Modifies
  <2>2. i \in DOMAIN md
    BY <2>1, ThreadTypes DEF ControlAt, Modifies
  <2>3. Within(i, OrderOf(md[i]))
    BY <1>1, <1>6, <2>1, TightThread DEF TightAt
  <2> QED
    BY <1>1, <1>4, <2>2, <2>3 DEF TightFile, Within, OrderOf
<1>7. NoLeak'
  <2>1. \A u \in Threads : Pending(u)' = Pending(u) /\ Removing(u)' = Removing(u)
    BY <1>1, <1>2 DEF Pending, Removing
  <2> QED
    BY <1>1, <2>1, FrameLeak DEF OrderInv, Linked
<1> QED
  BY <1>1, <1>2, <1>3, <1>4, <1>5, <1>6, <1>7, FrameOrder

\* A create begins with an inode of its own, a write or a truncate with the
\* kernel's lock.
LEMMA BeginOrder ==
    ASSUME TypeInv, LinkInv, OrderInv, TypeOK', NEW t \in Threads,
           NEW label \in {"new_data", "find_md"}, NEW c, NEW n, Begin(t, label, c, n),
           \/ c.op = "create" /\ label = "new_data" /\ n = 1 /\ Unused(c.inode)
           \/ /\ c.op \in {"write", "read", "truncate"}  /\ label = "find_md"
              /\ c.inode \in DOMAIN md
              /\ Modifies(c.op) => ~KernelLocked(c.inode)
    PROVE  OrderInv'
<1>0. PICK l : l = [NoLocals EXCEPT !.need = n]
  OBVIOUS
<1>1. /\ pc[t] = "idle"  /\ call' = [call EXCEPT ![t] = c]
      /\ Goto(t, label, l)  /\ UNCHANGED <<md, lookup, data, up, mounts>>
  BY <1>0 DEF Begin, store, daemon
<1>2. /\ pc'[t] = label  /\ loc'[t] = l  /\ call'[t] = c  /\ Alone(t)
      /\ \A u \in Threads \ {t} : pc'[u] = pc[u] /\ loc'[u] = loc[u]
  BY <1>1, GotoEffect DEF TypeInv, TypeOK, Alone
<1>3. \A i : ~Working(t, i)
  BY <1>1, ThreadTypes DEF Working, ControlAt, MakesTrip, Growing, Linking, Copying, Cutting
<1>4. /\ \A i : Same(i) /\ Orders(i)' = Orders(i)
      /\ \A i \in Inodes : Numbered(i)'
  BY <1>1, SameFiles
<1>5. \/ c.inode \in DOMAIN md /\ c.op # "create"
      \/ c.inode \notin DOMAIN md /\ \A u \in Threads \ {t} : call[u].inode # c.inode
  BY DEF Unused
<1>6. up /\ mounts = 1 => TightAt(call[t], pc[t], loc[t])'
  <2> SUFFICES ASSUME up, mounts = 1 PROVE TightAt(call[t], pc[t], loc[t])'
    OBVIOUS
  <2>1. PICK i : i = c.inode
    OBVIOUS
  <2>2. CASE c.op = "create"
    <3>1. label = "new_data" /\ Orders(i)' = {}
      BY <1>4, <2>1, <2>2 DEF Unused, Orders
    <3> QED
      BY <1>2, <2>1, <2>2, <3>1 DEF TightAt, Modifies, Growing, Linking
  <2>3. CASE Modifies(c.op)
    <3>1. i \in DOMAIN md /\ i \in Inodes /\ ~KernelLocked(i) /\ label = "find_md"
      BY <2>1, <2>3 DEF Modifies, TypeInv, TypeOK
    <3>2. \A u \in Threads : ~Working(u, i)
      BY <3>1 DEF Working, KernelLocked, Modifies, OrderInv, ExclusiveOK
    <3>3. \A x \in Orders(i) : x <= OrderOf(md[i])
      BY <3>1, <3>2 DEF OrderInv, TightOK, TightFile, Within
    <3>4. \A x \in Orders(i)' : x <= OrderOf(md'[i])
      BY <1>1, <1>4, <3>3
    <3> QED
      BY <1>2, <2>1, <2>3, <3>1, <3>4 DEF TightAt, Modifies, Within, Growing, Linking, Copying, OrderOf
  <2>4. CASE c.op = "read"
    BY <1>2, <2>4 DEF TightAt, Modifies
  <2> QED
    BY <2>2, <2>3, <2>4 DEF Modifies
<1>7. NoLeak'
  <2>1. \A u \in Threads : Pending(u)' = Pending(u) /\ Removing(u)' = Removing(u)
    BY <1>1, <1>2 DEF Pending, Removing
  <2> QED
    BY <1>1, <2>1, FrameLeak DEF OrderInv, Linked
<1>8. call'[t].op = "create" /\ pc'[t] # "reply" =>
          call'[t].inode \notin DOMAIN md' /\ \A u \in Threads \ {t} : call[u].inode # call'[t].inode
  BY <1>1, <1>2, <1>5
<1>9. pc'[t] \notin {"new_lookup", "del_lookup"}
  BY <1>2
<1> QED
  BY <1>1, <1>2, <1>3, <1>4, <1>5, <1>6, <1>7, <1>8, <1>9, FrameOrder

\* A dead daemon serves no call, and the collections are as it left them.
LEMMA DieOrder ==
    ASSUME OrderInv, Die
    PROVE  OrderInv'
<1>1. /\ ~up'  /\ UNCHANGED <<lookup, mounts>>
      /\ \A t \in Threads : pc'[t] = "idle" /\ call'[t].op = "none"
  BY DEF Die, store, NoCall
<1>2. ExclusiveOK' /\ NextOrderOK' /\ FoundAll'
  BY <1>1 DEF ExclusiveOK, NextOrderOK, FoundAll
<1>3. BlocksInOrder' /\ StartedOK'
  BY <1>1 DEF OrderInv, BlocksInOrder, StartedOK, Orders, Entries
<1>4. TightOK' /\ NoLeak'
  BY <1>1 DEF TightOK, NoLeak
<1> QED
  BY <1>2, <1>3, <1>4 DEF OrderInv

\* A step that changes no document and no thread; a mount is not the first.
LEMMA StutterOrder ==
    ASSUME OrderInv, UNCHANGED <<md, lookup, data, pc, call, loc>>,
           UNCHANGED <<up, mounts>> \/ (mounts \in Nat /\ mounts' = mounts + 1)
    PROVE  OrderInv'
<1>1. \A i : Entries(i)' = Entries(i) /\ Orders(i)' = Orders(i) /\ NextOrder(i)' = NextOrder(i)
  BY DEF Entries, Orders, NextOrder
<1>2. ExclusiveOK' /\ FoundAll'
  BY DEF OrderInv, ExclusiveOK, FoundAll, EntriesFrom, Entries
<1>3. NextOrderOK'
  BY <1>1 DEF OrderInv, NextOrderOK
<1>4. BlocksInOrder' /\ StartedOK'
  BY DEF OrderInv, BlocksInOrder, StartedOK, Orders, Entries
<1>5. CASE UNCHANGED <<up, mounts>>
  <2>1. \A t : TightAt(call[t], pc[t], loc[t])' <=> TightAt(call[t], pc[t], loc[t])
    BY <1>1, <1>5 DEF TightAt, Within, OrderOf, Orders, Entries
  <2>2. \A i : TightFile(i)' <=> TightFile(i)
    BY <1>1, <1>5 DEF TightFile, Within, OrderOf
  <2>3. \A t, i : Working(t, i)' <=> Working(t, i)
    BY DEF Working
  <2>4. TightOK'
    BY <1>5, <2>1, <2>2, <2>3 DEF OrderInv, TightOK
  <2>5. NoLeak'
    BY <1>5 DEF OrderInv, NoLeak, Linked, Pending, Removing
  <2> QED
    BY <1>2, <1>3, <1>4, <2>4, <2>5 DEF OrderInv
<1>6. CASE mounts \in Nat /\ mounts' = mounts + 1
  <2>1. mounts' # 1
    BY <1>6 DEF OrderInv, StartedOK
  <2>2. TightOK' /\ NoLeak'
    BY <2>1 DEF TightOK, NoLeak
  <2> QED
    BY <1>2, <1>3, <1>4, <2>2 DEF OrderInv
<1> QED
  BY <1>5, <1>6

-----------------------------------------------------------------------------
(* The invariant, and what it is for.                                        *)

\* Every request the kernel sends keeps the invariant.
LEMMA StartOrder ==
    ASSUME ~IdClash, TypeInv, LinkInv, OrderInv, TypeOK', NEW t \in Threads, Start(t)
    PROVE  OrderInv'
<1>1. CASE BeginCreate(t)
  <2>1. PICK i \in Inodes :
            /\ Unused(i)
            /\ Begin(t, "new_data", [NoCall EXCEPT !.op = "create", !.inode = i], 1)
    BY <1>1 DEF BeginCreate
  <2>2. PICK c : c = [NoCall EXCEPT !.op = "create", !.inode = i]
    OBVIOUS
  <2>3. c.op = "create" /\ c.inode = i
    BY <2>2 DEF NoCall
  <2> QED
    BY <2>1, <2>2, <2>3, BeginOrder
<1>2. CASE BeginWrite(t)
  <2>1. PICK i \in DOMAIN md, off \in Offsets, bufs \in BufVecs :
            /\ ~KernelLocked(i)
            /\ Begin(t, "find_md", [NoCall EXCEPT !.op = "write", !.inode = i, !.off = off, !.bufs = bufs], 0)
    BY <1>2 DEF BeginWrite, SendWrite
  <2>2. PICK c : c = [NoCall EXCEPT !.op = "write", !.inode = i, !.off = off, !.bufs = bufs]
    OBVIOUS
  <2>3. c.op = "write" /\ c.inode = i
    BY <2>2 DEF NoCall
  <2> QED
    BY <2>1, <2>2, <2>3, BeginOrder
<1>3. CASE BeginRead(t)
  <2>1. PICK i \in DOMAIN md, off \in Offsets, n \in ReadSizes :
            Begin(t, "find_md", [NoCall EXCEPT !.op = "read", !.inode = i, !.off = off, !.size = n], 0)
    BY <1>3 DEF BeginRead, SendRead
  <2>2. PICK c : c = [NoCall EXCEPT !.op = "read", !.inode = i, !.off = off, !.size = n]
    OBVIOUS
  <2>3. c.op = "read" /\ c.inode = i
    BY <2>2 DEF NoCall
  <2> QED
    BY <2>1, <2>2, <2>3, BeginOrder DEF Modifies
<1>4. CASE BeginTruncate(t)
  <2>1. PICK i \in DOMAIN md, n \in NewSizes :
            /\ ~KernelLocked(i)
            /\ Begin(t, "find_md", [NoCall EXCEPT !.op = "truncate", !.inode = i, !.size = n], 0)
    BY <1>4 DEF BeginTruncate, SendTruncate
  <2>2. PICK c : c = [NoCall EXCEPT !.op = "truncate", !.inode = i, !.size = n]
    OBVIOUS
  <2>3. c.op = "truncate" /\ c.inode = i
    BY <2>2 DEF NoCall
  <2> QED
    BY <2>1, <2>2, <2>3, BeginOrder
<1>5. CASE OpenTrunc(t) \/ Fallocate(t)
  BY <1>5, StutterOrder DEF OpenTrunc, Fallocate, store, daemon, threads
<1>6. CASE TruncateByPath(t)
  BY <1>6, DieOrder DEF TruncateByPath
<1> QED
  BY <1>1, <1>2, <1>3, <1>4, <1>5, <1>6 DEF Start

\* Every round trip keeps it.
LEMMA StepOrder ==
    ASSUME TypeInv, LinkInv, SizedOK, OrderInv, TypeOK', NEW t \in Threads, Step(t)
    PROVE  OrderInv'
<1>1. CASE PipeFails(t) \/ NewDataClash(t) \/ InsertMdClash(t) \/ FindLookupFails(t) \/ FindDataFails(t)
  <2>1. Die
    BY <1>1 DEF PipeFails, NewDataClash, InsertMdClash, FindLookupFails, FindDataFails, Abort
  <2> QED
    BY <2>1, DieOrder
<1> QED
  BY <1>1, FindMdForWriteOrder, FindMdForTruncateOrder, ReadOrder, NewDataOrder, MaxOrderOrder,
     CopyOrder, UpdateDataOrder, FindIdsOrder, DelDataOrder, NewLookupOrder, InsertMdOrder,
     SetSizeOrder, DelLookupOrder, ReplyOrder DEF Step

\* Every step of the specification preserves OrderInv.
LEMMA OrderInvInductive ==
    ASSUME ~IdClash
    PROVE  TypeInv /\ LinkInv /\ CoverInv /\ OrderInv /\ [Next]_vars => OrderInv'
<1> SUFFICES ASSUME TypeInv, LinkInv, CoverInv, OrderInv, [Next]_vars PROVE OrderInv'
  OBVIOUS
<1>1. TypeOK' /\ SizedOK
  BY TypeInvInductive DEF TypeInv, CoverInv
<1>2. CASE \E t \in Threads : Start(t) \/ Step(t)
  BY <1>1, <1>2, StartOrder, StepOrder
<1>3. CASE Kill
  BY <1>3, DieOrder DEF Kill
<1>4. CASE Mount
  BY <1>4, StutterOrder DEF Mount, store, threads, TypeInv, TypeOK
<1>5. CASE UNCHANGED vars
  BY <1>5, StutterOrder DEF vars
<1> QED
  BY <1>2, <1>3, <1>4, <1>5 DEF Next

\* OrderInv holds in empty collections.
LEMMA OrderInvInitial == Init => OrderInv
<1> SUFFICES ASSUME Init PROVE OrderInv
  OBVIOUS
<1>1. \A t \in Threads : pc[t] = "idle" /\ call[t] = NoCall /\ call[t].op = "none"
  BY DEF Init, NoCall
<1>2. ExclusiveOK /\ NextOrderOK /\ FoundAll
  BY <1>1 DEF ExclusiveOK, NextOrderOK, FoundAll
<1>3. BlocksInOrder /\ StartedOK
  BY DEF Init, BlocksInOrder, StartedOK
<1>4. TightOK
  <2>1. \A i : Orders(i) = {}
    BY DEF Init, Orders, Entries
  <2> QED
    BY <1>1, <2>1 DEF TightOK, TightAt, TightFile, Modifies
<1>5. NoLeak
  BY <1>1 DEF Init, NoLeak, Linked, Pending, Removing
<1> QED
  BY <1>2, <1>3, <1>4, <1>5 DEF OrderInv

\* While generate_id returns no id in use, a create has its inode to itself, a
\* modification knows how far the blocks of its file reach, and the order that
\* get_max_order returned is still the next one when the document is inserted.
THEOREM OrderInvHolds == ASSUME ~IdClash PROVE Spec => []OrderInv
<1>1. TypeInv /\ LinkInv /\ CoverInv /\ OrderInv /\ [Next]_vars => OrderInv'
  BY OrderInvInductive
<1> QED
  BY <1>1, TypeInvHolds, LinkInvHolds, CoverInvHolds, OrderInvInitial, PTL DEF Spec

\* The blocks of a file are numbered 0 .. k-1 without gap or duplicate at every
\* moment, whatever crashes and whatever the other threads do, although the
\* maximum and the insert are two round trips and no index is unique: the
\* kernel's lock is what keeps two growing calls apart.
THEOREM BlocksInOrderHolds == ASSUME ~IdClash PROVE Spec => []BlocksInOrder
<1>1. OrderInv => BlocksInOrder
  BY DEF OrderInv
<1> QED
  BY <1>1, OrderInvHolds, PTL

\* Before the first crash no block is lost: each is in a file, or in the hands
\* of the one call that is about to link or to remove it.
THEOREM NoLeakHolds == ASSUME ~IdClash PROVE Spec => []NoLeak
<1>1. OrderInv => NoLeak
  BY DEF OrderInv
<1> QED
  BY <1>1, OrderInvHolds, PTL

\* Before the first crash a file on which no call works has no block past its
\* size: a growing call stores the size it added blocks for, and a shrinking one
\* removes every block that the smaller size does not own.
THEOREM NoExtraBlocksHolds == ASSUME ~IdClash PROVE Spec => []NoExtraBlocks
<1>1. TypeInv /\ OrderInv => NoExtraBlocks
  <2> SUFFICES ASSUME TypeInv, OrderInv, up, mounts = 1, NEW e \in lookup,
                      \A t \in Threads : ~(call[t].inode = e.inode /\ call[t].op # "read")
               PROVE  e.inode \in DOMAIN md /\ e.order <= OrderOf(md[e.inode])
    BY DEF NoExtraBlocks
  <2>1. PICK i : i = e.inode
    OBVIOUS
  <2>2. i \in Inodes /\ e.order \in Orders(i)
    BY <2>1 DEF TypeInv, TypeOK, Entry, Orders, Entries
  <2>3. \A t \in Threads : ~Working(t, i)
    BY <2>1 DEF Working
  <2>4. TightFile(i)
    BY <2>2, <2>3 DEF OrderInv, TightOK
  <2> QED
    BY <2>1, <2>2, <2>4 DEF TightFile, Within
<1> QED
  BY <1>1, TypeInvHolds, OrderInvHolds, PTL

-----------------------------------------------------------------------------
(* The files as arrays of blocks.                                            *)

FileBlocks(i) == [n \in 1 .. Cardinality(Entries(i)) |-> BlockAt(i, n - 1)]

\* A numbered file has as many documents as the next order says.
LEMMA NumberedCount ==
    ASSUME TypeInv, NEW i, Numbered(i)
    PROVE  Cardinality(Entries(i)) = NextOrder(i)
<1>1. PICK k : k = NextOrder(i)
  OBVIOUS
<1>2. k \in Nat /\ (\A n \in Orders(i) : n < k) /\ (\A n \in 0 .. k : n = k \/ n \in Orders(i))
  BY <1>1, NextOrderFacts
<1> DEFINE f == [n \in 1 .. k |-> CHOOSE e \in Entries(i) : e.order = n - 1]
<1>3. \A n \in 1 .. k : f[n] \in Entries(i) /\ f[n].order = n - 1
  BY <1>2 DEF Orders
<1>4. \A e \in Entries(i) : e.order \in Nat /\ e.order < k
  BY <1>2, OrdersNat DEF Orders, TypeInv
<1>5. ASSUME NEW e \in Entries(i) PROVE \E n \in 1 .. k : f[n] = e
  <2>1. e.order + 1 \in 1 .. k
    BY <1>2, <1>4
  <2>2. f[e.order + 1] \in Entries(i) /\ f[e.order + 1].order = e.order
    BY <1>3, <1>4, <2>1
  <2>3. f[e.order + 1] = e
    BY <2>2 DEF Numbered
  <2> QED
    BY <2>1, <2>3
<1>6. f \in [1 .. k -> Entries(i)] /\ \A m, n \in 1 .. k : m # n => f[m] # f[n]
  <2>1. f \in [1 .. k -> Entries(i)]
    BY <1>3
  <2>2. ASSUME NEW m \in 1 .. k, NEW n \in 1 .. k, f[m] = f[n] PROVE m = n
    BY <1>2, <1>3, <2>2
  <2> QED
    BY <2>1, <2>2
<1> HIDE DEF f
<1>7. f \in Bijection(1 .. k, Entries(i))
  BY <1>5, <1>6 DEF Bijection, Injection, Surjection, IsInjective
<1>8. IsFiniteSet(1 .. k) /\ Cardinality(1 .. k) = k
  BY <1>2, FS_Interval
<1>9. Cardinality(Entries(i)) = Cardinality(1 .. k)
  BY <1>7, <1>8, FS_Bijection DEF ExistsBijection
<1> QED
  BY <1>1, <1>8, <1>9

\* File i is a sequence of blocks: the block of each document at the document's
\* order, and nothing else.
IsArray(i) ==
    /\ FileBlocks(i) \in Seq(Block)  /\ NextOrder(i) \in Nat  /\ Len(FileBlocks(i)) = NextOrder(i)
    /\ \A e \in Entries(i) :
           e.order \in 0 .. NextOrder(i) - 1 /\ FileBlocks(i)[e.order + 1] = data[e.id]
    /\ \A n \in 1 .. NextOrder(i) : \E e \in Entries(i) : n = e.order + 1
    /\ \A k \in Nat : (\A n \in Nat : n \in Orders(i) <=> n < k) => NextOrder(i) = k

\* So is every numbered file.
AllArrays == \A i \in Inodes : IsArray(i)
LEMMA FileBlocksAre == TypeInv /\ LinkInv /\ BlocksInOrder => AllArrays
<1> SUFFICES ASSUME TypeInv, LinkInv, BlocksInOrder, NEW i \in Inodes, NEW k, k = NextOrder(i)
             PROVE  /\ FileBlocks(i) \in Seq(Block)  /\ k \in Nat  /\ Len(FileBlocks(i)) = k
                    /\ \A e \in Entries(i) : e.order \in 0 .. k - 1 /\ FileBlocks(i)[e.order + 1] = data[e.id]
                    /\ \A n \in 1 .. k : \E e \in Entries(i) : n = e.order + 1
                    /\ \A m \in Nat : (\A n \in Nat : n \in Orders(i) <=> n < m) => k = m
  BY DEF AllArrays, IsArray
<1>1. Numbered(i)
  BY NumberedFiles DEF TypeInv
<1>2. /\ k \in Nat  /\ \A n \in Orders(i) : n < k
      /\ \A n \in 0 .. k : n = k \/ n \in Orders(i)
  BY <1>1, NextOrderFacts
<1>3. FileBlocks(i) = [n \in 1 .. k |-> BlockAt(i, n - 1)]
  BY <1>1, NumberedCount DEF FileBlocks
<1>4. \A e \in Entries(i) : e.order \in Nat /\ e.order < k /\ e.id \in DOMAIN data /\ data[e.id] \in Block
  BY <1>2, OrdersNat DEF Orders, Entries, TypeInv, TypeOK, LinkInv, NoDangling
<1>5. \A n \in 1 .. k : \E e \in Entries(i) : n = e.order + 1
  <2> SUFFICES ASSUME NEW n \in 1 .. k PROVE \E e \in Entries(i) : n = e.order + 1
    OBVIOUS
  <2>1. n - 1 \in Orders(i)
    BY <1>2
  <2> QED
    BY <1>4, <2>1 DEF Orders
<1>6. ASSUME NEW e \in Entries(i) PROVE BlockAt(i, e.order) = data[e.id]
  BY <1>1 DEF BlockAt, Numbered
<1>7. \A e \in Entries(i) : e.order \in 0 .. k - 1 /\ e.order + 1 \in 1 .. k /\ (e.order + 1) - 1 = e.order
  BY <1>2, <1>4
<1>8. \A e \in Entries(i) : FileBlocks(i)[e.order + 1] = data[e.id]
  BY <1>3, <1>6, <1>7
<1>9. \A n \in 1 .. k : BlockAt(i, n - 1) \in Block
  <2> SUFFICES ASSUME NEW n \in 1 .. k PROVE BlockAt(i, n - 1) \in Block
    OBVIOUS
  <2>1. PICK e \in Entries(i) : n = e.order + 1
    BY <1>5
  <2>2. n - 1 = e.order
    BY <1>4, <2>1
  <2> QED
    BY <1>4, <1>6, <2>2
<1>10. FileBlocks(i) \in Seq(Block) /\ Len(FileBlocks(i)) = k
  BY <1>2, <1>3, <1>9
<1>11. ASSUME NEW m \in Nat, \A n \in Nat : n \in Orders(i) <=> n < m PROVE k = m
  <2>1. k \notin Orders(i)
    BY <1>2
  <2>2. m \notin Orders(i)
    BY <1>11
  <2>3. k < m => FALSE
    BY <1>2, <1>11, <2>1
  <2>4. m < k => FALSE
    BY <1>2, <2>2
  <2> QED
    BY <1>2, <2>3, <2>4
<1> QED
  BY <1>2, <1>5, <1>7, <1>8, <1>10, <1>11

-----------------------------------------------------------------------------
(* In one run of the daemon the block store is an array of blocks per file.  *)

\* Nothing runs while the daemon is down.
LEMMA RunInvInductive == TypeInv /\ StartedOK /\ RunInv /\ [Next]_vars => RunInv'
<1> SUFFICES ASSUME TypeInv, StartedOK, RunInv, [Next]_vars PROVE RunInv'
  OBVIOUS
<1>0. mounts \in Nat /\ mounts >= 1 /\ MaxMounts \in Nat
  BY RequestAssumption DEF StartedOK, TypeInv, TypeOK
<1>1. CASE Die
  BY <1>1 DEF RunInv, Die
<1>2. ASSUME NEW t \in Threads, Start(t), ~Die PROVE RunInv'
  <2>1. up /\ UNCHANGED daemon
    BY <1>2 DEF Start, BeginCreate, BeginWrite, SendWrite, BeginRead, SendRead, BeginTruncate, SendTruncate, Begin, OpenTrunc, Fallocate,
                TruncateByPath
  <2> QED
    BY <2>1 DEF RunInv, daemon
<1>3. ASSUME NEW t \in Threads, Step(t), ~Die PROVE RunInv'
  <2>1. pc[t] # "idle"
    BY <1>3 DEF Step, FindMdForWrite, FindMdForRead, FindMdForTruncate, NewData, MaxOrder, NewLookup,
                InsertMd, FindLookup, FindDataForWrite, FindDataForRead, UpdateData, SetSize, FindIds,
                DelLookup, DelData, Reply, PipeFails, NewDataClash, InsertMdClash, FindLookupFails,
                FindDataFails, Abort
  <2>2. UNCHANGED daemon
    BY <1>3 DEF Step, FindMdForWrite, FindMdForRead, FindMdForTruncate, NewData, MaxOrder, NewLookup,
                InsertMd, FindLookup, FindDataForWrite, FindDataForRead, UpdateData, SetSize, FindIds,
                DelLookup, DelData, Reply, PipeFails, NewDataClash, InsertMdClash, FindLookupFails,
                FindDataFails, Abort
  <2> QED
    BY <2>1, <2>2 DEF RunInv, daemon
<1>4. CASE Mount
  BY <1>0, <1>4 DEF RunInv, Mount
<1>5. CASE UNCHANGED vars
  BY <1>5 DEF RunInv, vars
<1> QED
  BY <1>1, <1>2, <1>3, <1>4, <1>5 DEF Next, Kill

\* What is known before a step of a thread in the first run, and after it.
FirstRun ==
    /\ TypeInv  /\ LinkInv  /\ CoverInv  /\ ContentInv  /\ OrderInv
    /\ up  /\ mounts = 1  /\ torn = {}

\* No file is damaged in the first run.
LEMMA AllWhole ==
    ASSUME FirstRun, NEW i
    PROVE  Whole(i)
  BY DEF FirstRun, Whole, Intruded, Intruding, OrderInv, ExclusiveOK

\* The size of the file a call works on is inside its array, until the call
\* itself has cut the array.
LEMMA SizeInArray ==
    ASSUME FirstRun, NEW t \in Threads, NEW i \in Inodes, Working(t, i), ~Shrinking(t)
    PROVE  Array!SizeInside(i)
<1> SUFFICES ASSUME i \in DOMAIN md PROVE OrderOf(md[i]) < Len(FileBlocks(i))
  BY DEF Array!SizeInside, Array!OrderOf, OrderOf, FileBlocks
<1>1. Modifies(call[t].op)
  BY DEF FirstRun, OrderInv, ExclusiveOK, Working, Modifies
<1>2. OrderOf(md[i]) \in Orders(i)
  BY <1>1, AllWhole, CoveredForOwner DEF FirstRun, Working
<1>3. IsArray(i)
  BY FileBlocksAre DEF FirstRun, OrderInv, AllArrays
<1>4. PICK e \in Entries(i) : e.order = OrderOf(md[i])
  BY <1>2 DEF Orders
<1> QED
  BY <1>3, <1>4 DEF IsArray

\* A file whose documents and blocks stay as they are stays the same array.
LEMMA SameBlocks ==
    ASSUME FirstRun, TypeInv', LinkInv', BlocksInOrder', NEW i \in Inodes,
           Entries(i)' = Entries(i), \A e \in Entries(i) : data'[e.id] = data[e.id]
    PROVE  FileBlocks(i)' = FileBlocks(i)
<1>1. PICK s : s = FileBlocks(i)
  OBVIOUS
<1>2. PICK k : k = NextOrder(i)
  OBVIOUS
<1>3. /\ s \in Seq(Block)  /\ k \in Nat  /\ Len(s) = k
      /\ \A e \in Entries(i) : s[e.order + 1] = data[e.id]
      /\ \A n \in 1 .. k : \E e \in Entries(i) : n = e.order + 1
  BY <1>1, <1>2, FileBlocksAre DEF FirstRun, OrderInv, AllArrays, IsArray
<1>4. NextOrder(i)' = k
  BY <1>2 DEF NextOrder, Orders
<1>5. PICK r : r = FileBlocks(i)'
  OBVIOUS
<1>6. (TypeInv /\ LinkInv /\ BlocksInOrder => AllArrays)'
  BY FileBlocksAre, PTL
<1>7. /\ r \in Seq(Block)  /\ Len(r) = k
      /\ \A e \in Entries(i) : r[e.order + 1] = data[e.id]
  BY <1>4, <1>5, <1>6 DEF AllArrays, IsArray
<1> QED
  BY <1>1, <1>3, <1>5, <1>7

ArrayNow == [i \in Inodes |-> FileBlocks(i)]

\* A step that changes the documents and blocks of one file changes one array.
LEMMA OneArray ==
    ASSUME FirstRun, TypeInv', LinkInv', BlocksInOrder', NEW i \in Inodes, NEW s, FileBlocks(i)' = s,
           \A j \in Inodes \ {i} : Entries(j)' = Entries(j) /\ \A e \in Entries(j) : data'[e.id] = data[e.id]
    PROVE  ArrayNow' = [ArrayNow EXCEPT ![i] = s]
<1>1. \A j \in Inodes \ {i} : FileBlocks(j)' = FileBlocks(j)
  BY SameBlocks
<1> QED
  BY <1>1 DEF ArrayNow

\* A step that keeps the documents and the blocks they lead to changes no array.
LEMMA NoArray ==
    ASSUME FirstRun, TypeInv', LinkInv', BlocksInOrder', lookup' = lookup,
           \A e \in lookup : data'[e.id] = data[e.id]
    PROVE  ArrayNow' = ArrayNow
<1>1. ASSUME NEW j \in Inodes PROVE FileBlocks(j)' = FileBlocks(j)
  <2>1. Entries(j)' = Entries(j) /\ \A e \in Entries(j) : data'[e.id] = data[e.id]
    BY DEF Entries
  <2> QED
    BY <2>1, SameBlocks
<1> QED
  BY <1>1 DEF ArrayNow

\* The document of a new block makes its file one zeroed block longer.
LEMMA NewLookupExtends ==
    ASSUME FirstRun, TypeInv', LinkInv', BlocksInOrder', NEW t \in Threads, NewLookup(t)
    PROVE  \E i \in Inodes : Array!Extend(i)
<1>0. PICK i, o, id : i = call[t].inode /\ o = loc[t].order /\ id = loc[t].id
  OBVIOUS
<1> DEFINE d == [inode |-> i, order |-> o, id |-> id]
<1>1. pc[t] = "new_lookup" /\ lookup' = lookup \cup {d} /\ UNCHANGED <<md, data>>
  BY <1>0 DEF NewLookup
<1>2. call[t].op \in {"create", "write", "truncate"} /\ i \in Inodes
  BY <1>0, <1>1, ThreadTypes DEF FirstRun, ControlAt, MakesTrip, Copying, Cutting
<1>3. Working(t, i) /\ ~Shrinking(t)
  BY <1>0, <1>1, <1>2 DEF Working, Shrinking
<1>4. o = NextOrder(i) /\ data[id] = ZeroBlock
  BY <1>0, <1>1 DEF FirstRun, OrderInv, NextOrderOK, ContentInv, FreshOK, Linking
<1>5. d.inode = i /\ d.order = o /\ d.id = id
  OBVIOUS
<1> HIDE DEF d
<1>6. /\ Entries(i)' = Entries(i) \cup {d}
      /\ \A j \in Inodes \ {i} : Entries(j)' = Entries(j) /\ \A e \in Entries(j) : data'[e.id] = data[e.id]
  BY <1>1, <1>5 DEF Entries
<1>7. PICK s, r : s = FileBlocks(i) /\ r = FileBlocks(i)'
  OBVIOUS
<1>8. /\ s \in Seq(Block)  /\ o \in Nat  /\ Len(s) = o
      /\ \A e \in Entries(i) : e.order \in 0 .. o - 1 /\ s[e.order + 1] = data[e.id]
      /\ \A n \in 1 .. o : \E e \in Entries(i) : n = e.order + 1
  BY <1>2, <1>4, <1>7, FileBlocksAre DEF FirstRun, OrderInv, AllArrays, IsArray
<1>9. (TypeInv /\ LinkInv /\ BlocksInOrder => AllArrays)'
  BY FileBlocksAre, PTL
<1>10. PICK k : k = NextOrder(i)'
  OBVIOUS
<1>11. /\ r \in Seq(Block)  /\ Len(r) = k
       /\ \A e \in Entries(i) \cup {d} : e.order \in 0 .. k - 1 /\ r[e.order + 1] = data[e.id]
       /\ \A m \in Nat : (\A n \in Nat : n \in Orders(i)' <=> n < m) => k = m
  BY <1>1, <1>2, <1>6, <1>7, <1>9, <1>10 DEF AllArrays, IsArray
<1>12. k = o + 1
  <2>1. Orders(i)' = Orders(i) \cup {o}
    BY <1>5, <1>6 DEF Orders
  <2>2. \A n \in Nat : n \in Orders(i) <=> n < o
    <3>1. \A n \in Orders(i) : n \in 0 .. o - 1
      BY <1>8 DEF Orders
    <3>2. ASSUME NEW n \in Nat, n < o PROVE n \in Orders(i)
      <4>1. n + 1 \in 1 .. o
        BY <1>8, <3>2
      <4>2. PICK e \in Entries(i) : n + 1 = e.order + 1
        BY <1>8, <4>1
      <4>3. n = e.order
        BY <1>8, <4>2
      <4> QED
        BY <4>3 DEF Orders
    <3> QED
      BY <1>8, <3>1, <3>2
  <2>3. o + 1 \in Nat /\ \A n \in Nat : n \in Orders(i)' <=> n < o + 1
    BY <1>8, <2>1, <2>2
  <2> QED
    BY <1>11, <2>3
<1>13. r = Append(s, ZeroBlock)
  <2>1. Append(s, ZeroBlock) \in Seq(Block) /\ Len(Append(s, ZeroBlock)) = o + 1
    <3>1. ZeroBlock \in Block
      BY ZeroAssumption DEF ZeroBlock, Block
    <3> QED
      BY <1>8, <3>1
  <2>2. r[o + 1] = ZeroBlock
    BY <1>4, <1>5, <1>11
  <2>3. ASSUME NEW n \in 1 .. o PROVE r[n] = s[n]
    BY <1>8, <1>11
  <2> QED
    BY <1>8, <1>11, <1>12, <2>1, <2>2, <2>3
<1>14. ArrayNow' = [ArrayNow EXCEPT ![i] = Append(s, ZeroBlock)]
  BY <1>2, <1>6, <1>7, <1>13, OneArray
<1>15. ArrayNow[i] = s
  BY <1>2, <1>7 DEF ArrayNow
<1>16. Array!SizeInside(i)
  BY <1>2, <1>3, SizeInArray
<1> QED
  BY <1>1, <1>2, <1>14, <1>15, <1>16
     DEF Array!Extend, Array!ZeroBlock, Array!Positions, ZeroBlock, Positions, ArrayNow, FileBlocks

\* What a write puts back is one block of its file.
LEMMA UpdateDataPuts ==
    ASSUME FirstRun, TypeInv', LinkInv', BlocksInOrder', NEW t \in Threads, UpdateData(t)
    PROVE  \E i \in Inodes : Array!Put(i)
<1>0. PICK i, id, b : i = call[t].inode /\ id = loc[t].id /\ b = loc[t].blk
  OBVIOUS
<1>1. /\ pc[t] = "update_data"  /\ UNCHANGED <<md, lookup>>
      /\ data' = [x \in DOMAIN data |-> IF x = id THEN b ELSE data[x]]
  BY <1>0 DEF UpdateData
<1>2. call[t].op = "write" /\ i \in Inodes /\ b \in Block
  BY <1>0, <1>1, ThreadTypes
     DEF FirstRun, ControlAt, MakesTrip, Growing, Linking, Copying, Cutting, LocalTypes
<1>3. Working(t, i) /\ ~Shrinking(t)
  BY <1>0, <1>1, <1>2 DEF Working, Shrinking
<1>4. PICK d \in lookup : d.inode = i /\ d.id = id
  BY <1>0, <1>1 DEF FirstRun, ContentInv, PatchedOK, PutBackAt, Entries
<1>5. id \in DOMAIN data /\ \A e \in lookup : e.id = id => e = d
  BY <1>4 DEF FirstRun, LinkInv, NoSharing, NoDangling
<1>6. /\ Entries(i)' = Entries(i)  /\ d \in Entries(i)
      /\ \A j \in Inodes \ {i} : Entries(j)' = Entries(j) /\ \A e \in Entries(j) : data'[e.id] = data[e.id]
      /\ data'[id] = b  /\ \A e \in Entries(i) \ {d} : data'[e.id] = data[e.id]
  BY <1>1, <1>4, <1>5 DEF Entries, FirstRun, LinkInv, NoDangling
<1>7. PICK s, r, k : s = FileBlocks(i) /\ r = FileBlocks(i)' /\ k = NextOrder(i)
  OBVIOUS
<1>8. /\ s \in Seq(Block)  /\ k \in Nat  /\ Len(s) = k
      /\ \A e \in Entries(i) : e.order \in 0 .. k - 1 /\ s[e.order + 1] = data[e.id]
      /\ \A n \in 1 .. k : \E e \in Entries(i) : n = e.order + 1
  BY <1>2, <1>7, FileBlocksAre DEF FirstRun, OrderInv, AllArrays, IsArray
<1>9. (TypeInv /\ LinkInv /\ BlocksInOrder => AllArrays)'
  BY FileBlocksAre, PTL
<1>10. NextOrder(i)' = k
  BY <1>6, <1>7 DEF NextOrder, Orders
<1>11. /\ r \in Seq(Block)  /\ Len(r) = k
       /\ \A e \in Entries(i) : r[e.order + 1] = data'[e.id]
  BY <1>2, <1>6, <1>7, <1>9, <1>10 DEF AllArrays, IsArray
<1>12. PICK m : m = d.order + 1
  OBVIOUS
<1>13. m \in 1 .. k
  BY <1>6, <1>8, <1>12
<1>14. r = [s EXCEPT ![m] = b]
  <2>1. r[m] = b
    BY <1>4, <1>6, <1>11, <1>12
  <2>2. ASSUME NEW n \in 1 .. k, n # m PROVE r[n] = s[n]
    <3>1. PICK e \in Entries(i) : n = e.order + 1
      BY <1>8
    <3> QED
      BY <1>6, <1>8, <1>11, <1>12, <2>2, <3>1
  <2>3. [s EXCEPT ![m] = b] \in Seq(Block) /\ Len([s EXCEPT ![m] = b]) = k
    BY <1>2, <1>8, <1>13
  <2> QED
    BY <1>8, <1>11, <1>13, <2>1, <2>2, <2>3
<1>15. ArrayNow' = [ArrayNow EXCEPT ![i] = [s EXCEPT ![m] = b]]
  <2>1. ArrayNow' = [ArrayNow EXCEPT ![i] = r]
    BY <1>2, <1>6, <1>7, OneArray
  <2> QED
    BY <1>14, <2>1
<1>16. ArrayNow[i] = s /\ DOMAIN s = 1 .. k /\ ArrayNow = [j \in Inodes |-> ArrayNow[j]]
  BY <1>2, <1>7, <1>8 DEF ArrayNow
<1>17. ArrayNow' = [ArrayNow EXCEPT ![i][m] = b]
  BY <1>2, <1>15, <1>16
<1>18. Array!SizeInside(i)
  BY <1>2, <1>3, SizeInArray
<1>19. b \in Array!Block
  BY <1>2 DEF Array!Block, Array!Positions, Block, Positions
<1>20. m \in DOMAIN ArrayNow[i]
  BY <1>13, <1>16
<1>21. UNCHANGED md
  BY <1>1
<1> QED
  BY <1>2, <1>17, <1>18, <1>19, <1>20, <1>21, Zenon DEF Array!Put, ArrayNow, FileBlocks

\* A truncate drops the tail that the smaller size does not own.
LEMMA DelLookupDrops ==
    ASSUME FirstRun, TypeInv', LinkInv', BlocksInOrder', NEW t \in Threads, DelLookup(t)
    PROVE  \E i \in Inodes : Array!DropTail(i)
<1>0. PICK c, i, m : c = call[t] /\ i = c.inode /\ m = Blocks(c.size)
  OBVIOUS
<1>1. pc[t] = "del_lookup" /\ lookup' = lookup \ EntriesFrom(i, m) /\ UNCHANGED <<md, data>>
  BY <1>0 DEF DelLookup
<1>2. /\ c.op = "truncate"  /\ i \in Inodes  /\ i \in DOMAIN md  /\ c.size \in Nat  /\ md[i] \in Nat
  BY <1>0, <1>1, ThreadTypes
     DEF FirstRun, ControlAt, MakesTrip, Growing, Linking, Copying, Cutting, RequestTypes, TypeInv, TypeOK
<1>3. Working(t, i) /\ ~Shrinking(t)
  BY <1>0, <1>1, <1>2 DEF Working, Shrinking
<1>4. Array!SizeInside(i)
  BY <1>2, <1>3, SizeInArray
<1>5. /\ Entries(i)' = {e \in Entries(i) : ~(e.order >= m)}
      /\ \A j \in Inodes \ {i} : Entries(j)' = Entries(j) /\ \A e \in Entries(j) : data'[e.id] = data[e.id]
  BY <1>1 DEF Entries, EntriesFrom
<1>6. PICK s, r, k : s = FileBlocks(i) /\ r = FileBlocks(i)' /\ k = NextOrder(i)
  OBVIOUS
<1>7. /\ s \in Seq(Block)  /\ k \in Nat  /\ Len(s) = k
      /\ \A e \in Entries(i) : e.order \in 0 .. k - 1 /\ s[e.order + 1] = data[e.id]
      /\ \A n \in 1 .. k : \E e \in Entries(i) : n = e.order + 1
  BY <1>2, <1>6, FileBlocksAre DEF FirstRun, OrderInv, AllArrays, IsArray
<1>8. m \in 1 .. k
  <2>1. m < Blocks(md[i])
    BY <1>0, <1>1, <1>2 DEF FirstRun, CoverInv, SizedOK, SizedAt, Cutting
  <2>2. OrderOf(md[i]) < k
    BY <1>2, <1>4, <1>6, <1>7 DEF Array!SizeInside, Array!OrderOf, OrderOf, FileBlocks
  <2>3. Blocks(md[i]) = OrderOf(md[i]) + 1 /\ OrderOf(md[i]) \in Nat
    BY <1>2, OrderFacts
  <2>4. m = OrderOf(c.size) + 1 /\ OrderOf(c.size) \in Nat
    BY <1>0, <1>2, OrderFacts
  <2> QED
    BY <1>7, <2>1, <2>2, <2>3, <2>4
<1>9. (TypeInv /\ LinkInv /\ BlocksInOrder => AllArrays)'
  BY FileBlocksAre, PTL
<1>10. PICK l : l = NextOrder(i)'
  OBVIOUS
<1>11. /\ r \in Seq(Block)  /\ Len(r) = l
       /\ \A e \in Entries(i)' : r[e.order + 1] = data[e.id]
       /\ \A p \in Nat : (\A n \in Nat : n \in Orders(i)' <=> n < p) => l = p
  BY <1>1, <1>2, <1>6, <1>9, <1>10 DEF AllArrays, IsArray
<1>12. ASSUME NEW n \in 0 .. k - 1 PROVE \E e \in Entries(i) : n = e.order
  <2>1. n + 1 \in 1 .. k
    BY <1>7
  <2>2. PICK e \in Entries(i) : n + 1 = e.order + 1
    BY <1>7, <2>1
  <2> QED
    BY <1>7, <2>2
<1>13. l = m
  <2>1. ASSUME NEW n \in Nat, n < m PROVE n \in Orders(i)'
    <3>1. PICK e \in Entries(i) : n = e.order
      BY <1>7, <1>8, <1>12, <2>1
    <3>2. e \in Entries(i)'
      BY <1>5, <1>8, <2>1, <3>1
    <3> QED
      BY <3>1, <3>2 DEF Orders
  <2>2. ASSUME NEW n \in Orders(i)' PROVE n < m
    BY <1>5, <1>7, <1>8 DEF Orders
  <2> QED
    BY <1>8, <1>11, <2>1, <2>2
<1>14. r = SubSeq(s, 1, m)
  <2>1. ASSUME NEW n \in 1 .. m PROVE r[n] = s[n]
    <3>1. PICK e \in Entries(i) : n - 1 = e.order
      BY <1>7, <1>8, <1>12
    <3>2. e \in Entries(i)' /\ n = e.order + 1
      BY <1>5, <1>7, <1>8, <3>1
    <3> QED
      BY <1>7, <1>11, <3>2
  <2> QED
    BY <1>7, <1>8, <1>11, <1>13, <2>1
<1>15. ArrayNow' = [ArrayNow EXCEPT ![i] = SubSeq(s, 1, m)]
  BY <1>2, <1>5, <1>6, <1>14, OneArray
<1>16. ArrayNow[i] = s
  BY <1>2, <1>6 DEF ArrayNow
<1> QED
  BY <1>1, <1>2, <1>4, <1>7, <1>8, <1>15, <1>16 DEF Array!DropTail, ArrayNow, FileBlocks

\* A position whose block is among the first k lies before their end.
LEMMA InsideArray ==
    ASSUME NEW x \in Nat, NEW k \in Nat, OrderOf(x) < k
    PROVE  x \in 0 .. k * BLOCK_SIZE - 1
<1>1. PICK q, b, r : q = OrderOf(x) /\ b = BLOCK_SIZE /\ r = x % BLOCK_SIZE
  OBVIOUS
<1>2. b \in Nat \ {0} /\ q \in Nat /\ r \in 0 .. b - 1 /\ x = b * q + r
  BY <1>1, BlockSizeAssumption DEF OrderOf
<1>3. (q + 1) * b <= k * b
  BY <1>1, <1>2
<1>4. x < (q + 1) * b
  BY <1>2
<1>5. k * b \in Nat
  BY <1>2
<1> QED
  BY <1>1, <1>2, <1>3, <1>4, <1>5

\* A create gives a file that has its first block the size 0.
LEMMA InsertMdCreates ==
    ASSUME FirstRun, TypeInv', LinkInv', BlocksInOrder', NEW t \in Threads, InsertMd(t)
    PROVE  \E i \in Inodes : Array!Create(i)
<1>0. PICK i, s : i = call[t].inode /\ s = FileBlocks(i)
  OBVIOUS
<1>1. /\ pc[t] = "insert_md"  /\ i \notin DOMAIN md  /\ UNCHANGED <<lookup, data>>
      /\ md' = [j \in DOMAIN md \cup {i} |-> IF j = i THEN 0 ELSE md[j]]
  BY <1>0 DEF InsertMd
<1>2. call[t].op = "create" /\ i \in Inodes
  BY <1>0, <1>1, ThreadTypes DEF FirstRun, ControlAt, MakesTrip, Growing, Linking, Copying, Cutting
<1>3. 0 \in Orders(i)
  BY <1>0, <1>1, <1>2, AllWhole DEF FirstRun, CoverInv, BackedOK, BackedAt
<1>4. IsArray(i)
  BY <1>2, FileBlocksAre DEF FirstRun, OrderInv, AllArrays
<1>5. s # <<>>
  <2>1. PICK e \in Entries(i) : e.order = 0
    BY <1>3 DEF Orders
  <2>2. s \in Seq(Block) /\ Len(s) # 0
    BY <1>0, <1>4, <2>1 DEF IsArray
  <2> QED
    BY <2>2
<1>6. ArrayNow' = ArrayNow
  BY <1>1, NoArray
<1>7. ArrayNow[i] = s
  BY <1>0, <1>2 DEF ArrayNow
<1> QED
  BY <1>1, <1>2, <1>5, <1>6, <1>7 DEF Array!Create, ArrayNow, FileBlocks

\* The size that a write or a truncate stores is inside the file's array.
LEMMA SetSizeResizes ==
    ASSUME FirstRun, TypeInv', LinkInv', BlocksInOrder', NEW t \in Threads, SetSize(t)
    PROVE  \E i \in Inodes : Array!Resize(i)
<1>0. PICK i, n, s : i = call[t].inode /\ n = loc[t].cur /\ s = FileBlocks(i)
  OBVIOUS
<1>1. pc[t] = "set_size" /\ UNCHANGED <<lookup, data>> /\ md' = [md EXCEPT ![i] = n]
  BY <1>0 DEF SetSize
<1>2. call[t].op \in {"write", "truncate"} /\ i \in Inodes /\ i \in DOMAIN md /\ n \in Nat
  BY <1>0, <1>1, ThreadTypes DEF FirstRun, ControlAt, MakesTrip, Growing, Linking, Copying, Cutting, LocalTypes
<1>3. OrderOf(n) \in Orders(i)
  BY <1>0, <1>1, <1>2, AllWhole DEF FirstRun, CoverInv, BackedOK, BackedAt, Copying
<1>4. IsArray(i)
  BY <1>2, FileBlocksAre DEF FirstRun, OrderInv, AllArrays
<1>5. n \in 0 .. Len(s) * BLOCK_SIZE - 1
  <2>1. PICK e \in Entries(i) : e.order = OrderOf(n)
    BY <1>3 DEF Orders
  <2>2. Len(s) \in Nat /\ OrderOf(n) < Len(s)
    BY <1>0, <1>4, <2>1 DEF IsArray
  <2> QED
    BY <1>2, <2>2, InsideArray
<1>6. ArrayNow' = ArrayNow
  BY <1>1, NoArray
<1>7. ArrayNow[i] = s
  BY <1>0, <1>2 DEF ArrayNow
<1> QED
  BY <1>1, <1>2, <1>5, <1>6, <1>7 DEF Array!Resize, ArrayNow, FileBlocks

\* A new block that is in no file yet, and one that is in none any more, show
\* in no array.
LEMMA UnlinkedBlocks ==
    ASSUME FirstRun, TypeInv', LinkInv', BlocksInOrder', NEW t \in Threads, NewData(t) \/ DelData(t)
    PROVE  ArrayNow' = ArrayNow /\ md' = md
<1>1. CASE NewData(t)
  <2>1. PICK d \in DataIds \ DOMAIN data :
            data' = [x \in DOMAIN data \cup {d} |-> IF x = d THEN ZeroBlock ELSE data[x]]
    BY <1>1 DEF NewData
  <2>2. lookup' = lookup /\ md' = md
    BY <1>1 DEF NewData
  <2>3. \A e \in lookup : data'[e.id] = data[e.id]
    BY <2>1 DEF FirstRun, LinkInv, NoDangling
  <2> QED
    BY <2>2, <2>3, NoArray
<1>2. CASE DelData(t)
  <2>1. PICK d \in Removing(t) : data' = [x \in DOMAIN data \ {d} |-> data[x]]
    BY <1>2 DEF DelData, Removing
  <2>2. lookup' = lookup /\ md' = md
    BY <1>2 DEF DelData
  <2>3. \A e \in lookup : data'[e.id] = data[e.id]
    BY <2>1 DEF FirstRun, LinkInv, NoDangling, RemovingOwned, Linked
  <2> QED
    BY <2>2, <2>3, NoArray
<1> QED
  BY <1>1, <1>2

\* What one step of the store does to the arrays: one step of BlockArray, or none.
LEMMA ArrayStep ==
    ASSUME MaxMounts = 1, TypeInv, LinkInv, CoverInv, ContentInv, OrderInv, RunInv,
           TypeInv', LinkInv', BlocksInOrder', [Next]_vars
    PROVE  Array!Next \/ (ArrayNow' = ArrayNow /\ md' = md)
<1>0. TypeInv /\ LinkInv /\ BlocksInOrder
  BY DEF OrderInv
<1>1. CASE UNCHANGED store
  <2>1. \A i : FileBlocks(i)' = FileBlocks(i)
    BY <1>1 DEF store, FileBlocks, BlockAt, Entries
  <2> QED
    BY <1>1, <2>1 DEF store, ArrayNow
<1>2. CASE \E t \in Threads : Start(t)
  <2>1. UNCHANGED store
    BY <1>2 DEF Start, BeginCreate, BeginWrite, SendWrite, BeginRead, SendRead, BeginTruncate, SendTruncate, Begin, TruncateByPath,
                OpenTrunc, Fallocate, Die
  <2> QED
    BY <1>1, <2>1
<1>3. ASSUME NEW t \in Threads, Step(t) PROVE Array!Next \/ (ArrayNow' = ArrayNow /\ md' = md)
  <2>1. \/ UNCHANGED store
        \/ NewData(t) \/ DelData(t) \/ NewLookup(t) \/ InsertMd(t) \/ UpdateData(t) \/ SetSize(t)
        \/ DelLookup(t)
    BY <1>3 DEF Step, FindMdForWrite, PipeFails, FindMdForRead, FindMdForTruncate, NewDataClash, MaxOrder,
                InsertMdClash, FindLookup, FindLookupFails, FindDataForWrite, FindDataForRead,
                FindDataFails, FindIds, Reply, Abort, Die
  <2>2. CASE ~UNCHANGED store
    <3>1. \/ NewData(t) \/ DelData(t) \/ NewLookup(t) \/ InsertMd(t) \/ UpdateData(t) \/ SetSize(t)
          \/ DelLookup(t)
      BY <2>1, <2>2
    <3>2. pc[t] # "idle"
      BY <3>1 DEF NewData, DelData, NewLookup, InsertMd, UpdateData, SetSize, DelLookup
    <3>3. FirstRun
      <4>1. mounts \in Nat /\ mounts >= 1
        BY DEF OrderInv, StartedOK, TypeInv, TypeOK
      <4>2. up /\ mounts = 1
        BY <3>2, <4>1 DEF RunInv
      <4> QED
        BY <4>2 DEF FirstRun, RunInv
    <3> QED
      BY <3>1, <3>3, UnlinkedBlocks, NewLookupExtends, InsertMdCreates, UpdateDataPuts,
         SetSizeResizes, DelLookupDrops DEF Array!Next
  <2> QED
    BY <1>1, <2>2
<1>4. CASE Kill \/ Mount
  <2>1. UNCHANGED store
    BY <1>4 DEF Kill, Mount, Die
  <2> QED
    BY <1>1, <2>1
<1>5. CASE UNCHANGED vars
  BY <1>1, <1>5 DEF vars, store
<1> QED
  BY <1>2, <1>3, <1>4, <1>5 DEF Next

\* The three collections, changed one document at a time by several threads,
\* show every file as one array of blocks with a size inside it, from the mount
\* to the end of the daemon: what a growing, writing or truncating call does
\* between two of its round trips is at most one step of BlockArray.
THEOREM ImplementsBlockArrayHolds ==
    ASSUME ~IdClash, MaxMounts = 1
    PROVE  Spec => ImplementsBlockArray
<1>1. Init => Array!Init
  <2> SUFFICES ASSUME Init PROVE Array!Init
    OBVIOUS
  <2>1. \A i : Cardinality(Entries(i)) = 0
    BY FS_EmptySet DEF Init, Entries
  <2>2. [i \in Inodes |-> [n \in 1 .. Cardinality(Entries(i)) |-> BlockAt(i, n - 1)]] = [i \in Inodes |-> <<>>]
    BY <2>1
  <2> QED
    BY <2>2 DEF Init, Array!Init
<1>2. Init => RunInv
  BY RequestAssumption DEF Init, RunInv
<1>3. OrderInv => StartedOK /\ BlocksInOrder
  BY DEF OrderInv
<1>4. Spec => []RunInv
  BY <1>2, <1>3, TypeInvHolds, OrderInvHolds, RunInvInductive, PTL DEF Spec
<1>5. /\ TypeInv /\ LinkInv /\ CoverInv /\ ContentInv /\ OrderInv /\ RunInv
      /\ TypeInv' /\ LinkInv' /\ BlocksInOrder' /\ [Next]_vars
      => [Array!Next]_<<[i \in Inodes |-> [n \in 1 .. Cardinality(Entries(i)) |-> BlockAt(i, n - 1)]], md>>
  BY ArrayStep DEF ArrayNow, FileBlocks
<1> QED
  BY <1>1, <1>3, <1>4, <1>5, TypeInvHolds, LinkInvHolds, CoverInvHolds, ContentInvHolds, OrderInvHolds, PTL
     DEF Spec, ImplementsBlockArray, Array!Spec


-----------------------------------------------------------------------------
(* What a write stores and what a read returns.                              *)

\* The sequence of one buffer holds the bytes of that buffer.
LEMMA FlattenOne ==
    ASSUME NEW s, Len(s) = 1
    PROVE  FlattenSeq(s) = s[1]
<1> DEFINE Flat(f) == f = [i \in 1 .. Len(s) |-> IF i = 1 THEN s[i] ELSE f[i - 1] \o s[i]]
           h == CHOOSE f : Flat(f)
<1>1. Flat([i \in 1 .. 1 |-> s[1]])
  OBVIOUS
<1>2. Flat(h)
  <2>1. \E f : Flat(f)
    BY <1>1
  <2> HIDE DEF Flat
  <2> QED
    BY <2>1
<1> HIDE DEF h
<1>3. h[1] = s[1]
  BY <1>2
<1> QED
  BY <1>3 DEF FlattenSeq, h

\* A position has one byte.
LEMMA ByteOf ==
    ASSUME BlocksInOrder, NEW i, NEW p, NEW e \in Entries(i), e.order = OrderOf(p)
    PROVE  Readable(i, p) /\ ByteAt(i, p) = data[e.id][p % BLOCK_SIZE]
<1>1. \A f \in Entries(i) : f.order = OrderOf(p) => f = e
  BY DEF BlocksInOrder, Entries
<1>2. (CHOOSE f \in Entries(i) : f.order = OrderOf(p)) = e
  BY <1>1
<1> QED
  BY <1>2 DEF Readable, Orders, ByteAt

\* A write that returns finds its bytes in the file.
LEMMA StoredWhenDone ==
    ASSUME TypeInv, BlocksInOrder, CountedOK, StoredOK
    PROVE  WriteStored
<1> SUFFICES ASSUME NEW t \in Threads, pc[t] = "reply", call[t].op = "write"
             PROVE  Len(call[t].bufs) = 1 =>
                    LET bytes == FlattenSeq(call[t].bufs)
                    IN  /\ loc[t].total = Len(bytes)
                        /\ md[call[t].inode] >= call[t].off + Len(bytes)
                        /\ Holds(call[t].inode, call[t].off, bytes)
  BY DEF WriteStored
<1>1. PICK c, l, i, buf : c = call[t] /\ l = loc[t] /\ i = c.inode /\ buf = c.bufs[1]
  OBVIOUS
<1>2. c \in RequestTypes /\ l \in LocalTypes /\ i \in DOMAIN md
  BY <1>1, ThreadTypes DEF ControlAt
<1>3. Len(c.bufs) = 1 /\ l.fp = c.off + l.total /\ l.fp = BufEnd(c, 1) /\ BufEnd(c, 1) <= md[i]
  BY <1>1 DEF CountedOK, CountedAt
<1>4. FlattenSeq(c.bufs) = buf
  BY <1>1, <1>3, FlattenOne
<1>5. buf \in Seq(Bytes) /\ c.off \in Nat /\ l.total \in Nat /\ md[i] \in Nat
  BY <1>1, <1>2, <1>3 DEF RequestTypes, LocalTypes, TypeInv, TypeOK
<1>6. l.total = Len(buf) /\ md[i] >= c.off + Len(buf) /\ l.fp = c.off + Len(buf)
  BY <1>1, <1>3, <1>5 DEF BufEnd
<1>7. ASSUME NEW n \in DOMAIN buf PROVE Readable(i, c.off + n - 1) /\ ByteAt(i, c.off + n - 1) = buf[n]
  <2>1. PICK p : p = c.off + n - 1
    OBVIOUS
  <2>2. p \in c.off .. l.fp - 1 /\ p - c.off + 1 = n
    BY <1>5, <1>6, <2>1
  <2>3. ShowsAt(c, "reply", l, p)
    BY <1>1, <2>2 DEF StoredOK, StoredAt
  <2>4. PICK e \in Entries(i) : e.order = OrderOf(p) /\ data[e.id][p % BLOCK_SIZE] = buf[n]
    BY <1>1, <2>2, <2>3 DEF ShowsAt
  <2> QED
    BY <2>1, <2>4, ByteOf
<1>8. Holds(i, c.off, buf)
  BY <1>7 DEF Holds
<1> QED
  BY <1>1, <1>4, <1>6, <1>8

\* A write of one buffer that is about to report its bytes written has stored
\* them at the offset asked for and within the file's size, whatever the other
\* threads did since it began.
THEOREM WriteStoredHolds == ASSUME ~IdClash, SingleBuffers PROVE Spec => []WriteStored
<1>1. TypeInv /\ BlocksInOrder /\ CountedOK /\ StoredOK => WriteStored
  BY StoredWhenDone
<1>2. KernelInv => CountedOK
  BY DEF KernelInv
<1> QED
  BY <1>1, <1>2, TypeInvHolds, BlocksInOrderHolds, KernelInvHolds, StoredHolds, PTL

\* The steps of a read, one action after the other.
LEMMA LocalRead ==
    ASSUME TypeInv, NEW t \in Threads, NEW label, NEW l, Goto(t, label, l),
           UNCHANGED <<md, lookup, data, call>>, ReadAt(call[t], label, l)
    PROVE  ReadAt(call[t], pc[t], loc[t])'
<1>1. pc'[t] = label /\ loc'[t] = l
  BY GotoEffect DEF TypeInv
<1> QED
  BY <1>1 DEF ReadAt, Entries, OrderOf

\* The head of read_buf.
LEMMA FindMdForReadRead ==
    ASSUME TypeInv, NEW t \in Threads, ReadAt(call[t], pc[t], loc[t]), FindMdForRead(t)
    PROVE  ReadAt(call[t], pc[t], loc[t])'
<1>1. PICK c, l : c = call[t] /\ l = [loc[t] EXCEPT !.cur = md[c.inode], !.fp = c.off]
  OBVIOUS
<1>2. /\ pc[t] = "find_md"  /\ c.op = "read"  /\ Goto(t, "find_lookup", l)
      /\ UNCHANGED <<md, lookup, data, call>>
  BY <1>1 DEF FindMdForRead, store
<1>3. c \in RequestTypes /\ loc[t] \in LocalTypes
  BY <1>1, ThreadTypes
<1>4. c.size >= 1 /\ loc[t].out = <<>>
  BY <1>1, <1>2 DEF ReadAt
<1>5. l.cur = md[c.inode] /\ l.fp = c.off /\ l.out = <<>> /\ c.off \in Nat
  BY <1>1, <1>3, <1>4 DEF LocalTypes, RequestTypes
<1>6. Len(l.out) = 0
  BY <1>5
<1>7. ReadAt(c, "find_lookup", l)
  BY <1>4, <1>5, <1>6 DEF ReadAt
<1> QED
  BY <1>1, <1>2, <1>7, LocalRead

\* The block found is that of the position.
LEMMA FindLookupRead ==
    ASSUME TypeInv, NEW t \in Threads, ReadAt(call[t], pc[t], loc[t]), FindLookup(t)
    PROVE  ReadAt(call[t], pc[t], loc[t])'
<1>1. PICK e \in Wanted(t) : Goto(t, "find_data", [loc[t] EXCEPT !.id = e.id])
  BY DEF FindLookup
<1>2. pc[t] = "find_lookup" /\ UNCHANGED <<md, lookup, data, call>>
  BY DEF FindLookup, store
<1>3. PICK c, l : c = call[t] /\ l = [loc[t] EXCEPT !.id = e.id]
  OBVIOUS
<1>4. l.id = e.id /\ l.out = loc[t].out /\ l.fp = loc[t].fp /\ l.cur = loc[t].cur
  BY <1>3, ThreadTypes DEF LocalTypes
<1>5. e \in Entries(c.inode) /\ e.order = OrderOf(l.fp)
  BY <1>3, <1>4 DEF Wanted
<1>6. ReadAt(c, "find_lookup", loc[t])
  BY <1>2, <1>3
<1>7. ReadAt(c, "find_data", l)
  BY <1>4, <1>5, <1>6 DEF ReadAt
<1> QED
  BY <1>1, <1>2, <1>3, <1>7, LocalRead

\* Where the copy loop of a read stops.
LEMMA CopyStops ==
    ASSUME NEW fp \in Nat, NEW end \in Nat, NEW cur \in Nat
    PROVE  LET next == AfterBlock(fp, Least(end, cur))
           IN  /\ next \in Nat  /\ fp <= next
               /\ next = fp \/ next <= cur
               /\ ~(next = BlockEnd(fp) /\ next < end) => Least(end, cur) <= next
<1>0. PICK next : next = AfterBlock(fp, Least(end, cur))
  OBVIOUS
<1>1. Least(end, cur) \in Nat /\ Least(end, cur) <= cur
  BY DEF Least
<1>2. next \in Nat /\ fp <= next /\ BlockEnd(fp) \in Nat
  BY <1>0, <1>1, AfterBlockBounds
<1>3. PICK s, b : s = Least(end, cur) /\ b = BlockEnd(fp)
  OBVIOUS
<1>4. next = Greatest(fp, Least(b, s)) /\ b \in Nat /\ s \in Nat /\ s <= cur /\ s <= end
  BY <1>0, <1>1, <1>2, <1>3 DEF AfterBlock, Least
<1>5. next = fp \/ next <= cur
  BY <1>4 DEF Greatest, Least
<1>6. fp < b
  <2>1. PICK q, k, r : q = OrderOf(fp) /\ k = BLOCK_SIZE /\ r = fp % BLOCK_SIZE
    OBVIOUS
  <2>2. k \in Nat \ {0} /\ q \in Nat /\ r \in 0 .. k - 1 /\ fp = k * q + r
    BY <2>1, BlockSizeAssumption DEF OrderOf
  <2>3. b = (q + 1) * k
    BY <1>3, <2>1 DEF BlockEnd
  <2> QED
    BY <2>2, <2>3
<1>7. ~(next = b /\ next < end) => s <= next
  BY <1>4, <1>6 DEF Greatest, Least
<1> QED
  BY <1>0, <1>2, <1>3, <1>5, <1>7

\* The bytes of the block follow those read before.
LEMMA FindDataForReadRead ==
    ASSUME TypeInv, NEW t \in Threads, ReadAt(call[t], pc[t], loc[t]), FindDataForRead(t)
    PROVE  ReadAt(call[t], pc[t], loc[t])'
<1>0. PICK c, l, fp, out, cur, end, next, s :
          /\ c = call[t]  /\ fp = loc[t].fp  /\ out = loc[t].out  /\ cur = loc[t].cur
          /\ end = c.off + c.size  /\ next = AfterBlock(fp, Least(end, cur))
          /\ s = Slice(data[loc[t].id], fp, next)
          /\ l = [loc[t] EXCEPT !.out = @ \o s, !.fp = next, !.id = NoId]
  OBVIOUS
<1> DEFINE more == next = BlockEnd(fp) /\ next < end
<1>1. /\ pc[t] = "find_data"  /\ c.op = "read"  /\ UNCHANGED <<md, lookup, data, call>>
      /\ Goto(t, IF more THEN "find_lookup" ELSE "reply", l)
  BY <1>0 DEF FindDataForRead, store
<1>2. c \in RequestTypes /\ loc[t] \in LocalTypes
  BY <1>0, ThreadTypes
<1>3. l.out = out \o s /\ l.fp = next /\ l.cur = cur
  BY <1>0, <1>2 DEF LocalTypes
<1>4. c.off \in Nat /\ c.size \in Nat /\ end \in Nat /\ fp \in Nat /\ cur \in Nat /\ out \in Seq(Bytes)
  BY <1>0, <1>2 DEF RequestTypes, LocalTypes
<1>5. /\ c.size >= 1  /\ cur = md[c.inode]  /\ fp = c.off + Len(out)  /\ (fp = c.off \/ fp <= cur)
      /\ \A n \in 1 .. Len(out) :
             \E e \in Entries(c.inode) : /\ e.order = OrderOf(c.off + n - 1)
                                         /\ data[e.id][(c.off + n - 1) % BLOCK_SIZE] = out[n]
  BY <1>0, <1>1 DEF ReadAt
<1>6. PICK f \in Entries(c.inode) : f.id = loc[t].id /\ f.order = OrderOf(fp)
  BY <1>0, <1>1 DEF ReadAt
<1>7. next \in Nat /\ fp <= next /\ (next = fp \/ next <= cur) /\ (~more => Least(end, cur) <= next)
  <2>1. next = AfterBlock(fp, Least(end, cur))
    BY <1>0
  <2>2. fp \in Nat /\ end \in Nat /\ cur \in Nat
    BY <1>4
  <2>3. /\ next \in Nat  /\ fp <= next
        /\ next = fp \/ next <= cur
        /\ ~(next = BlockEnd(fp) /\ next < end) => Least(end, cur) <= next
    BY <2>1, <2>2, CopyStops
  <2> QED
    BY <2>3
<1>8. s = [n \in 1 .. next - fp |-> data[f.id][(fp + n - 1) % BLOCK_SIZE]]
  BY <1>0, <1>6 DEF Slice
<1>9. Len(s) = next - fp /\ \A n \in 1 .. next - fp : s[n] = data[f.id][(fp + n - 1) % BLOCK_SIZE]
  BY <1>4, <1>7, <1>8
<1>10. s \in Seq(Bytes)
  <2>1. loc[t].id \in DOMAIN data
    BY <1>0 DEF FindDataForRead
  <2>2. data[loc[t].id] \in Block
    BY <2>1 DEF TypeInv, TypeOK
  <2> QED
    BY <1>0, <1>4, <1>7, <2>2, SliceIsBytes
<1>11. /\ Len(out \o s) = Len(out) + Len(s)
       /\ \A n \in 1 .. Len(out) : (out \o s)[n] = out[n]
       /\ \A n \in 1 .. Len(s) : (out \o s)[Len(out) + n] = s[n]
  BY <1>4, <1>10
<1>12. next = c.off + Len(out \o s)
  <2>1. fp = c.off + Len(out) /\ Len(s) = next - fp /\ Len(out \o s) = Len(out) + Len(s)
    BY <1>5, <1>9, <1>11, Zenon
  <2>2. c.off \in Nat /\ fp \in Nat /\ next \in Nat
    BY <1>4, <1>7, Zenon
  <2>3. PICK a \in Nat, b \in Nat : a = Len(out) /\ b = Len(s)
    BY <1>4, <1>10
  <2>4. fp = c.off + a /\ b = next - fp
    BY <2>1, <2>3, Zenon
  <2>5. next = c.off + (a + b)
    <3>1. PICK off \in Nat : off = c.off
      BY <2>2
    <3> QED
      BY <2>2, <2>4, <3>1
  <2> QED
    BY <2>1, <2>3, <2>5, Zenon
<1>13. ASSUME NEW n \in 1 .. Len(out \o s)
       PROVE  \E e \in Entries(c.inode) : /\ e.order = OrderOf(c.off + n - 1)
                                          /\ data[e.id][(c.off + n - 1) % BLOCK_SIZE] = (out \o s)[n]
  <2>1. CASE n <= Len(out)
    BY <1>4, <1>5, <1>11, <2>1
  <2>2. CASE n > Len(out)
    <3> DEFINE m == n - Len(out)
               p == c.off + n - 1
    <3>0. Len(out) \in Nat /\ Len(out \o s) = Len(out) + (next - fp)
      BY <1>4, <1>9, <1>11
    <3>1. m \in 1 .. next - fp /\ n = Len(out) + m
      BY <1>4, <1>7, <2>2, <3>0
    <3>2. fp + m - 1 = p /\ p \in Nat
      <4>1. fp = c.off + Len(out) /\ c.off \in Nat
        BY <1>4, <1>5, Zenon
      <4> QED
        BY <2>2, <3>0, <4>1
    <3> HIDE DEF m
    <3>3. m \in Nat
      BY <1>4, <1>7, <3>1
    <3> HIDE DEF p
    <3>4. p \in fp .. next - 1
      BY <1>4, <1>7, <3>1, <3>2, <3>3
    <3>5. Least(end, cur) \in Nat
      BY <1>4 DEF Least
    <3>6. OrderOf(p) = OrderOf(fp)
      BY <1>0, <1>4, <3>2, <3>4, <3>5, InOneBlock
    <3>7. (out \o s)[n] = data[f.id][p % BLOCK_SIZE]
      BY <1>9, <1>11, <3>1, <3>2
    <3> QED
      BY <1>6, <3>6, <3>7 DEF p
  <2> QED
    BY <1>4, <1>11, <2>1, <2>2
<1>14. next = c.off \/ next <= cur
  BY <1>4, <1>5, <1>7
<1>15. ASSUME NEW label \in {"find_lookup", "reply"}, label = "reply" => ~more
       PROVE  ReadAt(c, label, l)
  <2>1. label = "reply" => Least(c.off + c.size, l.cur) <= l.fp
    <3>1. end = c.off + c.size
      BY <1>0
    <3> QED
      BY <1>3, <1>7, <1>15, <3>1
  <2> HIDE DEF more
  <2> QED
    BY <1>3, <1>5, <1>12, <1>13, <1>14, <1>15, <2>1 DEF ReadAt
<1>16. CASE more
  BY <1>0, <1>1, <1>15, <1>16, LocalRead
<1>17. CASE ~more
  BY <1>0, <1>1, <1>15, <1>17, LocalRead
<1> QED
  BY <1>16, <1>17


\* A read begins with a size to read and nothing read.
LEMMA BeginReads ==
    ASSUME TypeInv, NEW t \in Threads,
           BeginCreate(t) \/ BeginWrite(t) \/ BeginRead(t) \/ BeginTruncate(t)
    PROVE  ReadAt(call[t], pc[t], loc[t])'
<1>1. ASSUME NEW label, NEW c, NEW n, Begin(t, label, c, n)
      PROVE  call'[t] = c /\ pc'[t] = label /\ loc'[t] = [NoLocals EXCEPT !.need = n]
  BY <1>1, GotoEffect DEF Begin, TypeInv, TypeOK
<1>2. CASE BeginRead(t)
  <2>1. PICK i \in DOMAIN md, off \in Offsets, n \in ReadSizes :
            Begin(t, "find_md", [NoCall EXCEPT !.op = "read", !.inode = i, !.off = off, !.size = n], 0)
    BY <1>2 DEF BeginRead, SendRead
  <2>2. PICK c : c = [NoCall EXCEPT !.op = "read", !.inode = i, !.off = off, !.size = n]
    OBVIOUS
  <2>3. c.op = "read" /\ c.size = n
    BY <2>2 DEF NoCall
  <2>4. call'[t] = c /\ pc'[t] = "find_md" /\ loc'[t] = [NoLocals EXCEPT !.need = 0]
    BY <1>1, <2>1, <2>2
  <2>5. loc'[t].out = <<>>
    BY <2>4 DEF NoLocals
  <2>6. n >= 1
    BY RequestAssumption
  <2> QED
    BY <2>3, <2>4, <2>5, <2>6 DEF ReadAt
<1>3. CASE BeginCreate(t) \/ BeginWrite(t) \/ BeginTruncate(t)
  <2>1. PICK label, c, n : Begin(t, label, c, n) /\ c.op \in {"create", "write", "truncate"}
    <3>1. CASE BeginCreate(t)
      <4>1. PICK i \in Inodes : Begin(t, "new_data", [NoCall EXCEPT !.op = "create", !.inode = i], 1)
        BY <3>1 DEF BeginCreate
      <4>2. [NoCall EXCEPT !.op = "create", !.inode = i].op = "create"
        BY DEF NoCall
      <4> QED
        BY <4>1, <4>2
    <3>2. CASE BeginWrite(t)
      <4>1. PICK i \in DOMAIN md, off \in Offsets, bufs \in BufVecs :
              Begin(t, "find_md", [NoCall EXCEPT !.op = "write", !.inode = i, !.off = off, !.bufs = bufs], 0)
        BY <3>2 DEF BeginWrite, SendWrite
      <4>2. [NoCall EXCEPT !.op = "write", !.inode = i, !.off = off, !.bufs = bufs].op = "write"
        BY DEF NoCall
      <4> QED
        BY <4>1, <4>2
    <3>3. CASE BeginTruncate(t)
      <4>1. PICK i \in DOMAIN md, n \in NewSizes :
              Begin(t, "find_md", [NoCall EXCEPT !.op = "truncate", !.inode = i, !.size = n], 0)
        BY <3>3 DEF BeginTruncate, SendTruncate
      <4>2. [NoCall EXCEPT !.op = "truncate", !.inode = i, !.size = n].op = "truncate"
        BY DEF NoCall
      <4> QED
        BY <4>1, <4>2
    <3> QED
      BY <1>3, <3>1, <3>2, <3>3
  <2>2. call'[t] = c
    BY <1>1, <2>1
  <2> QED
    BY <2>1, <2>2 DEF ReadAt
<1> QED
  BY <1>2, <1>3

\* The other steps are of calls that read nothing.
LEMMA OtherReads ==
    ASSUME TypeInv, NEW t \in Threads,
           \/ FindMdForWrite(t) \/ FindMdForTruncate(t) \/ NewData(t) \/ MaxOrder(t) \/ NewLookup(t)
           \/ InsertMd(t) \/ FindDataForWrite(t) \/ UpdateData(t) \/ SetSize(t)
           \/ FindIds(t) \/ DelLookup(t) \/ DelData(t) \/ Reply(t)
    PROVE  ReadAt(call[t], pc[t], loc[t])'
<1>1. CASE Reply(t)
  <2>1. call'[t] = NoCall
    BY <1>1 DEF Reply, TypeInv, TypeOK
  <2> QED
    BY <2>1 DEF ReadAt, NoCall
<1>2. CASE ~Reply(t)
  <2>1. MakesTrip(call[t].op, pc[t])
    BY ThreadTypes DEF ControlAt
  <2>2. call' = call
    BY <1>2 DEF FindMdForWrite, FindMdForTruncate, NewData, MaxOrder, NewLookup, InsertMd, FindDataForWrite,
                UpdateData, SetSize, FindIds, DelLookup, DelData
  <2>3. \/ call[t].op \in {"write", "truncate"}
        \/ pc[t] \in Growing \cup Cutting \cup {"insert_md", "update_data", "set_size"}
    BY <1>2 DEF FindMdForWrite, FindMdForTruncate, NewData, MaxOrder, NewLookup, InsertMd, FindDataForWrite,
                UpdateData, SetSize, FindIds, DelLookup, DelData, Growing, Linking, Cutting
  <2>4. call[t].op # "read"
    BY <2>1, <2>3 DEF MakesTrip, Growing, Linking, Copying, Cutting
  <2> QED
    BY <2>2, <2>4 DEF ReadAt
<1> QED
  BY <1>1, <1>2

\* A step of another thread that holds no lock on the file of a read does not
\* touch what the read has seen.
LEMMA ReadBeside ==
    ASSUME TypeInv, LinkInv, ContentInv, NEW t \in Threads, ReadAt(call[t], pc[t], loc[t]),
           NEW u \in Threads \ {t}, Start(u) \/ Step(u), Alone(u), ~Owns(u, call[t].inode)
    PROVE  ReadAt(call[t], pc[t], loc[t])'
<1>1. call'[t] = call[t] /\ pc'[t] = pc[t] /\ loc'[t] = loc[t]
  BY DEF Alone
<1> SUFFICES ASSUME call[t].op = "read" PROVE ReadAt(call[t], pc[t], loc[t])'
  BY <1>1 DEF ReadAt
<1>2. PICK i : i = call[t].inode
  OBVIOUS
<1>3. md'[i] = md[i]
  BY <1>2, OthersSizes, ThreadTypes DEF ControlAt
<1>4. \A e \in Entries(i) : e \in Entries(i)' /\ data'[e.id] = data[e.id]
  <2> SUFFICES ASSUME NEW e \in lookup, e.inode = i PROVE e \in lookup' /\ data'[e.id] = data[e.id]
    BY DEF Entries
  <2> QED
    BY <1>2, OthersBlocks
<1>5. PICK c, label, l : c = call[t] /\ label = pc[t] /\ l = loc[t]
  OBVIOUS
<1>6. ReadAt(c, label, l)'
  <2>1. ASSUME NEW n \in 1 .. Len(l.out), label # "find_md"
        PROVE  \E e \in Entries(i)' : /\ e.order = OrderOf(c.off + n - 1)
                                      /\ data'[e.id][(c.off + n - 1) % BLOCK_SIZE] = l.out[n]
    BY <1>2, <1>4, <1>5, <2>1 DEF ReadAt
  <2>2. label = "find_data" => \E e \in Entries(i)' : e.id = l.id /\ e.order = OrderOf(l.fp)
    BY <1>2, <1>4, <1>5 DEF ReadAt
  <2> QED
    BY <1>2, <1>3, <1>5, <2>1, <2>2 DEF ReadAt, OrderOf
<1> QED
  BY <1>1, <1>5, <1>6 DEF ReadAt, Entries, OrderOf

\* A step of any thread, of the kernel or of the daemon keeps what a read
\* has gathered if no other call holds the lock of the file.
LEMMA ReadStep ==
    ASSUME TypeInv, LinkInv, ContentInv, [Next]_vars, NEW t \in Threads,
           ReadAt(call[t], pc[t], loc[t]), Undisturbed(t)
    PROVE  ReadAt(call[t], pc[t], loc[t])'
<1>1. CASE Die
  BY <1>1 DEF Die, ReadAt, NoCall
<1>2. ASSUME NEW u \in Threads, Start(u) \/ Step(u), ~Die
      PROVE  ReadAt(call[t], pc[t], loc[t])'
  <2>1. CASE u # t
    <3>1. ~Owns(u, call[t].inode)
      BY <2>1 DEF Undisturbed, Owns
    <3> QED
      BY <1>2, <2>1, <3>1, StepAlone, ReadBeside
  <2>2. CASE OpenTrunc(u) \/ Fallocate(u)
    <3>1. UNCHANGED <<store, threads>>
      BY <2>2 DEF OpenTrunc, Fallocate
    <3> QED
      BY <3>1 DEF store, threads, ReadAt, Entries, OrderOf
  <2>3. CASE u = t /\ (BeginCreate(t) \/ BeginWrite(t) \/ BeginRead(t) \/ BeginTruncate(t))
    BY <2>3, BeginReads
  <2>4. CASE u = t /\ Step(t)
    BY <1>2, <2>4, FindMdForReadRead, FindLookupRead, FindDataForReadRead, OtherReads
       DEF Step, PipeFails, NewDataClash, InsertMdClash, FindLookupFails, FindDataFails, Abort
  <2> QED
    BY <1>2, <2>1, <2>2, <2>3, <2>4 DEF Start, TruncateByPath
<1>3. CASE Mount \/ UNCHANGED vars
  BY <1>3 DEF Mount, store, threads, vars, ReadAt, Entries, OrderOf
<1> QED
  BY <1>1, <1>2, <1>3 DEF Next, Kill

\* While no write and no truncate of its file is under way, a read gathers the
\* bytes the file has: the round trips of other reads, of creates and of the
\* calls on other files take none of them away, whatever ids they draw.
THEOREM QuietReadsHold == Spec => QuietReads
<1>1. TypeInv /\ LinkInv /\ ContentInv /\ [Next]_vars => [ReadsGoOn]_vars
  BY ReadStep DEF ReadsGoOn
<1> QED
  BY <1>1, TypeInvHolds, LinkInvHolds, ContentInvHolds, PTL DEF Spec, QuietReads

\* A read that returns has the bytes of the file that the reply has room for.
LEMMA ReadWhenDone ==
    ASSUME TypeInv, BlocksInOrder, NEW t \in Threads, ReadAt(call[t], pc[t], loc[t])
    PROVE  ReturnsFile(t)
<1> SUFFICES ASSUME pc[t] = "reply", call[t].op = "read", NEW n \in 1 .. call[t].size
             PROVE  Padded(loc[t].out, call[t].size)[n] =
                        IF call[t].off + n - 1 < md[call[t].inode]
                        THEN ByteAt(call[t].inode, call[t].off + n - 1) ELSE Zero
  BY DEF ReturnsFile
<1>1. PICK c, l, i, out, p :
          c = call[t] /\ l = loc[t] /\ i = c.inode /\ out = l.out /\ p = c.off + n - 1
  OBVIOUS
<1>2. c \in RequestTypes /\ l \in LocalTypes
  BY <1>1, ThreadTypes
<1>3. c.off \in Nat /\ c.size \in Nat /\ out \in Seq(Bytes) /\ l.fp \in Nat /\ l.cur \in Nat
  BY <1>1, <1>2 DEF RequestTypes, LocalTypes
<1>4. /\ l.cur = md[i]  /\ l.fp = c.off + Len(out)
      /\ l.fp = c.off \/ l.fp <= l.cur
      /\ \A m \in 1 .. Len(out) :
             \E e \in Entries(i) : /\ e.order = OrderOf(c.off + m - 1)
                                   /\ data[e.id][(c.off + m - 1) % BLOCK_SIZE] = out[m]
      /\ Least(c.off + c.size, l.cur) <= l.fp
  BY <1>1 DEF ReadAt
<1>5. Padded(out, c.size)[n] = IF n \in DOMAIN out THEN out[n] ELSE Zero
  BY <1>1 DEF Padded
<1>6. p \in Nat /\ Len(out) \in Nat /\ DOMAIN out = 1 .. Len(out) /\ n \in 1 .. c.size
  BY <1>1, <1>3
<1>7. /\ l.cur = md[i]  /\ l.fp = c.off + Len(out)  /\ (l.fp = c.off \/ l.fp <= l.cur)
      /\ Least(c.off + c.size, l.cur) <= l.fp
  BY <1>4, Zenon
<1>8. CASE n \in DOMAIN out
  <2>1. p < md[i]
    <3>1. n \in 1 .. Len(out) /\ p = c.off + n - 1
      BY <1>1, <1>6, <1>8
    <3>2. p < l.fp /\ l.fp # c.off
      BY <1>3, <1>6, <1>7, <3>1
    <3> QED
      BY <1>3, <1>6, <1>7, <3>2
  <2>2. PICK e \in Entries(i) : e.order = OrderOf(p) /\ data[e.id][p % BLOCK_SIZE] = out[n]
    BY <1>1, <1>4, <1>6, <1>8
  <2>3. ByteAt(i, p) = out[n]
    BY <2>2, ByteOf
  <2> QED
    BY <1>1, <1>5, <1>8, <2>1, <2>3
<1>9. CASE n \notin DOMAIN out
  <2>1. ~(p < md[i])
    <3>1. l.fp <= p /\ p < c.off + c.size /\ Least(c.off + c.size, l.cur) <= l.fp
      <4>1. n \in 1 .. c.size /\ n > Len(out) /\ p = c.off + n - 1
        BY <1>1, <1>3, <1>6, <1>9
      <4> QED
        BY <1>3, <1>6, <1>7, <4>1
    <3>2. l.cur <= p
      BY <1>3, <1>6, <3>1 DEF Least
    <3> QED
      BY <1>3, <1>6, <1>7, <3>2
  <2> QED
    BY <1>1, <1>5, <1>9, <2>1
<1> QED
  BY <1>8, <1>9

\* A read that no write and no truncate of the same file runs beside returns the
\* bytes of the file at the positions asked for, and zeros past its end: it
\* starts with the stored size, stops at the end of the range or of the file,
\* whichever comes first, and takes every byte between from the block of its
\* position.
THEOREM ReadReturnsFileHolds == ASSUME ~IdClash PROVE Spec => ReadReturnsFile
<1>1. TypeInv /\ BlocksInOrder => \A t \in Threads : ReadAt(call[t], pc[t], loc[t]) => ReturnsFile(t)
  BY ReadWhenDone
<1>2. (TypeInv /\ BlocksInOrder)' => (\A t \in Threads : ReadAt(call[t], pc[t], loc[t]) => ReturnsFile(t))'
  BY <1>1, PTL
<1>3. TypeInv /\ LinkInv /\ ContentInv /\ (TypeInv /\ BlocksInOrder)' /\ [Next]_vars => [ReadsReturn]_vars
  BY <1>2, ReadStep DEF ReadsReturn
<1> QED
  BY <1>3, TypeInvHolds, LinkInvHolds, ContentInvHolds, BlocksInOrderHolds, PTL DEF Spec, ReadReturnsFile
=============================================================================

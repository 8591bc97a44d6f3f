--------------------------- MODULE NamespaceProofs ---------------------------
(* Types, and the order of a create: a file's block 0 is linked before its   *)
(* metadata can be seen.  For any threads, names, inodes and bounds, with    *)
(* ids that clash, daemons that die anywhere and mount points that change.   *)
EXTENDS NamespaceInv, WellFoundedInduction, SequenceTheorems, TLAPS

\* The threads' variables are functions of the threads, and a create that is
\* about to insert its document has linked the block.
ThreadsTotal == /\ pc = [t \in Threads |-> pc[t]]
                /\ call = [t \in Threads |-> call[t]]
                /\ loc = [t \in Threads |-> loc[t]]
LinkedAt(t) == pc[t] = "insert_md" /\ call[t].op = "create" => loc[t].ino \in blocked
BlockInv == ThreadsTotal /\ (\A t \in Threads : LinkedAt(t)) /\ FilesHaveBlock

-----------------------------------------------------------------------------
(* What one thread's step has to show.                                       *)

\* Goto moves one thread and leaves the others alone.
LEMMA GotoThreads ==
    ASSUME ThreadsTotal, NEW t \in Threads, NEW label, NEW l, Goto(t, label, l)
    PROVE  /\ pc' = [u \in Threads |-> IF u = t THEN label ELSE pc[u]]
           /\ loc' = [u \in Threads |-> IF u = t THEN l ELSE loc[u]]
BY DEF ThreadsTotal, Goto

\* A step that changes no document and ends before the insert.
LEMMA QuietStep ==
    ASSUME BlockInv, NEW t \in Threads, NEW label, NEW l, Goto(t, label, l),
           UNCHANGED <<md, blocked>>, call' = [u \in Threads |-> call'[u]],
           \A u \in Threads \ {t} : call'[u] = call[u],
           label # "insert_md" \/ call'[t].op # "create"
    PROVE  BlockInv'
<1>1. ThreadsTotal'
  BY GotoThreads DEF BlockInv, ThreadsTotal
<1>2. ASSUME NEW u \in Threads PROVE LinkedAt(u)'
  BY GotoThreads DEF BlockInv, LinkedAt
<1>3. FilesHaveBlock'
  BY DEF BlockInv, FilesHaveBlock
<1> QED
  BY <1>1, <1>2, <1>3 DEF BlockInv

\* Target sends no create to the insert: it links the block first.
LEMMA TargetLinks ==
    ASSUME NEW phase PROVE Target("create", phase) # "insert_md"
BY DEF Target

\* A create links its block before it inserts a document.
LEMMA TargetOf ==
    ASSUME NEW op, NEW phase, op = "create" PROVE Target(op, phase) # "insert_md"
BY TargetLinks

\* A handler goes on without a change of a document or a block.
LEMMA QuietCall ==
    ASSUME BlockInv, NEW t \in Threads, NEW label, NEW l, Goto(t, label, l),
           UNCHANGED <<database, call>>, call[t].op = "create" => label # "insert_md"
    PROVE  BlockInv'
<1>1. call' = [u \in Threads |-> call'[u]] /\ UNCHANGED <<md, blocked>>
  BY DEF BlockInv, ThreadsTotal, database
<1> QED
  BY <1>1, QuietStep

\* ... by starting a walk.
LEMMA QuietWalk ==
    ASSUME BlockInv, NEW t \in Threads, NEW p, NEW l, Walk(t, call[t].op, p, l),
           UNCHANGED <<database, call>>
    PROVE  BlockInv'
<1> DEFINE label == IF Len(p) > 1 THEN "walk" ELSE Target(call[t].op, l.phase)
           m == [l EXCEPT !.cur = IF p = <<>> THEN Zero ELSE root, !.k = 1]
<1>1. Goto(t, label, m)
  BY DEF Walk
<1>2. call[t].op = "create" => label # "insert_md"
  BY TargetOf
<1> HIDE DEF label, m
<1> QED
  BY <1>1, <1>2, QuietCall

\* A request begins with a round trip that inserts nothing for a create.
LEMMA QuietBegin ==
    ASSUME BlockInv, NEW t \in Threads, NEW op, NEW p, NEW n, Begin(t, op, p, n),
           NEW label, NEW l, Goto(t, label, l), op = "create" => label # "insert_md"
    PROVE  BlockInv'
<1> DEFINE c == [op |-> op, path |-> p, node |-> n,
                  was |-> Denotes(IF op \in Makers THEN Front(p) ELSE p)]
<1>1. call' = [call EXCEPT ![t] = c] /\ UNCHANGED <<md, blocked>>
  BY DEF Begin, database
<1>2. c.op = op
  OBVIOUS
<1> HIDE DEF c
<1>3. call' = [u \in Threads |-> IF u = t THEN c ELSE call[u]]
  BY <1>1 DEF BlockInv, ThreadsTotal
<1>4. /\ call' = [u \in Threads |-> call'[u]]  /\ call'[t].op = op
      /\ \A u \in Threads \ {t} : call'[u] = call[u]
  BY <1>2, <1>3
<1> QED
  BY <1>1, <1>4, QuietStep

\* ... with a walk.
LEMMA QuietBeginWalk ==
    ASSUME BlockInv, NEW t \in Threads, NEW op, NEW p, NEW n, Begin(t, op, p, n),
           NEW l, Walk(t, op, p, l)
    PROVE  BlockInv'
<1> DEFINE label == IF Len(p) > 1 THEN "walk" ELSE Target(op, l.phase)
           m == [l EXCEPT !.cur = IF p = <<>> THEN Zero ELSE root, !.k = 1]
<1>1. Goto(t, label, m)
  BY DEF Walk
<1>2. op = "create" => label # "insert_md"
  BY TargetOf
<1> HIDE DEF label, m
<1> QED
  BY <1>1, <1>2, QuietBegin

\* The end of the daemon leaves every thread idle and every document in place.
LEMMA DieKeeps ==
    ASSUME BlockInv, NEW cause, Die(cause)
    PROVE  BlockInv'
<1>1. /\ pc' = [t \in Threads |-> "idle"]  /\ call' = [t \in Threads |-> NoCall]
      /\ loc' = [t \in Threads |-> NoLocals]  /\ md' = md /\ blocked' = blocked
  BY DEF Die, database
<1> QED
  BY <1>1 DEF BlockInv, ThreadsTotal, LinkedAt, FilesHaveBlock

-----------------------------------------------------------------------------
(* The actions.                                                              *)

\* Confirm and Answer go on to no insert.
LEMMA ConfirmKeeps ==
    ASSUME BlockInv, NEW t \in Threads, Confirm(t), UNCHANGED <<database, call>>
    PROVE  BlockInv'
<1> DEFINE l == [loc[t] EXCEPT !.phase = "confirm"]
<1>1. CASE call[t].op = "create"
  <2>1. Goto(t, "search", l)
    BY <1>1 DEF Confirm
  <2> QED
    BY <2>1, QuietCall
<1>2. CASE call[t].op # "create"
  <2>1. Walk(t, "mkdir", call[t].path, l)
    BY <1>2 DEF Confirm
  <2>2. PICK label, m : Goto(t, label, m)
    BY <2>1 DEF Walk
  <2> QED
    BY <1>2, <2>2, QuietCall
<1> QED
  BY <1>1, <1>2

\* An answer inserts nothing.
LEMMA AnswerKeeps ==
    ASSUME BlockInv, NEW t \in Threads, NEW a, Answer(t, a), UNCHANGED <<database, call>>
    PROVE  BlockInv'
<1> DEFINE label == IF call[t].op \in Makers /\ loc[t].phase = "lookup" /\ a = NoInode
                    THEN "make" ELSE "reply"
<1>1. Goto(t, label, [loc[t] EXCEPT !.ans = a]) /\ label # "insert_md"
  BY DEF Answer
<1> HIDE DEF label
<1> QED
  BY <1>1, QuietCall

\* Every request of the kernel.
LEMMA StartKeeps ==
    ASSUME BlockInv, NEW t \in Threads, Start(t)
    PROVE  BlockInv'
<1>1. CASE BeginGetattr(t)
  BY <1>1, QuietBeginWalk DEF BeginGetattr
<1>2. CASE BeginMake(t)
  BY <1>2, QuietBeginWalk DEF BeginMake
<1>3. CASE BeginOpen(t)
  BY <1>3, QuietBeginWalk DEF BeginOpen
<1>4. CASE BeginFgetattr(t)
  BY <1>4, QuietBegin DEF BeginFgetattr
<1>5. CASE BeginReaddir(t)
  BY <1>5, QuietBegin DEF BeginReaddir
<1>6. CASE Unlink(t)
  BY <1>6 DEF Unlink, BlockInv, ThreadsTotal, LinkedAt, FilesHaveBlock, database
<1>7. CASE Rename(t)
  BY <1>7 DEF Rename, BlockInv, ThreadsTotal, LinkedAt, FilesHaveBlock, database
<1> QED
  BY <1>1, <1>2, <1>3, <1>4, <1>5, <1>6, <1>7 DEF Start

\* A walk descends.
LEMMA WalkStepKeeps ==
    ASSUME BlockInv, NEW t \in Threads, WalkStep(t)
    PROVE  BlockInv'
<1>1. PICK c \in Named(loc[t].cur, call[t].path[loc[t].k]) :
        LET l == [loc[t] EXCEPT !.cur = c, !.k = @ + 1]
        IN  Goto(t, IF l.k = Len(call[t].path) THEN Target(call[t].op, l.phase) ELSE "walk", l)
  BY DEF WalkStep
<1> DEFINE l == [loc[t] EXCEPT !.cur = c, !.k = @ + 1]
           label == IF l.k = Len(call[t].path) THEN Target(call[t].op, l.phase) ELSE "walk"
<1>2. Goto(t, label, l)
  BY <1>1
<1>3. call[t].op = "create" => label # "insert_md"
  BY TargetOf
<1>4. UNCHANGED <<database, call>>
  BY DEF WalkStep
<1> HIDE DEF label, l
<1> QED
  BY <1>2, <1>3, <1>4, QuietCall

\* The block is linked, and from here on its create may insert the document.
LEMMA InsertBlockKeeps ==
    ASSUME BlockInv, NEW t \in Threads, InsertBlock(t)
    PROVE  BlockInv'
<1>1. /\ blocked' = blocked \cup {loc[t].ino}  /\ md' = md  /\ call' = call
      /\ Goto(t, "insert_md", loc[t])
  BY DEF InsertBlock
<1>2. ThreadsTotal'
  BY <1>1, GotoThreads DEF BlockInv, ThreadsTotal
<1>3. ASSUME NEW u \in Threads PROVE LinkedAt(u)'
  BY <1>1, GotoThreads DEF BlockInv, LinkedAt
<1>4. FilesHaveBlock'
  BY <1>1 DEF BlockInv, FilesHaveBlock
<1> QED
  BY <1>2, <1>3, <1>4 DEF BlockInv

\* Only a create inserts a file, and its block is there.
LEMMA InsertMdKeeps ==
    ASSUME BlockInv, NEW t \in Threads, InsertMd(t)
    PROVE  BlockInv'
<1> DEFINE doc == [parent |-> loc[t].cur, name |-> Last(call[t].path), kind |-> KindMade(call[t].op)]
<1>1. /\ pc[t] = "insert_md"  /\ blocked' = blocked  /\ call' = call  /\ Confirm(t)
      /\ md' = [c \in DOMAIN md \cup {loc[t].ino} |-> IF c = loc[t].ino THEN doc ELSE md[c]]
  BY DEF InsertMd, Add
<1>2. doc.kind = "file" => loc[t].ino \in blocked
  BY <1>1 DEF KindMade, BlockInv, LinkedAt
<1> HIDE DEF doc
<1>3. FilesHaveBlock'
  BY <1>1, <1>2 DEF BlockInv, FilesHaveBlock
<1>4. PICK label, l : Goto(t, label, l) /\ (call[t].op = "create" => label # "insert_md")
  BY <1>1 DEF Confirm, Walk
<1>5. ThreadsTotal'
  BY <1>1, <1>4, GotoThreads DEF BlockInv, ThreadsTotal
<1>6. ASSUME NEW u \in Threads PROVE LinkedAt(u)'
  BY <1>1, <1>4, GotoThreads DEF BlockInv, LinkedAt
<1> QED
  BY <1>3, <1>5, <1>6 DEF BlockInv

\* A call is over.
LEMMA ReplyKeeps ==
    ASSUME BlockInv, NEW t \in Threads, Reply(t)
    PROVE  BlockInv'
<1>1. /\ call' = [call EXCEPT ![t] = NoCall]  /\ Goto(t, "idle", NoLocals)
      /\ UNCHANGED <<md, blocked>>
  BY DEF Reply, database
<1>2. /\ call' = [u \in Threads |-> call'[u]]
      /\ \A u \in Threads \ {t} : call'[u] = call[u]
  BY <1>1 DEF BlockInv, ThreadsTotal
<1> QED
  BY <1>1, <1>2, QuietStep

\* Every round trip of a handler.
LEMMA StepKeeps ==
    ASSUME BlockInv, NEW t \in Threads, Step(t)
    PROVE  BlockInv'
<1>1. CASE WalkFails(t)
  BY <1>1, ConfirmKeeps, AnswerKeeps DEF WalkFails
<1>2. CASE FindChild(t)
  BY <1>2, AnswerKeeps DEF FindChild
<1>3. CASE FindRoot(t)
  BY <1>3, AnswerKeeps, DieKeeps DEF FindRoot
<1>4. CASE SearchByInode(t)
  BY <1>4, AnswerKeeps DEF SearchByInode
<1>5. CASE Make(t)
  <2>1. PICK i \in Inodes : Walk(t, call[t].op, call[t].path, [loc[t] EXCEPT !.phase = "make", !.ino = i])
    BY <1>5 DEF Make
  <2> QED
    BY <1>5, <2>1, QuietWalk DEF Make
<1>6. CASE InsertMdClash(t)
  BY <1>6, DieKeeps DEF InsertMdClash
<1>7. CASE ListChildren(t)
  BY <1>7, QuietCall DEF ListChildren
<1>8. CASE ListFails(t)
  BY <1>8, DieKeeps DEF ListFails
<1> QED
  BY <1>1, <1>2, <1>3, <1>4, <1>5, <1>6, <1>7, <1>8,
     WalkStepKeeps, InsertBlockKeeps, InsertMdKeeps, ReplyKeeps DEF Step

\* init_db deletes a document and inserts a directory.
LEMMA DaemonKeeps ==
    ASSUME BlockInv, Daemon
    PROVE  BlockInv'
<1>1. CASE RemoveRoot
  <2>1. /\ UNCHANGED <<blocked, pc, call, loc>>
        /\ \A i \in DOMAIN md' : i \in DOMAIN md /\ md'[i] = md[i]
    BY <1>1 DEF RemoveRoot
  <2> QED
    BY <2>1 DEF BlockInv, ThreadsTotal, LinkedAt, FilesHaveBlock
<1>2. CASE InsertRoot
  <2>1. /\ UNCHANGED <<blocked, pc, call, loc>>
        /\ \A i \in DOMAIN md' : (i \in DOMAIN md /\ md'[i] = md[i]) \/ md'[i].kind = "dir"
    BY <1>2 DEF InsertRoot, Add
  <2> QED
    BY <2>1 DEF BlockInv, ThreadsTotal, LinkedAt, FilesHaveBlock
<1>3. CASE InsertRootFails
  BY <1>3, DieKeeps DEF InsertRootFails
<1> QED
  BY <1>1, <1>2, <1>3 DEF Daemon

\* At the start there is no file.
LEMMA InitBlocks == Init => BlockInv
BY DEF Init, BlockInv, ThreadsTotal, LinkedAt, FilesHaveBlock

\* Every step of the daemon and the kernel.
LEMMA NextBlocks == BlockInv /\ [Next]_vars => BlockInv'
<1> SUFFICES ASSUME BlockInv, [Next]_vars PROVE BlockInv'
  OBVIOUS
<1>1. CASE Kill
  BY <1>1, DieKeeps DEF Kill
<1>2. CASE Mount
  BY <1>2 DEF Mount, BlockInv, ThreadsTotal, LinkedAt, FilesHaveBlock, database
<1>3. CASE UNCHANGED vars
  BY <1>3 DEF vars, BlockInv, ThreadsTotal, LinkedAt, FilesHaveBlock
<1> QED
  BY <1>1, <1>2, <1>3, StartKeeps, StepKeeps, DaemonKeeps DEF Next

\* Wherever the daemon dies, and whatever ids are drawn, a file that a lookup
\* can find has its block 0 (create_entry_with_dir_parent).
THEOREM FilesHaveBlockHolds == Spec => []FilesHaveBlock
<1>1. BlockInv => FilesHaveBlock
  BY DEF BlockInv
<1> QED
  BY InitBlocks, NextBlocks, <1>1, PTL DEF Spec

-----------------------------------------------------------------------------
(* Paths.                                                                    *)

\* Induction over the naturals, for a set of them.
LEMMA SetInduction ==
    ASSUME NEW S, 0 \in S, \A n \in Nat : n \in S => n + 1 \in S
    PROVE  Nat \subseteq S
<1> SUFFICES ASSUME NEW x \in Nat, x \notin S PROVE FALSE
  OBVIOUS
<1> DEFINE R == OpToRel(<, Nat)
           T == Nat \ S
<1>1. IsWellFoundedOn(R, Nat)
  BY NatLessThanWellFounded
<1>2. T \in SUBSET Nat /\ x \in T
  OBVIOUS
<1> HIDE DEF T
<1>3. PICK n \in T : \A y \in T : ~(<<y, n>> \in R)
  BY <1>1, <1>2, WFMin, Zenon
<1>4. \A y \in T : ~(y < n)
  BY <1>2, <1>3 DEF OpToRel
<1>5. n # 0 /\ n \in Nat
  BY <1>2 DEF T
<1>6. n - 1 \in S /\ n - 1 \in Nat
  BY <1>4, <1>5 DEF T
<1>7. (n - 1) + 1 \in S
  BY <1>6
<1>8. n \in S
  BY <1>5, <1>7
<1> QED
  BY <1>3, <1>8 DEF T

\* Paths are sequences of names, and so are their beginnings.
LEMMA PathFacts ==
    ASSUME NEW p \in Paths
    PROVE  /\ p \in Seq(Names)  /\ Len(p) \in 0 .. MaxDepth
           /\ p # <<>> => /\ Len(p) >= 1  /\ Front(p) \in Paths  /\ Len(Front(p)) = Len(p) - 1
                          /\ Last(p) \in Names  /\ \A k \in 1 .. Len(p) - 1 : Front(p)[k] = p[k]
<1>1. PICK n \in 0 .. MaxDepth : p \in [1 .. n -> Names]
  BY DEF Paths
<1>2. n \in Nat
  BY BoundAssumption
<1>3. p \in Seq(Names) /\ Len(p) = n
  BY <1>1, <1>2, SeqDef
<1>4. ASSUME p # <<>>
      PROVE  /\ Len(p) >= 1  /\ Front(p) \in Paths  /\ Len(Front(p)) = Len(p) - 1
             /\ Last(p) \in Names  /\ \A k \in 1 .. Len(p) - 1 : Front(p)[k] = p[k]
  <2>1. n >= 1
    BY <1>2, <1>3, <1>4, EmptySeq
  <2>2. Front(p) = [k \in 1 .. n - 1 |-> p[k]]
    BY <1>2, <1>3, <2>1 DEF Front
  <2>3. Front(p) \in [1 .. n - 1 -> Names] /\ n - 1 \in 0 .. MaxDepth
    BY <1>1, <1>2, <2>1, <2>2, BoundAssumption
  <2>4. Front(p) \in Paths
    BY <2>3 DEF Paths
  <2>5. Len(Front(p)) = n - 1
    BY <1>2, <1>3, <2>1 DEF Front
  <2> QED
    BY <1>1, <1>2, <1>3, <2>1, <2>2, <2>4, <2>5 DEF Last
<1> QED
  BY <1>1, <1>3, <1>4

\* A path is its beginning and its last name.
LEMMA PathEqual ==
    ASSUME NEW p \in Paths, NEW q \in Paths, p # <<>>, q # <<>>, Front(p) = Front(q), Last(p) = Last(q)
    PROVE  p = q
<1>1. /\ p \in Seq(Names) /\ q \in Seq(Names)
      /\ Len(p) >= 1 /\ Len(p) = Len(Front(p)) + 1
      /\ Len(q) >= 1 /\ Len(q) = Len(Front(q)) + 1
      /\ \A k \in 1 .. Len(p) - 1 : Front(p)[k] = p[k]
      /\ \A k \in 1 .. Len(q) - 1 : Front(q)[k] = q[k]
  BY PathFacts
<1>2. Len(p) = Len(q) /\ Len(p) \in Nat
  BY <1>1
<1>3. \A k \in 1 .. Len(p) : p[k] = q[k]
  BY <1>1, <1>2 DEF Last
<1> QED
  BY <1>1, <1>2, <1>3, SeqEqual

\* The beginnings that a walk goes through.
LEMMA SubPaths ==
    ASSUME NEW p \in Paths, NEW k \in 1 .. Len(p)
    PROVE  LET q == SubSeq(p, 1, k)
           IN  /\ q \in Paths  /\ q # <<>>  /\ Front(q) = SubSeq(p, 1, k - 1)  /\ Last(q) = p[k]
               /\ SubSeq(p, 1, k - 1) \in Paths
<1>1. p \in Seq(Names) /\ Len(p) \in 0 .. MaxDepth /\ k \in Nat /\ k >= 1 /\ k <= Len(p)
  BY PathFacts
<1>2. ASSUME NEW n \in 0 .. k PROVE SubSeq(p, 1, n) \in Paths /\ Len(SubSeq(p, 1, n)) = n
  <2>1. n \in Nat /\ n <= Len(p) /\ n \in 0 .. MaxDepth
    BY <1>1, BoundAssumption
  <2>2. SubSeq(p, 1, n) = [j \in 1 .. n |-> p[j]]
    BY <1>1, <2>1
  <2>3. SubSeq(p, 1, n) \in [1 .. n -> Names]
    <3>1. \A j \in 1 .. n : p[j] \in Names
      BY <1>1, <2>1
    <3> QED
      BY <2>2, <3>1
  <2>4. Len(SubSeq(p, 1, n)) = n
    BY <1>1, <2>1
  <2> QED
    BY <2>1, <2>3, <2>4 DEF Paths
<1> DEFINE q == SubSeq(p, 1, k)
<1>3. q \in Paths /\ Len(q) = k /\ SubSeq(p, 1, k - 1) \in Paths
  BY <1>1, <1>2
<1>4. q # <<>> /\ Last(q) = p[k]
  <2>1. q[k] = p[k]
    BY <1>1
  <2>2. q # <<>>
    BY <1>1, <1>3
  <2> QED
    BY <1>3, <2>1, <2>2 DEF Last
<1>5. Front(q) = SubSeq(p, 1, k - 1)
  BY <1>1, <1>3 DEF Front
<1> QED
  BY <1>3, <1>4, <1>5

NamedIn(S, n) == UNION {Named(i, n) : i \in S}

\* f is what Denotes computes for the beginnings of p.
Reaches(f, p, n) ==
    f = [k \in 0 .. n |-> IF k = 0 THEN {root} ELSE NamedIn(f[k - 1], p[k])]

\* The function of a walk, level by level.
LEMMA ReachesAt ==
    ASSUME NEW f, NEW p, NEW n \in Nat, Reaches(f, p, n)
    PROVE  f[0] = {root} /\ \A k \in 1 .. n : f[k] = NamedIn(f[k - 1], p[k])
<1>1. \A k \in 0 .. n : f[k] = IF k = 0 THEN {root} ELSE NamedIn(f[k - 1], p[k])
  BY DEF Reaches
<1>2. \A k \in 1 .. n : k \in 0 .. n /\ k # 0
  OBVIOUS
<1> QED
  BY <1>1, <1>2

\* There is exactly one such function.
LEMMA ReachesExists == ASSUME NEW p, NEW n \in Nat PROVE \E f : Reaches(f, p, n)
<1> DEFINE S == {m \in Nat : \E f : Reaches(f, p, m)}
<1>1. 0 \in S
  <2> DEFINE f == [k \in 0 .. 0 |-> {root}]
  <2>1. Reaches(f, p, 0)
    BY DEF Reaches
  <2> QED
    BY <2>1
<1>2. ASSUME NEW m \in Nat, m \in S PROVE m + 1 \in S
  <2>1. PICK f : Reaches(f, p, m)
    BY <1>2
  <2> DEFINE g == [k \in 0 .. m + 1 |-> IF k <= m THEN f[k] ELSE NamedIn(f[m], p[k])]
  <2>2. \A k \in 0 .. m + 1 : g[k] = IF k = 0 THEN {root} ELSE NamedIn(g[k - 1], p[k])
    <3> SUFFICES ASSUME NEW k \in 0 .. m + 1
                 PROVE  g[k] = IF k = 0 THEN {root} ELSE NamedIn(g[k - 1], p[k])
      OBVIOUS
    <3>1. CASE k = 0
      BY <2>1, <3>1 DEF Reaches
    <3>2. CASE k \in 1 .. m
      <4>1. g[k] = f[k] /\ g[k - 1] = f[k - 1]
        BY <3>2
      <4>2. f[k] = NamedIn(f[k - 1], p[k])
        BY <2>1, <3>2, ReachesAt
      <4> QED
        BY <3>2, <4>1, <4>2
    <3>3. CASE k = m + 1
      <4>1. g[k - 1] = f[m]
        BY <3>3
      <4> QED
        BY <3>3, <4>1
    <3> QED
      BY <3>1, <3>2, <3>3
  <2>3. Reaches(g, p, m + 1)
    BY <2>2 DEF Reaches
  <2> QED
    BY <2>3
<1> HIDE DEF S
<1>3. n \in S
  BY <1>1, <1>2, SetInduction
<1> QED
  BY <1>3 DEF S

\* Two walks along the same names reach the same.
LEMMA ReachesUnique ==
    ASSUME NEW p, NEW q, NEW m \in Nat, NEW n \in Nat, NEW f, NEW g, Reaches(f, p, m), Reaches(g, q, n),
           n <= m, \A k \in 1 .. n : p[k] = q[k]
    PROVE  \A k \in 0 .. n : f[k] = g[k]
<1> DEFINE S == {k \in Nat : k <= n => f[k] = g[k]}
<1>1. 0 \in S
  BY DEF Reaches
<1>2. ASSUME NEW k \in Nat, k \in S PROVE k + 1 \in S
  <2> SUFFICES ASSUME k + 1 <= n PROVE f[k + 1] = g[k + 1]
    OBVIOUS
  <2>1. f[k] = g[k] /\ p[k + 1] = q[k + 1] /\ k + 1 \in 0 .. n /\ k + 1 \in 0 .. m /\ k + 1 # 0
    BY <1>2
  <2>2. (k + 1) - 1 = k
    OBVIOUS
  <2>3. f[k + 1] = NamedIn(f[k], p[k + 1])
    BY <2>1, <2>2 DEF Reaches
  <2>4. g[k + 1] = NamedIn(g[k], q[k + 1])
    BY <2>1, <2>2 DEF Reaches
  <2> QED
    BY <2>1, <2>3, <2>4
<1> HIDE DEF S
<1>3. Nat \subseteq S
  BY <1>1, <1>2, SetInduction
<1> QED
  BY <1>3 DEF S

\* Denotes, one name at a time.
Meaning ==
    /\ Denotes(<<>>) = {root}
    /\ \A p \in Paths : p # <<>> =>
           \A i : i \in Denotes(p) <=> \E j \in Denotes(Front(p)) : i \in Named(j, Last(p))

\* What Denotes computes: the root for the empty path, and for a longer one the
\* entries of its last name in what the path before it means.
LEMMA DenotesMeaning == Meaning
<1>1. ASSUME NEW p, Len(p) \in Nat PROVE \E f : Reaches(f, p, Len(p)) /\ Denotes(p) = f[Len(p)]
  <2>1. \E f : Reaches(f, p, Len(p))
    BY <1>1, ReachesExists
  <2> DEFINE f == CHOOSE g : Reaches(g, p, Len(p))
  <2>2. Reaches(f, p, Len(p))
    BY <2>1
  <2>3. Denotes(p) = f[Len(p)]
    BY DEF Denotes, Reaches, NamedIn
  <2> QED
    BY <2>2, <2>3
<1>2. Denotes(<<>>) = {root}
  <2>1. Len(<<>>) = 0
    OBVIOUS
  <2> QED
    BY <1>1, <2>1 DEF Reaches
<1>3. ASSUME NEW p \in Paths, p # <<>>, NEW i
      PROVE  i \in Denotes(p) <=> \E j \in Denotes(Front(p)) : i \in Named(j, Last(p))
  <2>1. PICK n \in Nat : n = Len(p) /\ n >= 1 /\ Len(Front(p)) = n - 1 /\ n - 1 \in Nat
    BY <1>3, PathFacts
  <2>2. PICK f : Reaches(f, p, n) /\ Denotes(p) = f[n]
    BY <1>1, <2>1
  <2>0. PICK q, m : q = Front(p) /\ m = n - 1
    OBVIOUS
  <2>3. PICK g : Reaches(g, q, m) /\ Denotes(Front(p)) = g[m]
    BY <1>1, <2>1, <2>0
  <2>4. \A k \in 1 .. m : p[k] = q[k]
    BY <1>3, <2>1, <2>0, PathFacts
  <2>5. f[n - 1] = g[n - 1]
    <3>1. m \in Nat /\ m <= n
      BY <2>1, <2>0
    <3>2. \A k \in 0 .. m : f[k] = g[k]
      <4>1. n \in Nat /\ Reaches(f, p, n) /\ Reaches(g, q, m)
        BY <2>1, <2>2, <2>3
      <4> QED
        BY <2>4, <3>1, <4>1, ReachesUnique
    <3> QED
      BY <2>0, <3>1, <3>2
  <2>6. f[n] = NamedIn(f[n - 1], p[n])
    BY <2>1, <2>2, ReachesAt
  <2> QED
    BY <2>1, <2>2, <2>3, <2>5, <2>6, <2>0 DEF Last, NamedIn
<1> QED
  BY <1>2, <1>3 DEF Meaning

\* ... in the next state too.
LEMMA DenotesMeaningNext == Meaning'
  BY DenotesMeaning, PTL

-----------------------------------------------------------------------------
(* Type correctness.                                                         *)

\* A path means documents, or the directory the daemon was started in.
LEMMA DenotesTypes ==
    ASSUME TypeOK, NEW p \in Paths
    PROVE  Denotes(p) \in SUBSET (Inodes \cup Roots)
<1>1. CASE p = <<>>
  BY <1>1, DenotesMeaning DEF Meaning, TypeOK
<1>2. CASE p # <<>>
  BY <1>2, DenotesMeaning DEF Meaning, TypeOK, Named, Children
<1> QED
  BY <1>1, <1>2

\* What TypeInv says of one thread.
LEMMA ThreadTypes ==
    ASSUME TypeInv, NEW t \in Threads
    PROVE  call[t] \in CallTypes /\ loc[t] \in LocalTypes /\ ControlAt(call[t], pc[t], loc[t])
  BY DEF TypeInv, TypeOK, ControlOK, CallTypes, Ops, LocalTypes

\* What a step of thread t does to the thread variables.
LEMMA GotoEffect ==
    ASSUME TypeInv, NEW t \in Threads, NEW label, NEW l, Goto(t, label, l)
    PROVE  /\ pc'[t] = label  /\ loc'[t] = l
           /\ \A u \in Threads \ {t} : pc'[u] = pc[u] /\ loc'[u] = loc[u]
  BY DEF TypeInv, TypeOK, Goto

\* A step that sends thread t to its next round trip, in call c, and removes no
\* document keeps the thread variables typed and what the others rely on.
LEMMA GotoTypes ==
    ASSUME TypeInv, NEW t \in Threads, NEW label \in Labels, NEW l \in LocalTypes, NEW c \in CallTypes,
           Goto(t, label, l), call' = [call EXCEPT ![t] = c],
           UNCHANGED stage, DOMAIN md \subseteq DOMAIN md', ControlAt(c, label, l)
    PROVE  /\ pc' \in [Threads -> Labels]  /\ call' \in [Threads -> CallTypes]
           /\ loc' \in [Threads -> LocalTypes]  /\ ControlOK'
<1>1. pc \in [Threads -> Labels] /\ call \in [Threads -> CallTypes] /\ loc \in [Threads -> LocalTypes]
  BY DEF TypeInv, TypeOK, CallTypes, Ops, LocalTypes
<1>2. pc' \in [Threads -> Labels] /\ call' \in [Threads -> CallTypes] /\ loc' \in [Threads -> LocalTypes]
  BY <1>1 DEF Goto
<1>3. ASSUME NEW u \in Threads PROVE ControlAt(call[u], pc[u], loc[u])'
  <2>1. CASE u = t
    <3>1. call'[t] = c /\ pc'[t] = label /\ loc'[t] = l
      BY <1>1 DEF Goto
    <3> QED
      BY <2>1, <3>1 DEF ControlAt
  <2>2. CASE u # t
    <3>1. call'[u] = call[u] /\ pc'[u] = pc[u] /\ loc'[u] = loc[u]
      BY <1>1, <2>2 DEF Goto
    <3>2. ControlAt(call[u], pc[u], loc[u])
      BY ThreadTypes
    <3> QED
      BY <3>1, <3>2 DEF ControlAt
  <2> QED
    BY <2>1, <2>2
<1> QED
  BY <1>2, <1>3 DEF ControlOK

\* A round trip that changes no collection.
LEMMA LocalStepTypes ==
    ASSUME TypeInv, NEW t \in Threads, NEW label \in Labels, NEW l \in LocalTypes,
           Goto(t, label, l), UNCHANGED <<database, kernel, daemon, call>>,
           ControlAt(call[t], label, l)
    PROVE  TypeInv'
<1>1. PICK c \in CallTypes : c = call[t]
  BY ThreadTypes
<1>2. call' = [call EXCEPT ![t] = c]
  BY <1>1 DEF TypeInv, TypeOK
<1>3. /\ pc' \in [Threads -> Labels]  /\ call' \in [Threads -> CallTypes]
      /\ loc' \in [Threads -> LocalTypes]  /\ ControlOK'
  BY <1>1, <1>2, GotoTypes DEF database, daemon
<1> QED
  BY <1>3 DEF TypeInv, TypeOK, NamesOK, CallTypes, Ops, LocalTypes, database, kernel, daemon

\* The types of a thread that serves no call, and of the kernel's first inodes.
LEMMA FirstTypes ==
    /\ <<>> \in Paths  /\ FirstNodes \in [Paths -> Paths \X Nat]
    /\ NoCall \in CallTypes  /\ NoLocals \in LocalTypes  /\ "idle" \in Labels
<1>1. <<>> \in Paths /\ 0 \in 0 .. MaxDepth
  BY BoundAssumption DEF Paths
<1>2. FirstNodes \in [Paths -> Paths \X Nat]
  BY DEF FirstNodes
<1>3. NoCall \in CallTypes
  BY <1>1 DEF NoCall, CallTypes, Ops
<1>4. NoLocals \in LocalTypes /\ "idle" \in Labels
  BY <1>1 DEF NoLocals, LocalTypes, Labels
<1> QED
  BY <1>1, <1>2, <1>3, <1>4

\* A name has an inode of the kernel, and a new one is of the same kind.
LEMMA NodeTypes ==
    ASSUME TypeInv, NEW p \in Paths
    PROVE  node[p] \in Paths \X Nat /\ Renewed(p) \in Paths \X Nat
<1>1. node[p] \in Paths \X Nat /\ made \in Nat
  BY DEF TypeInv, TypeOK
<1>2. made + 1 \in Nat
  BY <1>1
<1>3. <<p, made + 1>> \in Paths \X Nat
  BY <1>2
<1> QED
  BY <1>1, <1>3 DEF Renewed

\* A thread that serves no call relies on nothing.
LEMMA IdleControl ==
    ASSUME \A t \in Threads : pc'[t] = "idle" /\ call'[t] = NoCall /\ loc'[t] = NoLocals
    PROVE  ControlOK'
<1>1. NoCall.op = "none" /\ NoLocals.phase = "lookup" /\ NoLocals.ans = NoInode
  BY DEF NoCall, NoLocals
<1>2. MakesTrip("none", "lookup", "idle")
  BY DEF MakesTrip
<1>3. ASSUME NEW t \in Threads PROVE ControlAt(call[t], pc[t], loc[t])'
  BY <1>1, <1>2 DEF ControlAt, Makers
<1> QED
  BY <1>3 DEF ControlOK

\* While the daemon is down or starts, every thread is idle.
LEMMA IdleThreads ==
    ASSUME TypeInv, stage # "up", NEW t \in Threads
    PROVE  pc[t] = "idle" /\ call[t].op = "none" /\ loc[t] = NoLocals
<1>1. pc[t] = "idle" /\ loc[t] = NoLocals
  BY ThreadTypes DEF ControlAt
<1>2. MakesTrip(call[t].op, loc[t].phase, "idle")
  BY <1>1, ThreadTypes DEF ControlAt
<1> QED
  BY <1>1, <1>2 DEF MakesTrip, Walking, Inserting

\* The end of the daemon.
LEMMA DieTypes ==
    ASSUME TypeInv, NEW cause \in {"none", "dup_inode", "assert_root", "assert_fh", "null_ffi", "no_size",
                                      "data_call"}, Die(cause)
    PROVE  TypeInv'
<1>1. NoCall \in CallTypes /\ NoLocals \in LocalTypes /\ "idle" \in Labels
  BY FirstTypes
<1>2. \A t \in Threads : pc'[t] = "idle" /\ call'[t] = NoCall /\ loc'[t] = NoLocals
  BY DEF Die
<1>3. ControlOK'
  BY <1>2, IdleControl
<1>4. TypeOK'
  BY <1>1, FirstTypes DEF Die, TypeInv, TypeOK, CallTypes, Ops, LocalTypes, database
<1> QED
  BY <1>3, <1>4 DEF TypeInv, NamesOK, Die, database

\* init_db, the kill and the mount.
LEMMA DaemonTypes ==
    ASSUME TypeInv, Daemon \/ Kill \/ Mount
    PROVE  TypeInv'
<1>1. CASE RemoveRoot
  <2>1. /\ stage = "remove_root"  /\ UNCHANGED <<blocked, root, mounts, fault, kernel, pc, call, loc>>
        /\ stage' = "insert_root"
        /\ DOMAIN md' \subseteq DOMAIN md  /\ md' = [c \in DOMAIN md' |-> md[c]]
    BY <1>1 DEF RemoveRoot, TypeInv, TypeOK
  <2>2. TypeOK'
    BY <2>1 DEF TypeInv, TypeOK, kernel
  <2>3. ControlOK'
    <3> SUFFICES ASSUME NEW t \in Threads PROVE ControlAt(call[t], pc[t], loc[t])'
      BY DEF ControlOK
    <3>1. ControlAt(call[t], pc[t], loc[t]) /\ pc[t] = "idle" /\ loc[t] = NoLocals
      BY <2>1, ThreadTypes, IdleThreads
    <3>2. loc[t].ans = NoInode
      BY <3>1 DEF NoLocals
    <3> QED
      BY <2>1, <3>1, <3>2 DEF ControlAt
  <2> QED
    BY <2>1, <2>2, <2>3 DEF TypeInv, NamesOK
<1>2. CASE InsertRoot
  <2>1. /\ stage = "insert_root"
        /\ UNCHANGED <<blocked, root, mounts, fault, node, made, handles, renames, pc, call, loc>>
        /\ stage' = "up"  /\ dentries' = {[path |-> <<>>, kind |-> "dir"]}
        /\ md' = [c \in DOMAIN md \cup {root} |->
                    IF c = root THEN [parent |-> Zero, name |-> RootName, kind |-> "dir"] ELSE md[c]]
    BY <1>2 DEF InsertRoot, Add
  <2>2. <<>> \in Paths
    BY FirstTypes
  <2>3. TypeOK'
    BY <2>1, <2>2 DEF TypeInv, TypeOK, Entry, Kinds
  <2>4. ControlOK'
    BY <2>1 DEF TypeInv, ControlOK, ControlAt, NoLocals
  <2> QED
    BY <2>1, <2>3, <2>4 DEF TypeInv, NamesOK
<1>3. CASE InsertRootFails \/ Kill
  BY <1>3, DieTypes DEF InsertRootFails, Kill
<1>4. CASE Mount
  <2>1. TypeOK'
    BY <1>4 DEF Mount, TypeInv, TypeOK, database, kernel
  <2>2. ControlOK'
    BY <1>4 DEF Mount, TypeInv, ControlOK, ControlAt, database
  <2> QED
    BY <1>4, <2>1, <2>2 DEF TypeInv, NamesOK, Mount, database
<1> QED
  BY <1>1, <1>2, <1>3, <1>4 DEF Daemon

\* The head of a walk.
LEMMA WalkEffect ==
    ASSUME TypeInv, NEW t \in Threads, NEW op, NEW p, NEW l \in LocalTypes, Walk(t, op, p, l)
    PROVE  \E m \in LocalTypes :
               /\ Goto(t, IF Len(p) > 1 THEN "walk" ELSE Target(op, l.phase), m)
               /\ m.cur = IF p = <<>> THEN Zero ELSE root
               /\ m.k = 1
               /\ m.phase = l.phase /\ m.ino = l.ino /\ m.fh = l.fh /\ m.ans = l.ans
<1> DEFINE m == [l EXCEPT !.cur = IF p = <<>> THEN Zero ELSE root, !.k = 1]
<1>1. Goto(t, IF Len(p) > 1 THEN "walk" ELSE Target(op, l.phase), m)
  BY DEF Walk
<1>2. 1 \in 0 .. MaxDepth /\ root \in Roots
  BY BoundAssumption DEF TypeInv, TypeOK
<1>3. /\ m \in LocalTypes  /\ m.cur = (IF p = <<>> THEN Zero ELSE root)  /\ m.k = 1
      /\ m.phase = l.phase /\ m.ino = l.ino /\ m.fh = l.fh /\ m.ans = l.ans
  BY <1>2 DEF LocalTypes
<1> HIDE DEF m
<1> QED
  BY <1>1, <1>3

\* The request of the kernel.
LEMMA BeginEffect ==
    ASSUME TypeInv, NEW t \in Threads, NEW op, NEW p, NEW n, Begin(t, op, p, n)
    PROVE  \E c : /\ call' = [call EXCEPT ![t] = c]
                  /\ c.op = op  /\ c.path = p  /\ c.node = n
                  /\ c.was = Denotes(IF op \in Makers THEN Front(p) ELSE p)
                  /\ op \in Ops /\ p \in Paths /\ n \in Paths \X Nat /\ (op \in Makers => p # <<>>)
                         => c \in CallTypes
<1> DEFINE c == [op |-> op, path |-> p, node |-> n,
                  was |-> Denotes(IF op \in Makers THEN Front(p) ELSE p)]
<1>1. call' = [call EXCEPT ![t] = c]
  BY DEF Begin
<1>2. c.op = op /\ c.path = p /\ c.node = n /\ c.was = Denotes(IF op \in Makers THEN Front(p) ELSE p)
  OBVIOUS
<1>3. op \in Ops /\ p \in Paths /\ n \in Paths \X Nat /\ (op \in Makers => p # <<>>) => c \in CallTypes
  BY PathFacts, DenotesTypes DEF CallTypes, TypeInv
<1> HIDE DEF c
<1> QED
  BY <1>1, <1>2, <1>3

\* A call begins with the locals of no other call.
LEMMA BeginTypes ==
    ASSUME TypeInv, NEW t \in Threads, NEW op \in Ops, NEW p \in Paths, NEW n \in Paths \X Nat,
           Begin(t, op, p, n), NEW label \in Labels \ {"idle"}, NEW l \in LocalTypes, Goto(t, label, l),
           MakesTrip(op, "lookup", label), op \in Makers \cup {"getattr"} => p # <<>>,
           label = "walk" => l.k >= 1 /\ l.k < Len(p),
           l.phase = "lookup", l.ans = NoInode
    PROVE  TypeInv'
<1>1. PICK c \in CallTypes : call' = [call EXCEPT ![t] = c] /\ c.op = op /\ c.path = p
  BY BeginEffect
<1>2. stage = "up" /\ UNCHANGED <<database, kernel, daemon>>
  BY DEF Begin
<1>3. ControlAt(c, label, l)
  BY <1>1, <1>2 DEF ControlAt
<1>4. /\ pc' \in [Threads -> Labels]  /\ call' \in [Threads -> CallTypes]
      /\ loc' \in [Threads -> LocalTypes]  /\ ControlOK'
  BY <1>1, <1>2, <1>3, GotoTypes DEF database, daemon
<1> QED
  BY <1>2, <1>4 DEF TypeInv, TypeOK, NamesOK, CallTypes, Ops, LocalTypes, database, kernel, daemon

\* A request that begins with a walk has the types.
LEMMA BeginWalkTypes ==
    ASSUME TypeInv, NEW t \in Threads, NEW op \in Makers \cup {"getattr", "open", "opendir"}, NEW p \in Paths,
           NEW n \in Paths \X Nat, Begin(t, op, p, n), Walk(t, op, p, NoLocals),
           op \in Makers \cup {"getattr"} => p # <<>>
    PROVE  TypeInv'
<1>1. NoLocals \in LocalTypes /\ NoLocals.phase = "lookup" /\ NoLocals.ans = NoInode
  BY BoundAssumption DEF NoLocals, LocalTypes
<1> DEFINE label == IF Len(p) > 1 THEN "walk" ELSE Target(op, NoLocals.phase)
<1>2. PICK m \in LocalTypes :
          /\ Goto(t, label, m)  /\ m.k = 1  /\ m.phase = "lookup"  /\ m.ans = NoInode
  BY <1>1, WalkEffect
<1>3. label = IF Len(p) > 1 THEN "walk" ELSE "child"
  BY <1>1 DEF Target
<1>4. label \in Labels \ {"idle"} /\ MakesTrip(op, "lookup", label) /\ op \in Ops
  BY <1>3 DEF Labels, MakesTrip, Walking, Ops
<1>5. label = "walk" => m.k >= 1 /\ m.k < Len(p)
  BY <1>2, <1>3
<1> HIDE DEF label
<1> QED
  BY <1>2, <1>4, <1>5, BeginTypes

\* What a rename moves keeps being a path.
LEMMA MovedPath ==
    ASSUME NEW q \in Paths, NEW p \in Paths, NEW n \in Nat,
           Len(q \o SubSeq(p, n + 1, Len(p))) <= MaxDepth
    PROVE  q \o SubSeq(p, n + 1, Len(p)) \in Paths
<1> DEFINE s == q \o SubSeq(p, n + 1, Len(p))
<1>1. p \in Seq(Names) /\ q \in Seq(Names) /\ Len(p) \in Nat
  BY PathFacts, BoundAssumption
<1>2. SubSeq(p, n + 1, Len(p)) \in Seq(Names)
  <2>1. \A k \in n + 1 .. Len(p) : k \in 1 .. Len(p) /\ p[k] \in Names
    BY <1>1, ElementOfSeq
  <2> QED
    BY <1>1, <2>1, SubSeqProperties
<1>3. s \in Seq(Names)
  BY <1>1, <1>2, ConcatProperties
<1>4. Len(s) <= MaxDepth
  OBVIOUS
<1> HIDE DEF s
<1>5. Len(s) \in 0 .. MaxDepth /\ s \in [1 .. Len(s) -> Names]
  BY <1>3, <1>4, BoundAssumption, LenProperties
<1>6. s \in Paths
  BY <1>5 DEF Paths
<1> QED
  BY <1>6 DEF s

\* Their names get other inodes of the kernel, but none that a call is about.
LEMMA BeliefNodes ==
    ASSUME NEW t \in Threads, Unlink(t) \/ Rename(t)
    PROVE  /\ node' = [s \in Paths |-> node'[s]]
           /\ \A s \in Paths : \/ node'[s] \in {node[s], Renewed(s)}
                               \/ \E r \in Paths : node'[s] = node[r]
           /\ \A u \in Threads : call[u].path \in Paths => node'[call[u].path] = node[call[u].path]
<1>1. CASE Unlink(t)
  <2>1. PICK d \in dentries :
            /\ Free(d.path)
            /\ node' = [s \in Paths |-> IF s \in Below(d.path) THEN Renewed(s) ELSE node[s]]
    BY <1>1 DEF Unlink
  <2> QED
    BY <2>1 DEF Free, Below
<1>2. CASE Rename(t)
  <2>1. PICK d \in dentries, q \in Paths \ {<<>>} :
            LET from(s) == d.path \o SubSeq(s, Len(q) + 1, Len(s))
            IN  /\ Free(d.path)  /\ Free(q)
                /\ node' = [s \in Paths |->
                       IF s \in Below(q) /\ from(s) \in Paths /\ InUse(node[from(s)]) THEN node[from(s)]
                       ELSE IF s \in Below(q) \cup Below(d.path) THEN Renewed(s) ELSE node[s]]
    BY <1>2 DEF Rename
  <2> DEFINE from(s) == d.path \o SubSeq(s, Len(q) + 1, Len(s))
  <2>2. /\ node' = [s \in Paths |-> node'[s]]
        /\ \A s \in Paths : node'[s] =
               IF s \in Below(q) /\ from(s) \in Paths /\ InUse(node[from(s)]) THEN node[from(s)]
               ELSE IF s \in Below(q) \cup Below(d.path) THEN Renewed(s) ELSE node[s]
    BY <2>1
  <2> HIDE DEF from
  <2>3. \A u \in Threads : call[u].path \notin Below(q) \cup Below(d.path)
    BY <2>1 DEF Free, Below
  <2> QED
    BY <2>2, <2>3
<1> QED
  BY <1>1, <1>2

\* unlink, rmdir and rename change what the kernel believes, and no document.
LEMMA BeliefTypes ==
    ASSUME TypeInv, NEW t \in Threads, Unlink(t) \/ Rename(t)
    PROVE  TypeInv'
<1>1. UNCHANGED <<md, blocked, handles, root, stage, mounts, fault, pc, call, loc>>
  BY DEF Unlink, Rename, database, daemon
<1>2. ControlOK'
  BY <1>1 DEF TypeInv, ControlOK, ControlAt
<1>4. node' \in [Paths -> Paths \X Nat]
  <2>1. /\ node' = [s \in Paths |-> node'[s]]
        /\ \A s \in Paths : \/ node'[s] \in {node[s], Renewed(s)}
                            \/ \E r \in Paths : node'[s] = node[r]
    BY BeliefNodes
  <2>2. ASSUME NEW s \in Paths PROVE node'[s] \in Paths \X Nat
    BY <2>1, NodeTypes
  <2> QED
    BY <2>1, <2>2
<1>5. made' \in Nat
  <2>1. made \in Nat /\ made + 1 \in Nat
    BY DEF TypeInv, TypeOK
  <2>2. made' = made \/ made' = made + 1
    BY DEF Unlink, Rename, Renew
  <2> QED
    BY <2>1, <2>2
<1>3. renames' \in 0 .. MaxRenames /\ dentries' \subseteq [path : Paths, kind : Kinds]
  <2>1. CASE Unlink(t)
    BY <2>1 DEF Unlink, TypeInv, TypeOK
  <2>2. CASE Rename(t)
    <3>0. PICK d \in dentries, q \in Paths \ {<<>>} :
              LET moved == {[e EXCEPT !.path = q \o SubSeq(@, Len(d.path) + 1, Len(@))] : e \in Under(d.path)}
              IN  /\ \A e \in moved : Len(e.path) <= MaxDepth
                  /\ dentries' = (dentries \ (Under(d.path) \cup Under(q))) \cup moved
      BY <2>2 DEF Rename
    <3> DEFINE moved == {[e EXCEPT !.path = q \o SubSeq(@, Len(d.path) + 1, Len(@))] : e \in Under(d.path)}
    <3>1. /\ \A e \in moved : Len(e.path) <= MaxDepth
          /\ dentries' = (dentries \ (Under(d.path) \cup Under(q))) \cup moved
      BY <3>0
    <3>2. moved \subseteq [path : Paths, kind : Kinds]
      <4> SUFFICES ASSUME NEW e \in Under(d.path), NEW f,
                          f = [e EXCEPT !.path = q \o SubSeq(@, Len(d.path) + 1, Len(@))]
                   PROVE  f \in [path : Paths, kind : Kinds]
        OBVIOUS
      <4>1. e \in [path : Paths, kind : Kinds] /\ d \in [path : Paths, kind : Kinds]
        BY DEF Under, TypeInv, TypeOK
      <4> DEFINE s == q \o SubSeq(e.path, Len(d.path) + 1, Len(e.path))
      <4>2. f.path = s /\ f \in moved
        BY <4>1
      <4>3. Len(d.path) \in Nat
        BY <4>1, PathFacts, BoundAssumption
      <4>4. s \in Paths
        BY <3>1, <4>1, <4>2, <4>3, MovedPath
      <4> HIDE DEF s
      <4>5. f = [path |-> s, kind |-> e.kind] /\ e.kind \in Kinds
        BY <4>1 DEF s
      <4>6. [path |-> s, kind |-> e.kind] \in [path : Paths, kind : Kinds]
        BY <4>4, <4>5
      <4> QED
        BY <4>5, <4>6, Zenon
    <3>3. renames' \in 0 .. MaxRenames
      <4>1. renames \in 0 .. MaxRenames
        BY DEF TypeInv, TypeOK
      <4>2. renames < MaxRenames /\ renames' = renames + 1
        BY <2>2 DEF Rename
      <4> QED
        BY <4>1, <4>2, BoundAssumption
    <3> QED
      BY <3>1, <3>2, <3>3 DEF TypeInv, TypeOK
  <2> QED
    BY <2>1, <2>2
<1> QED
  BY <1>1, <1>2, <1>3, <1>4, <1>5 DEF TypeInv, TypeOK, NamesOK

\* Every request of the kernel.
LEMMA StartTypes ==
    ASSUME TypeInv, NEW t \in Threads, Start(t)
    PROVE  TypeInv'
<1>1. CASE BeginGetattr(t)
  BY <1>1, BeginWalkTypes, NodeTypes DEF BeginGetattr
<1>2. CASE BeginMake(t)
  BY <1>2, BeginWalkTypes, NodeTypes DEF BeginMake
<1>3. CASE BeginOpen(t)
  <2>1. PICK d \in dentries, op \in {"open", "opendir"} :
            Begin(t, op, d.path, node[d.path]) /\ Walk(t, op, d.path, NoLocals)
    BY <1>3 DEF BeginOpen
  <2>2. d.path \in Paths /\ node[d.path] \in Paths \X Nat
    BY NodeTypes DEF TypeInv, TypeOK
  <2> QED
    BY <2>1, <2>2, BeginWalkTypes DEF Makers
<1>4. CASE BeginFgetattr(t) \/ BeginReaddir(t)
  <2>1. PICK h \in handles, op \in {"fgetattr", "readdir"} :
            /\ Begin(t, op, h.path, h.node)
            /\ Goto(t, IF op = "fgetattr" THEN "search" ELSE "list", [NoLocals EXCEPT !.fh = h.fh])
    BY <1>4 DEF BeginFgetattr, BeginReaddir
  <2>2. h.path \in Paths /\ h.fh \in Inodes \cup Roots \cup {Zero} /\ h.node \in Paths \X Nat
    BY DEF TypeInv, TypeOK
  <2> DEFINE l == [NoLocals EXCEPT !.fh = h.fh]
             label == IF op = "fgetattr" THEN "search" ELSE "list"
  <2>3. l \in LocalTypes /\ l.phase = "lookup" /\ l.ans = NoInode
    BY <2>2, BoundAssumption DEF NoLocals, LocalTypes
  <2>4. /\ label \in Labels \ {"idle"}  /\ MakesTrip(op, "lookup", label)  /\ op \in Ops
        /\ label # "walk"  /\ op \notin Makers \cup {"getattr"}
    BY <2>1 DEF Labels, MakesTrip, Ops, Makers
  <2> HIDE DEF l
  <2>5. Goto(t, label, l)
    BY <2>1 DEF l
  <2> HIDE DEF label
  <2> QED
    BY <2>1, <2>2, <2>3, <2>4, <2>5, BeginTypes
<1>5. CASE Unlink(t) \/ Rename(t)
  BY <1>5, BeliefTypes
<1> QED
  BY <1>1, <1>2, <1>3, <1>4, <1>5 DEF Start

\* What a walk goes on to.
LEMMA TargetFacts ==
    ASSUME TypeInv, NEW t \in Threads
    PROVE  LET label == Target(call[t].op, loc[t].phase)
           IN  /\ pc[t] \in {"walk"} =>
                      /\ label \in Labels \ {"idle", "walk", "make"}
                      /\ MakesTrip(call[t].op, loc[t].phase, label)
               /\ pc[t] \in {"walk"} /\ loc[t].phase = "make" => label \in Inserting
               /\ pc[t] \in {"walk"} /\ loc[t].phase # "make" => label = "child"
<1>1. MakesTrip(call[t].op, loc[t].phase, pc[t])
  BY ThreadTypes DEF ControlAt
<1>2. CASE pc[t] = "walk" /\ loc[t].phase = "make"
  <2>1. call[t].op \in Makers
    BY <1>1, <1>2 DEF MakesTrip, Walking, Makers
  <2>2. Target(call[t].op, loc[t].phase) \in Inserting
    BY <1>2 DEF Target, Inserting
  <2> QED
    BY <1>2, <2>1, <2>2 DEF MakesTrip, Labels, Inserting
<1>3. CASE pc[t] = "walk" /\ loc[t].phase # "make"
  <2>1. Target(call[t].op, loc[t].phase) = "child"
    BY <1>3 DEF Target
  <2>2. MakesTrip(call[t].op, loc[t].phase, "child")
    BY <1>1, <1>3 DEF MakesTrip, Walking, Inserting
  <2> QED
    BY <1>3, <2>1, <2>2 DEF Labels
<1> QED
  BY <1>2, <1>3

\* A thread answers with a document that is there, or with none.
LEMMA AnswerTypes ==
    ASSUME TypeInv, NEW t \in Threads, NEW a, Answer(t, a), a \in DOMAIN md \/ a = NoInode,
           pc[t] \in {"walk", "child", "search"}, loc[t].phase # "make",
           UNCHANGED <<database, kernel, daemon, call>>
    PROVE  TypeInv'
<1>1. PICK m, label :
          /\ m = [loc[t] EXCEPT !.ans = a]
          /\ label = IF call[t].op \in Makers /\ loc[t].phase = "lookup" /\ a = NoInode THEN "make" ELSE "reply"
          /\ Goto(t, label, m)
  BY DEF Answer
<1>2. m \in LocalTypes /\ m.ans = a /\ m.phase = loc[t].phase /\ m.ino = loc[t].ino
  <2>1. loc[t] \in LocalTypes
    BY ThreadTypes
  <2>2. a \in Inodes \cup Roots \cup {NoInode}
    BY DEF TypeInv, TypeOK
  <2> QED
    BY <1>1, <2>1, <2>2 DEF LocalTypes
<1>3. MakesTrip(call[t].op, loc[t].phase, pc[t]) /\ stage = "up"
  BY ThreadTypes DEF ControlAt
<1>4. label \in Labels \ {"idle", "walk"} /\ MakesTrip(call[t].op, m.phase, label)
  BY <1>1, <1>2, <1>3 DEF MakesTrip, Labels, Walking, Inserting, Makers
<1>5. ControlAt(call[t], label, m)
  BY <1>2, <1>3, <1>4, ThreadTypes DEF ControlAt
<1> QED
  BY <1>1, <1>2, <1>4, <1>5, LocalStepTypes

\* The getattr that follows a create or mkdir.
LEMMA ConfirmEffect ==
    ASSUME TypeInv, NEW t \in Threads, Confirm(t), loc[t].phase = "make"
    PROVE  \E label \in Labels, m \in LocalTypes :
               /\ Goto(t, label, m)
               /\ m.phase = "confirm" /\ m.ino = loc[t].ino /\ m.fh = loc[t].fh /\ m.ans = loc[t].ans
               /\ MakesTrip(call[t].op, "confirm", label)
               /\ label = "walk" => m.k = 1 /\ Len(call[t].path) > 1
               /\ label \in {"walk", "child"} => m.cur = root
               /\ label \in {"walk", "child", "search"}
               /\ label = "child" => Len(call[t].path) = 1
<1>1. /\ call[t].op \in Makers  /\ call[t].path # <<>>  /\ call[t].path \in Paths
      /\ loc[t] \in LocalTypes
  BY ThreadTypes DEF ControlAt, MakesTrip, CallTypes
<1> DEFINE l == [loc[t] EXCEPT !.phase = "confirm"]
<1>2. /\ l \in LocalTypes  /\ l.phase = "confirm"  /\ l.ino = loc[t].ino
      /\ l.fh = loc[t].fh  /\ l.ans = loc[t].ans
  BY <1>1 DEF LocalTypes
<1>3. CASE call[t].op = "create"
  <2>1. Goto(t, "search", l)
    BY <1>3 DEF Confirm
  <2>2. MakesTrip(call[t].op, "confirm", "search") /\ "search" \in Labels
    BY <1>3 DEF MakesTrip, Labels
  <2> HIDE DEF l
  <2> QED
    BY <1>2, <2>1, <2>2
<1>4. CASE call[t].op = "mkdir"
  <2>1. Walk(t, "mkdir", call[t].path, l)
    BY <1>4 DEF Confirm
  <2> HIDE DEF l
  <2>2. PICK m \in LocalTypes :
            /\ Goto(t, IF Len(call[t].path) > 1 THEN "walk" ELSE Target("mkdir", l.phase), m)
            /\ m.cur = IF call[t].path = <<>> THEN Zero ELSE root
            /\ m.k = 1
            /\ m.phase = l.phase /\ m.ino = l.ino /\ m.fh = l.fh /\ m.ans = l.ans
    BY <1>2, <2>1, WalkEffect
  <2>10. Len(call[t].path) \in Nat /\ Len(call[t].path) >= 1
    BY <1>1, PathFacts, BoundAssumption
  <2>11. PICK n : n = Len(call[t].path)
    OBVIOUS
  <2>6. n \in Nat /\ n >= 1
    BY <2>10, <2>11
  <2>3. PICK label : label = IF n > 1 THEN "walk" ELSE "child"
    OBVIOUS
  <2>4. Goto(t, label, m)
    BY <1>2, <2>2, <2>3, <2>11 DEF Target
  <2>5. label \in Labels /\ MakesTrip(call[t].op, "confirm", label)
    BY <1>4, <2>3 DEF MakesTrip, Labels, Walking
  <2>7. m.phase = "confirm" /\ m.ino = loc[t].ino /\ m.fh = loc[t].fh /\ m.ans = loc[t].ans
    BY <1>2, <2>2
  <2>8. m.cur = root /\ m.k = 1
    BY <1>1, <2>2
  <2>9. label \in {"walk", "child"} /\ (label = "walk" => n > 1) /\ (label = "child" => n = 1)
    BY <2>3, <2>6
  <2> QED
    BY <2>4, <2>5, <2>7, <2>8, <2>9, <2>11
<1> QED
  BY <1>1, <1>3, <1>4 DEF Makers

\* One query of a walk.
LEMMA WalkStepTypes ==
    ASSUME TypeInv, NEW t \in Threads, WalkStep(t)
    PROVE  TypeInv'
<1>1. pc[t] = "walk" /\ UNCHANGED <<database, kernel, daemon, call>>
  BY DEF WalkStep
<1>0. PICK c \in Named(loc[t].cur, call[t].path[loc[t].k]) :
          LET l == [loc[t] EXCEPT !.cur = c, !.k = @ + 1]
          IN  Goto(t, IF l.k = Len(call[t].path) THEN Target(call[t].op, l.phase) ELSE "walk", l)
  BY DEF WalkStep
<1> DEFINE d == [loc[t] EXCEPT !.cur = c, !.k = @ + 1]
<1>11. PICK m : m = d
  OBVIOUS
<1>12. PICK label : label = IF m.k = Len(call[t].path) THEN Target(call[t].op, m.phase) ELSE "walk"
  OBVIOUS
<1>2. /\ m = [loc[t] EXCEPT !.cur = c, !.k = @ + 1]
      /\ label = IF m.k = Len(call[t].path) THEN Target(call[t].op, m.phase) ELSE "walk"
      /\ Goto(t, label, m)
  BY <1>0, <1>11, <1>12
<1>3. loc[t] \in LocalTypes /\ loc[t].k >= 1 /\ loc[t].k < Len(call[t].path) /\ call[t].path \in Paths
  BY <1>1, ThreadTypes DEF ControlAt, CallTypes
<1>4. Len(call[t].path) \in 0 .. MaxDepth /\ loc[t].k \in Nat
  BY <1>3, PathFacts, BoundAssumption DEF LocalTypes
<1>5. c \in Inodes \cup Roots
  BY <1>0 DEF Named, Children, TypeInv, TypeOK
<1>6. loc[t].k + 1 \in 0 .. MaxDepth
  BY <1>3, <1>4, BoundAssumption
<1>7. /\ m \in LocalTypes  /\ m.k = loc[t].k + 1  /\ m.phase = loc[t].phase
      /\ m.ino = loc[t].ino  /\ m.ans = loc[t].ans
  BY <1>2, <1>3, <1>5, <1>6 DEF LocalTypes
<1>8. label \in Labels \ {"idle"} /\ MakesTrip(call[t].op, m.phase, label)
  BY <1>1, <1>2, <1>7, TargetFacts, ThreadTypes DEF ControlAt, Labels
<1>9. label = "walk" => m.k >= 1 /\ m.k < Len(call[t].path)
  BY <1>1, <1>2, <1>3, <1>4, <1>7, TargetFacts
<1>10. ControlAt(call[t], label, m)
  BY <1>1, <1>7, <1>8, <1>9, ThreadTypes DEF ControlAt
<1> QED
  BY <1>1, <1>2, <1>7, <1>8, <1>10, LocalStepTypes

\* The answers.
LEMMA AnswersTypes ==
    ASSUME TypeInv, NEW t \in Threads, FindChild(t) \/ FindRoot(t) \/ SearchByInode(t)
    PROVE  TypeInv'
<1>1. ASSUME pc[t] \in {"child", "search"} PROVE loc[t].phase # "make"
  BY <1>1, ThreadTypes DEF ControlAt, MakesTrip, Inserting
<1>2. CASE FindChild(t)
  <2>1. PICK a : Answer(t, a) /\ (a \in DOMAIN md \/ a = NoInode)
    BY <1>2 DEF FindChild, Named, Children
  <2> QED
    BY <1>1, <1>2, <2>1, AnswerTypes DEF FindChild
<1>3. CASE FindRoot(t)
  <2>1. CASE root \in DOMAIN md
    BY <1>1, <1>3, <2>1, AnswerTypes DEF FindRoot
  <2>2. CASE root \notin DOMAIN md
    BY <1>3, <2>2, DieTypes DEF FindRoot
  <2> QED
    BY <2>1, <2>2
<1>4. CASE SearchByInode(t)
  BY <1>1, <1>4, AnswerTypes DEF SearchByInode
<1> QED
  BY <1>2, <1>3, <1>4

\* A component is missing.
LEMMA WalkFailsTypes ==
    ASSUME TypeInv, NEW t \in Threads, WalkFails(t)
    PROVE  TypeInv'
<1>1. pc[t] = "walk" /\ UNCHANGED <<database, kernel, daemon, call>>
  BY DEF WalkFails
<1>2. CASE loc[t].phase = "make"
  <2>1. Confirm(t)
    BY <1>2 DEF WalkFails
  <2>2. PICK label \in Labels, m \in LocalTypes :
            /\ Goto(t, label, m)  /\ MakesTrip(call[t].op, "confirm", label)
            /\ m.phase = "confirm" /\ m.ino = loc[t].ino /\ m.ans = loc[t].ans
            /\ label = "walk" => m.k = 1 /\ Len(call[t].path) > 1
            /\ label # "idle"
    BY <1>2, <2>1, ConfirmEffect
  <2>3. ControlAt(call[t], label, m)
    BY <1>1, <1>2, <2>2, ThreadTypes DEF ControlAt
  <2> QED
    BY <1>1, <2>2, <2>3, LocalStepTypes
<1>3. CASE loc[t].phase # "make"
  BY <1>1, <1>3, AnswerTypes DEF WalkFails
<1> QED
  BY <1>2, <1>3

\* generate_id, and the walk to the parent that comes after it.
LEMMA MakeTypes ==
    ASSUME TypeInv, NEW t \in Threads, Make(t)
    PROVE  TypeInv'
<1>1. pc[t] = "make" /\ UNCHANGED <<database, kernel, daemon, call>>
  BY DEF Make
<1>2. /\ call[t].op \in Makers  /\ call[t].path # <<>>  /\ call[t].path \in Paths  /\ stage = "up"
      /\ loc[t] \in LocalTypes  /\ (loc[t].ans # NoInode => loc[t].ans \in DOMAIN md)
  BY <1>1, ThreadTypes DEF ControlAt, MakesTrip, CallTypes, Walking, Inserting
<1>3. PICK i \in Inodes :
          Walk(t, call[t].op, call[t].path, [loc[t] EXCEPT !.phase = "make", !.ino = i])
  BY DEF Make
<1>4. PICK l : l = [loc[t] EXCEPT !.phase = "make", !.ino = i]
  OBVIOUS
<1>5. l \in LocalTypes /\ l.phase = "make" /\ l.ino \in Inodes /\ l.ans = loc[t].ans
  BY <1>2, <1>3, <1>4 DEF LocalTypes
<1>11. Walk(t, call[t].op, call[t].path, l)
  BY <1>3, <1>4
<1>6. PICK m \in LocalTypes :
          /\ Goto(t, IF Len(call[t].path) > 1 THEN "walk" ELSE Target(call[t].op, l.phase), m)
          /\ m.k = 1
          /\ m.phase = l.phase /\ m.ino = l.ino /\ m.ans = l.ans
  BY <1>5, <1>11, WalkEffect
<1>7. PICK label : label = IF Len(call[t].path) > 1 THEN "walk" ELSE Target(call[t].op, l.phase)
  OBVIOUS
<1>8. label \in Labels \ {"idle"} /\ MakesTrip(call[t].op, "make", label)
  BY <1>2, <1>5, <1>7 DEF Target, Labels, MakesTrip, Inserting, Makers
<1>9. label = "walk" => Len(call[t].path) > 1
  BY <1>5, <1>7 DEF Target
<1>10. ControlAt(call[t], label, m)
  BY <1>2, <1>5, <1>6, <1>8, <1>9 DEF ControlAt
<1> QED
  BY <1>1, <1>6, <1>7, <1>8, <1>10, LocalStepTypes

\* A thread that makes an entry has an inode for it.
LEMMA InsertingFacts ==
    ASSUME TypeInv, NEW t \in Threads, pc[t] \in Inserting
    PROVE  /\ call[t].op \in Makers  /\ loc[t].phase = "make"  /\ loc[t].ino \in Inodes
           /\ call[t].path \in Paths  /\ call[t].path # <<>>  /\ stage = "up"
           /\ loc[t].cur \in Inodes \cup Roots \cup {Zero}
<1>1. MakesTrip(call[t].op, loc[t].phase, pc[t])
  BY ThreadTypes DEF ControlAt
<1>2. call[t].op \in Makers /\ loc[t].phase = "make"
  BY <1>1 DEF MakesTrip, Inserting, Walking
<1> QED
  BY <1>2, ThreadTypes DEF ControlAt, CallTypes, LocalTypes, Inserting

\* The link of a block keeps them.
LEMMA InsertBlockTypes ==
    ASSUME TypeInv, NEW t \in Threads, InsertBlock(t)
    PROVE  TypeInv'
<1>1. /\ pc[t] = "insert_block"  /\ blocked' = blocked \cup {loc[t].ino}
      /\ Goto(t, "insert_md", loc[t])
      /\ UNCHANGED <<md, kernel, daemon, call>>
  BY DEF InsertBlock
<1>2. PICK c, l : c = call[t] /\ l = loc[t]
  OBVIOUS
<1>3. c \in CallTypes /\ l \in LocalTypes /\ call' = [call EXCEPT ![t] = c]
  BY <1>1, <1>2, ThreadTypes DEF TypeInv, TypeOK
<1>4. MakesTrip(c.op, l.phase, "insert_md") /\ "insert_md" \in Labels
  BY <1>1, <1>2, InsertingFacts DEF MakesTrip, Inserting, Labels
<1>5. ControlAt(c, "insert_md", l)
  BY <1>1, <1>2, <1>4, ThreadTypes DEF ControlAt
<1>6. /\ pc' \in [Threads -> Labels]  /\ call' \in [Threads -> CallTypes]
      /\ loc' \in [Threads -> LocalTypes]  /\ ControlOK'
  BY <1>1, <1>2, <1>3, <1>4, <1>5, GotoTypes DEF daemon
<1>7. blocked' \subseteq Inodes
  BY <1>1, InsertingFacts DEF TypeInv, TypeOK, Inserting
<1> QED
  BY <1>1, <1>6, <1>7 DEF TypeInv, TypeOK, NamesOK, CallTypes, Ops, LocalTypes, kernel, daemon

\* A new document has the fields of the schema.
LEMMA AddTypes ==
    ASSUME TypeInv, NEW i \in Inodes \cup Roots, NEW doc \in Entry, Add(i, doc)
    PROVE  /\ DOMAIN md' = DOMAIN md \cup {i}  /\ DOMAIN md' \subseteq Inodes \cup Roots
           /\ md' \in [DOMAIN md' -> Entry]  /\ DOMAIN md \subseteq DOMAIN md'
  BY DEF TypeInv, TypeOK, Add

\* The insert of a document keeps them.
LEMMA InsertMdTypes ==
    ASSUME TypeInv, NEW t \in Threads, InsertMd(t)
    PROVE  TypeInv'
<1>1. pc[t] = "insert_md" /\ Confirm(t) /\ UNCHANGED <<blocked, kernel, daemon, call>>
  BY DEF InsertMd
<1>2. /\ call[t].op \in Makers  /\ loc[t].phase = "make"  /\ loc[t].ino \in Inodes
      /\ call[t].path \in Paths  /\ call[t].path # <<>>  /\ stage = "up"
      /\ loc[t].cur \in Inodes \cup Roots \cup {Zero}
  BY <1>1, InsertingFacts DEF Inserting
<1>3. PICK i, doc : /\ i = loc[t].ino
                    /\ doc = [parent |-> loc[t].cur, name |-> Last(call[t].path), kind |-> KindMade(call[t].op)]
  OBVIOUS
<1>4. i \in Inodes \cup Roots /\ doc \in Entry /\ Add(i, doc)
  BY <1>2, <1>3, PathFacts DEF InsertMd, Entry, KindMade, Kinds
<1>5. /\ DOMAIN md' \subseteq Inodes \cup Roots
      /\ md' \in [DOMAIN md' -> Entry]  /\ DOMAIN md \subseteq DOMAIN md'
  BY <1>4, AddTypes
<1>6. PICK label \in Labels, m \in LocalTypes :
          /\ Goto(t, label, m)  /\ MakesTrip(call[t].op, "confirm", label)
          /\ m.phase = "confirm" /\ m.ino = loc[t].ino /\ m.ans = loc[t].ans
          /\ label = "walk" => m.k = 1 /\ Len(call[t].path) > 1
          /\ label # "idle"
  BY <1>1, <1>2, ConfirmEffect
<1>7. PICK c : c = call[t]
  OBVIOUS
<1>8. c \in CallTypes /\ call' = [call EXCEPT ![t] = c]
  BY <1>1, <1>7, ThreadTypes DEF TypeInv, TypeOK
<1>9. ControlAt(c, label, m)
  BY <1>2, <1>6, <1>7, ThreadTypes DEF ControlAt
<1>10. /\ pc' \in [Threads -> Labels]  /\ call' \in [Threads -> CallTypes]
       /\ loc' \in [Threads -> LocalTypes]  /\ ControlOK'
  BY <1>1, <1>5, <1>6, <1>8, <1>9, GotoTypes DEF daemon
<1>11. NamesOK'
  <2>1. doc.name \in Names
    BY <1>2, <1>3, PathFacts
  <2> QED
    BY <1>4, <2>1 DEF TypeInv, NamesOK, Add
<1> QED
  BY <1>1, <1>5, <1>10, <1>11 DEF TypeInv, TypeOK, CallTypes, Ops, LocalTypes, kernel, daemon

\* A listing keeps them.
LEMMA ListTypes ==
    ASSUME TypeInv, NEW t \in Threads, ListChildren(t)
    PROVE  TypeInv'
<1>1. pc[t] = "list" /\ loc[t].fh # Zero /\ UNCHANGED <<database, kernel, daemon, call>>
  BY DEF ListChildren
<1>2. loc[t] \in LocalTypes
  BY ThreadTypes
<1>3. PICK n : n = {md[c].name : c \in Children(loc[t].fh)}
  OBVIOUS
<1>4. n \in SUBSET Names
  BY <1>1, <1>3 DEF TypeInv, NamesOK, Children
<1>5. PICK l : l = [loc[t] EXCEPT !.names = n]
  OBVIOUS
<1>6. Goto(t, "reply", l)
  BY <1>3, <1>5 DEF ListChildren
<1>7. l \in LocalTypes /\ l.phase = loc[t].phase /\ l.ino = loc[t].ino /\ l.ans = loc[t].ans
  BY <1>2, <1>4, <1>5 DEF LocalTypes
<1>8. MakesTrip(call[t].op, l.phase, "reply") /\ "reply" \in Labels
  BY <1>1, <1>7, ThreadTypes DEF ControlAt, MakesTrip, Labels, Walking, Inserting
<1>9. ControlAt(call[t], "reply", l)
  BY <1>1, <1>7, <1>8, ThreadTypes DEF ControlAt
<1> QED
  BY <1>1, <1>6, <1>7, <1>8, <1>9, LocalStepTypes

\* What a reply adds to the kernel's entries, and to its handles.
LEMMA ReplyEntries ==
    ASSUME NEW t \in Threads, Reply(t)
    PROVE  \A d \in dentries' : \/ d \in dentries
                              \/ /\ loc[t].ans # NoInode
                                 /\ d = [path |-> call[t].path, kind |-> md[loc[t].ans].kind]
BY DEF Reply

LEMMA ReplyHandles ==
    ASSUME NEW t \in Threads, Reply(t)
    PROVE  \A h \in handles' :
               \/ h \in handles
               \/ /\ loc[t].ans # NoInode
                  /\ \/ call[t].op \in {"open", "opendir"}
                     \/ /\ call[t].op = "create"  /\ loc[t].phase = "confirm"
                        /\ md[loc[t].ans].kind = "file"
                  /\ h = [path |-> call[t].path, kind |-> KindOpened(call[t].op),
                          fh |-> IF call[t].op = "create" THEN Zero ELSE loc[t].ans, node |-> call[t].node]
<1> DEFINE o == [path |-> call[t].path, kind |-> KindOpened(call[t].op),
                 fh |-> IF call[t].op = "create" THEN Zero ELSE loc[t].ans, node |-> call[t].node]
<1>1. PICK new :
          /\ \A h \in handles' : h \in handles \/ h \in new
          /\ new = CASE call[t].op \in {"open", "opendir"} /\ loc[t].ans # NoInode ->
                            Opened(call[t], loc[t].ans)
                     [] /\ call[t].op = "create" /\ loc[t].phase = "confirm"
                        /\ (IF loc[t].ans = NoInode \/ md[loc[t].ans].kind # "file" THEN {}
                            ELSE {md[loc[t].ans].kind}) # {} -> Opened(call[t], Zero)
                     [] OTHER -> {}
  BY DEF Reply
<1>2. \A h \in new : /\ loc[t].ans # NoInode
                    /\ \/ call[t].op \in {"open", "opendir"}
                       \/ /\ call[t].op = "create"  /\ loc[t].phase = "confirm"
                          /\ md[loc[t].ans].kind = "file"
                    /\ h = o
  BY <1>1 DEF Opened
<1> QED
  BY <1>1, <1>2

\* The reply.
LEMMA ReplyTypes ==
    ASSUME TypeInv, NEW t \in Threads, Reply(t)
    PROVE  TypeInv'
<1>1. /\ pc[t] = "reply"  /\ UNCHANGED <<database, daemon, node, made, renames>>
      /\ call' = [call EXCEPT ![t] = NoCall]  /\ Goto(t, "idle", NoLocals)
  BY DEF Reply
<1>2. /\ call[t].path \in Paths  /\ call[t].node \in Paths \X Nat
      /\ loc[t].ans # NoInode => loc[t].ans \in DOMAIN md
  BY ThreadTypes DEF ControlAt, CallTypes
<1>3. ASSUME NEW d \in dentries' PROVE d \in [path : Paths, kind : Kinds]
  <2>1. CASE d \in dentries
    BY <2>1 DEF TypeInv, TypeOK
  <2>2. CASE loc[t].ans # NoInode /\ d = [path |-> call[t].path, kind |-> md[loc[t].ans].kind]
    <3>1. md[loc[t].ans].kind \in Kinds
      BY <1>2, <2>2 DEF TypeInv, TypeOK, Entry
    <3> QED
      BY <1>2, <2>2, <3>1
  <2> QED
    BY <2>1, <2>2, ReplyEntries
<1>4. ASSUME NEW h \in handles'
      PROVE  h \in [path : Paths, kind : Kinds, fh : Inodes \cup Roots \cup {Zero}, node : Paths \X Nat]
  <2>1. CASE h \in handles
    BY <2>1 DEF TypeInv, TypeOK
  <2>2. CASE h \notin handles
    <3>1. PICK fh : /\ loc[t].ans # NoInode  /\ fh \in {loc[t].ans, Zero}
                    /\ h = [path |-> call[t].path, kind |-> KindOpened(call[t].op),
                            fh |-> fh, node |-> call[t].node]
      BY <2>2, ReplyHandles
    <3>2. fh \in Inodes \cup Roots \cup {Zero} /\ KindOpened(call[t].op) \in Kinds
      BY <1>2, <3>1 DEF TypeInv, TypeOK, KindOpened, Kinds
    <3> QED
      BY <1>2, <3>1, <3>2
  <2> QED
    BY <2>1, <2>2
<1>8. NoCall \in CallTypes /\ NoLocals \in LocalTypes /\ "idle" \in Labels
  BY FirstTypes
<1>9. ControlAt(NoCall, "idle", NoLocals)
  BY DEF ControlAt, MakesTrip, NoCall, NoLocals, Makers
<1>10. /\ pc' \in [Threads -> Labels]  /\ call' \in [Threads -> CallTypes]
       /\ loc' \in [Threads -> LocalTypes]  /\ ControlOK'
  BY <1>1, <1>8, <1>9, GotoTypes DEF database, daemon
<1> QED
  BY <1>1, <1>3, <1>4, <1>10 DEF TypeInv, TypeOK, NamesOK, CallTypes, Ops, LocalTypes, database, daemon

\* Every round trip.
LEMMA StepTypes ==
    ASSUME TypeInv, NEW t \in Threads, Step(t)
    PROVE  TypeInv'
<1>1. CASE InsertMdClash(t)
  BY <1>1, DieTypes DEF InsertMdClash
<1>2. CASE ListFails(t)
  BY <1>2, DieTypes DEF ListFails
<1> QED
  BY <1>1, <1>2, WalkStepTypes, WalkFailsTypes, AnswersTypes, MakeTypes, InsertBlockTypes,
     InsertMdTypes, ListTypes, ReplyTypes DEF Step

\* At the start.
LEMMA InitTypes == Init => TypeInv
<1> SUFFICES ASSUME Init PROVE TypeInv
  OBVIOUS
<1>1. NoCall \in CallTypes /\ NoLocals \in LocalTypes /\ "idle" \in Labels
  BY FirstTypes
<1>2. ControlAt(NoCall, "idle", NoLocals)
  BY DEF ControlAt, MakesTrip, NoCall, NoLocals, Makers
<1>3. ControlOK
  BY <1>2 DEF Init, ControlOK
<1>4. DOMAIN md = {} /\ md \in [DOMAIN md -> Entry]
  BY DEF Init
<1>5. TypeOK
  BY <1>1, <1>4, FirstTypes, BoundAssumption DEF Init, TypeOK, CallTypes, Ops, LocalTypes
<1> QED
  BY <1>3, <1>4, <1>5 DEF TypeInv, NamesOK

\* Every step of the daemon and the kernel keeps the types.
LEMMA NextTypes == TypeInv /\ [Next]_vars => TypeInv'
<1> SUFFICES ASSUME TypeInv, [Next]_vars PROVE TypeInv'
  OBVIOUS
<1>1. CASE Next
  BY <1>1, StartTypes, StepTypes, DaemonTypes DEF Next
<1>2. CASE UNCHANGED vars
  BY <1>2 DEF vars, TypeInv, TypeOK, NamesOK, ControlOK, ControlAt
<1> QED
  BY <1>1, <1>2

\* The types, and the control that every thread keeps to.
THEOREM TypeInvHolds == Spec => []TypeInv
<1> QED
  BY InitTypes, NextTypes, PTL DEF Spec

\* The documents, the kernel's state and the threads' have their types, for any
\* threads, names, inodes and bounds, with ids that clash, crashes and remounts.
THEOREM TypeOKHolds == Spec => []TypeOK
<1>1. TypeInv => TypeOK
  BY DEF TypeInv
<1> QED
  BY <1>1, TypeInvHolds, PTL
=============================================================================

------------------------- MODULE NamespaceTreeProofs -------------------------
(* The tree: names are unique, walks answer with what their path means and   *)
(* nothing is stranded, when generate_id returns neither 0 nor the inode of  *)
(* a mount point (ProperIds).                                                *)
EXTENDS NamespaceProofs

-----------------------------------------------------------------------------
(* What paths mean.                                                          *)

\* A step that changes no document and not the mount point keeps what every
\* path means.
LEMMA MeaningKept ==
    ASSUME UNCHANGED <<md, root>>
    PROVE  /\ \A p : Denotes(p)' = Denotes(p)
           /\ \A i : Children(i)' = Children(i)
BY DEF Denotes, Named, Children

\* A thread is where it was as long as no document changes, nor the kernel's
\* inode of its path.
LEMMA PlacedKept ==
    ASSUME UNCHANGED <<md, root>>, NEW c, NEW label, NEW l, node'[c.path] = node[c.path]
    PROVE  /\ Placed(c, label, l) => Placed(c, label, l)'
           /\ Replies(c, l) => Replies(c, l)'
BY MeaningKept DEF Placed, Replies

\* A path of n + 1 names is a path of n names and one name more.
LEMMA ShorterPath ==
    ASSUME NEW p \in Paths, NEW n \in Nat, Len(p) = n + 1
    PROVE  p # <<>> /\ Front(p) \in Paths /\ Len(Front(p)) = n /\ Last(p) \in Names
<1>1. p # <<>>
  OBVIOUS
<1> QED
  BY <1>1, PathFacts

\* The path of no name is the mount point's.
LEMMA EmptyPath ==
    ASSUME NEW p \in Paths, Len(p) = 0
    PROVE  p = <<>>
BY PathFacts

\* ... and it is a path.
LEMMA EmptyIsPath == <<>> \in Paths
  BY BoundAssumption DEF Paths

\* A path means documents, or the directory the daemon was started in.
LEMMA DenotesDocs ==
    ASSUME NEW p \in Paths
    PROVE  /\ Denotes(p) \subseteq DOMAIN md \cup {root}
           /\ p # <<>> => Denotes(p) \subseteq DOMAIN md
<1>1. Denotes(<<>>) = {root}
  BY DenotesMeaning DEF Meaning
<1>2. ASSUME p # <<>> PROVE Denotes(p) \subseteq DOMAIN md
  BY <1>2, DenotesMeaning DEF Meaning, Named, Children
<1> QED
  BY <1>1, <1>2

\* An inode is meant by one path at most.
LEMMA MeantOnce ==
    ASSUME TypeInv, RootDocs, NEW p \in Paths, NEW q \in Paths, NEW i,
           i \in Denotes(p), i \in Denotes(q)
    PROVE  p = q
<1> DEFINE S == {n \in Nat : \A r, s \in Paths : Len(r) = n =>
                     \A j : j \in Denotes(r) /\ j \in Denotes(s) => r = s}
<1>1. ASSUME NEW s \in Paths, s # <<>> PROVE root \notin Denotes(s)
  <2> SUFFICES ASSUME root \in Denotes(s) PROVE FALSE
    OBVIOUS
  <2>1. PICK k : root \in Named(k, Last(s))
    BY <1>1, DenotesMeaning DEF Meaning
  <2>2. root \in DOMAIN md /\ md[root].name = Last(s)
    BY <2>1 DEF Named, Children
  <2>3. Last(s) \in Names /\ root \in Roots
    BY <1>1, PathFacts DEF TypeInv, TypeOK
  <2> QED
    BY <2>2, <2>3, BoundAssumption DEF RootDocs
<1>2. 0 \in S
  <2> SUFFICES ASSUME NEW r \in Paths, NEW s \in Paths, Len(r) = 0, NEW j,
                      j \in Denotes(r), j \in Denotes(s)
               PROVE  r = s
    OBVIOUS
  <2>1. r = <<>> /\ j = root
    BY EmptyPath, DenotesMeaning DEF Meaning
  <2> QED
    BY <1>1, <2>1
<1>3. ASSUME NEW n \in Nat, n \in S PROVE n + 1 \in S
  <2> SUFFICES ASSUME NEW r \in Paths, NEW s \in Paths, Len(r) = n + 1, NEW j,
                      j \in Denotes(r), j \in Denotes(s)
               PROVE  r = s
    OBVIOUS
  <2>1. r # <<>> /\ Front(r) \in Paths /\ Len(Front(r)) = n
    BY ShorterPath
  <2>2. PICK k \in Denotes(Front(r)) : j \in Named(k, Last(r))
    BY <2>1, DenotesMeaning DEF Meaning
  <2>3. s # <<>>
    <3> SUFFICES ASSUME s = <<>> PROVE FALSE
      OBVIOUS
    <3>1. j = root
      BY DenotesMeaning DEF Meaning
    <3> QED
      BY <1>1, <2>1, <3>1
  <2>4. PICK m \in Denotes(Front(s)) : j \in Named(m, Last(s))
    BY <2>3, DenotesMeaning DEF Meaning
  <2>5. k = m /\ Last(r) = Last(s)
    BY <2>2, <2>4 DEF Named, Children
  <2>6. Front(s) \in Paths
    BY <2>3, PathFacts
  <2>7. Front(r) = Front(s)
    BY <1>3, <2>1, <2>2, <2>4, <2>5, <2>6
  <2> QED
    BY <2>1, <2>3, <2>5, <2>7, PathEqual
<1> HIDE DEF S
<1>4. Nat \subseteq S
  BY <1>2, <1>3, SetInduction
<1>5. Len(p) \in Nat
  BY PathFacts, BoundAssumption
<1> QED
  BY <1>4, <1>5 DEF S

\* With unique names a path means one document at most.
LEMMA MeansOne ==
    ASSUME UniqueNames, NEW p \in Paths, NEW i \in Denotes(p), NEW j \in Denotes(p)
    PROVE  i = j
<1> DEFINE S == {n \in Nat : \A r \in Paths : Len(r) = n => \A a, b \in Denotes(r) : a = b}
<1>1. 0 \in S
  BY EmptyPath, DenotesMeaning DEF Meaning
<1>2. ASSUME NEW n \in Nat, n \in S PROVE n + 1 \in S
  <2> SUFFICES ASSUME NEW r \in Paths, Len(r) = n + 1, NEW a \in Denotes(r), NEW b \in Denotes(r)
               PROVE  a = b
    OBVIOUS
  <2>1. r # <<>> /\ Front(r) \in Paths /\ Len(Front(r)) = n
    BY ShorterPath
  <2>2. PICK k \in Denotes(Front(r)) : a \in Named(k, Last(r))
    BY <2>1, DenotesMeaning DEF Meaning
  <2>3. PICK m \in Denotes(Front(r)) : b \in Named(m, Last(r))
    BY <2>1, DenotesMeaning DEF Meaning
  <2>4. k = m
    BY <1>2, <2>1, <2>2, <2>3
  <2> QED
    BY <2>2, <2>3, <2>4 DEF UniqueNames, Named, Children
<1> HIDE DEF S
<1>3. Nat \subseteq S
  BY <1>1, <1>2, SetInduction
<1>4. Len(p) \in Nat
  BY PathFacts, BoundAssumption
<1> QED
  BY <1>3, <1>4 DEF S

\* A walk that finds a component missing answers for the whole path.
LEMMA MissingPart ==
    ASSUME NEW p \in Paths, NEW k \in Nat, k <= Len(p), Denotes(SubSeq(p, 1, k)) = {}
    PROVE  \A m \in k .. Len(p) : Denotes(SubSeq(p, 1, m)) = {}
<1> DEFINE S == {n \in Nat : k + n <= Len(p) => Denotes(SubSeq(p, 1, k + n)) = {}}
<1>0. Len(p) \in Nat
  BY PathFacts, BoundAssumption
<1>1. 0 \in S
  OBVIOUS
<1>2. ASSUME NEW n \in Nat, n \in S PROVE n + 1 \in S
  <2> SUFFICES ASSUME k + (n + 1) <= Len(p) PROVE Denotes(SubSeq(p, 1, k + (n + 1))) = {}
    OBVIOUS
  <2>1. PICK m : m = k + (n + 1)
    OBVIOUS
  <2>2. m \in 1 .. Len(p) /\ m - 1 = k + n /\ k + n <= Len(p)
    BY <1>0, <2>1
  <2>3. /\ SubSeq(p, 1, m) \in Paths  /\ SubSeq(p, 1, m) # <<>>
        /\ Front(SubSeq(p, 1, m)) = SubSeq(p, 1, m - 1)
    BY <2>2, SubPaths
  <2>4. Denotes(Front(SubSeq(p, 1, m))) = {}
    BY <1>2, <2>2, <2>3
  <2>5. Denotes(SubSeq(p, 1, m)) = {}
    BY <2>3, <2>4, DenotesMeaning DEF Meaning
  <2> QED
    BY <2>1, <2>5
<1> HIDE DEF S
<1>3. Nat \subseteq S
  BY <1>1, <1>2, SetInduction
<1>4. ASSUME NEW m \in k .. Len(p) PROVE Denotes(SubSeq(p, 1, m)) = {}
  <2>1. PICK n : n = m - k
    OBVIOUS
  <2>2. n \in Nat /\ k + n = m
    BY <1>0, <2>1
  <2> QED
    BY <1>3, <2>2 DEF S
<1> QED
  BY <1>4

\* A path is its own beginning.
LEMMA WholePath ==
    ASSUME NEW p \in Paths
    PROVE  /\ SubSeq(p, 1, Len(p)) = p
           /\ p # <<>> => SubSeq(p, 1, Len(p) - 1) = Front(p)
           /\ SubSeq(p, 1, 0) = <<>>
<1>1. p \in Seq(Names) /\ Len(p) \in Nat
  BY PathFacts, BoundAssumption
<1> QED
  BY <1>1 DEF Front

\* Where a component is missing the whole path means nothing, and if it is not
\* the last one neither does its parent.
LEMMA MissingWhole ==
    ASSUME NEW p \in Paths, NEW k \in Nat, k <= Len(p), Denotes(SubSeq(p, 1, k)) = {}
    PROVE  /\ Denotes(p) = {}
           /\ k < Len(p) => Denotes(Front(p)) = {}
<1>1. Len(p) \in Nat
  BY PathFacts, BoundAssumption
<1>2. Len(p) \in k .. Len(p)
  BY <1>1
<1>3. Denotes(p) = {}
  BY <1>2, MissingPart, WholePath
<1>4. ASSUME k < Len(p) PROVE Denotes(Front(p)) = {}
  <2>1. Len(p) - 1 \in k .. Len(p) /\ p # <<>>
    BY <1>1, <1>4
  <2> QED
    BY <2>1, MissingPart, WholePath
<1> QED
  BY <1>3, <1>4

\* A document that is added where its path meant nothing is what that path
\* means from then on, and no other path is concerned.
LEMMA AddedMeaning ==
    ASSUME TypeInv, ProperIds, RootDocs, NoStrangers,
           NEW i \in Inodes, i \notin DOMAIN md, NEW doc, Add(i, doc), UNCHANGED root,
           NEW q \in Paths, q # <<>>, doc.parent \in Denotes(Front(q)), doc.name = Last(q)
    PROVE  /\ \A p \in Paths \ {q} : Denotes(p)' = Denotes(p)
           /\ Denotes(q)' = Denotes(q) \cup {i}
           /\ Children(i)' = {}
           /\ \A j : j # doc.parent => Children(j)' = Children(j)
<1>0. Front(q) \in Paths /\ Last(q) \in Names
  BY PathFacts
<1>1. doc.parent \in DOMAIN md \cup {root} /\ doc.parent \in Inodes \cup Roots /\ root \in Roots
  BY <1>0, DenotesDocs, DenotesTypes DEF TypeInv, TypeOK
<1>2. i \notin Roots /\ i # Zero /\ doc.parent # i
  BY <1>1 DEF ProperIds
<1>3. \A j : Children(j)' = Children(j) \cup (IF j = doc.parent THEN {i} ELSE {})
  BY DEF Add, Children
<1>4. Children(i) = {}
  BY <1>2 DEF NoStrangers, Children
<1>5. Children(i)' = {}
  BY <1>2, <1>3, <1>4
<1>6. \A j, n : Named(j, n)' = Named(j, n) \cup (IF j = doc.parent /\ n = doc.name THEN {i} ELSE {})
  BY DEF Add, Named, Children
<1>7. \A n : Named(i, n)' = {}
  BY <1>5 DEF Named
<1> DEFINE S == {n \in Nat : \A p \in Paths : Len(p) = n =>
                     \A x : x \in Denotes(p)' <=> x \in Denotes(p) \/ (x = i /\ p = q)}
<1>8. 0 \in S
  <2> SUFFICES ASSUME NEW p \in Paths, Len(p) = 0
               PROVE  \A x : x \in Denotes(p)' <=> x \in Denotes(p) \/ (x = i /\ p = q)
    OBVIOUS
  <2>1. p = <<>>
    BY EmptyPath
  <2>2. Denotes(<<>>) = {root} /\ Denotes(<<>>)' = {root}'
    BY DenotesMeaning, DenotesMeaningNext DEF Meaning
  <2> QED
    BY <2>1, <2>2
<1>9. ASSUME NEW n \in Nat, n \in S PROVE n + 1 \in S
  <2> SUFFICES ASSUME NEW p \in Paths, Len(p) = n + 1, NEW x
               PROVE  x \in Denotes(p)' <=> x \in Denotes(p) \/ (x = i /\ p = q)
    OBVIOUS
  <2>1. p # <<>> /\ Front(p) \in Paths /\ Len(Front(p)) = n
    BY ShorterPath
  <2>2. \A y : y \in Denotes(Front(p))' <=> y \in Denotes(Front(p)) \/ (y = i /\ Front(p) = q)
    BY <1>9, <2>1
  <2>3. x \in Denotes(p)' <=> \E y : y \in Denotes(Front(p))' /\ x \in Named(y, Last(p))'
    BY <2>1, DenotesMeaningNext DEF Meaning
  <2>4. x \in Denotes(p) <=> \E y : y \in Denotes(Front(p)) /\ x \in Named(y, Last(p))
    BY <2>1, DenotesMeaning DEF Meaning
  <2>5. ASSUME x \in Denotes(p)' PROVE x \in Denotes(p) \/ (x = i /\ p = q)
    <3>1. PICK y : y \in Denotes(Front(p))' /\ x \in Named(y, Last(p))'
      BY <2>3, <2>5
    <3>2. y # i
      BY <1>7, <3>1
    <3>3. y \in Denotes(Front(p))
      BY <2>2, <3>1, <3>2
    <3>4. CASE x \in Named(y, Last(p))
      BY <2>4, <3>3, <3>4
    <3>5. CASE x \notin Named(y, Last(p))
      <4>1. x = i /\ y = doc.parent /\ Last(p) = doc.name
        BY <1>6, <3>1, <3>5
      <4>2. Front(p) = Front(q)
        BY <1>0, <2>1, <3>3, <4>1, MeantOnce
      <4>3. p = q
        BY <2>1, <4>1, <4>2, PathEqual
      <4> QED
        BY <4>1, <4>3
    <3> QED
      BY <3>4, <3>5
  <2>6. ASSUME x \in Denotes(p) PROVE x \in Denotes(p)'
    <3>1. PICK y : y \in Denotes(Front(p)) /\ x \in Named(y, Last(p))
      BY <2>4, <2>6
    <3>2. y \in Denotes(Front(p))' /\ x \in Named(y, Last(p))'
      BY <1>6, <2>2, <3>1
    <3> QED
      BY <2>3, <3>2
  <2>7. ASSUME x = i, p = q PROVE x \in Denotes(p)'
    <3>1. doc.parent \in Denotes(Front(p))' /\ i \in Named(doc.parent, Last(p))'
      BY <1>6, <2>2, <2>7
    <3> QED
      BY <2>3, <2>7, <3>1
  <2> QED
    BY <2>5, <2>6, <2>7
<1> HIDE DEF S
<1>10. Nat \subseteq S
  BY <1>8, <1>9, SetInduction
<1>11. ASSUME NEW p \in Paths
       PROVE  \A x : x \in Denotes(p)' <=> x \in Denotes(p) \/ (x = i /\ p = q)
  BY <1>10, PathFacts, BoundAssumption DEF S
<1>12. \A j : j # doc.parent => Children(j)' = Children(j)
  BY <1>3
<1> QED
  BY <1>5, <1>11, <1>12

-----------------------------------------------------------------------------
(* Steps that change no document.                                            *)

\* The documents stay what they are.
LEMMA DocsKept ==
    ASSUME TreeInv, UNCHANGED <<md, root, stage>>
    PROVE  RootDocs' /\ NoStrangers' /\ UniqueNames'
BY MeaningKept DEF TreeInv, RootDocs, NoStrangers, UniqueNames

\* A step that sends thread t to its next round trip, in call c.
LEMMA ThreadTree ==
    ASSUME TypeInv, TreeInv, NEW t \in Threads, NEW label, NEW l, NEW c,
           Goto(t, label, l), call' = [call EXCEPT ![t] = c], UNCHANGED <<md, root, stage, node>>,
           Placed(c, label, l), label = "reply" => Replies(c, l), LocksOK', HandlesOK'
    PROVE  TreeInv'
<1>1. ASSUME NEW u \in Threads
      PROVE  (/\ Placed(call[u], pc[u], loc[u])
              /\ pc[u] = "reply" => Replies(call[u], loc[u]))'
  <2>1. PICK d, lu, k : d = call'[u] /\ lu = pc'[u] /\ k = loc'[u]
    OBVIOUS
  <2>2. Placed(d, lu, k) /\ (lu = "reply" => Replies(d, k))
    <3>1. CASE u = t
      <4>1. d = c /\ lu = label /\ k = l
        BY <2>1, <3>1, GotoEffect DEF TypeInv, TypeOK
      <4> QED
        BY <4>1
    <3>2. CASE u # t
      <4>1. d = call[u] /\ lu = pc[u] /\ k = loc[u]
        BY <2>1, <3>2, GotoEffect DEF TypeInv, TypeOK
      <4> QED
        BY <4>1 DEF TreeInv, PlacedOK
    <3> QED
      BY <3>1, <3>2
  <2>3. Placed(d, lu, k)' /\ (lu = "reply" => Replies(d, k)')
    BY <2>2, PlacedKept
  <2> QED
    BY <2>1, <2>3 DEF Placed, Replies
<1>2. PlacedOK'
  BY <1>1 DEF PlacedOK
<1> QED
  BY <1>2, DocsKept DEF TreeInv

\* A round trip that changes nothing that others see.
LEMMA LocalStepTree ==
    ASSUME TypeInv, TreeInv, NEW t \in Threads, NEW label, NEW l, Goto(t, label, l),
           UNCHANGED <<md, kernel, daemon, call>>,
           Placed(call[t], label, l), label = "reply" => Replies(call[t], l)
    PROVE  TreeInv'
<1>1. PICK c : c = call[t]
  OBVIOUS
<1>2. call' = [call EXCEPT ![t] = c]
  BY <1>1 DEF TypeInv, TypeOK
<1>3. UNCHANGED <<md, root, stage, handles, node>>
  BY DEF kernel, daemon
<1>4. LocksOK'
  BY <1>3 DEF TreeInv, LocksOK, MakesIn, Lists
<1>5. HandlesOK'
  BY <1>3, MeaningKept DEF TreeInv, HandlesOK
<1> QED
  BY <1>1, <1>2, <1>3, <1>4, <1>5, ThreadTree

\* Nobody is on the way, and nothing is open.
LEMMA IdleTree ==
    ASSUME \A t \in Threads : pc'[t] = "idle" /\ call'[t] = NoCall /\ loc'[t] = NoLocals, handles' = {},
           RootDocs', NoStrangers', UniqueNames'
    PROVE  TreeInv'
<1>1. LocksOK' /\ HandlesOK'
  BY DEF LocksOK, HandlesOK, NoCall, Makers
<1>2. PlacedOK'
  BY DEF PlacedOK, Placed, NoCall, NoLocals, Inserting
<1> QED
  BY <1>1, <1>2 DEF TreeInv

\* The daemon dies and the documents stay.
LEMMA DieTree ==
    ASSUME TreeInv, NEW cause, Die(cause)
    PROVE  TreeInv'
<1>1. RootDocs' /\ NoStrangers' /\ UniqueNames'
  BY MeaningKept DEF Die, TreeInv, RootDocs, NoStrangers, UniqueNames, database
<1> QED
  BY <1>1, IdleTree DEF Die

\* While the daemon is down or starts nobody is on the way.
LEMMA StartingTree ==
    ASSUME TypeInv, TreeInv, stage # "up", NEW t \in Threads
    PROVE  pc[t] = "idle" /\ loc[t] = NoLocals /\ call[t].op = "none" /\ handles = {}
BY IdleThreads DEF TreeInv, HandlesOK

\* While the daemon is down or starts nobody holds a lock or a handle.
LEMMA QuietTree ==
    ASSUME TypeInv, TreeInv, stage # "up", UNCHANGED <<pc, call, loc, handles>>,
           RootDocs', NoStrangers', UniqueNames'
    PROVE  TreeInv'
<1>1. LocksOK'
  BY StartingTree DEF LocksOK, Makers
<1>2. handles' = {}
  BY DEF TreeInv, HandlesOK
<1>3. HandlesOK'
  BY <1>2 DEF HandlesOK
<1>4. PlacedOK'
  BY StartingTree DEF PlacedOK, Placed, NoLocals, Inserting
<1> QED
  BY <1>1, <1>3, <1>4 DEF TreeInv

\* init_db, the kill and the mount.
LEMMA DaemonTree ==
    ASSUME TypeInv, TreeInv, ProperIds, Daemon \/ Kill \/ Mount
    PROVE  TreeInv'
<1>1. CASE RemoveRoot
  <2>1. /\ stage = "remove_root"  /\ stage' = "insert_root"  /\ UNCHANGED <<root, pc, call, loc, handles>>
        /\ \/ Children(Zero) = {}  /\ UNCHANGED md
           \/ \E i \in Children(Zero) : md' = [c \in DOMAIN md \ {i} |-> md[c]]
    BY <1>1 DEF RemoveRoot, kernel
  <2>2. /\ DOMAIN md' \subseteq DOMAIN md
        /\ \A i \in DOMAIN md' : md'[i] = md[i]
        /\ \A i \in DOMAIN md : i \in DOMAIN md' \/ i \in Roots
        /\ Children(Zero)' = {}
    <3>1. CASE Children(Zero) = {} /\ UNCHANGED md
      BY <3>1 DEF Children
    <3>2. CASE \E i \in Children(Zero) : md' = [c \in DOMAIN md \ {i} |-> md[c]]
      <4>1. PICK i \in Children(Zero) : md' = [c \in DOMAIN md \ {i} |-> md[c]]
        BY <3>2
      <4>2. i \in Roots /\ \A j \in Children(Zero) : i = j
        BY DEF TreeInv, RootDocs, Children
      <4> QED
        BY <4>1, <4>2 DEF Children
    <3> QED
      BY <2>1, <3>1, <3>2
  <2>3. RootDocs'
    BY <2>1, <2>2 DEF TreeInv, RootDocs
  <2>4. NoStrangers' /\ UniqueNames'
    BY <2>2 DEF TreeInv, NoStrangers, UniqueNames
  <2> QED
    BY <2>1, <2>3, <2>4, QuietTree
<1>2. CASE InsertRoot
  <2>1. /\ stage = "insert_root"  /\ stage' = "up"  /\ UNCHANGED <<root, pc, call, loc, handles>>
        /\ root \notin DOMAIN md
        /\ md' = [c \in DOMAIN md \cup {root} |->
                    IF c = root THEN [parent |-> Zero, name |-> RootName, kind |-> "dir"] ELSE md[c]]
    BY <1>2 DEF InsertRoot, Add
  <2>2. Children(Zero) = {} /\ root \in Roots
    BY <2>1 DEF TreeInv, RootDocs, TypeInv, TypeOK
  <2>3. Children(Zero)' = {root}
    BY <2>1, <2>2 DEF Children
  <2>4. RootDocs'
    BY <2>1, <2>2, <2>3 DEF TreeInv, RootDocs
  <2>5. NoStrangers'
    BY <2>1 DEF TreeInv, NoStrangers
  <2>6. UniqueNames'
    BY <2>1, <2>2 DEF TreeInv, UniqueNames, Children
  <2> QED
    BY <2>1, <2>4, <2>5, <2>6, QuietTree
<1>3. CASE InsertRootFails \/ Kill
  BY <1>3, DieTree DEF InsertRootFails, Kill
<1>4. CASE Mount
  <2>1. stage = "down" /\ stage' = "remove_root" /\ UNCHANGED <<md, pc, call, loc, handles>>
    BY <1>4 DEF Mount, database, kernel
  <2>2. RootDocs' /\ NoStrangers' /\ UniqueNames'
    BY <2>1 DEF TreeInv, RootDocs, NoStrangers, UniqueNames, Children
  <2> QED
    BY <2>1, <2>2, QuietTree
<1> QED
  BY <1>1, <1>2, <1>3, <1>4 DEF Daemon

-----------------------------------------------------------------------------
(* Walks.                                                                    *)

\* While requests are served every inode that a path means has a document.
LEMMA UpDocs ==
    ASSUME TreeInv, stage = "up", NEW p \in Paths
    PROVE  Denotes(p) \subseteq DOMAIN md
BY DenotesDocs DEF TreeInv, RootDocs, Children

\* The head of a walk is where its path begins.
LEMMA HeadPlaced ==
    ASSUME NEW p \in Paths, NEW m, m.cur = IF p = <<>> THEN Zero ELSE root, m.k = 1
    PROVE  /\ m.cur \in Denotes(SubSeq(p, 1, m.k - 1)) \/ p = <<>>
           /\ Len(p) > 1 \/ IF p = <<>> THEN m.cur = Zero ELSE m.cur \in Denotes(Front(p))
<1>1. Denotes(<<>>) = {root}
  BY DenotesMeaning DEF Meaning
<1>2. SubSeq(p, 1, m.k - 1) = <<>>
  <2>1. m.k - 1 = 0
    OBVIOUS
  <2> QED
    BY <2>1, WholePath
<1>3. ASSUME p # <<>>, ~(Len(p) > 1) PROVE Front(p) = <<>>
  <2>1. Front(p) \in Paths /\ Len(Front(p)) = 0
    BY <1>3, PathFacts, BoundAssumption
  <2> QED
    BY <2>1, EmptyPath
<1> QED
  BY <1>1, <1>2, <1>3

\* What a handler does at the end of its walk.
LEMMA TargetRange ==
    ASSUME NEW op, NEW phase PROVE Target(op, phase) \in {"child"} \cup Inserting
BY DEF Target, Inserting

\* What is so of thread t, in the words of Placed.
LEMMA PlacedAt ==
    ASSUME TreeInv, NEW t \in Threads
    PROVE  Placed(call[t], pc[t], loc[t]) /\ (pc[t] = "reply" => Replies(call[t], loc[t]))
BY DEF TreeInv, PlacedOK

\* The calls that begin with a walk.
LEMMA BeginWalkPlaced ==
    ASSUME TypeInv, NEW t \in Threads, NEW op \in Makers \cup {"getattr", "open", "opendir"}, NEW p \in Paths,
           NEW n, Begin(t, op, p, n), Walk(t, op, p, NoLocals),
           op \in Makers \cup {"getattr"} => p # <<>>
    PROVE  \E c, label, l :
               /\ call' = [call EXCEPT ![t] = c]  /\ Goto(t, label, l)
               /\ Placed(c, label, l)  /\ label # "reply"
               /\ c.op = op  /\ c.path = p  /\ c.node = n
<1>1. NoLocals \in LocalTypes /\ NoLocals.phase = "lookup" /\ NoLocals.ans = NoInode /\ NoLocals.fh = Zero
  BY BoundAssumption DEF NoLocals, LocalTypes
<1>2. PICK c : /\ call' = [call EXCEPT ![t] = c]  /\ c.op = op  /\ c.path = p  /\ c.node = n
               /\ c.was = Denotes(IF op \in Makers THEN Front(p) ELSE p)
  BY BeginEffect
<1>3. PICK label : label = IF Len(p) > 1 THEN "walk" ELSE Target(op, NoLocals.phase)
  OBVIOUS
<1>4. PICK m \in LocalTypes :
          /\ Goto(t, label, m)  /\ m.cur = (IF p = <<>> THEN Zero ELSE root)  /\ m.k = 1
          /\ m.phase = "lookup"  /\ m.ans = NoInode  /\ m.fh = Zero
  BY <1>1, <1>3, WalkEffect
<1>5. label = IF Len(p) > 1 THEN "walk" ELSE "child"
  BY <1>1, <1>3 DEF Target
<1>6. /\ label = "walk" => m.cur \in Denotes(SubSeq(p, 1, m.k - 1))
      /\ label = "child" => IF p = <<>> THEN m.cur = Zero ELSE m.cur \in Denotes(Front(p))
      /\ label \in {"walk", "child"}
  <2>1. CASE Len(p) > 1
    <3>1. label = "walk" /\ p # <<>>
      BY <1>5, <2>1
    <3> QED
      BY <1>4, <3>1, HeadPlaced
  <2>2. CASE ~(Len(p) > 1)
    <3>1. label = "child"
      BY <1>5, <2>2
    <3> QED
      BY <1>4, <2>2, <3>1, HeadPlaced
  <2> QED
    BY <2>1, <2>2
<1>7. Placed(c, label, m)
  BY <1>2, <1>4, <1>6 DEF Placed, Inserting
<1> QED
  BY <1>2, <1>4, <1>6, <1>7

\* A call begins.
LEMMA StartTree ==
    ASSUME TypeInv, TreeInv, NEW t \in Threads, Start(t)
    PROVE  TreeInv'
<1> DEFINE Begun(op, p, n) ==
        \E c, label, l : /\ call' = [call EXCEPT ![t] = c]  /\ Goto(t, label, l)
                         /\ Placed(c, label, l)  /\ label # "reply"
                         /\ c.op = op  /\ c.path = p  /\ c.node = n
<1>1. ASSUME NEW op, NEW p, NEW n, Begun(op, p, n), UNCHANGED <<database, kernel, daemon>>,
             op \in Makers => \A u \in Threads : ~MakesIn(u, Front(p)) /\ ~Lists(u, Front(p)),
             op = "readdir" /\ n = node[p] => \A u \in Threads : ~MakesIn(u, p)
      PROVE  TreeInv'
  <2>1. PICK c, label, l : /\ call' = [call EXCEPT ![t] = c]  /\ Goto(t, label, l)
                           /\ Placed(c, label, l)  /\ label # "reply"
                         /\ c.op = op  /\ c.path = p  /\ c.node = n
    BY <1>1
  <2>2. UNCHANGED <<md, root, stage, handles, node>>
    BY <1>1 DEF database, kernel, daemon
  <2>3. call'[t] = c /\ \A u \in Threads \ {t} : call'[u] = call[u]
    BY <2>1 DEF TypeInv, TypeOK
  <2>4. LocksOK'
    <3> SUFFICES ASSUME NEW a \in Threads, NEW b \in Threads, a # b, call'[b].op \in Makers
                 PROVE  /\ ~(call'[a].op \in Makers /\ Front(call'[a].path) = Front(call'[b].path))
                        /\ ~(/\ call'[a].op = "readdir"  /\ call'[a].path = Front(call'[b].path)
                             /\ call'[a].node = node[call'[a].path])
      BY <2>2 DEF LocksOK, MakesIn, Lists
    <3>1. CASE b = t
      BY <1>1, <2>1, <2>3, <3>1 DEF MakesIn, Lists, Makers
    <3>2. CASE a = t
      BY <1>1, <2>1, <2>3, <3>2 DEF MakesIn, Lists, Makers
    <3>3. CASE a # t /\ b # t
      BY <2>3, <3>3 DEF TreeInv, LocksOK, MakesIn, Lists
    <3> QED
      BY <3>1, <3>2, <3>3
  <2>5. HandlesOK'
    BY <2>2, MeaningKept DEF TreeInv, HandlesOK
  <2> QED
    BY <2>1, <2>2, <2>4, <2>5, ThreadTree
<1>2. CASE BeginGetattr(t)
  <2>1. PICK p \in Paths \ {<<>>}, op \in {"getattr"} :
            Begin(t, op, p, node[p]) /\ Walk(t, op, p, NoLocals)
    BY <1>2 DEF BeginGetattr
  <2>2. Begun(op, p, node[p])
    BY <2>1, BeginWalkPlaced
  <2> HIDE DEF Begun
  <2> QED
    BY <1>1, <2>1, <2>2 DEF Begin, Makers
<1>3. CASE BeginMake(t)
  <2>1. PICK p \in Paths \ {<<>>}, op \in Makers :
            /\ Begin(t, op, p, node[p]) /\ Walk(t, op, p, NoLocals)
            /\ \A u \in Threads : ~MakesIn(u, Front(p)) /\ ~Lists(u, Front(p))
    BY <1>3 DEF BeginMake
  <2>2. Begun(op, p, node[p])
    BY <2>1, BeginWalkPlaced
  <2> HIDE DEF Begun
  <2> QED
    BY <1>1, <2>1, <2>2 DEF Begin, Makers
<1>4. CASE BeginOpen(t)
  <2>1. PICK d \in dentries, op \in {"open", "opendir"} :
            Begin(t, op, d.path, node[d.path]) /\ Walk(t, op, d.path, NoLocals)
    BY <1>4 DEF BeginOpen
  <2>2. d.path \in Paths
    BY DEF TypeInv, TypeOK
  <2>3. Begun(op, d.path, node[d.path])
    BY <2>1, <2>2, BeginWalkPlaced DEF Makers
  <2> HIDE DEF Begun
  <2> QED
    BY <1>1, <2>1, <2>3 DEF Begin, Makers
<1>5. CASE BeginFgetattr(t) \/ BeginReaddir(t)
  <2>1. PICK h \in handles, op \in {"fgetattr", "readdir"} :
            /\ Begin(t, op, h.path, h.node)
            /\ op = "readdir" /\ h.node = node[h.path] => \A u \in Threads : ~MakesIn(u, h.path)
            /\ Goto(t, IF op = "fgetattr" THEN "search" ELSE "list", [NoLocals EXCEPT !.fh = h.fh])
    BY <1>5 DEF BeginFgetattr, BeginReaddir
  <2>2. h.fh \in Denotes(h.path)
    BY DEF TreeInv, HandlesOK
  <2>3. PICK c : /\ call' = [call EXCEPT ![t] = c]  /\ c.op = op  /\ c.path = h.path  /\ c.node = h.node
                 /\ c.was = Denotes(IF op \in Makers THEN Front(h.path) ELSE h.path)
    BY <2>1, BeginEffect
  <2>4. PICK l, label : /\ l = [NoLocals EXCEPT !.fh = h.fh]
                        /\ label = IF op = "fgetattr" THEN "search" ELSE "list"
    OBVIOUS
  <2>5. l.fh = h.fh /\ l.phase = "lookup" /\ l.ans = NoInode
    BY <2>4 DEF NoLocals
  <2>6. Placed(c, label, l)
    BY <2>1, <2>2, <2>3, <2>4, <2>5 DEF Placed, Inserting, Makers
  <2>7. Begun(op, h.path, h.node)
    BY <2>1, <2>3, <2>4, <2>6
  <2> HIDE DEF Begun
  <2> QED
    BY <1>1, <2>1, <2>7 DEF Begin, Makers
<1>6. CASE Unlink(t) \/ Rename(t)
  <2>1. UNCHANGED <<md, root, stage, handles, pc, call, loc>>
    BY <1>6 DEF Unlink, Rename, database, daemon
  <2>4. \A u \in Threads : node'[call[u].path] = node[call[u].path]
    BY <1>6, BeliefNodes, ThreadTypes DEF CallTypes
  <2>2. LocksOK' /\ HandlesOK'
    BY <2>1, <2>4, MeaningKept DEF TreeInv, LocksOK, HandlesOK, MakesIn, Lists
  <2>3. PlacedOK'
    <3> SUFFICES ASSUME NEW u \in Threads
                 PROVE  (/\ Placed(call[u], pc[u], loc[u])
                         /\ pc[u] = "reply" => Replies(call[u], loc[u]))'
      BY DEF PlacedOK
    <3>1. PICK c, label, l : c = call[u] /\ label = pc[u] /\ l = loc[u]
      OBVIOUS
    <3>2. Placed(c, label, l)' /\ (label = "reply" => Replies(c, l)')
      BY <2>1, <2>4, <3>1, PlacedKept DEF TreeInv, PlacedOK
    <3> QED
      BY <2>1, <3>1, <3>2 DEF Placed, Replies
  <2> QED
    BY <2>1, <2>2, <2>3, DocsKept DEF TreeInv
<1> QED
  BY <1>2, <1>3, <1>4, <1>5, <1>6 DEF Start

-----------------------------------------------------------------------------
(* Round trips that change no document.                                      *)

\* One query of a walk.
LEMMA WalkStepTree ==
    ASSUME TypeInv, TreeInv, NEW t \in Threads, WalkStep(t)
    PROVE  TreeInv'
<1>1. pc[t] = "walk" /\ UNCHANGED <<database, kernel, daemon, call>>
  BY DEF WalkStep
<1>2. PICK p, k, n : p = call[t].path /\ k = loc[t].k /\ n = Len(call[t].path)
  OBVIOUS
<1>3. loc[t] \in LocalTypes /\ k >= 1 /\ k < n /\ p \in Paths
  BY <1>1, <1>2, ThreadTypes DEF ControlAt, CallTypes
<1>4. k \in Nat /\ n \in Nat /\ n = Len(p) /\ p # <<>>
  BY <1>2, <1>3, PathFacts, BoundAssumption DEF LocalTypes
<1>5. PICK c \in Named(loc[t].cur, p[k]) :
          LET l == [loc[t] EXCEPT !.cur = c, !.k = @ + 1]
          IN  Goto(t, IF l.k = Len(call[t].path) THEN Target(call[t].op, l.phase) ELSE "walk", l)
  BY <1>2 DEF WalkStep
<1> DEFINE d == [loc[t] EXCEPT !.cur = c, !.k = @ + 1]
<1>6. PICK m : m = d
  OBVIOUS
<1>7. PICK label : label = IF m.k = Len(call[t].path) THEN Target(call[t].op, m.phase) ELSE "walk"
  OBVIOUS
<1>8. Goto(t, label, m)
  BY <1>5, <1>6, <1>7
<1>9. /\ m.cur = c  /\ m.k = k + 1  /\ m.phase = loc[t].phase  /\ m.ino = loc[t].ino
      /\ m.fh = loc[t].fh  /\ m.ans = loc[t].ans
  BY <1>2, <1>3, <1>6 DEF LocalTypes
<1> HIDE DEF d
<1>10. loc[t].cur \in Denotes(SubSeq(p, 1, k - 1))
  BY <1>1, <1>2, PlacedAt DEF Placed
<1>11. c \in Denotes(SubSeq(p, 1, k))
  <2>1. k \in 1 .. Len(p)
    BY <1>3, <1>4
  <2>2. PICK q : q = SubSeq(p, 1, k)
    OBVIOUS
  <2>3. q \in Paths /\ q # <<>> /\ Front(q) = SubSeq(p, 1, k - 1) /\ Last(q) = p[k]
    BY <1>3, <2>1, <2>2, SubPaths
  <2> QED
    BY <1>5, <1>10, <2>2, <2>3, DenotesMeaning DEF Meaning
<1>12. label \in {"child"} \cup Inserting => m.cur \in Denotes(Front(p))
  <2> SUFFICES ASSUME label \in {"child"} \cup Inserting PROVE m.cur \in Denotes(Front(p))
    OBVIOUS
  <2>1. m.k = n
    BY <1>2, <1>7 DEF Inserting
  <2>2. k = Len(p) - 1
    BY <1>4, <1>9, <2>1
  <2>3. SubSeq(p, 1, k) = Front(p)
    BY <1>3, <1>4, <2>2, WholePath
  <2> QED
    BY <1>9, <1>11, <2>3
<1>13. label = "walk" => m.cur \in Denotes(SubSeq(p, 1, m.k - 1))
  <2>1. m.k - 1 = k
    BY <1>4, <1>9
  <2> QED
    BY <1>9, <1>11, <2>1
<1>14. label \in {"walk", "child"} \cup Inserting
  BY <1>7, TargetRange
<1>15. Placed(call[t], label, m)
  BY <1>1, <1>2, <1>4, <1>9, <1>12, <1>13, <1>14, PlacedAt DEF Placed, Inserting
<1>16. label # "reply"
  BY <1>14 DEF Inserting
<1> QED
  BY <1>1, <1>8, <1>15, <1>16, LocalStepTree DEF database

\* A thread answers with what its path means.  The getattr after a create has
\* no handle to ask for.
LEMMA AnswerTree ==
    ASSUME TypeInv, TreeInv, NEW t \in Threads, NEW a, Answer(t, a),
           pc[t] \in {"walk", "child", "search"}, loc[t].phase # "make",
           UNCHANGED <<database, kernel, daemon, call>>,
           IF call[t].op = "create" /\ loc[t].phase = "confirm" THEN a = NoInode
           ELSE Denotes(call[t].path) = IF a = NoInode THEN {} ELSE {a}
    PROVE  TreeInv'
<1>1. PICK m, label :
          /\ m = [loc[t] EXCEPT !.ans = a]
          /\ label = IF call[t].op \in Makers /\ loc[t].phase = "lookup" /\ a = NoInode THEN "make" ELSE "reply"
          /\ Goto(t, label, m)
  BY DEF Answer
<1>2. /\ m.cur = loc[t].cur  /\ m.k = loc[t].k  /\ m.phase = loc[t].phase  /\ m.ino = loc[t].ino
      /\ m.fh = loc[t].fh  /\ m.ans = a
  BY <1>1, ThreadTypes DEF LocalTypes
<1>3. MakesTrip(call[t].op, loc[t].phase, pc[t])
  BY ThreadTypes DEF ControlAt
<1>4. Placed(call[t], pc[t], loc[t])
  BY PlacedAt
<1>5. Placed(call[t], label, m)
  BY <1>1, <1>2, <1>4 DEF Placed, Inserting, Makers
<1>6. label = "reply" => Replies(call[t], m)
  <2>1. call[t].op \in {"getattr", "open", "opendir", "fgetattr"} =>
            loc[t].phase = "lookup" /\ call[t].op \notin Makers
    BY <1>3 DEF MakesTrip, Makers
  <2>2. call[t].op # "readdir" /\ (loc[t].phase = "confirm" => call[t].op \in Makers)
    BY <1>3 DEF MakesTrip, Walking, Inserting, Makers
  <2>3. call[t].op \in {"getattr", "open", "opendir", "fgetattr"} =>
            IF a = NoInode THEN call[t].was = {} ELSE Denotes(call[t].path) = {a}
    BY <1>4, <2>1 DEF Placed, Makers
  <2>4. loc[t].phase = "confirm" =>
            \/ Denotes(call[t].path) = {loc[t].ino}
            \/ Denotes(call[t].path) = {} /\ a = NoInode /\ call[t].was = {}
    BY <1>4 DEF Placed
  <2>5. a # NoInode => a \in Denotes(call[t].path)
    OBVIOUS
  <2> QED
    BY <1>2, <2>2, <2>3, <2>4, <2>5 DEF Replies
<1> QED
  BY <1>1, <1>5, <1>6, LocalStepTree DEF database

\* The answers.
LEMMA AnswersTree ==
    ASSUME TypeInv, TreeInv, ProperIds, NEW t \in Threads, FindChild(t) \/ FindRoot(t) \/ SearchByInode(t)
    PROVE  TreeInv'
<1>1. MakesTrip(call[t].op, loc[t].phase, pc[t]) /\ call[t].path \in Paths /\ Placed(call[t], pc[t], loc[t])
  BY ThreadTypes, PlacedAt DEF ControlAt, CallTypes
<1>2. pc[t] \in {"child", "search"} => loc[t].phase # "make" /\ stage = "up"
  BY <1>1, ThreadTypes DEF ControlAt, MakesTrip, Inserting
<1>3. ASSUME NEW p \in Paths PROVE Zero \notin Denotes(p) /\ NoInode \notin Denotes(p)
  BY DenotesTypes, InodeAssumption DEF ProperIds, TypeInv
<1>4. CASE FindChild(t)
  <2>1. PICK a : /\ Answer(t, a)
                 /\ a \in IF Named(loc[t].cur, Last(call[t].path)) = {} THEN {NoInode}
                          ELSE Named(loc[t].cur, Last(call[t].path))
    BY <1>4 DEF FindChild
  <2>2. pc[t] = "child" /\ loc[t].cur # Zero /\ UNCHANGED <<database, kernel, daemon, call>>
    BY <1>4 DEF FindChild
  <2>3. call[t].path # <<>> /\ loc[t].cur \in Denotes(Front(call[t].path))
    BY <1>1, <2>2 DEF Placed
  <2>4. ~(call[t].op = "create" /\ loc[t].phase = "confirm")
    BY <1>1, <2>2 DEF MakesTrip, Walking, Inserting
  <2>5. PICK p, cur : p = call[t].path /\ cur = loc[t].cur
    OBVIOUS
  <2>6. p \in Paths /\ p # <<>> /\ Front(p) \in Paths /\ cur \in Denotes(Front(p))
    BY <1>1, <2>3, <2>5, PathFacts
  <2>7. \A j \in Denotes(Front(p)) : j = cur
    BY <2>6, MeansOne DEF TreeInv
  <2>8. \A i : i \in Denotes(p) <=> i \in Named(cur, Last(p))
    BY <2>6, <2>7, DenotesMeaning DEF Meaning
  <2>9. Denotes(p) = IF a = NoInode THEN {} ELSE {a}
    <3>1. CASE Named(cur, Last(p)) = {}
      BY <2>1, <2>5, <2>8, <3>1
    <3>2. CASE Named(cur, Last(p)) # {}
      <4>1. a \in Denotes(p) /\ a # NoInode
        BY <1>3, <2>1, <2>5, <2>6, <2>8, <3>2
      <4>2. \A i \in Denotes(p) : i = a
        BY <2>6, <4>1, MeansOne DEF TreeInv
      <4> QED
        BY <4>1, <4>2
    <3> QED
      BY <3>1, <3>2
  <2> QED
    BY <1>2, <2>1, <2>2, <2>4, <2>5, <2>9, AnswerTree
<1>5. CASE FindRoot(t)
  <2>1. pc[t] = "child" /\ loc[t].cur = Zero
    BY <1>5 DEF FindRoot
  <2>2. call[t].path = <<>>
    <3> SUFFICES ASSUME call[t].path # <<>> PROVE FALSE
      OBVIOUS
    <3>1. Front(call[t].path) \in Paths /\ Zero \in Denotes(Front(call[t].path))
      BY <1>1, <2>1, PathFacts DEF Placed
    <3> QED
      BY <1>3, <3>1
  <2>3. Denotes(call[t].path) = {root} /\ root # NoInode
    BY <2>2, DenotesMeaning, InodeAssumption DEF Meaning, TypeInv, TypeOK
  <2>4. ~(call[t].op = "create" /\ loc[t].phase = "confirm")
    BY <1>1, <2>1 DEF MakesTrip, Walking, Inserting
  <2>5. CASE root \in DOMAIN md
    BY <1>2, <1>5, <2>1, <2>3, <2>4, <2>5, AnswerTree DEF FindRoot
  <2>6. CASE root \notin DOMAIN md
    BY <1>5, <2>6, DieTree DEF FindRoot
  <2> QED
    BY <2>5, <2>6
<1>6. CASE SearchByInode(t)
  <2>1. /\ pc[t] = "search"  /\ UNCHANGED <<database, kernel, daemon, call>>
        /\ Answer(t, IF loc[t].fh \in DOMAIN md THEN loc[t].fh ELSE NoInode)
    BY <1>6 DEF SearchByInode
  <2>2. (call[t].op = "create" /\ loc[t].phase = "confirm") \/ call[t].op = "fgetattr"
    BY <1>1, <2>1 DEF MakesTrip, Walking, Inserting
  <2>3. CASE call[t].op = "create"
    <3>1. loc[t].fh = Zero /\ Zero \notin DOMAIN md
      BY <1>1, <2>3, InodeAssumption DEF Placed, ProperIds, TypeInv, TypeOK
    <3> QED
      BY <1>2, <2>1, <2>2, <2>3, <3>1, AnswerTree
  <2>4. CASE call[t].op = "fgetattr"
    <3>1. loc[t].fh \in Denotes(call[t].path)
      BY <1>1, <2>1, <2>4 DEF Placed
    <3>2. loc[t].fh \in DOMAIN md /\ loc[t].fh # NoInode
      BY <1>1, <1>2, <1>3, <2>1, <3>1, UpDocs
    <3>3. Denotes(call[t].path) = {loc[t].fh}
      BY <1>1, <3>1, MeansOne DEF TreeInv
    <3> QED
      BY <1>2, <2>1, <2>4, <3>2, <3>3, AnswerTree
  <2> QED
    BY <2>2, <2>3, <2>4
<1> QED
  BY <1>4, <1>5, <1>6

\* The getattr that follows a create or mkdir begins, with what Placed asks of it.
LEMMA ConfirmPlaced ==
    ASSUME TypeInv, NEW t \in Threads, Confirm(t), loc[t].phase = "make"
    PROVE  \E label \in Labels, m \in LocalTypes :
               /\ Goto(t, label, m)
               /\ m.phase = "confirm" /\ m.ino = loc[t].ino /\ m.fh = loc[t].fh /\ m.ans = loc[t].ans
               /\ label \in {"walk", "child", "search"}
               /\ label = "search" => call[t].op = "create"
               /\ label = "walk" => m.cur \in Denotes(SubSeq(call[t].path, 1, m.k - 1))
               /\ label = "walk" => m.cur = root /\ m.k = 1
               /\ label = "child" => m.cur \in Denotes(Front(call[t].path)) /\ m.cur = root
               /\ label = "child" => Front(call[t].path) = <<>>
<1>1. call[t].path \in Paths /\ call[t].path # <<>> /\ call[t].op \in Makers
  BY ThreadTypes DEF ControlAt, CallTypes, MakesTrip
<1>2. PICK label \in Labels, m \in LocalTypes :
               /\ Goto(t, label, m)
               /\ m.phase = "confirm" /\ m.ino = loc[t].ino /\ m.fh = loc[t].fh /\ m.ans = loc[t].ans
               /\ MakesTrip(call[t].op, "confirm", label)
               /\ label = "walk" => m.k = 1 /\ Len(call[t].path) > 1
               /\ label \in {"walk", "child"} => m.cur = root
               /\ label \in {"walk", "child", "search"}
               /\ label = "child" => Len(call[t].path) = 1
  BY ConfirmEffect
<1>3. Denotes(<<>>) = {root}
  BY DenotesMeaning DEF Meaning
<1>4. ASSUME label = "walk" PROVE m.cur \in Denotes(SubSeq(call[t].path, 1, m.k - 1))
  <2>1. m.k - 1 = 0
    BY <1>2, <1>4
  <2>2. SubSeq(call[t].path, 1, m.k - 1) = <<>>
    BY <1>1, <2>1, WholePath
  <2> QED
    BY <1>2, <1>3, <1>4, <2>2
<1>5. ASSUME label = "child" PROVE Front(call[t].path) = <<>>
  <2>1. Len(call[t].path) = 1
    BY <1>2, <1>5
  <2>2. Front(call[t].path) \in Paths /\ Len(Front(call[t].path)) = 0
    BY <1>1, <2>1, PathFacts
  <2> QED
    BY <2>2, EmptyPath
<1>6. label = "search" => call[t].op = "create"
  BY <1>2 DEF MakesTrip, Walking, Inserting
<1> QED
  BY <1>2, <1>3, <1>4, <1>5, <1>6

\* A component is missing.
LEMMA WalkFailsTree ==
    ASSUME TypeInv, TreeInv, NEW t \in Threads, WalkFails(t)
    PROVE  TreeInv'
<1>1. pc[t] = "walk" /\ UNCHANGED <<database, kernel, daemon, call>>
  BY DEF WalkFails
<1>2. PICK p, k, n : p = call[t].path /\ k = loc[t].k /\ n = Len(call[t].path)
  OBVIOUS
<1>3. loc[t] \in LocalTypes /\ k >= 1 /\ k < n /\ p \in Paths
  BY <1>1, <1>2, ThreadTypes DEF ControlAt, CallTypes
<1>4. k \in Nat /\ n \in Nat /\ n = Len(p) /\ p # <<>>
  BY <1>2, <1>3, PathFacts, BoundAssumption DEF LocalTypes
<1>5. Denotes(SubSeq(p, 1, k)) = {}
  <2>1. PICK q : q = SubSeq(p, 1, k)
    OBVIOUS
  <2>2. k \in 1 .. Len(p)
    BY <1>3, <1>4
  <2>3. /\ q \in Paths  /\ q # <<>>  /\ Front(q) = SubSeq(p, 1, k - 1)  /\ Last(q) = p[k]
        /\ Front(q) \in Paths
    BY <1>3, <2>1, <2>2, SubPaths
  <2>4. loc[t].cur \in Denotes(Front(q))
    BY <1>1, <1>2, <2>3, PlacedAt DEF Placed
  <2>5. \A j \in Denotes(Front(q)) : j = loc[t].cur
    BY <2>3, <2>4, MeansOne DEF TreeInv
  <2>6. Named(loc[t].cur, Last(q)) = {}
    BY <1>2, <2>3 DEF WalkFails
  <2>7. Denotes(q) = {}
    BY <2>3, <2>5, <2>6, DenotesMeaning DEF Meaning
  <2> QED
    BY <2>1, <2>7
<1>6. Denotes(p) = {} /\ Denotes(Front(p)) = {}
  BY <1>3, <1>4, <1>5, MissingWhole
<1>7. CASE loc[t].phase = "make"
  <2>1. Confirm(t)
    BY <1>7 DEF WalkFails
  <2>2. PICK label \in Labels, m \in LocalTypes :
               /\ Goto(t, label, m)
               /\ m.phase = "confirm" /\ m.ino = loc[t].ino /\ m.fh = loc[t].fh /\ m.ans = loc[t].ans
               /\ label \in {"walk", "child", "search"}
               /\ label = "search" => call[t].op = "create"
               /\ label = "walk" => m.cur \in Denotes(SubSeq(call[t].path, 1, m.k - 1))
               /\ label = "child" => m.cur \in Denotes(Front(call[t].path))
    BY <1>7, <2>1, ConfirmPlaced
  <2>3. Placed(call[t], pc[t], loc[t]) /\ call[t].op \in Makers
    BY <1>7, PlacedAt, ThreadTypes DEF ControlAt, MakesTrip
  <2>4. call[t].was = {}
    BY <1>2, <1>6, <2>3 DEF Placed, Makers
  <2>5. Placed(call[t], label, m)
    BY <1>1, <1>2, <1>4, <1>6, <2>2, <2>3, <2>4 DEF Placed, Inserting, Makers
  <2> QED
    BY <1>1, <2>2, <2>5, LocalStepTree DEF database
<1>8. CASE loc[t].phase # "make"
  <2>1. Answer(t, NoInode)
    BY <1>8 DEF WalkFails
  <2> QED
    BY <1>1, <1>2, <1>6, <1>8, <2>1, AnswerTree
<1> QED
  BY <1>7, <1>8

\* generate_id, and the walk to the parent begins.
LEMMA MakeTree ==
    ASSUME TypeInv, TreeInv, NEW t \in Threads, Make(t)
    PROVE  TreeInv'
<1>1. pc[t] = "make" /\ UNCHANGED <<database, kernel, daemon, call>>
  BY DEF Make
<1>2. call[t].op \in Makers /\ call[t].path # <<>> /\ call[t].path \in Paths /\ loc[t] \in LocalTypes
  BY <1>1, ThreadTypes DEF ControlAt, MakesTrip, CallTypes, Walking, Inserting
<1>3. PICK i \in Inodes :
          Walk(t, call[t].op, call[t].path, [loc[t] EXCEPT !.phase = "make", !.ino = i])
  BY DEF Make
<1>4. PICK l : l = [loc[t] EXCEPT !.phase = "make", !.ino = i]
  OBVIOUS
<1>5. l \in LocalTypes /\ l.phase = "make" /\ l.fh = loc[t].fh /\ l.ans = loc[t].ans
  BY <1>2, <1>3, <1>4 DEF LocalTypes
<1>6. Walk(t, call[t].op, call[t].path, l)
  BY <1>3, <1>4
<1>7. PICK label : label = IF Len(call[t].path) > 1 THEN "walk" ELSE Target(call[t].op, l.phase)
  OBVIOUS
<1>8. PICK m \in LocalTypes :
          /\ Goto(t, label, m)
          /\ m.cur = (IF call[t].path = <<>> THEN Zero ELSE root)  /\ m.k = 1
          /\ m.phase = l.phase /\ m.fh = l.fh /\ m.ans = l.ans
  BY <1>5, <1>6, <1>7, WalkEffect
<1>9. label \in {"walk"} \cup Inserting
  BY <1>2, <1>5, <1>7 DEF Target, Inserting, Makers
<1>10. /\ label = "walk" => m.cur \in Denotes(SubSeq(call[t].path, 1, m.k - 1))
       /\ label \in Inserting => m.cur \in Denotes(Front(call[t].path))
  <2>1. CASE Len(call[t].path) > 1
    <3>1. label = "walk"
      BY <1>7, <2>1
    <3> QED
      BY <1>2, <1>8, <3>1, HeadPlaced DEF Inserting
  <2>2. CASE ~(Len(call[t].path) > 1)
    <3>1. label # "walk"
      BY <1>7, <2>2, TargetRange DEF Inserting
    <3> QED
      BY <1>2, <1>8, <2>2, <3>1, HeadPlaced
  <2> QED
    BY <2>1, <2>2
<1>11. Placed(call[t], pc[t], loc[t])
  BY PlacedAt
<1>12. Placed(call[t], label, m)
  BY <1>1, <1>2, <1>5, <1>8, <1>9, <1>10, <1>11 DEF Placed, Inserting, Makers
<1>13. label # "reply"
  BY <1>9 DEF Inserting
<1> QED
  BY <1>1, <1>8, <1>12, <1>13, LocalStepTree DEF database

\* The link of a block leaves the tree alone.
LEMMA InsertBlockTree ==
    ASSUME TypeInv, TreeInv, NEW t \in Threads, InsertBlock(t)
    PROVE  TreeInv'
<1>1. pc[t] = "insert_block" /\ Goto(t, "insert_md", loc[t]) /\ UNCHANGED <<md, kernel, daemon, call>>
  BY DEF InsertBlock
<1>2. Placed(call[t], "insert_md", loc[t])
  BY <1>1, PlacedAt DEF Placed, Inserting
<1> QED
  BY <1>1, <1>2, LocalStepTree

\* A listing leaves it alone.
LEMMA ListTree ==
    ASSUME TypeInv, TreeInv, NEW t \in Threads, ListChildren(t)
    PROVE  TreeInv'
<1>1. pc[t] = "list" /\ UNCHANGED <<database, kernel, daemon, call>>
  BY DEF ListChildren
<1>2. PICK n : n = {md[c].name : c \in Children(loc[t].fh)}
  OBVIOUS
<1>3. PICK l : l = [loc[t] EXCEPT !.names = n]
  OBVIOUS
<1>4. Goto(t, "reply", l)
  BY <1>2, <1>3 DEF ListChildren
<1>5. l.fh = loc[t].fh /\ l.phase = loc[t].phase /\ l.ino = loc[t].ino /\ l.ans = loc[t].ans /\ l.names = n
  BY <1>3, ThreadTypes DEF LocalTypes
<1>6. call[t].op = "readdir" /\ loc[t].phase = "lookup" /\ call[t].path \in Paths
  BY <1>1, ThreadTypes DEF ControlAt, MakesTrip, Walking, Inserting, CallTypes
<1>7. Placed(call[t], pc[t], loc[t])
  BY PlacedAt
<1>8. loc[t].fh \in Denotes(call[t].path)
  BY <1>1, <1>6, <1>7 DEF Placed
<1>9. Denotes(call[t].path) = {loc[t].fh}
  BY <1>6, <1>8, MeansOne DEF TreeInv
<1>10. UNION {Children(d) : d \in Denotes(call[t].path)} = Children(loc[t].fh)
  BY <1>9
<1>11. Replies(call[t], l)
  <2>1. l.ans = NoInode
    BY <1>1, <1>5, <1>7 DEF Placed
  <2> QED
    BY <1>2, <1>5, <1>6, <1>10, <2>1 DEF Replies
<1>12. Placed(call[t], "reply", l)
  BY <1>1, <1>5, <1>6, <1>7 DEF Placed, Inserting
<1> QED
  BY <1>1, <1>4, <1>11, <1>12, LocalStepTree DEF database

\* The reply: what the kernel opens is what the path means.
LEMMA ReplyTree ==
    ASSUME TypeInv, TreeInv, NEW t \in Threads, Reply(t)
    PROVE  TreeInv'
<1>1. /\ pc[t] = "reply"  /\ UNCHANGED <<database, daemon, node, made, renames>>
      /\ call' = [call EXCEPT ![t] = NoCall]  /\ Goto(t, "idle", NoLocals)
  BY DEF Reply
<1>2. Placed(call[t], pc[t], loc[t]) /\ Replies(call[t], loc[t]) /\ stage = "up"
  BY <1>1, PlacedAt, ThreadTypes DEF ControlAt
<1>3. ASSUME NEW h \in handles', h \notin handles
      PROVE  h.path = call[t].path /\ Denotes(call[t].path) = {h.fh}
  <2>1. /\ loc[t].ans # NoInode
        /\ call[t].op \in {"open", "opendir"} \/ (call[t].op = "create" /\ loc[t].phase = "confirm")
        /\ h.path = call[t].path  /\ h.fh = IF call[t].op = "create" THEN Zero ELSE loc[t].ans
    BY <1>3, ReplyHandles
  <2>2. call[t].op # "create"
    BY <1>2, <2>1 DEF Placed
  <2> QED
    BY <1>2, <2>1, <2>2 DEF Replies
<1>6. HandlesOK'
  <2> SUFFICES ASSUME NEW h \in handles' PROVE stage' = "up" /\ h.fh \in Denotes(h.path)'
    BY DEF HandlesOK
  <2>1. UNCHANGED <<md, root, stage>>
    BY <1>1 DEF database, daemon
  <2>2. CASE h \in handles
    BY <2>1, <2>2, MeaningKept DEF TreeInv, HandlesOK
  <2>3. CASE h \notin handles
    BY <1>2, <1>3, <2>1, <2>3, MeaningKept
  <2> QED
    BY <2>2, <2>3
<1>7. LocksOK'
  <2>1. call'[t] = NoCall /\ \A u \in Threads \ {t} : call'[u] = call[u]
    BY <1>1 DEF TypeInv, TypeOK
  <2>2. NoCall.op \notin Makers \cup {"readdir"}
    BY DEF NoCall, Makers
  <2> QED
    BY <1>1, <2>1, <2>2 DEF TreeInv, LocksOK, MakesIn, Lists
<1>8. Placed(NoCall, "idle", NoLocals)
  BY DEF Placed, NoCall, NoLocals, Inserting
<1>9. UNCHANGED <<md, root, stage, node>>
  BY <1>1 DEF database, daemon
<1> QED
  BY <1>1, <1>6, <1>7, <1>8, <1>9, ThreadTree

-----------------------------------------------------------------------------
(* The insert of a document.                                                 *)

\* Thread t has put the document of inode i, of this kind, at path q, whose
\* directory has the inode cur: q now means i and no other path changes.
Inserted(t, i, cur, q, kind) ==
    /\ i = loc[t].ino  /\ cur = loc[t].cur  /\ q = call[t].path
    /\ \A p \in Paths \ {q} : Denotes(p)' = Denotes(p)
    /\ Denotes(q) = {}  /\ Denotes(q)' = {i}
    /\ Children(i)' = {}
    /\ \A j : j # cur => Children(j)' = Children(j)
    /\ i \in Inodes \ DOMAIN md  /\ cur \in Denotes(Front(q))
    /\ Add(i, [parent |-> cur, name |-> Last(q), kind |-> kind])
    /\ call[t].op \in Makers  /\ q \in Paths  /\ q # <<>>
    /\ kind = KindMade(call[t].op)
    /\ UNCHANGED <<root, stage, handles, node, call>>  /\ stage = "up"

\* What the document that a thread inserts adds to the tree.
LEMMA InsertMeaning ==
    ASSUME TypeInv, TreeInv, ProperIds, NEW t \in Threads, InsertMd(t)
    PROVE  \E i, cur, q, kind : Inserted(t, i, cur, q, kind)
<1>1. pc[t] = "insert_md" /\ loc[t].ino \notin DOMAIN md /\ UNCHANGED <<blocked, kernel, daemon, call>>
  BY DEF InsertMd
<1>2. /\ call[t].op \in Makers  /\ loc[t].phase = "make"  /\ loc[t].ino \in Inodes
      /\ call[t].path \in Paths  /\ call[t].path # <<>>  /\ stage = "up"
  BY <1>1, InsertingFacts DEF Inserting
<1>3. Denotes(call[t].path) = {} /\ loc[t].cur \in Denotes(Front(call[t].path))
  BY <1>1, <1>2, PlacedAt DEF Placed, Inserting
<1>4. PICK i, cur, q, kind, doc :
          /\ i = loc[t].ino  /\ cur = loc[t].cur  /\ q = call[t].path  /\ kind = KindMade(call[t].op)
          /\ doc = [parent |-> cur, name |-> Last(q), kind |-> kind]
  OBVIOUS
<1>5. Add(i, doc) /\ doc.parent = cur /\ doc.name = Last(q)
  BY <1>4 DEF InsertMd
<1>6. UNCHANGED <<root, stage, handles, node>>
  BY <1>1 DEF kernel, daemon
<1>7. /\ \A p \in Paths \ {q} : Denotes(p)' = Denotes(p)
      /\ Denotes(q)' = Denotes(q) \cup {i}
      /\ Children(i)' = {}
      /\ \A j : j # cur => Children(j)' = Children(j)
  <2>1. i \in Inodes /\ i \notin DOMAIN md /\ q \in Paths /\ q # <<>> /\ doc.parent \in Denotes(Front(q))
    BY <1>1, <1>2, <1>3, <1>4, <1>5
  <2>2. UNCHANGED root
    BY <1>6
  <2> QED
    BY <1>5, <2>1, <2>2, AddedMeaning DEF TreeInv
<1>8. Denotes(q) = {} /\ Denotes(q)' = {i}
  BY <1>3, <1>4, <1>7
<1>9. Add(i, [parent |-> cur, name |-> Last(q), kind |-> kind])
  BY <1>4, <1>5
<1>10. /\ i \in Inodes \ DOMAIN md  /\ cur \in Denotes(Front(q))
       /\ q \in Paths  /\ q # <<>>
  BY <1>1, <1>2, <1>3, <1>4
<1> QED
  BY <1>1, <1>2, <1>4, <1>6, <1>7, <1>8, <1>9, <1>10 DEF Inserted

\* The documents stay a tree.
LEMMA InsertDocs ==
    ASSUME TypeInv, TreeInv, ProperIds, NEW t \in Threads, InsertMd(t)
    PROVE  RootDocs' /\ NoStrangers' /\ UniqueNames'
<1>0. PICK i, cur, q, kind : Inserted(t, i, cur, q, kind)
  BY InsertMeaning
<1>1. /\ \A j : j # cur => Children(j)' = Children(j)
      /\ i \in Inodes \ DOMAIN md  /\ cur \in Denotes(Front(q))  /\ Denotes(q) = {}
      /\ Add(i, [parent |-> cur, name |-> Last(q), kind |-> kind])
      /\ q \in Paths  /\ q # <<>>
      /\ UNCHANGED <<root, stage>>
  BY <1>0 DEF Inserted
<1>2. Front(q) \in Paths /\ Last(q) \in Names /\ Last(q) # RootName
  BY <1>1, PathFacts, BoundAssumption
<1>3. cur # Zero /\ cur \in DOMAIN md \cup Roots /\ i \notin Roots
  <2>1. cur \in DOMAIN md \cup {root} /\ cur \in Inodes \cup Roots
    BY <1>1, <1>2, DenotesTypes, DenotesDocs DEF TypeInv
  <2> QED
    BY <1>1, <2>1, InodeAssumption DEF ProperIds, TypeInv, TypeOK
<1>4. /\ DOMAIN md' = DOMAIN md \cup {i}
      /\ \A j \in DOMAIN md : md'[j] = md[j]
      /\ md'[i].parent = cur  /\ md'[i].name = Last(q)
  BY <1>1 DEF Add
<1>5. Children(Zero)' = Children(Zero)
  BY <1>1, <1>3
<1>6. RootDocs'
  <2>1. \A j \in DOMAIN md' : md'[j].parent = Zero <=> j \in Roots
    BY <1>3, <1>4 DEF TreeInv, RootDocs
  <2>2. \A j \in DOMAIN md' : md'[j].name = RootName <=> j \in Roots
    BY <1>2, <1>3, <1>4 DEF TreeInv, RootDocs
  <2> QED
    BY <1>1, <1>5, <2>1, <2>2 DEF TreeInv, RootDocs
<1>7. NoStrangers'
  BY <1>3, <1>4 DEF TreeInv, NoStrangers
<1>8. ASSUME NEW j \in DOMAIN md, md[j].parent = cur PROVE md[j].name # Last(q)
  <2> SUFFICES ASSUME md[j].name = Last(q) PROVE FALSE
    OBVIOUS
  <2>1. j \in Named(cur, Last(q))
    BY <1>8 DEF Named, Children
  <2>2. j \in Denotes(q)
    BY <1>1, <2>1, DenotesMeaning DEF Meaning
  <2> QED
    BY <1>1, <2>2
<1>9. UniqueNames'
  BY <1>4, <1>8 DEF TreeInv, UniqueNames
<1> QED
  BY <1>6, <1>7, <1>9

\* Another thread's call is not about the path that comes to be, and does not
\* list its directory, while it relies on what is there.
LEMMA InsertOthers ==
    ASSUME TypeInv, TreeInv, ProperIds, NEW t \in Threads, InsertMd(t), NEW u \in Threads, u # t,
           NEW c, NEW label, NEW l, c = call[u], label = pc[u], l = loc[u]
    PROVE  Placed(c, label, l)' /\ (label = "reply" => Replies(c, l)')
<1>0. PICK i, cur, q, kind : Inserted(t, i, cur, q, kind)
  BY InsertMeaning
<1>1. /\ i = loc[t].ino  /\ cur = loc[t].cur  /\ q = call[t].path
      /\ \A p \in Paths \ {q} : Denotes(p)' = Denotes(p)
      /\ Denotes(q) = {}  /\ Denotes(q)' = {i}
      /\ Children(i)' = {}
      /\ \A j : j # cur => Children(j)' = Children(j)
      /\ i \in Inodes \ DOMAIN md  /\ cur \in Denotes(Front(q))
      /\ Add(i, [parent |-> cur, name |-> Last(q), kind |-> kind])
      /\ call[t].op \in Makers  /\ q \in Paths  /\ q # <<>>  /\ UNCHANGED node
  BY <1>0 DEF Inserted
<1>2. /\ Placed(c, label, l)  /\ (label = "reply" => Replies(c, l))
      /\ c \in CallTypes  /\ l \in LocalTypes  /\ MakesTrip(c.op, l.phase, label)
      /\ label = "walk" => l.k >= 1 /\ l.k < Len(c.path)
      /\ c.op \in Makers => c.path # <<>>
  BY PlacedAt, ThreadTypes DEF ControlAt
<1>3. c.path \in Paths /\ (c.path # <<>> => Front(c.path) \in Paths)
  BY <1>2, PathFacts DEF CallTypes
<1>4. \A p \in Paths : \A x \in Denotes(p) : x \in Denotes(p)'
  BY <1>1
<1>5. c.op \in Makers => c.path # q
  BY <1>1 DEF TreeInv, LocksOK, MakesIn
<1>6. c.op \in Makers => Denotes(c.path)' = Denotes(c.path)
  BY <1>1, <1>3, <1>5
<1>7. label = "make" \/ l.phase \in {"make", "confirm"} => c.op \in Makers
  BY <1>2 DEF MakesTrip, Makers, Walking, Inserting
<1>8. label = "walk" => SubSeq(c.path, 1, l.k - 1) \in Paths
  <2> SUFFICES ASSUME label = "walk" PROVE SubSeq(c.path, 1, l.k - 1) \in Paths
    OBVIOUS
  <2>1. PICK p, k : p = c.path /\ k = l.k
    OBVIOUS
  <2>2. p \in Paths /\ k \in 1 .. Len(p)
    BY <1>2, <1>3, <2>1, PathFacts, BoundAssumption DEF LocalTypes
  <2> QED
    BY <2>1, <2>2, SubPaths
<1>9. Placed(c, label, l)'
  <2>1. label = "walk" => l.cur \in Denotes(SubSeq(c.path, 1, l.k - 1))'
    BY <1>2, <1>4, <1>8 DEF Placed
  <2>2. label \in {"child"} \cup Inserting =>
            IF c.path = <<>> THEN l.cur = Zero ELSE l.cur \in Denotes(Front(c.path))'
    BY <1>2, <1>3, <1>4 DEF Placed
  <2>3. label \in {"search", "list"} /\ c.op # "create" => l.fh \in Denotes(c.path)'
    BY <1>2, <1>3, <1>4 DEF Placed
  <2>4. c.op # "none" => c.was \subseteq Denotes(IF c.op \in Makers THEN Front(c.path) ELSE c.path)'
    BY <1>2, <1>3, <1>4 DEF Placed
  <2>5. label = "make" \/ l.phase = "make" => Denotes(c.path)' = {}
    BY <1>2, <1>6, <1>7 DEF Placed
  <2>6. l.phase = "confirm" => Denotes(c.path)' = {l.ino} \/ (Denotes(c.path)' = {} /\ c.was = {})
    BY <1>2, <1>6, <1>7 DEF Placed
  <2> QED
    BY <1>2, <2>1, <2>2, <2>3, <2>4, <2>5, <2>6 DEF Placed
<1>10. ASSUME label = "reply" PROVE Replies(c, l)'
  <2>1. Replies(c, l)
    BY <1>2, <1>10
  <2>2. ASSUME c.op \in {"getattr", "open", "opendir", "fgetattr"}, l.ans # NoInode
        PROVE  Denotes(c.path)' = {l.ans}
    <3>1. Denotes(c.path) = {l.ans}
      BY <2>1, <2>2 DEF Replies
    <3>2. c.path # q
      BY <1>1, <3>1
    <3> QED
      BY <1>1, <1>3, <3>1, <3>2
  <2>3. l.phase = "confirm" =>
            \/ Denotes(c.path)' = {l.ino}
            \/ Denotes(c.path)' = {} /\ l.ans = NoInode /\ c.was = {}
    BY <1>6, <1>7, <2>1 DEF Replies
  <2>4. ASSUME c.op = "readdir", c.node = node[c.path]
        PROVE  l.names = {md'[j].name : j \in UNION {Children(d)' : d \in Denotes(c.path)'}}
    <3>1. l.names = {md[j].name : j \in UNION {Children(d) : d \in Denotes(c.path)}}
      BY <2>1, <2>4 DEF Replies
    <3>2. CASE c.path = q
      BY <1>1, <3>1, <3>2
    <3>3. CASE c.path # q
      <4>1. Denotes(c.path)' = Denotes(c.path)
        BY <1>1, <1>3, <3>3
      <4>2. c.path # Front(q)
        BY <1>1, <2>4 DEF TreeInv, LocksOK, Lists
      <4>3. cur \notin Denotes(c.path)
        BY <1>1, <1>3, <4>2, MeantOnce, PathFacts DEF TreeInv
      <4>4. \A d \in Denotes(c.path) : Children(d)' = Children(d)
        BY <1>1, <4>3
      <4>5. \A j \in DOMAIN md : md'[j] = md[j]
        BY <1>1 DEF Add
      <4>6. \A d \in Denotes(c.path) : \A j \in Children(d) : md'[j].name = md[j].name
        BY <4>5 DEF Children
      <4> QED
        BY <3>1, <4>1, <4>4, <4>6
    <3> QED
      BY <3>2, <3>3
  <2>5. l.ans # NoInode => l.ans \in Denotes(c.path)'
    BY <1>3, <1>4, <2>1 DEF Replies
  <2> QED
    BY <1>1, <2>1, <2>2, <2>3, <2>4, <2>5 DEF Replies
<1> QED
  BY <1>9, <1>10

\* The insert puts one document at one path, in a directory.
LEMMA InsertMdTree ==
    ASSUME TypeInv, TreeInv, ProperIds, NEW t \in Threads, InsertMd(t)
    PROVE  TreeInv'
<1>0. PICK i, cur, q, kind : Inserted(t, i, cur, q, kind)
  BY InsertMeaning
<1>1. /\ i = loc[t].ino  /\ cur = loc[t].cur  /\ q = call[t].path
      /\ \A p \in Paths \ {q} : Denotes(p)' = Denotes(p)
      /\ Denotes(q) = {}  /\ Denotes(q)' = {i}
      /\ cur \in Denotes(Front(q))
      /\ call[t].op \in Makers  /\ q \in Paths  /\ q # <<>>
      /\ UNCHANGED <<root, stage, handles, node, call>>  /\ stage = "up"
  BY <1>0 DEF Inserted
<1>2. \A p \in Paths : \A x \in Denotes(p) : x \in Denotes(p)'
  BY <1>1
<1>3. LocksOK'
  BY <1>1 DEF TreeInv, LocksOK, MakesIn, Lists
<1>4. HandlesOK'
  BY <1>1, <1>2 DEF TreeInv, HandlesOK, TypeInv, TypeOK
<1>5. loc[t].phase = "make" /\ pc[t] = "insert_md" /\ Confirm(t)
  BY InsertingFacts DEF InsertMd, Inserting
<1>6. PICK label \in Labels, m \in LocalTypes :
               /\ Goto(t, label, m)
               /\ m.phase = "confirm" /\ m.ino = loc[t].ino /\ m.fh = loc[t].fh /\ m.ans = loc[t].ans
               /\ label \in {"walk", "child", "search"}
               /\ label = "search" => call[t].op = "create"
               /\ label = "walk" => m.cur = root /\ m.k = 1
               /\ label = "child" => m.cur = root
               /\ label = "child" => Front(call[t].path) = <<>>
  BY <1>5, ConfirmPlaced
<1>7. PICK c : c = call[t]
  OBVIOUS
<1>8. Placed(c, "insert_md", loc[t])
  BY <1>5, <1>7, PlacedAt
<1>9. Front(q) \in Paths /\ Front(q) # q
  <2>1. Len(q) \in Nat /\ Len(Front(q)) = Len(q) - 1 /\ Front(q) \in Paths
    BY <1>1, PathFacts, BoundAssumption
  <2> QED
    BY <2>1
<1>10. root \in Denotes(<<>>)'
  BY <1>1, DenotesMeaningNext DEF Meaning
<1>11. Placed(c, label, m)'
  <2>1. label = "walk" => m.cur \in Denotes(SubSeq(c.path, 1, m.k - 1))'
    <3> SUFFICES ASSUME label = "walk" PROVE m.cur \in Denotes(SubSeq(q, 1, m.k - 1))'
      BY <1>1, <1>7
    <3>1. SubSeq(q, 1, m.k - 1) = <<>>
      <4>1. m.k - 1 = 0
        BY <1>6
      <4> QED
        BY <1>1, <4>1, WholePath
    <3> QED
      BY <1>6, <1>10, <3>1
  <2>2. label \in {"child"} \cup Inserting =>
            IF c.path = <<>> THEN m.cur = Zero ELSE m.cur \in Denotes(Front(c.path))'
    BY <1>1, <1>6, <1>7, <1>10 DEF Inserting
  <2>3. label \notin {"search", "list"} \/ c.op = "create"
    BY <1>6, <1>7
  <2>4. c.was \subseteq Denotes(Front(c.path))'
    BY <1>1, <1>2, <1>7, <1>8, <1>9 DEF Placed, Makers
  <2>5. Denotes(c.path)' = {m.ino}
    BY <1>1, <1>6, <1>7
  <2>6. m.ans = NoInode /\ m.fh = Zero
    BY <1>1, <1>6, <1>7, <1>8 DEF Placed, Makers
  <2> QED
    BY <1>1, <1>6, <1>7, <2>1, <2>2, <2>3, <2>4, <2>5, <2>6 DEF Placed, Makers
<1>12. PlacedOK'
  <2> SUFFICES ASSUME NEW u \in Threads
               PROVE  (/\ Placed(call[u], pc[u], loc[u])
                       /\ pc[u] = "reply" => Replies(call[u], loc[u]))'
    BY DEF PlacedOK
  <2>1. CASE u = t
    <3>1. pc'[u] = label /\ loc'[u] = m /\ call'[u] = c /\ label # "reply"
      BY <1>1, <1>6, <1>7, <2>1, GotoEffect
    <3> QED
      BY <1>11, <3>1 DEF Placed
  <2>2. CASE u # t
    <3>1. PICK cu, lu, k : cu = call[u] /\ lu = pc[u] /\ k = loc[u]
      OBVIOUS
    <3>2. Placed(cu, lu, k)' /\ (lu = "reply" => Replies(cu, k)')
      BY <2>2, <3>1, InsertOthers
    <3>3. pc'[u] = lu /\ loc'[u] = k /\ call'[u] = cu
      BY <1>1, <1>6, <2>2, <3>1, GotoEffect
    <3> QED
      BY <3>2, <3>3 DEF Placed, Replies
  <2> QED
    BY <2>1, <2>2
<1> QED
  BY <1>3, <1>4, <1>12, InsertDocs DEF TreeInv

\* Every round trip.
LEMMA StepTree ==
    ASSUME TypeInv, TreeInv, ProperIds, NEW t \in Threads, Step(t)
    PROVE  TreeInv'
<1>1. CASE InsertMdClash(t)
  BY <1>1, DieTree DEF InsertMdClash
<1>2. CASE ListFails(t)
  BY <1>2, DieTree DEF ListFails
<1> QED
  BY <1>1, <1>2, WalkStepTree, WalkFailsTree, AnswersTree, MakeTree, InsertBlockTree, InsertMdTree,
     ListTree, ReplyTree DEF Step

-----------------------------------------------------------------------------
(* The theorems.                                                             *)

\* At the start there is no document.
LEMMA InitTree == Init => TreeInv
<1> SUFFICES ASSUME Init PROVE TreeInv
  OBVIOUS
<1>1. DOMAIN md = {}
  BY DEF Init
<1>2. RootDocs /\ NoStrangers /\ UniqueNames
  BY <1>1 DEF Init, RootDocs, NoStrangers, UniqueNames, Children
<1>3. LocksOK /\ HandlesOK
  BY DEF Init, LocksOK, HandlesOK, NoCall, Makers
<1>4. PlacedOK
  BY DEF Init, PlacedOK, Placed, NoCall, NoLocals, Inserting
<1> QED
  BY <1>2, <1>3, <1>4 DEF TreeInv

\* Every step of the daemon and the kernel keeps the tree.
LEMMA NextTree == ProperIds /\ TypeInv /\ TreeInv /\ [Next]_vars => TreeInv'
<1> SUFFICES ASSUME ProperIds, TypeInv, TreeInv, [Next]_vars PROVE TreeInv'
  OBVIOUS
<1>1. CASE Next
  BY <1>1, StartTree, StepTree, DaemonTree DEF Next
<1>2. CASE UNCHANGED vars
  <2>1. UNCHANGED <<md, root, stage, handles, node, pc, call, loc>>
    BY <1>2 DEF vars
  <2>2. LocksOK' /\ HandlesOK'
    BY <2>1, MeaningKept DEF TreeInv, LocksOK, HandlesOK, MakesIn, Lists
  <2>3. PlacedOK'
    <3> SUFFICES ASSUME NEW u \in Threads
                 PROVE  (/\ Placed(call[u], pc[u], loc[u])
                         /\ pc[u] = "reply" => Replies(call[u], loc[u]))'
      BY DEF PlacedOK
    <3>1. PICK c, label, l : c = call[u] /\ label = pc[u] /\ l = loc[u]
      OBVIOUS
    <3>2. Placed(c, label, l)' /\ (label = "reply" => Replies(c, l)')
      BY <2>1, <3>1, PlacedKept DEF TreeInv, PlacedOK
    <3> QED
      BY <2>1, <3>1, <3>2 DEF Placed, Replies
  <2> QED
    BY <2>1, <2>2, <2>3, DocsKept DEF TreeInv
<1> QED
  BY <1>1, <1>2

\* The tree's invariant, for any threads, names, inodes, bounds, crashes and
\* mount points.
THEOREM TreeInvHolds == ASSUME ProperIds PROVE Spec => []TreeInv
<1> QED
  BY InitTree, NextTree, TypeInvHolds, PTL DEF Spec

\* No directory has two entries of one name.
THEOREM UniqueNamesHolds == ASSUME ProperIds PROVE Spec => []UniqueNames
<1>1. TreeInv => UniqueNames
  BY DEF TreeInv
<1> QED
  BY <1>1, TreeInvHolds, PTL

\* One document stands for the mount point while requests are served.
THEOREM OneRootHolds == ASSUME ProperIds PROVE Spec => []OneRoot
<1>1. TreeInv => OneRoot
  BY DEF TreeInv, RootDocs, OneRoot
<1> QED
  BY <1>1, TreeInvHolds, PTL

\* A walk answers with what its path means.
THEOREM AnswersMatchTreeHolds == ASSUME ProperIds PROVE Spec => []AnswersMatchTree
<1>1. TreeInv => AnswersMatchTree
  BY DEF TreeInv, PlacedOK, Replies, AnswersMatchTree
<1> QED
  BY <1>1, TreeInvHolds, PTL

\* What create and mkdir report made is in the tree.
THEOREM MadeIsInTreeHolds == ASSUME ProperIds PROVE Spec => []MadeIsInTree
<1>1. TreeInv => MadeIsInTree
  BY DEF TreeInv, PlacedOK, Replies, MadeIsInTree
<1> QED
  BY <1>1, TreeInvHolds, PTL

\* readdir lists the directory, no more and no less.
THEOREM ListingCompleteHolds == ASSUME ProperIds PROVE Spec => []ListingComplete
<1>1. TreeInv => ListingComplete
  BY DEF TreeInv, PlacedOK, Replies, ListingComplete, Lists
<1> QED
  BY <1>1, TreeInvHolds, PTL

-----------------------------------------------------------------------------
(* What other steps than an insert leave alone, when the daemon is always    *)
(* started in one directory.                                                 *)

\* A path means the same as long as no document with a name of its own is
\* touched.
LEMMA SameNames ==
    ASSUME UNCHANGED root, \A i, n : n \in Names => Named(i, n)' = Named(i, n)
    PROVE  \A p \in Paths : Denotes(p)' = Denotes(p)
<1> DEFINE S == {n \in Nat : \A p \in Paths : Len(p) = n => Denotes(p)' = Denotes(p)}
<1>1. 0 \in S
  BY EmptyPath, DenotesMeaning, DenotesMeaningNext DEF Meaning
<1>2. ASSUME NEW n \in Nat, n \in S PROVE n + 1 \in S
  <2> SUFFICES ASSUME NEW p \in Paths, Len(p) = n + 1 PROVE Denotes(p)' = Denotes(p)
    OBVIOUS
  <2>1. p # <<>> /\ Front(p) \in Paths /\ Len(Front(p)) = n /\ Last(p) \in Names
    BY ShorterPath
  <2>2. Denotes(Front(p))' = Denotes(Front(p))
    BY <1>2, <2>1
  <2>3. \A i : Named(i, Last(p))' = Named(i, Last(p))
    BY <2>1
  <2>4. \A x : x \in Denotes(p)' <=> \E y : y \in Denotes(Front(p))' /\ x \in Named(y, Last(p))'
    BY <2>1, DenotesMeaningNext DEF Meaning
  <2>5. \A x : x \in Denotes(p) <=> \E y : y \in Denotes(Front(p)) /\ x \in Named(y, Last(p))
    BY <2>1, DenotesMeaning DEF Meaning
  <2>6. \A x : x \in Denotes(p)' <=> x \in Denotes(p)
    BY <2>2, <2>3, <2>4, <2>5
  <2>7. PICK A, B : A = Denotes(p)' /\ B = Denotes(p)
    OBVIOUS
  <2>8. A = B
    BY <2>6, <2>7
  <2> QED
    BY <2>7, <2>8
<1> HIDE DEF S
<1>3. Nat \subseteq S
  BY <1>1, <1>2, SetInduction
<1> QED
  BY <1>3, PathFacts, BoundAssumption DEF S

\* What a step without an insert keeps.
SameTree == /\ UNCHANGED root
            /\ \A p \in Paths : Denotes(p)' = Denotes(p)
            /\ DOMAIN md' \subseteq DOMAIN md \cup {root}
            /\ \A p \in Paths : \A i \in Denotes(p) : KindOf(i)' = KindOf(i)

\* No document changes, and not the mount point.
LEMMA QuietSame ==
    ASSUME UNCHANGED <<md, root>>
    PROVE  SameTree
BY MeaningKept DEF SameTree, KindOf

\* The steps that change the documents are those of the start and the insert.
LEMMA StepSame ==
    ASSUME NEW t \in Threads, Start(t) \/ Step(t), ~InsertMd(t)
    PROVE  UNCHANGED <<md, root>>
<1>1. CASE Start(t)
  BY <1>1 DEF Start, BeginGetattr, BeginMake, BeginOpen, BeginFgetattr, BeginReaddir, Begin, Unlink, Rename,
              database, daemon
<1>2. CASE Step(t)
  BY <1>2 DEF Step, WalkStep, WalkFails, FindChild, FindRoot, SearchByInode, Make, InsertBlock,
              InsertMdClash, ListChildren, ListFails, Reply, Die, database, daemon
<1> QED
  BY <1>1, <1>2

\* Every other step leaves every path its meaning.
LEMMA NextSame ==
    ASSUME TypeInv, TreeInv, OneMountPoint, [Next]_vars, \A t \in Threads : ~InsertMd(t)
    PROVE  SameTree
<1>1. CASE \E t \in Threads : Start(t) \/ Step(t)
  BY <1>1, StepSame, QuietSame
<1>2. CASE RemoveRoot \/ InsertRoot
  <2>1. UNCHANGED root
    BY <1>2 DEF RemoveRoot, InsertRoot
  <2>0. /\ \A i \in DOMAIN md : md[i].parent = Zero <=> i \in Roots
        /\ \A i \in DOMAIN md : md[i].name = RootName <=> i \in Roots
        /\ root \in Roots
    BY DEF TreeInv, RootDocs, TypeInv, TypeOK
  <2>9. /\ \A i \in (DOMAIN md \cup DOMAIN md') \ Roots :
               i \in DOMAIN md /\ i \in DOMAIN md' /\ md'[i] = md[i]
        /\ \A i \in DOMAIN md' : i \in Roots => md'[i].name = RootName
    <3>1. CASE RemoveRoot
      <4>1. \/ UNCHANGED md
            \/ \E i \in Children(Zero) : md' = [c \in DOMAIN md \ {i} |-> md[c]]
        BY <3>1 DEF RemoveRoot
      <4>2. CASE UNCHANGED md
        BY <2>0, <4>2
      <4>3. CASE \E i \in Children(Zero) : md' = [c \in DOMAIN md \ {i} |-> md[c]]
        <5>1. PICK i \in Children(Zero) : md' = [c \in DOMAIN md \ {i} |-> md[c]]
          BY <4>3
        <5>2. i \in Roots
          BY <2>0, <5>1 DEF Children
        <5> QED
          BY <2>0, <5>1, <5>2
      <4> QED
        BY <4>1, <4>2, <4>3
    <3>2. CASE InsertRoot
      <4>1. md' = [c \in DOMAIN md \cup {root} |->
                    IF c = root THEN [parent |-> Zero, name |-> RootName, kind |-> "dir"] ELSE md[c]]
        BY <3>2 DEF InsertRoot, Add
      <4> QED
        BY <2>0, <4>1
    <3> QED
      BY <1>2, <3>1, <3>2
  <2>4. \A i \in DOMAIN md : i \in Roots => md[i].name = RootName
    BY DEF TreeInv, RootDocs
  <2>5. ASSUME NEW i, NEW n \in Names PROVE Named(i, n)' = Named(i, n)
    <3>1. n # RootName
      BY BoundAssumption
    <3> QED
      BY <2>9, <2>4, <3>1 DEF Named, Children
  <2>6. \A p \in Paths : Denotes(p)' = Denotes(p)
    BY <2>1, <2>5, SameNames
  <2>7. DOMAIN md' \subseteq DOMAIN md \cup {root}
    BY <1>2 DEF RemoveRoot, InsertRoot, Add
  <2>8. ASSUME NEW p \in Paths, NEW i \in Denotes(p) PROVE KindOf(i)' = KindOf(i)
    <3>1. CASE i = root
      BY <2>1, <3>1 DEF KindOf
    <3>2. CASE i # root
      <4>1. i \in DOMAIN md /\ i \notin Roots
        BY <3>2, DenotesDocs DEF OneMountPoint, TypeInv, TypeOK
      <4> QED
        BY <2>1, <2>9, <3>2, <4>1 DEF KindOf
    <3> QED
      BY <3>1, <3>2
  <2> QED
    BY <2>1, <2>6, <2>7, <2>8 DEF SameTree
<1>3. CASE InsertRootFails \/ Kill
  BY <1>3, QuietSame DEF InsertRootFails, Kill, Die, database
<1>4. CASE Mount
  <2>1. UNCHANGED <<md, root>>
    BY <1>4 DEF Mount, database, OneMountPoint, TypeInv, TypeOK
  <2> QED
    BY <2>1, QuietSame
<1>5. CASE UNCHANGED vars
  BY <1>5, QuietSame DEF vars
<1> QED
  BY <1>1, <1>2, <1>3, <1>4, <1>5 DEF Next, Daemon

\* Every entry is the end of a path, through crashes and remounts.
THEOREM RootedHolds == ASSUME ProperIds, OneMountPoint PROVE Spec => []Rooted
<1>1. Init => Rooted
  BY DEF Init, Rooted
<1>2. TypeInv /\ TreeInv /\ Rooted /\ [Next]_vars => Rooted'
  <2> SUFFICES ASSUME TypeInv, TreeInv, Rooted, [Next]_vars PROVE Rooted'
    OBVIOUS
  <2>1. CASE \A t \in Threads : ~InsertMd(t)
    <3>1. SameTree
      BY <2>1, NextSame
    <3>2. root \in Denotes(<<>>)' /\ <<>> \in Paths
      BY <3>1, DenotesMeaning, EmptyIsPath DEF SameTree, Meaning
    <3> QED
      BY <3>1, <3>2 DEF SameTree, Rooted
  <2>2. CASE \E t \in Threads : InsertMd(t)
    <3>1. PICK t \in Threads : InsertMd(t)
      BY <2>2
    <3>0. PICK i, cur, q, kind : Inserted(t, i, cur, q, kind)
      BY <3>1, InsertMeaning
    <3>2. /\ \A p \in Paths \ {q} : Denotes(p)' = Denotes(p)
          /\ Denotes(q) = {}  /\ Denotes(q)' = {i}  /\ q \in Paths
          /\ Add(i, [parent |-> cur, name |-> Last(q), kind |-> kind])
      BY <3>0 DEF Inserted
    <3>3. DOMAIN md' = DOMAIN md \cup {i}
      BY <3>2 DEF Add
    <3> QED
      BY <3>2, <3>3 DEF Rooted
  <2> QED
    BY <2>1, <2>2
<1> QED
  BY <1>1, <1>2, TypeInvHolds, TreeInvHolds, PTL DEF Spec

-----------------------------------------------------------------------------
(* What the kernel takes for a file is one, until it believes a rename.      *)

\* Documents that stay keep what the kernel takes a path for.
LEMMA KindKept ==
    ASSUME NEW p \in Paths, NEW kind, KindMeant(p, kind), \A i \in Denotes(p) : i \in Denotes(p)',
           \A i \in DOMAIN md : i \in DOMAIN md' /\ md'[i] = md[i]
    PROVE  KindMeant(p, kind)'
BY DEF KindMeant

\* A step that lets every document stay, and gives the kernel no entry, handle
\* or call to open but of something it takes for what it is.
LEMMA KindsFrom ==
    ASSUME TypeInv, KindsOK,
           \A p \in Paths : \A i \in Denotes(p) : i \in Denotes(p)',
           \A i \in DOMAIN md : i \in DOMAIN md' /\ md'[i] = md[i],
           stage' # "up" => dentries' = {},  renames' = 0 => renames = 0,
           renames' = 0 =>
               /\ \A d \in dentries' : d \in dentries \/ KindMeant(d.path, d.kind)'
               /\ \A h \in handles' : h \in handles \/ KindMeant(h.path, h.kind)'
               /\ \A t \in Threads : \A c : c = call'[t] /\ c.op \in {"open", "opendir"} =>
                      c = call[t] \/ KindMeant(c.path, KindOpened(c.op))'
    PROVE  KindsOK'
<1> SUFFICES ASSUME renames' = 0
             PROVE  /\ \A d \in dentries' \cup handles' : KindMeant(d.path, d.kind)'
                    /\ \A t \in Threads : \A c : c = call'[t] /\ c.op \in {"open", "opendir"} =>
                           KindMeant(c.path, KindOpened(c.op))'
  BY DEF KindsOK, KindMeant
<1>1. /\ \A d \in dentries \cup handles : d.path \in Paths /\ KindMeant(d.path, d.kind)
      /\ \A t \in Threads : /\ call[t].path \in Paths
                            /\ call[t].op \in {"open", "opendir"} =>
                                   KindMeant(call[t].path, KindOpened(call[t].op))
  BY DEF KindsOK, TypeInv, TypeOK
<1>2. ASSUME NEW d \in dentries' \cup handles' PROVE KindMeant(d.path, d.kind)'
  BY <1>1, KindKept
<1>3. ASSUME NEW t \in Threads, NEW c, c = call'[t], c.op \in {"open", "opendir"}
      PROVE  KindMeant(c.path, KindOpened(c.op))'
  <2>1. CASE c = call[t]
    BY <1>1, <1>3, <2>1, KindKept
  <2> QED
    BY <1>3, <2>1
<1> QED
  BY <1>2, <1>3

\* Nothing is known, open or asked for.
LEMMA KindsGone ==
    ASSUME dentries' = {}, handles' = {}, \A t \in Threads : call'[t].op = "none"
    PROVE  KindsOK'
BY DEF KindsOK

\* A request asks to open what the kernel takes for what it is.
LEMMA StartKinds ==
    ASSUME TypeInv, KindsOK, NEW t \in Threads, Start(t)
    PROVE  KindsOK'
<1>1. UNCHANGED <<md, root, stage>> /\ stage = "up"
  BY DEF Start, BeginGetattr, BeginMake, BeginOpen, BeginFgetattr, BeginReaddir, Begin, Unlink, Rename,
         database, daemon
<1>2. /\ \A p \in Paths : \A i \in Denotes(p) : i \in Denotes(p)'
      /\ \A i \in DOMAIN md : i \in DOMAIN md' /\ md'[i] = md[i]
  BY <1>1, MeaningKept
<1>3. CASE BeginOpen(t)
  <2>0. PICK d \in dentries :
            Begin(t, IF d.kind = "dir" THEN "opendir" ELSE "open", d.path, node[d.path])
    BY <1>3 DEF BeginOpen
  <2>1. PICK op : op = (IF d.kind = "dir" THEN "opendir" ELSE "open") /\ Begin(t, op, d.path, node[d.path])
    BY <2>0
  <2>2. PICK n : call' = [call EXCEPT ![t] = n] /\ n.op = op /\ n.path = d.path
    BY <2>1, BeginEffect
  <2>6. UNCHANGED <<dentries, handles, renames>>
    BY <2>1 DEF Begin, kernel
  <2>3. KindOpened(op) = d.kind /\ d.path \in Paths
    BY <2>1 DEF KindOpened, TypeInv, TypeOK, Kinds
  <2>4. renames' = 0 => KindMeant(d.path, KindOpened(op))'
    BY <1>2, <2>6, <2>3, KindKept DEF KindsOK
  <2>5. \A u \in Threads : call'[u] = IF u = t THEN n ELSE call[u]
    BY <2>2 DEF TypeInv, TypeOK
  <2> QED
    BY <1>1, <1>2, <2>2, <2>4, <2>5, <2>6, KindsFrom
<1>4. CASE BeginGetattr(t) \/ BeginMake(t) \/ BeginFgetattr(t) \/ BeginReaddir(t)
  <2>1. PICK op, p, n : op \notin {"open", "opendir"} /\ Begin(t, op, p, n)
    BY <1>4 DEF BeginGetattr, BeginMake, BeginFgetattr, BeginReaddir, Makers
  <2>2. PICK n1 : call' = [call EXCEPT ![t] = n1] /\ n1.op = op
    BY <2>1, BeginEffect
  <2>4. UNCHANGED <<dentries, handles, renames>>
    BY <2>1 DEF Begin, kernel
  <2>3. \A u \in Threads : call'[u] = IF u = t THEN n1 ELSE call[u]
    BY <2>2 DEF TypeInv, TypeOK
  <2> QED
    BY <1>1, <1>2, <2>1, <2>2, <2>3, <2>4, KindsFrom
<1>5. CASE Unlink(t)
  <2>1. dentries' \subseteq dentries /\ UNCHANGED <<handles, renames, call>>
    BY <1>5 DEF Unlink
  <2> QED
    BY <1>1, <1>2, <2>1, KindsFrom
<1>6. CASE Rename(t)
  <2>1. renames' # 0
    BY <1>6 DEF Rename, TypeInv, TypeOK
  <2> QED
    BY <1>1, <2>1 DEF KindsOK
<1> QED
  BY <1>3, <1>4, <1>5, <1>6 DEF Start

\* A reply tells the kernel what the documents say, and open leaves it with a
\* handle of what it took the entry for.
LEMMA ReplyKinds ==
    ASSUME TypeInv, TreeInv, KindsOK, NEW t \in Threads, Reply(t)
    PROVE  KindsOK'
<1>1. /\ pc[t] = "reply"  /\ UNCHANGED <<md, root, stage, renames>>
      /\ call' = [call EXCEPT ![t] = NoCall]
  BY DEF Reply, database, daemon
<1>2. /\ \A p \in Paths : \A i \in Denotes(p) : i \in Denotes(p)'
      /\ \A i \in DOMAIN md : i \in DOMAIN md' /\ md'[i] = md[i]
  BY <1>1, MeaningKept
<1>3. /\ call[t].path \in Paths  /\ stage = "up"
      /\ loc[t].ans # NoInode => loc[t].ans \in DOMAIN md \cap Denotes(call[t].path)
  BY <1>1, ThreadTypes, PlacedAt DEF ControlAt, Replies, CallTypes
<1>4. ASSUME NEW d \in dentries', d \notin dentries PROVE KindMeant(d.path, d.kind)'
  <2>1. loc[t].ans # NoInode /\ d.path = call[t].path /\ d.kind = md[loc[t].ans].kind
    BY <1>4, ReplyEntries
  <2>2. KindMeant(d.path, d.kind)
    BY <1>3, <2>1 DEF KindMeant
  <2> QED
    BY <1>2, <1>3, <2>1, <2>2, KindKept
<1>5. ASSUME renames' = 0, NEW h \in handles', h \notin handles PROVE KindMeant(h.path, h.kind)'
  <2>1. /\ loc[t].ans # NoInode  /\ h.path = call[t].path  /\ h.kind = KindOpened(call[t].op)
        /\ call[t].op \in {"open", "opendir"} \/ (call[t].op = "create" /\ loc[t].phase = "confirm")
    BY <1>5, ReplyHandles
  <2>2. call[t].op # "create"
    BY <1>1, <2>1, PlacedAt DEF Placed
  <2>3. KindMeant(h.path, h.kind)
    BY <1>1, <1>5, <2>1, <2>2 DEF KindsOK
  <2> QED
    BY <1>2, <1>3, <2>1, <2>3, KindKept
<1>6. \A u \in Threads : call'[u] = IF u = t THEN NoCall ELSE call[u]
  BY <1>1 DEF TypeInv, TypeOK
<1>7. NoCall.op = "none"
  BY DEF NoCall
<1> QED
  BY <1>1, <1>2, <1>3, <1>4, <1>5, <1>6, <1>7, KindsFrom

\* Every step keeps that.
LEMMA NextKinds ==
    ASSUME TypeInv, TreeInv, KindsOK, ProperIds, [Next]_vars
    PROVE  KindsOK'
<1>1. CASE \E t \in Threads : Start(t)
  BY <1>1, StartKinds
<1>2. CASE \E t \in Threads : Reply(t)
  BY <1>2, ReplyKinds
<1>3. CASE \E t \in Threads : InsertMd(t)
  <2>1. PICK t \in Threads : InsertMd(t)
    BY <1>3
  <2>2. UNCHANGED <<dentries, handles, renames, call, stage>> /\ stage = "up"
    BY <2>1, ThreadTypes DEF InsertMd, kernel, daemon, ControlAt
  <2>3. PICK i, cur, q, kind : Inserted(t, i, cur, q, kind)
    BY <2>1, InsertMeaning
  <2>4. \A p \in Paths : \A x \in Denotes(p) : x \in Denotes(p)'
    BY <2>3 DEF Inserted
  <2>5. \A x \in DOMAIN md : x \in DOMAIN md' /\ md'[x] = md[x]
    BY <2>3 DEF Inserted, Add
  <2> QED
    BY <2>2, <2>4, <2>5, KindsFrom
<1>4. CASE \E t \in Threads : Step(t) /\ ~Reply(t) /\ ~InsertMd(t) /\ stage' = "up"
  <2>1. PICK t \in Threads : Step(t) /\ ~Reply(t) /\ ~InsertMd(t) /\ stage' = "up"
    BY <1>4
  <2>2. UNCHANGED <<dentries, handles, renames, call, stage>>
    BY <2>1 DEF Step, WalkStep, WalkFails, FindChild, FindRoot, SearchByInode, Make, InsertBlock,
                InsertMdClash, ListChildren, ListFails, Die, kernel, daemon
  <2>3. UNCHANGED <<md, root>>
    BY <2>1, StepSame
  <2>4. /\ \A p \in Paths : \A i \in Denotes(p) : i \in Denotes(p)'
        /\ \A i \in DOMAIN md : i \in DOMAIN md' /\ md'[i] = md[i]
    BY <2>3, MeaningKept
  <2> QED
    BY <2>1, <2>2, <2>4, KindsFrom
<1>5. CASE \E t \in Threads : Step(t) /\ ~Reply(t) /\ ~InsertMd(t) /\ stage' # "up"
  <2>1. PICK t \in Threads : Step(t) /\ ~Reply(t) /\ ~InsertMd(t) /\ stage' # "up"
    BY <1>5
  <2>2. pc[t] # "idle" => stage = "up"
    BY ThreadTypes DEF ControlAt
  <2>3. \E cause : Die(cause)
    BY <2>1, <2>2 DEF Step, WalkStep, WalkFails, FindChild, FindRoot, SearchByInode, Make, InsertBlock,
                InsertMdClash, ListChildren, ListFails, daemon
  <2> QED
    BY <2>3, KindsGone DEF Die, NoCall
<1>6. CASE InsertRoot
  <2>1. /\ stage' = "up"  /\ UNCHANGED <<root, handles, call>>
        /\ dentries' = {[path |-> <<>>, kind |-> "dir"]}
        /\ Add(root, [parent |-> Zero, name |-> RootName, kind |-> "dir"])
    BY <1>6 DEF InsertRoot
  <2>2. handles' = {} /\ \A t \in Threads : call'[t].op = "none"
    BY <1>6, <2>1, StartingTree DEF InsertRoot, TreeInv, HandlesOK
  <2>3. root' \in Denotes(<<>>)'
    BY DenotesMeaningNext DEF Meaning
  <2>4. root \in DOMAIN md' /\ md'[root].kind = "dir"
    BY <2>1 DEF Add
  <2>5. KindMeant(<<>>, "dir")'
    BY <2>1, <2>3, <2>4 DEF KindMeant
  <2> QED
    BY <2>1, <2>2, <2>5 DEF KindsOK
<1>7. CASE RemoveRoot \/ Mount
  <2>1. stage # "up" /\ UNCHANGED <<dentries, handles, call>>
    BY <1>7 DEF RemoveRoot, Mount, kernel
  <2>2. dentries = {} /\ handles = {} /\ \A t \in Threads : call[t].op = "none"
    BY <2>1, StartingTree DEF KindsOK, TreeInv, HandlesOK
  <2> QED
    BY <2>1, <2>2, KindsGone
<1>8. CASE InsertRootFails \/ Kill
  BY <1>8, KindsGone DEF InsertRootFails, Kill, Die, NoCall
<1>9. CASE UNCHANGED vars
  <2>1. UNCHANGED <<md, root, stage, dentries, handles, renames, call>>
    BY <1>9 DEF vars
  <2>2. /\ \A p \in Paths : \A i \in Denotes(p) : i \in Denotes(p)'
        /\ \A i \in DOMAIN md : i \in DOMAIN md' /\ md'[i] = md[i]
    BY <2>1, MeaningKept
  <2> QED
    BY <2>1, <2>2, KindsFrom DEF KindsOK
<1> QED
  BY <1>1, <1>2, <1>3, <1>4, <1>5, <1>6, <1>7, <1>8, <1>9 DEF Next, Daemon

-----------------------------------------------------------------------------
(* The namespace implements PathTree.                                        *)

\* The tree of PathTree.
Meant == {q \in Paths : Denotes(q) # {}}
PathsTree == [p \in {q \in Paths : Denotes(q) # {}} |->
                 [kind |-> KindOf(CHOOSE i \in Denotes(p) : TRUE), ino |-> Denotes(p)]]

\* The start implements PathTree's.
LEMMA InitImplements == Init => Tree!Init
<1> SUFFICES ASSUME Init PROVE Tree!Init
  OBVIOUS
<1>1. Denotes(<<>>) = {root} /\ <<>> \in Paths /\ root \in Roots
  BY DenotesMeaning, EmptyIsPath DEF Meaning, Init
<1>2. DOMAIN md = {}
  BY DEF Init
<1>3. \A p \in Paths : p # <<>> => Denotes(p) = {}
  BY <1>2, DenotesDocs
<1>4. {q \in Paths : Denotes(q) # {}} = {<<>>}
  BY <1>1, <1>3
<1>5. (CHOOSE i \in Denotes(<<>>) : TRUE) = root
  BY <1>1
<1>6. PathsTree = [p \in {<<>>} |-> [kind |-> "dir", ino |-> {root}]]
  BY <1>1, <1>4, <1>5 DEF PathsTree, KindOf
<1>7. {root} \in {{i} : i \in Roots}
  BY <1>1
<1> QED
  BY <1>6, <1>7 DEF Tree!Init, PathsTree

\* Steps that make nothing are invisible.
LEMMA SameImplements ==
    ASSUME SameTree
    PROVE  PathsTree' = PathsTree
<1>1. Meant' = Meant
  BY DEF SameTree, Meant
<1>2. ASSUME NEW p \in Meant
      PROVE  /\ Denotes(p)' = Denotes(p)
             /\ KindOf(CHOOSE i \in Denotes(p) : TRUE)' = KindOf(CHOOSE i \in Denotes(p) : TRUE)
  <2>1. Denotes(p)' = Denotes(p) /\ p \in Paths
    BY DEF SameTree, Meant
  <2>2. (CHOOSE i \in Denotes(p) : TRUE) \in Denotes(p)
    BY DEF Meant
  <2>3. PICK i : i = CHOOSE j \in Denotes(p) : TRUE
    OBVIOUS
  <2>4. i = (CHOOSE j \in Denotes(p) : TRUE)'
    BY <2>1, <2>3
  <2>5. KindOf(i)' = KindOf(i)
    BY <2>1, <2>2, <2>3 DEF SameTree
  <2> QED
    BY <2>1, <2>3, <2>4, <2>5 DEF KindOf
<1> QED
  BY <1>1, <1>2 DEF PathsTree, Meant

\* What a path means keeps its kind when a document is added.
LEMMA InsertNodes ==
    ASSUME TypeInv, TreeInv, ProperIds, NEW t \in Threads, InsertMd(t)
    PROVE  \E i \in Inodes, q \in Paths, kind \in Kinds :
               /\ Meant' = Meant \cup {q}  /\ q \notin Meant  /\ q # <<>>
               /\ Front(q) \in Meant  /\ Last(q) \in Names
               /\ PathsTree'[q] = [kind |-> kind, ino |-> {i}]
               /\ \A p \in Meant : /\ PathsTree'[p] = PathsTree[p]
                                   /\ PathsTree[p].ino # {i}
<1>0. PICK i, cur, q, kind : Inserted(t, i, cur, q, kind)
  BY InsertMeaning
<1>1. /\ \A p \in Paths \ {q} : Denotes(p)' = Denotes(p)
      /\ Denotes(q) = {}  /\ Denotes(q)' = {i}
      /\ i \in Inodes \ DOMAIN md  /\ cur \in Denotes(Front(q))
      /\ Add(i, [parent |-> cur, name |-> Last(q), kind |-> kind])
      /\ q \in Paths  /\ q # <<>>
      /\ kind = KindMade(call[t].op)
      /\ UNCHANGED root
  BY <1>0 DEF Inserted
<1>2. Front(q) \in Paths /\ Last(q) \in Names /\ kind \in Kinds
  BY <1>1, PathFacts DEF KindMade, Kinds
<1>3. i # root /\ i \notin DOMAIN md
  BY <1>1 DEF ProperIds, TypeInv, TypeOK
<1>4. Meant' = Meant \cup {q} /\ q \notin Meant /\ Front(q) \in Meant
  BY <1>1, <1>2 DEF Meant
<1>5. KindOf(i)' = kind
  BY <1>1, <1>3 DEF KindOf, Add
<1>6. PathsTree'[q] = [kind |-> kind, ino |-> {i}]
  <2>1. q \in {p \in Paths : Denotes(p)' # {}}
    BY <1>1
  <2>2. (CHOOSE j \in Denotes(q)' : TRUE) = i
    BY <1>1
  <2>3. PathsTree'[q] = [kind |-> KindOf(CHOOSE j \in Denotes(q) : TRUE)', ino |-> Denotes(q)']
    BY <2>1 DEF PathsTree
  <2> QED
    BY <1>1, <1>5, <2>2, <2>3 DEF KindOf
<1>7. ASSUME NEW p \in Meant
      PROVE  PathsTree'[p] = PathsTree[p] /\ PathsTree[p].ino # {i}
  <2>1. Denotes(p)' = Denotes(p) /\ p \in Paths /\ Denotes(p) # {}
    BY <1>1 DEF Meant
  <2>2. PICK j : j = CHOOSE k \in Denotes(p) : TRUE
    OBVIOUS
  <2>3. j \in Denotes(p) /\ j = CHOOSE k \in Denotes(p)' : TRUE
    BY <2>1, <2>2
  <2>4. j \in DOMAIN md \/ j = root
    BY <2>1, <2>3, DenotesDocs
  <2>5. KindOf(j)' = KindOf(j) /\ j # i
    BY <1>1, <1>3, <2>4 DEF KindOf, Add
  <2>6. PathsTree[p] = [kind |-> KindOf(j), ino |-> Denotes(p)]
    BY <2>1, <2>2 DEF PathsTree
  <2>7. PathsTree'[p] = [kind |-> KindOf(j)', ino |-> Denotes(p)']
    BY <2>1, <2>3 DEF PathsTree, KindOf
  <2> QED
    BY <2>1, <2>3, <2>5, <2>6, <2>7
<1> QED
  BY <1>1, <1>2, <1>4, <1>6, <1>7

\* The insert is a step of PathTree.
LEMMA InsertImplements ==
    ASSUME TypeInv, TreeInv, ProperIds, NEW t \in Threads, InsertMd(t)
    PROVE  Tree!Make
<1>1. PICK i \in Inodes, q \in Paths, kind \in Kinds :
               /\ Meant' = Meant \cup {q}  /\ q \notin Meant  /\ q # <<>>
               /\ Front(q) \in Meant  /\ Last(q) \in Names
               /\ PathsTree'[q] = [kind |-> kind, ino |-> {i}]
               /\ \A p \in Meant : /\ PathsTree'[p] = PathsTree[p]
                                   /\ PathsTree[p].ino # {i}
  BY InsertNodes
<1>2. DOMAIN PathsTree = Meant /\ DOMAIN PathsTree' = Meant'
  BY DEF PathsTree, Meant
<1>3. PICK old, new : old = PathsTree /\ new = PathsTree'
  OBVIOUS
<1>4. /\ q \in DOMAIN new \ DOMAIN old
      /\ DOMAIN new = DOMAIN old \cup {q}
      /\ \A p \in DOMAIN old : new[p] = old[p]  /\ old[p].ino # new[q].ino
      /\ q # <<>>  /\ Last(q) \in Names  /\ Front(q) \in DOMAIN old
      /\ new[q].kind \in {"file", "dir"}  /\ new[q].ino \in {{j} : j \in Inodes}
  BY <1>1, <1>2, <1>3 DEF Kinds
<1>5. Tree!Make <=>
          \E p \in DOMAIN new \ DOMAIN old :
            /\ DOMAIN new = DOMAIN old \cup {p}
            /\ \A r \in DOMAIN old : new[r] = old[r]  /\ old[r].ino # new[p].ino
            /\ p # <<>>  /\ Last(p) \in Names  /\ Front(p) \in DOMAIN old
            /\ new[p].kind \in {"file", "dir"}  /\ new[p].ino \in {{j} : j \in Inodes}
  BY <1>3 DEF Tree!Make, Tree!Last, Tree!Front, Last, Front, PathsTree
<1> QED
  BY <1>4, <1>5

\* Every step is one of PathTree, or none.
LEMMA NextImplements ==
    ProperIds /\ OneMountPoint /\ TypeInv /\ TreeInv /\ [Next]_vars => [Tree!Make]_PathsTree
<1> SUFFICES ASSUME ProperIds, OneMountPoint, TypeInv, TreeInv, [Next]_vars
             PROVE  Tree!Make \/ PathsTree' = PathsTree
  OBVIOUS
<1>1. CASE \E t \in Threads : InsertMd(t)
  BY <1>1, InsertImplements
<1>2. CASE \A t \in Threads : ~InsertMd(t)
  BY <1>2, NextSame, SameImplements
<1> QED
  BY <1>1, <1>2

\* The handlers implement PathTree: through crashes, remounts, unlinks and
\* renames a path comes to mean something by one document alone, and means the
\* same for ever after.
THEOREM ImplementsPathTreeHolds == ASSUME ProperIds, OneMountPoint PROVE Spec => ImplementsPathTree
<1>1. Spec => []TypeInv /\ []TreeInv
  BY TypeInvHolds, TreeInvHolds
<1> QED
  BY <1>1, InitImplements, NextImplements, PTL DEF Spec, ImplementsPathTree, Tree!Spec, PathsTree
=============================================================================

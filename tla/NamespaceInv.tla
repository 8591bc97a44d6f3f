----------------------------- MODULE NamespaceInv -----------------------------
(* The inductive invariants behind the theorems of NamespaceProofs and       *)
(* NamespaceTreeProofs.                                                      *)
EXTENDS Namespace

Walking == {"walk", "child"}
Inserting == {"insert_block", "insert_md"}
Ops == Makers \cup {"none", "getattr", "fgetattr", "open", "opendir", "readdir"}
CallTypes == [op : Ops, path : Paths, node : Paths \X Nat, was : SUBSET (Inodes \cup Roots)]
LocalTypes ==
    [phase : {"lookup", "make", "confirm"}, cur : Inodes \cup Roots \cup {Zero}, k : 0 .. MaxDepth,
     ino : Inodes \cup {NoInode}, fh : Inodes \cup Roots \cup {Zero},
     ans : Inodes \cup Roots \cup {NoInode}, names : SUBSET Names]

-----------------------------------------------------------------------------
(* Types and control.                                                        *)

\* The round trips each handler makes.
MakesTrip(op, phase, label) ==
    \/ op = "none" /\ phase = "lookup" /\ label = "idle"
    \/ op \in {"getattr", "open", "opendir"} /\ phase = "lookup" /\ label \in Walking \cup {"reply"}
    \/ op = "fgetattr" /\ phase = "lookup" /\ label \in {"search", "reply"}
    \/ op = "readdir" /\ phase = "lookup" /\ label \in {"list", "reply"}
    \/ op \in Makers /\ phase = "lookup" /\ label \in Walking \cup {"make", "reply"}
    \/ op \in Makers /\ phase = "make" /\ label \in Inserting \cup {"walk"}
    \/ op = "create" /\ phase = "confirm" /\ label \in {"search", "reply"}
    \/ op = "mkdir" /\ phase = "confirm" /\ label \in Walking \cup {"reply"}

\* What the code relies on between two round trips of a thread that serves call
\* c, has local variables l and makes the round trip `label' next.
ControlAt(c, label, l) ==
    /\ MakesTrip(c.op, l.phase, label)
    /\ IF label = "idle" THEN l = NoLocals ELSE stage = "up"
    /\ c.op \in Makers \cup {"getattr"} => c.path # <<>>
    /\ label = "walk" => l.k >= 1 /\ l.k < Len(c.path)
    /\ l.phase # "lookup" => l.ino \in Inodes
    /\ l.ans # NoInode => l.ans \in DOMAIN md
ControlOK == \A t \in Threads : ControlAt(call[t], pc[t], loc[t])

\* Only a mount point has no name of its own.
NamesOK == \A i \in DOMAIN md : md[i].parent = Zero \/ md[i].name \in Names

TypeInv == TypeOK /\ ControlOK /\ NamesOK

-----------------------------------------------------------------------------
(* The tree, when generate_id returns neither 0 nor the inode of a directory *)
(* the daemon is started in.                                                 *)
ProperIds == Zero \notin Inodes /\ Inodes \cap Roots = {}

\* The daemon is always started in the same directory.
OneMountPoint == \A r, s \in Roots : r = s

\* The documents of mount points, and no others, have the parent 0.
RootDocs ==
    /\ \A i \in DOMAIN md : md[i].parent = Zero <=> i \in Roots
    /\ \A i \in DOMAIN md : md[i].name = RootName <=> i \in Roots
    /\ \A i, j \in Children(Zero) : i = j
    /\ stage = "insert_root" => Children(Zero) = {}
    /\ stage = "up" => Children(Zero) = {root}

\* An inode that no document has yet is the parent of none.
NoStrangers == \A i \in DOMAIN md : md[i].parent \in DOMAIN md \cup Roots \cup {Zero}

\* The kernel's locks on directories.
LocksOK ==
    \A t, u \in Threads : t # u /\ call[u].op \in Makers =>
        /\ ~MakesIn(t, Front(call[u].path))
        /\ ~Lists(t, Front(call[u].path))

HandlesOK == \A h \in handles : stage = "up" /\ h.fh \in Denotes(h.path)

\* How far a call has come, and what it relies on since.
Placed(c, label, l) ==
    /\ label = "walk" => l.cur \in Denotes(SubSeq(c.path, 1, l.k - 1))
    /\ label \in {"child"} \cup Inserting =>
           IF c.path = <<>> THEN l.cur = Zero ELSE l.cur \in Denotes(Front(c.path))
    /\ label \in {"search", "list"} /\ c.op # "create" => l.fh \in Denotes(c.path)
    /\ c.op \notin {"fgetattr", "readdir"} => l.fh = Zero
    /\ c.op # "none" => c.was \subseteq Denotes(IF c.op \in Makers THEN Front(c.path) ELSE c.path)
    /\ label = "make" \/ l.phase = "make" => Denotes(c.path) = {}
    /\ l.phase = "confirm" =>
           Denotes(c.path) = {l.ino} \/ (Denotes(c.path) = {} /\ c.was = {})
    /\ label # "reply" \/ (c.op = "create" /\ l.phase = "confirm") => l.ans = NoInode

\* What a reply says, one thread's part of AnswersMatchTree, MadeIsInTree and
\* ListingComplete.
Replies(c, l) ==
    /\ c.op \in {"getattr", "open", "opendir", "fgetattr"} =>
           IF l.ans = NoInode THEN c.was = {} ELSE Denotes(c.path) = {l.ans}
    /\ l.phase = "confirm" =>
           \/ Denotes(c.path) = {l.ino}
           \/ Denotes(c.path) = {} /\ l.ans = NoInode /\ c.was = {}
    /\ c.op = "readdir" /\ c.node = node[c.path] =>
           l.names = {md[i].name : i \in UNION {Children(d) : d \in Denotes(c.path)}}
    /\ l.ans # NoInode => l.ans \in Denotes(c.path)

PlacedOK == \A t \in Threads : /\ Placed(call[t], pc[t], loc[t])
                               /\ pc[t] = "reply" => Replies(call[t], loc[t])

TreeInv ==
    /\ RootDocs /\ NoStrangers /\ UniqueNames
    /\ LocksOK /\ HandlesOK /\ PlacedOK

\* Until the kernel believes a rename, what it takes for a file or a directory
\* is one in the documents, and so is what it has open or asks to open.
KindMeant(p, kind) == \E i \in Denotes(p) \cap DOMAIN md : md[i].kind = kind
KindsOK ==
    /\ stage # "up" => dentries = {}
    /\ renames = 0 =>
           /\ \A d \in dentries \cup handles : KindMeant(d.path, d.kind)
           /\ \A t \in Threads : call[t].op \in {"open", "opendir"} =>
                                   KindMeant(call[t].path, KindOpened(call[t].op))
=============================================================================

------------------------------ MODULE Namespace ------------------------------
(* The directory tree: the handlers create, mkdir, getattr, open, opendir    *)
(* and readdir over fs_metadata, one atomic action per round trip to the     *)
(* database, and the start of the daemon (init_db).                          *)
(*                                                                           *)
(* A path is walked one query per component (reach_parent_inode), while      *)
(* other threads create entries.  The kernel holds a directory's lock over   *)
(* the LOOKUP that precedes a CREATE or MKDIR, over that request, and over   *)
(* READDIR.  Nothing removes or renames an entry: unlink, rmdir and rename   *)
(* report success and do nothing, which the kernel believes until its next   *)
(* LOOKUP tells it otherwise.                                                *)
EXTENDS Integers, FiniteSets, SequencesExt

CONSTANTS Threads,      \* libfuse worker threads
          Inodes,       \* what generate_id may return
          Roots,        \* inodes of the directories the daemon is started in
          Zero,         \* the inode 0: the parent of the root directory, and a
                        \* file handle that is not set
          NoInode,      \* nullopt, ENOENT
          Names,        \* base names
          MaxDepth,     \* bound: length of a path
          MaxHandles,   \* bound: open files and directories
          MaxMounts,    \* bound: how often the daemon is started
          MaxRenames,   \* bound: renames
          IdClash       \* may generate_id return an id that is in use?

RootName == "/"

ASSUME InodeAssumption ==
    /\ Roots # {}  /\ Zero \notin Roots
    /\ NoInode \notin Inodes \cup Roots \cup {Zero}
ASSUME BoundAssumption ==
    /\ RootName \notin Names
    /\ MaxDepth \in Nat \ {0} /\ MaxHandles \in Nat /\ MaxMounts \in Nat \ {0} /\ MaxRenames \in Nat
    /\ IdClash \in BOOLEAN

VARIABLES
    md,         \* fs_metadata: inode -> [parent, name, kind]
    blocked,    \* inodes for which a block 0 was linked in fs_lookup
    root,       \* the inode of the directory the daemon was started in
    stage,      \* the daemon: "down", "remove_root", "insert_root" or "up"
    mounts,     \* how often it was started
    fault,      \* the assert or exception that ended it
    dentries,   \* the kernel's entries: [path, kind]
    node,       \* the kernel's inode of each name
    made,       \* how often a name got another one
    handles,    \* what the kernel has open: [path, kind, fh, node]
    renames,    \* how many entries the kernel believes were renamed
    pc, call, loc

database == <<md, blocked>>
kernel == <<dentries, node, made, handles, renames>>
daemon == <<root, stage, mounts, fault>>
vars == <<md, blocked, root, stage, mounts, fault, dentries, node, made, handles, renames, pc, call, loc>>

Paths == UNION {[1 .. n -> Names] : n \in 0 .. MaxDepth}
Kinds == {"file", "dir"}
Entry == [parent : Inodes \cup Roots \cup {Zero}, name : Names \cup {RootName}, kind : Kinds]
Makers == {"create", "mkdir"}
Labels == {"idle", "walk", "child", "make", "insert_block", "insert_md", "search", "list", "reply"}

FirstNodes == [p \in Paths |-> <<p, 0>>]
NoCall == [op |-> "none", path |-> <<>>, node |-> <<<<>>, 0>>, was |-> {}]
NoLocals == [phase |-> "lookup", cur |-> Zero, k |-> 0, ino |-> NoInode,
             fh |-> Zero, ans |-> NoInode, names |-> {}]

-----------------------------------------------------------------------------
Children(i) == {c \in DOMAIN md : md[c].parent = i}
Unnamed(i, n) == Children(i)       \* mutant of Named: the query has the parent alone
Named(i, n) == {c \in Children(i) : md[c].name = n}

\* The inodes that a path means in the tree the documents describe.
Denotes(p) ==
    LET at[k \in 0 .. Len(p)] ==
            IF k = 0 THEN {root} ELSE UNION {Named(i, p[k]) : i \in at[k - 1]}
    IN  at[Len(p)]

Add(i, doc) == md' = [c \in DOMAIN md \cup {i} |-> IF c = i THEN doc ELSE md[c]]
Goto(t, label, l) == /\ pc' = [pc EXCEPT ![t] = label]
                     /\ loc' = [loc EXCEPT ![t] = l]

\* Every call ends with the daemon, and the kernel forgets the mount.
Die(cause) == /\ stage' = "down"  /\ fault' = cause
              /\ dentries' = {}  /\ handles' = {}  /\ node' = FirstNodes  /\ made' = 0
              /\ pc' = [t \in Threads |-> "idle"]
              /\ call' = [t \in Threads |-> NoCall]
              /\ loc' = [t \in Threads |-> NoLocals]
              /\ UNCHANGED <<database, root, mounts, renames>>

Init == /\ md = <<>>  /\ blocked = {}
        /\ root \in Roots  /\ stage = "remove_root"  /\ mounts = 1  /\ fault = "none"
        /\ dentries = {}  /\ node = FirstNodes  /\ made = 0  /\ handles = {}  /\ renames = 0
        /\ pc = [t \in Threads |-> "idle"]
        /\ call = [t \in Threads |-> NoCall]
        /\ loc = [t \in Threads |-> NoLocals]

-----------------------------------------------------------------------------
(* init_db, before the first request.                                        *)

\* Mutant of RemoveRoot: the delete has no filter.
RemoveAny ==
    /\ stage = "remove_root"  /\ stage' = "insert_root"
    /\ \/ md = <<>>  /\ UNCHANGED md
       \/ \E i \in DOMAIN md : md' = [c \in DOMAIN md \ {i} |-> md[c]]
    /\ UNCHANGED <<blocked, root, mounts, fault, kernel, pc, call, loc>>

\* remove_mtn_dir deletes one document whose parent is 0.
RemoveRoot ==
    /\ stage = "remove_root"  /\ stage' = "insert_root"
    /\ \/ Children(Zero) = {}  /\ UNCHANGED md
       \/ \E i \in Children(Zero) : md' = [c \in DOMAIN md \ {i} |-> md[c]]
    /\ UNCHANGED <<blocked, root, mounts, fault, kernel, pc, call, loc>>

\* Mutant of InsertRoot: the old document is kept when there is one.
InsertRootUnlessThere ==
    /\ stage = "insert_root"  /\ stage' = "up"
    /\ IF DOMAIN md = {} THEN Add(root, [parent |-> Zero, name |-> RootName, kind |-> "dir"])
                         ELSE UNCHANGED md
    /\ dentries' = {[path |-> <<>>, kind |-> "dir"]}
    /\ UNCHANGED <<blocked, root, mounts, fault, node, made, handles, renames, pc, call, loc>>

InsertRoot ==
    /\ stage = "insert_root"  /\ root \notin DOMAIN md  /\ stage' = "up"
    /\ Add(root, [parent |-> Zero, name |-> RootName, kind |-> "dir"])
    /\ dentries' = {[path |-> <<>>, kind |-> "dir"]}
    /\ UNCHANGED <<blocked, root, mounts, fault, node, made, handles, renames, pc, call, loc>>

InsertRootFails == stage = "insert_root" /\ root \in DOMAIN md /\ Die("dup_inode")

Kill == stage # "down" /\ mounts < MaxMounts /\ Die("none")

Mount ==
    /\ stage = "down"  /\ mounts < MaxMounts
    /\ stage' = "remove_root"  /\ mounts' = mounts + 1  /\ fault' = "none"
    /\ root' \in Roots
    /\ UNCHANGED <<database, kernel, pc, call, loc>>

-----------------------------------------------------------------------------
(* Requests of the kernel.  It resolves a path through its dentries, so the  *)
(* parent of the path it asks for is a directory it has been told of.        *)
Known(p, kind) == [path |-> p, kind |-> kind] \in dentries
Under(p) == {d \in dentries : IsPrefix(p, d.path)}

MakesIn(u, p) == call[u].op \in Makers /\ Front(call[u].path) = p

\* The kernel's lock is that of its inode, which a handle may have kept from
\* before the name was unlinked or renamed.
Lists(u, p) == call[u].op = "readdir" /\ call[u].path = p /\ call[u].node = node[p]

\* Mutant of Target: create links no block.
TargetNoBlock(op, phase) == IF phase # "make" THEN "child" ELSE "insert_md"

\* What a handler does with the parent directory once it has reached it.
Target(op, phase) == CASE phase # "make" -> "child"
                       [] phase = "make" /\ op = "create" -> "insert_block"
                       [] OTHER -> "insert_md"

\* Mutant of Walk: every walk starts at the root's parent.
WalkFromZero(t, op, p, l) ==
    Goto(t, IF Len(p) > 1 THEN "walk" ELSE Target(op, l.phase), [l EXCEPT !.cur = Zero, !.k = 1])

\* reach_parent_inode starts at the root directory; for "/" it answers 0.
Walk(t, op, p, l) ==
    Goto(t, IF Len(p) > 1 THEN "walk" ELSE Target(op, l.phase),
         [l EXCEPT !.cur = IF p = <<>> THEN Zero ELSE root, !.k = 1])

Begin(t, op, p, n) ==
    /\ stage = "up"  /\ pc[t] = "idle"
    /\ call' = [call EXCEPT ![t] = [op |-> op, path |-> p, node |-> n,
                                    was |-> Denotes(IF op \in Makers THEN Front(p) ELSE p)]]
    /\ UNCHANGED <<database, kernel, daemon>>

BeginGetattr(t) ==
    \E p \in Paths \ {<<>>} :
        /\ Known(Front(p), "dir")
        /\ Begin(t, "getattr", p, node[p])  /\ Walk(t, "getattr", p, NoLocals)

\* The LOOKUP that precedes CREATE and MKDIR, under the directory's lock.
BeginMake(t) ==
    \E p \in Paths \ {<<>>}, op \in Makers :
        /\ Known(Front(p), "dir")
        /\ \A u \in Threads : ~MakesIn(u, Front(p)) /\ ~Lists(u, Front(p))
        /\ Begin(t, op, p, node[p])  /\ Walk(t, op, p, NoLocals)

BeginOpen(t) ==
    \E d \in dentries :
        LET op == IF d.kind = "dir" THEN "opendir" ELSE "open"
        IN  /\ Cardinality(handles) < MaxHandles
            /\ Begin(t, op, d.path, node[d.path])  /\ Walk(t, op, d.path, NoLocals)

BeginFgetattr(t) ==
    \E h \in handles :
        /\ h.kind = "file"
        /\ Begin(t, "fgetattr", h.path, h.node)  /\ Goto(t, "search", [NoLocals EXCEPT !.fh = h.fh])

BeginReaddir(t) ==
    \E h \in handles :
        /\ h.kind = "dir"
        /\ h.node = node[h.path] => \A u \in Threads : ~MakesIn(u, h.path)
        /\ Begin(t, "readdir", h.path, h.node)  /\ Goto(t, "list", [NoLocals EXCEPT !.fh = h.fh])

\* The handlers that report success and do nothing.  The kernel holds the locks
\* of the directories, libfuse those of the paths.
Free(p) == \A u \in Threads : /\ ~IsPrefix(p, call[u].path)
                              /\ ~MakesIn(u, Front(p))  /\ ~Lists(u, Front(p))

\* The kernel's inode lives on in the handles; a name looked up again gets
\* another one.
InUse(n) == \E h \in handles : h.node = n
Renewed(s) == IF InUse(node[s]) THEN <<s, made + 1>> ELSE node[s]
Renew(S) == made' = IF \E s \in S : InUse(node[s]) THEN made + 1 ELSE made
Below(p) == {s \in Paths : IsPrefix(p, s)}

\* unlink and rmdir: the kernel forgets the entry, until it looks it up again.
Unlink(t) ==
    /\ stage = "up"  /\ pc[t] = "idle"
    /\ \E d \in dentries :
        /\ d.path # <<>>  /\ Free(d.path)
        /\ dentries' = dentries \ Under(d.path)
        /\ node' = [s \in Paths |-> IF s \in Below(d.path) THEN Renewed(s) ELSE node[s]]
        /\ Renew(Below(d.path))
    /\ UNCHANGED <<database, handles, renames, daemon, pc, call, loc>>

\* rename: the kernel has the entry, and what it knows below it, at another path
\* that the documents do not know.
Rename(t) ==
    /\ stage = "up"  /\ pc[t] = "idle"  /\ renames < MaxRenames  /\ renames' = renames + 1
    /\ \E d \in dentries, q \in Paths \ {<<>>} :
        LET moved == {[e EXCEPT !.path = q \o SubSeq(@, Len(d.path) + 1, Len(@))] : e \in Under(d.path)}
            from(s) == d.path \o SubSeq(s, Len(q) + 1, Len(s))
        IN  /\ d.path # <<>>  /\ ~IsPrefix(d.path, q)  /\ ~IsPrefix(q, d.path)
            /\ Known(Front(q), "dir")  /\ (Denotes(q) = {} \/ Known(q, d.kind))
            /\ Free(d.path)  /\ Free(q)
            /\ \A e \in moved : Len(e.path) <= MaxDepth
            /\ dentries' = (dentries \ (Under(d.path) \cup Under(q))) \cup moved
            /\ node' = [s \in Paths |->
                   IF s \in Below(q) /\ from(s) \in Paths /\ InUse(node[from(s)]) THEN node[from(s)]
                   ELSE IF s \in Below(q) \cup Below(d.path) THEN Renewed(s) ELSE node[s]]
            /\ Renew(Below(q) \cup Below(d.path))
    /\ UNCHANGED <<database, handles, daemon, pc, call, loc>>

-----------------------------------------------------------------------------
(* get_entry_from_path and reach_parent_inode.                               *)
\* An answer of get_entry_from_path or search_by_inode.  When the LOOKUP before
\* a CREATE or MKDIR finds nothing the kernel sends that request.
Answer(t, a) ==
    Goto(t, IF call[t].op \in Makers /\ loc[t].phase = "lookup" /\ a = NoInode THEN "make" ELSE "reply",
         [loc[t] EXCEPT !.ans = a])

\* libfuse asks for the attributes of what it was told is made: by path after
\* MKDIR, by the handle after CREATE.
Confirm(t) ==
    LET l == [loc[t] EXCEPT !.phase = "confirm"]
    IN  IF call[t].op = "create" THEN Goto(t, "search", l)
                                 ELSE Walk(t, "mkdir", call[t].path, l)

\* Mutants of WalkStep: the walk does not descend; it does not advance.
WalkLoops(t) ==
    /\ pc[t] = "walk"  /\ Named(loc[t].cur, call[t].path[loc[t].k]) # {}
    /\ Goto(t, "walk", loc[t])
    /\ UNCHANGED <<database, kernel, daemon, call>>

WalkStays(t) ==
    /\ pc[t] = "walk"
    /\ \E c \in Named(loc[t].cur, call[t].path[loc[t].k]) :
        LET l == [loc[t] EXCEPT !.k = @ + 1]
        IN  Goto(t, IF l.k = Len(call[t].path) THEN Target(call[t].op, l.phase) ELSE "walk", l)
    /\ UNCHANGED <<database, kernel, daemon, call>>

WalkStep(t) ==
    /\ pc[t] = "walk"
    /\ \E c \in Named(loc[t].cur, call[t].path[loc[t].k]) :
        LET l == [loc[t] EXCEPT !.cur = c, !.k = @ + 1]
        IN  Goto(t, IF l.k = Len(call[t].path) THEN Target(call[t].op, l.phase) ELSE "walk", l)
    /\ UNCHANGED <<database, kernel, daemon, call>>

\* A component is missing.  create and mkdir ignore it and report success.
WalkFails(t) ==
    /\ pc[t] = "walk"  /\ Named(loc[t].cur, call[t].path[loc[t].k]) = {}
    /\ IF loc[t].phase = "make" THEN Confirm(t) ELSE Answer(t, NoInode)
    /\ UNCHANGED <<database, kernel, daemon, call>>

\* Mutant of FindChild: an entry that is not a file is passed over.
FindFile(t) ==
    /\ pc[t] = "child"  /\ loc[t].cur # Zero
    /\ LET found == {c \in Named(loc[t].cur, Last(call[t].path)) : md[c].kind = "file"}
       IN  \E a \in IF found = {} THEN {NoInode} ELSE found : Answer(t, a)
    /\ UNCHANGED <<database, kernel, daemon, call>>

FindChild(t) ==
    /\ pc[t] = "child"  /\ loc[t].cur # Zero
    /\ LET found == Named(loc[t].cur, Last(call[t].path))
       IN  \E a \in IF found = {} THEN {NoInode} ELSE found : Answer(t, a)
    /\ UNCHANGED <<database, kernel, daemon, call>>

\* A parent inode of 0 stands for the root directory.
FindRoot(t) ==
    /\ pc[t] = "child"  /\ loc[t].cur = Zero
    /\ IF root \in DOMAIN md
       THEN Answer(t, root) /\ UNCHANGED <<database, kernel, daemon, call>>
       ELSE Die("assert_root")

\* Mutant of SearchByInode: the handle is taken for the answer.
SearchUnchecked(t) ==
    /\ pc[t] = "search"
    /\ Answer(t, loc[t].fh)
    /\ UNCHANGED <<database, kernel, daemon, call>>

SearchByInode(t) ==
    /\ pc[t] = "search"
    /\ Answer(t, IF loc[t].fh \in DOMAIN md THEN loc[t].fh ELSE NoInode)
    /\ UNCHANGED <<database, kernel, daemon, call>>

-----------------------------------------------------------------------------
(* The create and mkdir handlers: create_entry.                              *)
Unused(i) == i \notin DOMAIN md /\ i \notin blocked /\ \A u \in Threads : loc[u].ino # i

Make(t) ==
    /\ pc[t] = "make"
    /\ \E i \in Inodes :
        /\ Unused(i) \/ IdClash
        /\ Walk(t, call[t].op, call[t].path, [loc[t] EXCEPT !.phase = "make", !.ino = i])
    /\ UNCHANGED <<database, kernel, daemon, call>>

\* create_next_data_lookup_entries, whose round trips BlockStore tells apart.
InsertBlock(t) ==
    /\ pc[t] = "insert_block"
    /\ blocked' = blocked \cup {loc[t].ino}
    /\ Goto(t, "insert_md", loc[t])
    /\ UNCHANGED <<md, kernel, daemon, call>>

KindFile(op) == "file"         \* mutant of KindMade
KindMade(op) == IF op = "create" THEN "file" ELSE "dir"
\* Mutant of InsertMd: the parent is the root directory.
InsertMdAtRoot(t) ==
    /\ pc[t] = "insert_md"  /\ loc[t].ino \notin DOMAIN md
    /\ Add(loc[t].ino, [parent |-> root, name |-> Last(call[t].path), kind |-> KindMade(call[t].op)])
    /\ Confirm(t)
    /\ UNCHANGED <<blocked, kernel, daemon, call>>

InsertMd(t) ==
    /\ pc[t] = "insert_md"  /\ loc[t].ino \notin DOMAIN md
    /\ Add(loc[t].ino, [parent |-> loc[t].cur, name |-> Last(call[t].path), kind |-> KindMade(call[t].op)])
    /\ Confirm(t)
    /\ UNCHANGED <<blocked, kernel, daemon, call>>

InsertMdClash(t) == pc[t] = "insert_md" /\ loc[t].ino \in DOMAIN md /\ Die("dup_inode")

-----------------------------------------------------------------------------
\* Mutant of ListChildren: readdir lists the root directory.
ListRoot(t) ==
    /\ pc[t] = "list"  /\ loc[t].fh # Zero
    /\ Goto(t, "reply", [loc[t] EXCEPT !.names = {md[c].name : c \in Children(root)}])
    /\ UNCHANGED <<database, kernel, daemon, call>>

\* readdir asserts a handle that is not 0.
ListChildren(t) ==
    /\ pc[t] = "list"  /\ loc[t].fh # Zero
    /\ Goto(t, "reply", [loc[t] EXCEPT !.names = {md[c].name : c \in Children(loc[t].fh)}])
    /\ UNCHANGED <<database, kernel, daemon, call>>

ListFails(t) == pc[t] = "list" /\ loc[t].fh = Zero /\ Die("assert_fh")

\* What open, opendir and create leave the kernel with: a handle of the kind it
\* asked for, unless it has learnt meanwhile that the entry is of the other.
\* open and opendir set fh to the inode found; create leaves it 0.
KindOpened(op) == IF op = "opendir" THEN "dir" ELSE "file"
Opened(c, fh) ==
    IF \A d \in dentries : d.path = c.path => d.kind = KindOpened(c.op)
    THEN {[path |-> c.path, kind |-> KindOpened(c.op), fh |-> fh, node |-> c.node]} ELSE {}

\* The reply to a LOOKUP or GETATTR: the kernel keeps the entry it is told of,
\* and drops what it had at a path that has no such entry.  The reply to CREATE
\* is an error when what libfuse found is not a file.  An inode that turns out
\* to be of the other kind is of no more use, nor are its handles.
Reply(t) ==
    /\ pc[t] = "reply"
    /\ LET c == call[t]
           a == loc[t].ans
           created == c.op = "create" /\ loc[t].phase = "confirm"
           told == c.op \notin {"open", "opendir", "readdir"}
           kinds == IF a = NoInode \/ (created /\ md[a].kind # "file") THEN {} ELSE {md[a].kind}
           found == {[path |-> c.path, kind |-> k] : k \in kinds}
           Spoilt(n, kind) == told /\ n = c.node /\ kinds # {} /\ kind \notin kinds
       IN  /\ dentries' = CASE c.op = "fgetattr" -> {d \in dentries : ~Spoilt(node[d.path], d.kind)}
                            [] ~told \/ (found # {} /\ found \subseteq dentries) -> dentries
                            [] OTHER -> (dentries \ Under(c.path)) \cup found
           /\ handles' = {h \in handles : ~Spoilt(h.node, h.kind)} \cup
                  CASE c.op \in {"open", "opendir"} /\ a # NoInode -> Opened(c, a)
                    [] created /\ kinds # {} -> Opened(c, Zero)
                    [] OTHER -> {}
    /\ call' = [call EXCEPT ![t] = NoCall]
    /\ Goto(t, "idle", NoLocals)
    /\ UNCHANGED <<database, daemon, node, made, renames>>

Start(t) == BeginGetattr(t) \/ BeginMake(t) \/ BeginOpen(t) \/ BeginFgetattr(t) \/ BeginReaddir(t)
            \/ Unlink(t) \/ Rename(t)

Step(t) ==
    \/ WalkStep(t) \/ WalkFails(t) \/ FindChild(t) \/ FindRoot(t) \/ SearchByInode(t)
    \/ Make(t) \/ InsertBlock(t) \/ InsertMd(t) \/ InsertMdClash(t)
    \/ ListChildren(t) \/ ListFails(t) \/ Reply(t)

Daemon == RemoveRoot \/ InsertRoot \/ InsertRootFails

Next == (\E t \in Threads : Start(t) \/ Step(t)) \/ Daemon \/ Kill \/ Mount

Spec == Init /\ [][Next]_vars

\* libfuse's threads are scheduled and MongoDB answers.
FairSpec == Spec /\ WF_vars(Daemon) /\ \A t \in Threads : WF_vars(Step(t))
-----------------------------------------------------------------------------
(* Properties.                                                               *)

\* Every collection holds documents of its schema and every variable of the
\* daemon, the kernel and the threads has its type.  The last three faults
\* end the daemon in FileSystem, which has data calls.
TypeOK ==
    /\ DOMAIN md \subseteq Inodes \cup Roots  /\ md \in [DOMAIN md -> Entry]
    /\ blocked \subseteq Inodes
    /\ renames \in 0 .. MaxRenames
    /\ root \in Roots  /\ stage \in {"down", "remove_root", "insert_root", "up"}  /\ mounts \in Nat
    /\ fault \in {"none", "dup_inode", "assert_root", "assert_fh", "null_ffi", "no_size", "data_call"}
    /\ node \in [Paths -> Paths \X Nat]  /\ made \in Nat
    /\ dentries \subseteq [path : Paths, kind : Kinds]
    /\ handles \subseteq [path : Paths, kind : Kinds, fh : Inodes \cup Roots \cup {Zero}, node : Paths \X Nat]
    /\ pc \in [Threads -> Labels]
    /\ call \in [Threads -> [op : Makers \cup {"none", "getattr", "fgetattr", "open", "opendir", "readdir"},
                             path : Paths, node : Paths \X Nat, was : SUBSET (Inodes \cup Roots)]]
    /\ loc \in [Threads -> [phase : {"lookup", "make", "confirm"},
                            cur : Inodes \cup Roots \cup {Zero}, k : 0 .. MaxDepth,
                            ino : Inodes \cup {NoInode}, fh : Inodes \cup Roots \cup {Zero},
                            ans : Inodes \cup Roots \cup {NoInode}, names : SUBSET Names]]

\* No directory has two entries of one name, although neither handler looks
\* for the name first (handler.cpp:113) and no index of fs_metadata forbids it.
UniqueNames ==
    \A i, j \in DOMAIN md : md[i].parent = md[j].parent /\ md[i].name = md[j].name => i = j

\* Every entry is the end of a path from the root directory, so that crashes
\* and remounts strand nothing.
Rooted == \A i \in DOMAIN md : \E p \in Paths : i \in Denotes(p)

\* While requests are served one document stands for the mount point, the one
\* that get_md_entry_of_fs_root_dir asserts to be there.
OneRoot == stage = "up" => Children(Zero) = {root}

\* A file's block 0 is linked before its metadata can be seen, wherever the
\* daemon dies (create_entry_with_dir_parent).
FilesHaveBlock == \A i \in DOMAIN md : md[i].kind = "file" => i \in blocked

\* A walk of several queries, in a tree that grows meanwhile, answers with the
\* entry the path means, and with ENOENT only for a path that meant nothing
\* when the call began.
AnswersMatchTree ==
    \A t \in Threads : pc[t] = "reply" /\ call[t].op \in {"getattr", "open", "opendir", "fgetattr"} =>
        IF loc[t].ans = NoInode THEN call[t].was = {} ELSE Denotes(call[t].path) = {loc[t].ans}

\* When create or mkdir return to libfuse the entry is in the tree, at the path
\* asked for.  Both ignore a nullopt of create_entry, but that comes only in a
\* directory that a rename moved for the kernel alone, and then the getattr
\* that follows finds nothing.
MadeIsInTree ==
    \A t \in Threads : pc[t] = "reply" /\ loc[t].phase = "confirm" =>
        \/ Denotes(call[t].path) = {loc[t].ino}
        \/ Denotes(call[t].path) = {} /\ loc[t].ans = NoInode /\ call[t].was = {}

\* readdir's reply has the names in the directory when it is sent, neither less
\* nor more, unless the handle is of before an rmdir or a rename of the directory.
ListingComplete ==
    \A t \in Threads : pc[t] = "reply" /\ Lists(t, call[t].path) =>
        loc[t].names = {md[c].name : c \in UNION {Children(d) : d \in Denotes(call[t].path)}}

\* A create that made the file answers with it: open of a new file succeeds
\* (driver/src/entry.cpp:32).
CreateOpensFile ==
    \A t \in Threads : pc[t] = "reply" /\ call[t].op = "create" /\ loc[t].phase = "confirm" =>
        loc[t].ans = loc[t].ino

\* Every request is answered or the daemon dies.
EveryCallReturns == \A t \in Threads : pc[t] # "idle" ~> pc[t] = "idle"

\* The tree of PathTree that the documents stand for; a node's inode is the set
\* of all that its path means.
KindOf(i) == IF i = root THEN "dir" ELSE md[i].kind
Tree == INSTANCE PathTree WITH
            Inodes <- {{i} : i \in Inodes},
            Roots <- {{i} : i \in Roots},
            tree <- [p \in {q \in Paths : Denotes(q) # {}} |->
                        [kind |-> KindOf(CHOOSE i \in Denotes(p) : TRUE), ino |-> Denotes(p)]]

\* The handlers implement PathTree: a path comes to mean something only by one
\* document, in a directory, and never anything else again.
ImplementsPathTree == Tree!Spec
=============================================================================

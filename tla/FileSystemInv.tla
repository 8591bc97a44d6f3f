---------------------------- MODULE FileSystemInv ----------------------------
(* The inductive invariants behind the theorems of FileSystemProofs and      *)
(* FileSystemTreeProofs, but for the parts that they take from BlockStoreInv *)
(* and NamespaceInv.                                                         *)
EXTENDS FileSystem

-----------------------------------------------------------------------------
(* Whose blocks and sizes there are, whichever ids generate_id returns.      *)

\* Both halves of the daemon run, or neither does and no call is in progress.
TogetherOK ==
    /\ up <=> stage = "up"
    /\ stage # "up" => handles = {} /\ \A t \in Threads : pc[t] = "idle" /\ dpc[t] = "idle"

LocalFields == {"phase", "cur", "k", "ino", "fh", "ans", "names"}
ShapeOK ==
    /\ pc = [t \in Threads |-> pc[t]]
    /\ call = [t \in Threads |-> call[t]]
    /\ loc = [t \in Threads |-> loc[t]]
    /\ \A t \in Threads : DOMAIN loc[t] = LocalFields

\* A create is between its walk and its insert while it links the block of the
\* inode that it has drawn, and inserts its document only when that is there.
Joint(t) ==
    /\ dcall[t].op = "create" /\ dpc[t] # "reply" =>
           /\ dcall[t].inode = loc[t].ino  /\ call[t].op = "create"
           /\ IF dpc[t] = "insert_md" THEN pc[t] = "insert_md" /\ 0 \in Data!Orders(loc[t].ino)
                                      ELSE pc[t] = "insert_block"
    /\ pc[t] = "insert_block" =>
           /\ call[t].op = "create"  /\ loc[t].phase = "make"
           /\ dpc[t] = "idle" \/ dcall[t].op = "create"
    /\ loc[t].phase = "make" => loc[t].ino \in Inodes
    /\ pc[t] = "insert_md" /\ call[t].op = "create" => dpc[t] = "insert_md"
JointOK == \A t \in Threads : Joint(t)

\* A file that has blocks has a first one: orders start at 0, and no truncate
\* deletes that one.
FirstOK ==
    /\ \A e \in lookup : 0 \in Data!Orders(e.inode)
    /\ \A t \in Threads : dpc[t] = "new_lookup" => dloc[t].order = 0 \/ 0 \in Data!Orders(dcall[t].inode)

FilesServed == \A i \in Files : i \in DOMAIN sizes /\ 0 \in Data!Orders(i)

\* What get_entry_from_path or search_by_inode found is still there when the
\* handler returns; a create searches for the 0 that its handle holds.
Answers(t) ==
    /\ loc[t].ans # NoInode => pc[t] = "reply" /\ loc[t].ans \in DOMAIN md
    /\ call[t].op = "create" => loc[t].fh = Zero
    /\ call[t].op = "create" /\ loc[t].phase = "confirm" =>
           pc[t] \in {"search", "reply"} /\ loc[t].ans \in {NoInode, Zero}
AnswersOK == \A t \in Threads : Answers(t)

JoinInv == TogetherOK /\ ShapeOK /\ JointOK /\ FirstOK /\ FilesServed /\ AnswersOK

-----------------------------------------------------------------------------
(* Who owns the blocks until the daemon dies for the first time.             *)
Growing == {"new_data", "max_order", "new_lookup"}

\* What a data call is about: a file that has a size, or the inode that a create
\* has drawn.
Trip(t) ==
    /\ dpc[t] = "idle" => dcall[t].op = "none"
    /\ dpc[t] # "idle" /\ dcall[t].op # "create" => dcall[t].inode \in DOMAIN sizes
    /\ dpc[t] \in Growing => dcall[t].op \in {"create", "write", "truncate"}
    /\ dpc[t] = "update_data" => dcall[t].op = "write"
    /\ dpc[t] = "insert_md" => dcall[t].op = "create"
TripsOK ==
    /\ dpc = [t \in Threads |-> dpc[t]]  /\ dcall = [t \in Threads |-> dcall[t]]
    /\ \A t \in Threads : Trip(t)

\* A create links its block, and inserts its size, for the inode it has drawn.
Link(t) ==
    /\ dcall[t].op = "create" /\ dpc[t] # "reply" => dcall[t].inode = loc[t].ino
    /\ pc[t] = "insert_block" => dpc[t] = "idle" \/ dcall[t].op = "create"
LinksOK == \A t \in Threads : Link(t)

OwnInv == TogetherOK /\ TripsOK /\ LinksOK /\ DOMAIN sizes \subseteq DOMAIN md

\* Files have sizes: a create inserts its document in a round trip of its data
\* part, which inserts the size with it.
Creating(t) ==
    /\ dcall[t].op = "create" => dpc[t] \in Growing \cup {"insert_md", "reply"}
    /\ pc[t] = "insert_md" /\ call[t].op = "create" =>
           dcall[t].op = "create" /\ dpc[t] \in Growing \cup {"insert_md"}
SizedInv == Files \subseteq DOMAIN sizes /\ \A t \in Threads : Creating(t)

\* A block belongs to an entry of the tree or to the create that will insert it.
Claimed(e) == e.inode \in DOMAIN md \/ \E t \in Threads : pc[t] = "insert_md" /\ loc[t].ino = e.inode
FirstLife ==
    /\ mounts >= 1
    /\ mounts = 1 /\ stage \in {"remove_root", "insert_root"} => DOMAIN md = {} /\ lookup = {}
    /\ mounts = 1 /\ stage = "up" => Rooted /\ \A e \in lookup : Claimed(e)
=============================================================================

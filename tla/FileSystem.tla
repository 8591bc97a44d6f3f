------------------------------ MODULE FileSystem ------------------------------
(* Namespace and BlockStore put together: one daemon whose threads serve     *)
(* requests of both kinds over the three collections.  create links a block  *)
(* between its walk and its insert; reads, writes and truncates come through *)
(* the handles that open and create gave the kernel; the daemon dies of      *)
(* either, with every call, and forgets both when it is mounted again.       *)
(*                                                                           *)
(* A joint step is a step of each: Namespace's on its variables, BlockStore's*)
(* on those below.  The lock of a data call is the one of the kernel's inode *)
(* that its handle has, of which a document may come to have two: after an   *)
(* unlink or a rename that only the kernel believes, and by the inode 0 that *)
(* create leaves in a handle.                                                *)
EXTENDS Namespace

CONSTANTS BLOCK_SIZE, Bytes, ZeroByte, DataIds, NoId,
          Offsets, BufVecs, ReadSizes, NewSizes, AllocSizes, SpliceFrom    \* of BlockStore

ASSUME BlockAssumption == BLOCK_SIZE \in Nat \ {0} /\ ZeroByte \in Bytes /\ NoId \notin DataIds
ASSUME RequestAssumption ==
    /\ Offsets \subseteq Nat
    /\ BufVecs \subseteq Seq(Seq(Bytes) \ {<<>>}) \ {<<>>}
    /\ ReadSizes \subseteq Nat \ {0}
    /\ NewSizes \subseteq Nat  /\ AllocSizes \subseteq Nat  /\ SpliceFrom \in Nat

VARIABLES
    sizes,      \* fs_metadata: the file_size of every file
    lookup,     \* fs_lookup
    data,       \* fs_data
    isize,      \* the kernel's cached size of each file
    up,         \* stage = "up", as BlockStore says it
    torn,       \* history: files that a call cut short left damaged
    dfault,     \* what ended the daemon in a data call
    dpc, dcall, dloc,   \* data calls: next round trip, request, local variables
    lock,       \* the kernel's inode that a data call has come through
    twice       \* history: files reached through two inodes of the kernel

storage == <<sizes, lookup, data, isize, up, torn, dfault, dpc, dcall, dloc>>
names == vars
allVars == <<names, storage, lock, twice>>

NoNode == <<>>
Data == INSTANCE BlockStore WITH
            Zero <- ZeroByte, md <- sizes, fault <- dfault,
            pc <- dpc, call <- dcall, loc <- dloc

InitAll ==
    /\ Init
    /\ sizes = <<>>  /\ lookup = {}  /\ data = <<>>  /\ isize = [i \in Inodes |-> 0]
    /\ up = FALSE  /\ torn = {}  /\ dfault = Data!NoFault
    /\ dpc = [t \in Threads |-> "idle"]
    /\ dcall = [t \in Threads |-> Data!NoCall]
    /\ dloc = [t \in Threads |-> Data!NoLocals]
    /\ lock = [t \in Threads |-> NoNode]  /\ twice = {}

-----------------------------------------------------------------------------
DataDies == Data!Die /\ dfault' = Data!NoFault
Idle(t) == pc[t] = "idle" /\ dpc[t] = "idle"

\* The kernel's inodes that open files and data calls reach a file through.
Through(i) == {h.node : h \in {g \in handles : g.kind = "file" /\ g.fh = i}}
              \cup {lock[t] : t \in {u \in Threads : dcall[u].inode = i /\ dcall[u].op # "create"}}
Shared == {i \in Inodes : \E m, n \in Through(i) : m # n}

\* What every step but the head of a data call does to them.
Settled == /\ lock' = [t \in Threads |-> IF dcall'[t] = Data!NoCall THEN NoNode ELSE lock[t]]
           /\ twice' = twice \cup Shared'

\* A step of a handler that touches neither fs_lookup nor fs_data.
NameStep(t) ==
    /\ dpc[t] = "idle"  /\ pc[t] # "insert_block"
    /\ Start(t) \/ Step(t)
    /\ IF stage' = "up" THEN UNCHANGED storage ELSE DataDies
    /\ Settled

\* create_entry_with_dir_parent calls create_next_data_lookup_entries, whose
\* last round trip links the block, and then inserts the document.
LinkFor(t, i) ==
    /\ pc[t] = "insert_block"  /\ dpc[t] = "idle"
    /\ UNCHANGED names
    /\ Data!Begin(t, "new_data", [Data!NoCall EXCEPT !.op = "create", !.inode = i], 1)
    /\ Settled
LinkAnew(t) == \E i \in Inodes : LinkFor(t, i)     \* mutant of LinkBlock: a new inode is drawn
LinkBlock(t) == LinkFor(t, loc[t].ino)
BlockLinked(t) == InsertBlock(t) /\ Data!NewLookup(t) /\ Settled
FileMade(t) == InsertMd(t) /\ Data!InsertMd(t) /\ Settled
FileClashes(t) == dpc[t] = "insert_md" /\ InsertMdClash(t) /\ Data!Abort(t, "dup_inode") /\ Settled

Locked(n) == \E u \in Threads : lock[u] = n /\ Data!Modifies(dcall[u].op)

\* A data request comes through the handle of an open file.  The size that the
\* kernel has cached is its inode's: of a file that it has two of, any.
DataCall(t) ==
    \E h \in handles :
        /\ Idle(t)  /\ h.kind = "file"  /\ h.fh \in DOMAIN sizes
        /\ \/ Data!SendRead(t, h.fh, {off \in Offsets : off < isize[h.fh] \/ h.fh \in twice})
           \/ ~Locked(h.node) /\ (Data!SendWrite(t, h.fh) \/ Data!SendTruncate(t, h.fh))
        /\ UNCHANGED names
        /\ lock' = [lock EXCEPT ![t] = h.node]  /\ twice' = twice \cup Shared'

\* search_by_inode finds no document with a size: write_buf, read_buf and
\* truncate throw.
SizeMissing(t) ==
    /\ Idle(t)
    /\ \E h \in handles : h.kind = "file" /\ h.fh \notin DOMAIN sizes /\ ~Locked(h.node)
    /\ Die("no_size")  /\ DataDies  /\ Settled

OpenTrunc(t) == Idle(t) /\ UNCHANGED names /\ Data!OpenTrunc(t) /\ Settled

\* truncate by path comes without a fuse_file_info, and the handler reads its fh.
TruncateByPath(t) ==
    /\ Idle(t)  /\ \E d \in dentries : d.kind = "file" /\ ~Locked(node[d.path])
    /\ Die("null_ffi")  /\ DataDies  /\ Settled

\* A round trip of a data call or of create_next_data_lookup_entries.
DataStep(t) ==
    /\ dpc[t] # "insert_md"  /\ ~(dpc[t] = "new_lookup" /\ dcall[t].op = "create")
    /\ Data!Step(t)
    /\ IF up' THEN UNCHANGED names ELSE Die("data_call")
    /\ Settled

-----------------------------------------------------------------------------
\* init_db; a root document that it deletes may, by its parent, be a file.
Boot ==
    \/ /\ RemoveRoot
       /\ sizes' = [i \in DOMAIN sizes \cap DOMAIN md' |-> sizes[i]]
       /\ UNCHANGED <<lookup, data, isize, up, torn, dfault, dpc, dcall, dloc>>  /\ Settled
    \/ /\ InsertRoot
       /\ isize' = [i \in Inodes |-> IF i \in DOMAIN sizes THEN sizes[i] ELSE 0]
       /\ up' = TRUE  /\ dfault' = Data!NoFault
       /\ UNCHANGED <<sizes, lookup, data, torn, dpc, dcall, dloc>>  /\ Settled
    \/ (InsertRootFails \/ Kill) /\ DataDies /\ Settled
    \/ Mount /\ UNCHANGED storage /\ Settled

NextAll ==
    \/ \E t \in Threads : \/ NameStep(t) \/ LinkBlock(t) \/ BlockLinked(t) \/ FileMade(t) \/ FileClashes(t)
                          \/ DataCall(t) \/ SizeMissing(t) \/ OpenTrunc(t) \/ TruncateByPath(t) \/ DataStep(t)
    \/ Boot

SpecAll == InitAll /\ [][NextAll]_allVars
-----------------------------------------------------------------------------
(* Properties.                                                               *)

Files == {i \in DOMAIN md : md[i].kind = "file"}

\* Whoever opens a path to a file finds its first block and the bytes of it, in
\* three collections that no transaction ties together: metadata is inserted
\* after the block, and no truncate, crash or clash of ids takes that away, as
\* long as the kernel has one inode for each file.
FilesHaveData ==
    twice = {} =>
        \A i \in Files : \E e \in lookup : e.inode = i /\ e.order = 0 /\ e.id \in DOMAIN data

\* search_by_inode finds a document with a size for every handle that came from
\* open or create, so that no read, write or truncate throws at its head for
\* want of either (collection_helper.cpp:44), until the kernel believes a
\* rename: then open gives out the inode of a directory for a file it has
\* there (handler.cpp:126).
HandlesServe == renames = 0 => \A h \in handles : h.kind = "file" => h.fh \in DOMAIN sizes

\* The file that data requests reach is the one at the path opened, unless the
\* handle is the 0 that create left, which may be the inode of another.
DataReachesFile == \A h \in handles : Denotes(h.path) = {h.fh} \/ h.fh = Zero

\* Until the daemon dies for the first time every block belongs to a file of
\* the tree or to a create that will make it one: create links no block before
\* it has found the directory, and drops none after.
NoOrphans ==
    mounts = 1 /\ stage = "up" =>
        \A e \in lookup : \/ \E p \in Paths : Denotes(p) = {e.inode}
                          \/ \E t \in Threads : pc[t] = "insert_md" /\ loc[t].ino = e.inode

\* BlockStore's sizes stay covered by blocks under the calls that handles and
\* kernel locks really let through.  Two inodes of the kernel for one document
\* let a write store a size that a truncate beside it has cut the blocks of:
\* such a file is exempt, but no other is hurt.
Covered ==
    \A i \in DOMAIN sizes \ (torn \cup twice) :
        Data!Hurt(i) \/ Data!OrderOf(sizes[i]) \in Data!Orders(i)
===============================================================================

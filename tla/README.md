# mongo_fuse_fs in TLA+

`mongo_fuse_fs` is a FUSE file system whose files and directories are documents
of a MongoDB database. The daemon keeps no state of its own: every handler opens
a connection, makes a series of independent operations on three collections, and
returns. libfuse calls the handlers from several threads; there is no
transaction, no lock and no retry in the code. This directory models that
program, checks the models with TLC and proves the central results with TLAPS.

Paths below are relative to `src/mongo_fs/src/` unless they begin with `src/`.

## 1. Inventory

### Components

| Component | State | Operations | Modelled in |
|---|---|---|---|
| Block store (`mongo/collection/collection_helper`, `fs_lookup_collection`, `fs_data_collection`) | `fs_data`: block id -> 4096 bytes. `fs_lookup`: documents (inode, order, block id). `file_size` in `fs_metadata` | grow a file by a block, find block n, read, replace and delete a block, cut the tail | `BlockMath`, `BlockStore`, `FileSystem` |
| Namespace (`mongo/collection/fs_metadata_collection`, `fs/fs_helper`) | `fs_metadata`: inode -> parent inode, base name, kind, attributes | walk a path, list a directory, insert an entry | `Namespace`, `FileSystem` |
| Database start and ids (`mongo/mongo_manager`) | none; the root's inode is that of the working directory | `init_db`: delete the root's document, insert a new one. `generate_id`: 31 random bits | `Namespace` (`RemoveRoot`, `InsertRoot`, `Unused`), `BlockStore` (`Unused`, `IdClash`), `FileSystem` (`Boot`) |
| Handlers (`fs/handler`) | the file handle in `fuse_file_info::fh` | create, mkdir, getattr, open, opendir, readdir, write_buf, read_buf, truncate, init; the rest are stubs that report success | `FileSystem`, `BlockStore`, `Namespace`, `Attributes` |
| Attributes (`fs/perm`, `to_document`, `bson_to_md_entry`, `to_mode_t`) | one document's mode, times and size | conversions between `mode_t`, `off_t`, `time_t` and BSON | `Attributes` |
| Mount (`entry.cpp`) | the working directory | `main`: remember the directory, run `fuse_main` | `Init` and `Mount` of `BlockStore` and `Namespace`, `InitAll` and `Boot` of `FileSystem` |
| Connection (`mongo/connection.h`) | none | a client for each operation | not modelled |
| Driver (`src/driver`), scripts and build files | none | one open/close test; drop the database and mount | not modelled |

### How they interact

A request comes from the kernel through libfuse. `open` and `opendir` walk the
path in `fs_metadata` and hand out the inode as file handle; `write_buf`,
`read_buf` and `truncate` start from that handle. They read the file's size from
its metadata, work on `fs_lookup` and `fs_data` block by block, and store the new
size at the end. `create` makes block 0 first and the metadata second. The
collections share nothing but ids: `fs_lookup` refers to `fs_data` by block id and
to `fs_metadata` by inode, and MongoDB enforces only that `_id` is unique.

What keeps calls apart is the kernel, not the code: it holds an inode's lock over
WRITE and SETATTR (truncate), and a directory's lock over the LOOKUP that precedes
CREATE or MKDIR, over that request and over READDIR. It holds none over READ or
GETATTR. The inode is the kernel's own, one for each node of libfuse, not the number in
`fs_metadata`: after an `unlink` that removes nothing the name is looked up again and
gets a second inode, while an open file keeps the first, and the handle 0 that `create`
leaves belongs to another inode than the file whose number is 0. Nothing then keeps
two writers of one document apart.

### What is hard

* Every handler is a sequence of round trips, and another thread or the end of
  the daemon may come between any two.
* A failed `assert` or an uncaught exception ends the daemon and every call in it.
  The database survives and is mounted again; nothing repairs it.
* Reads take no lock, so a read overlaps a truncate of the same file.
* The locks are those of the kernel's inodes, of which a document may have two.
* Ids are random numbers that nobody compares with those in use.
* The stubs report success for what they do not do. The kernel believes unlink,
  rmdir, rename and fallocate, and works on with a tree and sizes of its own.
* The tree is walked one query per component while it grows.
* Block counts are computed in four places with `size / BLOCK_SIZE + 1`, one block
  more than needed at exact multiples; all of them must agree.
* Sizes, times and permissions pass through narrower types.

`PROJECT.json` lists each hazard at its line with the properties that cover it.

### What correct means

* Block store: every lookup document leads to a block (`NoDangling`); no block is
  in two places (`NoSharing`); a file's blocks are numbered without gap or
  duplicate (`BlocksInOrder`); the size is inside the blocks (`Covered`) and the
  blocks do not run ahead of it (`NoExtraBlocks`); nothing leaks in a daemon that
  has not crashed (`NoLeak`); calls that hold the kernel's lock fail no assert
  (`ModifiersNeverAssert`); a write stores what it reports (`WriteStored`) and
  changes nothing else, inside the size or past it (`WritesStayInRange`); only a
  truncate shortens a file (`OnlyTruncateShrinks`); a read returns the file
  (`ReadReturnsFile`); the kernel's size stays inside the stored one
  (`KernelSizeInside`).
* Namespace: names are unique in a directory (`UniqueNames`), every entry is
  reachable (`Rooted`), one document is the root (`OneRoot`), a file's block exists
  before the file does (`FilesHaveBlock`), answers agree with the tree
  (`AnswersMatchTree`, `ListingComplete`), and what `create` and `mkdir` report made
  is there (`MadeIsInTree`).
* Together: every file that a path leads to has its data in all three collections
  (`FilesHaveData`), every handle of a file is served (`HandlesServe`) and reaches
  the file opened (`DataReachesFile`), no block is without a file (`NoOrphans`).
* Attributes: `stat` tells what the file was given (`OwnerKept`, `StatAgrees`), the
  stored size is one that calls can work with (`SizePresent`), and the block counts
  taken from it agree with the blocks (`BlocksAgree`, `WritesFindBlocks`).

## 2. Modules

| Module | What it is |
|---|---|
| `BlockMath` | constants and arithmetic of blocks: number of blocks of a size, patching and slicing a block |
| `BlockStore` | the data path, one action per round trip; its properties |
| `BlockArray` | what the data path promises: a file is an array of blocks with a size inside it |
| `BlockStoreRefinement` | the mapping from `BlockStore` to `BlockArray` |
| `BlockStoreInv` | its inductive invariants: types and control, links, sizes, contents, orders, what calls have counted, stored and read |
| `BlockStoreProofs` | theorems: types, `NoDangling`, `NoSharing` |
| `BlockStoreCoverProofs` | theorems about sizes, contents and the kernel's sizes, for ids that clash as well |
| `BlockStoreOrderProofs` | theorems about orders and leaks, what writes store and reads return, and the refinement of `BlockArray`, without clashes |
| `Namespace` | the tree in `fs_metadata`, path walks, handles, `init_db`; its properties |
| `NamespaceInv` | its inductive invariants: types and control, the tree |
| `NamespaceProofs` | theorems: types, `FilesHaveBlock` |
| `NamespaceTreeProofs` | theorems about the tree, for proper ids; `Namespace` implements `PathTree` |
| `PathTree` | what the namespace promises: a tree of paths that only grows |
| `FileSystem` | `Namespace` and `BlockStore` as one daemon; the properties that relate the two |
| `FileSystemInv` | what its two parts know of each other, as inductive invariants |
| `FileSystemProofs` | theorems about files, sizes and blocks together, for any ids |
| `FileSystemTreeProofs` | theorems about the tree, handles and who owns the blocks, for proper ids |
| `Attributes` | one document's attributes and block count through all conversions |
| `AttributesProofs` | its invariant and its theorems |
| `MCBlockStore`, `MCNamespace`, `MCFileSystem`, `MCAttributes` | the small instances |

### BlockStore

`md`, `lookup` and `data` are the three collections (of a metadata document only
the size matters here). `isize` is the size the kernel has cached for each file,
which decides what it lets a program read and is updated by its replies. `call[t]`
is the request thread `t` serves, `pc[t]` the round trip it makes next and `loc[t]`
the handler's C++ variables that are still needed.

An action is one round trip together with the code up to the next one:
`FindMdFor*` is `search_by_inode` at the head of each call, `NewData`, `MaxOrder`
and `NewLookup` are `create_next_data_lookup_entries`, `FindLookup`, `FindDataFor*`
and `UpdateData` one turn of a block loop, `FindIds`, `DelLookup` and `DelData`
`remove_data_lookup_entries_above`, `InsertMd` the end of `create`, `SetSize`
`update_md_entry_size`. Actions that end in `Fails` or `Clash` are the failed asserts
and the duplicate-key exceptions: they end the daemon (`Abort`). `PipeFails` is the
assert that a buffer is no descriptor, for buffers of `SpliceFrom` bytes or more, and
`TruncateByPath` the `truncate` handler without a `fuse_file_info`. `Kill` ends the
daemon at any time, `Mount` starts it on the database as it was left. `OpenTrunc` is
the `open` handler when the kernel passes O_TRUNC and `Fallocate` the stub: both
change only what the kernel takes the size to be. Two history variables, `fault`
(what ended the daemon) and `torn` (files that a call cut short left damaged: a shrink
between its deletions and its size update, a `create` that had linked its block to
the file whose inode it drew), serve properties only.

`BlockStore` by itself has one hypothesis about the kernel: **it has one inode for each
document, and writes no mapped pages back.** `KernelLocked(i)` is then the lock of the
document `i`, and at most one write or truncate of it is under way. The runs `store_*` and the
theorems about `BlockStore`, among them `BlocksInOrder`, `WritesStayInRange`,
`OnlyTruncateShrinks` and `ImplementsBlockArray`, hold under it. The stubs `unlink` and `rename`
and the handle 0 of `create` break its first half, which `FileSystem` therefore drops; the
second half is broken by a program that maps a file for writing, since the kernel sends those
pages as WRITE requests without the lock. Neither `Namespace` nor `FileSystem` has mapped files.

Abstracted: bytes are members of a small set, a block has `BLOCK_SIZE` of them
(two in the runs), ids are model values. What MongoDB does in one operation is
atomic; `delete_many` is taken as atomic too, because the kernel's lock keeps every
other writer of that file away and a reader asks for one document at a time.

### Namespace

`md` maps an inode to parent, name and kind. `blocked` stands for what `BlockStore`
models in detail: the inodes for which block 0 was linked. `stage` is the start of
the daemon (`init_db` is two round trips), `dentries` and `handles` are the kernel's
view, and `node` is the inode that the kernel has for each name. The kernel sends a path only if it has been told that its parent is a
directory; `create` and `mkdir` are preceded by a LOOKUP under the directory's
lock, and libfuse follows them with a `getattr`, by handle after CREATE and by path
after MKDIR. `WalkStep` is one query of `reach_parent_inode`; `FindChild`, `FindRoot`
and `SearchByInode` are the ends of a lookup; `InsertBlock` and `InsertMd` are
`create_entry_with_dir_parent`.

`Unlink` and `Rename` are the stubs `unlink`, `rmdir` and `rename`: no document
changes, and the kernel drops its entry or has it, with what it knows below it, at
another path. So its entries may be wrong in two ways, and `Reply` puts them right as
the kernel does: an ENOENT or an entry of another kind takes the entry away, with all
below it. A walk for a path through a directory that was moved for the kernel alone
finds nothing, or the entry that still is at that path.

A handle has the inode of the kernel by which it was opened, and keeps it when the
name goes or is looked up anew (`Renewed`; `made` numbers the inodes, and an inode
without handles is not told from its successor). Its kind is that of the request, since the
answer to OPEN has no type (`Opened`): `open` gives out the inode of a directory for what
the kernel takes for a file, which a rename that only the kernel believes can bring about. When
a later GETATTR tells the kernel that an inode is of the other kind, it gives the inode up, and its
handles serve no more (`Spoilt` in `Reply`). A directory's lock is that of its inode, too:
`BeginReaddir` and `BeginMake` exclude each other as long as the handle has the inode that the
name has now, and `ListingComplete` claims no more.

A daemon ends by one of the faults that `TypeOK` lists; three of them, `null_ffi`, `no_size` and
`data_call`, are ends that only `FileSystem` brings about (`truncate` by path, a handle whose
document has no size, and a failure in a data call).
Nor does the daemon make up for the kernel: `reach_parent_inode` walks on through a
component that is a file, so `PathTree` asks of the parent of a new entry that it
exists, not that it is a directory.

### FileSystem

The composition. It extends `Namespace` and instantiates `BlockStore` with storage
variables of its own (`sizes` for the file sizes in `fs_metadata`, `dpc`, `dcall` and
`dloc` for threads inside a data call). A joint step is a step of each module.
`NameStep` is a handler's step over `fs_metadata` alone. A `create` that has reached
its directory calls into the block store (`LinkBlock`); the two rejoin when the block is
linked (`BlockLinked`) and when the document is inserted (`FileMade`) or clashes
(`FileClashes`). `DataCall` lets the kernel send a read, write or truncate only through
the handle of an open file, whose number is the inode that `open` set or the 0 that
`create` left, and under the lock of the kernel's inode that the handle has (`lock`,
`Locked`): two handles of one document may have two of those, and their calls then run
beside each other. `SizeMissing` is the call whose document has no size, and throws; `DataStep` is
the rest of the block store. The history variable `twice` has the files that were reached
through two inodes at a time (`Shared`), by open files or by calls under way. `up` is the block store's own view of whether the
daemon runs, which the namespace has in `stage`. An assert or a duplicate in
either part ends the daemon for both, and `Boot` is `init_db`, `Kill` and `Mount` for both.

### Attributes

One document: what was asked (`asked`), what is stored (`doc`), how many blocks
`fs_lookup` has for it (`blocks`), what `getattr` answers (`stat`). The three conversions
`FromModeT`, `ToDocument` and `FromDocument` are the code's; `ToInt` narrows a size or a
position to an int of `IntRange` values, and `IntBlocks` is the division of an int by the unsigned
`BLOCK_SIZE`. `Truncate` and `Write` are the two calls with their arithmetic as the
compiler does it, one call one action: what threads do to them is `BlockStore`'s matter.

## 3. Runs

`tlc -config X.cfg M` for each line; `PROJECT.json` has the modules and properties.

| Run | Shows |
|---|---|
| `store_concurrent` | two threads, two files, kill and remount anywhere, pipes, truncate by path, fallocate: `TypeOK`, `BlocksInOrder`, `NoExtraBlocks`, `NoLeak`, `KernelSizeInside`, `Covered`, `ModifiersNeverAssert` |
| `store_contents` | two threads, one file, contents, writes that lie inside a block, end at a boundary and span blocks: `WriteStored`, `WritesStayInRange`, `OnlyTruncateShrinks`, `QuietReads`, `ReadReturnsFile`; `BlockStore` implements `BlockArray` |
| `store_clash` | `generate_id` returns ids in use, fair threads: `NoDangling`, `NoSharing`, `Covered`, `ModifiersNeverAssert`, `EveryCallReturns` |
| `namespace_tree` | two threads in a tree two levels deep, unlinked and renamed for the kernel alone, with kill and remount: `TypeOK`, `AnswersMatchTree`, `MadeIsInTree`, `Rooted`; `Namespace` implements `PathTree` |
| `namespace_inode_zero` | a directory has inode 0, and the daemon is started again in another directory or in one whose inode is taken: `UniqueNames`, `OneRoot`, `FilesHaveBlock` and, with fair threads, `EveryCallReturns` |
| `filesystem` | both parts, one directory, ids that clash, an inode 0, a daemon that dies of either kind of call and starts again, maybe elsewhere: `FilesHaveData`, `HandlesServe`, `NoOrphans`, `Covered`, `ListingComplete` |
| `filesystem_renames` | two entries that the kernel believes unlinked and renamed, so that a file has two inodes there, a write runs beside a truncate of one document, a directory is opened as a file and the next data call throws: `DataReachesFile`, `Covered` of every file but the one of two inodes |
| `attributes` | `TypeOK`, `OwnerKept`, `StatAgrees`, `SizePresent`, `BlocksAgree`, `WritesFindBlocks` |

Four runs end in a violation on purpose. Each checks one sentence that the code,
a comment, the README or the driver's test says of the program, and shows a
behaviour of the code that contradicts it:

| Run | What happens |
|---|---|
| `store_read_race` | a read overlaps a shrinking truncate; the assert at `fs_lookup_collection.cpp:68` fails and the daemon dies |
| `store_redirect` | `open` ignores O_TRUNC: `echo <data> > <file_name>` leaves the old tail |
| `namespace_create` | `create` sets no file handle, so opening a new file fails with ENOENT although the file was made |
| `attributes_mode` | group and others get the owner's permissions |

The models have six more such behaviours, without a run of their own, since nothing in the
repository promises the contrary: a write through one inode of the kernel beside a
truncate of the same document through another leaves a size past the blocks (`twice`); a
directory opened as a file after a rename ends the daemon with the next data call
(`SizeMissing`); `fallocate`
reports success, so that a read past the blocks fails an assert (`Fallocate`); a
`fuse_bufvec` of two buffers is stored at one offset, the second over the first, and
both are reported written (`EnterBuffer`); a directory that drew inode 0 fails the
assert of `readdir` (`ListFails`); all timestamps read as the present (`FromDocument`).

### Bounds

* Two threads: every property is about one call disturbed by another; a third adds
  no new pair. Contents runs use one file, structure runs two, so that a block could be
  confused between files.
* `BLOCK_SIZE` = 2 has a first, a last and a boundary position. Sizes 0 to 6 give
  one to four blocks: growth and shrinking by one and by two blocks occur.
* Block ids and inodes: as many as the largest files need at once. When they run
  out, growth waits; the behaviours before that are complete.
* `MaxMounts` = 2: one crash and one recovery, and for `namespace_inode_zero` a start in
  another directory. `store_clash` has one mount: with ids that clash the daemon ends
  itself often enough, and section 4 proves `NoDangling` and `NoSharing` for any number.
* When ids clash, a `create` that draws the inode of another file attaches a block to
  it without its lock. `Covered` and `ModifiersNeverAssert` except that file, from that
  moment if the call is cut short, and claim that no other is hurt (`store_clash`,
  `filesystem`). `NoLeak`, `NoExtraBlocks` and `BlocksInOrder` are claimed without clashes.
* `SpliceFrom` = 2 in `store_concurrent`, where every write is of two bytes, so that each
  may come as a pipe; 9 elsewhere, where none does. `AllocSizes` = {6}: past every size
  that a write or truncate gives.
* Paths of two components (`namespace_tree`, `namespace_inode_zero`) make the walk take
  every branch: first step, descent, base name. One rename (`MaxRenames`) is enough to part
  the kernel's tree from the documents; a second one moves entries that are already
  apart. Ids that clash are left to `namespace_inode_zero`.
* `filesystem_renames`: two entries, a file and a directory, are the least with which a rename
  turns one into the other for the kernel. `MaxHandles` = 1 bounds the opens that begin, two of
  which may do so at once, so that a file is open by two inodes. One mount, since the kernel
  forgets all of it with the mount. Without the exemption of `twice` `Covered` is violated in
  this run.
* `filesystem`: paths of one component, since what it adds to `Namespace` is behind the
  handle. `Inodes` = {0, r} with `Roots` = {r, r2}: a file may have the inode 0 that `create`'s
  handle names, or that of a directory the daemon is started in later. Writes of two
  bytes at position 1 grow a file by a block, truncates to 0 shrink it again; contents do
  not matter to these properties, so there is one byte value.
* `IntRange` = 32, an int of five bits, and `BLOCK_SIZE` = 8 with the sizes 0, 1, 7, 8, 15, 16, 17, 24, 31, 32 and 33:
  both sides of a block, of the sign, of the sentinel -1 and of the wrap. `MaxBlocks` = 5:
  as many as the largest size has; a file with more is not written or truncated again.
  `MaxTime` = 1: before and after.
* Deadlock is not checked: when all ids are used or the last mount has ended the
  models stop, and a system that nobody calls is at rest.
* Threads, ids, names and files are symmetric; the runs for liveness use no symmetry.

### Fairness

`FairSpec` has weak fairness of `Step(t)` for each thread: libfuse's workers are
operating-system threads and MongoDB answers, so a call that has begun goes on.
In `Namespace` the start of the daemon is fair too. Nothing obliges the kernel to send
requests, the daemon to be killed or anybody to mount it again, and no property needs
it. Thread fairness is enough because no handler waits for another.

## 4. Proofs

All theorems hold for any sets of threads, inodes, ids, names and requests, any block
size and any number of mounts; nothing is assumed finite. What they assume of the
constants is named where these are declared (`BLOCK_SIZE` is a positive natural, `Zero`
is a byte, `NoId` and `NoInode` are no ids, requests have natural offsets and sizes and no
empty buffers, the mount point's own inode is not 0) and TLC evaluates it on every run.
Five hypotheses more are stated where a theorem needs them, and nowhere else:

* `~IdClash`: `generate_id` draws no id in use.
* `ProperIds`: it draws neither 0, the parent of the root, nor the inode of a directory
  the daemon is started in. The code checks neither; one draw in 2^31 is 0.
* `OneMountPoint`: the daemon is always started in the same directory.
* `SingleBuffers`: a write comes in one buffer. The code stores a second buffer over the first
  and reports both (section 3), so with two of them `KernelSizeInside` is false; `WriteStored`
  is about writes of one buffer.
* `MaxMounts = 1`: the daemon is started once. A crash in a shrinking truncate leaves a
  size past the blocks, which no array of `BlockArray` has.

Each invariant below was first an invariant of TLC runs: those of `BlockStoreInv` on the
constants of `store_concurrent`, `store_contents` and, where ids may clash, `store_clash`;
`TreeInv` and `KindsOK` on those of `namespace_tree` and on others with handles and clashing
ids; `JoinInv`, as long as `twice` is empty, on `filesystem`; `OwnInv` and `FirstLife` on
`filesystem` with `Inodes` = {i1, i2} and `Roots` = {r}; `SizedInv` and `KindsOK` on
`filesystem_renames`; `EntryInv` on `attributes`, with blocks of 8 and of 5.

### Block store

| Theorem | States | Needs |
|---|---|---|
| `TypeInvHolds`, `TypeCorrect` | `Spec => []TypeOK` | |
| `LinkInvHolds`, `NoDanglingHolds`, `NoSharingHolds` | lookup documents and blocks match one to one | |
| `CoverInvHolds`, `CoveredHolds` | `Spec => []Covered` | |
| `ModifiersNeverAssertHolds` | `Spec => []ModifiersNeverAssert` | |
| `OnlyTruncateShrinksHolds` | `Spec => OnlyTruncateShrinks` | |
| `ContentInvHolds`, `WritesStayInRangeHolds` | `Spec => WritesStayInRange` | |
| `OrderInvHolds`, `BlocksInOrderHolds` | `Spec => []BlocksInOrder` | `~IdClash` |
| `NoLeakHolds`, `NoExtraBlocksHolds` | until the first crash nothing leaks and no file has blocks past its size | `~IdClash` |
| `KernelInvHolds`, `KernelSizeInsideHolds` | `Spec => []KernelSizeInside` | `SingleBuffers` |
| `StoredHolds` | a write finds its bytes in its file up to the position it has reached | `SingleBuffers` |
| `WriteStoredHolds` | `Spec => []WriteStored` | `~IdClash`, `SingleBuffers` |
| `QuietReadsHold` | `Spec => QuietReads` | |
| `ReadReturnsFileHolds` | `Spec => ReadReturnsFile` | `~IdClash` |
| `ImplementsBlockArrayHolds` | `Spec => ImplementsBlockArray` | `~IdClash`, `MaxMounts = 1` |

`TypeOK` is not inductive: that the loop counter `need` stays natural depends on the
round trip a thread is at, that a size can be read on the file being in the
metadata, that `get_max_order` has a maximum on the orders being bounded. `TypeInv`
adds `ControlOK` (for each thread: the round trip belongs to the request, and what the
code relies on there) and `OrdersBounded`. There is one lemma for each action, each
through a lemma that says what one thread's step must show and that the other
threads are not disturbed (`LocalStep`).

`NoDangling` and `NoSharing` depend on who holds a block between two round trips.
`LinkInv` adds: a pending block (inserted and not linked yet) and the blocks to remove
(unlinked and not deleted yet) are in `data`, are not linked, and are in no other
thread's hands (`PendingOwned`, `RemovingOwned`); the ids that a truncate found still
belong to documents its delete will match (`FoundStillThere`); and for one file one
thread at most writes or truncates (`OneModifier`, the kernel's lock). The last is
needed where a truncate deletes: without it a second truncate would leave the first
with ids whose blocks are gone or in use again. A crash empties everybody's hands
(`DieLinks`): blocks leak, and no link breaks.

`Covered` and `ModifiersNeverAssert` hold only because four counts agree: the size stored,
the size a call started from, the blocks it still has to add and the orders in
`fs_lookup`. `CoverInv` says so at each round trip. A file that nobody has damaged (`Whole`)
has no gap in its orders; a call that still adds `need` blocks has the block numbered
`OrderOf(cur) - need`, and the order that it computed is the next one (`BackedAt`); the size a
write works with is no smaller than the one stored (`SizedAt`), which is also why a write
never shortens a file. Damage is part of the statement, since the code does damage
files: a truncate cut short between its deletions and its size update leaves blocks
missing, and a `create` that drew another file's inode adds a block without its lock.
The proof shows that neither reaches a second file.

`WritesStayInRange` rests on `ContentInv`. A write reads a block, changes its copy and puts it
back a round trip later, so that anything stored meanwhile would be lost: `PatchedOK` says
that copy and block differ only in the positions of the write's buffers, `FreshOK` that a
block is all zeros until it is linked.

`BlocksInOrder` needs the absence of clashes: a `create` then has its inode to itself
(`ExclusiveOK`), and the order that a thread read with `get_max_order` is still the next one
when it inserts (`NextOrderOK`). For `NoExtraBlocks`, `TightOK` follows how far the orders
of a file may reach at each round trip; it ends with the first crash, after which blocks
past the size may be left.

`KernelSizeInside` is about a number that the kernel adds up from replies and that nothing
in the code compares with what is stored. `KernelInv` adds what the two have in common: the
bytes a write has counted are the distance from its offset to its position, the position
is the end of the buffer when it returns, and by then the size stored reaches as far; a
truncate returns with its size stored (`CountedAt`); and for a file that is not there yet the
kernel has the size 0 (`AbsentEmpty`). Between two round trips the kernel's lock keeps other
calls from changing the size (`OthersSizes`).

For `WriteStored`, `StoredOK` says of a write between two blocks that each byte before its
position is in a block of the file, or in the copy it is about to put back. Three facts
make it inductive: other threads leave the blocks of a locked file alone (`OthersBlocks`, which
rests on `LinkInv`: what they delete is unlinked, what they replace is their own); the copy
loop stays in one block (`InOneBlock`); and the block put back is the one that was looked up,
since no block is shared. That a position has one byte only (`ByteOf`), and hence the last
step to `WriteStored`, needs `BlocksInOrder`.

`ReadAt` is the same for `read_buf`: what has been gathered is what the file has there, no byte
of it is past the size, and the loop ends at the end of the range or of the file (`CopyStops`).
The read's own steps keep it, and so does every other step while no write or truncate of the file is
under way (`QuietReads`). With orders that name one block each, `ReadAt` of a read that returns
is `ReadReturnsFile`.

For the refinement of `BlockArray`, `IsArray` says of a file that its blocks, in their order,
are a sequence whose length is the next order (`FileBlocksAre`, from `BlocksInOrder`; the
cardinality in the mapping is `NumberedCount`). Then `NewLookup` appends a zeroed block (`FreshOK`),
`UpdateData` replaces one (`PatchedOK`), `DelLookup` keeps a prefix, `InsertMd` and `SetSize` set a size
inside the array (`BackedOK`), and every other step leaves the arrays as they are.
`RunInv` provides that all of it happens before the first crash.

### Namespace

| Theorem | States | Needs |
|---|---|---|
| `TypeInvHolds`, `TypeOKHolds` | `Spec => []TypeOK` | |
| `FilesHaveBlockHolds` | `Spec => []FilesHaveBlock` | |
| `TreeInvHolds`, `UniqueNamesHolds`, `OneRootHolds` | names are unique, one document is the root | `ProperIds` |
| `AnswersMatchTreeHolds`, `MadeIsInTreeHolds`, `ListingCompleteHolds` | replies agree with the tree | `ProperIds` |
| `RootedHolds` | `Spec => []Rooted` | `ProperIds`, `OneMountPoint` |
| `ImplementsPathTreeHolds` | `Spec => ImplementsPathTree` | `ProperIds`, `OneMountPoint` |

`FilesHaveBlock` needs no more than that a `create` at its insert has linked its block
(`BlockInv`): the block is linked one step earlier for the same inode, no other step of
a `create` leads to the insert (`TargetOf`), nothing unlinks a block as far as `Namespace`
can see, and `init_db` inserts only a directory.

A walk takes a round trip for each component, and others insert entries meanwhile. That its
answer is right in the end rests on the tree only growing: what a walk has reached stays
the meaning of the part of the path it has walked (`Placed`), and the path of a new entry
cannot be one that meant something before. `TreeInv` therefore says at once that names are
unique, that only mount points are children of 0 (`RootDocs`), that nothing is the parent
of an entry before it exists (`NoStrangers`), what the kernel's directory locks keep apart
(`LocksOK`), and for each thread how far its call has come. `UniqueNames` needs the last two:
it is the call's own lookup, under the lock held since, that makes sure of the name; the
code looks once and inserts later, and no index forbids a second one. `Denotes(p)` is a
recursive function; `DenotesMeaning` unfolds it by one name, and what holds of every path
(`MeantOnce`, `MeansOne`, `AddedMeaning`) is proved by induction on its length, stated with the
set of the lengths for which it holds (`SetInduction`).

`init_db` may be cut short between its two round trips and may run again. With one mount
point the root's document then comes back with the same inode, so that all entries are
found again (`Rooted`). Started elsewhere, the daemon leaves the other root's entries in the
database, unreachable: hence `OneMountPoint`.

For the refinement, `PathTree`'s paths are those that mean something in `Namespace`, kept
over a restart. The only step that is not a stutter is `InsertMd`, and it adds one path
under an existing one.

`ProperIds` is needed. With an inode 0, or one that is a mount point's, a directory can be
its own ancestor or a second root; `namespace_inode_zero` model-checks `UniqueNames` and
`OneRoot` in that case as well, but without renames, with which they fail.

### File system

| Theorem | States | Needs |
|---|---|---|
| `JoinInvHolds`, `FilesHaveDataHolds` | files have their data in all three collections | `twice = {}` |
| `CoveredHolds` | `SpecAll => [](twice = {} => Covered)` | |
| `ListingCompleteAllHolds`, `DataReachesFileHolds` | listings and handles agree with the tree while data calls run | `ProperIds` |
| `NoOrphansHolds` | `SpecAll => []NoOrphans` | `ProperIds` |
| `HandlesServeHolds` | `SpecAll => []HandlesServe` | `ProperIds` |

The composed system is not a `BlockStore` as a whole: its `create` waits for the namespace,
and its daemon may die of either half. So its proof needs `BlockStore`'s lemmas about single
actions. `FileSystemProofs` extends `BlockStoreCoverProofs` and instantiates `FileSystem` with
its variables renamed, so that its data part has `BlockStore`'s names; `SameHelpers` and the
lemmas after it show that the steps of that part are then `BlockStore`'s. `JoinInv` relates the
halves: both run or neither does (`TogetherOK`), a `create` draws one inode for both and is at
matching round trips (`JointOK`), a file with blocks has a first one (`FirstOK`), and what a
walk found is still there when it answers (`AnswersOK`).

`JoinInvHolds`, `FilesHaveDataHolds` and `CoveredHolds` say what holds until a document is
reached through two inodes of the kernel for the first time (`twice = {}`, part of their
statements). Until then a lock of an inode is a lock of the document: `LockOfFile` proves that
of the locks and handles that `FileSystem` has, and `DataCallJoins` concludes that a data call is
let through only when `BlockStore` would let it through; both use that no file is
`Shared`. Afterwards `BlockStore`'s invariants do not hold, and not for that file alone: of two
truncates that run beside each other on one document the slower deletes blocks that the faster
one has deleted before, and if `generate_id` has drawn their ids meanwhile, those of another file.
What the runs show beyond `twice = {}` is that sizes stay covered in every other file.

`FileSystemTreeProofs` extends `NamespaceTreeProofs` instead and states all theorems in
`FileSystem`'s own names. `StepNames` shows that every step of the whole is one of `Namespace`, a
stutter of it or an end of the daemon, so `TreeInv` carries over. For `NoOrphans`, `OwnInv` says
for which inodes the data part works at all, and `FirstLife` that until the first crash every
block is claimed by an entry or by a `create` that is about to insert one, and that no entry
is unreachable. For `HandlesServe`, `SizedInv` says that a document of a file is inserted together
with its size (a `create` is at the insert only after the link of its block), and `KindsOK`, part
of `NamespaceInv`, that until the first rename what the kernel takes for a file, has open as one
or asks to open as one is a file in the documents. The handle has the kind of the request, so it
takes both: the path of the handle means one document, that one is of the handle's kind, and
it has a size. At its end the module instantiates `FileSystemProofs` with the renaming undone;
`SameSpec` shows that both renamings together change nothing, and `SameAssumptions` that what
`FileSystem` assumes of its constants is what `BlockStore` does.

The run `filesystem` and these theorems complement each other: the run has ids that are
not proper, where `DataReachesFile` and `NoOrphans` are only model-checked.

### Attributes

| Theorem | States |
|---|---|
| `EntryInvHolds`, `TypeOKHolds` | `Spec => []TypeOK` |
| `SizePresentHolds`, `WritesFindBlocksHolds`, `BlocksAgreeHolds` | the stored size and the block count agree |
| `OwnerKeptHolds`, `StatAgreesHolds` | what `stat` reports |

They hold for every even width of an int and every block size, one that does not divide the
width included, and so for 2^32 and 4096. `EntryInv` ties the size stored to the one asked
for and counts blocks as long as no size has exceeded an unsigned int. What is behind it
are facts about the two narrowing conversions, which are the lemmas at the head of
the module.

### Only model-checked

* `UniqueNames`, `OneRoot` and `NoOrphans` for ids that are not proper.
* `HandlesServe` for ids that are not proper, and `Covered` of the other files once a file has
  two inodes in the kernel.
* `EveryCallReturns`: liveness under fairness is out of the prover's reach.
* The four violations of section 3: each is one behaviour, which TLC exhibits.

## 5. Not modelled, and why

* Stubs that change nothing and that the kernel draws no conclusion from (`chmod`,
  `chown`, `utimens`, `flush`, `fsync`, `access`, extended attributes and so on), and those
  whose answer libfuse follows with a LOOKUP that finds nothing (`mknod`, `symlink`, `link`).
  `lock` and `flock` grant every lock: there is no state to model.
* `releasedir`, `copy_file_range` and `lseek`, which are not in the table of operations, and
  `read` and `write`, which libfuse passes over for `read_buf` and `write_buf`.
* `search_by_base_name`, `inode_is_parent`, `parent_dir_is_root`, `print_all_file` and
  `get_fs_data_ids`, which change nothing and which no handler calls.
* Expiry of the kernel's cached entries by time: an entry is asked for again whenever a
  program looks it up, which `BeginGetattr` may do at any time.
* Mount points whose 64-bit inode is 0 when it is cut to an int (`InodeAssumption`).
* MongoDB itself: single-document operations are atomic and acknowledged writes are
  kept. Connections that fail throw, which is `Kill`.
* Owner and group ids, printing, memory management, and the build.

## 6. Plan

Done: the data path, the namespace with the stubs that the kernel believes, both
composed, the attributes and the arithmetic of sizes; the two abstract specifications with
both refinements checked and proved; the invariants of all four models proved, and with
them every safety and action property of the passing runs.

What could follow: `UniqueNames`, `OneRoot`, `DataReachesFile` and `NoOrphans` under weaker
hypotheses than `ProperIds`, which would need a model of paths that distinguishes a
directory from one that took its inode.

------------------------- MODULE FileSystemTreeProofs -------------------------
(* The theorems about FileSystem.  When generate_id returns neither 0 nor    *)
(* the inode of a mount point, what NamespaceTreeProofs proves of the        *)
(* namespace holds of the whole daemon, every handle reaches the file it was *)
(* opened for, no block is an orphan until the daemon dies for the first     *)
(* time, and every handle is served until the kernel believes a rename.  For *)
(* any ids, what FileSystemProofs proves of files, sizes and blocks.         *)
EXTENDS FileSystemInv, NamespaceTreeProofs

-----------------------------------------------------------------------------
(* The namespace inside the file system.                                     *)

\* A step of the file system is one of the namespace, or ends the daemon in a
\* data call.
LEMMA StepNames ==
    ASSUME [NextAll]_allVars
    PROVE  [Next]_vars \/ \E cause \in {"null_ffi", "no_size", "data_call"} : Die(cause)
<1>1. CASE \E t \in Threads : NameStep(t)
  BY <1>1 DEF NameStep, Next
<1>2. CASE \E t \in Threads : BlockLinked(t) \/ FileMade(t) \/ FileClashes(t)
  BY <1>2 DEF BlockLinked, FileMade, FileClashes, Next, Step
<1>3. CASE \E t \in Threads : LinkBlock(t) \/ DataCall(t) \/ OpenTrunc(t)
  BY <1>3 DEF LinkBlock, LinkFor, DataCall, OpenTrunc, names
<1>4. CASE \E t \in Threads : SizeMissing(t) \/ TruncateByPath(t) \/ DataStep(t)
  BY <1>4 DEF SizeMissing, TruncateByPath, DataStep, names
<1>5. CASE Boot
  BY <1>5 DEF Boot, Next, Daemon
<1>6. CASE UNCHANGED allVars
  BY <1>6 DEF allVars, names
<1> QED
  BY <1>1, <1>2, <1>3, <1>4, <1>5, <1>6 DEF NextAll

\* Both invariants of the namespace hold of the file system.
LEMMA NamesInvs == ASSUME ProperIds PROVE SpecAll => [](TypeInv /\ TreeInv)
<1>1. InitAll => TypeInv /\ TreeInv
  BY InitTypes, InitTree DEF InitAll
<1>2. TypeInv /\ TreeInv /\ [NextAll]_allVars => (TypeInv /\ TreeInv)'
  <2> SUFFICES ASSUME TypeInv, TreeInv, [NextAll]_allVars PROVE TypeInv' /\ TreeInv'
    OBVIOUS
  <2>1. CASE [Next]_vars
    BY <2>1, NextTypes, NextTree
  <2>2. CASE \E cause \in {"null_ffi", "no_size", "data_call"} : Die(cause)
    BY <2>2, DieTypes, DieTree
  <2> QED
    BY <2>1, <2>2, StepNames
<1> QED
  BY <1>1, <1>2, PTL DEF SpecAll

\* The listing of a directory is complete when data calls run and end the daemon
\* too.
THEOREM ListingCompleteAllHolds == ASSUME ProperIds PROVE SpecAll => []ListingComplete
<1>1. TreeInv => ListingComplete
  BY DEF TreeInv, PlacedOK, Replies, ListingComplete, Lists
<1> QED
  BY <1>1, NamesInvs, PTL

\* A handle is open while the daemon runs only, and its path means its inode: a
\* read, a write or a truncate never reaches a file other than the one opened.
THEOREM DataReachesFileHolds == ASSUME ProperIds PROVE SpecAll => []DataReachesFile
<1>1. TypeInv /\ TreeInv => DataReachesFile
  <2> SUFFICES ASSUME TypeInv, TreeInv, NEW h \in handles PROVE Denotes(h.path) = {h.fh}
    BY DEF DataReachesFile
  <2>1. h.fh \in Denotes(h.path) /\ h.path \in Paths
    BY DEF TreeInv, HandlesOK, TypeInv, TypeOK
  <2> QED
    BY <2>1, MeansOne DEF TreeInv
<1> QED
  BY <1>1, NamesInvs, PTL
-----------------------------------------------------------------------------
(* Data calls.                                                               *)

\* What a round trip of t's data call leaves alone.
DataMoves(t) ==
    /\ \A u \in Threads \ {t} : dpc'[u] = dpc[u] /\ dcall'[u] = dcall[u]
    /\ \/ dpc[t] \notin {"idle", "reply"} /\ dpc'[t] # "idle" /\ dcall'[t] = dcall[t]
       \/ dpc'[t] = "idle" /\ dcall'[t].op = "none"
    /\ DOMAIN sizes \subseteq DOMAIN sizes'
    /\ UNCHANGED up

\* The round trip that t makes next fits the call it serves.
LEMMA TripGoes ==
    ASSUME TripsOK, NEW t \in Threads, NEW label, NEW l, Data!Goto(t, label, l),
           dpc[t] \notin {"idle", "reply"}, label # "idle",
           label \in Growing => dcall[t].op \in {"create", "write", "truncate"},
           label = "update_data" => dcall[t].op = "write",
           label = "insert_md" => dcall[t].op = "create",
           DOMAIN sizes \subseteq DOMAIN sizes', UNCHANGED <<dcall, up>>
    PROVE  TripsOK' /\ DataMoves(t)
<1>1. dpc' = [dpc EXCEPT ![t] = label]
  BY DEF Data!Goto
<1>2. dpc'[t] = label /\ \A u \in Threads \ {t} : dpc'[u] = dpc[u]
  BY <1>1 DEF TripsOK
<1>3. dpc' = [u \in Threads |-> dpc'[u]] /\ dcall' = [u \in Threads |-> dcall'[u]]
  BY <1>1 DEF TripsOK
<1>4. ASSUME NEW u \in Threads PROVE Trip(u)'
  <2>1. Trip(u) /\ Trip(t)
    BY DEF TripsOK
  <2>2. CASE u = t
    BY <1>2, <2>1, <2>2 DEF Trip
  <2>3. CASE u # t
    BY <1>2, <2>1, <2>3 DEF Trip
  <2> QED
    BY <2>2, <2>3
<1>5. TripsOK'
  BY <1>3, <1>4 DEF TripsOK
<1> QED
  BY <1>2, <1>5 DEF DataMoves

\* The same for every round trip, unless it ends the daemon.
LEMMA DataTrips ==
    ASSUME TripsOK, NEW t \in Threads, Data!Step(t), up'
    PROVE  TripsOK' /\ DataMoves(t)
<1>0. Trip(t)
  BY DEF TripsOK
<1>1. ASSUME Data!FindMdForWrite(t) \/ Data!FindMdForRead(t) \/ Data!FindMdForTruncate(t)
      PROVE  TripsOK' /\ DataMoves(t)
  <2>1. /\ dpc[t] = "find_md"  /\ UNCHANGED <<dcall, up, sizes>>
        /\ \E label, l :
              /\ Data!Goto(t, label, l)
              /\ \/ label \in {"find_lookup", "reply", "set_size", "find_ids"}
                 \/ label = "new_data" /\ dcall[t].op \in {"write", "truncate"}
    BY <1>1 DEF Data!FindMdForWrite, Data!FindMdForRead, Data!FindMdForTruncate, Data!GrowOr,
                Data!store, Data!daemon
  <2> QED
    BY <2>1, TripGoes DEF Growing
<1>2. ASSUME Data!NewData(t) \/ Data!MaxOrder(t)
      PROVE  TripsOK' /\ DataMoves(t)
  <2>1. /\ dpc[t] \in Growing  /\ UNCHANGED <<dcall, up, sizes>>
        /\ \E label, l : Data!Goto(t, label, l) /\ label \in Growing
    BY <1>2 DEF Data!NewData, Data!MaxOrder, Data!store, Data!daemon, Growing
  <2> QED
    BY <1>0, <2>1, TripGoes DEF Growing, Trip
<1>3. ASSUME Data!NewLookup(t)
      PROVE  TripsOK' /\ DataMoves(t)
  <2>1. /\ dpc[t] = "new_lookup"  /\ UNCHANGED <<dcall, up, sizes>>
        /\ \E label, l : /\ Data!Goto(t, label, l)
                         /\ label = "new_data" \/ label = Data!AfterGrowth(dcall[t].op)
    BY <1>3 DEF Data!NewLookup, Data!GrowOr, Data!daemon
  <2>2. dcall[t].op \in {"create", "write", "truncate"}
    BY <1>0, <2>1 DEF Trip, Growing
  <2>3. \/ dcall[t].op = "create" /\ Data!AfterGrowth(dcall[t].op) = "insert_md"
        \/ Data!AfterGrowth(dcall[t].op) \in {"find_lookup", "set_size"}
    BY <2>2 DEF Data!AfterGrowth
  <2> QED
    BY <2>1, <2>2, <2>3, TripGoes DEF Growing
<1>4. ASSUME Data!InsertMd(t) \/ Data!SetSize(t)
      PROVE  TripsOK' /\ DataMoves(t)
  <2>1. /\ dpc[t] \in {"insert_md", "set_size"}  /\ UNCHANGED <<dcall, up>>
        /\ \E l : Data!Goto(t, "reply", l)
        /\ DOMAIN sizes \subseteq DOMAIN sizes'
    BY <1>4 DEF Data!InsertMd, Data!SetSize, Data!daemon
  <2> QED
    BY <2>1, TripGoes DEF Growing
<1>5. ASSUME Data!FindLookup(t) \/ Data!FindDataForWrite(t) \/ Data!FindDataForRead(t)
      PROVE  TripsOK' /\ DataMoves(t)
  <2>1. /\ dpc[t] \in {"find_lookup", "find_data"}  /\ UNCHANGED <<dcall, up, sizes>>
        /\ \E label, l :
              /\ Data!Goto(t, label, l)
              /\ \/ label \in {"find_data", "find_lookup", "reply"}
                 \/ label = "update_data" /\ dcall[t].op = "write"
    BY <1>5 DEF Data!FindLookup, Data!FindDataForWrite, Data!FindDataForRead, Data!store, Data!daemon
  <2> QED
    BY <2>1, TripGoes DEF Growing
<1>6. ASSUME Data!UpdateData(t)
      PROVE  TripsOK' /\ DataMoves(t)
  <2>1. /\ dpc[t] = "update_data"  /\ UNCHANGED <<dcall, up, sizes>>
        /\ \E label, l : Data!Goto(t, label, l) /\ label \in {"find_lookup", "new_data", "set_size"}
    BY <1>6 DEF Data!UpdateData, Data!GrowOr, Data!daemon
  <2> QED
    BY <1>0, <2>1, TripGoes DEF Growing, Trip
<1>7. ASSUME Data!FindIds(t) \/ Data!DelLookup(t) \/ Data!DelData(t)
      PROVE  TripsOK' /\ DataMoves(t)
  <2>1. /\ dpc[t] \in {"find_ids", "del_lookup", "del_data"}  /\ UNCHANGED <<dcall, up, sizes>>
        /\ \E label, l : Data!Goto(t, label, l) /\ label \in {"del_lookup", "del_data", "set_size"}
    BY <1>7 DEF Data!FindIds, Data!DelLookup, Data!DelData, Data!store, Data!daemon
  <2> QED
    BY <2>1, TripGoes DEF Growing
<1>8. ASSUME Data!Reply(t)
      PROVE  TripsOK' /\ DataMoves(t)
  <2>1. /\ dpc' = [dpc EXCEPT ![t] = "idle"]  /\ dcall' = [dcall EXCEPT ![t] = Data!NoCall]
        /\ UNCHANGED <<sizes, up>>
    BY <1>8 DEF Data!Reply, Data!Goto, Data!store, Data!daemon
  <2>2. /\ dpc' = [u \in Threads |-> dpc'[u]]  /\ dcall' = [u \in Threads |-> dcall'[u]]
        /\ dpc'[t] = "idle"  /\ dcall'[t].op = "none"
        /\ \A u \in Threads \ {t} : dpc'[u] = dpc[u] /\ dcall'[u] = dcall[u]
    BY <2>1 DEF TripsOK, Data!NoCall
  <2>3. TripsOK'
    BY <2>1, <2>2 DEF TripsOK, Trip, Growing
  <2> QED
    BY <2>1, <2>2, <2>3 DEF DataMoves
<1>9. ~(Data!PipeFails(t) \/ Data!NewDataClash(t) \/ Data!InsertMdClash(t)
        \/ Data!FindLookupFails(t) \/ Data!FindDataFails(t))
  BY DEF Data!PipeFails, Data!NewDataClash, Data!InsertMdClash, Data!FindLookupFails,
         Data!FindDataFails, Data!Abort, Data!Die
<1> QED
  BY <1>1, <1>2, <1>3, <1>4, <1>5, <1>6, <1>7, <1>8, <1>9 DEF Data!Step

\* fs_lookup grows by the link of a block alone, and sizes by an insert; the
\* daemon goes on or dies.
LEMMA DataAdds ==
    ASSUME NEW t \in Threads, Data!Step(t)
    PROVE  /\ lookup' \subseteq lookup \/ Data!NewLookup(t)
           /\ DOMAIN sizes' \subseteq DOMAIN sizes \/ Data!InsertMd(t)
           /\ dpc[t] # "idle"  /\ UNCHANGED mounts
           /\ UNCHANGED up \/ Data!Die
<1>1. Data!NewLookup(t) => dpc[t] # "idle" /\ UNCHANGED <<sizes, mounts, up>>
  BY DEF Data!NewLookup, Data!daemon
<1>2. Data!InsertMd(t) => dpc[t] # "idle" /\ UNCHANGED <<lookup, mounts, up>>
  BY DEF Data!InsertMd, Data!daemon
<1>3. CASE \/ Data!FindMdForWrite(t) \/ Data!FindMdForRead(t) \/ Data!FindMdForTruncate(t)
           \/ Data!NewData(t) \/ Data!MaxOrder(t) \/ Data!FindLookup(t) \/ Data!FindDataForWrite(t)
           \/ Data!FindDataForRead(t) \/ Data!UpdateData(t) \/ Data!FindIds(t) \/ Data!DelData(t)
           \/ Data!Reply(t)
  BY <1>3 DEF Data!FindMdForWrite, Data!FindMdForRead, Data!FindMdForTruncate, Data!NewData,
       Data!MaxOrder, Data!FindLookup, Data!FindDataForWrite, Data!FindDataForRead, Data!UpdateData,
       Data!FindIds, Data!DelData, Data!Reply, Data!store, Data!daemon
<1>4. CASE Data!SetSize(t) \/ Data!DelLookup(t)
  BY <1>4 DEF Data!SetSize, Data!DelLookup, Data!daemon
<1>5. CASE \/ Data!PipeFails(t) \/ Data!NewDataClash(t) \/ Data!InsertMdClash(t)
           \/ Data!FindLookupFails(t) \/ Data!FindDataFails(t)
  BY <1>5 DEF Data!PipeFails, Data!NewDataClash, Data!InsertMdClash, Data!FindLookupFails,
         Data!FindDataFails, Data!Abort, Data!Die, Data!store
<1> QED
  BY <1>1, <1>2, <1>3, <1>4, <1>5 DEF Data!Step


-----------------------------------------------------------------------------
(* Who owns the blocks.                                                      *)

\* A step of the namespace ends the daemon or is that of one thread.
LEMMA NamesMove ==
    ASSUME TypeInv, NEW t \in Threads, Start(t) \/ Step(t)
    PROVE  /\ stage = "up"
           /\ \/ \E cause : Die(cause)
              \/ /\ UNCHANGED <<stage, root, mounts>>
                 /\ \A u \in Threads \ {t} : pc'[u] = pc[u] /\ loc'[u] = loc[u]
<1>1. ASSUME \E label, l : Goto(t, label, l) PROVE \A u \in Threads \ {t} : pc'[u] = pc[u] /\ loc'[u] = loc[u]
  BY <1>1 DEF Goto, TypeInv, TypeOK
<1>2. CASE Start(t)
  <2>1. stage = "up" /\ UNCHANGED daemon
    BY <1>2 DEF Start, BeginGetattr, BeginMake, BeginOpen, BeginFgetattr, BeginReaddir, Begin, Unlink, Rename,
                TypeInv, TypeOK
  <2>2. UNCHANGED <<pc, loc>> \/ \E label, l : Goto(t, label, l)
    BY <1>2 DEF Start, BeginGetattr, BeginMake, BeginOpen, BeginFgetattr, BeginReaddir, Walk, Unlink, Rename
  <2> QED
    BY <1>1, <2>1, <2>2 DEF daemon
<1>3. CASE Step(t)
  <2>1. pc[t] # "idle"
    BY <1>3 DEF Step, WalkStep, WalkFails, FindChild, FindRoot, SearchByInode, Make, InsertBlock, InsertMd,
                InsertMdClash, ListChildren, ListFails, Reply
  <2>2. stage = "up"
    BY <2>1 DEF TypeInv, ControlOK, ControlAt
  <2>3. \/ \E cause : Die(cause)
        \/ UNCHANGED daemon /\ \E label, l : Goto(t, label, l)
    BY <1>3 DEF Step, WalkStep, WalkFails, FindChild, FindRoot, SearchByInode, Make, InsertBlock, InsertMd,
                InsertMdClash, ListChildren, ListFails, Reply, Answer, Confirm, Walk
  <2> QED
    BY <1>1, <2>2, <2>3 DEF daemon
<1> QED
  BY <1>2, <1>3

\* fs_metadata only grows while requests are served.
LEMMA NamesGrow ==
    ASSUME NEW t \in Threads, Start(t) \/ Step(t)
    PROVE  DOMAIN md \subseteq DOMAIN md'
<1>1. CASE InsertMd(t)
  BY <1>1 DEF InsertMd, Add
<1> QED
  BY <1>1, StepSame

\* Both halves of the daemon die.
LEMMA OwnDies ==
    ASSUME OwnInv, NEW cause, Die(cause), Data!Die
    PROVE  OwnInv'
<1>1. TogetherOK'
  BY DEF Die, Data!Die, TogetherOK
<1>2. TripsOK'
  BY DEF Data!Die, Data!store, Data!NoCall, TripsOK, Trip, Growing
<1>3. LinksOK'
  BY DEF Die, Data!Die, Data!NoCall, LinksOK, Link
<1> QED
  BY <1>1, <1>2, <1>3 DEF OwnInv, Die, Data!Die, database, Data!store

\* A step of a handler that touches no block.
LEMMA NameStepOwn ==
    ASSUME TypeInv, OwnInv, NEW t \in Threads, NameStep(t)
    PROVE  OwnInv'
<1>1. Start(t) \/ Step(t)
  BY DEF NameStep
<1>2. CASE stage' # "up"
  <2>1. \E cause : Die(cause)
    BY <1>1, <1>2, NamesMove
  <2> QED
    BY <1>2, <2>1, OwnDies DEF NameStep, DataDies
<1>3. CASE stage' = "up"
  <2>1. UNCHANGED <<sizes, up, dpc, dcall>> /\ dpc[t] = "idle"
    BY <1>3 DEF NameStep, storage
  <2>2. stage = "up" /\ \A u \in Threads \ {t} : pc'[u] = pc[u] /\ loc'[u] = loc[u]
    BY <1>1, <1>3, NamesMove DEF Die
  <2>3. TogetherOK'
    BY <1>3, <2>1, <2>2 DEF OwnInv, TogetherOK
  <2>4. TripsOK'
    BY <2>1 DEF OwnInv, TripsOK, Trip
  <2>5. ASSUME NEW u \in Threads PROVE Link(u)'
    <3>1. CASE u = t
      BY <2>1, <3>1 DEF OwnInv, TripsOK, Trip, Link
    <3>2. CASE u # t
      BY <2>1, <2>2, <3>2 DEF OwnInv, LinksOK, Link
    <3> QED
      BY <3>1, <3>2
  <2> QED
    BY <1>1, <2>1, <2>3, <2>4, <2>5, NamesGrow DEF OwnInv, LinksOK
<1> QED
  BY <1>2, <1>3

\* A request that reaches the data path: a data call, or the link of a create.
LEMMA RequestOwn ==
    ASSUME OwnInv, NEW t \in Threads, UNCHANGED names, dpc[t] = "idle",
           NEW label, NEW c, NEW n, Data!Begin(t, label, c, n), label \in {"find_md", "new_data"},
           \/ label = "find_md" /\ pc[t] = "idle" /\ c.op \in {"write", "read", "truncate"}
              /\ c.inode \in DOMAIN sizes
           \/ label = "new_data" /\ c.op = "create" /\ c.inode = loc[t].ino
    PROVE  OwnInv'
<1>1. /\ UNCHANGED <<sizes, up>>  /\ up
      /\ dcall' = [dcall EXCEPT ![t] = c]  /\ dpc' = [dpc EXCEPT ![t] = label]
      /\ UNCHANGED <<md, stage, handles, pc, loc>>
  BY DEF Data!Begin, Data!Goto, Data!store, Data!daemon, names, vars
<1>2. /\ dpc' = [u \in Threads |-> dpc'[u]]  /\ dcall' = [u \in Threads |-> dcall'[u]]
      /\ dpc'[t] = label  /\ dcall'[t] = c
      /\ \A u \in Threads \ {t} : dpc'[u] = dpc[u] /\ dcall'[u] = dcall[u]
  BY <1>1 DEF OwnInv, TripsOK
<1>3. TogetherOK'
  BY <1>1 DEF OwnInv, TogetherOK
<1>4. ASSUME NEW u \in Threads PROVE Trip(u)' /\ Link(u)'
  <2>1. CASE u = t
    BY <1>1, <1>2, <2>1 DEF Trip, Link, Growing
  <2>2. CASE u # t
    BY <1>1, <1>2, <2>2 DEF OwnInv, TripsOK, LinksOK, Trip, Link
  <2> QED
    BY <2>1, <2>2
<1> QED
  BY <1>1, <1>2, <1>3, <1>4 DEF OwnInv, TripsOK, LinksOK

\* create links a block, and data requests.
LEMMA RequestsOwn ==
    ASSUME OwnInv, NEW t \in Threads, LinkBlock(t) \/ DataCall(t)
    PROVE  OwnInv'
<1>1. CASE LinkBlock(t)
  <2> DEFINE c == [Data!NoCall EXCEPT !.op = "create", !.inode = loc[t].ino]
  <2>1. UNCHANGED names /\ dpc[t] = "idle" /\ Data!Begin(t, "new_data", c, 1)
    BY <1>1 DEF LinkBlock, LinkFor
  <2>2. c.op = "create" /\ c.inode = loc[t].ino
    BY DEF Data!NoCall
  <2> HIDE DEF c
  <2> QED
    BY <2>1, <2>2, RequestOwn
<1>2. CASE DataCall(t)
  <2>1. UNCHANGED names /\ dpc[t] = "idle" /\ pc[t] = "idle"
    BY <1>2 DEF DataCall, Idle
  <2>2. PICK h \in handles :
            /\ h.fh \in DOMAIN sizes
            /\ \/ Data!SendRead(t, h.fh, {off \in Offsets : off < isize[h.fh] \/ h.fh \in twice})
               \/ Data!SendWrite(t, h.fh)  \/ Data!SendTruncate(t, h.fh)
    BY <1>2 DEF DataCall
  <2>3. PICK i \in DOMAIN sizes : i = h.fh
    BY <2>2
  <2>4. CASE Data!SendWrite(t, h.fh)
    <3>1. PICK off, bufs :
               Data!Begin(t, "find_md", [Data!NoCall EXCEPT !.op = "write", !.inode = i, !.off = off, !.bufs = bufs], 0)
      BY <2>3, <2>4 DEF Data!SendWrite
    <3>2. PICK c : c = [Data!NoCall EXCEPT !.op = "write", !.inode = i, !.off = off, !.bufs = bufs]
      OBVIOUS
    <3>3. c.op = "write" /\ c.inode = i
      BY <3>2 DEF Data!NoCall
    <3> QED
      BY <2>1, <3>1, <3>2, <3>3, RequestOwn
  <2>5. CASE Data!SendRead(t, h.fh, {off \in Offsets : off < isize[h.fh] \/ h.fh \in twice})
    <3>1. PICK off, n :
               Data!Begin(t, "find_md", [Data!NoCall EXCEPT !.op = "read", !.inode = i, !.off = off, !.size = n], 0)
      BY <2>3, <2>5 DEF Data!SendRead
    <3>2. PICK c : c = [Data!NoCall EXCEPT !.op = "read", !.inode = i, !.off = off, !.size = n]
      OBVIOUS
    <3>3. c.op = "read" /\ c.inode = i
      BY <3>2 DEF Data!NoCall
    <3> QED
      BY <2>1, <3>1, <3>2, <3>3, RequestOwn
  <2>6. CASE Data!SendTruncate(t, h.fh)
    <3>1. PICK n :
               Data!Begin(t, "find_md", [Data!NoCall EXCEPT !.op = "truncate", !.inode = i, !.size = n], 0)
      BY <2>3, <2>6 DEF Data!SendTruncate
    <3>2. PICK c : c = [Data!NoCall EXCEPT !.op = "truncate", !.inode = i, !.size = n]
      OBVIOUS
    <3>3. c.op = "truncate" /\ c.inode = i
      BY <3>2 DEF Data!NoCall
    <3> QED
      BY <2>1, <3>1, <3>2, <3>3, RequestOwn
  <2> QED
    BY <2>2, <2>4, <2>5, <2>6
<1> QED
  BY <1>1, <1>2


\* A round trip of a data call: the thread's part of the namespace stays.
LEMMA MovesOwn ==
    ASSUME OwnInv, NEW t \in Threads, DataMoves(t), TripsOK', up', DOMAIN sizes' \subseteq DOMAIN md',
           UNCHANGED stage, dpc[t] # "idle",
           \A u \in Threads : /\ loc'[u].ino = loc[u].ino
                              /\ pc'[u] = pc[u] \/ (u = t /\ dpc'[t] # "idle" /\ dcall[t].op = "create")
    PROVE  OwnInv'
<1>1. TogetherOK'
  BY DEF OwnInv, TogetherOK, DataMoves
<1>2. ASSUME NEW u \in Threads PROVE Link(u)'
  <2>1. Link(u) /\ Link(t)
    BY DEF OwnInv, LinksOK
  <2>2. CASE u = t
    BY <2>1, <2>2 DEF Link, DataMoves, TripsOK, Trip
  <2>3. CASE u # t
    BY <2>1, <2>3 DEF Link, DataMoves
  <2> QED
    BY <2>2, <2>3
<1> QED
  BY <1>1, <1>2 DEF OwnInv, LinksOK

\* A round trip of a data call, or of the link of a create but its last.
LEMMA DataStepOwn ==
    ASSUME OwnInv, NEW t \in Threads, DataStep(t)
    PROVE  OwnInv'
<1>1. /\ Data!Step(t)  /\ dpc[t] # "idle"  /\ (UNCHANGED up \/ Data!Die)
      /\ DOMAIN sizes' \subseteq DOMAIN sizes
  BY DataAdds DEF DataStep, Data!InsertMd
<1>2. up
  BY <1>1 DEF OwnInv, TogetherOK
<1>3. CASE up'
  <2>1. UNCHANGED <<md, stage, pc, loc>>
    BY <1>3 DEF DataStep, names, vars
  <2>2. TripsOK' /\ DataMoves(t)
    BY <1>1, <1>3, DataTrips DEF OwnInv
  <2> QED
    BY <1>1, <1>3, <2>1, <2>2, MovesOwn DEF OwnInv
<1>4. CASE ~up'
  BY <1>1, <1>2, <1>4, OwnDies DEF DataStep
<1> QED
  BY <1>3, <1>4

\* The block of a create is linked, and its document inserted or refused.
LEMMA JointOwn ==
    ASSUME TypeInv, OwnInv, NEW t \in Threads, BlockLinked(t) \/ FileMade(t) \/ FileClashes(t)
    PROVE  OwnInv'
<1>0. \A u \in Threads : DOMAIN loc[u] = {"phase", "cur", "k", "ino", "fh", "ans", "names"}
  BY DEF TypeInv, TypeOK
<1>1. CASE BlockLinked(t)
  <2>1. /\ UNCHANGED <<md, stage>>  /\ dpc[t] # "idle"
        /\ pc' = [pc EXCEPT ![t] = "insert_md"]  /\ loc' = [loc EXCEPT ![t] = loc[t]]
        /\ UNCHANGED <<sizes, up>>
    BY <1>1 DEF BlockLinked, InsertBlock, Goto, daemon, Data!NewLookup, Data!daemon
  <2>2. Data!Step(t) /\ up
    BY <1>1, <2>1 DEF BlockLinked, Data!Step, OwnInv, TogetherOK
  <2>3. TripsOK' /\ DataMoves(t)
    BY <2>1, <2>2, DataTrips DEF OwnInv
  <2>4. dpc'[t] # "idle"
    <3>1. dpc[t] = "new_lookup" /\ UNCHANGED dcall
      BY <1>1 DEF BlockLinked, Data!NewLookup
    <3> QED
      BY <2>3, <3>1 DEF DataMoves, OwnInv, TripsOK, Trip, Growing
  <2>5. dcall[t].op = "create"
    BY <1>1, <2>1 DEF BlockLinked, InsertBlock, OwnInv, LinksOK, Link
  <2> QED
    BY <2>1, <2>2, <2>3, <2>4, <2>5, MovesOwn DEF OwnInv, TypeInv, TypeOK
<1>2. CASE FileMade(t)
  <2>1. /\ UNCHANGED stage  /\ dpc[t] = "insert_md"  /\ UNCHANGED up
        /\ DOMAIN md' = DOMAIN md \cup {loc[t].ino}
        /\ DOMAIN sizes' = DOMAIN sizes \cup {dcall[t].inode}
    BY <1>2 DEF FileMade, InsertMd, Add, daemon, Data!InsertMd, Data!daemon
  <2>2. Data!Step(t) /\ up
    BY <1>2, <2>1 DEF FileMade, Data!Step, OwnInv, TogetherOK
  <2>3. TripsOK' /\ DataMoves(t)
    BY <2>1, <2>2, DataTrips DEF OwnInv
  <2>4. dpc'[t] = "reply"
    BY <1>2 DEF FileMade, Data!InsertMd, Data!Goto, OwnInv, TripsOK
  <2>5. dcall[t].inode = loc[t].ino /\ dcall[t].op = "create"
    BY <2>1 DEF OwnInv, TripsOK, Trip, LinksOK, Link
  <2>6. \E label, l : Goto(t, label, l) /\ l.ino = loc[t].ino
    <3>1. PICK l : l = [loc[t] EXCEPT !.phase = "confirm"]
      OBVIOUS
    <3>2. DOMAIN l = DOMAIN loc[t] /\ l.ino = loc[t].ino
      BY <1>0, <3>1
    <3>3. Goto(t, "search", l) \/ Walk(t, "mkdir", call[t].path, l)
      BY <1>2, <3>1 DEF FileMade, InsertMd, Confirm
    <3>4. ASSUME Walk(t, "mkdir", call[t].path, l)
          PROVE  \E label, m : Goto(t, label, m) /\ m.ino = loc[t].ino
      <4>1. PICK cur : \E label : Goto(t, label, [l EXCEPT !.cur = cur, !.k = 1])
        BY <3>4 DEF Walk
      <4>2. PICK m : m = [l EXCEPT !.cur = cur, !.k = 1]
        OBVIOUS
      <4>3. m.ino = loc[t].ino
        BY <1>0, <3>2, <4>2
      <4> QED
        BY <4>1, <4>2, <4>3
    <3> QED
      BY <3>2, <3>3, <3>4
  <2>7. /\ \A u \in Threads : loc'[u].ino = loc[u].ino
        /\ \A u \in Threads \ {t} : pc'[u] = pc[u]
    BY <2>6 DEF Goto, TypeInv, TypeOK
  <2> QED
    BY <2>1, <2>2, <2>3, <2>4, <2>5, <2>7, MovesOwn DEF OwnInv
<1>3. CASE FileClashes(t)
  BY <1>3, OwnDies DEF FileClashes, InsertMdClash, Data!Abort
<1> QED
  BY <1>1, <1>2, <1>3

\* init_db, the kill and the mount.
LEMMA BootOwn ==
    ASSUME OwnInv, Boot
    PROVE  OwnInv'
<1>0. TogetherOK /\ TripsOK /\ LinksOK
  BY DEF OwnInv
<1>1. CASE RemoveRoot /\ sizes' = [i \in DOMAIN sizes \cap DOMAIN md' |-> sizes[i]] /\ UNCHANGED <<up, dpc, dcall>>
  <2>1. /\ stage = "remove_root"  /\ stage' = "insert_root"  /\ UNCHANGED <<handles, pc, loc>>
        /\ UNCHANGED <<up, dpc, dcall>>  /\ DOMAIN sizes' \subseteq DOMAIN md'
    BY <1>1 DEF RemoveRoot, kernel
  <2>2. \A t \in Threads : dpc[t] = "idle" /\ pc[t] = "idle"
    BY <1>0, <2>1 DEF TogetherOK
  <2>3. TogetherOK'
    BY <1>0, <2>1, <2>2 DEF TogetherOK
  <2>4. TripsOK' /\ LinksOK'
    BY <1>0, <2>1, <2>2 DEF TripsOK, LinksOK, Trip, Link, Growing
  <2> QED
    BY <2>1, <2>3, <2>4 DEF OwnInv
<1>2. CASE InsertRoot /\ up' = TRUE /\ UNCHANGED <<sizes, dpc, dcall>>
  <2>1. /\ stage' = "up"  /\ UNCHANGED <<pc, loc>>  /\ DOMAIN md \subseteq DOMAIN md'
        /\ up' = TRUE  /\ UNCHANGED <<sizes, dpc, dcall>>
    BY <1>2 DEF InsertRoot, Add
  <2>2. TogetherOK'
    BY <2>1 DEF TogetherOK
  <2>3. TripsOK' /\ LinksOK'
    BY <1>0, <2>1 DEF TripsOK, LinksOK, Trip, Link
  <2> QED
    BY <2>1, <2>2, <2>3 DEF OwnInv
<1>3. CASE (InsertRootFails \/ Kill) /\ DataDies
  BY <1>3, OwnDies DEF InsertRootFails, Kill, DataDies
<1>4. CASE Mount /\ UNCHANGED storage
  <2>1. /\ stage = "down"  /\ stage' = "remove_root"  /\ UNCHANGED <<md, handles, pc, loc>>
        /\ UNCHANGED <<up, sizes, dpc, dcall>>
    BY <1>4 DEF Mount, database, kernel, storage
  <2>2. TogetherOK'
    BY <1>0, <2>1 DEF TogetherOK
  <2>3. TripsOK' /\ LinksOK'
    BY <1>0, <2>1 DEF TripsOK, LinksOK, Trip, Link
  <2> QED
    BY <2>1, <2>2, <2>3 DEF OwnInv
<1> QED
  BY <1>1, <1>2, <1>3, <1>4 DEF Boot


\* Every step of the file system.
LEMMA NextOwn ==
    ASSUME TypeInv, OwnInv, [NextAll]_allVars
    PROVE  OwnInv'
<1>1. CASE \E t \in Threads : NameStep(t)
  BY <1>1, NameStepOwn
<1>2. CASE \E t \in Threads : LinkBlock(t) \/ DataCall(t)
  BY <1>2, RequestsOwn
<1>3. CASE \E t \in Threads : BlockLinked(t) \/ FileMade(t) \/ FileClashes(t)
  BY <1>3, JointOwn
<1>4. CASE \E t \in Threads : DataStep(t)
  BY <1>4, DataStepOwn
<1>5. CASE \E t \in Threads : SizeMissing(t) \/ TruncateByPath(t)
  BY <1>5, OwnDies DEF SizeMissing, TruncateByPath, DataDies
<1>6. CASE (\E t \in Threads : OpenTrunc(t)) \/ UNCHANGED allVars
  <2>1. UNCHANGED <<md, stage, handles, pc, loc, sizes, up, dpc, dcall>>
    BY <1>6 DEF OpenTrunc, Data!OpenTrunc, Data!store, Data!daemon, Data!threads, allVars, names, vars, storage
  <2>2. TogetherOK'
    BY <2>1 DEF OwnInv, TogetherOK
  <2>3. TripsOK' /\ LinksOK'
    BY <2>1 DEF OwnInv, TripsOK, LinksOK, Trip, Link
  <2> QED
    BY <2>1, <2>2, <2>3 DEF OwnInv
<1>7. CASE Boot
  BY <1>7, BootOwn
<1> QED
  BY <1>1, <1>2, <1>3, <1>4, <1>5, <1>6, <1>7 DEF NextAll

\* At the start there is nothing to own.
LEMMA InitOwn == InitAll => OwnInv
<1> SUFFICES ASSUME InitAll PROVE OwnInv
  OBVIOUS
<1>1. TogetherOK
  BY DEF InitAll, Init, TogetherOK
<1>2. TripsOK /\ LinksOK
  BY DEF InitAll, Init, TripsOK, LinksOK, Trip, Link, Growing, Data!NoCall
<1> QED
  BY <1>1, <1>2 DEF InitAll, OwnInv

\* While the daemon runs for the first time every block that is there before a
\* step belongs to somebody after it.
LEMMA ClaimKept ==
    ASSUME TypeInv, OwnInv, NEW t \in Threads, Start(t) \/ Step(t), stage' = "up", NEW e, Claimed(e)
    PROVE  Claimed(e)'
<1>1. CASE e.inode \in DOMAIN md
  BY <1>1, NamesGrow DEF Claimed
<1>2. CASE \E u \in Threads : pc[u] = "insert_md" /\ loc[u].ino = e.inode
  <2>1. PICK u \in Threads : pc[u] = "insert_md" /\ loc[u].ino = e.inode
    BY <1>2
  <2>2. CASE u # t
    <3>1. pc'[u] = pc[u] /\ loc'[u] = loc[u]
      BY <2>2, NamesMove DEF Die
    <3> QED
      BY <2>1, <3>1 DEF Claimed
  <2>3. CASE u = t
    <3>1. Step(t) \/ UNCHANGED <<pc, loc>>
      BY <2>1, <2>3 DEF Start, BeginGetattr, BeginMake, BeginOpen, BeginFgetattr, BeginReaddir, Begin,
                        Unlink, Rename
    <3>2. CASE Step(t)
      <4>1. InsertMd(t)
        BY <2>1, <2>3, <3>2 DEF Step, WalkStep, WalkFails, FindChild, FindRoot, SearchByInode, Make, InsertBlock,
                 InsertMdClash, ListChildren, ListFails, Reply, Die
      <4> QED
        BY <2>1, <2>3, <4>1 DEF InsertMd, Add, Claimed
    <3>3. CASE UNCHANGED <<pc, loc>>
      BY <2>1, <3>3 DEF Claimed
    <3> QED
      BY <3>1, <3>2, <3>3
  <2> QED
    BY <2>2, <2>3
<1> QED
  BY <1>1, <1>2 DEF Claimed

\* A step of the namespace while requests are served strands nothing.
LEMMA RootedKept ==
    ASSUME ProperIds, TypeInv, TreeInv, NEW t \in Threads, Start(t) \/ Step(t), Rooted
    PROVE  Rooted'
<1>1. CASE ~InsertMd(t)
  BY <1>1, StepSame, MeaningKept DEF Rooted
<1>2. CASE InsertMd(t)
  <2>0. PICK i, cur, q, kind : Inserted(t, i, cur, q, kind)
    BY <1>2, InsertMeaning
  <2>1. /\ \A p \in Paths \ {q} : Denotes(p)' = Denotes(p)
        /\ Denotes(q) = {}  /\ Denotes(q)' = {i}  /\ q \in Paths
        /\ Add(i, [parent |-> cur, name |-> Last(q), kind |-> kind])
    BY <2>0 DEF Inserted
  <2>2. DOMAIN md' = DOMAIN md \cup {i}
    BY <2>1 DEF Add
  <2> QED
    BY <2>1, <2>2 DEF Rooted
<1> QED
  BY <1>1, <1>2

\* A data call adds blocks to files only.
LEMMA DataStepClaims ==
    ASSUME OwnInv, NEW t \in Threads, DataStep(t), UNCHANGED names, \A e \in lookup : Claimed(e)
    PROVE  \A e \in lookup' : Claimed(e)'
<1>1. UNCHANGED <<md, pc, loc>>
  BY DEF names, vars
<1>2. \A e : Claimed(e) => Claimed(e)'
  BY <1>1 DEF Claimed
<1>3. ASSUME Data!NewLookup(t), NEW e \in lookup' PROVE Claimed(e)
  <2>1. /\ dpc[t] = "new_lookup"  /\ dcall[t].op # "create"
        /\ lookup' = lookup \cup {[inode |-> dcall[t].inode, order |-> dloc[t].order, id |-> dloc[t].id]}
    BY <1>3 DEF DataStep, Data!NewLookup
  <2>2. dcall[t].inode \in DOMAIN md
    BY <2>1 DEF OwnInv, TripsOK, Trip
  <2> QED
    BY <1>3, <2>1, <2>2 DEF Claimed
<1> QED
  BY <1>2, <1>3, DataAdds DEF DataStep

\* The link of a create adds a block that the create claims.
LEMMA LinkedClaims ==
    ASSUME TypeInv, OwnInv, NEW t \in Threads, BlockLinked(t), \A e \in lookup : Claimed(e)
    PROVE  \A e \in lookup' : Claimed(e)'
<1>1. /\ pc[t] = "insert_block"  /\ UNCHANGED stage
      /\ pc' = [pc EXCEPT ![t] = "insert_md"]  /\ loc' = [loc EXCEPT ![t] = loc[t]]
      /\ dpc[t] = "new_lookup"
      /\ lookup' = lookup \cup {[inode |-> dcall[t].inode, order |-> dloc[t].order, id |-> dloc[t].id]}
  BY DEF BlockLinked, InsertBlock, Goto, daemon, Data!NewLookup
<1>2. dcall[t].inode = loc[t].ino
  BY <1>1 DEF OwnInv, LinksOK, Link
<1>3. pc'[t] = "insert_md" /\ loc'[t] = loc[t]
  BY <1>1 DEF TypeInv, TypeOK
<1>4. Step(t) /\ stage = "up"
  BY <1>1 DEF BlockLinked, Step, TypeInv, ControlOK, ControlAt
<1>5. \A e \in lookup : Claimed(e)'
  BY <1>1, <1>4, ClaimKept
<1>6. ASSUME NEW e \in lookup', e \notin lookup PROVE Claimed(e)'
  <2>1. e.inode = loc'[t].ino
    BY <1>1, <1>2, <1>3, <1>6
  <2> QED
    BY <1>3, <2>1 DEF Claimed
<1> QED
  BY <1>5, <1>6


\* Every step keeps it.
LEMMA NextFirstLife ==
    ASSUME ProperIds, TypeInv, TreeInv, OwnInv, FirstLife, [NextAll]_allVars
    PROVE  FirstLife'
<1>0. mounts \in Nat /\ mounts >= 1
  BY DEF TypeInv, TypeOK, FirstLife
<1>1. ASSUME NEW cause, Die(cause) PROVE FirstLife'
  BY <1>0, <1>1 DEF Die, FirstLife
<1>2. ASSUME UNCHANGED <<stage, mounts>>, stage = "up",
             Rooted => Rooted', (\A e \in lookup : Claimed(e)) => \A e \in lookup' : Claimed(e)'
      PROVE  FirstLife'
  BY <1>2 DEF FirstLife
<1>3. ASSUME UNCHANGED names, UNCHANGED lookup PROVE FirstLife'
  <2>1. UNCHANGED <<md, root, mounts, stage, pc, loc>>
    BY <1>3 DEF names, vars
  <2>2. Rooted => Rooted'
    BY <2>1, MeaningKept DEF Rooted
  <2>3. \A e : Claimed(e) => Claimed(e)'
    BY <2>1 DEF Claimed
  <2> QED
    BY <1>3, <2>1, <2>2, <2>3 DEF FirstLife
<1>4. ASSUME NEW t \in Threads, NameStep(t) \/ FileMade(t) PROVE FirstLife'
  <2>1. Start(t) \/ Step(t)
    BY <1>4 DEF NameStep, FileMade, Step
  <2>2. CASE \E cause : Die(cause)
    BY <1>1, <2>2
  <2>3. CASE stage' = "up" /\ UNCHANGED <<stage, mounts>>
    <3>1. UNCHANGED lookup
      BY <1>4, <2>3 DEF NameStep, FileMade, storage, Data!InsertMd
    <3>2. \A e : Claimed(e) => Claimed(e)'
      BY <2>1, <2>3, ClaimKept
    <3> QED
      BY <1>2, <2>1, <2>3, <3>1, <3>2, RootedKept
  <2> QED
    BY <2>1, <2>2, <2>3, NamesMove
<1>5. ASSUME NEW t \in Threads, BlockLinked(t) PROVE FirstLife'
  <2>1. Step(t) /\ UNCHANGED <<stage, mounts>>
    BY <1>5 DEF BlockLinked, Step, InsertBlock, daemon
  <2> QED
    BY <1>2, <1>5, <2>1, NamesMove, RootedKept, LinkedClaims
<1>6. ASSUME NEW t \in Threads, FileClashes(t) \/ SizeMissing(t) \/ TruncateByPath(t) PROVE FirstLife'
  BY <1>1, <1>6 DEF FileClashes, InsertMdClash, SizeMissing, TruncateByPath
<1>7. ASSUME NEW t \in Threads, LinkBlock(t) \/ DataCall(t) \/ OpenTrunc(t) PROVE FirstLife'
  BY <1>3, <1>7 DEF LinkBlock, LinkFor, DataCall, OpenTrunc, Data!Begin, Data!SendWrite, Data!SendRead,
                    Data!SendTruncate, Data!OpenTrunc, Data!store
<1>8. ASSUME NEW t \in Threads, DataStep(t) PROVE FirstLife'
  <2>1. UNCHANGED names \/ Die("data_call")
    BY <1>8 DEF DataStep
  <2>2. CASE UNCHANGED names
    <3>1. dpc[t] # "idle"
      BY <1>8, DataAdds DEF DataStep
    <3>2. stage = "up" /\ UNCHANGED <<md, root, mounts, stage>>
      BY <2>2, <3>1 DEF OwnInv, TogetherOK, names, vars
    <3>3. Rooted => Rooted'
      BY <3>2, MeaningKept DEF Rooted
    <3> QED
      BY <1>2, <1>8, <2>2, <3>2, <3>3, DataStepClaims
  <2> QED
    BY <1>1, <2>1, <2>2
<1>9. ASSUME Boot PROVE FirstLife'
  <2>1. CASE RemoveRoot /\ UNCHANGED lookup
    <3>1. /\ stage = "remove_root"  /\ stage' = "insert_root"  /\ UNCHANGED mounts
          /\ DOMAIN md' \subseteq DOMAIN md
      BY <2>1 DEF RemoveRoot
    <3> QED
      BY <2>1, <3>1 DEF FirstLife
  <2>2. CASE InsertRoot /\ UNCHANGED lookup
    <3>1. /\ stage = "insert_root"  /\ stage' = "up"  /\ UNCHANGED <<mounts, root>>
          /\ DOMAIN md' = DOMAIN md \cup {root}
      BY <2>2 DEF InsertRoot, Add
    <3>2. root \in Denotes(<<>>)' /\ <<>> \in Paths
      BY <3>1, DenotesMeaningNext, EmptyIsPath DEF Meaning
    <3>3. mounts = 1 => Rooted'
      BY <3>1, <3>2 DEF FirstLife, Rooted
    <3> QED
      BY <2>2, <3>1, <3>3 DEF FirstLife
  <2>3. CASE InsertRootFails \/ Kill
    BY <1>1, <2>3 DEF InsertRootFails, Kill
  <2>4. CASE Mount
    BY <1>0, <2>4 DEF Mount, FirstLife
  <2> QED
    BY <1>9, <2>1, <2>2, <2>3, <2>4 DEF Boot
<1> QED
  BY <1>3, <1>4, <1>5, <1>6, <1>7, <1>8, <1>9 DEF NextAll, allVars, storage

-----------------------------------------------------------------------------
\* Until the daemon dies for the first time every block belongs to a file of the
\* tree or to a create that will make it one.
THEOREM NoOrphansHolds == ASSUME ProperIds PROVE SpecAll => []NoOrphans
<1>1. InitAll => OwnInv /\ FirstLife
  BY InitOwn DEF InitAll, Init, FirstLife
<1>2. TypeInv /\ TreeInv /\ OwnInv /\ FirstLife /\ [NextAll]_allVars => OwnInv' /\ FirstLife'
  BY NextOwn, NextFirstLife
<1>3. TreeInv /\ FirstLife => NoOrphans
  <2> SUFFICES ASSUME TreeInv, FirstLife, mounts = 1, stage = "up", NEW e \in lookup, e.inode \in DOMAIN md
               PROVE  \E p \in Paths : Denotes(p) = {e.inode}
    BY DEF NoOrphans, FirstLife, Claimed
  <2>1. PICK p \in Paths : e.inode \in Denotes(p)
    BY DEF FirstLife, Rooted
  <2> QED
    BY <2>1, MeansOne DEF TreeInv
<1> QED
  BY <1>1, <1>2, <1>3, NamesInvs, PTL DEF SpecAll


-----------------------------------------------------------------------------
(* Which handles are served.                                                 *)

\* A handler comes to the insert of a file from the link of its block alone, and
\* disturbs no other thread.
LEMMA FileLinked ==
    ASSUME TypeInv, NEW t \in Threads, Start(t) \/ Step(t), stage' = "up"
    PROVE  /\ \A u \in Threads \ {t} : call'[u] = call[u]
           /\ pc'[t] = "insert_md" /\ call'[t].op = "create" => InsertBlock(t)
<1>0. ASSUME NEW op, NEW p, NEW l, Walk(t, op, p, l), op = "create" \/ l.phase = "confirm"
      PROVE  pc'[t] # "insert_md"
  <2>1. PICK label, m : Goto(t, label, m) /\ label = IF Len(p) > 1 THEN "walk" ELSE Target(op, l.phase)
    BY <1>0 DEF Walk
  <2>2. label # "insert_md"
    BY <1>0, <2>1 DEF Target
  <2> QED
    BY <2>1, <2>2 DEF Goto, TypeInv, TypeOK
<1>1. ASSUME NEW op, NEW p, NEW n, Begin(t, op, p, n)
      PROVE  call'[t].op = op /\ \A u \in Threads \ {t} : call'[u] = call[u]
  BY <1>1, BeginEffect DEF TypeInv, TypeOK
<1>2. CASE BeginGetattr(t) \/ BeginMake(t) \/ BeginOpen(t)
  <2>1. PICK op, p, n : Begin(t, op, p, n) /\ Walk(t, op, p, NoLocals)
    BY <1>2 DEF BeginGetattr, BeginMake, BeginOpen
  <2> QED
    BY <1>0, <1>1, <2>1
<1>3. CASE BeginFgetattr(t) \/ BeginReaddir(t)
  <2>1. PICK op, p, n : op # "create" /\ Begin(t, op, p, n)
    BY <1>3 DEF BeginFgetattr, BeginReaddir
  <2> QED
    BY <1>1, <2>1
<1>4. CASE Unlink(t) \/ Rename(t)
  BY <1>4 DEF Unlink, Rename
<1>5. CASE Reply(t)
  BY <1>5 DEF Reply, Goto, TypeInv, TypeOK
<1>6. CASE Step(t) /\ ~Reply(t)
  <2>1. UNCHANGED call
    BY <1>6 DEF Step, WalkStep, WalkFails, FindChild, FindRoot, SearchByInode, Make, InsertBlock, InsertMd,
                InsertMdClash, ListChildren, ListFails, Die
  <2>2. ASSUME NEW a, Answer(t, a) PROVE pc'[t] # "insert_md"
    BY <2>2 DEF Answer, Goto, TypeInv, TypeOK
  <2>3. ASSUME Confirm(t) PROVE pc'[t] # "insert_md"
    <3>1. PICK l : l = [loc[t] EXCEPT !.phase = "confirm"]
      OBVIOUS
    <3>2. l.phase = "confirm"
      BY <3>1 DEF TypeInv, TypeOK
    <3>3. Goto(t, "search", l) \/ Walk(t, "mkdir", call[t].path, l)
      BY <2>3, <3>1 DEF Confirm
    <3>4. CASE Goto(t, "search", l)
      BY <3>4 DEF Goto, TypeInv, TypeOK
    <3> QED
      BY <1>0, <3>2, <3>3, <3>4
  <2>4. CASE WalkStep(t)
    <3>1. PICK label, l : /\ Goto(t, label, l)
                          /\ label = "walk" \/ label = Target(call[t].op, l.phase)
      BY <2>4 DEF WalkStep
    <3>2. call[t].op = "create" => label # "insert_md"
      BY <3>1, TargetOf
    <3> QED
      BY <2>1, <3>1, <3>2 DEF Goto, TypeInv, TypeOK
  <2>5. CASE WalkFails(t) \/ FindChild(t) \/ FindRoot(t) \/ SearchByInode(t) \/ InsertMd(t)
    BY <2>1, <2>2, <2>3, <2>5 DEF WalkFails, FindChild, FindRoot, SearchByInode, InsertMd, Die
  <2>6. CASE Make(t)
    <3>1. PICK l : Walk(t, call[t].op, call[t].path, l)
      BY <2>6 DEF Make
    <3> QED
      BY <1>0, <2>1, <3>1
  <2>7. CASE InsertBlock(t)
    BY <2>1, <2>7
  <2>8. CASE InsertMdClash(t) \/ ListFails(t)
    BY <2>8 DEF InsertMdClash, ListFails, Die
  <2>9. CASE ListChildren(t)
    BY <2>1, <2>9 DEF ListChildren, Goto, TypeInv, TypeOK
  <2> QED
    BY <1>6, <2>4, <2>5, <2>6, <2>7, <2>8, <2>9 DEF Step
<1> QED
  BY <1>2, <1>3, <1>4, <1>5, <1>6 DEF Start

\* The data part of a create links the block, inserts the size and returns.
LEMMA CreateGoes ==
    ASSUME TripsOK, NEW t \in Threads, Creating(t), Data!Step(t), up', dcall[t].op = "create"
    PROVE  \/ /\ dpc[t] \in Growing  /\ dpc'[t] \in Growing \cup {"insert_md"}  /\ dcall'[t] = dcall[t]
           \/ dpc[t] = "insert_md" /\ dpc'[t] = "reply" /\ dcall'[t] = dcall[t]
           \/ dpc[t] = "reply" /\ dcall'[t].op = "none"
<1>1. dpc[t] \in Growing \cup {"insert_md", "reply"}
  BY DEF Creating
<1>2. ASSUME NEW label, NEW l, Data!Goto(t, label, l) PROVE dpc'[t] = label
  BY <1>2 DEF Data!Goto, TripsOK
<1>3. CASE Data!NewData(t) \/ Data!MaxOrder(t)
  <2>1. /\ UNCHANGED dcall  /\ dpc[t] \in Growing
        /\ \E l : Data!Goto(t, "max_order", l) \/ Data!Goto(t, "new_lookup", l)
    BY <1>3 DEF Data!NewData, Data!MaxOrder, Growing
  <2> QED
    BY <1>2, <2>1 DEF Growing
<1>4. CASE Data!NewLookup(t)
  <2>1. /\ UNCHANGED dcall  /\ dpc[t] \in Growing
        /\ \E label, l : Data!Goto(t, label, l) /\ label \in {"new_data", Data!AfterGrowth(dcall[t].op)}
    BY <1>4 DEF Data!NewLookup, Data!GrowOr, Growing
  <2>2. Data!AfterGrowth(dcall[t].op) = "insert_md"
    BY DEF Data!AfterGrowth
  <2> QED
    BY <1>2, <2>1, <2>2 DEF Growing
<1>5. CASE Data!InsertMd(t)
  BY <1>2, <1>5 DEF Data!InsertMd
<1>6. CASE Data!Reply(t)
  BY <1>6 DEF Data!Reply, Data!NoCall, TripsOK
<1>7. CASE dpc[t] \notin Growing \cup {"insert_md", "reply"}
  BY <1>1, <1>7
<1>8. ~(Data!NewDataClash(t) \/ Data!InsertMdClash(t))
  BY DEF Data!NewDataClash, Data!InsertMdClash, Data!Abort, Data!Die
<1> QED
  BY <1>3, <1>4, <1>5, <1>6, <1>7, <1>8 DEF Data!Step, Growing, Data!FindMdForWrite, Data!FindMdForRead,
       Data!FindMdForTruncate, Data!PipeFails, Data!FindLookup, Data!FindLookupFails, Data!FindDataForWrite,
       Data!FindDataForRead, Data!FindDataFails, Data!UpdateData, Data!SetSize, Data!FindIds,
       Data!DelLookup, Data!DelData

\* Nothing is under way.
LEMMA SizedIdle ==
    ASSUME Files' \subseteq DOMAIN sizes', \A t \in Threads : dcall'[t].op = "none" /\ pc'[t] = "idle"
    PROVE  SizedInv'
BY DEF SizedInv, Creating

\* The daemon dies and the documents stay.
LEMMA SizedDies ==
    ASSUME SizedInv, NEW cause, Die(cause), Data!Die
    PROVE  SizedInv'
<1>1. UNCHANGED <<md, sizes>>
  BY DEF Die, Data!Die, Data!store, database
<1>2. \A t \in Threads : dcall'[t].op = "none" /\ pc'[t] = "idle"
  BY DEF Die, Data!Die, Data!NoCall
<1> QED
  BY <1>1, <1>2, SizedIdle DEF SizedInv, Files

\* A handler's step that touches no block inserts directories only.
LEMMA NameStepSized ==
    ASSUME TypeInv, OwnInv, SizedInv, NEW t \in Threads, NameStep(t)
    PROVE  SizedInv'
<1>1. (Start(t) \/ Step(t)) /\ dpc[t] = "idle" /\ ~InsertBlock(t)
  BY DEF NameStep, InsertBlock
<1>2. CASE stage' # "up"
  <2>1. \E cause : Die(cause)
    BY <1>1, <1>2, NamesMove
  <2> QED
    BY <1>2, <2>1, SizedDies DEF NameStep, DataDies
<1>3. CASE stage' = "up"
  <2>1. UNCHANGED <<sizes, dpc, dcall>> /\ dcall[t].op = "none"
    BY <1>1, <1>3 DEF NameStep, storage, OwnInv, TripsOK, Trip
  <2>2. Files' \subseteq Files
    <3>1. CASE InsertMd(t)
      <4>1. KindMade(call[t].op) # "file"
        BY <1>1, <3>1 DEF InsertMd, SizedInv, Creating, KindMade, Growing
      <4> QED
        BY <3>1, <4>1 DEF InsertMd, Add, Files
    <3>2. CASE ~InsertMd(t)
      BY <1>1, <3>2, StepSame DEF Files
    <3> QED
      BY <3>1, <3>2
  <2>3. ASSUME NEW u \in Threads PROVE Creating(u)'
    <3>1. CASE u = t
      BY <1>1, <1>3, <2>1, <3>1, FileLinked DEF Creating
    <3>2. CASE u # t
      <4>1. pc'[u] = pc[u] /\ call'[u] = call[u]
        BY <1>1, <1>3, <3>2, FileLinked, NamesMove DEF Die
      <4> QED
        BY <2>1, <4>1 DEF SizedInv, Creating
    <3> QED
      BY <3>1, <3>2
  <2> QED
    BY <2>1, <2>2, <2>3 DEF SizedInv
<1> QED
  BY <1>2, <1>3

\* A request that reaches the data path.
LEMMA RequestsSized ==
    ASSUME OwnInv, SizedInv, NEW t \in Threads, LinkBlock(t) \/ DataCall(t)
    PROVE  SizedInv'
<1>1. /\ UNCHANGED <<md, pc, call, sizes>>  /\ dpc[t] = "idle"
      /\ \E label, c, n :
             /\ Data!Begin(t, label, c, n)
             /\ c.op = "create" => label = "new_data"
             /\ pc[t] = "insert_md" => FALSE
  BY DEF LinkBlock, LinkFor, DataCall, Idle, names, vars, Data!Begin, Data!store, Data!NoCall,
         Data!SendWrite, Data!SendRead, Data!SendTruncate
<1>2. PICK label, c : /\ c.op = "create" => label = "new_data"
                      /\ dcall' = [dcall EXCEPT ![t] = c]  /\ dpc' = [dpc EXCEPT ![t] = label]
                      /\ pc[t] # "insert_md"
  BY <1>1 DEF Data!Begin, Data!Goto
<1>3. /\ dpc'[t] = label  /\ dcall'[t] = c
      /\ \A u \in Threads \ {t} : dpc'[u] = dpc[u] /\ dcall'[u] = dcall[u]
  BY <1>2 DEF OwnInv, TripsOK
<1>4. ASSUME NEW u \in Threads PROVE Creating(u)'
  BY <1>1, <1>2, <1>3 DEF SizedInv, Creating, Growing
<1> QED
  BY <1>1, <1>4 DEF SizedInv, Files

\* A round trip of the data path, with or without a step of its create.
LEMMA DataSized ==
    ASSUME TypeInv, OwnInv, SizedInv, NEW t \in Threads,
           DataStep(t) \/ BlockLinked(t) \/ FileMade(t) \/ FileClashes(t)
    PROVE  SizedInv'
<1>0. Trip(t) /\ Link(t) /\ Creating(t)
  BY DEF OwnInv, TripsOK, LinksOK, SizedInv
<1>1. CASE FileClashes(t) \/ (DataStep(t) /\ ~up')
  <2>1. Data!Die /\ \E cause : Die(cause)
    <3>1. CASE FileClashes(t)
      BY <3>1 DEF FileClashes, InsertMdClash, Data!Abort
    <3>2. CASE DataStep(t) /\ ~up'
      <4>1. UNCHANGED up \/ Data!Die
        BY <3>2, DataAdds DEF DataStep
      <4>2. up
        BY <3>2, DataAdds DEF DataStep, OwnInv, TogetherOK
      <4> QED
        BY <3>2, <4>1, <4>2 DEF DataStep
    <3> QED
      BY <1>1, <3>1, <3>2
  <2> QED
    BY <2>1, SizedDies
<1>2. CASE DataStep(t) /\ up'
  <2>1. UNCHANGED <<md, pc, call>> /\ Data!Step(t) /\ dpc[t] # "insert_md"
    BY <1>2 DEF DataStep, names, vars
  <2>2. DataMoves(t)
    BY <1>2, <2>1, DataTrips DEF OwnInv
  <2>3. dcall[t].op = "create" =>
            \/ dpc'[t] \in Growing \cup {"insert_md"} /\ dcall'[t] = dcall[t] /\ dpc[t] \in Growing
            \/ dcall'[t].op = "none" /\ dpc[t] = "reply"
    BY <1>0, <1>2, <2>1, CreateGoes DEF OwnInv
  <2>4. dcall[t].op # "create" => dcall'[t].op # "create"
    BY <2>2 DEF DataMoves
  <2>5. ASSUME NEW u \in Threads PROVE Creating(u)'
    <3>1. CASE u = t
      BY <1>0, <2>1, <2>3, <2>4, <3>1 DEF Creating, Growing
    <3>2. CASE u # t
      BY <2>1, <2>2, <3>2 DEF SizedInv, Creating, DataMoves
    <3> QED
      BY <3>1, <3>2
  <2> QED
    BY <2>1, <2>2, <2>5 DEF SizedInv, Files, DataMoves
<1>3. CASE BlockLinked(t)
  <2>1. /\ UNCHANGED <<md, call, up>>  /\ pc[t] = "insert_block"  /\ dpc[t] = "new_lookup"
        /\ pc' = [pc EXCEPT ![t] = "insert_md"]
    BY <1>3 DEF BlockLinked, InsertBlock, Goto, Data!NewLookup, Data!daemon
  <2>2. Data!Step(t) /\ up'
    BY <1>3, <2>1, DataAdds DEF BlockLinked, Data!Step, OwnInv, TogetherOK
  <2>3. DataMoves(t)
    BY <2>2, DataTrips DEF OwnInv
  <2>4. dcall[t].op = "create"
    BY <1>0, <2>1 DEF Link
  <2>5. dpc'[t] \in Growing \cup {"insert_md"} /\ dcall'[t] = dcall[t]
    BY <1>0, <2>1, <2>2, <2>4, CreateGoes DEF OwnInv
  <2>6. \A u \in Threads \ {t} : pc'[u] = pc[u]
    BY <2>1 DEF TypeInv, TypeOK
  <2>7. ASSUME NEW u \in Threads PROVE Creating(u)'
    <3>1. CASE u = t
      BY <2>4, <2>5, <3>1 DEF Creating
    <3>2. CASE u # t
      BY <2>1, <2>3, <2>6, <3>2 DEF SizedInv, Creating, DataMoves
    <3> QED
      BY <3>1, <3>2
  <2> QED
    BY <2>1, <2>3, <2>7 DEF SizedInv, Files, DataMoves
<1>4. CASE FileMade(t)
  <2>1. /\ dpc[t] = "insert_md"  /\ UNCHANGED <<call, stage, up>>  /\ Step(t)  /\ ~InsertBlock(t)
        /\ DOMAIN md' = DOMAIN md \cup {loc[t].ino}  /\ \A i \in DOMAIN md : md'[i] = md[i]
        /\ DOMAIN sizes' = DOMAIN sizes \cup {dcall[t].inode}
    BY <1>4 DEF FileMade, InsertMd, InsertBlock, Add, Step, daemon, Data!InsertMd, Data!daemon
  <2>2. Data!Step(t) /\ up'
    BY <1>4, <2>1, DataAdds DEF FileMade, Data!Step, OwnInv, TogetherOK
  <2>3. DataMoves(t)
    BY <2>2, DataTrips DEF OwnInv
  <2>4. dcall[t].op = "create" /\ dcall[t].inode = loc[t].ino
    BY <1>0, <2>1 DEF Trip, Link
  <2>5. dpc'[t] = "reply" /\ dcall'[t] = dcall[t]
    BY <1>0, <2>1, <2>2, <2>4, CreateGoes DEF OwnInv, Growing
  <2>6. stage' = "up"
    BY <2>1, NamesMove DEF Die
  <2>7. ASSUME NEW u \in Threads PROVE Creating(u)'
    <3>1. CASE u = t
      BY <2>1, <2>5, <2>6, <3>1, FileLinked DEF Creating
    <3>2. CASE u # t
      <4>1. pc'[u] = pc[u] /\ call'[u] = call[u]
        BY <2>1, <2>6, <3>2, NamesMove DEF Die
      <4> QED
        BY <2>3, <3>2, <4>1 DEF SizedInv, Creating, DataMoves
    <3> QED
      BY <3>1, <3>2
  <2>8. Files' \subseteq Files \cup {loc[t].ino}
    BY <2>1 DEF Files
  <2> QED
    BY <2>1, <2>4, <2>7, <2>8 DEF SizedInv
<1> QED
  BY <1>1, <1>2, <1>3, <1>4

\* init_db, the kill and the mount: the root is a directory.
LEMMA BootSized ==
    ASSUME TypeInv, OwnInv, SizedInv, Boot
    PROVE  SizedInv'
<1>1. CASE RemoveRoot /\ sizes' = [i \in DOMAIN sizes \cap DOMAIN md' |-> sizes[i]] /\ UNCHANGED <<dpc, dcall>>
  <2>1. UNCHANGED <<pc, call, dpc, dcall>>
    BY <1>1 DEF RemoveRoot
  <2>2. DOMAIN md' \subseteq DOMAIN md /\ \A i \in DOMAIN md' : md'[i] = md[i]
    BY <1>1 DEF RemoveRoot
  <2>3. Files' \subseteq DOMAIN sizes'
    BY <1>1, <2>2 DEF SizedInv, Files
  <2> QED
    BY <2>1, <2>3 DEF SizedInv, Creating
<1>2. CASE InsertRoot /\ UNCHANGED <<sizes, dpc, dcall>>
  <2>1. UNCHANGED <<pc, call, sizes, dpc, dcall>>
    BY <1>2 DEF InsertRoot
  <2>2. Files' \subseteq Files
    BY <1>2 DEF InsertRoot, Add, Files
  <2> QED
    BY <2>1, <2>2 DEF SizedInv, Creating
<1>3. CASE (InsertRootFails \/ Kill) /\ DataDies
  BY <1>3, SizedDies DEF InsertRootFails, Kill, DataDies
<1>4. CASE Mount /\ UNCHANGED storage
  BY <1>4 DEF Mount, database, storage, SizedInv, Creating, Files
<1> QED
  BY <1>1, <1>2, <1>3, <1>4 DEF Boot

\* Every step of the file system.
LEMMA NextSized ==
    ASSUME TypeInv, OwnInv, SizedInv, [NextAll]_allVars
    PROVE  SizedInv'
<1>1. CASE \E t \in Threads : NameStep(t)
  BY <1>1, NameStepSized
<1>2. CASE \E t \in Threads : LinkBlock(t) \/ DataCall(t)
  BY <1>2, RequestsSized
<1>3. CASE \E t \in Threads : BlockLinked(t) \/ FileMade(t) \/ FileClashes(t) \/ DataStep(t)
  BY <1>3, DataSized
<1>4. CASE \E t \in Threads : SizeMissing(t) \/ TruncateByPath(t)
  BY <1>4, SizedDies DEF SizeMissing, TruncateByPath, DataDies
<1>5. CASE (\E t \in Threads : OpenTrunc(t)) \/ UNCHANGED allVars
  <2>1. UNCHANGED <<md, pc, call, sizes, dpc, dcall>>
    BY <1>5 DEF OpenTrunc, Data!OpenTrunc, Data!store, Data!threads, allVars, names, vars, storage
  <2> QED
    BY <2>1 DEF SizedInv, Creating, Files
<1>6. CASE Boot
  BY <1>6, BootSized
<1> QED
  BY <1>1, <1>2, <1>3, <1>4, <1>5, <1>6 DEF NextAll

\* A step of the file system keeps what the kernel takes for a file a file.
LEMMA NextKindsAll ==
    ASSUME ProperIds, TypeInv, TreeInv, KindsOK, [NextAll]_allVars
    PROVE  KindsOK'
<1>1. CASE [Next]_vars
  BY <1>1, NextKinds
<1>2. CASE \E cause \in {"null_ffi", "no_size", "data_call"} : Die(cause)
  BY <1>2, KindsGone DEF Die, NoCall
<1> QED
  BY <1>1, <1>2, StepNames

\* Until the kernel believes a rename every handle of a file that open gave it
\* has a document with a size: no read, write or truncate throws at its head.
THEOREM HandlesServeHolds == ASSUME ProperIds PROVE SpecAll => []HandlesServe
<1>1. InitAll => OwnInv /\ SizedInv /\ KindsOK
  <2> SUFFICES ASSUME InitAll PROVE OwnInv /\ SizedInv /\ KindsOK
    OBVIOUS
  <2>1. SizedInv
    BY DEF InitAll, Init, SizedInv, Creating, Files, Data!NoCall
  <2>2. KindsOK
    BY DEF InitAll, Init, KindsOK, NoCall
  <2> QED
    BY <2>1, <2>2, InitOwn
<1>2. TypeInv /\ TreeInv /\ OwnInv /\ SizedInv /\ KindsOK /\ [NextAll]_allVars
          => OwnInv' /\ SizedInv' /\ KindsOK'
  BY NextOwn, NextSized, NextKindsAll
<1>3. TypeInv /\ TreeInv /\ SizedInv /\ KindsOK => HandlesServe
  <2> SUFFICES ASSUME TypeInv, TreeInv, SizedInv, KindsOK, renames = 0, NEW h \in handles, h.kind = "file"
               PROVE  h.fh \in DOMAIN sizes
    BY DEF HandlesServe
  <2>1. PICK i \in Denotes(h.path) \cap DOMAIN md : md[i].kind = "file"
    BY DEF KindsOK, KindMeant
  <2>2. h.path \in Paths /\ h.fh \in Denotes(h.path)
    BY DEF TypeInv, TypeOK, TreeInv, HandlesOK
  <2>3. i = h.fh
    BY <2>1, <2>2, MeansOne DEF TreeInv
  <2> QED
    BY <2>1, <2>3 DEF SizedInv, Files
<1> QED
  BY <1>1, <1>2, <1>3, NamesInvs, PTL DEF SpecAll

-----------------------------------------------------------------------------
(* Files, sizes and blocks: the theorems of FileSystemProofs, in which the   *)
(* variables have BlockStore's names, with FileSystem's names put back.      *)
P == INSTANCE FileSystemProofs WITH
        docs <- md, nfault <- fault, npc <- pc, ncall <- call, nloc <- loc, ZeroInode <- Zero,
        md <- sizes, fault <- dfault, pc <- dpc, call <- dcall, loc <- dloc, Zero <- ZeroByte

\* Both renamings together change nothing: neither a handler's step over
\* fs_metadata ...
LEMMA SameNameSteps ==
    ASSUME NEW t
    PROVE  /\ P!F!Start(t) <=> Start(t)
           /\ P!F!Step(t) <=> Step(t)
           /\ P!F!InsertBlock(t) <=> InsertBlock(t)
           /\ P!F!InsertMd(t) <=> InsertMd(t)
           /\ P!F!InsertMdClash(t) <=> InsertMdClash(t)
           /\ \A cause : P!F!Die(cause) <=> Die(cause)
<1>1. /\ P!F!BeginGetattr(t) <=> BeginGetattr(t)
      /\ P!F!BeginMake(t) <=> BeginMake(t)
      /\ P!F!BeginOpen(t) <=> BeginOpen(t)
  BY DEF P!F!Begin, Begin, P!F!BeginGetattr, BeginGetattr, P!F!BeginMake, BeginMake,
         P!F!BeginOpen, BeginOpen, P!F!Cardinality, Cardinality, P!F!Children, Children,
         P!F!daemon, daemon, P!F!database, database, P!F!Denotes, Denotes, P!F!Front, Front,
         P!F!Goto, Goto, P!F!kernel, kernel, P!F!Known, Known, P!F!Lists, Lists, P!F!Makers, Makers,
         P!F!MakesIn, MakesIn, P!F!Named, Named, P!F!names, names, P!F!NoLocals, NoLocals,
         P!F!Paths, Paths, P!F!Target, Target, P!F!Walk, Walk
<1>2. /\ P!F!BeginFgetattr(t) <=> BeginFgetattr(t)
      /\ P!F!BeginReaddir(t) <=> BeginReaddir(t)
      /\ P!F!Unlink(t) <=> Unlink(t)
      /\ P!F!Rename(t) <=> Rename(t)
  BY DEF P!F!Begin, Begin, P!F!BeginFgetattr, BeginFgetattr, P!F!BeginReaddir, BeginReaddir,
         P!F!Children, Children, P!F!daemon, daemon, P!F!database, database, P!F!Denotes, Denotes,
         P!F!Free, Free, P!F!Front, Front, P!F!Goto, Goto, P!F!IsPrefix, IsPrefix, P!F!kernel, kernel,
         P!F!Known, Known, P!F!Lists, Lists, P!F!Makers, Makers, P!F!MakesIn, MakesIn, P!F!Named, Named,
         P!F!names, names, P!F!NoLocals, NoLocals, P!F!Paths, Paths, P!F!Rename, Rename,
         P!F!Under, Under, P!F!Unlink, Unlink, P!F!InUse, InUse, P!F!Renewed, Renewed,
         P!F!Renew, Renew, P!F!Below, Below
<1>3. /\ P!F!WalkStep(t) <=> WalkStep(t)
      /\ P!F!WalkFails(t) <=> WalkFails(t)
      /\ P!F!FindChild(t) <=> FindChild(t)
      /\ P!F!FindRoot(t) <=> FindRoot(t)
      /\ P!F!SearchByInode(t) <=> SearchByInode(t)
  BY DEF P!F!Answer, Answer, P!F!Children, Children, P!F!Confirm, Confirm, P!F!daemon, daemon,
         P!F!database, database, P!F!Die, Die, P!F!FindChild, FindChild, P!F!FindRoot, FindRoot,
         P!F!Goto, Goto, P!F!kernel, kernel, P!F!Last, Last, P!F!Makers, Makers, P!F!Named, Named,
         P!F!names, names, P!F!NoCall, NoCall, P!F!NoLocals, NoLocals, P!F!SearchByInode, SearchByInode,
         P!F!Target, Target, P!F!Walk, Walk, P!F!WalkFails, WalkFails, P!F!WalkStep, WalkStep,
         P!F!FirstNodes, FirstNodes, P!F!Paths, Paths
<1>4. /\ P!F!Make(t) <=> Make(t)
      /\ P!F!InsertBlock(t) <=> InsertBlock(t)
      /\ P!F!InsertMd(t) <=> InsertMd(t)
  BY DEF P!F!Add, Add, P!F!Confirm, Confirm, P!F!daemon, daemon, P!F!database, database, P!F!Goto, Goto,
         P!F!InsertBlock, InsertBlock, P!F!InsertMd, InsertMd, P!F!kernel, kernel,
         P!F!KindMade, KindMade, P!F!Last, Last, P!F!Make, Make, P!F!Target, Target, P!F!Unused, Unused,
         P!F!Walk, Walk
<1>5. /\ P!F!ListChildren(t) <=> ListChildren(t)
      /\ P!F!ListFails(t) <=> ListFails(t)
      /\ P!F!Reply(t) <=> Reply(t)
  BY DEF P!F!Children, Children, P!F!daemon, daemon, P!F!database, database, P!F!Die, Die,
         P!F!Goto, Goto, P!F!IsPrefix, IsPrefix, P!F!kernel, kernel, P!F!ListChildren, ListChildren,
         P!F!ListFails, ListFails, P!F!names, names, P!F!NoCall, NoCall, P!F!NoLocals, NoLocals,
         P!F!Reply, Reply, P!F!Under, Under, P!F!Opened, Opened, P!F!KindOpened, KindOpened,
         P!F!FirstNodes, FirstNodes, P!F!Paths, Paths
<1>6. /\ \A cause : P!F!Die(cause) <=> Die(cause)
      /\ P!F!InsertMdClash(t) <=> InsertMdClash(t)
  BY DEF P!F!database, database, P!F!Die, Die, P!F!InsertMdClash, InsertMdClash, P!F!names, names,
         P!F!NoCall, NoCall, P!F!NoLocals, NoLocals, P!F!FirstNodes, FirstNodes, P!F!Paths, Paths
<1> QED
  BY <1>1, <1>2, <1>3, <1>4, <1>5, <1>6 DEF P!F!Start, Start, P!F!Step, Step

\* ... nor a step of a data call ...
LEMMA SameDataSteps ==
    ASSUME NEW t
    PROVE  /\ P!F!Data!Step(t) <=> Data!Step(t)
           /\ P!F!Data!NewLookup(t) <=> Data!NewLookup(t)
           /\ P!F!Data!InsertMd(t) <=> Data!InsertMd(t)
           /\ \A i : P!F!Data!SendWrite(t, i) <=> Data!SendWrite(t, i)
           /\ \A i, offsets : P!F!Data!SendRead(t, i, offsets) <=> Data!SendRead(t, i, offsets)
           /\ \A i : P!F!Data!SendTruncate(t, i) <=> Data!SendTruncate(t, i)
           /\ P!F!Data!OpenTrunc(t) <=> Data!OpenTrunc(t)
           /\ P!F!Data!NoCall = Data!NoCall
           /\ \A label, c, n : P!F!Data!Begin(t, label, c, n) <=> Data!Begin(t, label, c, n)
           /\ \A cause : P!F!Data!Abort(t, cause) <=> Data!Abort(t, cause)
<1>1. /\ \A i : P!F!Data!SendWrite(t, i) <=> Data!SendWrite(t, i)
      /\ \A i, offsets : P!F!Data!SendRead(t, i, offsets) <=> Data!SendRead(t, i, offsets)
      /\ \A i : P!F!Data!SendTruncate(t, i) <=> Data!SendTruncate(t, i)
      /\ P!F!Data!OpenTrunc(t) <=> Data!OpenTrunc(t)
  BY DEF P!F!Data!Begin, Data!Begin, P!F!Data!SendRead, Data!SendRead, P!F!Data!SendTruncate,
         Data!SendTruncate, P!F!Data!SendWrite, Data!SendWrite, P!F!Data!Blocks, Data!Blocks,
         P!F!Data!daemon, Data!daemon, P!F!Data!Goto, Data!Goto, P!F!Data!KernelLocked,
         Data!KernelLocked, P!F!Data!Modifies, Data!Modifies, P!F!Data!NoCall, Data!NoCall,
         P!F!Data!NoLocals, Data!NoLocals, P!F!Data!OpenTrunc, Data!OpenTrunc, P!F!Data!Positions,
         Data!Positions, P!F!Data!store, Data!store, P!F!Data!threads, Data!threads,
         P!F!Data!ZeroBlock, Data!ZeroBlock
<1>2. /\ P!F!Data!FindMdForWrite(t) <=> Data!FindMdForWrite(t)
      /\ P!F!Data!FindMdForRead(t) <=> Data!FindMdForRead(t)
      /\ P!F!Data!FindMdForTruncate(t) <=> Data!FindMdForTruncate(t)
      /\ P!F!Data!UpdateData(t) <=> Data!UpdateData(t)
  BY DEF P!F!Data!Blocks, Data!Blocks, P!F!Data!BufEnd, Data!BufEnd, P!F!Data!daemon, Data!daemon,
         P!F!Data!EnterBuffer, Data!EnterBuffer, P!F!Data!FindMdForRead, Data!FindMdForRead,
         P!F!Data!FindMdForTruncate, Data!FindMdForTruncate, P!F!Data!FindMdForWrite,
         Data!FindMdForWrite, P!F!Data!Goto, Data!Goto, P!F!Data!Greatest, Data!Greatest,
         P!F!Data!GrowOr, Data!GrowOr, P!F!Data!Positions, Data!Positions, P!F!Data!store,
         Data!store, P!F!Data!UpdateData, Data!UpdateData, P!F!Data!ZeroBlock, Data!ZeroBlock
<1>3. /\ P!F!Data!NewData(t) <=> Data!NewData(t)
      /\ P!F!Data!MaxOrder(t) <=> Data!MaxOrder(t)
      /\ P!F!Data!NewLookup(t) <=> Data!NewLookup(t)
      /\ P!F!Data!InsertMd(t) <=> Data!InsertMd(t)
  BY DEF P!F!Data!AfterGrowth, Data!AfterGrowth, P!F!Data!daemon, Data!daemon, P!F!Data!Entries,
         Data!Entries, P!F!Data!Goto, Data!Goto, P!F!Data!GrowOr, Data!GrowOr, P!F!Data!InsertMd,
         Data!InsertMd, P!F!Data!Max, Data!Max, P!F!Data!MaxOrder, Data!MaxOrder, P!F!Data!NewData,
         Data!NewData, P!F!Data!NewLookup, Data!NewLookup, P!F!Data!NextOrder, Data!NextOrder,
         P!F!Data!Orders, Data!Orders, P!F!Data!Positions, Data!Positions, P!F!Data!store,
         Data!store, P!F!Data!ZeroBlock, Data!ZeroBlock
<1>4. /\ P!F!Data!PipeFails(t) <=> Data!PipeFails(t)
      /\ P!F!Data!NewDataClash(t) <=> Data!NewDataClash(t)
      /\ P!F!Data!InsertMdClash(t) <=> Data!InsertMdClash(t)
      /\ P!F!Data!FindLookupFails(t) <=> Data!FindLookupFails(t)
      /\ P!F!Data!FindDataFails(t) <=> Data!FindDataFails(t)
  BY DEF P!F!Data!Abort, Data!Abort, P!F!Data!Blocks, Data!Blocks, P!F!Data!Die, Data!Die,
         P!F!Data!Entries, Data!Entries, P!F!Data!FindDataFails, Data!FindDataFails,
         P!F!Data!FindLookupFails, Data!FindLookupFails, P!F!Data!Hurt, Data!Hurt,
         P!F!Data!InsertMdClash, Data!InsertMdClash, P!F!Data!Intruding, Data!Intruding,
         P!F!Data!NewDataClash, Data!NewDataClash, P!F!Data!NoCall, Data!NoCall, P!F!Data!NoLocals,
         Data!NoLocals, P!F!Data!OrderOf, Data!OrderOf, P!F!Data!PipeFails, Data!PipeFails,
         P!F!Data!Positions, Data!Positions, P!F!Data!Shrinking, Data!Shrinking, P!F!Data!store,
         Data!store, P!F!Data!Wanted, Data!Wanted, P!F!Data!ZeroBlock, Data!ZeroBlock
<1>5. /\ P!F!Data!FindLookup(t) <=> Data!FindLookup(t)
      /\ P!F!Data!FindDataForWrite(t) <=> Data!FindDataForWrite(t)
      /\ P!F!Data!FindDataForRead(t) <=> Data!FindDataForRead(t)
  BY DEF P!F!Data!AfterBlock, Data!AfterBlock, P!F!Data!BlockEnd, Data!BlockEnd, P!F!Data!BufEnd,
         Data!BufEnd, P!F!Data!daemon, Data!daemon, P!F!Data!Entries, Data!Entries,
         P!F!Data!FindDataForRead, Data!FindDataForRead, P!F!Data!FindDataForWrite,
         Data!FindDataForWrite, P!F!Data!FindLookup, Data!FindLookup, P!F!Data!Goto, Data!Goto,
         P!F!Data!Greatest, Data!Greatest, P!F!Data!Least, Data!Least, P!F!Data!OrderOf,
         Data!OrderOf, P!F!Data!Patch, Data!Patch, P!F!Data!Positions, Data!Positions,
         P!F!Data!Slice, Data!Slice, P!F!Data!store, Data!store, P!F!Data!Wanted, Data!Wanted
<1>6. /\ P!F!Data!SetSize(t) <=> Data!SetSize(t)
      /\ P!F!Data!FindIds(t) <=> Data!FindIds(t)
      /\ P!F!Data!DelLookup(t) <=> Data!DelLookup(t)
      /\ P!F!Data!DelData(t) <=> Data!DelData(t)
      /\ P!F!Data!Reply(t) <=> Data!Reply(t)
  BY DEF P!F!Data!Blocks, Data!Blocks, P!F!Data!daemon, Data!daemon, P!F!Data!DelData, Data!DelData,
         P!F!Data!DelLookup, Data!DelLookup, P!F!Data!Entries, Data!Entries, P!F!Data!EntriesFrom,
         Data!EntriesFrom, P!F!Data!FindIds, Data!FindIds, P!F!Data!Goto, Data!Goto,
         P!F!Data!Greatest, Data!Greatest, P!F!Data!NoCall, Data!NoCall, P!F!Data!NoLocals,
         Data!NoLocals, P!F!Data!Positions, Data!Positions, P!F!Data!Reply, Data!Reply,
         P!F!Data!SetSize, Data!SetSize, P!F!Data!store, Data!store, P!F!Data!ZeroBlock,
         Data!ZeroBlock
<1>7. /\ P!F!Data!NoCall = Data!NoCall
      /\ \A label, c, n : P!F!Data!Begin(t, label, c, n) <=> Data!Begin(t, label, c, n)
      /\ \A cause : P!F!Data!Abort(t, cause) <=> Data!Abort(t, cause)
  BY DEF P!F!Data!Abort, Data!Abort, P!F!Data!Begin, Data!Begin, P!F!Data!Blocks, Data!Blocks,
         P!F!Data!daemon, Data!daemon, P!F!Data!Die, Data!Die, P!F!Data!Goto, Data!Goto,
         P!F!Data!Hurt, Data!Hurt, P!F!Data!Intruding, Data!Intruding, P!F!Data!NoCall, Data!NoCall,
         P!F!Data!NoLocals, Data!NoLocals, P!F!Data!Positions, Data!Positions, P!F!Data!Shrinking,
         Data!Shrinking, P!F!Data!store, Data!store, P!F!Data!ZeroBlock, Data!ZeroBlock
<1> QED
  BY <1>1, <1>2, <1>3, <1>4, <1>5, <1>6, <1>7 DEF P!F!Data!Step, Data!Step

\* ... nor what a step does to the kernel's inodes ...
LEMMA SameLocks ==
    /\ P!F!Settled <=> Settled
    /\ P!F!Shared' = Shared'
    /\ \A n : P!F!Locked(n) <=> Locked(n)
<1>1. \A i : P!F!Through(i)' = Through(i)'
  BY DEF P!F!Through, Through
<1>2. P!F!Shared' = Shared'
  BY <1>1 DEF P!F!Shared, Shared
<1> QED
  BY <1>2 DEF P!F!Settled, Settled, P!F!Locked, Locked, P!F!Data!Modifies, Data!Modifies,
       P!F!Data!NoCall, Data!NoCall, P!F!NoNode, NoNode

\* ... nor the start of the daemon and its end.
LEMMA SameBoot == (P!F!Boot <=> Boot) /\ (P!F!DataDies <=> DataDies)
<1>1. P!F!DataDies <=> DataDies
  BY DEF DataDies, P!F!DataDies, Data!Die, P!F!Data!Die, Data!NoFault, P!F!Data!NoFault,
         Data!Hurt, P!F!Data!Hurt, Data!Shrinking, P!F!Data!Shrinking, Data!Intruding, P!F!Data!Intruding,
         Data!Blocks, P!F!Data!Blocks, Data!NoCall, P!F!Data!NoCall, Data!NoLocals, P!F!Data!NoLocals,
         Data!ZeroBlock, P!F!Data!ZeroBlock, Data!Positions, P!F!Data!Positions, Data!store, P!F!Data!store
<1>2. \A cause : P!F!Die(cause) <=> Die(cause)
  BY DEF P!F!database, database, P!F!Die, Die, P!F!NoCall, NoCall, P!F!NoLocals, NoLocals,
         P!F!FirstNodes, FirstNodes, P!F!Paths, Paths
<1>3. /\ P!F!RemoveRoot <=> RemoveRoot
      /\ P!F!InsertRoot <=> InsertRoot
      /\ P!F!InsertRootFails <=> InsertRootFails
      /\ P!F!Kill <=> Kill
      /\ P!F!Mount <=> Mount
  BY <1>2 DEF P!F!Add, Add, P!F!Children, Children, P!F!InsertRoot, InsertRoot,
              P!F!InsertRootFails, InsertRootFails, P!F!Kill, Kill, P!F!Mount, Mount,
              P!F!RemoveRoot, RemoveRoot, P!F!RootName, RootName, P!F!database, database, P!F!kernel, kernel
<1>4. P!F!Data!NoFault = Data!NoFault /\ P!F!storage = storage
  BY DEF P!F!Data!NoFault, Data!NoFault, P!F!storage, storage
<1>5. P!F!Boot <=> Boot
  BY <1>1, <1>3, <1>4, SameLocks DEF P!F!Boot, Boot, P!F!storage, storage
<1> QED
  BY <1>1, <1>5

\* So FileSystem's behaviours are those that FileSystemProofs is about.
LEMMA SameSpec == SpecAll => P!F!SpecAll
<1>1. InitAll => P!F!InitAll
  BY DEF InitAll, P!F!InitAll, Init, P!F!Init, NoCall, P!F!NoCall, NoLocals, P!F!NoLocals,
         Data!NoFault, P!F!Data!NoFault, Data!NoCall, P!F!Data!NoCall, Data!NoLocals, P!F!Data!NoLocals,
         Data!ZeroBlock, P!F!Data!ZeroBlock, Data!Positions, P!F!Data!Positions,
         NoNode, P!F!NoNode, FirstNodes, P!F!FirstNodes, Paths, P!F!Paths
<1>2. ASSUME NEW t
      PROVE  /\ NameStep(t) => P!F!NameStep(t)
             /\ LinkBlock(t) => P!F!LinkBlock(t)
             /\ BlockLinked(t) => P!F!BlockLinked(t)
             /\ FileMade(t) => P!F!FileMade(t)
             /\ FileClashes(t) => P!F!FileClashes(t)
             /\ DataCall(t) => P!F!DataCall(t)
             /\ OpenTrunc(t) => P!F!OpenTrunc(t)
             /\ SizeMissing(t) => P!F!SizeMissing(t)
             /\ TruncateByPath(t) => P!F!TruncateByPath(t)
             /\ DataStep(t) => P!F!DataStep(t)
  <2>1. DataDies <=> P!F!DataDies
    BY SameBoot
  <2>2. names = P!F!names /\ storage = P!F!storage
    BY DEF names, P!F!names, vars, P!F!vars, storage, P!F!storage
  <2>3. NameStep(t) => P!F!NameStep(t)
    BY <2>1, <2>2, SameNameSteps, SameLocks DEF NameStep, P!F!NameStep, storage, P!F!storage
  <2>4. LinkBlock(t) => P!F!LinkBlock(t)
    BY <2>2, SameDataSteps, SameLocks DEF LinkBlock, P!F!LinkBlock, LinkFor, P!F!LinkFor, names, P!F!names, vars, P!F!vars
  <2>5. /\ BlockLinked(t) => P!F!BlockLinked(t)
        /\ FileMade(t) => P!F!FileMade(t)
        /\ FileClashes(t) => P!F!FileClashes(t)
    BY SameNameSteps, SameDataSteps, SameLocks
       DEF BlockLinked, P!F!BlockLinked, FileMade, P!F!FileMade, FileClashes, P!F!FileClashes
  <2>6. DataCall(t) => P!F!DataCall(t)
    BY SameDataSteps, SameLocks DEF DataCall, P!F!DataCall, Idle, P!F!Idle, names, P!F!names, vars, P!F!vars
  <2>7. OpenTrunc(t) => P!F!OpenTrunc(t)
    BY SameDataSteps, SameLocks DEF OpenTrunc, P!F!OpenTrunc, Idle, P!F!Idle, names, P!F!names, vars, P!F!vars
  <2>8. /\ SizeMissing(t) => P!F!SizeMissing(t)
        /\ TruncateByPath(t) => P!F!TruncateByPath(t)
    BY <2>1, SameNameSteps, SameLocks
       DEF SizeMissing, P!F!SizeMissing, TruncateByPath, P!F!TruncateByPath, Idle, P!F!Idle
  <2>9. DataStep(t) => P!F!DataStep(t)
    BY SameNameSteps, SameDataSteps, SameLocks DEF DataStep, P!F!DataStep, names, P!F!names, vars, P!F!vars
  <2> QED
    BY <2>3, <2>4, <2>5, <2>6, <2>7, <2>8, <2>9
<1>3. NextAll => P!F!NextAll
  BY <1>2, SameBoot DEF NextAll, P!F!NextAll
<1>4. allVars = P!F!allVars
  BY DEF allVars, P!F!allVars, names, P!F!names, vars, P!F!vars, storage, P!F!storage
<1>5. [NextAll]_allVars => [P!F!NextAll]_(P!F!allVars)
  BY <1>3 DEF allVars, P!F!allVars, names, P!F!names, vars, P!F!vars, storage, P!F!storage
<1> QED
  BY <1>1, <1>5, PTL DEF SpecAll, P!F!SpecAll

\* FileSystem asks of its constants what BlockStore asks of them.
LEMMA SameAssumptions ==
    P!BlockSizeAssumption /\ P!ZeroAssumption /\ P!NoIdAssumption /\ P!RequestAssumption
BY BlockAssumption, RequestAssumption, InodeAssumption, BoundAssumption
   DEF P!BlockSizeAssumption, P!ZeroAssumption, P!NoIdAssumption, P!RequestAssumption

\* Whoever opens a path to a file finds its first block and the bytes of it:
\* create inserts the document last, and no truncate, crash, remount or clash
\* of ids takes away what it relies on.
THEOREM FilesHaveDataHolds == SpecAll => []FilesHaveData
<1>1. P!F!FilesHaveData => FilesHaveData
  BY DEF P!F!FilesHaveData, FilesHaveData, P!F!Files, Files
<1> QED
  BY <1>1, SameSpec, SameAssumptions, P!FilesHaveDataHolds, PTL

\* Sizes stay covered by blocks under the calls that handles and the locks of
\* the kernel's inodes really let through, until a file has two of those.
THEOREM CoveredHolds == SpecAll => [](twice = {} => Covered)
<1>1. P!F!Covered => Covered
  BY DEF P!F!Covered, Covered, P!F!Data!Hurt, Data!Hurt,
         P!F!Data!Shrinking, Data!Shrinking, P!F!Data!Intruding, Data!Intruding,
         P!F!Data!Blocks, Data!Blocks, P!F!Data!OrderOf, Data!OrderOf,
         P!F!Data!Orders, Data!Orders, P!F!Data!Entries, Data!Entries
<1>2. (twice = {} => P!F!Covered) => (twice = {} => Covered)
  BY <1>1
<1> QED
  BY <1>2, SameSpec, SameAssumptions, P!CoveredTogether, PTL
===============================================================================

------------------------------- MODULE PathTree -------------------------------
(* What the namespace promises: a tree of paths in which an entry, once made *)
(* under one that exists, keeps its kind and its inode for ever, through     *)
(* crashes and remounts of the daemon, unlinks and renames.  That the entry  *)
(* above is a directory is the kernel's knowledge, not the daemon's.         *)
EXTENDS Integers, SequencesExt

CONSTANTS Names,
          Inodes,       \* of the entries made
          Roots         \* of the mount point

VARIABLE tree           \* path -> [kind, ino]

Init == \E r \in Roots : tree = [p \in {<<>>} |-> [kind |-> "dir", ino |-> r]]

\* One entry at a new path p, with an inode that no other entry has.
Make ==
    LET old == tree
        new == tree'
    IN  \E p \in DOMAIN new \ DOMAIN old :
            /\ DOMAIN new = DOMAIN old \cup {p}
            /\ \A q \in DOMAIN old : new[q] = old[q]  /\ old[q].ino # new[p].ino
            /\ p # <<>>  /\ Last(p) \in Names  /\ Front(p) \in DOMAIN old
            /\ new[p].kind \in {"file", "dir"}  /\ new[p].ino \in Inodes

Spec == Init /\ [][Make]_tree
===============================================================================

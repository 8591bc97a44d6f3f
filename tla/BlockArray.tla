------------------------------ MODULE BlockArray ------------------------------
(* What the block store promises while the daemon runs: every file is an     *)
(* array of blocks and a size inside it.  One step changes one file, by one  *)
(* block or by dropping a tail; when a drop leaves the size outside the      *)
(* array, the next step of that file sets its size.                          *)
EXTENDS BlockMath, Sequences

CONSTANTS Inodes

VARIABLES array,        \* inode -> the blocks of the file
          size          \* inode of a file -> its size

Init == array = [i \in Inodes |-> <<>>] /\ size = <<>>

SizeInside(i) == i \in DOMAIN size => OrderOf(size[i]) < Len(array[i])

Extend(i) == /\ SizeInside(i)
             /\ array' = [array EXCEPT ![i] = Append(@, ZeroBlock)]
             /\ UNCHANGED size

Put(i) == /\ SizeInside(i)
          /\ \E n \in DOMAIN array[i], b \in Block : array' = [array EXCEPT ![i][n] = b]
          /\ UNCHANGED size

\* The first block of a file is never dropped.
DropTail(i) == /\ SizeInside(i)
               /\ \E n \in 1 .. Len(array[i]) : array' = [array EXCEPT ![i] = SubSeq(@, 1, n)]
               /\ UNCHANGED size

Create(i) == /\ i \notin DOMAIN size  /\ array[i] # <<>>
             /\ size' = [j \in DOMAIN size \cup {i} |-> IF j = i THEN 0 ELSE size[j]]
             /\ UNCHANGED array

Resize(i) == /\ i \in DOMAIN size
             /\ \E n \in 0 .. Len(array[i]) * BLOCK_SIZE - 1 : size' = [size EXCEPT ![i] = n]
             /\ UNCHANGED array

Next == \E i \in Inodes : Extend(i) \/ Put(i) \/ DropTail(i) \/ Create(i) \/ Resize(i)

Spec == Init /\ [][Next]_<<array, size>>
===============================================================================

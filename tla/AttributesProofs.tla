--------------------------- MODULE AttributesProofs ---------------------------
(* Theorems of Attributes, for every width of an int, every size of a block  *)
(* and every set of sizes that programs ask for.                             *)
EXTENDS Attributes, TLAPS

Alive == dead = "no"

(* A document is what to_document made of what was asked for: of its kind,   *)
(* with its owner's permissions.  A directory has the missing size.          *)
DocumentInv ==
    /\ dead # "no" => doc # None
    /\ doc = None <=> asked = None
    /\ doc # None => /\ doc.kind = asked.kind  /\ doc.mode.user = asked.mode.user
                     /\ asked.size \in 0 .. largest
    /\ doc # None /\ doc.kind = "dir" => doc.size = Missing /\ asked.size = 0 /\ blocks = 0

(* The size of a file: the one last asked for as long as an int holds it; it *)
(* looks missing only once one was asked for that an int takes for -1.  The  *)
(* blocks are those of the stored size as long as nothing was asked for that *)
(* wraps an unsigned int.                                                    *)
SizeInv ==
    /\ doc # None /\ doc.kind = "file" =>
          /\ FitsInt(asked.size) => doc.size = asked.size
          /\ doc.size = Missing => largest >= IntRange - 1
          /\ Alive /\ largest < IntRange => blocks = IntBlocks(doc.size)
    /\ SizePresent /\ WritesFindBlocks

EntryInv == TypeOK /\ DocumentInv /\ SizeInv

-----------------------------------------------------------------------------
(* Arithmetic of ints and blocks.                                            *)

\* Quotients and remainders are numbers, and a remainder is below the divisor.
LEMMA Division == ASSUME NEW n \in Int, NEW m \in Nat \ {0}
                  PROVE  n \div m \in Int /\ n % m \in 0 .. m - 1 /\ (n \in Nat => n \div m \in Nat)
OBVIOUS

\* A number from 0 to m - 1 is its own remainder.
LEMMA SmallMod == ASSUME NEW m \in Nat \ {0}, NEW n \in 0 .. m - 1 PROVE n % m = n
OBVIOUS

\* Taking the divisor away leaves the remainder as it is.
LEMMA WrapMod == ASSUME NEW m \in Nat \ {0}, NEW n \in 0 .. m - 1 PROVE (n - m) % m = n
OBVIOUS

\* A remainder is no larger than the number.
LEMMA ModSmaller == ASSUME NEW m \in Nat \ {0}, NEW n \in Nat PROVE n % m <= n
OBVIOUS

\* Division keeps the order.
LEMMA DivMonotone == ASSUME NEW m \in Nat \ {0}, NEW a \in Int, NEW b \in Int, a <= b
                     PROVE  a \div m <= b \div m
OBVIOUS

\* Half of the values of an int are negative.
LEMMA HalfRange == /\ IntRange \in Nat \ {0}  /\ BLOCK_SIZE \in Nat \ {0}
                   /\ IntRange \div 2 \in Nat  /\ IntRange = 2 * (IntRange \div 2)
BY SizesAssumption

\* An int keeps a size that it holds, and as an unsigned int one below
\* IntRange; only sizes from IntRange - 1 on become the missing one.
LEMMA ToIntMeaning ==
    ASSUME NEW n \in Nat
    PROVE  /\ ToInt(n) \in -(IntRange \div 2) .. IntRange \div 2 - 1
           /\ FitsInt(n) => ToInt(n) = n
           /\ ToInt(n) % IntRange = n % IntRange
           /\ n < IntRange => ToInt(n) % IntRange = n
           /\ ToInt(n) = Missing => n >= IntRange - 1
<1> DEFINE h == IntRange \div 2
           m == n % IntRange
<1>1. h \in Nat /\ IntRange = 2 * h /\ IntRange \in Nat \ {0}
  BY HalfRange
<1>2. m \in 0 .. IntRange - 1
  BY <1>1, Division
<1>3. m <= n
  BY <1>1, ModSmaller
<1>4. n < IntRange => m = n
  BY <1>1, SmallMod
<1>5. ToInt(n) = IF m >= h THEN m - IntRange ELSE m
  BY DEF ToInt
<1>6. m % IntRange = m /\ (m - IntRange) % IntRange = m
  BY <1>1, <1>2, SmallMod, WrapMod
<1> HIDE DEF h, m
<1>7. ToInt(n) \in -h .. h - 1
  BY <1>1, <1>2, <1>5
<1>8. FitsInt(n) => ToInt(n) = n
  BY <1>1, <1>4, <1>5 DEF FitsInt, h
<1>9. ToInt(n) % IntRange = m
  BY <1>5, <1>6
<1>10. ToInt(n) = Missing => n >= IntRange - 1
  BY <1>1, <1>2, <1>3, <1>5 DEF Missing
<1> QED
  BY <1>4, <1>7, <1>8, <1>9, <1>10 DEF h, m

\* The counts of blocks are positive, and an int that the size has not wrapped
\* counts as many as the size.
LEMMA BlockCounts ==
    /\ \A n \in Nat : Blocks(n) \in Nat \ {0}
    /\ \A n \in Int : IntBlocks(n) \in Nat \ {0}
    /\ \A n \in Nat : n < IntRange => IntBlocks(n) = Blocks(n) /\ IntBlocks(ToInt(n)) = Blocks(n)
<1>1. ASSUME NEW n \in Nat PROVE Blocks(n) \in Nat \ {0}
  BY HalfRange, Division DEF Blocks
<1>2. ASSUME NEW n \in Int PROVE IntBlocks(n) \in Nat \ {0}
  <2>1. n % IntRange \in Nat
    BY HalfRange, Division
  <2>2. (n % IntRange) \div BLOCK_SIZE \in Nat
    BY <2>1, HalfRange, Division
  <2> QED BY <2>2 DEF IntBlocks
<1>3. ASSUME NEW n \in Nat, n < IntRange
      PROVE  IntBlocks(n) = Blocks(n) /\ IntBlocks(ToInt(n)) = Blocks(n)
  <2>1. n % IntRange = n
    BY <1>3, HalfRange, SmallMod
  <2>2. ToInt(n) % IntRange = n
    BY <1>3, ToIntMeaning
  <2> QED BY <2>1, <2>2 DEF IntBlocks, Blocks
<1> QED BY <1>1, <1>2, <1>3

\* A position below the end of a size lies in one of its blocks.
LEMMA OrderInBlocks ==
    ASSUME NEW p \in Nat, NEW n \in Nat, p <= n
    PROVE  OrderOf(p) \in Nat /\ OrderOf(p) < Blocks(n)
<1> DEFINE m == p % IntRange
<1>1. m \in Nat /\ m <= n
  BY HalfRange, Division, ModSmaller
<1>2. OrderOf(p) = m \div BLOCK_SIZE
  BY ToIntMeaning DEF OrderOf
<1> HIDE DEF m
<1>3. m \div BLOCK_SIZE \in Nat /\ n \div BLOCK_SIZE \in Nat
  BY <1>1, HalfRange, Division
<1>4. m \div BLOCK_SIZE <= n \div BLOCK_SIZE
  BY <1>1, HalfRange, DivMonotone
<1> QED BY <1>2, <1>3, <1>4 DEF Blocks

-----------------------------------------------------------------------------
(* The invariant and the steps.                                              *)

\* What a state that satisfies the invariant says of its document.
LEMMA DocumentMeaning ==
    ASSUME EntryInv, doc # None
    PROVE  /\ doc \in Entry  /\ asked \in Entry  /\ asked # None
           /\ doc.kind \in {"file", "dir"}  /\ doc.size \in Int  /\ asked.size \in Int
           /\ largest \in Nat  /\ blocks \in Nat
           /\ Size = doc.size
<1>1. doc \in Entry /\ asked \in Entry /\ asked # None
  BY DEF EntryInv, TypeOK, DocumentInv
<1>2. Size = doc.size
  BY <1>1 DEF Size, FromDocument, Entry
<1> QED
  BY <1>1, <1>2 DEF EntryInv, TypeOK, Entry

\* A file is made with the size 0 and one block, a directory with neither.
LEMMA MakeEntry ==
    ASSUME EntryInv, NEW kind \in {"file", "dir"}, NEW mode \in Modes, Make(kind, mode)
    PROVE  EntryInv'
<1>1. mode \in Mode /\ FromModeT(mode) \in Mode /\ FromModeT(FromModeT(mode)) \in Mode
      /\ FromModeT(FromModeT(mode)).user = mode.user
  BY ModesAssumption DEF FromModeT, Mode
<1>2. now \in 0 .. MaxTime /\ largest \in Nat /\ blocks \in Nat
  BY DEF EntryInv, TypeOK
<1> DEFINE size == IF kind = "file" THEN 0 ELSE Missing
<1>3. asked' = [kind |-> kind, mode |-> mode, time |-> now, size |-> 0]
  BY DEF Make
<1>4. doc' = [kind |-> kind, mode |-> FromModeT(FromModeT(mode)), time |-> now, size |-> size]
  BY DEF Make, ToDocument
<1>5. blocks' = (IF kind = "file" THEN 1 ELSE 0) /\ UNCHANGED <<now, largest, stat, dead>> /\ doc = None
  BY DEF Make
<1>6. size \in Int /\ size \in -(IntRange \div 2) .. IntRange \div 2 - 1
  BY HalfRange, IntRange \div 2 >= 1, SizesAssumption DEF Missing
<1>7. dead = "no"
  BY <1>5 DEF EntryInv, DocumentInv
<1>8. asked' \in Entry /\ doc' \in Entry /\ doc' # None /\ asked' # None
  BY <1>1, <1>2, <1>3, <1>4, <1>6 DEF Entry, None
<1>9. TypeOK'
  BY <1>2, <1>3, <1>4, <1>5, <1>6, <1>7, <1>8 DEF EntryInv, TypeOK
<1>10. DocumentInv'
  BY <1>1, <1>2, <1>3, <1>4, <1>5, <1>7, <1>8 DEF DocumentInv
<1>11. IntBlocks(0) = 1
  <2>1. 0 % IntRange = 0 /\ 0 \div BLOCK_SIZE = 0
    BY HalfRange
  <2> QED BY <2>1 DEF IntBlocks
<1>12. SizeInv'
  BY <1>3, <1>4, <1>5, <1>7, <1>11 DEF SizeInv, Missing, SizePresent, WritesFindBlocks
<1> QED
  BY <1>9, <1>10, <1>12 DEF EntryInv

\* What Store leaves of the request and of the largest size.
LEMMA StoreMeaning ==
    ASSUME EntryInv, doc # None, NEW n \in Nat, Store(n)
    PROVE  /\ asked' \in Entry  /\ asked'.kind = asked.kind  /\ asked'.mode = asked.mode
           /\ asked'.size = n  /\ asked' # None
           /\ largest' \in Nat  /\ n <= largest'  /\ largest <= largest'
<1>1. asked \in Entry /\ largest \in Nat
  BY DocumentMeaning
<1>2. asked' = [asked EXCEPT !.size = n] /\ largest' = IF n > largest THEN n ELSE largest
  BY DEF Store
<1>3. asked' \in Entry /\ asked'.kind = asked.kind /\ asked'.mode = asked.mode /\ asked'.size = n
  BY <1>1, <1>2 DEF Entry
<1> QED
  BY <1>1, <1>2, <1>3 DEF Entry, None

\* What a change of the stored size leaves of the document.
LEMMA ResizeMeaning ==
    ASSUME EntryInv, doc # None, NEW n \in Nat, doc' = [doc EXCEPT !.size = ToInt(n)]
    PROVE  /\ doc' \in Entry  /\ doc' # None  /\ doc'.kind = doc.kind  /\ doc'.mode = doc.mode
           /\ doc'.size = ToInt(n)
<1>1. doc \in Entry
  BY DocumentMeaning
<1>2. ToInt(n) \in Int
  BY ToIntMeaning, HalfRange
<1>3. doc' \in Entry /\ doc'.kind = doc.kind /\ doc'.mode = doc.mode /\ doc'.size = ToInt(n)
  BY <1>1, <1>2 DEF Entry
<1> QED
  BY <1>3 DEF Entry, None

\* truncate stores the size and, while nothing wraps, keeps its blocks.
LEMMA TruncateEntry ==
    ASSUME EntryInv, NEW n \in Sizes, Truncate(n)
    PROVE  EntryInv'
<1>1. n \in Nat
  BY SizesAssumption
<1>2. doc # None /\ doc.kind = "file" /\ dead = "no" /\ doc.size # Missing /\ Store(n)
      /\ UNCHANGED <<now, stat, dead>>
  BY DocumentMeaning DEF Truncate, Serves, IsFile
<1>3. /\ doc \in Entry  /\ asked \in Entry  /\ doc.size \in Int  /\ asked.size \in Int
      /\ largest \in Nat  /\ blocks \in Nat  /\ Size = doc.size  /\ asked.size <= largest
      /\ asked.kind = doc.kind  /\ asked.mode.user = doc.mode.user
  BY <1>2, DocumentMeaning DEF EntryInv, DocumentInv
<1>4. /\ asked' \in Entry  /\ asked'.kind = asked.kind  /\ asked'.mode = asked.mode
      /\ asked'.size = n  /\ asked' # None
      /\ largest' \in Nat  /\ n <= largest'  /\ largest <= largest'
  BY <1>1, <1>2, StoreMeaning
<1>5. /\ ToInt(n) \in -(IntRange \div 2) .. IntRange \div 2 - 1
      /\ FitsInt(n) => ToInt(n) = n
      /\ ToInt(n) = Missing => n >= IntRange - 1
  BY <1>1, ToIntMeaning
<1>6. Blocks(n) \in Nat \ {0} /\ IntBlocks(doc.size) \in Nat \ {0}
      /\ (n < IntRange => IntBlocks(n) = Blocks(n) /\ IntBlocks(ToInt(n)) = Blocks(n))
  BY <1>1, <1>3, BlockCounts
<1>7. \/ doc.size = n /\ UNCHANGED <<doc, blocks>>
      \/ /\ doc.size # n  /\ doc' = [doc EXCEPT !.size = ToInt(n)]
         /\ \/ IntBlocks(doc.size) < Blocks(n) /\ blocks' = blocks + (Blocks(n) - IntBlocks(doc.size))
            \/ IntBlocks(doc.size) > Blocks(n) /\ blocks > Blocks(n) /\ blocks' = Blocks(n)
            \/ ~(IntBlocks(doc.size) < Blocks(n)) /\ ~(IntBlocks(doc.size) > Blocks(n) /\ blocks > Blocks(n))
               /\ blocks' = blocks
  BY <1>3, <1>6 DEF Truncate
<1>8. /\ doc' \in Entry  /\ doc' # None  /\ doc'.kind = doc.kind  /\ doc'.mode = doc.mode
      /\ (doc'.size = doc.size /\ doc.size = n) \/ doc'.size = ToInt(n)
  BY <1>1, <1>2, <1>3, <1>7, ResizeMeaning
<1>9. blocks' \in Nat
  BY <1>3, <1>6, <1>7
<1>10. doc'.size \in -(IntRange \div 2) .. IntRange \div 2 - 1
  BY <1>2, <1>5, <1>8 DEF EntryInv, TypeOK
<1>11. TypeOK'
  BY <1>2, <1>4, <1>8, <1>9, <1>10 DEF EntryInv, TypeOK
<1>12. DocumentInv'
  BY <1>1, <1>2, <1>3, <1>4, <1>8 DEF DocumentInv
<1>13. ASSUME largest' < IntRange PROVE blocks' = IntBlocks(doc'.size)
  <2>1. largest < IntRange /\ n < IntRange
    BY <1>1, <1>3, <1>4, <1>13, HalfRange
  <2>2. blocks = IntBlocks(doc.size)
    BY <1>2, <2>1 DEF EntryInv, SizeInv, Alive
  <2>3. IntBlocks(doc'.size) = Blocks(n)
    BY <1>6, <1>8, <2>1
  <2>4. CASE doc.size = n /\ UNCHANGED <<doc, blocks>>
    BY <2>2, <2>4
  <2>5. CASE doc.size # n
    BY <1>3, <1>6, <1>7, <2>2, <2>3, <2>5
  <2> QED
    BY <1>7, <2>4, <2>5
<1>14. doc'.size = Missing => largest' >= IntRange - 1
  BY <1>1, <1>2, <1>4, <1>5, <1>8, HalfRange
<1>15. FitsInt(asked'.size) => doc'.size = asked'.size
  BY <1>4, <1>5, <1>8
<1>16. SizeInv'
  BY <1>2, <1>13, <1>14, <1>15 DEF SizeInv, SizePresent, WritesFindBlocks
<1> QED
  BY <1>11, <1>12, <1>16 DEF EntryInv

\* A write that dies for want of a block was of a file that was given a size
\* that an int does not hold: otherwise the blocks of its size, with those that
\* the write adds for its end, cover every position it writes.
LEMMA WriteFinds ==
    ASSUME EntryInv, doc # None, doc.kind = "file", dead = "no", FitsInt(largest),
           NEW end \in Nat, NEW p \in Nat, p < end
    PROVE  LET grows == doc.size >= 0 /\ end > doc.size
               need  == Blocks(end) - IntBlocks(doc.size)
           IN  OrderOf(p) < blocks + IF grows /\ need > 0 THEN need ELSE 0
<1>1. asked.size \in Nat /\ asked.size <= largest /\ largest \in Nat /\ blocks \in Nat /\ doc.size \in Int
  BY DocumentMeaning DEF EntryInv, DocumentInv
<1>2. asked.size < IntRange \div 2 /\ largest < IntRange
  BY <1>1, HalfRange DEF FitsInt
<1>3. doc.size = asked.size /\ blocks = IntBlocks(doc.size)
  BY <1>2 DEF EntryInv, SizeInv, Alive, FitsInt
<1>4. blocks \in Nat \ {0} /\ Blocks(end) \in Nat \ {0}
  BY <1>1, <1>3, BlockCounts
<1>5. OrderOf(p) \in Nat /\ OrderOf(p) < Blocks(end)
  BY OrderInBlocks
<1>6. CASE doc.size >= 0 /\ end > doc.size
  BY <1>3, <1>4, <1>5, <1>6
<1>7. CASE doc.size >= 0 /\ end <= doc.size
  <2>1. doc.size \in Nat /\ doc.size < IntRange /\ p <= doc.size
    BY <1>1, <1>2, <1>3, <1>7, HalfRange
  <2>2. OrderOf(p) < Blocks(doc.size) /\ IntBlocks(doc.size) = Blocks(doc.size)
    BY <2>1, OrderInBlocks, BlockCounts
  <2> QED
    BY <1>1, <1>3, <1>7, <2>2
<1>8. doc.size >= 0
  BY <1>1, <1>3
<1> QED
  BY <1>1, <1>6, <1>7, <1>8


\* write_buf stores the end of a write that grows the file, with its blocks.
LEMMA WriteEntry ==
    ASSUME EntryInv, NEW off \in Sizes, NEW end \in Sizes, Write(off, end)
    PROVE  EntryInv'
<1> DEFINE grows == doc.size >= 0 /\ end > doc.size
           need  == Blocks(end) - IntBlocks(doc.size)
           have  == blocks + IF grows /\ need > 0 THEN need ELSE 0
           miss  == \E p \in off .. end - 1 : OrderOf(p) >= have
           n     == IF end > asked.size THEN end ELSE asked.size
<1>1. off \in Nat /\ end \in Nat
  BY SizesAssumption
<1>2. doc # None /\ doc.kind = "file" /\ dead = "no"
  BY DEF Write, Serves, IsFile
<1>3. /\ doc \in Entry  /\ asked \in Entry  /\ doc.size \in Int  /\ asked.size \in Nat
      /\ largest \in Nat  /\ blocks \in Nat  /\ Size = doc.size  /\ asked.size <= largest
      /\ asked.kind = doc.kind  /\ asked.mode.user = doc.mode.user  /\ asked # None
  BY <1>2, DocumentMeaning DEF EntryInv, DocumentInv
<1>4. /\ doc.size # Missing  /\ UNCHANGED <<now, stat>>  /\ blocks' = have
      /\ IF miss THEN dead' = "block" /\ UNCHANGED <<doc, asked, largest>>
         ELSE /\ doc' = IF grows THEN [doc EXCEPT !.size = ToInt(end)] ELSE doc
              /\ Store(n)
              /\ UNCHANGED dead
  BY <1>3 DEF Write
<1>5. Blocks(end) \in Nat \ {0} /\ IntBlocks(doc.size) \in Nat \ {0}
      /\ (end < IntRange => IntBlocks(end) = Blocks(end) /\ IntBlocks(ToInt(end)) = Blocks(end))
  BY <1>1, <1>3, BlockCounts
<1>6. need \in Int
  BY <1>5
<1>7. have \in Nat
  BY <1>3, <1>6
<1>8. n \in Nat
  BY <1>1, <1>3
<1>9. CASE miss
  <2>1. dead' = "block" /\ UNCHANGED <<doc, asked, largest, now, stat>> /\ blocks' \in Nat
    BY <1>4, <1>7, <1>9
  <2>2. TypeOK'
    BY <2>1 DEF EntryInv, TypeOK
  <2>3. DocumentInv'
    BY <1>2, <2>1 DEF EntryInv, DocumentInv
  <2>4. ~FitsInt(largest)
    <3>1. SUFFICES ASSUME FitsInt(largest) PROVE FALSE
      OBVIOUS
    <3>2. PICK p \in off .. end - 1 : OrderOf(p) >= have
      BY <1>9
    <3>3. p \in Nat /\ p < end
      BY <1>1
    <3>4. OrderOf(p) < have
      BY <1>1, <1>2, <3>1, <3>3, WriteFinds
    <3>5. OrderOf(p) \in Nat
      BY <1>1, <3>3, OrderInBlocks
    <3> QED
      BY <1>7, <3>2, <3>4, <3>5
  <2>5. SizeInv'
    BY <1>2, <2>1, <2>4 DEF EntryInv, SizeInv, SizePresent, WritesFindBlocks, Alive, FitsInt
  <2> QED
    BY <2>2, <2>3, <2>5 DEF EntryInv
<1>10. CASE ~miss
  <2>1. /\ doc' = (IF grows THEN [doc EXCEPT !.size = ToInt(end)] ELSE doc)
        /\ Store(n)  /\ UNCHANGED <<now, stat, dead>>
    BY <1>4, <1>10
  <2>2. /\ asked' \in Entry  /\ asked'.kind = asked.kind  /\ asked'.mode = asked.mode
        /\ asked'.size = n  /\ asked' # None
        /\ largest' \in Nat  /\ n <= largest'  /\ largest <= largest'
    BY <1>2, <1>8, <2>1, StoreMeaning
  <2>3. /\ ToInt(end) \in -(IntRange \div 2) .. IntRange \div 2 - 1
        /\ FitsInt(end) => ToInt(end) = end
        /\ ToInt(end) = Missing => end >= IntRange - 1
    BY <1>1, ToIntMeaning
  <2>4. /\ doc' \in Entry  /\ doc' # None  /\ doc'.kind = doc.kind  /\ doc'.mode = doc.mode
        /\ IF grows THEN doc'.size = ToInt(end) ELSE doc'.size = doc.size
    BY <1>1, <1>2, <1>3, <2>1, ResizeMeaning
  <2>5. doc'.size \in -(IntRange \div 2) .. IntRange \div 2 - 1
    BY <1>2, <2>3, <2>4 DEF EntryInv, TypeOK
  <2>6. end <= n /\ asked.size <= n /\ n \in {end, asked.size}
    BY <1>1, <1>3
  <2> HIDE DEF miss, have, n
  <2>7. TypeOK'
    BY <1>4, <1>7, <2>1, <2>2, <2>4, <2>5 DEF EntryInv, TypeOK
  <2>8. DocumentInv'
    BY <1>2, <1>3, <1>8, <2>1, <2>2, <2>4 DEF DocumentInv
  <2>9. FitsInt(asked'.size) => doc'.size = asked'.size
    <3>1. SUFFICES ASSUME FitsInt(n) PROVE doc'.size = n
      BY <2>2
    <3>2. FitsInt(end) /\ FitsInt(asked.size)
      BY <1>1, <1>3, <1>8, <2>6, <3>1, HalfRange DEF FitsInt
    <3>3. doc.size = asked.size
      BY <1>2, <3>2 DEF EntryInv, SizeInv
    <3> QED
      BY <1>1, <1>3, <2>3, <2>4, <3>2, <3>3 DEF n
  <2>10. doc'.size = Missing => largest' >= IntRange - 1
    <3>1. largest >= IntRange - 1 => largest' >= IntRange - 1
      BY <1>3, <2>2, HalfRange
    <3>2. end >= IntRange - 1 => largest' >= IntRange - 1
      BY <1>1, <1>8, <2>2, <2>6, HalfRange
    <3> QED
      BY <1>4, <2>3, <2>4, <3>2
  <2>11. ASSUME largest' < IntRange PROVE blocks' = IntBlocks(doc'.size)
    <3>1. largest < IntRange /\ end < IntRange
      BY <1>1, <1>3, <1>8, <2>2, <2>6, <2>11, HalfRange
    <3>2. blocks = IntBlocks(doc.size)
      BY <1>2, <3>1 DEF EntryInv, SizeInv, Alive
    <3>3. CASE grows
      <4>1. doc'.size = ToInt(end) /\ IntBlocks(ToInt(end)) = Blocks(end)
        BY <1>5, <2>4, <3>1, <3>3
      <4>2. FitsInt(doc.size) /\ doc.size \in Nat
        BY <1>2, <1>3, <3>3, HalfRange DEF EntryInv, TypeOK, FitsInt
      <4>3. IntBlocks(doc.size) = Blocks(doc.size) /\ Blocks(doc.size) <= Blocks(end)
        <5>1. doc.size < IntRange
          BY <4>2, HalfRange DEF FitsInt
        <5>2. doc.size \div BLOCK_SIZE <= end \div BLOCK_SIZE
          BY <1>1, <3>3, <4>2, HalfRange, DivMonotone
        <5>3. doc.size \div BLOCK_SIZE \in Int
          BY <1>3, HalfRange, Division
        <5>4. end \div BLOCK_SIZE \in Int
          BY <1>1, HalfRange, Division
        <5> QED
          BY <4>2, <5>1, <5>2, <5>3, <5>4, BlockCounts DEF Blocks
      <4>4. have = Blocks(end)
        BY <1>5, <3>2, <3>3, <4>3 DEF have
      <4> QED
        BY <1>4, <4>1, <4>4
    <3>4. CASE ~grows
      BY <1>3, <1>4, <2>4, <3>2, <3>4 DEF have
    <3> QED
      BY <3>3, <3>4
  <2>12. SizeInv'
    BY <1>2, <2>1, <2>9, <2>10, <2>11 DEF SizeInv, SizePresent, WritesFindBlocks
  <2> QED
    BY <2>7, <2>8, <2>12 DEF EntryInv
<1> QED
  BY <1>9, <1>10

\* A call that finds the size missing is of a file whose size looks missing.
LEMMA ThrowEntry == ASSUME EntryInv, SizeThrows PROVE EntryInv'
<1>1. /\ doc # None  /\ doc.kind = "file"  /\ dead = "no"  /\ doc.size = Missing  /\ dead' = "size"
      /\ UNCHANGED <<now, doc, blocks, asked, largest, stat>>
  BY DocumentMeaning DEF SizeThrows, Serves, IsFile
<1>2. TypeOK' /\ DocumentInv'
  BY <1>1 DEF EntryInv, TypeOK, DocumentInv
<1>3. SizeInv'
  BY <1>1 DEF EntryInv, SizeInv, SizePresent, WritesFindBlocks, Alive, FitsInt
<1> QED
  BY <1>2, <1>3 DEF EntryInv

\* What getattr answers.
LEMMA GetattrMeaning ==
    ASSUME EntryInv, Getattr
    PROVE  /\ stat' \in [e : Entry, blocks : Nat]
           /\ stat'.e.kind = doc.kind  /\ stat'.e.mode = doc.mode
           /\ stat'.e.size = IF doc.size = Missing THEN 0 ELSE doc.size
           /\ stat'.blocks = IF doc.size = Missing THEN 0 ELSE IntBlocks(doc.size)
<1> DEFINE d == [doc EXCEPT !.time = now]
           s == IF doc.size = Missing THEN 0 ELSE doc.size
           e == [d EXCEPT !.size = s]
           b == IF doc.size = Missing THEN 0 ELSE IntBlocks(doc.size)
<1>1. doc # None /\ doc \in Entry /\ doc.size \in Int
  BY DocumentMeaning DEF Getattr
<1>2. now \in 0 .. MaxTime
  BY DEF EntryInv, TypeOK
<1>3. d \in Entry /\ d.kind = doc.kind /\ d.mode = doc.mode /\ d.size = doc.size
  BY <1>1, <1>2 DEF Entry
<1>4. b \in Nat /\ s \in Int
  BY <1>1, BlockCounts
<1>5. stat' = [e |-> e, blocks |-> b]
  BY <1>3 DEF Getattr, ToStat, FromDocument
<1> HIDE DEF d, s, b
<1>6. e \in Entry /\ e.kind = d.kind /\ e.mode = d.mode /\ e.size = s
  BY <1>3, <1>4 DEF Entry
<1> HIDE DEF e
<1>7. stat' \in [e : Entry, blocks : Nat] /\ stat'.e = e /\ stat'.blocks = b
  BY <1>4, <1>5, <1>6
<1> QED
  BY <1>3, <1>6, <1>7 DEF s, b

\* getattr and the clock change neither document nor blocks.
LEMMA QuietEntry ==
    ASSUME EntryInv, Getattr \/ Tick \/ UNCHANGED vars
    PROVE  EntryInv'
<1>1. UNCHANGED <<doc, blocks, asked, largest, dead>>
  BY DEF Getattr, Tick, vars
<1>2. stat' \in [e : Entry, blocks : Nat] \cup {None}
  BY GetattrMeaning DEF Tick, vars, EntryInv, TypeOK
<1>3. now' \in 0 .. MaxTime
  BY SizesAssumption DEF Getattr, Tick, vars, EntryInv, TypeOK
<1>4. TypeOK'
  BY <1>1, <1>2, <1>3 DEF EntryInv, TypeOK
<1>5. DocumentInv' /\ SizeInv'
  BY <1>1 DEF EntryInv, DocumentInv, SizeInv, SizePresent, WritesFindBlocks, Alive, FitsInt
<1> QED
  BY <1>4, <1>5 DEF EntryInv


\* Every step keeps the invariant.
LEMMA NextEntry == ASSUME EntryInv, [Next]_vars PROVE EntryInv'
<1>1. CASE \E kind \in {"file", "dir"}, mode \in Modes : Make(kind, mode)
  BY <1>1, MakeEntry
<1>2. CASE \E n \in Sizes : Truncate(n)
  BY <1>2, TruncateEntry
<1>3. CASE \E n \in Sizes, off \in Sizes : Write(off, n)
  BY <1>3, WriteEntry
<1>4. CASE SizeThrows
  BY <1>4, ThrowEntry
<1>5. CASE Getattr \/ Tick \/ UNCHANGED vars
  BY <1>5, QuietEntry
<1> QED
  BY <1>1, <1>2, <1>3, <1>4, <1>5 DEF Next

\* Before the request there is no document, and no one has died.
LEMMA InitEntry == Init => EntryInv
<1> SUFFICES ASSUME Init PROVE EntryInv
  OBVIOUS
<1>1. TypeOK
  BY SizesAssumption DEF Init, TypeOK
<1>2. DocumentInv /\ SizeInv
  BY <1>1 DEF Init, DocumentInv, SizeInv, SizePresent, WritesFindBlocks, None
<1> QED
  BY <1>1, <1>2 DEF EntryInv

\* The invariant holds of every reachable state, for ints of any width and
\* blocks of any size.
THEOREM EntryInvHolds == Spec => []EntryInv
BY InitEntry, NextEntry, PTL DEF Spec

\* Documents, requests and answers have their fields and a stored size is an
\* int (TypeOK): to_document and bson_to_md_entry, one after the other, never
\* make an entry that the next call cannot read.
THEOREM TypeOKHolds == Spec => []TypeOK
<1>1. EntryInv => TypeOK
  BY DEF EntryInv
<1> QED
  BY <1>1, EntryInvHolds, PTL

\* Only a size that an int takes for -1, or one after it, makes a call of
\* truncate or write_buf find no size and throw.
THEOREM SizePresentHolds == Spec => []SizePresent
<1>1. EntryInv => SizePresent
  BY DEF EntryInv, SizeInv
<1> QED
  BY <1>1, EntryInvHolds, PTL

\* A write finds every block that it needs, which its own growth loop or an
\* earlier call has made, as long as sizes fit an int.
THEOREM WritesFindBlocksHolds == Spec => []WritesFindBlocks
<1>1. EntryInv => WritesFindBlocks
  BY DEF EntryInv, SizeInv
<1> QED
  BY <1>1, EntryInvHolds, PTL

\* truncate and write_buf keep size / BLOCK_SIZE + 1 blocks for each size that
\* an int holds, whatever unsigned sizes came between.
THEOREM BlocksAgreeHolds == Spec => []BlocksAgree
<1>1. ASSUME EntryInv, IsFile, FitsInt(asked.size), largest < IntRange
      PROVE  blocks = Blocks(asked.size)
  <2>1. doc # None /\ doc.kind = "file" /\ dead = "no"
    BY <1>1 DEF IsFile
  <2>2. asked.size \in Nat /\ asked.size < IntRange
    BY <1>1, <2>1, HalfRange DEF EntryInv, DocumentInv, TypeOK, FitsInt
  <2>3. doc.size = asked.size /\ blocks = IntBlocks(doc.size)
    BY <1>1, <2>1 DEF EntryInv, SizeInv, Alive
  <2> QED
    BY <2>2, <2>3, BlockCounts
<1>2. EntryInv => BlocksAgree
  BY <1>1 DEF BlocksAgree
<1> QED
  BY <1>2, EntryInvHolds, PTL

\* Only getattr changes the answer.
LEMMA OnlyGetattr == ASSUME [Next]_vars, stat' # stat PROVE Getattr
BY DEF Next, vars, Make, Truncate, Write, SizeThrows, Tick

\* getattr answers the kind and the owner's permissions that the entry was made
\* with, after every conversion on the way.
THEOREM OwnerKeptHolds == Spec => OwnerKept
<1>1. ASSUME EntryInv, [Next]_vars, stat' # stat
      PROVE  stat'.e.kind = asked.kind /\ stat'.e.mode.user = asked.mode.user
  <2>1. Getattr
    BY <1>1, OnlyGetattr
  <2>2. doc # None
    BY <2>1 DEF Getattr
  <2> QED
    BY <1>1, <2>1, <2>2, GetattrMeaning DEF EntryInv, DocumentInv
<1>2. EntryInv /\ [Next]_vars =>
        [stat' # stat => stat'.e.kind = asked.kind /\ stat'.e.mode.user = asked.mode.user]_vars
  BY <1>1
<1> QED
  BY <1>2, EntryInvHolds, PTL DEF Spec, OwnerKept

\* getattr answers the size that was last asked for, and the blocks that the
\* file has, as long as an int holds that size and no earlier one wrapped.
THEOREM StatAgreesHolds == Spec => StatAgrees
<1>1. ASSUME EntryInv, [Next]_vars, stat' # stat, FitsInt(asked.size), largest < IntRange
      PROVE  stat'.e.size = asked.size /\ stat'.blocks = blocks
  <2>1. Getattr
    BY <1>1, OnlyGetattr
  <2>2. doc # None /\ dead = "no"
    BY <2>1 DEF Getattr
  <2>3. /\ stat'.e.size = IF doc.size = Missing THEN 0 ELSE doc.size
        /\ stat'.blocks = IF doc.size = Missing THEN 0 ELSE IntBlocks(doc.size)
    BY <1>1, <2>1, GetattrMeaning
  <2>4. CASE doc.kind = "dir"
    BY <1>1, <2>2, <2>3, <2>4 DEF EntryInv, DocumentInv
  <2>5. CASE doc.kind = "file"
    <3>1. doc.size = asked.size /\ blocks = IntBlocks(doc.size) /\ asked.size \in Nat
      BY <1>1, <2>2, <2>5 DEF EntryInv, DocumentInv, SizeInv, TypeOK, Alive
    <3> QED
      BY <2>3, <3>1 DEF Missing
  <2> QED
    BY <1>1, <2>2, <2>4, <2>5, DocumentMeaning
<1>2. EntryInv /\ [Next]_vars =>
        [stat' # stat /\ FitsInt(asked.size) /\ largest < IntRange =>
            stat'.e.size = asked.size /\ stat'.blocks = blocks]_vars
  BY <1>1
<1> QED
  BY <1>2, EntryInvHolds, PTL DEF Spec, StatAgrees
=============================================================================

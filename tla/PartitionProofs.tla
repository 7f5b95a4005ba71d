--------------------------- MODULE PartitionProofs ---------------------------
(***************************************************************************)
(* The layout of the partition is sound for every start, length and slot   *)
(* size.  That the slots stay within the partition needs two counts: i is  *)
(* SlotBlocks for each length, and b is SlotBlocks past Start for each     *)
(* slot.  That they do not overlap needs only that each ends before b.     *)
(* From the layout it follows that the reader's positions are exact.  That *)
(* the writes of blocks are exact needs that a writer holds its slot       *)
(* alone, and stays within it.  That a slot reads what was successfully    *)
(* written needs that Erase finds no journal open.                         *)
(***************************************************************************)
EXTENDS Partition, SequenceTheorems, TLAPS

\* The prover, unless a step names another.
USE SMTT(30)

LayoutInv ==
    /\ phase \in {"geometry", "exit", "layout", "erase", "ready"}
    /\ bs \in BlockSizes
    /\ lengths \in Seq({SlotBlocks})
    /\ slots \in Seq([start : Nat, length : {SlotBlocks}])
    /\ i = Len(lengths) * SlotBlocks
    /\ b = Start + Len(slots) * SlotBlocks
    /\ Len(slots) <= Len(lengths)
    /\ phase = "geometry" => Len(slots) = 0
    /\ phase \in {"layout", "erase", "ready"} => i <= Length
    /\ phase = "exit" => Len(slots) = 0
    /\ \A k \in 1 .. Len(slots) : slots[k].start + slots[k].length <= b
    /\ LayoutSound
-----------------------------------------------------------------------------
\* A product with the slot size grows with its other factor.
LEMMA ProductSucc ==
    ASSUME NEW n \in Nat, NEW s \in Nat
    PROVE  (n + 1) * s = n * s + s
BY SMT

LEMMA ProductMono ==
    ASSUME NEW m \in Nat, NEW n \in Nat, NEW s \in Nat, m <= n
    PROVE  m * s <= n * s /\ m * s \in Nat
BY SMT

LEMMA DivBounds ==
    ASSUME NEW e \in Nat, NEW s \in Nat \ {0}
    PROVE  /\ e \div s \in Nat
           /\ (e \div s) * s <= e
           /\ e < (e \div s + 1) * s
BY SMT

\* A slot, and a transfer, has at least one block.
LEMMA BlocksType ==
    ASSUME LayoutInv
    PROVE  SlotBlocks \in Nat \ {0} /\ MaxTransfer \in Nat \ {0} /\ bs \in Nat \ {0}
<1>1. bs \in Nat \ {0} /\ bs <= SlotBytes /\ bs <= MaxTransferBytes
    BY PartitionConstants DEF LayoutInv
<1>2. ASSUME NEW e \in Nat, bs <= e PROVE e \div bs \in Nat \ {0}
    BY <1>1, <1>2, DivBounds
<1> QED
    BY <1>1, <1>2, PartitionConstants DEF SlotBlocks, MaxTransfer

LEMMA BlocksStay ==
    ASSUME UNCHANGED bs
    PROVE  UNCHANGED <<SlotBlocks, MaxTransfer>>
BY DEF SlotBlocks, MaxTransfer

\* The invariant depends on the variables of the layout only.
LEMMA LayoutUnchanged ==
    ASSUME LayoutInv, UNCHANGED <<phase, loops>>
    PROVE  LayoutInv'
<1>1. UNCHANGED SlotBlocks
    BY BlocksStay DEF loops
<1> QED
    BY <1>1 DEF LayoutInv, LayoutSound, Disjoint, loops

LEMMA LayoutInit ==
    Init => LayoutInv
<1> SUFFICES ASSUME Init PROVE LayoutInv
    OBVIOUS
<1>1. SlotBlocks \in Nat /\ Start \in Nat
    <2>1. bs \in Nat \ {0}
        BY PartitionConstants DEF Init
    <2> QED
        BY <2>1, DivBounds, PartitionConstants DEF SlotBlocks
<1> QED
    BY <1>1 DEF Init, LayoutInv, LayoutSound

LEMMA LengthStep ==
    ASSUME LayoutInv, AppendLength
    PROVE  LayoutInv'
<1>0. UNCHANGED SlotBlocks
    BY BlocksStay DEF AppendLength
<1>1. lengths' \in Seq({SlotBlocks}) /\ Len(lengths') = Len(lengths) + 1
    BY DEF LayoutInv, AppendLength
<1>2. Len(lengths) \in Nat
    BY DEF LayoutInv
<1>3. i' = Len(lengths') * SlotBlocks
    BY <1>1, <1>2, ProductSucc, BlocksType DEF LayoutInv, AppendLength
<1> QED
    BY <1>0, <1>1, <1>2, <1>3 DEF LayoutInv, LayoutSound, Disjoint, AppendLength

LEMMA ValidateStep ==
    ASSUME LayoutInv, Validate
    PROVE  LayoutInv'
<1>0. UNCHANGED SlotBlocks
    BY BlocksStay DEF Validate, loops
<1>1. i \in Nat
    BY ProductMono, BlocksType DEF LayoutInv
<1> QED
    BY <1>0, <1>1, PartitionConstants DEF LayoutInv, LayoutSound, Disjoint, Validate, loops

\* The new slot starts at b, where all the others have ended.
LEMMA SlotStep ==
    ASSUME LayoutInv, AppendSlot
    PROVE  LayoutInv'
<1> DEFINE n == Len(slots)
           new == [start |-> b, length |-> SlotBlocks]
<1>0. UNCHANGED SlotBlocks /\ SlotBlocks \in Nat
    BY BlocksStay, BlocksType DEF AppendSlot
<1>1. /\ n \in Nat /\ Len(lengths) \in Nat /\ n + 1 <= Len(lengths)
      /\ lengths[n + 1] = SlotBlocks
    BY DEF LayoutInv, AppendSlot
<1>2. slots' = Append(slots, new) /\ b' = b + SlotBlocks
    BY <1>1 DEF AppendSlot
<1>3. b \in Nat /\ n * SlotBlocks \in Nat
    <2>1. n * SlotBlocks \in Nat
        BY <1>1, ProductMono, <1>0, PartitionConstants
    <2>2. b = Start + n * SlotBlocks
        BY DEF LayoutInv
    <2> QED
        BY <2>1, <2>2, <1>0, PartitionConstants
<1>4. /\ slots' \in Seq([start : Nat, length : {SlotBlocks}]) /\ Len(slots') = n + 1
      /\ slots'[n + 1] = new
      /\ \A k \in 1 .. n : slots'[k] = slots[k]
    BY <1>1, <1>2, <1>3 DEF LayoutInv
<1>5. b' = Start + Len(slots') * SlotBlocks
    BY <1>1, <1>2, <1>3, <1>4, ProductSucc, <1>0, PartitionConstants DEF LayoutInv
<1>6. b' <= Start + Length
    <2>1. (n + 1) * SlotBlocks <= Len(lengths) * SlotBlocks
        BY <1>1, ProductMono, <1>0, PartitionConstants
    <2>2. (n + 1) * SlotBlocks \in Nat /\ Len(lengths) * SlotBlocks \in Nat
        BY <1>1, ProductMono, <1>0, PartitionConstants
    <2>3. Len(lengths) * SlotBlocks <= Length
        BY DEF LayoutInv, AppendSlot
    <2> QED
        BY <1>4, <1>5, <2>1, <2>2, <2>3, <1>0, PartitionConstants
<1>7. \A k \in 1 .. n : /\ slots[k].start \in Nat /\ slots[k].length = SlotBlocks
                        /\ slots[k].start + slots[k].length <= b
    <2>1. \A k \in 1 .. n : slots[k] \in [start : Nat, length : {SlotBlocks}]
        BY ElementOfSeq, Zenon DEF LayoutInv
    <2>2. \A k \in 1 .. n : slots[k].start + slots[k].length <= b
        BY DEF LayoutInv
    <2>3. \A k \in 1 .. n : slots[k].start \in Nat /\ slots[k].length = SlotBlocks
        BY <2>1
    <2> QED
        BY <2>2, <2>3
<1>8. \A k \in 1 .. Len(slots') : slots'[k].start + slots'[k].length <= b'
    BY <1>1, <1>2, <1>3, <1>4, <1>7, <1>0, PartitionConstants
<1>9. LayoutSound'
    <2> SUFFICES ASSUME NEW k \in 1 .. n + 1
                 PROVE  /\ Start <= slots'[k].start
                        /\ slots'[k].start + slots'[k].length <= Start + Length
                        /\ \A j \in 1 .. n + 1 : j # k => Disjoint(slots'[j], slots'[k])
        BY <1>4 DEF LayoutSound, Disjoint
    <2>1. CASE k \in 1 .. n
        <3>1. /\ Start <= slots[k].start
              /\ slots[k].start + slots[k].length <= Start + Length
              /\ \A j \in 1 .. n : j # k => Disjoint(slots[j], slots[k])
            BY <2>1 DEF LayoutInv, LayoutSound
        <3>2. slots'[k] = slots[k]
            BY <2>1, <1>4
        <3>3. Disjoint(slots'[n + 1], slots'[k])
            BY <2>1, <3>2, <1>4, <1>7 DEF Disjoint
        <3>4. \A j \in 1 .. n : j # k => Disjoint(slots'[j], slots'[k])
            BY <3>1, <3>2, <1>4
        <3>5. \A j \in 1 .. n + 1 : j \in 1 .. n \/ j = n + 1
            BY <1>1
        <3> QED
            BY <3>1, <3>2, <3>3, <3>4, <3>5
    <2>2. CASE k = n + 1
        <3>1. slots'[k].start = b /\ slots'[k].length = SlotBlocks
            BY <2>2, <1>4
        <3>2. Start <= b
            BY <1>3, <1>0, PartitionConstants DEF LayoutInv
        <3>3. slots'[k].start + slots'[k].length <= Start + Length
            BY <3>1, <1>2, <1>6
        <3>4. \A j \in 1 .. n : Disjoint(slots'[j], slots'[k])
            BY <3>1, <1>4, <1>7 DEF Disjoint
        <3>5. \A j \in 1 .. n + 1 : j # k => j \in 1 .. n
            BY <2>2, <1>1
        <3> QED
            BY <3>1, <3>2, <3>3, <3>4, <3>5
    <2> QED
        BY <1>1, <2>1, <2>2
<1> QED
    BY <1>0, <1>1, <1>3, <1>4, <1>5, <1>8, <1>9 DEF LayoutInv, AppendSlot

LEMMA OpenedStep ==
    ASSUME LayoutInv, Opened
    PROVE  LayoutInv'
<1>1. UNCHANGED SlotBlocks
    BY BlocksStay DEF Opened, loops
<1> QED
    BY <1>1 DEF LayoutInv, LayoutSound, Disjoint, Opened, loops

LEMMA LaterStep ==
    ASSUME LayoutInv,
           \/ eraseSlot \/ SlotErased \/ EraseReturns
           \/ \E p \in Procs : WriteRPC(p)
           \/ \E u \in Users : Use(u) \/ Used(u) \/ \E k \in 1 .. Len(slots) : Open(u, k)
    PROVE  LayoutInv'
<1>1. CASE EraseReturns
    <2>1. UNCHANGED SlotBlocks
        BY <1>1, BlocksStay DEF EraseReturns, loops
    <2> QED
        BY <1>1, <2>1 DEF LayoutInv, LayoutSound, Disjoint, EraseReturns, loops
<1>2. CASE ~EraseReturns
    <2>1. UNCHANGED <<phase, loops>>
        BY <1>2, Zenon DEF eraseSlot, SlotErased, WriteRPC, Use, Used, Open
    <2> QED
        BY <2>1, LayoutUnchanged
<1> QED
    BY <1>1, <1>2

LEMMA LayoutNext ==
    ASSUME LayoutInv, [Next]_vars
    PROVE  LayoutInv'
<1>1. CASE UNCHANGED vars
    BY <1>1, LayoutUnchanged DEF vars
<1>2. CASE Next
    BY <1>2, LengthStep, ValidateStep, SlotStep, OpenedStep, LaterStep DEF Next
<1> QED
    BY <1>1, <1>2

(***************************************************************************)
(* The slots that openStorage and OpenPartition lay out lie within the     *)
(* partition and do not overlap, for every geometry.                       *)
(***************************************************************************)
THEOREM SlotsDoNotOverlap == Spec => []LayoutSound
<1>1. LayoutInv => LayoutSound
    BY DEF LayoutInv
<1> QED
    BY <1>1, LayoutInit, LayoutNext, PTL DEF Spec
-----------------------------------------------------------------------------
\* What the reader of n bytes at block lba leaves as next block: the wrap of the
\* position at UintLimit is undone by the subtraction.
LEMMA NextBlock ==
    ASSUME NEW p \in Nat, NEW n \in Nat \ {0}, p + n <= UintLimit
    PROVE  nextLBA(Read(p % UintLimit, n)) = (p + n - 1) \div bs + 1
<1>1. p < UintLimit /\ p % UintLimit = p
    BY PartitionConstants
<1>2. (Read(p % UintLimit, n) - 1) % UintLimit = p + n - 1
    <2>1. CASE p + n = UintLimit
        <3>1. (p + n) % UintLimit = 0
            BY <2>1, <1>1, PartitionConstants
        <3>2. (0 - 1) % UintLimit = UintLimit - 1
            BY <1>1, PartitionConstants
        <3> QED
            BY <1>1, <2>1, <3>1, <3>2, PartitionConstants DEF Read
    <2>2. CASE p + n < UintLimit
        BY <1>1, <2>2, PartitionConstants DEF Read
    <2> QED
        BY <2>1, <2>2, PartitionConstants
<1> QED
    BY <1>2 DEF nextLBA

(***************************************************************************)
(* The scan of a journal continues with the first block after the entry it *)
(* has read, for every geometry, block size and entry (journal.go:207).    *)
(***************************************************************************)
THEOREM ReaderIsExact == Spec => []ReaderExact
<1>1. ASSUME LayoutInv
      PROVE  ReaderExact
    <2> SUFFICES ASSUME NEW k \in 1 .. Len(slots),
                        NEW lba \in slots[k].start .. slots[k].start + slots[k].length - 1,
                        NEW n \in 1 .. (slots[k].start + slots[k].length - lba) * bs
                 PROVE  LET end == lba * bs + n
                            next == nextLBA(Read(newBlockReader(lba), n))
                        IN  (next - 1) * bs < end /\ end <= next * bs
        BY DEF ReaderExact
    <2> DEFINE last == slots[k].start + slots[k].length
               q == (lba * bs + n - 1) \div bs
    <2>0. /\ bs \in Nat \ {0} /\ SlotBlocks \in Nat /\ Start \in Nat /\ Length \in Nat
          /\ (Start + Length) * bs <= UintLimit /\ UintLimit \in Nat
        BY <1>1, BlocksType, PartitionConstants DEF LayoutInv
    <2>1. slots[k].start \in Nat /\ slots[k].length \in Nat
        <3>1. slots[k] \in [start : Nat, length : {SlotBlocks}]
            BY ElementOfSeq, <1>1, Zenon DEF LayoutInv
        <3> QED
            BY <3>1, <2>0
    <2>2. lba \in Nat /\ last \in Nat /\ lba < last /\ last <= Start + Length /\ n \in Nat \ {0}
        <3>1. last <= Start + Length
            BY <1>1 DEF LayoutInv, LayoutSound
        <3>2. lba \in Nat /\ last \in Nat /\ lba < last
            BY <2>1
        <3>3. (last - lba) * bs \in Int
            BY <3>2, <2>0
        <3> QED
            BY <3>1, <3>2, <3>3
    <2>3. lba * bs \in Nat /\ n <= (last - lba) * bs
        BY <2>1, <2>2, ProductMono, <2>0
    <2>4. (last - lba) * bs = last * bs - lba * bs
        BY <2>2, <2>0
    <2>5. last * bs <= (Start + Length) * bs /\ last * bs \in Nat
        BY <2>2, ProductMono, <2>0
    <2>6. (Start + Length) * bs \in Nat
        BY ProductMono, <2>0
    <2>7. lba * bs + n <= UintLimit
        BY <2>2, <2>3, <2>4, <2>5, <2>6, <2>0
    <2>8. nextLBA(Read(newBlockReader(lba), n)) = q + 1
        <3> DEFINE p == lba * bs
        <3>1. p \in Nat /\ n \in Nat \ {0} /\ p + n <= UintLimit
            BY <2>2, <2>3, <2>7, <2>0
        <3> HIDE DEF p
        <3>2. nextLBA(Read(p % UintLimit, n)) = (p + n - 1) \div bs + 1
            BY <3>1, NextBlock, Zenon
        <3> QED
            BY <3>2, Zenon DEF p, newBlockReader
    <2>9. lba * bs + n - 1 \in Nat
        BY <2>2, <2>3
    <2>10. /\ q \in Nat /\ q * bs <= lba * bs + n - 1
           /\ lba * bs + n - 1 < (q + 1) * bs
        BY <2>9, DivBounds, <2>0
    <2>11. q * bs \in Nat /\ (q + 1) * bs \in Nat /\ (q + 1) - 1 = q
        BY <2>10, ProductMono, <2>0
    <2> HIDE DEF q, last
    <2> QED
        BY <2>2, <2>3, <2>8, <2>10, <2>11
<1> QED
    BY <1>1, LayoutInit, LayoutNext, PTL DEF Spec
-----------------------------------------------------------------------------
HandleInv ==
    /\ content \in Seq(Nat \cup {Corrupt}) /\ Len(content) = Len(slots)
    /\ journal \in Seq(Nat \cup {Nil}) /\ Len(journal) = Len(slots)
    /\ handle \in [Users -> Nat] /\ \A u \in Users : handle[u] <= Len(slots)
    /\ eraseAt \in Nat /\ (phase = "erase" => eraseAt >= 1)
    /\ phase # "ready" => /\ ~panicked
                          /\ \A u \in Users : handle[u] = 0
                          /\ \A k \in 1 .. Len(slots) : journal[k] = Nil

\* The slot that eraseSlot writes to is one of the partition.
LEMMA ErasedExists ==
    ASSUME LayoutInv, HandleInv, eraseSlot
    PROVE  eraseAt \in 1 .. Len(slots)
<1>1. phase = "erase" /\ eraseAt <= Len(slots)
    BY Zenon DEF eraseSlot
<1>2. eraseAt \in Nat /\ eraseAt >= 1
    BY <1>1, Zenon DEF HandleInv
<1>3. Len(slots) \in Nat
    BY SMT DEF LayoutInv
<1> QED
    BY <1>1, <1>2, <1>3, SMT

\* Who writes: Erase, or users that each have their slot and its open journal alone.
WriterInv ==
    /\ xfer \in [Procs -> Transfer]
    /\ Writing(Main) => phase = "erase" /\ eraseAt \in 1 .. Len(slots)
    /\ \A u \in Users :
          Writing(u) => /\ phase = "ready" /\ handle[u] \in 1 .. Len(slots)
                        /\ journal[handle[u]] # Nil
    /\ \A u, v \in Users : Writing(u) /\ Writing(v) /\ handle[u] = handle[v] => u = v

LEMMA OpenStep ==
    ASSUME LayoutInv, HandleInv, NEW u \in Users, NEW k \in 1 .. Len(slots), Open(u, k)
    PROVE  HandleInv'
<1>1. /\ Len(slots) \in Nat /\ k \in 1 .. Len(journal) /\ k \in 1 .. Len(content)
      /\ openJournal(k) \in Nat \cup {Nil}
    <2>1. Len(slots) \in Nat /\ k \in 1 .. Len(journal) /\ k \in 1 .. Len(content)
        BY DEF LayoutInv, HandleInv
    <2>2. content[k] \in Nat \cup {Corrupt} /\ journal[k] \in Nat \cup {Nil}
        BY <2>1, ElementOfSeq, Zenon DEF HandleInv
    <2> QED
        BY <2>1, <2>2, Zenon DEF openJournal
<1>2. journal' \in Seq(Nat \cup {Nil}) /\ Len(journal') = Len(slots)
    <2>1. journal' = [journal EXCEPT ![k] = openJournal(k)] /\ journal \in Seq(Nat \cup {Nil})
        BY DEF HandleInv, Open
    <2> QED
        BY <1>1, <2>1, ExceptSeq DEF HandleInv
<1>3. handle' \in [Users -> Nat] /\ \A v \in Users : handle'[v] = IF v = u THEN k ELSE handle[v]
    BY <1>1 DEF HandleInv, Open
<1>4. \A v \in Users : handle'[v] <= Len(slots)
    BY <1>1, <1>3 DEF HandleInv
<1>5. phase = "ready" /\ UNCHANGED <<phase, slots, content, eraseAt, panicked>>
    BY DEF Open, loops
<1> QED
    BY <1>2, <1>3, <1>4, <1>5 DEF HandleInv

LEMMA UseStep ==
    ASSUME LayoutInv, HandleInv, NEW u \in Users, Use(u)
    PROVE  HandleInv'
<1>1. phase = "ready" /\ UNCHANGED <<phase, slots, content, journal, eraseAt, handle>>
    BY DEF Use, loops
<1> QED
    BY <1>1 DEF HandleInv

\* A write ends: its slot has an open journal, so it has a revision.
LEMMA UsedStep ==
    ASSUME LayoutInv, HandleInv, WriterInv, NEW u \in Users, Used(u)
    PROVE  HandleInv'
<1> DEFINE k == handle[u]
           rev == journal[k] + 1
<1>1. /\ Writing(u)
      /\ content' \in {[content EXCEPT ![k] = c] : c \in {journal[k], rev}}
      /\ journal' \in {journal, [journal EXCEPT ![k] = rev]}
      /\ UNCHANGED <<phase, slots, eraseAt, handle, panicked>>
    BY DEF Used, Succeeds, Fails, loops
<1>2. k \in 1 .. Len(slots) /\ journal[k] # Nil /\ phase = "ready"
    BY <1>1 DEF WriterInv
<1>3. journal[k] \in Nat
    <2>1. journal \in Seq(Nat \cup {Nil}) /\ k \in 1 .. Len(journal)
        BY <1>2 DEF HandleInv
    <2>2. journal[k] \in Nat \cup {Nil}
        BY <2>1, ElementOfSeq, Zenon
    <2> QED
        BY <1>2, <2>2
<1>4. content' \in Seq(Nat \cup {Corrupt}) /\ Len(content') = Len(slots)
    <2>1. PICK c \in Nat \cup {Corrupt} : content' = [content EXCEPT ![k] = c]
        BY <1>1, <1>3
    <2> QED
        BY <1>2, <2>1, ExceptSeq DEF HandleInv
<1>5. journal' \in Seq(Nat \cup {Nil}) /\ Len(journal') = Len(slots)
    <2>1. rev \in Nat \cup {Nil}
        BY <1>3
    <2> HIDE DEF rev
    <2>2. [journal EXCEPT ![k] = rev] \in Seq(Nat \cup {Nil})
          /\ Len([journal EXCEPT ![k] = rev]) = Len(slots)
        BY <1>2, <2>1, ExceptSeq DEF HandleInv
    <2> QED
        BY <1>1, <2>2 DEF HandleInv
<1> QED
    BY <1>1, <1>2, <1>4, <1>5 DEF HandleInv

\* Writing to one position of a sequence, if it has it.
LEMMA ExceptStays ==
    ASSUME NEW S, NEW s \in Seq(S), NEW k, NEW x \in S
    PROVE  [s EXCEPT ![k] = x] \in Seq(S) /\ Len([s EXCEPT ![k] = x]) = Len(s)
<1>1. CASE k \in 1 .. Len(s)
    BY <1>1, ExceptSeq
<1>2. CASE k \notin 1 .. Len(s)
    <2>1. DOMAIN s = 1 .. Len(s) /\ s \in [1 .. Len(s) -> S]
        OBVIOUS
    <2>2. [s EXCEPT ![k] = x] = s
        BY <1>2, <2>1
    <2> QED
        BY <2>2, Zenon
<1> QED
    BY <1>1, <1>2

LEMMA SlotTyped ==
    ASSUME LayoutInv, NEW k \in 1 .. Len(slots)
    PROVE  slots[k].start \in Nat /\ slots[k].length = SlotBlocks
<1>1. slots[k] \in [start : Nat, length : {SlotBlocks}]
    BY ElementOfSeq, Zenon DEF LayoutInv
<1> QED
    BY <1>1

\* Before the partition is ready nobody holds a slot, and no journal is open.
LEMMA EarlyStep ==
    ASSUME LayoutInv, HandleInv, WriterInv,
           \/ AppendLength \/ Validate \/ AppendSlot \/ Opened
           \/ eraseSlot \/ SlotErased \/ EraseReturns
    PROVE  HandleInv'
<1> DEFINE Quiet(js) == \A k \in 1 .. Len(js) : js[k] = Nil
<1>1. /\ phase # "ready" /\ UNCHANGED <<handle, panicked>>
      /\ ~panicked /\ \A u \in Users : handle[u] = 0
    BY DEF HandleInv, WriterInv, AppendLength, Validate, AppendSlot, Opened, eraseSlot, SlotErased,
           Succeeds, Fails, EraseReturns
<1>0. Quiet(journal)
    BY <1>1 DEF HandleInv
<1>2. /\ content' \in Seq(Nat \cup {Corrupt}) /\ Len(content') = Len(slots')
      /\ journal' \in Seq(Nat \cup {Nil}) /\ Len(journal') = Len(slots')
      /\ Len(slots') \in Nat /\ Quiet(journal')
    <2>1. CASE AppendSlot
        <3>1. slots \in Seq([start : Nat, length : {SlotBlocks}])
            BY DEF LayoutInv
        <3>2. PICK c \in Nat \cup {Corrupt} :
                 /\ content' = Append(content, c) /\ journal' = Append(journal, Nil)
                 /\ slots' = Append(slots, [start |-> b, length |-> lengths[Len(slots) + 1]])
            BY <2>1 DEF AppendSlot
        <3>3. Len(slots') = Len(slots) + 1 /\ Len(slots) \in Nat
            BY <3>1, <3>2
        <3>4. content' \in Seq(Nat \cup {Corrupt}) /\ Len(content') = Len(slots')
            BY <3>2, <3>3 DEF HandleInv
        <3>5. journal' \in Seq(Nat \cup {Nil}) /\ Len(journal') = Len(slots') /\ Quiet(journal')
            BY <1>0, <3>2, <3>3 DEF HandleInv
        <3> QED
            BY <3>3, <3>4, <3>5
    <2>2. CASE eraseSlot
        <3>1. journal' = [journal EXCEPT ![eraseAt] = Nil] /\ UNCHANGED <<slots, content>>
            BY <2>2 DEF eraseSlot, loops
        <3>2. journal \in Seq(Nat \cup {Nil})
            BY DEF HandleInv
        <3>3. journal' \in Seq(Nat \cup {Nil}) /\ Len(journal') = Len(journal)
            BY <3>1, <3>2, ExceptStays
        <3>4. Quiet(journal')
            BY <1>0, <3>1, <3>2, <3>3
        <3> QED
            BY <3>1, <3>3, <3>4 DEF LayoutInv, HandleInv
    <2>3. CASE SlotErased
        <3>1. content \in Seq(Nat \cup {Corrupt}) /\ eraseAt \in 1 .. Len(content)
            BY <2>3 DEF SlotErased, Succeeds, Fails, WriterInv, HandleInv
        <3>2. content[eraseAt] \in Nat \cup {Corrupt}
            BY <3>1, ElementOfSeq, Zenon
        <3>3. PICK c \in Nat \cup {Corrupt} : content' = [content EXCEPT ![eraseAt] = c]
            BY <2>3, <3>2 DEF SlotErased, PartlyBlanked
        <3>4. UNCHANGED <<slots, journal>>
            BY <2>3 DEF SlotErased, loops
        <3>5. content' \in Seq(Nat \cup {Corrupt}) /\ Len(content') = Len(content)
            BY <3>1, <3>3, ExceptStays
        <3> QED
            BY <1>0, <3>4, <3>5 DEF LayoutInv, HandleInv
    <2>4. CASE ~AppendSlot /\ ~eraseSlot /\ ~SlotErased
        BY <1>0, <2>4 DEF LayoutInv, HandleInv, AppendLength, Validate, Opened, EraseReturns, loops
    <2> QED
        BY <2>1, <2>2, <2>3, <2>4
<1>3. eraseAt' \in Nat /\ (phase' = "erase" => eraseAt' >= 1)
    BY DEF HandleInv, AppendLength, Validate, AppendSlot, Opened, eraseSlot, SlotErased,
           EraseReturns
<1> QED
    BY <1>1, <1>2, <1>3 DEF HandleInv

LEMMA HandleInit ==
    Init => HandleInv
BY DEF Init, HandleInv

LEMMA HandleNext ==
    ASSUME LayoutInv, HandleInv, WriterInv, [Next]_vars
    PROVE  HandleInv'
<1>1. CASE UNCHANGED vars \/ \E p \in Procs : WriteRPC(p)
    <2>1. UNCHANGED <<phase, slots, content, journal, eraseAt, handle, panicked>>
        BY <1>1, Zenon DEF vars, loops, WriteRPC
    <2> QED
        BY <2>1 DEF HandleInv
<1>2. CASE Next /\ ~\E p \in Procs : WriteRPC(p)
    BY <1>2, EarlyStep, OpenStep, UseStep, UsedStep DEF Next
<1> QED
    BY <1>1, <1>2

LEMMA WriterInit ==
    Init => WriterInv
<1> SUFFICES ASSUME Init PROVE WriterInv
    OBVIOUS
<1>1. xfer = [p \in Procs |-> NoTransfer] /\ NoTransfer \in Transfer /\ NoTransfer.blocks = 0
    BY DEF Init, NoTransfer, Transfer
<1>2. xfer \in [Procs -> Transfer] /\ \A p \in Procs : ~Writing(p)
    BY <1>1 DEF Writing
<1> QED
    BY <1>2 DEF WriterInv, Procs

\* An RPC moves its call on by between 1 and MaxTransfer blocks.
LEMMA RPCStep ==
    ASSUME LayoutInv, WriterInv, NEW p \in Procs, WriteRPC(p)
    PROVE  LET bl == transferLength(xfer[p].left)
           IN  /\ bl \in 1 .. MaxTransfer /\ bl <= xfer[p].left
               /\ xfer' \in [Procs -> Transfer]
               /\ \A q \in Procs : q # p => xfer'[q] = xfer[q]
               /\ xfer'[p].first = xfer[p].first /\ xfer'[p].blocks = xfer[p].blocks
               /\ xfer'[p].lba = xfer[p].lba + bl /\ xfer'[p].left = xfer[p].left - bl
               /\ xfer'[p].sent = xfer[p].sent \cup xfer[p].lba .. xfer[p].lba + bl - 1
<1> DEFINE o == xfer[p]
           bl == transferLength(o.left)
           t == o.sent \cup o.lba .. o.lba + bl - 1
           x == [first |-> o.first, blocks |-> o.blocks, lba |-> o.lba + bl,
                 left |-> o.left - bl, sent |-> t]
<1>1. o \in Transfer /\ o.left > 0
    BY DEF WriterInv, WriteRPC
<1>2. xfer' = [xfer EXCEPT ![p] = x]
    BY DEF WriteRPC, nextTransfer
<1>3. bl \in 1 .. MaxTransfer /\ bl <= o.left
    BY <1>1, BlocksType DEF Transfer, transferLength
<1> HIDE DEF bl, o
<1>4. t \in SUBSET Nat /\ o.lba + bl \in Nat /\ o.left - bl \in Nat
    BY <1>1, <1>3, BlocksType DEF Transfer
<1> HIDE DEF t
<1>5. /\ x \in Transfer /\ x.first = o.first /\ x.blocks = o.blocks
      /\ x.lba = o.lba + bl /\ x.left = o.left - bl /\ x.sent = t
    BY <1>1, <1>4 DEF Transfer
<1> HIDE DEF x
<1>6. /\ xfer' \in [Procs -> Transfer] /\ xfer'[p] = x
      /\ \A q \in Procs : q # p => xfer'[q] = xfer[q]
    BY <1>2, <1>5 DEF WriterInv
<1> QED
    BY <1>3, <1>5, <1>6 DEF bl, o, t

LEMMA WriterNext ==
    ASSUME LayoutInv, HandleInv, WriterInv, [Next]_vars
    PROVE  WriterInv'
<1>0. Users \subseteq Procs /\ Main \in Procs /\ Main \notin Users
    BY PartitionConstants DEF Procs
<1>1. CASE UNCHANGED vars
    BY <1>1 DEF WriterInv, Writing, vars, loops
<1>2. CASE AppendLength \/ Validate \/ AppendSlot \/ Opened \/ EraseReturns
    <2>1. xfer' = xfer /\ ~Writing(Main) /\ \A u \in Users : ~Writing(u)
        BY <1>2 DEF WriterInv, AppendLength, Validate, AppendSlot, Opened, EraseReturns
    <2> QED
        BY <2>1 DEF WriterInv, Writing
<1>3. CASE eraseSlot
    <2>1. slots[eraseAt].start \in Nat /\ slots[eraseAt].length \in Nat /\ eraseAt \in 1 .. Len(slots)
        <3>1. eraseAt \in 1 .. Len(slots)
            BY <1>3, ErasedExists, Zenon
        <3> QED
            BY <3>1, SlotTyped, BlocksType
    <2>2. xfer' \in [Procs -> Transfer] /\ \A u \in Users : xfer'[u] = xfer[u]
        BY <1>0, <1>3, <2>1 DEF eraseSlot, WriteBlocks, WriterInv, Transfer
    <2>3. phase = "erase" /\ UNCHANGED <<phase, slots, eraseAt>>
        BY <1>3 DEF eraseSlot, loops
    <2>4. \A u \in Users : ~Writing(u)'
        BY <2>2, <2>3 DEF WriterInv, Writing
    <2> QED
        BY <2>1, <2>2, <2>3, <2>4 DEF WriterInv
<1>4. CASE SlotErased
    <2>1. Writing(Main) /\ xfer' = [xfer EXCEPT ![Main] = NoTransfer] /\ UNCHANGED phase
        BY <1>4 DEF SlotErased, Succeeds, Fails, WriteEnds
    <2>2. NoTransfer \in Transfer /\ NoTransfer.blocks = 0
        BY DEF NoTransfer, Transfer
    <2>3. xfer' \in [Procs -> Transfer] /\ ~Writing(Main)' /\ \A u \in Users : ~Writing(u)'
        BY <1>0, <2>1, <2>2 DEF WriterInv, Writing
    <2> QED
        BY <2>3 DEF WriterInv
<1>5. ASSUME NEW p \in Procs, WriteRPC(p) PROVE WriterInv'
    <2>1. UNCHANGED <<phase, slots, journal, eraseAt, handle>>
        BY <1>5 DEF WriteRPC, loops
    <2>2. xfer' \in [Procs -> Transfer] /\ \A q \in Procs : xfer'[q].blocks = xfer[q].blocks
        BY <1>5, RPCStep
    <2>3. \A q \in Procs : Writing(q)' <=> Writing(q)
        BY <2>2 DEF Writing
    <2> QED
        BY <1>0, <2>1, <2>2, <2>3 DEF WriterInv
<1>6. ASSUME NEW u \in Users, NEW k \in 1 .. Len(slots), Open(u, k) PROVE WriterInv'
    <2>1. /\ ~Writing(u) /\ \A v \in Users : Writing(v) => handle[v] # k
          /\ handle' = [handle EXCEPT ![u] = k]
          /\ journal' = [journal EXCEPT ![k] = openJournal(k)]
          /\ UNCHANGED <<phase, slots, eraseAt, xfer>>
        BY <1>6 DEF Open, unlocked, loops
    <2>2. \A p \in Procs : Writing(p)' <=> Writing(p)
        BY <2>1 DEF Writing
    <2>3. \A v \in Users : Writing(v) => /\ handle'[v] = handle[v]
                                         /\ journal'[handle[v]] = journal[handle[v]]
        BY <2>1 DEF HandleInv, WriterInv
    <2> QED
        BY <1>0, <2>1, <2>2, <2>3 DEF WriterInv
<1>7. ASSUME NEW u \in Users, Use(u) PROVE WriterInv'
    <2>1. /\ phase = "ready" /\ ~Writing(u) /\ \A v \in Users : Writing(v) => handle[v] # handle[u]
          /\ UNCHANGED <<phase, slots, journal, eraseAt, handle>>
        BY <1>7 DEF Use, unlocked, loops
    <2>2. CASE UNCHANGED xfer
        BY <2>1, <2>2 DEF WriterInv, Writing
    <2>3. CASE ~UNCHANGED xfer
        <3>1. journal[handle[u]] # Nil /\ handle[u] # 0
            BY <1>7, <2>3 DEF Use
        <3>2. handle[u] \in 1 .. Len(slots) /\ journal[handle[u]] # Nil
            BY <3>1 DEF HandleInv, LayoutInv
        <3>3. /\ xfer' \in [Procs -> Transfer]
              /\ \A q \in Procs : q # u => xfer'[q] = xfer[q]
            <4>1. slots[handle[u]].start \in Nat /\ slots[handle[u]].length \in Nat
                BY <3>2, SlotTyped, BlocksType
            <4>2. PICK o \in 0 .. slots[handle[u]].length - 1, n \in 1 .. MaxEntry :
                     WriteBlocks(u, slots[handle[u]].start + o, n)
                BY <1>7, <3>1 DEF Use
            <4>3. [first |-> slots[handle[u]].start + o, blocks |-> n,
                   lba |-> slots[handle[u]].start + o, left |-> n, sent |-> {}] \in Transfer
                BY <4>1, <4>2, PartitionConstants DEF Transfer
            <4> QED
                BY <1>0, <4>2, <4>3 DEF WriteBlocks, WriterInv
        <3>4. \A q \in Procs : q # u => (Writing(q)' <=> Writing(q))
            BY <3>3 DEF Writing
        <3>5. ~Writing(Main)
            BY <2>1 DEF WriterInv
        <3> QED
            BY <1>0, <2>1, <3>2, <3>3, <3>4, <3>5 DEF WriterInv
    <2> QED
        BY <2>2, <2>3
<1>8. ASSUME NEW u \in Users, Used(u) PROVE WriterInv'
    <2>1. /\ Writing(u) /\ xfer' = [xfer EXCEPT ![u] = NoTransfer]
          /\ \/ UNCHANGED journal
             \/ journal' = [journal EXCEPT ![handle[u]] = journal[handle[u]] + 1]
          /\ UNCHANGED <<phase, slots, eraseAt, handle>>
        BY <1>8 DEF Used, Succeeds, Fails, WriteEnds, loops
    <2>2. NoTransfer \in Transfer /\ NoTransfer.blocks = 0
        BY DEF NoTransfer, Transfer
    <2>3. /\ xfer' \in [Procs -> Transfer] /\ ~Writing(u)'
          /\ \A q \in Procs : Writing(q)' => Writing(q)
        BY <1>0, <2>1, <2>2 DEF WriterInv, Writing
    <2>4. \A v \in Users : Writing(v)' => journal'[handle[v]] = journal[handle[v]]
        <3>1. \A v \in Users : Writing(v)' => /\ handle[v] # handle[u]
                                              /\ handle[v] \in 1 .. Len(journal)
            BY <1>0, <2>1, <2>3 DEF WriterInv, HandleInv
        <3>2. \A j \in 1 .. Len(journal) : j # handle[u] => journal'[j] = journal[j]
            BY <2>1 DEF HandleInv
        <3> QED
            BY <3>1, <3>2, Zenon
    <2> QED
        BY <1>0, <2>1, <2>3, <2>4 DEF WriterInv
<1> QED
    BY <1>1, <1>2, <1>3, <1>4, <1>5, <1>6, <1>7, <1>8 DEF Next

(***************************************************************************)
(* What an open slot reads changes only when a write to it succeeds,       *)
(* whatever goroutines open the slot and however many writes to it failed  *)
(* (slots.go:154-199).                                                     *)
(***************************************************************************)
THEOREM FailedWritesStayHidden == Spec => ReadsSuccessful
<1>1. ASSUME LayoutInv, HandleInv, WriterInv, [Next]_vars,
             NEW k \in 1 .. Len(journal), journal[k] # Nil, journal'[k] # journal[k]
      PROVE  \E u \in Users : handle[u] = k /\ Writing(u) /\ xfer[u].left = 0
    <2>1. phase = "ready" /\ journal \in Seq(Nat \cup {Nil})
        BY <1>1 DEF HandleInv
    <2>2. \A v \in Users : ~Use(v)
        BY <1>1 DEF Use
    <2>3. ASSUME NEW v \in Users, NEW j \in 1 .. Len(slots), Open(v, j) PROVE FALSE
        <3>1. journal' = [journal EXCEPT ![j] = openJournal(j)]
            BY <2>3 DEF Open
        <3>2. openJournal(k) = journal[k]
            BY <1>1 DEF openJournal
        <3> QED
            BY <1>1, <2>1, <3>1, <3>2
    <2>4. PICK u \in Users : Used(u)
        BY <1>1, <2>1, <2>2, <2>3, Zenon
           DEF Next, vars, AppendLength, Validate, AppendSlot, Opened, eraseSlot, SlotErased,
               Succeeds, Fails, EraseReturns, WriteRPC, WriterInv
    <2>5. Succeeds(u) /\ journal' = [journal EXCEPT ![handle[u]] = journal[handle[u]] + 1]
        BY <1>1, <2>4 DEF Used
    <2>6. handle[u] = k
        BY <1>1, <2>1, <2>5
    <2> QED
        BY <2>5, <2>6 DEF Succeeds
<1>2. LayoutInv /\ HandleInv /\ WriterInv /\ [Next]_vars =>
        \A k \in 1 .. Len(journal) :
          journal[k] # Nil /\ journal'[k] # journal[k] =>
             \E u \in Users : handle[u] = k /\ Writing(u) /\ xfer[u].left = 0
    BY <1>1
<1> QED
    BY <1>2, HandleInit, HandleNext, WriterInit, WriterNext, LayoutInit, LayoutNext, PTL
       DEF Spec, ReadsSuccessful
-----------------------------------------------------------------------------
(***************************************************************************)
(* What a writer has been asked for lies in its slot, and what it has sent *)
(* is what is before lba.                                                  *)
(***************************************************************************)
SentExact(p) ==
    /\ Writing(p) =>
          /\ Target(p).start <= xfer[p].first
          /\ xfer[p].first + xfer[p].blocks <= Target(p).start + Target(p).length
          /\ xfer[p].left <= xfer[p].blocks
          /\ xfer[p].lba = xfer[p].first + (xfer[p].blocks - xfer[p].left)
          /\ xfer[p].sent = xfer[p].first .. xfer[p].lba - 1
    /\ ~Writing(p) => xfer[p].sent = {}

SentInv == \A p \in Procs : SentExact(p)

\* A goroutine whose call of WriteBlocks, if it is in one, does not move.
LEMMA SentUnchanged ==
    ASSUME NEW p \in Procs, SentExact(p), xfer'[p] = xfer[p], Writing(p) => Target(p)' = Target(p)
    PROVE  SentExact(p)'
BY DEF SentExact, Writing

LEMMA SentEnds ==
    ASSUME NEW p \in Procs, xfer'[p] = NoTransfer
    PROVE  SentExact(p)'
BY DEF SentExact, Writing, NoTransfer

LEMMA SentBegins ==
    ASSUME NEW p \in Procs, NEW s \in Nat, NEW l \in Nat, NEW f \in Nat, NEW n \in Nat,
           xfer'[p] = [first |-> f, blocks |-> n, lba |-> f, left |-> n, sent |-> {}],
           Target(p)'.start = s, Target(p)'.length = l, s <= f, f + n <= s + l
    PROVE  SentExact(p)'
<1>1. f .. f - 1 = {} /\ f = f + (n - n)
    OBVIOUS
<1> QED
    BY <1>1 DEF SentExact, Writing

\* The arithmetic of one step of the loop of WriteBlocks.
LEMMA MovesOn ==
    ASSUME NEW f \in Nat, NEW n \in Nat, NEW a \in Nat, NEW l \in Nat, NEW d \in Nat,
           a = f + (n - l), l <= n, d <= l
    PROVE  /\ l - d <= n /\ a + d = f + (n - (l - d))
           /\ f .. a - 1 \cup a .. a + d - 1 = f .. a + d - 1
<1>1. f <= a
    OBVIOUS
<1> QED
    BY <1>1

LEMMA SentMoves ==
    ASSUME LayoutInv, WriterInv, NEW p \in Procs, SentExact(p), WriteRPC(p)
    PROVE  SentExact(p)'
<1> DEFINE d == transferLength(xfer[p].left)
           f == xfer[p].first
           n == xfer[p].blocks
           a == xfer[p].lba
           l == xfer[p].left
<1>1. /\ d \in 1 .. MaxTransfer /\ d <= l
      /\ xfer'[p].first = f /\ xfer'[p].blocks = n
      /\ xfer'[p].lba = a + d /\ xfer'[p].left = l - d
      /\ xfer'[p].sent = xfer[p].sent \cup a .. a + d - 1
    BY RPCStep
<1>2. Target(p)' = Target(p) /\ Writing(p) /\ Writing(p)'
    BY <1>1 DEF WriteRPC, Target, Writing, loops
<1> HIDE DEF d
<1>3. f \in Nat /\ n \in Nat /\ a \in Nat /\ l \in Nat /\ d \in Nat
    BY <1>1, BlocksType DEF WriterInv, Transfer
<1>4. /\ Target(p).start <= f /\ f + n <= Target(p).start + Target(p).length
      /\ a = f + (n - l) /\ l <= n /\ xfer[p].sent = f .. a - 1
    BY <1>2 DEF SentExact
<1> HIDE DEF f, n, a, l
<1>5. /\ l - d <= n /\ a + d = f + (n - (l - d))
      /\ f .. a - 1 \cup a .. a + d - 1 = f .. a + d - 1
    BY <1>1, <1>3, <1>4, MovesOn
<1>6. xfer'[p].sent = f .. a + d - 1
    BY <1>1, <1>4, <1>5, Zenon
<1>7. /\ Target(p)'.start <= xfer'[p].first
      /\ xfer'[p].first + xfer'[p].blocks <= Target(p)'.start + Target(p)'.length
      /\ xfer'[p].left <= xfer'[p].blocks
      /\ xfer'[p].lba = xfer'[p].first + (xfer'[p].blocks - xfer'[p].left)
      /\ xfer'[p].sent = xfer'[p].first .. xfer'[p].lba - 1
    <2>1. /\ Target(p)'.start <= xfer'[p].first
          /\ xfer'[p].first + xfer'[p].blocks <= Target(p)'.start + Target(p)'.length
        BY <1>1, <1>2, <1>4
    <2>2. /\ xfer'[p].left <= xfer'[p].blocks
          /\ xfer'[p].lba = xfer'[p].first + (xfer'[p].blocks - xfer'[p].left)
        BY <1>1, <1>3, <1>5
    <2>3. xfer'[p].sent = xfer'[p].first .. xfer'[p].lba - 1
        BY <1>1, <1>3, <1>6
    <2> QED
        BY <2>1, <2>2, <2>3
<1> QED
    BY <1>2, <1>7, Zenon DEF SentExact

LEMMA SentStep ==
    ASSUME LayoutInv, HandleInv, WriterInv, SentInv, [Next]_vars
    PROVE  SentInv'
<1>0. Users \subseteq Procs /\ Main \in Procs /\ Main \notin Users /\ Procs = Users \cup {Main}
    BY PartitionConstants DEF Procs
<1>1. \A p \in Procs : SentExact(p)
    BY DEF SentInv
<1> SUFFICES ASSUME NEW q \in Procs PROVE SentExact(q)'
    BY DEF SentInv
<1>2. CASE UNCHANGED vars
    BY <1>1, <1>2, SentUnchanged DEF Target, vars, loops
<1>3. CASE AppendLength \/ Validate \/ AppendSlot \/ Opened \/ EraseReturns
    <2>1. xfer' = xfer /\ ~Writing(q)
        BY <1>0, <1>3 DEF WriterInv, AppendLength, Validate, AppendSlot, Opened, EraseReturns
    <2> QED
        BY <1>1, <2>1, SentUnchanged
<1>4. CASE eraseSlot
    <2> DEFINE s == slots[eraseAt]
    <2>1. /\ xfer' = [xfer EXCEPT ![Main] =
                        [first |-> s.start, blocks |-> s.length, lba |-> s.start,
                         left |-> s.length, sent |-> {}]]
          /\ UNCHANGED <<eraseAt, slots, handle>> /\ eraseAt \in 1 .. Len(slots)
        <3>1. eraseAt \in 1 .. Len(slots)
            BY <1>4, ErasedExists, Zenon
        <3>2. UNCHANGED <<loops, eraseAt, handle>> /\ WriteBlocks(Main, s.start, s.length)
            BY <1>4, Zenon DEF eraseSlot
        <3>3. UNCHANGED slots
            BY <3>2, Zenon DEF loops
        <3> QED
            BY <3>1, <3>2, <3>3, Zenon DEF WriteBlocks
    <2>2. s.start \in Nat /\ s.length \in Nat
        BY <2>1, SlotTyped, BlocksType
    <2>3. Target(q)' = Target(q) /\ (q = Main => Target(q) = s)
        BY <2>1 DEF Target
    <2> HIDE DEF s
    <2>4. CASE q = Main
        <3>1. xfer'[q] = [first |-> s.start, blocks |-> s.length, lba |-> s.start,
                          left |-> s.length, sent |-> {}]
            BY <2>1, <2>4 DEF WriterInv
        <3> QED
            BY <2>2, <2>3, <2>4, <3>1, SentBegins
    <2>5. CASE q # Main
        BY <1>1, <2>1, <2>3, <2>5, SentUnchanged DEF WriterInv
    <2> QED
        BY <2>4, <2>5
<1>5. CASE SlotErased
    <2>1. xfer' = [xfer EXCEPT ![Main] = NoTransfer] /\ UNCHANGED <<slots, handle>>
        <3>1. UNCHANGED <<loops, handle>> /\ (Succeeds(Main) \/ Fails(Main))
            BY <1>5, Zenon DEF SlotErased
        <3>2. UNCHANGED slots
            BY <3>1, Zenon DEF loops
        <3> QED
            BY <3>1, <3>2, Zenon DEF Succeeds, Fails, WriteEnds
    <2>2. CASE q = Main
        BY <2>1, <2>2, SentEnds DEF WriterInv
    <2>3. CASE q # Main
        BY <1>1, <2>1, <2>3, SentUnchanged DEF WriterInv, Target
    <2> QED
        BY <2>2, <2>3
<1>6. ASSUME NEW p \in Procs, WriteRPC(p) PROVE SentExact(q)'
    <2>1. CASE q = p
        BY <1>1, <1>6, <2>1, SentMoves
    <2>2. CASE q # p
        <3>1. xfer'[q] = xfer[q]
            BY <1>6, <2>2, RPCStep
        <3>2. Target(q)' = Target(q)
            BY <1>6 DEF WriteRPC, Target, loops
        <3> QED
            BY <1>1, <3>1, <3>2, SentUnchanged
    <2> QED
        BY <2>1, <2>2
<1>7. ASSUME NEW u \in Users, NEW k \in 1 .. Len(slots), Open(u, k) PROVE SentExact(q)'
    <2>1. /\ ~Writing(u) /\ handle' = [handle EXCEPT ![u] = k]
          /\ UNCHANGED <<slots, eraseAt, xfer>>
        BY <1>7 DEF Open, loops
    <2>2. Writing(q) => Target(q)' = Target(q)
        BY <1>0, <2>1 DEF Target, HandleInv
    <2> QED
        BY <1>1, <2>1, <2>2, SentUnchanged
<1>8. ASSUME NEW u \in Users, Use(u) PROVE SentExact(q)'
    <2>1. UNCHANGED <<slots, eraseAt, handle>> /\ handle[u] # 0
        BY <1>8 DEF Use, loops
    <2>2. Target(q)' = Target(q)
        BY <2>1 DEF Target
    <2>3. CASE UNCHANGED xfer
        BY <1>1, <2>2, <2>3, SentUnchanged
    <2>4. CASE ~UNCHANGED xfer
        <3> DEFINE s == slots[handle[u]]
        <3>1. PICK o \in 0 .. s.length - 1, n \in 1 .. MaxEntry :
                 /\ o + n <= s.length
                 /\ xfer' = [xfer EXCEPT ![u] =
                       [first |-> s.start + o, blocks |-> n, lba |-> s.start + o, left |-> n,
                        sent |-> {}]]
            BY <1>8, <2>4 DEF Use, WriteBlocks
        <3>2. s.start \in Nat /\ s.length \in Nat
            <4>1. handle[u] \in 1 .. Len(slots)
                BY <2>1 DEF HandleInv, LayoutInv
            <4> QED
                BY <4>1, SlotTyped, BlocksType
        <3>3. q = u => Target(q) = s
            BY <1>0 DEF Target
        <3> HIDE DEF s
        <3>4. /\ s.start + o \in Nat /\ n \in Nat /\ s.start <= s.start + o
              /\ (s.start + o) + n <= s.start + s.length
            BY <3>1, <3>2, PartitionConstants
        <3>5. CASE q = u
            <4>1. xfer'[q] = [first |-> s.start + o, blocks |-> n, lba |-> s.start + o,
                              left |-> n, sent |-> {}]
                BY <3>1, <3>5 DEF WriterInv
            <4> QED
                BY <2>2, <3>2, <3>3, <3>4, <3>5, <4>1, SentBegins
        <3>6. CASE q # u
            <4>1. xfer'[q] = xfer[q]
                BY <3>1, <3>6 DEF WriterInv
            <4> QED
                BY <1>1, <2>2, <4>1, SentUnchanged
        <3> QED
            BY <3>5, <3>6
    <2> QED
        BY <2>3, <2>4
<1>9. ASSUME NEW u \in Users, Used(u) PROVE SentExact(q)'
    <2>1. xfer' = [xfer EXCEPT ![u] = NoTransfer] /\ UNCHANGED <<slots, eraseAt, handle>>
        BY <1>9 DEF Used, Succeeds, Fails, WriteEnds, loops
    <2>2. CASE q = u
        BY <2>1, <2>2, SentEnds DEF WriterInv
    <2>3. CASE q # u
        BY <1>1, <2>1, <2>3, SentUnchanged DEF WriterInv, Target
    <2> QED
        BY <2>2, <2>3
<1> QED
    BY <1>2, <1>3, <1>4, <1>5, <1>6, <1>7, <1>8, <1>9 DEF Next

\* Two calls under way are for different slots.
LEMMA WritersApart ==
    ASSUME LayoutInv, WriterInv, NEW p \in Procs, NEW q \in Procs \ {p}, Writing(p), Writing(q)
    PROVE  Disjoint(Target(p), Target(q))
<1>1. p \in Users /\ q \in Users /\ p # Main /\ q # Main
    BY PartitionConstants DEF WriterInv, Procs
<1>2. handle[p] \in 1 .. Len(slots) /\ handle[q] \in 1 .. Len(slots) /\ handle[p] # handle[q]
    BY <1>1 DEF WriterInv
<1> QED
    BY <1>1, <1>2 DEF Target, LayoutInv, LayoutSound

(***************************************************************************)
(* The RPCs of every call of WriteBlocks transfer its blocks exactly, in   *)
(* its own slot, for every limit on the size of a transfer, every geometry *)
(* and every interleaving of the writers (mmc/internal.go:52-82, slots.go: *)
(* 102-117, 181-199).                                                      *)
(***************************************************************************)
THEOREM WritesAreExact == Spec => []TransfersExact
<1>1. Init => SentInv
    <2>1. NoTransfer.blocks = 0 /\ NoTransfer.sent = {}
        BY DEF NoTransfer
    <2> QED
        BY <2>1 DEF Init, SentInv, SentExact, Writing
<1>2. ASSUME LayoutInv, HandleInv, WriterInv, SentInv PROVE TransfersExact
    <2> SUFFICES ASSUME NEW p \in Procs, Writing(p)
                 PROVE  /\ xfer[p].sent =
                              xfer[p].first .. xfer[p].first + (xfer[p].blocks - xfer[p].left) - 1
                        /\ xfer[p].sent \subseteq
                              Target(p).start .. Target(p).start + Target(p).length - 1
                        /\ \A q \in Procs \ {p} : xfer[p].sent \cap xfer[q].sent = {}
        BY DEF TransfersExact
    <2>1. ASSUME NEW q \in Procs, Writing(q)
          PROVE  /\ Target(q).start \in Nat /\ Target(q).length \in Nat
                 /\ xfer[q].sent \subseteq Target(q).start .. Target(q).start + Target(q).length - 1
        <3>1. Target(q).start \in Nat /\ Target(q).length \in Nat
            BY <1>2, <2>1, SlotTyped, BlocksType DEF WriterInv, Target, Procs
        <3>2. /\ xfer[q].first \in Nat /\ xfer[q].blocks \in Nat /\ xfer[q].lba \in Nat
              /\ xfer[q].left \in Nat
            BY <1>2 DEF WriterInv, Transfer
        <3>3. /\ Target(q).start <= xfer[q].first
              /\ xfer[q].lba <= Target(q).start + Target(q).length
              /\ xfer[q].sent = xfer[q].first .. xfer[q].lba - 1
            BY <1>2, <2>1, <3>1, <3>2 DEF SentInv, SentExact
        <3> QED
            BY <3>1, <3>2, <3>3
    <2>2. ASSUME NEW q \in Procs \ {p} PROVE xfer[p].sent \cap xfer[q].sent = {}
        <3>1. CASE ~Writing(q)
            BY <1>2, <3>1 DEF SentInv, SentExact
        <3>2. CASE Writing(q)
            <4>1. Disjoint(Target(p), Target(q))
                BY <1>2, <3>2, WritersApart
            <4> QED
                BY <2>1, <3>2, <4>1 DEF Disjoint
        <3> QED
            BY <3>1, <3>2
    <2>3. /\ xfer[p].lba = xfer[p].first + (xfer[p].blocks - xfer[p].left)
          /\ xfer[p].sent = xfer[p].first .. xfer[p].lba - 1
        BY <1>2 DEF SentInv, SentExact
    <2>4. xfer[p].sent = xfer[p].first .. xfer[p].first + (xfer[p].blocks - xfer[p].left) - 1
        <3> DEFINE f == xfer[p].first
                   n == xfer[p].blocks
                   l == xfer[p].left
                   a == xfer[p].lba
        <3>1. f \in Nat /\ n \in Nat /\ l \in Nat /\ a \in Nat
            BY <1>2 DEF WriterInv, Transfer
        <3>2. a = f + (n - l) /\ xfer[p].sent = f .. a - 1
            BY <2>3
        <3> HIDE DEF f, n, l, a
        <3>3. a - 1 = f + (n - l) - 1
            BY <3>1, <3>2
        <3>4. xfer[p].sent = f .. f + (n - l) - 1
            BY <3>2, <3>3
        <3> QED
            BY <3>4 DEF f, n, l
    <2> QED
        BY <2>1, <2>2, <2>4, Zenon
<1> QED
    BY <1>1, <1>2, SentStep, HandleInit, HandleNext, WriterInit, WriterNext, LayoutInit,
       LayoutNext, PTL DEF Spec
-----------------------------------------------------------------------------
PanicType == panicked \in BOOLEAN

\* Type correctness of the partition.
THEOREM TypeCorrect == Spec => []TypeOK
<1>1. Init => PanicType
    BY Zenon DEF Init, PanicType
<1>2. PanicType /\ [Next]_vars => PanicType'
    BY Zenon DEF PanicType, Next, vars, AppendLength, Validate, AppendSlot, Opened, eraseSlot,
                 SlotErased, EraseReturns, WriteRPC, Use, Used, Open
<1>3. LayoutInv /\ HandleInv /\ WriterInv /\ PanicType => TypeOK
    <2> SUFFICES ASSUME LayoutInv, HandleInv, WriterInv, PanicType PROVE TypeOK
        OBVIOUS
    <2>1. Len(lengths) \in Nat /\ Len(slots) \in Nat
        BY DEF LayoutInv
    <2>2. i \in Nat /\ b \in Nat
        <3>1. \A x, y \in Nat : x * y \in Nat
            OBVIOUS
        <3>2. Len(lengths) * SlotBlocks \in Nat /\ Len(slots) * SlotBlocks \in Nat /\ Start \in Nat
            BY <2>1, <3>1, BlocksType, PartitionConstants
        <3> QED
            BY <3>2 DEF LayoutInv
    <2>3. handle \in [Users -> 0 .. Len(slots)]
        BY <2>1 DEF HandleInv
    <2>4. /\ phase \in {"geometry", "exit", "layout", "erase", "ready"} /\ eraseAt \in Nat
          /\ bs \in BlockSizes /\ lengths \in Seq({SlotBlocks})
          /\ slots \in Seq([start : Nat, length : {SlotBlocks}]) /\ Len(slots) <= Len(lengths)
        BY Zenon DEF LayoutInv, HandleInv
    <2>5. xfer \in [Procs -> Transfer]
        BY Zenon DEF WriterInv
    <2> QED
        BY <2>2, <2>3, <2>4, <2>5, Zenon DEF HandleInv, PanicType, TypeOK
<1> QED
    BY <1>1, <1>2, <1>3, HandleInit, HandleNext, WriterInit, WriterNext, LayoutInit, LayoutNext, PTL
       DEF Spec
=============================================================================

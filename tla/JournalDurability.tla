------------------------- MODULE JournalDurability -------------------------
(***************************************************************************)
(* Proof that no failed or interrupted write loses acknowledged data: the  *)
(* invariant JournalInv is inductive if three records fit (TearSafe), the  *)
(* revision counter does not wrap, and the storage neither fails reads nor *)
(* garbles blocks it reported as written.                                  *)
(***************************************************************************)
EXTENDS JournalProofs

\* The prover, unless a step names another: the steps with arithmetic or records need SMT.
USE ZenonT(30)

HonestStorage == "read" \notin Faults /\ "silent" \notin Faults

NoRevisionWrap == MaxRev < RevLimit

(***************************************************************************)
(* What a change of one block does to the records on the device.           *)
(***************************************************************************)

LEMMA SameDisk ==
    ASSUME disk' = disk, NEW b
    PROVE  /\ Unmarshals(b)' <=> Unmarshals(b)
           /\ After(b)' = After(b)
           /\ EntryAt(b)' = EntryAt(b)
BY DEF Unmarshals, After, EntryAt, marshalEntry

LEMMA SameDiskAfter ==
    ASSUME disk' = disk, NEW b
    PROVE  Unmarshals(After(b))' <=> Unmarshals(After(b))
<1>1. After(b)' = After(b)
  BY SameDisk
<1> QED
  BY <1>1, SMTT(30) DEF Unmarshals, marshalEntry

\* No record starts inside another record.
LEMMA InsideRecord ==
    ASSUME TypeOK, NEW b, Unmarshals(b), NEW x \in Int, b < x, x < After(b)
    PROVE  ~Unmarshals(x)
<1>1. b \in Int /\ x - b \in 1 .. NumBlocks(disk[b].data) - 1 /\ b + (x - b) = x
  BY UnmarshalsBounds, Geometry, SMTT(30) DEF Blocks
<1>2. disk[x] = marshalEntry(disk[b], x - b)
  BY <1>1 DEF Unmarshals
<1> QED
  BY <1>1, <1>2, SMTT(30) DEF Unmarshals, marshalEntry

\* A block of entry e, or garbage, was stored in the block at target.
StoreBlock ==
    /\ pc = "write" /\ written < NumBlocks(e.data)
    /\ \/ disk' = [disk EXCEPT ![target] = marshalEntry(e, written)]
       \/ disk' = [disk EXCEPT ![target] = Junk]

LEMMA TargetBounds ==
    ASSUME TypeOK, StoreBlock
    PROVE  /\ target \in Blocks /\ nextBlock <= target /\ nextBlock \in Blocks
           /\ target < nextBlock + NumBlocks(e.data)
           /\ target = nextBlock + written /\ written \in Nat
           /\ e.data \in Data
BY Geometry, WritableFits, SMTT(30) DEF TypeOK, StoreBlock, target, Blocks

\* Records that lie in front of the write, or behind target, stay valid.
LEMMA StoreKeeps ==
    ASSUME TypeOK, StoreBlock, NEW b, Unmarshals(b),
           After(b) <= nextBlock \/ target < b
    PROVE  Unmarshals(b)' /\ disk'[b] = disk[b] /\ After(b)' = After(b)
<1> DEFINE n == NumBlocks(disk[b].data)
<1>1. /\ b \in Blocks /\ b \in Int /\ n \in Nat /\ n >= 1
      /\ After(b) = b + n /\ b + n <= End
  BY UnmarshalsBounds, Geometry, SMTT(30) DEF Blocks
<1>2. \A x \in b .. b + n - 1 : disk'[x] = disk[x]
  <2>1. \A x \in Blocks : x # target => disk'[x] = disk[x]
    BY TargetBounds DEF StoreBlock, TypeOK
  <2>2. \A x \in b .. b + n - 1 : x \in Blocks /\ x # target
    BY <1>1, TargetBounds, Geometry, SMTT(30) DEF Blocks
  <2> QED
    BY <2>1, <2>2
<1>3. disk'[b] = disk[b]
  BY <1>1, <1>2, SMTT(30)
<1>4. \A i \in 1 .. n - 1 : disk'[b + i] = marshalEntry(disk'[b], i)
  BY <1>1, <1>2, <1>3, SMTT(30) DEF Unmarshals
<1> QED
  BY <1>1, <1>3, <1>4, SMTT(30) DEF Unmarshals, After

\* A record that is valid after the store is the one being written, or old.
LEMMA StoreYields ==
    ASSUME TypeOK, WriteInv, StoreBlock, NEW b, Unmarshals(b)'
    PROVE  \/ b = nextBlock /\ EntryAt(b)' = e
           \/ /\ b < nextBlock \/ target < b
              /\ Unmarshals(b) /\ disk'[b] = disk[b]
<1> DEFINE n == NumBlocks(disk'[b].data)
<1>1. b \in Blocks /\ b \in Int /\ disk'[b].idx = 0 /\ disk'[b].data \in Data
      /\ disk'[b].rev # 0 /\ n \in Nat /\ n >= 1 /\ b + n <= End
      /\ \A i \in 1 .. n - 1 : disk'[b + i] = marshalEntry(disk'[b], i)
  BY Geometry, SMTT(30) DEF Unmarshals, Blocks
<1>2. \A x \in Blocks : x # target => disk'[x] = disk[x]
  BY TargetBounds DEF StoreBlock, TypeOK
<1>3. disk'[target] = marshalEntry(e, written) \/ disk'[target] = Junk
  BY TargetBounds DEF StoreBlock, TypeOK
<1>4. CASE b = nextBlock
  <2>1. CASE written = 0
    <3>1. target = b
      BY <1>4, <2>1, TargetBounds, SMTT(30) DEF Blocks
    <3>2. disk'[b] = marshalEntry(e, 0)
      BY <1>1, <1>3, <2>1, <3>1, Geometry, SMTT(30) DEF Junk
    <3> QED
      BY <1>4, <3>2, SMTT(30) DEF EntryAt, marshalEntry, TypeOK, Entry
  <2>2. CASE written # 0
    <3>1. disk[b] = marshalEntry(e, 0)
      BY <1>1, <1>4, <2>2, TargetBounds, SMTT(30) DEF WriteInv, StoreBlock
    <3>2. disk'[b] = marshalEntry(e, 0)
      BY <1>1, <1>2, <1>4, <2>2, <3>1, TargetBounds, SMTT(30)
    <3> QED
      BY <1>4, <3>2, SMTT(30) DEF EntryAt, marshalEntry, TypeOK, Entry
  <2> QED
    BY <2>1, <2>2
<1>5. CASE nextBlock < b /\ b <= target
  <2>1. CASE b = target
    BY <1>1, <1>3, <1>5, <2>1, TargetBounds, Geometry, SMTT(30) DEF Junk, marshalEntry, Blocks
  <2>2. CASE b # target
    <3>1. b - nextBlock \in 0 .. written - 1 /\ nextBlock + (b - nextBlock) = b
      BY <1>1, <1>5, <2>2, TargetBounds, SMTT(30) DEF Blocks
    <3>2. disk[b] = marshalEntry(e, b - nextBlock)
      BY <3>1 DEF WriteInv, StoreBlock
    <3> QED
      BY <1>1, <1>2, <1>5, <2>2, <3>2, TargetBounds, SMTT(30) DEF marshalEntry, Blocks
  <2> QED
    BY <2>1, <2>2
<1>6. CASE target < b
  <2>1. \A x \in b .. b + n - 1 : disk'[x] = disk[x]
    BY <1>1, <1>2, <1>6, TargetBounds, Geometry, SMTT(30) DEF Blocks
  <2> QED
    BY <1>1, <1>6, <2>1, SMTT(30) DEF Unmarshals
<1>7. CASE b < nextBlock
  <2>1. ~(target < b + n)
    <3> SUFFICES ASSUME target < b + n PROVE FALSE
      OBVIOUS
    <3>1. target - b \in 1 .. n - 1 /\ b + (target - b) = target
      BY <1>1, <1>7, TargetBounds, SMTT(30) DEF Blocks
    <3>2. disk'[target] = marshalEntry(disk'[b], target - b)
      BY <1>1, <3>1
    <3> QED
      BY <1>1, <1>3, <1>7, <3>1, <3>2, TargetBounds, SMTT(30) DEF marshalEntry, Junk, Blocks
  <2>2. \A x \in b .. b + n - 1 : disk'[x] = disk[x]
    BY <1>1, <1>2, <2>1, TargetBounds, Geometry, SMTT(30) DEF Blocks
  <2> QED
    BY <1>1, <1>7, <2>2, SMTT(30) DEF Unmarshals
<1> QED
  BY <1>1, <1>4, <1>5, <1>6, <1>7, TargetBounds, SMTT(30) DEF Blocks

\* The blocks written so far, the one being stored included.
LEMMA PrefixGrows ==
    ASSUME TypeOK, StoreBlock,
           disk' = [disk EXCEPT ![target] = marshalEntry(e, written)],
           \A i \in 0 .. written - 1 : disk[nextBlock + i] = marshalEntry(e, i)
    PROVE  \A i \in 0 .. written : disk'[nextBlock + i] = marshalEntry(e, i)
<1> SUFFICES ASSUME NEW i \in 0 .. written PROVE disk'[nextBlock + i] = marshalEntry(e, i)
  OBVIOUS
<1>1. /\ target \in Blocks /\ target = nextBlock + written /\ written \in Nat
      /\ nextBlock \in Int /\ nextBlock \in Blocks
  BY TargetBounds, Geometry, SMTT(30) DEF Blocks
<1>2. CASE i = written
  BY <1>1, <1>2 DEF TypeOK
<1>3. CASE i # written
  <2>1. i \in 0 .. written - 1 /\ nextBlock + i # target /\ nextBlock + i \in Blocks
    BY <1>1, <1>3, Geometry, SMTT(30) DEF Blocks
  <2> QED
    BY <2>1 DEF TypeOK
<1> QED
  BY <1>2, <1>3

\* When all blocks are written, the record is there.
LEMMA RecordComplete ==
    ASSUME TypeOK, pc = "write", written = NumBlocks(e.data), e.rev # 0,
           \A i \in 0 .. written - 1 : disk[nextBlock + i] = marshalEntry(e, i)
    PROVE  /\ Unmarshals(nextBlock) /\ EntryAt(nextBlock) = e
           /\ After(nextBlock) = nextBlock + NumBlocks(e.data)
<1> DEFINE p == nextBlock
<1>1. /\ e.data \in Data /\ p \in Nat /\ Start <= p /\ p + NumBlocks(e.data) <= End
      /\ NumBlocks(e.data) \in Nat /\ NumBlocks(e.data) >= 1 /\ Start \in Nat /\ End \in Nat
  BY WritableFits, Geometry, SMTT(30) DEF TypeOK
<1>2. disk[p] = marshalEntry(e, 0)
  <2>1. 0 \in 0 .. written - 1 /\ p + 0 = p
    BY <1>1, SMTT(30)
  <2> QED
    BY <2>1
<1>3. disk[p].rev = e.rev /\ disk[p].data = e.data /\ disk[p].idx = 0
  BY <1>2, SMTT(30) DEF marshalEntry
<1>4. \A i \in 1 .. NumBlocks(e.data) - 1 : disk[p + i] = marshalEntry(disk[p], i)
  <2> TAKE i \in 1 .. NumBlocks(e.data) - 1
  <2>1. i \in 0 .. written - 1 /\ i # 0
    BY <1>1, SMTT(30)
  <2>2. marshalEntry(e, i) = marshalEntry(disk[p], i)
    BY <1>3, <2>1 DEF marshalEntry
  <2> QED
    BY <2>1, <2>2
<1>5. Unmarshals(p)
  BY <1>1, <1>3, <1>4, SMTT(30) DEF Unmarshals, Blocks
<1> QED
  BY <1>3, <1>5 DEF EntryAt, After, TypeOK, Entry

(***************************************************************************)
(* What storing a block preserves.                                         *)
(***************************************************************************)
DiskInv == StoredIntact /\ ChainBefore /\ OlderBehind

LEMMA PastEndBounds ==
    ASSUME TypeOK, StoredIntact
    PROVE  /\ PastEnd \in Start .. End
           /\ stored.rev > 0 => /\ at \in Blocks /\ at < PastEnd
                                /\ After(at) = PastEnd
                                /\ disk[at].rev = stored.rev
           /\ stored.rev = 0 => PastEnd = Start
           /\ stored.rev \in Nat
<1>1. stored.rev \in Nat
  BY DEF TypeOK, Entry
<1>2. CASE stored.rev = 0
  BY <1>1, <1>2, Geometry, SMTT(30) DEF PastEnd
<1>3. CASE stored.rev > 0
  <2>1. Unmarshals(at) /\ disk[at].rev = stored.rev /\ disk[at].data = stored.data
    BY <1>3, SMTT(30) DEF StoredIntact, EntryAt
  <2>2. PastEnd = After(at)
    BY <1>3, <2>1, SMTT(30) DEF PastEnd, After
  <2> QED
    BY <1>1, <1>3, <2>1, <2>2, UnmarshalsBounds
<1> QED
  BY <1>1, <1>2, <1>3, SMTT(30)

LEMMA StorePreserves ==
    ASSUME TypeOK, DiskInv, NextPlace, WriteInv, StoreBlock,
           UNCHANGED <<stored, at, doubt>>
    PROVE  /\ DiskInv'
           /\ nextBlock = PastEnd /\ StartSettled => StartSettled'
<1> USE DEF DiskInv
<1> DEFINE P == nextBlock
<1>1. /\ P \in Blocks /\ P \in Int /\ target \in Blocks /\ target \in Int /\ P <= target
      /\ target < P + NumBlocks(e.data) /\ e.data \in Data /\ e.data \in Writable
      /\ Start \in Int /\ at \in Int /\ End \in Int /\ NumBlocks(e.data) \in Nat
  BY TargetBounds, Geometry, SMTT(30) DEF Blocks, TypeOK, StoreBlock
<1>2. /\ PastEnd \in Start .. End /\ stored.rev \in Nat /\ PastEnd' = PastEnd
      /\ stored.rev > 0 => at < PastEnd /\ Unmarshals(at) /\ After(at) = PastEnd
      /\ stored.rev = 0 => PastEnd = Start
  BY PastEndBounds DEF PastEnd, StoredIntact
<1>3. \/ P = PastEnd
      \/ P = Start /\ stored.rev > 0 /\ Start + NumBlocks(e.data) <= at
  BY <1>1 DEF NextPlace, Opened, StoreBlock
<1>4. e.rev = stored.rev + 1 /\ e.data \in doubt
  BY DEF WriteInv, StoreBlock
<1>5. StoredIntact'
  <2> SUFFICES ASSUME stored.rev > 0
               PROVE  stored.data \in Writable /\ Unmarshals(at)' /\ EntryAt(at)' = stored
    BY <1>2 DEF StoredIntact, ZeroEntry
  <2>1. After(at) <= P \/ target < at
    BY <1>1, <1>2, <1>3, SMTT(30)
  <2>2. Unmarshals(at)
    BY <1>2
  <2>3. \A b : b = at => Unmarshals(b)' /\ disk'[b] = disk[b]
    BY <2>1, <2>2, StoreKeeps
  <2>4. disk'[at] = disk[at]
    BY <2>3
  <2>5. Unmarshals(at)'
    BY <2>3 DEF Unmarshals
  <2> QED
    BY <2>4, <2>5 DEF StoredIntact, EntryAt
<1>6. ChainBefore'
  <2> SUFFICES ASSUME stored.rev > 0, NEW b \in Start .. at - 1, Unmarshals(b)'
               PROVE  /\ After(b)' <= at
                      /\ \/ b = Start /\ InDoubt(b)'
                         \/ /\ disk'[b].rev < stored.rev
                            /\ \/ After(b)' = at
                               \/ /\ Unmarshals(After(b))'
                                  /\ disk'[After(b)'].rev > disk'[b].rev
    BY DEF ChainBefore
  <2>1. CASE b = P /\ EntryAt(b)' = e
    <3>1. P = Start /\ Start + NumBlocks(e.data) <= at
      BY <1>1, <1>2, <1>3, <2>1, SMTT(30)
    <3>2. disk'[b].rev = e.rev /\ disk'[b].data = e.data
      BY <2>1 DEF EntryAt
    <3>3. After(b)' <= at
      BY <2>1, <3>1, <3>2 DEF After
    <3>4. InDoubt(b)'
      BY <1>4, <3>2 DEF InDoubt
    <3> QED
      BY <2>1, <3>1, <3>3, <3>4
  <2>2. CASE /\ b < P \/ target < b
             /\ Unmarshals(b) /\ disk'[b] = disk[b]
    <3>1. /\ After(b) <= at /\ After(b)' = After(b) /\ b < After(b) /\ After(b) \in Int
          /\ InDoubt(b)' <=> InDoubt(b)
      BY <2>2, UnmarshalsBounds, Geometry, SMTT(30) DEF ChainBefore, After, InDoubt
    <3>2. CASE b = Start /\ InDoubt(b)
      BY <3>1, <3>2
    <3>3. CASE After(b) = at /\ disk[b].rev < stored.rev
      BY <2>2, <3>1, <3>3
    <3>4. CASE After(b) # at /\ Unmarshals(After(b)) /\ disk[After(b)].rev > disk[b].rev
               /\ disk[b].rev < stored.rev
      <4> DEFINE c == After(b)
      <4>1. c \in Start .. at - 1 /\ Unmarshals(c)
        BY <1>1, <3>1, <3>4, SMTT(30)
      <4>2. After(c) <= at
        BY <4>1 DEF ChainBefore
      <4>3. After(c) <= P \/ target < c
        BY <1>1, <1>2, <1>3, <2>2, <3>1, <4>1, <4>2, UnmarshalsBounds, Geometry, SMTT(30)
      <4> HIDE DEF c
      <4>4. Unmarshals(c)' /\ disk'[c] = disk[c]
        <5>1. \A x : x = c => Unmarshals(x)' /\ disk'[x] = disk[x]
          BY <4>1, <4>3, StoreKeeps
        <5>2. c' = c
          BY <3>1 DEF c
        <5> QED
          BY <5>1, <5>2, SMTT(30) DEF Unmarshals
      <4> QED
        BY <2>2, <3>1, <3>4, <4>4 DEF c
    <3> QED
      BY <2>2, <3>2, <3>3, <3>4 DEF ChainBefore
  <2> QED
    BY <2>1, <2>2, StoreYields
<1>7. OlderBehind'
  <2> SUFFICES ASSUME NEW b \in PastEnd .. End - 1, Unmarshals(b)'
               PROVE  \/ disk'[b].rev < stored.rev
                      \/ b = PastEnd /\ InDoubt(b)'
                      \/ b > PastEnd /\ disk'[b].rev = stored.rev
    BY <1>2 DEF OlderBehind
  <2>1. CASE b = P /\ EntryAt(b)' = e
    <3>1. P = PastEnd
      BY <1>1, <1>2, <1>3, <2>1, SMTT(30)
    <3> QED
      BY <1>4, <2>1, <3>1 DEF EntryAt, InDoubt
  <2>2. CASE Unmarshals(b) /\ disk'[b] = disk[b]
    BY <2>2 DEF OlderBehind, InDoubt
  <2> QED
    BY <2>1, <2>2, StoreYields
<1>8. ASSUME P = PastEnd, StartSettled PROVE StartSettled'
  <2> SUFFICES ASSUME stored.rev > 0, Start < at, Unmarshals(Start)' PROVE ~InDoubt(Start)'
    BY DEF StartSettled
  <2>1. Start # P
    BY <1>1, <1>2, <1>8, SMTT(30)
  <2>2. Unmarshals(Start) /\ disk'[Start] = disk[Start]
    BY <2>1, StoreYields
  <2> QED
    BY <1>8, <2>2 DEF StartSettled, InDoubt
<1> QED
  BY <1>5, <1>6, <1>7, <1>8

(***************************************************************************)
(* A record of the next revision, behind the stored one or in front of it, *)
(* becomes the stored record: by a successful write or in a scan.          *)
(***************************************************************************)
LEMMA SettlePreserves ==
    ASSUME TypeOK, DiskInv, NEW x, NEW p,
           disk' = disk, stored' = x, at' = p, doubt' = {},
           Unmarshals(p), EntryAt(p) = x, x.data \in Writable,
           x.rev = stored.rev + 1,
           \/ p = PastEnd /\ StartSettled
           \/ p = Start /\ (stored.rev > 0 => After(p) <= at)
    PROVE  DiskInv' /\ StartSettled' /\ PastEnd' = After(p)
<1> USE DEF DiskInv
<1>1. /\ p \in Blocks /\ p \in Int /\ After(p) \in Start .. End /\ p < After(p)
      /\ Start \in Int /\ End \in Int /\ at \in Int
      /\ disk[p].rev = x.rev /\ disk[p].data = x.data
      /\ After(p) = p + NumBlocks(x.data)
  BY UnmarshalsBounds, Geometry, SMTT(30) DEF Blocks, TypeOK, EntryAt
<1>2. /\ PastEnd \in Start .. End /\ stored.rev \in Nat
      /\ stored.rev > 0 => /\ at \in Blocks /\ at < PastEnd /\ Unmarshals(at)
                           /\ After(at) = PastEnd /\ disk[at].rev = stored.rev
      /\ stored.rev = 0 => PastEnd = Start
  BY PastEndBounds DEF StoredIntact
<1>3. PastEnd' = After(p) /\ stored'.rev > 0
  BY <1>1, <1>2, SMTT(30) DEF PastEnd
<1>4. StoredIntact'
  <2>1. Unmarshals(p)' /\ EntryAt(p)' = EntryAt(p)
    BY SameDisk
  <2>2. Unmarshals(at)' /\ EntryAt(at)' = x
    BY <2>1 DEF Unmarshals, EntryAt
  <2> QED
    BY <1>3, <2>2, SMTT(30) DEF StoredIntact, Writable, maxDataBytes
<1>5. StartSettled'
  BY DEF StartSettled, InDoubt
<1>6. ASSUME NEW b \in Blocks, Unmarshals(b), stored.rev > 0, at < b, b < PastEnd
      PROVE  FALSE
  BY <1>1, <1>2, <1>6, InsideRecord, SMTT(30) DEF Blocks
<1>7. ASSUME NEW b \in Start .. p - 1, Unmarshals(b)
      PROVE  /\ After(b) <= p
             /\ disk[b].rev < x.rev
             /\ \/ After(b) = p
                \/ Unmarshals(After(b)) /\ disk[After(b)].rev > disk[b].rev
  <2>1. p = PastEnd /\ StartSettled /\ stored.rev > 0
    BY <1>1, <1>2, <1>7, SMTT(30)
  <2>2. CASE b < at
    <3>1. b \in Start .. at - 1
      BY <1>1, <1>7, <2>2, SMTT(30)
    <3>2. ~(b = Start /\ InDoubt(b))
      BY <1>1, <1>7, <2>1, <2>2 DEF StartSettled
    <3>3. /\ After(b) <= at /\ disk[b].rev < stored.rev
          /\ \/ After(b) = at
             \/ Unmarshals(After(b)) /\ disk[After(b)].rev > disk[b].rev
      BY <1>7, <2>1, <3>1, <3>2 DEF ChainBefore
    <3>4. disk[b].rev \in Nat /\ After(b) \in Int
      BY <1>7, UnmarshalsBounds, Geometry, SMTT(30)
    <3> QED
      BY <1>1, <1>2, <2>1, <3>3, <3>4, SMTT(30)
  <2>3. CASE b = at
    BY <1>2, <2>1, <2>3, SMTT(30)
  <2>4. CASE at < b
    BY <1>1, <1>2, <1>6, <1>7, <2>1, <2>4, UnmarshalsBounds, SMTT(30)
  <2> QED
    BY <1>1, <2>2, <2>3, <2>4, SMTT(30)
<1>8. ChainBefore'
  <2> SUFFICES ASSUME NEW b \in Start .. p - 1, Unmarshals(b)'
               PROVE  /\ After(b)' <= p
                      /\ disk'[b].rev < x.rev
                      /\ \/ After(b)' = p
                         \/ Unmarshals(After(b))' /\ disk'[After(b)'].rev > disk'[b].rev
    BY DEF ChainBefore
  <2>1. Unmarshals(b) /\ After(b)' = After(b)
    BY SameDisk
  <2>2. Unmarshals(After(b))' <=> Unmarshals(After(b))
    BY <2>1, SMTT(30) DEF Unmarshals, marshalEntry
  <2> QED
    BY <1>7, <2>1, <2>2
<1>9. OlderBehind'
  <2> SUFFICES ASSUME NEW b \in After(p) .. End - 1, Unmarshals(b)
               PROVE  \/ disk[b].rev < x.rev
                      \/ b > After(p) /\ disk[b].rev = x.rev
    <3>1. \A b : Unmarshals(b)' <=> Unmarshals(b)
      BY SameDisk
    <3> QED
      BY <1>3, <3>1 DEF OlderBehind
  <2>1. b \in Blocks /\ b \in Int /\ disk[b].rev \in Nat /\ b # Start
    BY <1>1, UnmarshalsBounds, SMTT(30) DEF Blocks
  <2>2. CASE stored.rev > 0 /\ b < at
    <3>1. b \in Start .. at - 1
      BY <1>1, <2>1, <2>2, SMTT(30)
    <3>2. disk[b].rev < stored.rev
      BY <2>1, <2>2, <3>1 DEF ChainBefore
    <3> QED
      BY <1>2, <2>1, <3>2, SMTT(30)
  <2>3. CASE stored.rev > 0 /\ b = at
    BY <1>2, <2>1, <2>3, SMTT(30)
  <2>4. CASE stored.rev > 0 /\ at < b /\ b < PastEnd
    BY <1>6, <2>1, <2>4
  <2>5. CASE PastEnd <= b
    <3>1. b \in PastEnd .. End - 1
      BY <1>2, <2>1, <2>5, SMTT(30)
    <3>2. \/ disk[b].rev < stored.rev
          \/ b = PastEnd /\ disk[b].rev = stored.rev + 1
          \/ b > PastEnd /\ disk[b].rev = stored.rev
      BY <3>1 DEF OlderBehind, InDoubt
    <3>3. b = PastEnd => b > After(p)
      BY <1>1, <1>2, <2>1, SMTT(30)
    <3> QED
      BY <1>2, <2>1, <3>2, <3>3, SMTT(30)
  <2> QED
    BY <1>1, <1>2, <2>1, <2>2, <2>3, <2>4, <2>5, SMTT(30)
<1> QED
  BY <1>3, <1>4, <1>5, <1>8, <1>9

(***************************************************************************)
(* The end of a scan.                                                      *)
(***************************************************************************)
LEMMA FinishPreserves ==
    ASSUME JournalInv, TearSafe, pc = "scan", NEW n \in Start .. End, FinishScan(n),
           lastEntry.rev > 0 => n = lba,
           lastEntry.rev = 0 => lba >= End /\ n = nextWriteLBA,
           \/ lba >= End
           \/ ~Unmarshals(lba)
           \/ disk[lba].rev < lastEntry.rev
    PROVE  /\ DiskInv' /\ NextPlace'
           /\ \/ lastEntry = stored
              \/ lastEntry.rev = stored.rev + 1 /\ lastEntry.data \in doubt
<1> USE DEF JournalInv
<1>1. /\ PastEnd \in Start .. End /\ stored.rev \in Nat /\ at \in Int
      /\ stored.rev > 0 => /\ at \in Blocks /\ at < PastEnd /\ at < End
                           /\ After(at) = PastEnd /\ Unmarshals(at)
                           /\ disk[at].rev = stored.rev
      /\ stored.rev = 0 => PastEnd = Start
  BY PastEndBounds, Geometry, SMTT(30) DEF StoredIntact, Blocks, TypeOK
<1>2. /\ disk' = disk /\ pc' = "open" /\ doubt' = {} /\ stored' = lastEntry
      /\ current' = lastEntry
      /\ nextBlock' = IF n >= End THEN Start ELSE n
      /\ at' = IF lastEntry.rev = 0 THEN Start ELSE n - NumBlocks(lastEntry.data)
  BY DEF FinishScan
<1>3. \A b : /\ Unmarshals(b)' <=> Unmarshals(b)
             /\ After(b)' = After(b) /\ EntryAt(b)' = EntryAt(b)
  BY <1>2, SameDisk
<1>4. StartSettled'
  BY <1>2 DEF StartSettled, InDoubt
<1>5. lba \in Int /\ lastEntry.rev \in Nat /\ Start \in Int /\ End \in Int /\ n \in Int
  BY Geometry, SMTT(30) DEF TypeOK, Entry
<1>6. CASE /\ lastEntry = ZeroEntry /\ nextWriteLBA = Start
           /\ stored.rev > 0 => lba <= at
           /\ lba # Start => StartSettled /\ (stored.rev = 0 => ~Unmarshals(Start))
  <2>1. stored.rev = 0 /\ lastEntry.rev = 0 /\ lba >= End
    BY <1>1, <1>5, <1>6, ZeroEntryType, SMTT(30)
  <2>2. stored'.rev = 0 /\ PastEnd' = Start
    BY <1>2, <2>1 DEF PastEnd
  <2>3. ~Unmarshals(Start)
    BY <1>5, <1>6, <2>1, UnmarshalsBounds, SMTT(30) DEF Blocks
  <2>4. \A b \in Start .. End - 1 : ~Unmarshals(b)
    BY <1>1, <2>1, <2>3, UnmarshalsBounds, SMTT(30) DEF OlderBehind
  <2>5. DiskInv'
    BY <1>2, <1>3, <1>6, <2>2, <2>4, SMTT(30)
    DEF DiskInv, StoredIntact, ChainBefore, OlderBehind, ZeroEntry
  <2>6. lastEntry = stored
    BY <1>6, <2>1 DEF StoredIntact
  <2>7. nextBlock' = PastEnd'
    BY <1>2, <1>6, <2>1, <2>2
  <2> QED
    BY <1>2, <1>4, <2>5, <2>6, <2>7 DEF NextPlace
<1>7. CASE /\ 0 < lastEntry.rev /\ lastEntry.rev < stored.rev
           /\ \/ lba = at
              \/ lba < at /\ Unmarshals(lba) /\ disk[lba].rev > lastEntry.rev
  <2>1. Unmarshals(lba) /\ disk[lba].rev > lastEntry.rev /\ lba < End
    BY <1>1, <1>5, <1>7, SMTT(30)
  <2> QED
    BY <1>5, <2>1, UnmarshalsBounds, SMTT(30)
<1>8. CASE stored.rev > 0 /\ lastEntry = stored /\ lba = PastEnd /\ StartSettled
  <2>1. n = PastEnd /\ at' = at /\ PastEnd' = PastEnd /\ stored' = stored
    <3>1. n = PastEnd /\ PastEnd = at + NumBlocks(stored.data) /\ NumBlocks(stored.data) \in Nat
      BY <1>8, Geometry, SMTT(30) DEF PastEnd, TypeOK
    <3>2. at' = at
      BY <1>1, <1>2, <1>8, <3>1, SMTT(30)
    <3> QED
      BY <1>2, <1>8, <3>1, <3>2 DEF PastEnd
  <2>2. StoredIntact'
    BY <1>2, <2>1 DEF StoredIntact, Unmarshals, EntryAt, Writable, maxDataBytes, marshalEntry
  <2>3. ChainBefore'
    <3> SUFFICES ASSUME NEW b \in Start .. at - 1, Unmarshals(b)
                 PROVE  /\ After(b) <= at
                        /\ disk[b].rev < stored.rev
                        /\ \/ After(b) = at
                           \/ Unmarshals(After(b)) /\ disk[After(b)].rev > disk[b].rev
      <4>1. \A b : Unmarshals(After(b))' <=> Unmarshals(After(b))
        BY <1>2, SameDiskAfter
      <4> QED
        BY <1>2, <1>3, <2>1, <4>1 DEF ChainBefore
    <3>1. ~(b = Start /\ InDoubt(b))
      <4>1. b = Start => Start < at
        BY <1>1, <1>5, SMTT(30)
      <4> QED
        BY <1>8, <4>1 DEF StartSettled
    <3> QED
      BY <1>8, <3>1 DEF ChainBefore
  <2>4. OlderBehind'
    <3> SUFFICES ASSUME NEW b \in PastEnd .. End - 1, Unmarshals(b)
                 PROVE  \/ disk[b].rev < stored.rev
                        \/ b > PastEnd /\ disk[b].rev = stored.rev
      BY <1>2, <1>3, <2>1 DEF OlderBehind
    <3>1. b = PastEnd => disk[b].rev < stored.rev
      BY <1>1, <1>5, <1>8, SMTT(30)
    <3> QED
      BY <3>1 DEF OlderBehind
  <2>5. NextPlace'
    <3>1. CASE PastEnd >= End
      <4>1. at + NumBlocks(stored.data) = End /\ stored.data \in Writable
        BY <1>1, <1>5, <1>8, <3>1, SMTT(30) DEF StoredIntact, PastEnd
      <4>2. at \in Nat /\ Start <= at
        BY Geometry, SMTT(30) DEF TypeOK
      <4>3. \A d \in Writable : Start + NumBlocks(d) <= at
        BY <4>1, <4>2, RoomAtStartOfFull
      <4>4. nextBlock' = Start
        BY <1>2, <2>1, <3>1
      <4> QED
        BY <1>2, <1>8, <2>1, <4>3, <4>4 DEF NextPlace, Writable, maxDataBytes
    <3>2. CASE PastEnd < End
      <4>1. nextBlock' = PastEnd'
        BY <1>1, <1>2, <1>5, <2>1, <3>2, SMTT(30)
      <4> QED
        BY <1>2, <1>4, <4>1 DEF NextPlace
    <3> QED
      BY <1>1, <1>5, <3>1, <3>2, SMTT(30)
  <2> QED
    BY <1>8, <2>2, <2>3, <2>4, <2>5 DEF DiskInv
<1>9. ASSUME lastEntry.rev = stored.rev + 1, lastEntry.data \in doubt,
             NEW p \in {Start, PastEnd},
             Unmarshals(p), EntryAt(p) = lastEntry, lba = After(p),
             \/ p = Start /\ (stored.rev > 0 => lba <= at)
             \/ p = PastEnd /\ StartSettled
      PROVE  DiskInv' /\ NextPlace'
  <2>1. /\ lastEntry.data \in Writable /\ lastEntry.data \in Data
        /\ NumBlocks(lastEntry.data) \in Nat /\ NumBlocks(lastEntry.data) >= 1
    BY <1>9, WritableFits, Geometry DEF TypeOK
  <2>2. /\ n = After(p) /\ p \in Blocks /\ p \in Nat /\ Start <= p
        /\ n = p + NumBlocks(lastEntry.data)
    BY <1>1, <1>9, UnmarshalsBounds, Geometry, SMTT(30) DEF EntryAt, Blocks
  <2>3. at' = p
    BY <1>1, <1>2, <1>9, <2>1, <2>2, SMTT(30)
  <2>4. DiskInv' /\ StartSettled' /\ PastEnd' = After(p)
    BY <1>2, <1>9, <2>1, <2>3, SettlePreserves DEF DiskInv
  <2>5. NextPlace'
    <3>1. CASE n >= End
      <4>1. p + NumBlocks(lastEntry.data) = End
        BY <1>5, <2>2, <3>1, SMTT(30)
      <4>2. \A d \in Writable : Start + NumBlocks(d) <= p
        BY <2>1, <2>2, <4>1, RoomAtStartOfFull
      <4>3. nextBlock' = Start /\ stored'.rev > 0 /\ current' = stored'
        BY <1>1, <1>2, <1>9, <3>1, SMTT(30)
      <4> QED
        BY <2>3, <4>2, <4>3 DEF NextPlace, Writable, maxDataBytes
    <3>2. CASE n < End
      <4>1. nextBlock' = n
        BY <1>2, <1>5, <3>2, SMTT(30)
      <4>2. nextBlock' = PastEnd'
        BY <2>2, <2>4, <4>1
      <4> QED
        BY <1>2, <2>4, <4>2 DEF NextPlace
    <3> QED
      BY <1>5, <3>1, <3>2, SMTT(30)
  <2> QED
    BY <2>4, <2>5
<1> QED
  BY <1>6, <1>7, <1>8, <1>9 DEF ScanInv

\* What a scan that is not yet at its end finds in its next block.
LEMMA ScanPosition ==
    ASSUME JournalInv, pc = "scan", lba < End, Unmarshals(lba)
    PROVE  /\ disk[lba].rev # lastEntry.rev
           /\ disk[lba].rev > lastEntry.rev =>
                \/ /\ disk[lba].rev < stored.rev
                   /\ \/ After(lba) = at
                      \/ /\ After(lba) < at
                         /\ Unmarshals(After(lba)) /\ disk[After(lba)].rev > disk[lba].rev
                   /\ StartSettled
                \/ /\ stored.rev > 0 /\ EntryAt(lba) = stored /\ After(lba) = PastEnd
                   /\ StartSettled
                \/ /\ InDoubt(lba) /\ lba \in {Start, PastEnd}
                   /\ \/ lba = Start /\ (stored.rev > 0 => After(lba) <= at)
                      \/ lba = PastEnd /\ StartSettled
<1> USE DEF JournalInv
<1>1. /\ PastEnd \in Start .. End /\ stored.rev \in Nat /\ at \in Int
      /\ stored.rev > 0 => /\ at \in Blocks /\ at < PastEnd /\ Unmarshals(at)
                           /\ EntryAt(at) = stored
                           /\ After(at) = PastEnd /\ disk[at].rev = stored.rev
      /\ stored.rev = 0 => PastEnd = Start
  BY PastEndBounds, SMTT(30) DEF StoredIntact, TypeOK
<1>2. /\ lba \in Blocks /\ lba \in Int /\ disk[lba].rev \in Nat \ {0} /\ lastEntry.rev \in Nat
      /\ Start \in Int /\ End \in Int /\ Start <= lba
      /\ lba < After(lba) /\ After(lba) \in Int
  BY UnmarshalsBounds, Geometry, SMTT(30) DEF TypeOK, Entry, Blocks
<1>3. CASE /\ lastEntry = ZeroEntry /\ nextWriteLBA = Start
           /\ stored.rev > 0 => lba <= at
           /\ lba # Start => StartSettled /\ (stored.rev = 0 => ~Unmarshals(Start))
  <2>1. CASE stored.rev = 0
    <3>1. lba \in PastEnd .. End - 1
      BY <1>1, <1>2, <2>1, SMTT(30)
    <3>2. lba = Start /\ InDoubt(lba)
      BY <1>1, <1>2, <2>1, <3>1, SMTT(30) DEF OlderBehind
    <3> QED
      BY <1>1, <1>2, <1>3, <2>1, <3>2, ZeroEntryType, SMTT(30)
  <2>2. CASE stored.rev > 0 /\ lba < at
    <3>1. lba \in Start .. at - 1
      BY <1>1, <1>2, <2>2, SMTT(30)
    <3>2. CASE lba = Start /\ InDoubt(lba)
      BY <1>2, <1>3, <2>2, <3>1, <3>2, ZeroEntryType DEF ChainBefore
    <3>3. CASE ~(lba = Start /\ InDoubt(lba))
      <4>1. StartSettled
        BY <1>3, <3>3 DEF StartSettled
      <4> QED
        BY <1>1, <1>2, <1>3, <2>2, <3>1, <3>3, <4>1, ZeroEntryType, SMTT(30) DEF ChainBefore
    <3> QED
      BY <3>2, <3>3
  <2>3. CASE stored.rev > 0 /\ lba = at
    <3>1. StartSettled
      BY <1>1, <1>2, <1>3, <2>3, SMTT(30) DEF StartSettled
    <3> QED
      BY <1>1, <1>2, <1>3, <2>3, <3>1, ZeroEntryType
  <2> QED
    BY <1>1, <1>2, <1>3, <2>1, <2>2, <2>3, SMTT(30)
<1>4. CASE /\ 0 < lastEntry.rev /\ lastEntry.rev < stored.rev
           /\ \/ lba = at
              \/ lba < at /\ Unmarshals(lba) /\ disk[lba].rev > lastEntry.rev
           /\ StartSettled
  <2>1. CASE lba = at
    BY <1>1, <1>2, <1>4, <2>1, SMTT(30)
  <2>2. CASE lba < at /\ disk[lba].rev > lastEntry.rev
    <3>1. lba \in Start .. at - 1 /\ lba # Start
      BY <1>1, <1>2, <1>4, <2>2, Geometry, SMTT(30) DEF TypeOK
    <3> QED
      BY <1>1, <1>2, <1>4, <2>2, <3>1, SMTT(30) DEF ChainBefore
  <2> QED
    BY <1>4, <2>1, <2>2
<1>5. CASE stored.rev > 0 /\ lastEntry = stored /\ lba = PastEnd /\ StartSettled
  <2>1. lba \in PastEnd .. End - 1
    BY <1>1, <1>2, <1>5, SMTT(30)
  <2>2. disk[lba].rev < stored.rev \/ InDoubt(lba)
    BY <1>5, <2>1, SMTT(30) DEF OlderBehind
  <2> QED
    BY <1>1, <1>2, <1>5, <2>2, SMTT(30) DEF InDoubt
<1>6. ASSUME lastEntry.rev = stored.rev + 1, NEW p \in {Start, PastEnd},
             Unmarshals(p), lba = After(p),
             \/ p = Start /\ (stored.rev > 0 => lba <= at)
             \/ p = PastEnd /\ StartSettled
      PROVE  disk[lba].rev < lastEntry.rev
  <2>1. p < lba /\ Start < lba
    BY <1>1, <1>2, <1>6, UnmarshalsBounds, SMTT(30) DEF Blocks
  <2>2. CASE stored.rev > 0 /\ lba < at
    <3>1. lba \in Start .. at - 1 /\ lba # Start
      BY <1>1, <1>2, <2>1, <2>2, SMTT(30)
    <3> QED
      BY <1>1, <1>2, <1>6, <2>2, <3>1, SMTT(30) DEF ChainBefore
  <2>3. CASE stored.rev > 0 /\ lba = at
    BY <1>1, <1>2, <1>6, <2>3, SMTT(30)
  <2>4. CASE PastEnd < lba
    <3>1. lba \in PastEnd .. End - 1
      BY <1>1, <1>2, <2>4, SMTT(30)
    <3> QED
      BY <1>1, <1>2, <1>6, <2>4, <3>1, SMTT(30) DEF OlderBehind
  <2> QED
    BY <1>1, <1>2, <1>6, <2>1, <2>2, <2>3, <2>4, SMTT(30)
<1> QED
  <2>1. lastEntry.rev = stored.rev + 1 /\ (\E p \in {Start, PastEnd} :
             /\ Unmarshals(p) /\ lba = After(p)
             /\ \/ p = Start /\ (stored.rev > 0 => lba <= at)
                \/ p = PastEnd /\ StartSettled) => disk[lba].rev < lastEntry.rev
    BY <1>6
  <2>2. CASE disk[lba].rev < lastEntry.rev
    BY <1>2, <2>2, SMTT(30)
  <2>3. CASE lastEntry.rev = stored.rev + 1 /\ \E p \in {Start, PastEnd} :
             /\ Unmarshals(p) /\ EntryAt(p) = lastEntry /\ lba = After(p)
             /\ \/ p = Start /\ (stored.rev > 0 => lba <= at)
                \/ p = PastEnd /\ StartSettled
    BY <2>1, <2>2, <2>3
  <2> QED
    BY <1>3, <1>4, <1>5, <2>3 DEF ScanInv

(***************************************************************************)
(* The inductive step.                                                     *)
(***************************************************************************)

\* A step that leaves the device and the history alone.
LEMMA QuietStep ==
    ASSUME DiskInv, UNCHANGED <<disk, stored, at, doubt>>
    PROVE  /\ DiskInv'
           /\ StartSettled' <=> StartSettled
           /\ PastEnd' = PastEnd
<1>1. \A b : /\ Unmarshals(b)' <=> Unmarshals(b)
             /\ After(b)' = After(b) /\ (InDoubt(b)' <=> InDoubt(b))
             /\ EntryAt(b)' = EntryAt(b)
             /\ Unmarshals(After(b))' <=> Unmarshals(After(b))
  <2>1. disk' = disk /\ stored' = stored /\ doubt' = doubt
    OBVIOUS
  <2>2. \A b : InDoubt(b)' <=> InDoubt(b)
    BY <2>1 DEF InDoubt
  <2> QED
    BY <2>1, <2>2, SameDisk, SameDiskAfter
<1>2. PastEnd' = PastEnd
  BY DEF PastEnd
<1>3. StoredIntact'
  BY DEF DiskInv, StoredIntact, Unmarshals, EntryAt, marshalEntry, Writable, maxDataBytes
<1>4. ChainBefore'
  BY <1>1 DEF DiskInv, ChainBefore
<1>5. OlderBehind'
  BY <1>1, <1>2 DEF DiskInv, OlderBehind
<1>6. StartSettled' <=> StartSettled
  BY <1>1 DEF StartSettled
<1> QED
  BY <1>2, <1>3, <1>4, <1>5, <1>6 DEF DiskInv

LEMMA UpdatePreserves ==
    ASSUME JournalInv, TearSafe, NoRevisionWrap, NEW d \in Data, Update(d)
    PROVE  DiskInv' /\ NextPlace' /\ WriteInv'
<1> USE DEF JournalInv
<1>1. /\ pc = "open" /\ pc' = "write" /\ d \in Writable /\ UNCHANGED <<disk, current, stored, at>>
      /\ e' = [rev |-> (current.rev + 1) % RevLimit, data |-> d] /\ written' = 0
      /\ doubt' = doubt \cup {d} /\ current.rev < MaxRev
      /\ nextBlock' = IF Wraps(d) THEN Start ELSE nextBlock
  BY DEF Update
<1>2. \A b : /\ Unmarshals(b)' <=> Unmarshals(b)
             /\ After(b)' = After(b) /\ (InDoubt(b) => InDoubt(b)')
             /\ Unmarshals(After(b))' <=> Unmarshals(After(b))
  <2>1. \A b : InDoubt(b) => InDoubt(b)'
    BY <1>1 DEF InDoubt
  <2> QED
    BY <1>1, <2>1, SameDisk, SameDiskAfter
<1>3. PastEnd' = PastEnd
  BY <1>1 DEF PastEnd
<1>4. DiskInv'
  <2>1. StoredIntact'
    BY <1>1 DEF StoredIntact, Unmarshals, EntryAt, marshalEntry, Writable, maxDataBytes
  <2>2. ChainBefore'
    BY <1>1, <1>2 DEF ChainBefore
  <2>3. OlderBehind'
    <3>1. disk' = disk /\ stored' = stored
      BY <1>1
    <3> SUFFICES ASSUME NEW b \in PastEnd .. End - 1, Unmarshals(b)
                 PROVE  \/ disk[b].rev < stored.rev
                        \/ b = PastEnd /\ InDoubt(b)
                        \/ b > PastEnd /\ disk[b].rev = stored.rev
      BY <1>2, <1>3, <3>1 DEF OlderBehind
    <3> QED
      BY DEF OlderBehind
  <2> QED
    BY <2>1, <2>2, <2>3 DEF DiskInv
<1>5. /\ current = stored /\ stored.rev \in Nat
      /\ \/ nextBlock = PastEnd /\ StartSettled
         \/ /\ nextBlock = Start /\ stored.rev > 0
            /\ \A x \in Writable : Start + NumBlocks(x) <= at
  BY <1>1, PastEndBounds DEF NextPlace, Opened
<1>6. WriteInv'
  <2>1. (current.rev + 1) % RevLimit = stored.rev + 1
    <3>1. stored.rev + 1 < RevLimit /\ RevLimit \in Nat
      BY <1>1, <1>5, JournalConstants, SMTT(30) DEF NoRevisionWrap
    <3> QED
      BY <1>5, <3>1, SMTT(30)
  <2> QED
    BY <1>1, <2>1, SMTT(30) DEF WriteInv
<1>7. ASSUME StartSettled PROVE StartSettled'
  <2> SUFFICES ASSUME stored.rev > 0, Start < at, Unmarshals(Start)
               PROVE  disk[Start].rev < stored.rev
    <3>1. CASE stored.rev > 0 /\ Start < at /\ Unmarshals(Start)
      <4>1. disk[Start].rev < stored.rev
        BY <3>1
      <4>2. disk'[Start].rev # stored'.rev + 1
        BY <1>1, <1>5, <3>1, <4>1, SMTT(30) DEF Unmarshals, TypeOK, BlockContent
      <4> QED
        BY <4>2 DEF StartSettled, InDoubt
    <3>2. CASE ~(stored.rev > 0 /\ Start < at /\ Unmarshals(Start))
      BY <1>1, <1>2, <3>2 DEF StartSettled
    <3> QED
      BY <3>1, <3>2
  <2>1. Start \in Start .. at - 1
    BY Geometry, SMTT(30) DEF TypeOK
  <2> QED
    BY <1>7, <2>1 DEF StartSettled, ChainBefore
<1>8. NextPlace'
  <2>1. CASE Wraps(d)
    <3>1. End - nextBlock \in Nat /\ nextBlock \in Int
      BY Geometry, SMTT(30) DEF TypeOK
    <3>2. End - nextBlock < NumBlocks(d)
      BY <2>1, <3>1, FitsInBlocks DEF Wraps
    <3>3. nextBlock # Start
      BY <1>1, <3>1, <3>2, WritableFits, Geometry, SMTT(30)
    <3>4. nextBlock = PastEnd /\ stored.rev > 0
      BY <1>5, <3>3, PastEndBounds, SMTT(30)
    <3>5. at + NumBlocks(stored.data) + NumBlocks(d) > End /\ stored.data \in Writable /\ at \in Nat
      BY <3>1, <3>2, <3>4, Geometry, SMTT(30) DEF PastEnd, StoredIntact, TypeOK
    <3>6. \A x \in Writable : Start + NumBlocks(x) <= at
      BY <1>1, <3>5, RoomAtStart
    <3> QED
      BY <1>1, <1>5, <2>1, <3>4, <3>6 DEF NextPlace, Writable, maxDataBytes
  <2>2. CASE ~Wraps(d)
    BY <1>1, <1>3, <1>5, <1>7, <2>2 DEF NextPlace, Writable, maxDataBytes
  <2> QED
    BY <2>1, <2>2
<1> QED
  BY <1>4, <1>6, <1>8

LEMMA CommitPreserves ==
    ASSUME JournalInv, CommitWrite
    PROVE  DiskInv' /\ NextPlace'
<1> USE DEF JournalInv
<1> DEFINE p == nextBlock
<1>1. /\ pc = "write" /\ pc' = "open" /\ written = NumBlocks(e.data)
      /\ disk' = disk /\ stored' = e /\ at' = nextBlock /\ doubt' = {} /\ current' = e
      /\ nextBlock' = nextBlock + NumBlocks(e.data)
  BY DEF CommitWrite
<1>2. /\ e.rev = stored.rev + 1 /\ e.data \in doubt /\ e.data \in Writable /\ e.data \in Data
      /\ \A i \in 0 .. written - 1 : disk[p + i] = marshalEntry(e, i)
      /\ p \in Nat /\ Start <= p /\ p + NumBlocks(e.data) <= End
      /\ NumBlocks(e.data) \in Nat /\ NumBlocks(e.data) >= 1
      /\ stored.rev \in Nat /\ Start \in Nat /\ End \in Nat /\ at \in Int
  BY <1>1, WritableFits, Geometry, SMTT(30) DEF WriteInv, TypeOK, Entry
<1>3. Unmarshals(p) /\ EntryAt(p) = e /\ After(p) = p + NumBlocks(e.data)
  <2>1. e.rev # 0
    BY <1>2, SMTT(30)
  <2> QED
    BY <1>1, <1>2, <2>1, RecordComplete
<1>4. \/ p = PastEnd /\ StartSettled
      \/ p = Start /\ (stored.rev > 0 => After(p) <= at)
  BY <1>1, <1>2, <1>3 DEF NextPlace, Opened
<1>5. DiskInv' /\ StartSettled' /\ PastEnd' = After(p)
  BY <1>1, <1>2, <1>3, <1>4, SettlePreserves DEF DiskInv
<1> QED
  BY <1>1, <1>3, <1>5 DEF NextPlace

LEMMA InvStep ==
    ASSUME TearSafe, NoRevisionWrap, HonestStorage, JournalInv, [Next]_vars
    PROVE  /\ JournalInv'
           /\ pc = "scan" /\ pc' = "open" =>
                 \/ current' = stored
                 \/ current'.rev = stored.rev + 1 /\ current'.data \in doubt
<1>0. TypeOK'
  BY TypeStep DEF JournalInv
<1>a. TypeOK /\ DiskInv /\ NextPlace /\ WriteInv /\ ScanInv /\ pc # "corrupt"
  BY DEF JournalInv, DiskInv, NeverCorrupt
<1> DEFINE Goal == /\ DiskInv' /\ NextPlace' /\ WriteInv' /\ ScanInv' /\ pc' # "corrupt"
                   /\ pc = "scan" /\ pc' = "open" =>
                         \/ current' = stored
                         \/ current'.rev = stored.rev + 1 /\ current'.data \in doubt
<1> SUFFICES Goal
  BY <1>0 DEF JournalInv, DiskInv, NeverCorrupt
<1>1. CASE OpenJournal
  <2>1. /\ pc' = "scan" /\ UNCHANGED <<disk, stored, at, doubt>>
        /\ lba' = Start /\ lastEntry' = ZeroEntry /\ nextWriteLBA' = Start
    BY <1>1 DEF OpenJournal, history
  <2>2. at \in Start .. End
    BY <1>a DEF TypeOK
  <2>3. DiskInv'
    BY <1>a, <2>1, QuietStep
  <2>4. NextPlace' /\ WriteInv' /\ pc' # "corrupt"
    BY <2>1 DEF NextPlace, Opened, WriteInv
  <2>5. stored'.rev > 0 => lba' <= at'
    BY <2>1, <2>2, Geometry, SMTT(30)
  <2>6. ScanInv'
    BY <2>1, <2>5 DEF ScanInv
  <2> QED
    BY <2>1, <2>3, <2>4, <2>6
<1>2. ASSUME NEW n \in Start .. End, pc = "scan", FinishScan(n),
             lastEntry.rev > 0 => n = lba,
             lastEntry.rev = 0 => lba >= End /\ n = nextWriteLBA,
             lba >= End \/ ~Unmarshals(lba) \/ disk[lba].rev < lastEntry.rev
      PROVE  Goal
  <2>1. DiskInv' /\ NextPlace' /\ pc' = "open" /\ current' = lastEntry
    BY <1>2, FinishPreserves DEF FinishScan
  <2>2. \/ lastEntry = stored
        \/ lastEntry.rev = stored.rev + 1 /\ lastEntry.data \in doubt
    BY <1>2, FinishPreserves
  <2> QED
    BY <2>1, <2>2 DEF WriteInv, ScanInv
<1>3. CASE ScanInvalid
  <2>0. pc = "scan" /\ lba < End /\ ~Unmarshals(lba)
    BY <1>3 DEF ScanInvalid, HonestStorage
  <2>1. CASE lastEntry.rev > 0 /\ FinishScan(nextWriteLBA)
    BY <1>2, <1>a, <2>0, <2>1, SMTT(30) DEF TypeOK
  <2>2. CASE /\ lastEntry.rev = 0
             /\ lba' = lba + 1
             /\ UNCHANGED <<disk, pc, memory, lastEntry, nextWriteLBA, writer, history>>
    <3>1. /\ lastEntry = ZeroEntry /\ nextWriteLBA = Start
          /\ stored.rev > 0 => lba <= at
          /\ lba # Start => StartSettled /\ (stored.rev = 0 => ~Unmarshals(Start))
      BY <1>a, <2>0, <2>2, SMTT(30) DEF ScanInv, TypeOK, Entry
    <3>2. stored.rev > 0 => lba # at
      BY <1>a, <2>0 DEF DiskInv, StoredIntact
    <3>3. StartSettled /\ (stored.rev = 0 => ~Unmarshals(Start))
      BY <2>0, <3>1 DEF StartSettled
    <3>4. DiskInv' /\ StartSettled' /\ (Unmarshals(Start)' <=> Unmarshals(Start))
      BY <1>a, <2>2, <3>3, QuietStep, SameDisk DEF history
    <3>5. ScanInv'
      BY <1>a, <2>0, <2>2, <3>1, <3>2, <3>3, <3>4, Geometry, SMTT(30) DEF ScanInv, TypeOK, history
    <3> QED
      BY <2>0, <2>2, <3>4, <3>5 DEF NextPlace, Opened, WriteInv
  <2> QED
    BY <1>3, <2>1, <2>2 DEF ScanInvalid
<1>4. CASE ScanNewer
  <2>1. /\ pc = "scan" /\ pc' = "scan" /\ lba < End /\ Unmarshals(lba)
        /\ disk[lba].rev > lastEntry.rev /\ lastEntry' = EntryAt(lba) /\ lba' = After(lba)
        /\ UNCHANGED <<disk, stored, at, doubt>>
    BY <1>4 DEF ScanNewer, history
  <2>2. /\ DiskInv' /\ (StartSettled' <=> StartSettled) /\ PastEnd' = PastEnd
        /\ \A b : Unmarshals(b)' <=> Unmarshals(b)
        /\ \A b : EntryAt(b)' = EntryAt(b) /\ After(b)' = After(b)
    BY <1>a, <2>1, QuietStep, SameDisk
  <2>3. EntryAt(lba).rev = disk[lba].rev /\ EntryAt(lba).data = disk[lba].data
        /\ disk[lba].rev \in Nat \ {0}
    BY <1>a, <2>1, UnmarshalsBounds DEF EntryAt
  <2>4. ScanInv'
    <3>1. CASE /\ disk[lba].rev < stored.rev
               /\ \/ After(lba) = at
                  \/ /\ After(lba) < at
                     /\ Unmarshals(After(lba)) /\ disk[After(lba)].rev > disk[lba].rev
               /\ StartSettled
      <4>1. Unmarshals(lba)' <=> Unmarshals(After(lba))
        BY <2>1, SMTT(30) DEF Unmarshals, marshalEntry
      <4> QED
        BY <2>1, <2>2, <2>3, <3>1, <4>1, SMTT(30) DEF ScanInv
    <3>2. CASE /\ stored.rev > 0 /\ EntryAt(lba) = stored /\ After(lba) = PastEnd
               /\ StartSettled
      BY <2>1, <2>2, <3>2 DEF ScanInv
    <3>3. CASE /\ InDoubt(lba) /\ lba \in {Start, PastEnd}
               /\ \/ lba = Start /\ (stored.rev > 0 => After(lba) <= at)
                  \/ lba = PastEnd /\ StartSettled
      <4>1. lastEntry'.rev = stored'.rev + 1 /\ lastEntry'.data \in doubt'
        BY <2>1, <2>3, <3>3 DEF InDoubt
      <4>2. \E b \in {Start, PastEnd} :
               /\ Unmarshals(b) /\ EntryAt(b) = lastEntry' /\ lba' = After(b)
               /\ \/ b = Start /\ (stored.rev > 0 => lba' <= at)
                  \/ b = PastEnd /\ StartSettled
        BY <2>1, <3>3
      <4>3. \E b \in {Start, PastEnd'} :
               /\ Unmarshals(b)' /\ EntryAt(b)' = lastEntry' /\ lba' = After(b)'
               /\ \/ b = Start /\ (stored'.rev > 0 => lba' <= at')
                  \/ b = PastEnd' /\ StartSettled'
        BY <2>1, <2>2, <4>2
      <4> QED
        BY <4>1, <4>3 DEF ScanInv
    <3> QED
      BY <2>1, <3>1, <3>2, <3>3, ScanPosition
  <2> QED
    BY <2>1, <2>2, <2>4 DEF NextPlace, Opened, WriteInv
<1>5. CASE ScanOlder
  <2>1. /\ pc = "scan" /\ lba < End /\ disk[lba].rev < lastEntry.rev /\ FinishScan(lba)
        /\ disk[lba].rev \in Nat
    BY <1>5, <1>a, UnmarshalsBounds DEF ScanOlder
  <2>2. lba \in Start .. End /\ lastEntry.rev \in Nat /\ lastEntry.rev # 0
    BY <1>a, <2>1, SMTT(30) DEF TypeOK, Entry
  <2> QED
    BY <1>2, <2>1, <2>2
<1>6. CASE ScanDuplicate
  BY <1>6, ScanPosition DEF ScanDuplicate
<1>7. CASE ScanEnd
  BY <1>2, <1>7, <1>a DEF ScanEnd, TypeOK, Entry
<1>8. ASSUME NEW d \in Data, Update(d) PROVE Goal
  BY <1>8, UpdatePreserves DEF Update, ScanInv
<1>9. CASE WriteBlock
  <2>1. /\ pc = "write" /\ pc' = "write" /\ written < NumBlocks(e.data) /\ written' = written + 1
        /\ disk' = [disk EXCEPT ![target] = marshalEntry(e, written)]
        /\ UNCHANGED <<nextBlock, current, e, stored, at, doubt>>
    BY <1>9 DEF WriteBlock, HonestStorage, memory, history
  <2>2. StoreBlock
    BY <2>1 DEF StoreBlock
  <2>3. DiskInv' /\ (nextBlock = PastEnd /\ StartSettled => StartSettled')
    BY <1>a, <2>1, <2>2, StorePreserves
  <2>4. NextPlace'
    BY <1>a, <2>1, <2>3 DEF NextPlace, Opened, PastEnd, Writable, maxDataBytes
  <2>5. WriteInv'
    <3>1. written \in Nat
      BY <1>a DEF TypeOK
    <3>2. \A i \in 0 .. written : disk'[nextBlock + i] = marshalEntry(e, i)
      BY <1>a, <2>1, <2>2, PrefixGrows DEF WriteInv
    <3> QED
      BY <1>a, <2>1, <3>1, <3>2, SMTT(30) DEF WriteInv, marshalEntry
  <2> QED
    BY <2>1, <2>3, <2>4, <2>5 DEF ScanInv
<1>10. CASE CommitWrite
  BY <1>10, CommitPreserves DEF CommitWrite, WriteInv, ScanInv
<1>11. CASE FailWrite
  <2>1. /\ pc = "write" /\ pc' = "open" /\ written < NumBlocks(e.data) /\ Interrupted
        /\ UNCHANGED <<nextBlock, current, stored, at, doubt>>
    BY <1>11 DEF FailWrite, memory, history
  <2>2. DiskInv' /\ (nextBlock = PastEnd /\ StartSettled => StartSettled')
    <3>1. CASE disk' = disk
      BY <1>a, <2>1, <3>1, QuietStep
    <3>2. CASE StoreBlock
      BY <1>a, <2>1, <3>2, StorePreserves
    <3> QED
      BY <2>1, <3>1, <3>2 DEF Interrupted, StoreBlock
  <2>3. NextPlace'
    BY <1>a, <2>1, <2>2 DEF NextPlace, Opened, PastEnd, Writable, maxDataBytes
  <2> QED
    BY <2>1, <2>2, <2>3 DEF WriteInv, ScanInv
<1>12. CASE Crash
  <2>1. pc' = "closed" /\ UNCHANGED <<stored, at, doubt>>
    BY <1>12 DEF Crash, history
  <2>2. DiskInv'
    <3>1. CASE disk' = disk
      BY <1>a, <2>1, <3>1, QuietStep
    <3>2. CASE StoreBlock
      BY <1>a, <2>1, <3>2, StorePreserves
    <3> QED
      BY <1>12, <3>1, <3>2 DEF Crash, Interrupted, StoreBlock
  <2> QED
    BY <2>1, <2>2 DEF NextPlace, Opened, WriteInv, ScanInv
<1>13. CASE UNCHANGED vars
  <2>1. UNCHANGED <<disk, pc, current, nextBlock, lba, lastEntry, nextWriteLBA, e, written,
                    stored, at, doubt>>
    BY <1>13 DEF vars, memory, scan, writer, history
  <2>2. DiskInv' /\ (StartSettled' <=> StartSettled) /\ PastEnd' = PastEnd
    BY <1>a, <2>1, QuietStep
  <2>3. NextPlace'
    BY <1>a, <2>1, <2>2 DEF NextPlace, Opened, Writable, maxDataBytes
  <2>4. WriteInv'
    BY <1>a, <2>1 DEF WriteInv, marshalEntry
  <2>5. ScanInv'
    <3>1. \A b : /\ Unmarshals(b)' <=> Unmarshals(b)
                 /\ After(b)' = After(b) /\ EntryAt(b)' = EntryAt(b)
      BY <2>1, SameDisk
    <3>2. Unmarshals(lba)' <=> Unmarshals(lba)
      BY <2>1 DEF Unmarshals, marshalEntry
    <3> QED
      BY <1>a, <2>1, <2>2, <3>1, <3>2 DEF ScanInv
  <2> QED
    BY <1>a, <2>1, <2>2, <2>3, <2>4, <2>5
<1> QED
  BY <1>1, <1>3, <1>4, <1>5, <1>6, <1>7, <1>8, <1>9, <1>10, <1>11, <1>12, <1>13
     DEF Next, ScanStep
-----------------------------------------------------------------------------
(***************************************************************************)
(* The acknowledged record is intact on the device at every moment, and    *)
(* every scan of init finds its way to it.                                 *)
(***************************************************************************)
THEOREM JournalInvariant ==
    ASSUME TearSafe, NoRevisionWrap, HonestStorage
    PROVE  Spec => []JournalInv
<1>1. Init => JournalInv
  <2> SUFFICES ASSUME Init PROVE JournalInv
    OBVIOUS
  <2>a. disk \in [Blocks -> BlockContent]
    BY JunkType DEF Init
  <2>b. Start \in Start .. End
    BY Geometry, SMTT(30)
  <2>c. written \in Nat /\ doubt \subseteq Writable
    BY DEF Init
  <2>1. TypeOK
    BY <2>a, <2>b, <2>c, ZeroEntryType, SMTT(30) DEF Init, TypeOK
  <2>2. \A b : ~Unmarshals(b)
    BY Geometry DEF Init, Unmarshals, Junk
  <2>3. stored.rev = 0 /\ stored = ZeroEntry /\ pc = "closed"
    BY ZeroEntryType DEF Init
  <2>4. StoredIntact /\ ChainBefore
    BY <2>3, SMTT(30) DEF StoredIntact, ChainBefore
  <2>5. OlderBehind
    BY <2>2 DEF OlderBehind
  <2>6. NeverCorrupt /\ NextPlace /\ WriteInv /\ ScanInv
    BY <2>3 DEF NeverCorrupt, NextPlace, Opened, WriteInv, ScanInv
  <2> QED
    BY <2>1, <2>4, <2>5, <2>6 DEF JournalInv
<1>2. JournalInv /\ [Next]_vars => JournalInv'
  BY InvStep
<1> QED
  BY <1>1, <1>2, PTL DEF Spec

(***************************************************************************)
(* OpenJournal never reports "journal is corrupt" (journal.go:220).        *)
(***************************************************************************)
THEOREM NeverReportsCorrupt ==
    ASSUME TearSafe, NoRevisionWrap, HonestStorage
    PROVE  Spec => []NeverCorrupt
<1>1. JournalInv => NeverCorrupt
  BY DEF JournalInv
<1> QED
  BY <1>1, JournalInvariant, PTL

(***************************************************************************)
(* After any number of failed writes and power losses, init makes current  *)
(* the last acknowledged entry or a later one that was in doubt.           *)
(***************************************************************************)
THEOREM RecoveryIsExact ==
    ASSUME TearSafe, NoRevisionWrap, HonestStorage
    PROVE  Spec => RecoversLatest
<1>1. JournalInv /\ [Next]_vars =>
        [pc = "scan" /\ pc' = "open" =>
           \/ current' = stored
           \/ current'.rev = stored.rev + 1 /\ current'.data \in doubt]_vars
  BY InvStep
<1> QED
  BY <1>1, JournalInvariant, PTL DEF Spec, RecoversLatest

(***************************************************************************)
(* Opening a slot again, with no Update begun since the last successful    *)
(* Update or opening, shows the same entry: power losses while the journal *)
(* is scanned or idle change nothing (journal.go:180-231).                 *)
(***************************************************************************)
THEOREM ReopeningAgrees ==
    ASSUME TearSafe, NoRevisionWrap, HonestStorage
    PROVE  Spec => [][pc = "scan" /\ pc' = "open" /\ doubt = {} => current' = stored]_vars
<1>1. JournalInv /\ [Next]_vars =>
        [pc = "scan" /\ pc' = "open" /\ doubt = {} => current' = stored]_vars
  BY InvStep
<1> QED
  BY <1>1, JournalInvariant, PTL DEF Spec

(***************************************************************************)
(* The journal implements the register that SlotRegister describes.        *)
(***************************************************************************)
THEOREM JournalImplementsSlot ==
    ASSUME TearSafe, NoRevisionWrap, HonestStorage
    PROVE  Spec => ImplementsSlot
<1> DEFINE regBar == [status |-> IF Opened THEN "open" ELSE "closed",
                      rev |-> Shown.rev, data |-> Shown.data, doubt |-> doubt]
           isOpen == IF Opened THEN "open" ELSE "closed"
<1>1. Init => Slot!Init
  BY SMTT(30) DEF Init, Slot!Init, Slot!Empty, Opened, Shown, ZeroEntry
<1>2. JournalInv /\ [Next]_vars => [Slot!Next]_regBar
  <2> SUFFICES ASSUME JournalInv, [Next]_vars PROVE Slot!Next \/ regBar' = regBar
    OBVIOUS
  <2>0. Opened => current = stored
    BY DEF JournalInv, NextPlace
  <2>a. Shown = stored
    BY <2>0 DEF Shown
  <2>b. (Opened => current = stored)'
    BY InvStep DEF JournalInv, NextPlace
  <2>c. Shown' = stored'
    BY <2>b DEF Shown
  <2>d. regBar = [status |-> isOpen, rev |-> stored.rev, data |-> stored.data, doubt |-> doubt]
    BY <2>a
  <2>e. regBar' = [status |-> isOpen', rev |-> stored'.rev, data |-> stored'.data,
                      doubt |-> doubt']
    BY <2>c
  <2> HIDE DEF regBar
  <2>1. ASSUME Opened' = Opened, UNCHANGED <<stored, doubt>> PROVE regBar' = regBar
    BY <2>1, <2>d, <2>e
  <2>2. CASE OpenJournal
    BY <2>1, <2>2, SMTT(30) DEF OpenJournal, Opened, history
  <2>3. ASSUME pc = "scan", pc' = "open", stored' = lastEntry, doubt' = {},
               current' = lastEntry
        PROVE  Slot!Next
    <3>1. \/ stored' = stored
          \/ stored'.rev = stored.rev + 1 /\ stored'.data \in doubt
      BY <2>3, InvStep
    <3>2. regBar.status = "closed" /\ regBar'.status = "open"
      BY <2>3, <2>d, <2>e DEF Opened
    <3>3. regBar' \in Slot!Opened(regBar)
      BY <2>3, <2>d, <2>e, <3>1, <3>2 DEF Slot!Opened, Slot!Committed
    <3> QED
      BY <3>2, <3>3 DEF Slot!Next, Slot!Open, regBar
  <2>4. CASE ScanStep
    <3>1. CASE ScanInvalid \/ ScanNewer
      BY <2>1, <2>3, <3>1 DEF ScanInvalid, ScanNewer, FinishScan, Opened, history
    <3>2. CASE ScanOlder \/ ScanDuplicate \/ ScanEnd
      BY <2>1, <2>3, <3>2, SMTT(30) DEF ScanOlder, ScanDuplicate, ScanEnd, FinishScan, Opened, history
    <3> QED
      BY <2>4, <3>1, <3>2 DEF ScanStep
  <2>5. ASSUME NEW d \in Data, Update(d) PROVE Slot!Next
    <3>1. regBar.status = "open" /\ regBar' = Slot!Attempted(regBar, d)
      <4>1. pc = "open" /\ pc' = "write" /\ stored' = stored /\ doubt' = doubt \cup {d}
        BY <2>5 DEF Update
      <4>2. isOpen = "open" /\ isOpen' = "open"
        BY <4>1 DEF Opened
      <4> HIDE DEF isOpen
      <4>3. regBar = [status |-> "open", rev |-> stored.rev, data |-> stored.data, doubt |-> doubt]
        BY <2>d, <4>2
      <4>4. regBar' = [status |-> "open", rev |-> stored.rev, data |-> stored.data,
                       doubt |-> doubt \cup {d}]
        BY <2>e, <4>1, <4>2
      <4> DEFINE D == doubt \cup {d}
      <4>5. Slot!Attempted(regBar, d) = [regBar EXCEPT !.doubt = D]
        <5>1. regBar.doubt = doubt
          BY <4>3
        <5> QED
          BY <5>1 DEF Slot!Attempted
      <4> HIDE DEF D
      <4>6. [regBar EXCEPT !.doubt = D]
              = [status |-> "open", rev |-> stored.rev, data |-> stored.data, doubt |-> D]
        BY <4>3, SMTT(30)
      <4>7. regBar' = Slot!Attempted(regBar, d)
        BY <4>4, <4>5, <4>6 DEF D
      <4> QED
        BY <4>3, <4>7
    <3> QED
      BY <3>1 DEF Slot!Next, Slot!Attempt, regBar
  <2>6. CASE WriteBlock
    BY <2>1, <2>6 DEF WriteBlock, Opened, history
  <2>7. CASE CommitWrite
    <3>1. e.rev = stored.rev + 1 /\ e.data \in doubt /\ pc = "write"
      BY <2>7 DEF CommitWrite, JournalInv, WriteInv
    <3>2. regBar.status = "open" /\ regBar' = Slot!Committed(regBar, e.data) /\ e.data \in regBar.doubt
      BY <2>7, <2>d, <2>e, <3>1 DEF CommitWrite, Opened, Slot!Committed
    <3> QED
      BY <3>2 DEF Slot!Next, Slot!Commit, regBar
  <2>8. CASE FailWrite
    BY <2>1, <2>8, SMTT(30) DEF FailWrite, Opened, history
  <2>9. CASE Crash
    <3>1. regBar' = Slot!Closed(regBar)
      BY <2>9, <2>d, <2>e, SMTT(30) DEF Crash, Opened, history, Slot!Closed
    <3> QED
      BY <3>1 DEF Slot!Next, Slot!Close, regBar
  <2>10. CASE UNCHANGED vars
    BY <2>1, <2>10 DEF vars, history, Opened
  <2> QED
    BY <2>2, <2>4, <2>5, <2>6, <2>7, <2>8, <2>9, <2>10 DEF Next
<1> QED
  BY <1>1, <1>2, JournalInvariant, PTL DEF Spec, ImplementsSlot, Slot!Spec
-----------------------------------------------------------------------------
(***************************************************************************)
(* Storage that keeps what it reported as written, but may fail reads.     *)
(***************************************************************************)
KeepsWrites == "silent" \notin Faults

Kept == stored.rev > 0 => Unmarshals(at) /\ EntryAt(at) = stored

\* A change of the device by the write under way leaves the stored record alone.
LEMMA StoreSpares ==
    ASSUME TypeOK, WriteSparesCurrent, Kept, disk' = disk \/ StoreBlock,
           UNCHANGED <<stored, at>>
    PROVE  Kept'
<1> SUFFICES ASSUME stored.rev > 0 PROVE Unmarshals(at)' /\ EntryAt(at)' = stored
  BY DEF Kept
<1>0. Unmarshals(at) /\ EntryAt(at) = stored
  BY DEF Kept
<1>1. \E b : b = at /\ Unmarshals(b)' /\ EntryAt(b)' = EntryAt(b)
  <2>1. CASE disk' = disk
    BY <1>0, <2>1, SameDisk
  <2>2. CASE StoreBlock
    <3>1. disk[at].data = stored.data /\ After(at) = at + NumBlocks(stored.data)
      BY <1>0 DEF EntryAt, After
    <3>2. After(at) <= nextBlock \/ target < at
      <4>1. /\ target \in Int /\ nextBlock \in Int /\ at \in Int
            /\ NumBlocks(e.data) \in Nat /\ target < nextBlock + NumBlocks(e.data)
        BY <2>2, TargetBounds, Geometry, SMTT(30) DEF Blocks, TypeOK
      <4>2. nextBlock + NumBlocks(e.data) <= at \/ After(at) <= nextBlock
        BY <2>2, <3>1 DEF WriteSparesCurrent, StoreBlock
      <4> QED
        BY <4>1, <4>2, SMTT(30)
    <3>3. \A b : b = at => Unmarshals(b)' /\ disk'[b] = disk[b]
      BY <1>0, <2>2, <3>2, StoreKeeps
    <3> QED
      BY <3>3 DEF EntryAt
  <2> QED
    BY <2>1, <2>2
<1>2. PICK b : b = at /\ Unmarshals(b)' /\ EntryAt(b)' = EntryAt(b)
  BY <1>1
<1>3. at' = b
  BY <1>2
<1> QED
  BY <1>0, <1>2, <1>3, SMTT(30) DEF Unmarshals, EntryAt, marshalEntry

LEMMA HeldStep ==
    ASSUME KeepsWrites, TypeOK, PlaceInv, ReadInv, HeldInv, [Next]_vars
    PROVE  HeldInv'
<1>a. Kept /\ WriteSparesCurrent
  BY PlaceSpares DEF HeldInv, Kept
<1>b. ASSUME Kept', pc' # "write" PROVE HeldInv'
  BY <1>b DEF HeldInv, Kept
<1>c. ASSUME disk' = disk, UNCHANGED <<stored, at>> PROVE Kept'
  BY <1>a, <1>c, StoreSpares
<1>1. CASE OpenJournal \/ ScanNewer \/ ScanDuplicate
  BY <1>1, <1>b, <1>c DEF OpenJournal, ScanNewer, ScanDuplicate, history
<1>2. ASSUME pc = "scan", FinishScan(nextWriteLBA) PROVE HeldInv'
  <2>1. /\ pc' = "open" /\ disk' = disk /\ stored' = lastEntry
        /\ lastEntry.rev # 0 => at' = nextWriteLBA - NumBlocks(lastEntry.data)
    BY <1>2 DEF FinishScan
  <2>2. ASSUME lastEntry.rev > 0 PROVE Unmarshals(at)' /\ EntryAt(at)' = lastEntry
    <3>1. lastEntry # ZeroEntry
      BY <2>2, ZeroEntryType, SMTT(30)
    <3>2. PICK b \in Blocks : Unmarshals(b) /\ EntryAt(b) = lastEntry /\ nextWriteLBA = After(b)
      BY <1>2, <3>1 DEF ReadInv
    <3>3. disk[b].data = lastEntry.data
      BY <3>2 DEF EntryAt
    <3>4. at' = b
      BY <2>1, <2>2, <3>2, <3>3, UnmarshalsBounds, Geometry, SMTT(30) DEF Blocks
    <3> QED
      BY <2>1, <3>2, <3>4, SMTT(30) DEF Unmarshals, EntryAt, marshalEntry
  <2>3. Kept'
    BY <2>1, <2>2 DEF Kept
  <2> QED
    BY <1>b, <2>1, <2>3
<1>3. CASE ScanInvalid
  <2>1. CASE UNCHANGED <<disk, pc, memory, lastEntry, nextWriteLBA, writer, history>>
    BY <1>3, <2>1, <1>b, <1>c DEF ScanInvalid, history
  <2> QED
    BY <1>2, <1>3, <2>1 DEF ScanInvalid
<1>4. CASE ScanOlder
  <2>1. lba = nextWriteLBA
    BY <1>4, UnmarshalsBounds, SMTT(30) DEF ScanOlder, TypeOK, Entry
  <2> QED
    BY <1>2, <1>4, <2>1 DEF ScanOlder
<1>5. CASE ScanEnd
  BY <1>2, <1>5 DEF ScanEnd
<1>6. ASSUME NEW d \in Data, Update(d) PROVE HeldInv'
  <2>1. disk' = disk /\ UNCHANGED <<stored, at>> /\ written' = 0
    BY <1>6 DEF Update
  <2>2. \A i \in 0 .. written' - 1 : FALSE
    BY <2>1, SMTT(30)
  <2> QED
    BY <2>1, <2>2, <1>c DEF HeldInv, Kept
<1>7. CASE WriteBlock
  <2>1. /\ pc = "write" /\ StoreBlock /\ written' = written + 1
        /\ disk' = [disk EXCEPT ![target] = marshalEntry(e, written)]
        /\ UNCHANGED <<nextBlock, e, stored, at>>
    BY <1>7 DEF WriteBlock, StoreBlock, KeepsWrites, memory, history
  <2>2. Kept'
    BY <1>a, <2>1, StoreSpares
  <2>3. \A i \in 0 .. written : disk'[nextBlock + i] = marshalEntry(e, i)
    BY <2>1, PrefixGrows DEF HeldInv
  <2>4. written \in Nat /\ written' - 1 = written
    BY <2>1, SMTT(30) DEF TypeOK
  <2>5. \A i \in 0 .. written' - 1 : disk'[nextBlock' + i] = marshalEntry(e', i)
    BY <2>1, <2>3, <2>4
  <2> QED
    BY <2>2, <2>5 DEF HeldInv, Kept, marshalEntry
<1>8. CASE CommitWrite
  <2>1. /\ pc = "write" /\ pc' = "open" /\ written = NumBlocks(e.data) /\ disk' = disk
        /\ stored' = e /\ at' = nextBlock
    BY <1>8 DEF CommitWrite
  <2>2. ASSUME e.rev > 0 PROVE Unmarshals(at)' /\ EntryAt(at)' = e
    <3>1. e.rev # 0
      BY <2>2, SMTT(30)
    <3>2. Unmarshals(nextBlock) /\ EntryAt(nextBlock) = e
      BY <2>1, <3>1, RecordComplete DEF HeldInv
    <3> QED
      BY <2>1, <3>2, SMTT(30) DEF Unmarshals, EntryAt, marshalEntry
  <2> QED
    BY <1>b, <2>1, <2>2 DEF Kept
<1>9. CASE FailWrite \/ Crash
  <2>1. pc' # "write" /\ UNCHANGED <<stored, at>> /\ (disk' = disk \/ StoreBlock)
    BY <1>9 DEF FailWrite, Crash, Interrupted, StoreBlock, history
  <2> QED
    BY <1>a, <1>b, <2>1, StoreSpares
<1>10. CASE UNCHANGED vars
  <2>1. UNCHANGED <<disk, pc, nextBlock, e, written, stored, at>>
    BY <1>10 DEF vars, memory, writer, history
  <2>2. Kept'
    BY <1>c, <2>1
  <2> QED
    BY <2>1, <2>2 DEF HeldInv, Kept, marshalEntry
<1> QED
  BY <1>1, <1>3, <1>4, <1>5, <1>6, <1>7, <1>8, <1>9, <1>10 DEF Next, ScanStep

(***************************************************************************)
(* On a device that keeps what it reported as written, the entry last      *)
(* written or recovered is complete on the device at every moment, through *)
(* failed writes, power losses and the scan that follows them, even if     *)
(* reads fail during that scan and whether or not the revision has wrapped *)
(* (journal.go:139-169).                                                   *)
(***************************************************************************)
THEOREM StoredStaysIntact ==
    ASSUME TearSafe, KeepsWrites
    PROVE  Spec => []HeldInv
<1> DEFINE Inv == TypeOK /\ PlaceInv /\ ReadInv /\ HeldInv
<1>1. Init => Inv
  <2>1. ASSUME Init PROVE stored.rev = 0 /\ pc = "closed"
    BY <2>1, ZeroEntryType DEF Init
  <2>2. Init => HeldInv
    BY <2>1, SMTT(30) DEF HeldInv
  <2> QED
    BY <2>1, <2>2, PlaceInit DEF ReadInv
<1>2. Inv /\ [Next]_vars => Inv'
  BY TypeStep, PlaceStep, ReadStep, HeldStep
<1>3. Inv => HeldInv
  OBVIOUS
<1> QED
  BY <1>1, <1>2, <1>3, PTL DEF Spec
=============================================================================

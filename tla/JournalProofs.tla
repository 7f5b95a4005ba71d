--------------------------- MODULE JournalProofs ---------------------------
(***************************************************************************)
(* Proofs about Journal for every geometry, payload set and bound.         *)
(***************************************************************************)
EXTENDS Journal, TLAPS

(***************************************************************************)
(* Arithmetic.                                                             *)
(***************************************************************************)

\* Euclidean division, for dividends and divisors that are naturals.
LEMMA Division ==
    ASSUME NEW a \in Nat, NEW b \in Nat, b > 0
    PROVE  /\ a \div b \in Nat
           /\ b * (a \div b) <= a
           /\ a < b * (a \div b) + b
OBVIOUS

LEMMA ProductMonotone ==
    ASSUME NEW a \in Int, NEW b \in Int, NEW c \in Nat, a <= b
    PROVE  a * c <= b * c
OBVIOUS

\* A record takes at least one block, and no block more than its bytes need.
LEMMA BlockCount ==
    ASSUME NEW d \in Data
    PROVE  /\ Size(d) \in Nat
           /\ NumBlocks(d) \in Nat
           /\ NumBlocks(d) >= 1
           /\ Size(d) <= NumBlocks(d) * BlockSize
           /\ NumBlocks(d) * BlockSize < Size(d) + BlockSize
<1>1. DataLen[d] \in Nat /\ HeaderSize \in Nat /\ HeaderSize > 0
      /\ BlockSize \in Nat /\ BlockSize > 0
  BY JournalConstants
<1>2. Size(d) \in Nat /\ Size(d) > 0
  BY <1>1 DEF Size
<1>3. /\ NumBlocks(d) \in Nat
      /\ BlockSize * NumBlocks(d) <= Size(d) + BlockSize - 1
      /\ Size(d) + BlockSize - 1 < BlockSize * NumBlocks(d) + BlockSize
  <2>1. Size(d) + BlockSize - 1 \in Nat
    BY <1>1, <1>2
  <2>2. QED
    BY <1>1, <2>1, Division DEF NumBlocks
<1>4. BlockSize * NumBlocks(d) = NumBlocks(d) * BlockSize
  BY <1>1, <1>3
<1>5. NumBlocks(d) # 0
  BY <1>1, <1>2, <1>3
<1> QED
  BY <1>1, <1>2, <1>3, <1>4, <1>5

\* Update's test on the remaining bytes decides whether the blocks fit.
LEMMA FitsInBlocks ==
    ASSUME NEW d \in Data, NEW n \in Nat
    PROVE  (n * BlockSize < Size(d)) <=> (n < NumBlocks(d))
<1>1. BlockSize \in Nat /\ BlockSize > 0
  BY JournalConstants
<1>2. ASSUME n < NumBlocks(d) PROVE n * BlockSize < Size(d)
  <2>1. n <= NumBlocks(d) - 1 /\ NumBlocks(d) - 1 \in Int
    BY <1>2, BlockCount
  <2>2. n * BlockSize <= (NumBlocks(d) - 1) * BlockSize
    BY <1>1, <2>1, ProductMonotone
  <2>3. (NumBlocks(d) - 1) * BlockSize = NumBlocks(d) * BlockSize - BlockSize
    BY <1>1, BlockCount
  <2>4. n * BlockSize \in Int /\ NumBlocks(d) * BlockSize \in Int
    BY <1>1, BlockCount
  <2> QED
    BY <1>1, <2>2, <2>3, <2>4, BlockCount
<1>3. ASSUME NumBlocks(d) <= n PROVE ~(n * BlockSize < Size(d))
  <2>1. NumBlocks(d) * BlockSize <= n * BlockSize
    BY <1>1, <1>3, BlockCount, ProductMonotone
  <2>2. n * BlockSize \in Int /\ NumBlocks(d) * BlockSize \in Int
    BY <1>1, BlockCount
  <2> QED
    BY <2>1, <2>2, BlockCount
<1> QED
  BY <1>2, <1>3, BlockCount

(***************************************************************************)
(* The limit on the data makes a record at most a third of the journal,    *)
(* rounded up to whole blocks.                                             *)
(***************************************************************************)
LEMMA WritableBlocks ==
    ASSUME NEW d \in Writable
    PROVE  /\ d \in Data
           /\ 3 * NumBlocks(d) <= Length + 2
           /\ NumBlocks(d) <= Length
<1> DEFINE n == NumBlocks(d)
           total == Length * BlockSize
<1>1. /\ BlockSize \in Nat /\ BlockSize > 0 /\ Length \in Nat
      /\ HeaderSize \in Nat /\ HeaderSize > 0 /\ d \in Data /\ DataLen[d] \in Nat
  BY JournalConstants DEF Writable
<1>2. /\ n \in Nat /\ n >= 1 /\ Size(d) \in Nat
      /\ n * BlockSize < Size(d) + BlockSize
  BY <1>1, BlockCount
<1>3. total \in Nat /\ total \div 3 \in Nat /\ 3 * (total \div 3) <= total
  <2>1. total \in Nat
    BY <1>1
  <2> QED
    BY <2>1, Division
<1>4. 3 * Size(d) <= total
  BY <1>1, <1>3 DEF Writable, maxDataBytes, minEntries, Size
<1> HIDE DEF n
<1>5. 3 * (n * BlockSize) < total + 3 * BlockSize
  <2>1. n * BlockSize \in Nat
    BY <1>1, <1>2
  <2> QED
    BY <1>1, <1>2, <1>3, <1>4, <2>1
<1>6. (3 * n) * BlockSize < (Length + 3) * BlockSize
  BY <1>1, <1>2, <1>5
<1>7. 3 * n < Length + 3
  <2>1. SUFFICES ASSUME Length + 3 <= 3 * n PROVE FALSE
    BY <1>1, <1>2
  <2>2. (Length + 3) * BlockSize <= (3 * n) * BlockSize
    BY <1>1, <1>2, <2>1, ProductMonotone
  <2>3. (Length + 3) * BlockSize \in Int /\ (3 * n) * BlockSize \in Int
    BY <1>1, <1>2
  <2> QED
    BY <1>6, <2>2, <2>3
<1>8. Length # 0
  BY <1>1, <1>3, <1>4, <1>2 DEF Size
<1> QED
  BY <1>1, <1>2, <1>7, <1>8 DEF n

(***************************************************************************)
(* Three records have room in the journal, give or take the last block.    *)
(* Every journal has this whose length is not one more than a multiple of  *)
(* three; in others, that of 1024 blocks among them, it says that no       *)
(* record of the largest size is written (there, 342 blocks).              *)
(***************************************************************************)
TearSafe == \A d \in Writable : 3 * NumBlocks(d) <= Length + 1

LEMMA TearSafeLength ==
    ASSUME Length % 3 # 1
    PROVE  TearSafe
<1> SUFFICES ASSUME NEW d \in Writable PROVE 3 * NumBlocks(d) <= Length + 1
  BY DEF TearSafe
<1> QED
  BY JournalConstants, WritableBlocks, BlockCount

(***************************************************************************)
(* In every journal, that of 1024 blocks included, it is enough that no    *)
(* record takes more than q blocks, for three q in one block more than the *)
(* journal has: 341 blocks of the 1024, where a checkpoint takes a few.    *)
(***************************************************************************)
THEOREM TearSafePayloads ==
    ASSUME NEW q \in Nat, 3 * q <= Length + 1,
           \A d \in Data : Size(d) <= q * BlockSize
    PROVE  TearSafe
<1> SUFFICES ASSUME NEW d \in Writable PROVE 3 * NumBlocks(d) <= Length + 1
  BY DEF TearSafe
<1>1. /\ BlockSize \in Nat /\ BlockSize > 0 /\ Length \in Nat
      /\ NumBlocks(d) \in Nat /\ Size(d) \in Nat
      /\ Size(d) <= q * BlockSize /\ NumBlocks(d) * BlockSize < Size(d) + BlockSize
  BY JournalConstants, WritableBlocks, BlockCount
<1>2. NumBlocks(d) <= q
  <2> SUFFICES ASSUME q + 1 <= NumBlocks(d) PROVE FALSE
    BY <1>1
  <2>1. (q + 1) * BlockSize <= NumBlocks(d) * BlockSize
    BY <1>1, ProductMonotone
  <2>2. (q + 1) * BlockSize = q * BlockSize + BlockSize
    BY <1>1
  <2>3. q * BlockSize \in Int /\ NumBlocks(d) * BlockSize \in Int
    BY <1>1
  <2> QED
    BY <1>1, <2>1, <2>2, <2>3
<1> QED
  BY <1>1, <1>2
-----------------------------------------------------------------------------
(***************************************************************************)
(* Type correctness, for every geometry and whatever the storage does.     *)
(***************************************************************************)
LEMMA Geometry ==
    /\ Start \in Nat /\ Length \in Nat /\ End \in Nat /\ Start <= End
    /\ End = Start + Length
    /\ \A d \in Data : NumBlocks(d) \in Nat /\ NumBlocks(d) >= 1
    /\ NoData \notin Data
BY JournalConstants, BlockCount DEF End

LEMMA WritableFits ==
    \A d \in Writable : d \in Data /\ Start + NumBlocks(d) <= End
BY Geometry, WritableBlocks

LEMMA ZeroEntryType == ZeroEntry \in Entry /\ ZeroEntry.rev = 0
BY DEF ZeroEntry, Entry

LEMMA MarshalType ==
    ASSUME NEW x \in Entry, NEW i \in Nat
    PROVE  marshalEntry(x, i) \in BlockContent
BY DEF Entry, BlockContent, marshalEntry

LEMMA JunkType == Junk \in BlockContent
BY DEF Junk, BlockContent

LEMMA EntryAtType ==
    ASSUME TypeOK, NEW b \in Blocks
    PROVE  EntryAt(b) \in Entry
BY DEF TypeOK, EntryAt, Entry, BlockContent

LEMMA UnmarshalsBounds ==
    ASSUME TypeOK, NEW b, Unmarshals(b)
    PROVE  /\ b \in Blocks /\ disk[b].data \in Data /\ disk[b].rev \in Nat \ {0}
           /\ After(b) = b + NumBlocks(disk[b].data)
           /\ After(b) \in Start .. End /\ b < After(b)
BY Geometry DEF TypeOK, Unmarshals, After, Blocks, BlockContent

LEMMA FinishScanType ==
    ASSUME TypeOK, NEW n \in Start .. End, FinishScan(n),
           lastEntry.rev > 0 => n = nextWriteLBA
    PROVE  TypeOK'
<1>1. at' \in Start .. End
  BY Geometry DEF TypeOK, FinishScan, Entry
<1>2. nextBlock' \in Start .. End
  BY Geometry DEF FinishScan
<1>3. pc' = "open" /\ disk' = disk /\ lastEntry' = ZeroEntry /\ e' = e /\ written' = written
      /\ stored' = lastEntry /\ current' = lastEntry /\ doubt' = {}
      /\ lba' = Start /\ nextWriteLBA' = Start
  BY DEF FinishScan, writer
<1> QED
  BY <1>1, <1>2, <1>3, Geometry, ZeroEntryType DEF TypeOK

\* Every step keeps the types.
LEMMA TypeStep == TypeOK /\ [Next]_vars => TypeOK'
<1> SUFFICES ASSUME TypeOK, [Next]_vars PROVE TypeOK'
  OBVIOUS
<1> USE Geometry, ZeroEntryType
<1>1. CASE OpenJournal
  BY <1>1 DEF OpenJournal, TypeOK, memory, writer, history
<1>2. CASE ScanInvalid
  <2>1. CASE lastEntry.rev > 0 /\ FinishScan(nextWriteLBA)
    BY <2>1, FinishScanType DEF TypeOK
  <2>2. CASE /\ lastEntry.rev = 0
             /\ lba' = lba + 1
             /\ UNCHANGED <<disk, pc, memory, lastEntry, nextWriteLBA, writer, history>>
    BY <1>2, <2>2 DEF ScanInvalid, TypeOK, memory, writer, history
  <2> QED
    BY <1>2, <2>1, <2>2 DEF ScanInvalid
<1>3. CASE ScanNewer
  <2>1. /\ lba \in Blocks /\ After(lba) \in Start .. End /\ lba < After(lba)
        /\ EntryAt(lba) \in Entry
        /\ EntryAt(lba).data \in Data
        /\ After(lba) = lba + NumBlocks(EntryAt(lba).data)
    BY <1>3, UnmarshalsBounds, EntryAtType DEF ScanNewer, EntryAt
  <2> QED
    BY <1>3, <2>1 DEF ScanNewer, TypeOK, memory, writer, history
<1>4. CASE ScanOlder
  <2>1. lba = nextWriteLBA
    BY <1>4, UnmarshalsBounds DEF ScanOlder, TypeOK, Entry
  <2> QED
    BY <1>4, <2>1, FinishScanType DEF ScanOlder, TypeOK
<1>5. CASE ScanDuplicate
  BY <1>5 DEF ScanDuplicate, TypeOK, memory, writer, history
<1>6. CASE ScanEnd
  BY <1>6, FinishScanType DEF ScanEnd, TypeOK
<1>7. ASSUME NEW d \in Data, Update(d) PROVE TypeOK'
  <2>1. nextBlock' \in Start .. End /\ nextBlock' + NumBlocks(d) <= End
    <3>1. CASE Wraps(d)
      BY <1>7, <3>1, WritableFits DEF Update
    <3>2. CASE ~Wraps(d)
      <4>1. End - nextBlock \in Nat
        BY DEF TypeOK
      <4>2. NumBlocks(d) <= End - nextBlock
        BY <3>2, <4>1, FitsInBlocks DEF Wraps
      <4> QED
        BY <1>7, <3>2, <4>1, <4>2 DEF Update, TypeOK
    <3> QED
      BY <3>1, <3>2
  <2>2. e' \in Entry /\ e'.data = d
    <3>1. current.rev + 1 \in Nat /\ RevLimit \in Nat /\ RevLimit > 0
      BY JournalConstants DEF TypeOK, Entry
    <3>2. (current.rev + 1) % RevLimit \in Nat
      BY <3>1
    <3> QED
      BY <1>7, <3>2 DEF Update, Entry
  <2> QED
    BY <1>7, <2>1, <2>2 DEF Update, TypeOK, scan
<1>8. CASE WriteBlock
  <2>1. disk' \in [Blocks -> BlockContent]
    BY <1>8, MarshalType, JunkType DEF WriteBlock, TypeOK
  <2>2. written' \in Nat /\ written' <= NumBlocks(e.data)
    BY <1>8, WritableFits DEF WriteBlock, TypeOK
  <2> QED
    BY <1>8, <2>1, <2>2 DEF WriteBlock, TypeOK, memory, scan, history
<1>9. CASE CommitWrite
  BY <1>9, WritableFits DEF CommitWrite, TypeOK, scan
<1>10. CASE FailWrite
  <2>1. disk' \in [Blocks -> BlockContent]
    BY <1>10, MarshalType, JunkType DEF FailWrite, Interrupted, TypeOK
  <2> QED
    BY <1>10, <2>1 DEF FailWrite, TypeOK, memory, scan, history
<1>11. CASE Crash
  <2>1. disk' \in [Blocks -> BlockContent]
    BY <1>11, MarshalType, JunkType DEF Crash, Interrupted, TypeOK
  <2> QED
    BY <1>11, <2>1 DEF Crash, TypeOK, history
<1>12. CASE UNCHANGED vars
  BY <1>12 DEF vars, memory, scan, writer, history, TypeOK
<1> QED
  BY <1>1, <1>2, <1>3, <1>4, <1>5, <1>6, <1>7, <1>8, <1>9, <1>10, <1>11, <1>12
     DEF Next, ScanStep

(***************************************************************************)
(* The blocks that are read and written lie in the journal, the entry      *)
(* being written fits, and init never leaves the journal's range.          *)
(***************************************************************************)
THEOREM TypeCorrect == Spec => []TypeOK
<1>1. Init => TypeOK
  BY Geometry, ZeroEntryType, JunkType DEF Init, TypeOK
<1> QED
  BY <1>1, TypeStep, PTL DEF Spec

\* A round of init moves on, within the journal, and writes nothing.
ScanAdvances ==
    pc = "scan" => /\ disk' = disk
                   /\ pc' = "scan" => lba < lba' /\ lba' <= End

(***************************************************************************)
(* Every round of the scanning loop of init that is not its last moves lba *)
(* on, by at least one block and never past the end: whatever the blocks   *)
(* hold and whichever reads fail, opening a journal takes at most Length   *)
(* rounds and changes nothing on the device (journal.go:180-222).  This is *)
(* the variant behind ScanTerminates.                                      *)
(***************************************************************************)
THEOREM EveryRoundAdvances == Spec => [][ScanAdvances]_vars
<1>1. Init => TypeOK
  BY Geometry, ZeroEntryType, JunkType DEF Init, TypeOK
<1>2. TypeOK /\ Next => ScanAdvances
  <2> SUFFICES ASSUME TypeOK, Next, pc = "scan"
               PROVE  disk' = disk /\ (pc' = "scan" => lba < lba' /\ lba' <= End)
    BY DEF ScanAdvances
  <2>1. ScanStep \/ Crash
    BY DEF Next, OpenJournal, Update, WriteBlock, CommitWrite, FailWrite
  <2>2. CASE Crash
    BY <2>2 DEF Crash
  <2>3. CASE ScanInvalid
    BY <2>3, Geometry DEF ScanInvalid, FinishScan, TypeOK
  <2>4. CASE ScanNewer
    BY <2>4, UnmarshalsBounds, Geometry DEF ScanNewer
  <2>5. CASE ScanOlder \/ ScanDuplicate \/ ScanEnd
    BY <2>5 DEF ScanOlder, ScanDuplicate, ScanEnd, FinishScan
  <2> QED
    BY <2>1, <2>2, <2>3, <2>4, <2>5 DEF ScanStep
<1> QED
  BY <1>1, <1>2, TypeStep, PTL DEF Spec
-----------------------------------------------------------------------------
(***************************************************************************)
(* Room in the journal.                                                    *)
(***************************************************************************)

\* If a record does not fit behind another, any record fits in front of it.
LEMMA RoomAtStart ==
    ASSUME TearSafe, NEW c \in Writable, NEW d \in Writable, NEW a \in Nat,
           a + NumBlocks(c) + NumBlocks(d) > End
    PROVE  \A x \in Writable : Start + NumBlocks(x) <= a
<1> SUFFICES ASSUME NEW x \in Writable PROVE Start + NumBlocks(x) <= a
  OBVIOUS
<1>1. /\ 3 * NumBlocks(c) <= Length + 1
      /\ 3 * NumBlocks(d) <= Length + 1
      /\ 3 * NumBlocks(x) <= Length + 1
  BY DEF TearSafe
<1>2. c \in Data /\ d \in Data /\ x \in Data
  BY WritableFits
<1> QED
  BY <1>1, <1>2, Geometry, SMTT(30)

\* If a record ends where the journal ends, any record fits in front of it.
LEMMA RoomAtStartOfFull ==
    ASSUME TearSafe, NEW c \in Writable, NEW a \in Nat, Start <= a,
           a + NumBlocks(c) = End
    PROVE  \A x \in Writable : Start + NumBlocks(x) <= a
<1> SUFFICES ASSUME NEW x \in Writable PROVE Start + NumBlocks(x) <= a
  OBVIOUS
<1>1. 3 * NumBlocks(c) <= Length + 1 /\ 3 * NumBlocks(x) <= Length + 1
  BY DEF TearSafe
<1>2. c \in Data /\ x \in Data
  BY WritableFits
<1>3. Length >= 1 /\ Length # 1
  BY <1>1, <1>2, Geometry, SMTT(30)
<1> QED
  BY <1>1, <1>2, <1>3, Geometry, SMTT(30)

(***************************************************************************)
(* What Update and init guarantee whatever the device does: reads that     *)
(* fail, blocks lost although they were reported as written, revisions     *)
(* that wrap.                                                              *)
(***************************************************************************)
LEMMA FinishPlace ==
    ASSUME TearSafe, TypeOK, PlaceInv, FinishScan(nextWriteLBA)
    PROVE  PlaceInv'
<1> DEFINE c == lastEntry.data
           a == nextWriteLBA - NumBlocks(c)
<1>1. /\ disk' = disk /\ pc' = "open" /\ lastEntry' = ZeroEntry
      /\ current' = lastEntry /\ stored' = lastEntry
      /\ nextBlock' = IF nextWriteLBA >= End THEN Start ELSE nextWriteLBA
      /\ at' = IF lastEntry.rev = 0 THEN Start ELSE a
  BY DEF FinishScan
<1>2. ASSUME lastEntry.rev > 0
      PROVE  /\ c \in Writable
             /\ \/ nextBlock' = at' + NumBlocks(c)
                \/ nextBlock' = Start /\ \A d \in Writable : Start + NumBlocks(d) <= at'
  <2>1. /\ c \in Writable /\ NumBlocks(c) \in Nat /\ nextWriteLBA \in Start .. End
        /\ a \in Nat /\ Start <= a /\ a + NumBlocks(c) = nextWriteLBA
    BY <1>2, Geometry, WritableFits DEF PlaceInv, TypeOK
  <2>2. at' = a
    BY <1>1, <1>2
  <2>3. CASE nextWriteLBA >= End
    <3>1. a + NumBlocks(c) = End
      BY <2>1, <2>3, Geometry
    <3>2. \A d \in Writable : Start + NumBlocks(d) <= a
      BY <2>1, <3>1, RoomAtStartOfFull
    <3> QED
      BY <1>1, <2>1, <2>2, <2>3, <3>2
  <2>4. CASE ~(nextWriteLBA >= End)
    BY <1>1, <2>1, <2>2, <2>4
  <2> QED
    BY <2>3, <2>4
<1> HIDE DEF a
<1> QED
  BY <1>1, <1>2, ZeroEntryType DEF PlaceInv, Opened, Blocks, End, Writable, maxDataBytes,
     minEntries, NumBlocks, Size

\* The place of the next write stays clear of the record, after every step.
LEMMA PlaceStep ==
    ASSUME TearSafe, TypeOK, PlaceInv, [Next]_vars
    PROVE  PlaceInv'
<1> DEFINE DataOK(dk) == \A b \in Blocks : dk[b].data \in Writable \cup {NoData}
           Place == Opened /\ stored.rev > 0 =>
                       /\ stored.data \in Writable
                       /\ \/ nextBlock = at + NumBlocks(stored.data)
                          \/ nextBlock = Start /\ \A d \in Writable : Start + NumBlocks(d) <= at
<1>a. PlaceInv <=> /\ DataOK(disk) /\ (lastEntry.rev > 0 => lastEntry.data \in Writable)
                   /\ (Opened => current = stored) /\ Place
  BY DEF PlaceInv
<1>b. PlaceInv' <=> /\ DataOK(disk') /\ (lastEntry'.rev > 0 => lastEntry'.data \in Writable)
                    /\ (Opened' => current' = stored') /\ Place'
  BY DEF PlaceInv
<1>c. ASSUME pc = "write",
             \/ disk' = disk
             \/ disk' = [disk EXCEPT ![target] = marshalEntry(e, written)]
             \/ disk' = [disk EXCEPT ![target] = Junk]
      PROVE  DataOK(disk')
  BY <1>a, <1>c DEF TypeOK, marshalEntry, Junk
<1>1. CASE OpenJournal
  BY <1>1, <1>a, <1>b, ZeroEntryType DEF OpenJournal, Opened
<1>2. CASE ScanInvalid
  <2>1. CASE lastEntry.rev > 0 /\ FinishScan(nextWriteLBA)
    BY <2>1, FinishPlace
  <2>2. CASE /\ lastEntry.rev = 0
             /\ UNCHANGED <<disk, pc, memory, lastEntry, nextWriteLBA, writer, history>>
    BY <1>2, <2>2, <1>a, <1>b DEF ScanInvalid, Opened
  <2> QED
    BY <1>2, <2>1, <2>2 DEF ScanInvalid
<1>3. CASE ScanNewer
  BY <1>3, <1>a, <1>b, UnmarshalsBounds, Geometry DEF ScanNewer, EntryAt, Opened
<1>4. CASE ScanOlder
  <2>1. lba = nextWriteLBA
    BY <1>4, UnmarshalsBounds DEF ScanOlder, TypeOK, Entry
  <2> QED
    BY <1>4, <2>1, FinishPlace DEF ScanOlder
<1>5. CASE ScanDuplicate
  BY <1>5, <1>a, <1>b, ZeroEntryType DEF ScanDuplicate, Opened
<1>6. CASE ScanEnd
  BY <1>6, FinishPlace DEF ScanEnd
<1>7. ASSUME NEW d \in Data, Update(d) PROVE PlaceInv'
  <2>1. /\ pc = "open" /\ pc' = "write" /\ d \in Writable
        /\ UNCHANGED <<disk, current, lastEntry, stored, at>>
        /\ nextBlock' = IF Wraps(d) THEN Start ELSE nextBlock
    BY <1>7 DEF Update, scan
  <2>2. ASSUME stored.rev > 0, Wraps(d), nextBlock = at + NumBlocks(stored.data)
        PROVE  \A x \in Writable : Start + NumBlocks(x) <= at
    <3>1. stored.data \in Writable /\ at \in Nat /\ End - nextBlock \in Nat /\ nextBlock \in Nat
      BY <1>a, <2>1, <2>2, Geometry DEF Opened, TypeOK
    <3>2. End - nextBlock < NumBlocks(d)
      BY <2>2, <3>1, FitsInBlocks DEF Wraps
    <3>3. at + NumBlocks(stored.data) + NumBlocks(d) > End
      BY <2>2, <3>1, <3>2, Geometry
    <3> QED
      BY <2>1, <3>1, <3>3, RoomAtStart
  <2>3. Place'
    <3>1. CASE Wraps(d)
      BY <1>a, <2>1, <2>2, <3>1 DEF Opened
    <3>2. CASE ~Wraps(d)
      BY <1>a, <2>1, <3>2 DEF Opened
    <3> QED
      BY <3>1, <3>2
  <2> QED
    BY <1>a, <1>b, <2>1, <2>3 DEF Opened
<1>8. CASE WriteBlock
  <2>1. /\ pc = "write" /\ pc' = pc
        /\ UNCHANGED <<current, nextBlock, lastEntry, stored, at>>
    BY <1>8 DEF WriteBlock, memory, scan, history
  <2>2. CASE disk' = [disk EXCEPT ![target] = disk[target]]
    <3>1. DataOK(disk')
      BY <1>a, <2>2 DEF TypeOK
    <3> QED
      BY <1>a, <1>b, <2>1, <3>1 DEF Opened
  <2>3. CASE disk' # [disk EXCEPT ![target] = disk[target]]
    <3>1. DataOK(disk')
      BY <1>8, <1>c, <2>3 DEF WriteBlock
    <3> QED
      BY <1>a, <1>b, <2>1, <3>1 DEF Opened
  <2> QED
    BY <2>2, <2>3
<1>9. CASE CommitWrite
  <2>1. /\ pc = "write" /\ pc' = "open" /\ disk' = disk /\ lastEntry' = lastEntry
        /\ current' = e /\ stored' = e /\ at' = nextBlock
        /\ nextBlock' = nextBlock + NumBlocks(e.data)
    BY <1>9 DEF CommitWrite, scan
  <2> QED
    BY <1>a, <1>b, <2>1 DEF TypeOK, Opened
<1>10. CASE FailWrite
  <2>1. /\ pc = "write" /\ pc' = "open"
        /\ UNCHANGED <<current, nextBlock, lastEntry, stored, at>>
    BY <1>10 DEF FailWrite, memory, scan, history
  <2>2. DataOK(disk')
    BY <1>10, <1>c DEF FailWrite, Interrupted
  <2> QED
    BY <1>a, <1>b, <2>1, <2>2 DEF Opened
<1>11. CASE Crash
  <2>1. pc' = "closed" /\ lastEntry' = ZeroEntry
    BY <1>11 DEF Crash
  <2>2. DataOK(disk')
    BY <1>11, <1>a, <1>c DEF Crash, Interrupted
  <2> QED
    BY <1>b, <2>1, <2>2, ZeroEntryType DEF Opened
<1>12. CASE UNCHANGED vars
  BY <1>12, <1>a, <1>b DEF vars, memory, scan, writer, history, Opened
<1> QED
  BY <1>1, <1>2, <1>3, <1>4, <1>5, <1>6, <1>7, <1>8, <1>9, <1>10, <1>11, <1>12
     DEF Next, ScanStep

\* A new journal is empty and closed.
LEMMA PlaceInit == Init => TypeOK /\ PlaceInv
<1> SUFFICES ASSUME Init PROVE TypeOK /\ PlaceInv
  OBVIOUS
<1>1. TypeOK
  BY Geometry, ZeroEntryType, JunkType DEF Init, TypeOK
<1> QED
  BY <1>1, ZeroEntryType DEF Init, PlaceInv, Opened, Junk

\* A write at the next place does not touch the record.
LEMMA PlaceSpares == TypeOK /\ PlaceInv => WriteSparesCurrent
<1> SUFFICES ASSUME TypeOK, PlaceInv, pc = "write", stored.rev > 0
             PROVE  \/ nextBlock + NumBlocks(e.data) <= at
                    \/ at + NumBlocks(stored.data) <= nextBlock
  BY DEF WriteSparesCurrent
<1>1. /\ e.data \in Writable /\ nextBlock \in Int
      /\ \/ nextBlock = at + NumBlocks(stored.data)
         \/ nextBlock = Start /\ Start + NumBlocks(e.data) <= at
  BY Geometry DEF PlaceInv, TypeOK, Opened
<1> QED
  BY <1>1

(***************************************************************************)
(* Update never writes over the record that holds the current data: what   *)
(* minEntries (journal.go:87) is there for.  It needs only that three      *)
(* records have room; reads may fail, blocks may be lost although they     *)
(* were reported as written, and the revision may wrap.                    *)
(***************************************************************************)
THEOREM FailedWritesSpareCurrent ==
    ASSUME TearSafe
    PROVE  Spec => []WriteSparesCurrent
<1>1. TypeOK /\ PlaceInv /\ [Next]_vars => TypeOK' /\ PlaceInv'
  BY TypeStep, PlaceStep
<1> QED
  BY <1>1, PlaceInit, PlaceSpares, PTL DEF Spec

(***************************************************************************)
(* What the scan has read last.                                            *)
(***************************************************************************)
LEMMA ReadStep ==
    ASSUME TypeOK, ReadInv, [Next]_vars
    PROVE  ReadInv'
<1> SUFFICES ASSUME pc' = "scan"
             PROVE  \/ lastEntry' = ZeroEntry /\ nextWriteLBA' = Start
                    \/ /\ lastEntry'.rev > 0
                       /\ \E b \in Blocks : /\ Unmarshals(b)' /\ EntryAt(b)' = lastEntry'
                                            /\ nextWriteLBA' = After(b)'
  BY DEF ReadInv, Blocks, End
<1>a. ASSUME disk' = disk
      PROVE  \A b : /\ Unmarshals(b)' <=> Unmarshals(b)
                    /\ EntryAt(b)' = EntryAt(b) /\ After(b)' = After(b)
  BY <1>a, Zenon DEF Unmarshals, After, EntryAt, marshalEntry
<1>1. CASE OpenJournal
  BY <1>1 DEF OpenJournal
<1>2. CASE ScanNewer
  <2>1. /\ lba \in Blocks /\ Unmarshals(lba) /\ disk[lba].rev \in Nat \ {0}
        /\ lastEntry' = EntryAt(lba) /\ nextWriteLBA' = After(lba) /\ disk' = disk
    BY <1>2, UnmarshalsBounds DEF ScanNewer
  <2>2. lastEntry'.rev > 0
    BY <2>1 DEF EntryAt
  <2> QED
    BY <1>a, <2>1, <2>2, Zenon
<1>3. CASE pc = "scan" /\ UNCHANGED <<disk, lastEntry, nextWriteLBA>>
  BY <1>3, <1>a, Zenon DEF ReadInv
<1>4. OpenJournal \/ ScanNewer \/ (pc = "scan" /\ UNCHANGED <<disk, lastEntry, nextWriteLBA>>)
  <2>1. CASE UNCHANGED vars
    BY <2>1 DEF vars, scan
  <2>2. CASE ScanInvalid
    BY <2>2 DEF ScanInvalid, FinishScan
  <2> QED
    BY <2>1, <2>2 DEF Next, ScanStep, ScanOlder, ScanDuplicate, ScanEnd, FinishScan, Update,
       WriteBlock, CommitWrite, FailWrite, Crash
<1> QED
  BY <1>1, <1>2, <1>3, <1>4

(***************************************************************************)
(* What init recovers is a record that is complete on the device, with the *)
(* next write right behind it or at Start, for every geometry, payload set *)
(* and bound and under all faults: a read that fails or a block that was   *)
(* lost can hide the newest entry, but never yields one that was not       *)
(* stored, nor a write position inside a record (journal.go:180-231).      *)
(***************************************************************************)
THEOREM RecoveryIsIntact == Spec => RecoversIntact
<1> DEFINE Read == \/ current' = ZeroEntry /\ nextBlock' = Start
                   \/ \E b \in Blocks :
                         /\ Unmarshals(b) /\ EntryAt(b) = current'
                         /\ nextBlock' = IF After(b) = End THEN Start ELSE After(b)
<1>1. Init => TypeOK /\ ReadInv
  BY PlaceInit DEF Init, ReadInv
<1>2. TypeOK /\ ReadInv /\ [Next]_vars => TypeOK' /\ ReadInv'
  BY TypeStep, ReadStep
<1>3. TypeOK /\ ReadInv /\ [Next]_vars => [pc = "scan" /\ pc' = "open" => Read]_vars
  <2> SUFFICES ASSUME TypeOK, ReadInv, Next, pc = "scan", pc' = "open" PROVE Read
    BY DEF vars
  <2>1. FinishScan(nextWriteLBA) \/ (FinishScan(lba) /\ ScanOlder)
    BY DEF Next, ScanStep, ScanInvalid, ScanNewer, ScanOlder, ScanDuplicate, ScanEnd, OpenJournal,
       Update, WriteBlock, CommitWrite, FailWrite, Crash
  <2>2. FinishScan(nextWriteLBA)
    <3>1. CASE ScanOlder
      <4>1. lba = nextWriteLBA
        BY <3>1, UnmarshalsBounds DEF ScanOlder, TypeOK, Entry
      <4> QED
        BY <3>1, <4>1 DEF ScanOlder
    <3> QED
      BY <2>1, <3>1
  <2>3. /\ current' = lastEntry
        /\ nextBlock' = IF nextWriteLBA >= End THEN Start ELSE nextWriteLBA
        /\ nextWriteLBA \in Start .. End
    BY <2>2 DEF FinishScan, TypeOK
  <2>4. nextBlock' = IF nextWriteLBA = End THEN Start ELSE nextWriteLBA
    BY <2>3, Geometry
  <2> QED
    BY <2>3, <2>4, Zenon DEF ReadInv
<1> QED
  BY <1>1, <1>2, <1>3, PTL DEF Spec, RecoversIntact

\* Every entry in memory, and every header on the device, is one of S.
AllFrom(S) ==
    /\ \A b \in Blocks : disk[b].rev # 0 => EntryAt(b) \in S
    /\ {current, lastEntry} \subseteq S \cup {ZeroEntry}
    /\ pc = "write" => e \in S

LEMMA FromStep ==
    ASSUME NEW S, TypeOK, AllFrom(S), [Next]_vars,
           pc = "open" /\ pc' = "write" => e' \in S
    PROVE  AllFrom(S)'
<1>a. ASSUME disk' = disk PROVE \A b \in Blocks : disk'[b].rev # 0 => EntryAt(b)' \in S
  BY <1>a DEF AllFrom, EntryAt
<1>b. ASSUME pc = "write", written < NumBlocks(e.data),
             \/ disk' = [disk EXCEPT ![target] = marshalEntry(e, written)]
             \/ disk' = [disk EXCEPT ![target] = Junk]
      PROVE  \A b \in Blocks : disk'[b].rev # 0 => EntryAt(b)' \in S
  <2> SUFFICES ASSUME NEW b \in Blocks, disk'[b].rev # 0 PROVE EntryAt(b)' \in S
    OBVIOUS
  <2>1. CASE disk'[b] = disk[b]
    BY <2>1 DEF AllFrom, EntryAt
  <2>2. CASE disk'[b] = marshalEntry(e, written)
    <3>1. disk'[b].rev = e.rev /\ disk'[b].data = e.data
      BY <2>2 DEF marshalEntry
    <3>2. EntryAt(b)' = e
      BY <3>1 DEF EntryAt, TypeOK, Entry
    <3> QED
      BY <1>b, <3>2 DEF AllFrom
  <2>3. CASE disk'[b] = Junk
    BY <2>3 DEF Junk
  <2> QED
    BY <1>b, <2>1, <2>2, <2>3 DEF TypeOK
<1>c. ASSUME pc = "write", Interrupted
      PROVE  \A b \in Blocks : disk'[b].rev # 0 => EntryAt(b)' \in S
  BY <1>a, <1>b, <1>c DEF Interrupted
<1>1. CASE OpenJournal \/ ScanDuplicate
  BY <1>1, <1>a DEF OpenJournal, ScanDuplicate, AllFrom, memory
<1>2. CASE \E n \in {lba, nextWriteLBA} : FinishScan(n)
  BY <1>2, <1>a DEF FinishScan, AllFrom
<1>3. CASE ScanNewer
  <2>1. EntryAt(lba) \in S
    BY <1>3, UnmarshalsBounds DEF ScanNewer, AllFrom
  <2> QED
    BY <1>3, <1>a, <2>1 DEF ScanNewer, AllFrom, memory
<1>4. CASE ScanInvalid
  <2>1. CASE UNCHANGED <<disk, pc, memory, lastEntry, nextWriteLBA, writer, history>>
    BY <1>4, <2>1, <1>a DEF ScanInvalid, AllFrom, memory
  <2> QED
    BY <1>2, <1>4, <2>1 DEF ScanInvalid
<1>5. ASSUME NEW d \in Data, Update(d) PROVE AllFrom(S)'
  BY <1>5, <1>a DEF Update, AllFrom, scan
<1>6. CASE WriteBlock
  <2>1. \A b \in Blocks : disk'[b].rev # 0 => EntryAt(b)' \in S
    <3>1. CASE disk' = [disk EXCEPT ![target] = disk[target]]
      BY <3>1, <1>a DEF AllFrom, TypeOK, EntryAt
    <3>2. CASE disk' # [disk EXCEPT ![target] = disk[target]]
      BY <1>6, <1>b, <3>2 DEF WriteBlock
    <3> QED
      BY <3>1, <3>2
  <2> QED
    BY <1>6, <2>1 DEF WriteBlock, AllFrom, memory, scan
<1>7. CASE CommitWrite
  BY <1>7, <1>a DEF CommitWrite, AllFrom, scan
<1>8. CASE FailWrite
  <2>1. \A b \in Blocks : disk'[b].rev # 0 => EntryAt(b)' \in S
    BY <1>8, <1>c DEF FailWrite
  <2> QED
    BY <1>8, <2>1 DEF FailWrite, AllFrom, memory, scan
<1>9. CASE Crash
  <2>1. \A b \in Blocks : disk'[b].rev # 0 => EntryAt(b)' \in S
    BY <1>9, <1>a, <1>c DEF Crash
  <2> QED
    BY <1>9, <2>1 DEF Crash, AllFrom
<1>10. CASE UNCHANGED vars
  BY <1>10, <1>a DEF vars, memory, scan, writer, AllFrom
<1> QED
  BY <1>1, <1>2, <1>3, <1>4, <1>5, <1>6, <1>7, <1>8, <1>9, <1>10
     DEF Next, ScanStep, ScanOlder, ScanEnd

(***************************************************************************)
(* What Data returns (journal.go:132) was given to Update, revision and    *)
(* payload together: if every entry that Update starts to write is in S,   *)
(* every current is in S or is the zero entry of a journal without         *)
(* records.  Torn, lost and unreadable blocks of several writes never      *)
(* combine into an entry that nobody wrote.                                *)
(***************************************************************************)
THEOREM OnlyWrittenIsRead ==
    ASSUME NEW S
    PROVE  Spec /\ [][pc = "open" /\ pc' = "write" => e' \in S]_vars
              => [](current \in S \cup {ZeroEntry})
<1> DEFINE Given == pc = "open" /\ pc' = "write" => e' \in S
<1>1. Init => TypeOK /\ AllFrom(S)
  BY PlaceInit DEF Init, AllFrom, Junk
<1>2. TypeOK /\ AllFrom(S) /\ [Next]_vars /\ [Given]_vars => TypeOK' /\ AllFrom(S)'
  <2>1. [Given]_vars => Given
    BY DEF vars, writer
  <2> QED
    BY <2>1, TypeStep, FromStep
<1>3. AllFrom(S) => current \in S \cup {ZeroEntry}
  BY DEF AllFrom
<1> QED
  BY <1>1, <1>2, <1>3, PTL DEF Spec
=============================================================================

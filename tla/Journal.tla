------------------------------- MODULE Journal -------------------------------
(***************************************************************************)
(* The journal that stores the data of one slot in a range of device       *)
(* blocks (slots/journal.go), written through the chunking block device    *)
(* (mmc/internal.go), with failed writes and power losses at any block.    *)
(*                                                                         *)
(* Data is abstract: a payload is a member of Data with a length in bytes. *)
(* The device is a function from block addresses to block contents.  The   *)
(* first block of a record holds its header (revision, length and hash of  *)
(* the data), hence identifies revision and payload; the i-th following    *)
(* block holds only bytes of the payload, hence does not depend on the     *)
(* revision.  Everything else, be it blank or torn, is Junk.               *)
(***************************************************************************)
EXTENDS Integers

CONSTANTS Start, Length,  \* the journal occupies blocks [Start, Start+Length)
          BlockSize,      \* bytes per device block
          HeaderSize,     \* entryHeaderSize, 48 bytes
          Data, DataLen,  \* payloads and their lengths in bytes
          NoData,         \* the data of the zero entry
          RevLimit,       \* Revision counts modulo this (2^32 in the code)
          MaxRev,         \* bound on the revisions that a behaviour writes
          Faults          \* what the storage may do, besides losing power

FaultKinds == {"torn",    \* the block being written when a write stops is garbage
               "landed",  \* that block was written, although the write failed
               "read",    \* reading a block can fail
               "silent"}  \* a write can report success and have stored garbage or nothing

ASSUME JournalConstants ==
    /\ Start \in Nat
    /\ Length \in Nat
    /\ HeaderSize \in Nat \ {0}
    /\ BlockSize \in Nat
    /\ BlockSize >= HeaderSize
    /\ DataLen \in [Data -> Nat]
    /\ NoData \notin Data
    /\ RevLimit \in Nat \ {0}
    /\ MaxRev \in Nat
    /\ Faults \subseteq FaultKinds

VARIABLES disk,          \* the device blocks of this journal
          pc,            \* what the program is doing with the journal
          current,       \* j.current
          nextBlock,     \* j.nextBlock
          lba, lastEntry, nextWriteLBA,  \* locals of init
          e, written     \* local of Update; blocks of e that are on the device

(***************************************************************************)
(* History variables.  stored is the entry that readers were last told is  *)
(* the current one, by a successful Update or by a completed init, and at  *)
(* is the block it starts in.  doubt holds the payloads of the writes that *)
(* were begun since and did not succeed.                                   *)
(***************************************************************************)
VARIABLES stored, at, doubt

memory == <<current, nextBlock>>
scan == <<lba, lastEntry, nextWriteLBA>>
writer == <<e, written>>
history == <<stored, at, doubt>>
vars == <<disk, pc, memory, scan, writer, history>>
-----------------------------------------------------------------------------
End == Start + Length
Blocks == Start .. End - 1

ZeroEntry == [rev |-> 0, data |-> NoData]
Entry == [rev : Nat, data : Data \cup {NoData}]

Size(d) == HeaderSize + DataLen[d]

NumBlocks(d) == (Size(d) + BlockSize - 1) \div BlockSize

minEntries == 3

maxDataBytes == (Length * BlockSize) \div minEntries - HeaderSize

Writable == {d \in Data : DataLen[d] <= maxDataBytes}

Junk == [rev |-> 0, data |-> NoData, idx |-> 0]
BlockContent == [rev : Nat, data : Data \cup {NoData}, idx : Nat]

\* The i-th block of the record that marshalEntry makes of entry x.
marshalEntry(x, i) ==
    [rev |-> IF i = 0 THEN x.rev ELSE 0, data |-> x.data, idx |-> i]

\* unmarshalEntry succeeds on the record that starts in block b.
Unmarshals(b) ==
    /\ b \in Blocks
    /\ disk[b].idx = 0 /\ disk[b].data \in Data
    /\ disk[b].rev # 0
    /\ b + NumBlocks(disk[b].data) <= End
    /\ \A i \in 1 .. NumBlocks(disk[b].data) - 1 :
          disk[b + i] = marshalEntry(disk[b], i)

EntryAt(b) == [rev |-> disk[b].rev, data |-> disk[b].data]

\* The block after the record that starts in b, where br.pos rounds up to.
After(b) == b + NumBlocks(disk[b].data)
-----------------------------------------------------------------------------
Init ==
    /\ disk = [b \in Blocks |-> Junk]
    /\ pc = "closed"
    /\ current = ZeroEntry /\ nextBlock = Start
    /\ lba = Start /\ lastEntry = ZeroEntry /\ nextWriteLBA = Start
    /\ e = ZeroEntry /\ written = 0
    /\ stored = ZeroEntry /\ at = Start /\ doubt = {}

(***************************************************************************)
(* OpenJournal and init: one step per iteration of the scanning loop.      *)
(***************************************************************************)
OpenJournal ==
    /\ pc \in {"closed", "corrupt"}
    /\ pc' = "scan"
    /\ lba' = Start /\ lastEntry' = ZeroEntry /\ nextWriteLBA' = Start
    /\ UNCHANGED <<disk, memory, writer, history>>

\* The tail of init, entered with the next write position n.
FinishScan(n) ==
    /\ pc' = "open"
    /\ nextBlock' = IF n >= End THEN Start ELSE n
    /\ current' = lastEntry
    /\ stored' = lastEntry
    /\ at' = IF lastEntry.rev = 0 THEN Start ELSE n - NumBlocks(lastEntry.data)
    /\ doubt' = {}
    /\ lba' = Start /\ lastEntry' = ZeroEntry /\ nextWriteLBA' = Start
    /\ UNCHANGED <<disk, writer>>

\* Mutant of ScanInvalid: a record before the invalid block does not end the scan.
ScanInvalidGoesOn ==
    /\ pc = "scan" /\ lba < End
    /\ ~Unmarshals(lba)
    /\ lba' = lba + 1
    /\ UNCHANGED <<disk, pc, memory, lastEntry, nextWriteLBA, writer, history>>

\* Mutant of ScanInvalid: lba is not advanced over a block without a record.
ScanInvalidStays ==
    /\ pc = "scan" /\ lba < End
    /\ ~Unmarshals(lba)
    /\ lastEntry.rev > 0
    /\ FinishScan(nextWriteLBA)

ScanInvalid ==
    /\ pc = "scan" /\ lba < End
    /\ ~Unmarshals(lba) \/ "read" \in Faults
    /\ \/ /\ lastEntry.rev > 0
          /\ FinishScan(nextWriteLBA)
       \/ /\ lastEntry.rev = 0
          /\ lba' = lba + 1
          /\ UNCHANGED <<disk, pc, memory, lastEntry, nextWriteLBA, writer, history>>

\* Mutant of ScanNewer: the last record in the journal wins, not the newest.
ScanNewerAny ==
    /\ pc = "scan" /\ lba < End
    /\ Unmarshals(lba)
    /\ lastEntry' = EntryAt(lba)
    /\ lba' = After(lba)
    /\ nextWriteLBA' = After(lba)
    /\ UNCHANGED <<disk, pc, memory, writer, history>>

\* Mutant of ScanNewer: nextWriteLBA is set before lba has moved on.
ScanNewerEarly ==
    /\ pc = "scan" /\ lba < End
    /\ Unmarshals(lba)
    /\ disk[lba].rev > lastEntry.rev
    /\ lastEntry' = EntryAt(lba)
    /\ lba' = After(lba)
    /\ nextWriteLBA' = lba
    /\ UNCHANGED <<disk, pc, memory, writer, history>>

ScanNewer ==
    /\ pc = "scan" /\ lba < End
    /\ Unmarshals(lba)
    /\ disk[lba].rev > lastEntry.rev
    /\ lastEntry' = EntryAt(lba)
    /\ lba' = After(lba)
    /\ nextWriteLBA' = After(lba)
    /\ UNCHANGED <<disk, pc, memory, writer, history>>

ScanOlder ==
    /\ pc = "scan" /\ lba < End
    /\ Unmarshals(lba)
    /\ disk[lba].rev < lastEntry.rev
    /\ FinishScan(lba)

ScanDuplicate ==
    /\ pc = "scan" /\ lba < End
    /\ Unmarshals(lba)
    /\ disk[lba].rev = lastEntry.rev
    /\ pc' = "corrupt"
    /\ lba' = Start /\ lastEntry' = ZeroEntry /\ nextWriteLBA' = Start
    /\ UNCHANGED <<disk, memory, writer, history>>

ScanEnd ==
    /\ pc = "scan" /\ lba >= End
    /\ FinishScan(nextWriteLBA)

ScanStep == ScanInvalid \/ ScanNewer \/ ScanOlder \/ ScanDuplicate \/ ScanEnd

(***************************************************************************)
(* Update.  An oversized payload is refused and nothing changes.  The      *)
(* blocks of the record reach the device in order; CommitWrite is the part *)
(* after WriteBlocks returned without an error.                            *)
(***************************************************************************)
Wraps(d) == (End - nextBlock) * BlockSize < Size(d)

Update(d) ==
    /\ pc = "open"
    /\ current.rev < MaxRev
    /\ d \in Writable
    /\ pc' = "write"
    /\ e' = [rev |-> (current.rev + 1) % RevLimit, data |-> d]
    /\ written' = 0
    /\ nextBlock' = IF Wraps(d) THEN Start ELSE nextBlock
    /\ doubt' = doubt \cup {d}
    /\ UNCHANGED <<disk, current, scan, stored, at>>

\* The device block that e's next block goes to.
target == nextBlock + written

WriteBlock ==
    /\ pc = "write"
    /\ written < NumBlocks(e.data)
    /\ \/ disk' = [disk EXCEPT ![target] = marshalEntry(e, written)]
       \/ /\ "silent" \in Faults
          /\ \E old \in {Junk, disk[target]} : disk' = [disk EXCEPT ![target] = old]
    /\ written' = written + 1
    /\ UNCHANGED <<pc, memory, scan, e, history>>

\* Mutant of CommitWrite: the next record goes where this one is.
CommitWriteInPlace ==
    /\ pc = "write"
    /\ written = NumBlocks(e.data)
    /\ pc' = "open"
    /\ current' = e
    /\ stored' = e /\ at' = nextBlock /\ doubt' = {}
    /\ e' = ZeroEntry /\ written' = 0
    /\ UNCHANGED <<disk, nextBlock, scan>>

CommitWrite ==
    /\ pc = "write"
    /\ written = NumBlocks(e.data)
    /\ pc' = "open"
    /\ nextBlock' = nextBlock + NumBlocks(e.data)
    /\ current' = e
    /\ stored' = e /\ at' = nextBlock /\ doubt' = {}
    /\ e' = ZeroEntry /\ written' = 0
    /\ UNCHANGED <<disk, scan>>

\* What the device holds when the write of the block at target is cut off.
Interrupted ==
    \/ disk' = disk
    \/ /\ written < NumBlocks(e.data)
       /\ \/ "landed" \in Faults /\ disk' = [disk EXCEPT ![target] = marshalEntry(e, written)]
          \/ "torn" \in Faults /\ disk' = [disk EXCEPT ![target] = Junk]

\* Mutant of FailWrite: the journal state is updated before the error is seen.
FailWriteUpdates ==
    /\ pc = "write"
    /\ written < NumBlocks(e.data)
    /\ Interrupted
    /\ pc' = "open"
    /\ current' = e
    /\ e' = ZeroEntry /\ written' = 0
    /\ UNCHANGED <<nextBlock, scan, history>>

\* WriteBlocks returns an error: nextBlock keeps the value Update gave it.
FailWrite ==
    /\ pc = "write"
    /\ written < NumBlocks(e.data)
    /\ Interrupted
    /\ pc' = "open"
    /\ e' = ZeroEntry /\ written' = 0
    /\ UNCHANGED <<memory, scan, history>>

\* A power loss or reset: the memory is gone, the device remains.
Crash ==
    /\ pc # "closed"
    /\ IF pc = "write" THEN Interrupted ELSE UNCHANGED disk
    /\ pc' = "closed"
    /\ current' = ZeroEntry /\ nextBlock' = Start
    /\ lba' = Start /\ lastEntry' = ZeroEntry /\ nextWriteLBA' = Start
    /\ e' = ZeroEntry /\ written' = 0
    /\ UNCHANGED history

Next ==
    \/ OpenJournal
    \/ ScanStep
    \/ \E d \in Data : Update(d)
    \/ WriteBlock
    \/ CommitWrite
    \/ FailWrite
    \/ Crash

Spec == Init /\ [][Next]_vars

(***************************************************************************)
(* init is a loop that the caller waits for, so it keeps running unless a  *)
(* crash ends it.                                                          *)
(***************************************************************************)
FairSpec == Spec /\ WF_vars(ScanStep)
-----------------------------------------------------------------------------
(***************************************************************************)
(* Properties.                                                             *)
(***************************************************************************)
Opened == pc \in {"open", "write"}

TypeOK ==
    /\ disk \in [Blocks -> BlockContent]
    /\ pc \in {"closed", "scan", "corrupt", "open", "write"}
    /\ current \in Entry /\ nextBlock \in Start .. End
    /\ lba \in Start .. End /\ lastEntry \in Entry /\ nextWriteLBA \in Start .. End
    /\ e \in Entry /\ written \in Nat
    /\ stored \in Entry /\ at \in Start .. End /\ doubt \subseteq Writable
    /\ stored.rev > 0 => stored.data \in Data
    /\ lastEntry.rev > 0 => /\ lastEntry.data \in Data
                            /\ lba = nextWriteLBA
                            /\ Start + NumBlocks(lastEntry.data) <= lba
    /\ pc = "write" => /\ e.data \in Writable
                       /\ written <= NumBlocks(e.data)
                       /\ nextBlock + NumBlocks(e.data) <= End

(***************************************************************************)
(* The blocks that Update writes never overlap the record that holds the   *)
(* current data, so that a failed write cannot damage it (minEntries,      *)
(* journal.go:87, and the storage README on failed writes).                *)
(***************************************************************************)
WriteSparesCurrent ==
    pc = "write" /\ stored.rev > 0 =>
        \/ nextBlock + NumBlocks(e.data) <= at
        \/ at + NumBlocks(stored.data) <= nextBlock

(***************************************************************************)
(* init, run on whatever failed writes and power losses left behind, makes *)
(* current the last successfully written entry, or the entry of a write    *)
(* that was under way or had failed since: never an older one, never none. *)
(***************************************************************************)
RecoversLatest ==
    [][pc = "scan" /\ pc' = "open" =>
         \/ current' = stored
         \/ current'.rev = stored.rev + 1 /\ current'.data \in doubt]_vars

(***************************************************************************)
(* init, whichever reads failed and whichever blocks the device lost, adds *)
(* nothing of its own: current is a record that is complete on the device, *)
(* and the next write goes right behind that record, or to Start when it   *)
(* ends the journal; or there is no entry and the next write goes to       *)
(* Start (journal.go:180-231).                                             *)
(***************************************************************************)
RecoversIntact ==
    [][pc = "scan" /\ pc' = "open" =>
         \/ current' = ZeroEntry /\ nextBlock' = Start
         \/ \E b \in Blocks :
               /\ Unmarshals(b) /\ EntryAt(b) = current'
               /\ nextBlock' = IF After(b) = End THEN Start ELSE After(b)]_vars

(***************************************************************************)
(* The scan of init never meets two adjacent records of one revision, so   *)
(* "journal is corrupt" (journal.go:220), after which the slot stays       *)
(* without a journal, is never returned.                                   *)
(***************************************************************************)
NeverCorrupt == pc # "corrupt"

\* The scan of init ends (journal.go:180: every iteration advances or leaves).
ScanTerminates == pc = "scan" ~> pc # "scan"

(***************************************************************************)
(* The journal implements the register its callers rely on: what a reader  *)
(* of the open journal sees (Data, journal.go:132) changes only by a       *)
(* successful Update, and reopening shows the last successful write or one *)
(* that was in doubt.                                                      *)
(***************************************************************************)
Shown == IF Opened THEN current ELSE stored

Slot == INSTANCE SlotRegister WITH
            reg <- [status |-> IF Opened THEN "open" ELSE "closed",
                    rev |-> Shown.rev, data |-> Shown.data, doubt |-> doubt]

ImplementsSlot == Slot!Spec

(***************************************************************************)
(* The inductive invariant.  PastEnd is the first block after the stored   *)
(* record.  Before the record lies a chain of ever newer records, each     *)
(* ending where the next begins and the last of them where the stored      *)
(* record begins; in front of the chain are remains of failed writes at    *)
(* Start.  Behind it lie the records of the previous pass, all of them     *)
(* older, and the remains of failed writes at PastEnd.  A failed write     *)
(* that reached the device in full is still in doubt.                      *)
(***************************************************************************)
PastEnd == IF stored.rev = 0 THEN Start ELSE at + NumBlocks(stored.data)

InDoubt(b) == disk[b].rev = stored.rev + 1 /\ disk[b].data \in doubt

StoredIntact ==
    /\ stored.rev = 0 => stored = ZeroEntry
    /\ stored.rev > 0 => /\ stored.data \in Writable
                         /\ Unmarshals(at) /\ EntryAt(at) = stored

ChainBefore ==
    stored.rev > 0 =>
        \A b \in Start .. at - 1 : Unmarshals(b) =>
            /\ After(b) <= at
            /\ \/ b = Start /\ InDoubt(b)
               \/ /\ disk[b].rev < stored.rev
                  /\ \/ After(b) = at
                     \/ Unmarshals(After(b)) /\ disk[After(b)].rev > disk[b].rev

OlderBehind ==
    \A b \in PastEnd .. End - 1 : Unmarshals(b) =>
        \/ disk[b].rev < stored.rev
        \/ b = PastEnd /\ InDoubt(b)
        \/ b > PastEnd /\ disk[b].rev = stored.rev

\* No failed write at Start, in front of the stored record, is there in full.
StartSettled ==
    stored.rev > 0 /\ Start < at /\ Unmarshals(Start) => ~InDoubt(Start)

\* Update will write behind the stored record, or at Start with room to spare.
NextPlace ==
    Opened =>
        /\ current = stored
        /\ \/ /\ nextBlock = PastEnd
              /\ StartSettled
           \/ /\ nextBlock = Start /\ stored.rev > 0
              /\ \A d \in Writable : Start + NumBlocks(d) <= at

WriteInv ==
    pc = "write" =>
        /\ e.rev = stored.rev + 1 /\ e.data \in doubt
        /\ \A i \in 0 .. written - 1 : disk[nextBlock + i] = marshalEntry(e, i)

(***************************************************************************)
(* How far the scan is: it has seen nothing valid yet and not passed the   *)
(* stored record; or it follows the chain towards the stored record; or it *)
(* has read it; or it has read a record in doubt, at Start or behind the   *)
(* stored one.                                                             *)
(***************************************************************************)
ScanInv ==
    pc = "scan" =>
        \/ /\ lastEntry = ZeroEntry /\ nextWriteLBA = Start
           /\ stored.rev > 0 => lba <= at
           /\ lba # Start => StartSettled /\ (stored.rev = 0 => ~Unmarshals(Start))
        \/ /\ 0 < lastEntry.rev /\ lastEntry.rev < stored.rev
           /\ \/ lba = at
              \/ lba < at /\ Unmarshals(lba) /\ disk[lba].rev > lastEntry.rev
           /\ StartSettled
        \/ /\ stored.rev > 0 /\ lastEntry = stored /\ lba = PastEnd
           /\ StartSettled
        \/ /\ lastEntry.rev = stored.rev + 1 /\ lastEntry.data \in doubt
           /\ \E b \in {Start, PastEnd} :
                 /\ Unmarshals(b) /\ EntryAt(b) = lastEntry /\ lba = After(b)
                 /\ \/ b = Start /\ (stored.rev > 0 => lba <= at)
                    \/ b = PastEnd /\ StartSettled

JournalInv ==
    /\ TypeOK
    /\ NeverCorrupt
    /\ StoredIntact
    /\ ChainBefore
    /\ OlderBehind
    /\ NextPlace
    /\ WriteInv
    /\ ScanInv
-----------------------------------------------------------------------------
(***************************************************************************)
(* What is left of the invariant when reads fail and the device loses      *)
(* blocks it reported as written.  No block holds data that Update         *)
(* refuses, and the next write is still behind the record that current was *)
(* read from or written to, or at Start with room for any record in front  *)
(* of it.                                                                  *)
(***************************************************************************)
PlaceInv ==
    /\ \A b \in Blocks : disk[b].data \in Writable \cup {NoData}
    /\ lastEntry.rev > 0 => lastEntry.data \in Writable
    /\ Opened => current = stored
    /\ Opened /\ stored.rev > 0 =>
          /\ stored.data \in Writable
          /\ \/ nextBlock = at + NumBlocks(stored.data)
             \/ nextBlock = Start /\ \A d \in Writable : Start + NumBlocks(d) <= at

\* What the scan has read last is complete on the device, right before lba.
ReadInv ==
    pc = "scan" =>
        \/ lastEntry = ZeroEntry /\ nextWriteLBA = Start
        \/ /\ lastEntry.rev > 0
           /\ \E b \in Blocks : /\ Unmarshals(b) /\ EntryAt(b) = lastEntry
                                /\ nextWriteLBA = After(b)

(***************************************************************************)
(* The last entry written or recovered is complete on the device, open,    *)
(* closed or being scanned, and in the write that follows it the blocks    *)
(* written so far are those of the new record.                             *)
(***************************************************************************)
HeldInv ==
    /\ stored.rev > 0 => Unmarshals(at) /\ EntryAt(at) = stored
    /\ pc = "write" =>
          \A i \in 0 .. written - 1 : disk[nextBlock + i] = marshalEntry(e, i)
=============================================================================

------------------------------ MODULE Partition ------------------------------
(***************************************************************************)
(* The storage partition: how openStorage (main.go) and OpenPartition      *)
(* (slots/slots.go) lay out its slots, how Erase blanks them, how a slot's *)
(* journal is opened and used, and how the MMC device (mmc/internal.go)    *)
(* transfers the blocks of a write; and the addresses that the journal's   *)
(* reader (journal.go) computes.                                           *)
(*                                                                         *)
(* What is in a slot is abstracted to what OpenJournal makes of it: the    *)
(* revision of the last record, 0 for none, or corrupt (two entries with   *)
(* one revision).  Erase runs before anybody uses the partition, as in     *)
(* main.  A write holds the lock of its slot and yields before each of its *)
(* RPCs, so that writes to different slots interleave.                     *)
(***************************************************************************)
EXTENDS Integers, Sequences

CONSTANTS Start, Length,  \* the blocks of the partition are [Start, Start + Length)
          SlotBytes,      \* slotSizeBytes
          BlockSizes,     \* the block sizes that a card may report
          MaxTransferBytes,
          MaxEntry,       \* the blocks of the largest entry of a journal
          MaxRev,         \* the bound on the revisions that are written
          UintLimit,      \* 2^32 on the applet's processor
          Users,          \* goroutines that use slots
          Main,           \* the goroutine that erases them
          Corruptible,    \* a slot may hold a corrupt journal
          WriteErrors     \* WriteBlocks may return an error

ASSUME PartitionConstants ==
    /\ Start \in Nat /\ Length \in Nat
    /\ SlotBytes \in Nat /\ MaxTransferBytes \in Nat /\ UintLimit \in Nat
    /\ MaxEntry \in Nat \ {0} /\ MaxRev \in Nat
    /\ \A z \in BlockSizes :
          /\ z \in Nat \ {0} /\ z <= SlotBytes /\ z <= MaxTransferBytes
          /\ MaxTransferBytes % z = 0
          /\ Start + Length + SlotBytes \div z < UintLimit
          /\ (Start + Length) * z <= UintLimit
          /\ MaxEntry <= SlotBytes \div z
    /\ Main \notin Users
    /\ Corruptible \in BOOLEAN /\ WriteErrors \in BOOLEAN

VARIABLES phase,      \* what main is doing with the storage
          bs,         \* the block size of the card, from RPC.CardInfo
          i, lengths, \* the loop of openStorage
          b, slots,   \* the loop of OpenPartition
          content,    \* what is on the device, by slot
          journal,    \* Slot.journal: Nil, or the revision of its current record
          eraseAt,    \* the loop of Erase
          handle,     \* the slot that a goroutine got from Open, 0 for none
          xfer,       \* the call of WriteBlocks that a goroutine is in
          panicked    \* a goroutine has dereferenced a nil journal

loops == <<bs, i, lengths, b, slots>>
vars == <<phase, loops, content, journal, eraseAt, handle, xfer, panicked>>

Procs == Users \cup {Main}

\* sl, and the largest transfer, in blocks.
SlotBlocks == SlotBytes \div bs

MaxTransfer == MaxTransferBytes \div bs

Nil == -1

Corrupt == -1

\* first and blocks are what the call was asked for, lba and left its loop, and
\* sent, a history variable, the blocks that its RPCs were for.
Transfer == [first : Nat, blocks : Nat, lba : Nat, left : Nat, sent : SUBSET Nat]

NoTransfer == [first |-> 0, blocks |-> 0, lba |-> 0, left |-> 0, sent |-> {}]

Writing(p) == xfer[p].blocks # 0

Init ==
    /\ phase = "geometry" /\ bs \in BlockSizes
    /\ i = 0 /\ lengths = <<>>
    /\ b = Start /\ slots = <<>>
    /\ content = <<>> /\ journal = <<>>
    /\ eraseAt = 0
    /\ handle = [u \in Users |-> 0]
    /\ xfer = [p \in Procs |-> NoTransfer]
    /\ panicked = FALSE
-----------------------------------------------------------------------------
(***************************************************************************)
(* The layout.                                                             *)
(***************************************************************************)
AppendLength ==
    /\ phase = "geometry" /\ i < Length
    /\ lengths' = Append(lengths, SlotBlocks)
    /\ i' = i + SlotBlocks
    /\ UNCHANGED <<phase, bs, b, slots, content, journal, eraseAt, handle, xfer, panicked>>

\* A mutant: slots that exceed the partition are accepted.
ValidateAny ==
    /\ phase = "geometry" /\ i >= Length
    /\ phase' = "layout"
    /\ UNCHANGED <<loops, content, journal, eraseAt, handle, xfer, panicked>>

\* i is the sum of the lengths: the loop of openStorage counts what Validate adds up.
Validate ==
    /\ phase = "geometry" /\ i >= Length
    /\ phase' = IF i > Length THEN "exit" ELSE "layout"
    /\ UNCHANGED <<loops, content, journal, eraseAt, handle, xfer, panicked>>

\* What a slot holds is only known to the device; it comes into view here.
AppendSlot ==
    /\ phase = "layout" /\ Len(slots) < Len(lengths)
    /\ LET l == lengths[Len(slots) + 1]
       IN  /\ slots' = Append(slots, [start |-> b, length |-> l])
           /\ b' = b + l
    /\ \E c \in {0, 1} \cup (IF Corruptible THEN {Corrupt} ELSE {}) :
          content' = Append(content, c)
    /\ journal' = Append(journal, Nil)
    /\ UNCHANGED <<phase, bs, i, lengths, eraseAt, handle, xfer, panicked>>

Opened ==
    /\ phase = "layout" /\ Len(slots) = Len(lengths)
    /\ phase' \in {"erase", "ready"}
    /\ eraseAt' = 1
    /\ UNCHANGED <<loops, content, journal, handle, xfer, panicked>>

(***************************************************************************)
(* WriteBlocks: one RPC after the other, of at most MaxTransfer blocks.    *)
(* The first that fails ends the call.  ReadBlocks has the same loop, but  *)
(* is only ever asked for the one block of a blockReader's buffer.         *)
(***************************************************************************)
WriteBlocks(p, lba, n) ==
    xfer' = [xfer EXCEPT ![p] =
                [first |-> lba, blocks |-> n, lba |-> lba, left |-> n, sent |-> {}]]

\* A mutant: the block address is not moved on.
nextTransferStays(lba, bl) == lba

nextTransfer(lba, bl) == lba + bl

transferLength(left) == IF left > MaxTransfer THEN MaxTransfer ELSE left

WriteRPC(p) ==
    /\ ~panicked
    /\ Writing(p) /\ xfer[p].left > 0
    /\ LET x == xfer[p]
           bl == transferLength(x.left)
       IN  xfer' = [xfer EXCEPT ![p] =
                       [first |-> x.first, blocks |-> x.blocks,
                        lba |-> nextTransfer(x.lba, bl), left |-> x.left - bl,
                        sent |-> x.sent \cup x.lba .. x.lba + bl - 1]]
    /\ UNCHANGED <<phase, loops, content, journal, eraseAt, handle, panicked>>

WriteEnds(p) == xfer' = [xfer EXCEPT ![p] = NoTransfer]

Succeeds(p) == ~panicked /\ Writing(p) /\ xfer[p].left = 0 /\ WriteEnds(p)

Fails(p) == ~panicked /\ WriteErrors /\ Writing(p) /\ xfer[p].left > 0 /\ WriteEnds(p)

(***************************************************************************)
(* Erase.  A failed write has blanked the first blocks of the slot; the    *)
(* failure is logged and the loop goes on: borked is never set, and Erase  *)
(* returns nil whatever has failed.  Then main exits, and starts again.    *)
(***************************************************************************)
eraseSlot ==
    /\ phase = "erase" /\ eraseAt <= Len(slots) /\ ~Writing(Main)
    /\ journal' = [journal EXCEPT ![eraseAt] = Nil]
    /\ WriteBlocks(Main, slots[eraseAt].start, slots[eraseAt].length)
    /\ UNCHANGED <<phase, loops, content, eraseAt, handle, panicked>>

\* What OpenJournal may make of a slot of which the first blocks were blanked.
PartlyBlanked(c) == {c} \cup (IF c = Corrupt THEN {0, 1} ELSE 0 .. c)

SlotErased ==
    /\ \/ /\ Succeeds(Main)
          /\ content' = [content EXCEPT ![eraseAt] = 0]
       \/ /\ Fails(Main)
          /\ \E c \in PartlyBlanked(content[eraseAt]) :
                content' = [content EXCEPT ![eraseAt] = c]
    /\ eraseAt' = eraseAt + 1
    /\ UNCHANGED <<phase, loops, journal, handle, panicked>>

EraseReturns ==
    /\ phase = "erase" /\ eraseAt > Len(slots)
    /\ phase' = "ready"
    /\ UNCHANGED <<loops, content, journal, eraseAt, handle, xfer, panicked>>

\* A mutant: the journal is scanned again at every Open.
openJournalAgain(k) == IF content[k] = Corrupt THEN journal[k] ELSE content[k]

openJournal(k) == IF journal[k] # Nil \/ content[k] = Corrupt THEN journal[k] ELSE content[k]

\* The lock of slot k is free.
unlocked(k) == \A u \in Users : Writing(u) => handle[u] # k

(***************************************************************************)
(* Partition.Open opens the journal if need be, and returns the slot also  *)
(* when that fails.  Read, Write and CheckAndWrite use the journal.        *)
(***************************************************************************)
Open(u, k) ==
    /\ phase = "ready" /\ ~panicked
    /\ k \in 1 .. Len(slots)
    /\ ~Writing(u) /\ unlocked(k)
    /\ journal' = [journal EXCEPT ![k] = openJournal(k)]
    /\ handle' = [handle EXCEPT ![u] = k]
    /\ UNCHANGED <<phase, loops, content, eraseAt, xfer, panicked>>

\* The journal writes an entry of n blocks within its slot.
Use(u) ==
    /\ phase = "ready" /\ ~panicked /\ handle[u] # 0
    /\ ~Writing(u) /\ unlocked(handle[u])
    /\ IF journal[handle[u]] = Nil
       THEN panicked' = TRUE /\ UNCHANGED xfer
       ELSE /\ journal[handle[u]] < MaxRev
            /\ \E o \in 0 .. slots[handle[u]].length - 1, n \in 1 .. MaxEntry :
                  /\ o + n <= slots[handle[u]].length
                  /\ WriteBlocks(u, slots[handle[u]].start + o, n)
            /\ UNCHANGED panicked
    /\ UNCHANGED <<phase, loops, content, journal, eraseAt, handle>>

(***************************************************************************)
(* Write and CheckAndWrite return.  The record of a failed write may be    *)
(* whole on the device all the same, or have torn that of an earlier one   *)
(* that failed; the journal's own record stays (StoredIntact of Journal).  *)
(***************************************************************************)
Used(u) ==
    LET k == handle[u]
        rev == journal[k] + 1
    IN  /\ \/ /\ Succeeds(u)
              /\ content' = [content EXCEPT ![k] = rev]
              /\ journal' = [journal EXCEPT ![k] = rev]
           \/ /\ Fails(u)
              /\ \E c \in {journal[k], rev} : content' = [content EXCEPT ![k] = c]
              /\ UNCHANGED journal
        /\ UNCHANGED <<phase, loops, eraseAt, handle, panicked>>

Next ==
    \/ AppendLength \/ Validate \/ AppendSlot \/ Opened
    \/ eraseSlot \/ SlotErased \/ EraseReturns
    \/ \E p \in Procs : WriteRPC(p)
    \/ \E u \in Users : Use(u) \/ Used(u) \/ \E k \in 1 .. Len(slots) : Open(u, k)

Spec == Init /\ [][Next]_vars
-----------------------------------------------------------------------------
(***************************************************************************)
(* The position of a blockReader is a byte address in a uint: it wraps to  *)
(* 0 at the end of a partition that reaches up to 2^32 bytes.  The scan    *)
(* goes on with the block after the last one read.                         *)
(***************************************************************************)
newBlockReader(lba) == (lba * bs) % UintLimit

Read(pos, n) == (pos + n) % UintLimit

\* A mutant: the position is rounded up to a whole block.
nextLBARoundsUp(pos) == ((pos + bs - 1) % UintLimit) \div bs

nextLBA(pos) == ((pos - 1) % UintLimit) \div bs + 1
-----------------------------------------------------------------------------
Disjoint(r, s) == r.start + r.length <= s.start \/ s.start + s.length <= r.start

TypeOK ==
    /\ phase \in {"geometry", "exit", "layout", "erase", "ready"}
    /\ bs \in BlockSizes /\ i \in Nat /\ b \in Nat /\ eraseAt \in Nat
    /\ lengths \in Seq({SlotBlocks})
    /\ slots \in Seq([start : Nat, length : {SlotBlocks}])
    /\ Len(slots) <= Len(lengths)
    /\ content \in Seq(Nat \cup {Corrupt}) /\ Len(content) = Len(slots)
    /\ journal \in Seq(Nat \cup {Nil}) /\ Len(journal) = Len(slots)
    /\ handle \in [Users -> 0 .. Len(slots)]
    /\ xfer \in [Procs -> Transfer]
    /\ panicked \in BOOLEAN

(***************************************************************************)
(* The slots lie within the partition and do not overlap, at every moment  *)
(* of the layout: "Journal ranges should not overlap with one another, or  *)
(* corruption will almost certainly occur" (journal.go:112).               *)
(***************************************************************************)
LayoutSound ==
    \A k \in 1 .. Len(slots) :
        /\ Start <= slots[k].start /\ slots[k].start + slots[k].length <= Start + Length
        /\ \A j \in 1 .. Len(slots) : j # k => Disjoint(slots[j], slots[k])

(***************************************************************************)
(* Wherever an entry of n bytes begins in a slot, the scan continues at    *)
(* the first block boundary at or after its end (journal.go:207), also     *)
(* when the entry ends with the partition, where the position has wrapped. *)
(***************************************************************************)
ReaderExact ==
    \A k \in 1 .. Len(slots) :
        \A lba \in slots[k].start .. slots[k].start + slots[k].length - 1 :
            \A n \in 1 .. (slots[k].start + slots[k].length - lba) * bs :
                LET end == lba * bs + n
                    next == nextLBA(Read(newBlockReader(lba), n))
                IN  (next - 1) * bs < end /\ end <= next * bs

\* The slot that p writes to.
Target(p) == slots[IF p = Main THEN eraseAt ELSE handle[p]]

(***************************************************************************)
(* However the writes interleave, what the RPCs of a call of WriteBlocks   *)
(* have transferred is the part of the data that it is done with: its      *)
(* blocks in order, each once, and in the end all of them (mmc/internal.   *)
(* go:61-80).  All of it is in the slot written to, and no other call      *)
(* under way touches the same blocks.                                      *)
(***************************************************************************)
TransfersExact ==
    \A p \in Procs : Writing(p) =>
        LET x == xfer[p]
        IN  /\ x.sent = x.first .. x.first + (x.blocks - x.left) - 1
            /\ x.sent \subseteq Target(p).start .. Target(p).start + Target(p).length - 1
            /\ \A q \in Procs \ {p} : x.sent \cap xfer[q].sent = {}

(***************************************************************************)
(* "Read returns the last data successfully written to the slot", and      *)
(* after a failed Write the data before it (slots.go:170, 181): what an    *)
(* open slot reads changes only when a write to it returns that has        *)
(* transferred all of its blocks.  A record that landed although its write *)
(* failed stays hidden when another goroutine opens the slot: Open is      *)
(* idempotent (slots.go:154).                                              *)
(***************************************************************************)
ReadsSuccessful ==
    [][\A k \in 1 .. Len(journal) :
          journal[k] # Nil /\ journal'[k] # journal[k] =>
             \E u \in Users : handle[u] = k /\ Writing(u) /\ xfer[u].left = 0]_vars
=============================================================================

# Formal models of the ArmoredWitness applet

TLA+ models of the applet: the storage of checkpoints, the DHCP client with the
network life cycle it drives, firmware updates, the start of the applet with its
keys, and the Ethernet frames. TLC checks the models on small instances; TLAPS
proves the safety results for all instances.

## The system

The applet runs under the Trusted OS on an i.MX6. `main` derives the keys, starts
the network stack and the event handler, opens the storage and starts the DHCP
client; while an address is leased, `runWithNetworking` runs the witness (an
external library, the omniwitness), its admin server and the update checks.

| Part | Source | Module | What can go wrong |
|---|---|---|---|
| Slot journal | `storage/slots/journal.go`, `storage/mmc/internal.go` | `Journal` | power loss or failed write at any block, repeated |
| Slot as a register | `storage/slots/slots.go` | `SlotRegister` | (abstract specification) |
| Partition | `storage/slots/slots.go`, `main.go` openStorage, `journal.go` blockReader, `mmc/internal.go` | `Partition` | overlapping slots, 32-bit positions, slots that exceed the partition, writes that interleave or fail, slots that fail to open or to be erased |
| Checkpoint persistence | `storage/persistence.go` | `SlotPersistence` | concurrent updates, resets, a directory out of step with the slots or too large |
| What the witness expects | | `CheckpointStore` | (abstract specification) |
| DHCP client loop | `third_party/dhcp/client.go` Run | `DHCPClient` | timers, lease times, clock changes, slow callbacks |
| DHCP messages | `third_party/dhcp/client.go` acquire, `dhcp.go` | `DHCPAcquire` | late, repeated, reordered, lost messages |
| Lease, interface, witness | `net.go` runDHCP, `main.go` runWithNetworking | `NetLifecycle` | goroutines that wait for each other, failing set-up, cold start |
| What `runDHCP` promises to `f` | | `NetworkSession` | (abstract specification) |
| Update checks | `main.go` updateChecker | `UpdateChecker` | blocked senders, closed channel, overlapping checkers |
| Download and install | `update.go`, `update_client.go`, `firmware/bundle.go` | `FirmwareUpdate` | truncated downloads, missing signatures, interleaved chunks |
| Frames | `handler.go`, `net.go` rx, tx | `EventHandler` | lost wake-ups, stranded packets |
| Start, keys | `main.go` main, `key.go`, `net.go` startNetworking | `Startup` | identity changes, errors and resets during the start |

### How the modules fit together

- `Journal` implements `SlotRegister` (`ImplementsSlot`).
- `SlotPersistence` is built on the operators of `SlotRegister`: each of its steps
  moves every slot as a step of the register does (`SlotsUsedAsRegisters`), so the
  proof about the journal justifies its storage steps. It implements
  `CheckpointStore` (`ImplementsStore`). Both refinements are checked and proved.
- `NetLifecycle` extends `DHCPClient`: the client's callback, one opaque call in
  the latter, is taken apart into the steps of `acquired`. Each of its steps is
  one of the client, unseen by it, or the one jump of the clock at a cold start
  (`NetContainsClient`). It implements `NetworkSession` (`ImplementsSession`).
- `DHCPAcquire` opens up the step that `DHCPClient` takes as one success or failure.
- `FirmwareUpdate` extends `UpdateChecker` with what a check does.
- `Startup` extends `EventHandler`: frames and packets move while the applet
  starts, fails and is reset.

## Modules

**Journal.** `disk` maps block addresses to contents. A first block identifies
revision and payload, as header and hash do in the code; a following block
depends only on the payload. `pc`, `current` and `nextBlock` are the open
journal; `lba`, `lastEntry` and `nextWriteLBA` the locals of `init`, which takes
one step per iteration. `Update` fixes the place, `WriteBlock` puts one block on
the device, then `CommitWrite` or `FailWrite`. A crash or failure leaves the
block under way untouched, garbage (`torn`) or written (`landed`); a `silent`
fault leaves it garbage or as it was and reports success. `stored`,
`at` and `doubt` are history variables: the entry readers were last told is
current, where it starts, and the payloads of writes that did not succeed since.

**SlotPersistence.** One step per region between two lock acquisitions: `logSlot`
(with `addLog` and `storeDirectory`) under `p.mu`, then the slot's `Open`, `Read`
and `CheckAndWrite`. A checkpoint is its log and its size, a stored one also an
encoding (raw, or the YAML of older releases, which the initial states may
hold). The witness's callback `f` is external: it returns a larger checkpoint of
the same log or an error. `acked` and `lapsed` are history variables: what was
acknowledged, and the logs written to while the directory did not list them.

**Partition.** The loops of `openStorage`, `Validate`, `OpenPartition` and
`Erase`, and how a slot's journal is opened and used. The card reports a block
size (`bs`), from which the slots are computed; those of a size that does not
divide the partition exceed it, and `Validate` refuses them. What a slot holds
(`content`) is what `OpenJournal` makes of it: the revision of the last record, or
corrupt. `journal` is the revision that an open slot reads. The two differ after a
failed write, whose record may be whole on the device.
`nextLBA` computes modulo 2^32 as `blockReader` does.
`xfer` holds, per goroutine, the call of `WriteBlocks` it is in; `WriteRPC` is one
round of its loop, which yields before each RPC. A writer holds the lock of its
slot (`unlocked`), so calls for different slots interleave round by round. `sent`,
the blocks that a call has transferred, is a history variable.

**DHCPClient.** Time is relative: `toRenew`, `toRebind` and `toExpire` count down
to the three instants that `Run` keeps. Timers behave as in Go 1.23 and later.
The applet has one clock, so setting it moves instants, timer and timeout alike.
`jumps` records how the clock was set. A panic of `Run` still runs the deferred
`cleanup`, with a last call of the callback.

**DHCPAcquire.** The network is the set of all messages ever sent; receiving
does not remove one, so loss, delay, repetition and reordering are all there.
The servers are external, may grant other addresses than those asked for, and
may leave out the subnet mask and, in an OFFER, the server identifier: the
client then knows no server, its REQUEST selects none, and a renewal, sent to
that server only, reaches nobody.

**NetLifecycle.** Adds to the client the steps of `acquired` (`step`), the
addresses on the interface and the routes (`nic`, `routed`), the channel
`fDone`, whether NTP is configured (`ntpServer`), and per address the goroutine
that runs `f` (`child`). `addFailed` is a history variable.

**NetworkSession.** What the comments of `runDHCP` promise to `f`, seen from
outside: an address is installed when nothing runs, `f` runs for it, is asked to
end, ends, and only then is the address removed. `ImplementsSession` reads the
session off the addresses and routes of `NetLifecycle`, the children that have
not signalled, the context they are given and the channel `fDone`.

**UpdateChecker, FirmwareUpdate.** A checker has a channel `trigger`, a ticker
and a consumer; `/updatecheck` handlers send on the channel as well. Each call of
`runWithNetworking` starts a checker, and the previous one may still be at work.
A check scans the log, downloads (`readHTTP`), verifies (`Verify`) and sends
chunks to the OS, one RPC per step. Byte `k` of release `r` is `<<r, k>>`. The
fetcher and updater of the library, the bundle verifier and the OS are external;
of the OS only what the protocol needs is assumed: chunk 0 begins an update,
others continue it in order, and it installs only what it has verified.

**EventHandler.** `Arrive` and `Interrupt` are the OS; `Register` tells it which
goroutine to wake; `Park` and `EnableFIQ` the
two halves of `eventHandler`'s sleep; then frames are read until there is none.
The runtime is cooperative (tamago), so the goroutine that re-enables the
interrupt runs after the handler has parked.
`SendPacket` and `WriteNotify` are the stack's two steps of sending a packet.

**Startup.** `at` is the place in `main`, which starts the event handler as a
goroutine and goes on without waiting for it to register. A key is what its
diversifier is hashed and truncated to (`Sum16`, a constant of which nothing is
assumed) and the offset in the derived stream. So a key is a function of the
status by definition, as it is in the code, and that every boot derives the same
keys is no property of the run. The OS is external: it counts
identities, derives keys and shows the published status. The error of
`SetWitnessStatus` is ignored by the code, so publishing may have no effect.

## Runs

| Run | Result | What it shows |
|---|---|---|
| `journal_faults` | passes | Eight blocks, records of 1 to 3 blocks, torn and landed writes: recovery is exact and never reports a corrupt journal; the journal implements the register; the inductive invariant holds. |
| `journal_scan` | passes | With every fault, failed reads and writes silently lost or garbled included: `init` ends and recovers only what is complete on the device, and no write touches the current record. |
| `journal_tear` | violated | With four blocks (1 modulo 3) a torn write loses the last successful record. |
| `persistence` | passes | Two goroutines, two logs, failing writes: acknowledged checkpoints survive, but for lapsed logs; no lost update; one log per slot; implements the store. |
| `persistence_directory_full` | violated | Without storage errors, a log that no longer fits the directory loses a checkpoint acknowledged later. |
| `partition` | passes | Slots lie in the partition and do not overlap; positions are exact, and so are the transfers of writes that interleave; an open slot reads what was last written successfully, whoever opens it again. |
| `dhcp_client` | passes | Leases, renewals, slow callbacks and a clock set forward and back. |
| `dhcp_slow_callback` | violated | A callback that returns after T1 stalls the client for good. |
| `dhcp_acquire` | passes | A held lease was granted in its own transaction; a REQUEST selects an offer that was made; renewals keep the address. |
| `net_lifecycle` | passes | Implements the session: at most one `f`, always with its address; changes of address complete; the cold start converges to a serving witness. |
| `firmware_update` | passes | What was verified is what the OS gets, unless another checker sends at the same time; only newer, fully signed releases are installed; sending ends; requests are answered; the ticker ends but for the exception below. |
| `startup` | passes | What is published is what signs; waiting frames are read; packets leave in order. |

### Bounds

- Journal: `Length` 8 makes the ring wrap within `MaxRev` 4 revisions with the
  payloads of one, two and three blocks, including retries with other data of
  the same size; `huge` exceeds a third of the journal and is refused.
  `journal_scan` has all faults and one payload of each size in a ring of five
  blocks, which `MaxRev` 3 writes go round.
- SlotPersistence: two logs compete for the directory and two slots, two
  goroutines for one log; `MaxSize` 2 allows an update after a first one, which
  is what two goroutines need to race and a torn write to have a predecessor.
- Partition: slots of 12 bytes in nine blocks. Blocks of four bytes make three
  slots of three blocks, the last of which ends at byte `UintLimit` 56, so that the
  reader's position wraps; blocks of two bytes make slots of six blocks, which
  exceed the partition. Transfers of eight bytes give writes of one transfer,
  whole or partial, and of two. `MaxRev` 2 allows a write after a failed one. Two users and three slots let writes to
  different slots interleave while a third one is opened.
- DHCPClient: leases of 6 to 20 ticks, timeout 3, backoff 2, so that every retry
  pattern occurs, with offers that have T1 or T2 past the end of the lease, with
  and without a length; instants further back than `Horizon` are not told apart. A
  callback takes up to `MaxDelay` ticks; 4 is longer than T1, which is what
  stalls the client. Each jump of the clock happens at most once.
- NetLifecycle: a lease of 5 ticks and two addresses, so that an address
  changes, is renewed and expires; a callback may take `MaxDelay` 2 ticks, as
  long as T1, so that the client can stall.
- DHCPAcquire: three transactions and four replies are enough for a reply of one
  transaction to arrive in another and for two servers to answer one request.
- FirmwareUpdate: two checkers, the real channel capacity of one, three ticks or
  requests; an OS release with a signature missing and an applet release of
  exactly three chunks, the fewest with which two checkers that send the same
  release can disturb each other. A chunk has one byte; the proofs are for every
  chunk size, so they include last chunks that are not full. `MaxTriggers` also
  counts across reboots.
- Startup: two boots and one new identity, so that a counter is used again or
  changed between any two steps; two frames and three packets with queues of
  two, so that a queue fills up.

The proofs have none of these bounds. Deadlock checking is off where the system
may stop: `Run` ends with its context, main may exit or panic, and the bounded
runs use up their messages, ticks or boots.

### Fairness

Goroutines that can go on are scheduled (weak fairness). Time passes.
`acquire` honours its timeout. In `NetLifecycle`, `f` notices a done context
whenever it keeps passing the places where it looks at it (strong fairness of
`FCanceled`), and a configured NTP server answers in the end (weak fairness of
`FSynced`): the code retries for ever, and no witness serves without the time. In `FirmwareUpdate` senders blocked on a channel are served in
order and a select does not neglect a ready case for ever (strong fairness);
downloads have a timeout and RPCs return; ticks, requests and the end of the
context need not come. In `Startup` a pending enabled interrupt is taken; frames
need not arrive and `main` need not go on. `journal_scan` only assumes that the
scan runs on.

## Proofs

Eight modules hold the proofs. Except where stated, the assumptions are those on
the constants in the modules themselves.

**JournalProofs, JournalDurability.** All theorems are for every geometry and
payload set. Each states what it needs of four hypotheses:

- `TearSafe`: three of the records written fit the journal, give or take a block,
- `KeepsWrites`: what the device reports as written is stored,
- `HonestStorage`: that, and reads succeed,
- `NoRevisionWrap`: fewer than 2^32 writes.

| Theorem | Needs | What holds |
|---|---|---|
| `TypeCorrect`, `EveryRoundAdvances` | nothing | the types; each round of a scan moves on within the journal |
| `RecoveryIsIntact` | nothing | what `init` recovers is complete on the device, and the next write goes right behind it |
| `OnlyWrittenIsRead` | nothing | `Data` returns an entry only if `Update` was given it, revision and payload together |
| `FailedWritesSpareCurrent` | `TearSafe` | no write touches the current record |
| `StoredStaysIntact` | `TearSafe`, `KeepsWrites` | the entry last written or recovered is complete on the device at all times |
| `NeverReportsCorrupt` | `TearSafe`, `HonestStorage`, `NoRevisionWrap` | no two adjacent records have one revision |
| `RecoveryIsExact` | the same | `init` finds the last successful write or one in doubt |
| `ReopeningAgrees` | the same | opening again with no `Update` begun since shows the same entry |
| `JournalImplementsSlot` | the same | the journal implements the register |

So failed reads and lost blocks can hide the newest entry, and a wrap of the
revision too, but they never make up an entry nor, in a journal that is
`TearSafe`, lead a write over the current one.

The first five follow from invariants about one record. `PlaceInv` says where the
next write goes relative to the current record, `ReadInv` that the entry a scan
has read last is on the device, `HeldInv` that the stored one is. The last four
need more. What a scan finds depends on the whole ring, so `JournalInv` describes it: the stored record is intact;
before it lies a chain of ever newer records that leads to it, possibly with
remains of failed writes at the start; behind it everything is older, or a write
in doubt directly behind it. It also says where the next write goes and how far a
scan has come. A write changes one block at a time, so the central lemma
(`StorePreserves`) says that storing one block of a record outside the stored one
keeps all of this. `journal_faults` checks `JournalInv` too.

`TearSafe` holds of every journal whose length is not 1 modulo 3
(`TearSafeLength`), and of every other one whose largest record is small enough
(`TearSafePayloads`). For the production length of 1024 blocks that excludes the
largest size only, records of 342 blocks; `journal_tear` shows what happens with
them.

**PartitionProofs.** `LayoutInv` ties the two loops together by counting blocks;
from it follow `SlotsDoNotOverlap` and `ReaderIsExact`, for every block size.
`FailedWritesStayHidden` follows from the types: `Open` leaves an open journal
alone, whatever the device holds.
`WritesAreExact` rests on `SentInv`: what a call was asked for lies in its slot,
and what it has sent is the part before its `lba`. That no two calls send the same
block then follows from the locks and from the slots not overlapping, for any
number of goroutines and every transfer size.

**SlotPersistenceProofs.** `Inv` has a part for the device, `Stored`, and a part
for the running applet, `Running`. `Stored` says that every directory a restart
may find maps logs to different slots and extends the last stored one, and that
slots hold checkpoints of the logs the directory has there (or of lapsed ones),
the writes in doubt being larger than the last successful one. It takes the state
of the device as parameters, so that a reset in the middle of a write needs no
proof of its own. From `Inv` follow all properties of the run, the refinement
`StoreIsImplemented` included. `SlotsUsedAsRegisters` says that directory and
slots change only as the register of `SlotRegister` may: by an open, a close, or
an attempted or committed write while open, possibly cut off by a reset.

**DHCPAcquireProofs.** `AcquireInv` follows a transaction: a client that holds a
lease asks for that lease only, and one that selects has an offer of the current
transaction for what it requests.

**NetLifecycleProofs.** `LifecycleInv` is about `Current`, the address the
interface is to have: the client's `oldAddr` until `acquired` has installed the
new one. A running `f` is for `Current`, a signal in `fDone` is that of the `f` of
`Current`, and there is never both. `NoChildAfterStop` (no `f` is left to send on
the closed `fDone`), `NoChildBeforeAdd` and `RunningHasAddress` have no run of
their own; the latter two are also consequences of `NetImplementsSession`, whose
proof maps each step of the callback and of `f` to a step of the session or to
none. `PanicNeedsSetBack` rests on
`EarlyInv`: without a clock set back, the timer runs until the renewal time.

`LeaseBoundsHold` needs `HoldInv`: a timer that runs while an address is held fires
within a backoff of the end of the lease, a renewal is over at T2 and a rebinding
at the end of the lease, each unless T1 or T2 is itself past the end.
`OnlyLateCallbackStalls` shows that the exception of a stalled client is exact:
without a clock set back, it comes to stall only when a callback has returned
after T1 (`DueInv`: a client that rebinds or starts anew is due to do so). Both
are about the client alone. `NetPanicNeedsSetBack` and `NetLeaseBoundsHold` carry
the results over to the composition, the jump of the clock at a cold start
included: the clock moves timer, timeout and lease alike, so the bounds hold
however it is set.
`EveryStopStepAdvances` and `NetStopStepAdvances` count the steps that `Run` has
left once its context is done: each step of its own lowers `StopRank`, which
starts at nine at most.

**FirmwareProofs.** `FwInv` relates the ends of a transfer: as long as no other
checker has sent a chunk, what the OS has buffered followed by what is left to
send is the release, and both count the same Sequence. It assumes that a release
is smaller than the range of Sequence.

**StartupProofs.** For every function `Sum16`. `KeyInv`: keys are made of a status that the OS gave earlier,
and the published status and the signer are of the keys in force. `SendInv`: the
queue is in step with the notifications that are due.

Only model-checked: the liveness properties, which the prover does not handle
(`ScanTerminates`, `ExpiredIsReleased`, `RunStops`, `AcquiredCompletes`,
`ExpiredCancelsChild`, `WitnessServes`, `SendEnds`, `RequestAnswered`, `TickerEnds`,
`FramesRead`). Every safety property of the passing runs is proved. For six of
the liveness properties the part that is a safety property is proved as well, so
that what is left to TLC is the argument from fairness:

| Liveness | Proved for all instances |
|---|---|
| `ScanTerminates` | `EveryRoundAdvances`: a round that is not the last moves `lba` on, at most to the end, and writes nothing, whatever fails. |
| `RunStops` | `EveryStopStepAdvances`: with the context done, each step of `Run` brings its end nearer, whatever clock and callback do. |
| `SendEnds` | `EveryChunkAdvances`: a chunk shortens what is left by its length, never to nothing; other checkers do not change it. |
| `RequestAnswered` | `LiveCheckerServes`: while its context is live, a checker's channel is open and its consumer has not ended. |
| `AcquiredCompletes` | `NobodyWaitsInVain`: unless an address could not be added, `acquired` waits only for an `f` that was cancelled and is still to signal or has done so; no `f` blocks in its signal. |
| `FramesRead` | `WakeupsAreKept`: the interrupt is enabled only while the handler sleeps, a sleeping handler has it enabled or about to be, and it is pending while frames wait unread. |

## Where code and comments disagree

Three have a run that shows them: `journal_tear`, `persistence_directory_full`
and `dhcp_slow_callback`.

- *Torn writes* (`journal.go:152`). Two records of the largest size can share a
  block when the length is 1 modulo 3. The production length is 1024 blocks, so
  this needs two records of more than about 174 500 bytes.
- *Directory errors* (`persistence.go:273`). The map keeps a log whose directory
  write failed, be it for a storage error or because the directory no longer fits
  its record, at about 2460 logs.
- *Slow callback* (`client.go:300`). See the run.

Others appear in the passing runs as explicit exceptions of a property:

- `NoPanic`: the client panics if the clock is set back while it renews
  (`client.go:287`).
- `HeldWithinLease`: T2 is not compared with the lease length
  (`client.go:236-241`), so a T2 past the end lets a renewal outlast the lease. T1
  is compared with it only if the server sent a length (`client.go:228`): when the
  default length is assumed, a T1 past its end keeps the address for as long. The
  comment at `client.go:271` says of both that they must be earlier.
  The overflow of the default T2 of a long lease is in the run as well; it makes
  the client rebind where it should renew, and violates no property of the run.
- `RenewalFindsChild`, `AcquiredCompletes`: after `AddProtocolAddress` failed, a
  lease is renewed with no `f` running, and the next change of address calls a
  nil function or waits for ever (`net.go:123-143`).
- `WitnessServes`: with NTP disabled the witness waits for ever on a nil channel
  (`main.go:299`).
- `TickerEnds`: the ticker can stay blocked in its send (`main.go:409`).
- `SentAsVerified`: two overlapping checkers can disturb each other's update; the
  OS then refuses it.
- `FramesRead`: frames behind one above the MTU wait for the next interrupt
  (`net.go:264`).
- `ExpiredCancelsChild`: the context of `f` stays live after its lease has run out
  if the client has stalled, as in `dhcp_slow_callback`.

Outside the properties:

- `Erase` returns nil whatever has failed: `borked` is declared and tested, and
  never set (`slots.go:90`), though `slots.go:96-98` has an error for "one or more
  slots" and `slots.go:86` says that the data of all slots is destroyed. In the
  model `SlotErased` may leave a slot as it was, and `EraseReturns` follows.
- `Partition.Open` logs the error of opening a corrupt journal and hands out the
  slot (`slots.go:126`) with a nil `journal`, which the next `Read` or `Write`
  dereferences (`panicked` in the model). The comment at `slots.go:148-149` says
  that a nil journal "will be opened upon first access"; no access does so.
  `NeverCorrupt` limits this to storage faults: failed writes and power losses
  never leave a journal that `init` finds corrupt, in a journal that is `TearSafe`.
- A failed read during `init` counts as "no record", so a written journal can
  open at revision zero, contrary to the comment at `journal.go:130`.
- `Update` does not read back what it wrote, which `TestUpdateVerifies`
  (`journal_test.go:300`) seems to expect.
- `readHTTP` drops the error of `ReadAll` (`update.go:214`); the verification of
  the bundle catches a truncated binary.
- The success counter counts failed updates (`main.go:440`).
- The error of `NIC.Init` is never looked at (`net.go:391`).

## Not modelled

- The DHCP byte layout (`dhcp.go` codecs, `dhcp_string.go`): pure functions on
  bytes without state. A message that does not decode makes `acquire` fail.
- The omniwitness, the HTTP servers, metrics and logging: outside the repository
  or without effect on the state.
- The memory layout (`mem.go`, `mem_bee.go`): constants for the linker.
- The in-memory test device (`testonly/memdev.go`).
- An NTP goroutine that a cancelled `f` has left behind and that sets the clock
  between the cold-start test of its successor and the answer to that one.
- Empty URLs in the build: `updater` would index an empty string (`update.go:50`,
  `75`). Both are set at compile time, and the models assume that they are.
- Downloads that return other bytes than the release has, rather than fewer. The
  verification of the bundle refuses both alike.
- The error of `RemoveAddress` (`net.go:127`) where the address is on the
  interface; it would be logged only.
- The panics of `acquire` when the unspecified address cannot be added or removed
  (`client.go:412`, `416`), which depends on the network stack only.
- 2^32 updates of one slot, after which the revision wraps: the action is there
  (`RevLimit`) and the proofs without `NoRevisionWrap` cover it, but no run does.

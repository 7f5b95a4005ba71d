--------------------------- MODULE SlotPersistence ---------------------------
(***************************************************************************)
(* The witness's checkpoint store (storage/persistence.go) on top of the   *)
(* slots of a partition (slots/slots.go): goroutines of the witness call   *)
(* Latest and Update, the power may fail at any moment, and the applet     *)
(* starts again.                                                           *)
(*                                                                         *)
(* A slot is the register of module SlotRegister, which module Journal     *)
(* implements.  A checkpoint is abstracted to the log it is of and its     *)
(* size; a stored one also has an encoding, YAML (legacy) or raw.  The     *)
(* steps of Latest and Update are the regions between two acquisitions of  *)
(* a lock: p.mu (logSlot), then the slot's mu (Open, Read, CheckAndWrite). *)
(***************************************************************************)
EXTENDS Integers, FiniteSets

CONSTANTS Logs,         \* log IDs
          Procs,        \* goroutines that use the persistence
          NumSlots,     \* slots in the partition
          DirCap,       \* entries that fit in the record of the directory slot
          MaxSize,      \* bound on the checkpoint sizes that a behaviour reaches
          WriteErrors,  \* the writes that may return an error: "directory", "checkpoint"
          NoData        \* no log, no checkpoint; a slot that was never written

mappingConfigSlot == 0
NoSlot == -1
LogSlots == 1 .. NumSlots - 1
Mapping == [Logs -> {NoSlot} \cup 0 .. NumSlots - 1]

Checkpoint == [log : Logs, size : 1 .. MaxSize]
Encoded == [enc : {"raw", "yaml"}, log : Logs, size : 1 .. MaxSize]

ASSUME PersistenceConstants ==
    /\ NumSlots \in Nat \ {0}
    /\ DirCap \in Nat
    /\ MaxSize \in Nat
    /\ WriteErrors \subseteq {"directory", "checkpoint"}
    /\ NoData \notin Mapping \cup Checkpoint \cup Encoded \cup Logs

VARIABLES directory,  \* slot 0
          slot,       \* the other slots
          up,         \* the persistence has been set up since the last reset
          idToSlot, freeSlots, directoryWriteToken,
          proc        \* the goroutines: the call each is in, its next step and its locals

(***************************************************************************)
(* History variables: acked is the largest size of a log for which Update  *)
(* returned success; lapsed are the logs of which a checkpoint was written *)
(* while the stored directory did not list them, as storing it had failed. *)
(***************************************************************************)
VARIABLES acked, lapsed

memory == <<up, idToSlot, freeSlots, directoryWriteToken>>
history == <<acked, lapsed>>
vars == <<directory, slot, memory, proc, history>>

Dir == INSTANCE SlotRegister WITH Data <- Mapping, reg <- directory
Cps == INSTANCE SlotRegister WITH Data <- Encoded, reg <- directory
-----------------------------------------------------------------------------
Unmapped == [l \in Logs |-> NoSlot]

MappedSlots(m) == {m[l] : l \in Logs} \ {NoSlot}

Injective(m) == \A k, l \in Logs : k # l /\ m[k] # NoSlot => m[k] # m[l]

\* The directory of m is no larger than what the journal of slot 0 takes.
Fits(m) == Cardinality({l \in Logs : m[l] # NoSlot}) <= DirCap

Listed(l) == directory.data # NoData /\ directory.data[l] # NoSlot

marshalCheckpoint(cp) == [enc |-> "raw", log |-> cp.log, size |-> cp.size]

\* A mutant: no fallback for the checkpoints of older releases.
unmarshalCheckpointRawOnly(b) ==
    IF b = NoData \/ b \in [enc : {"yaml"}, log : Logs, size : 1 .. MaxSize] THEN NoData
    ELSE [log |-> b.log, size |-> b.size]

\* Both encodings decode to the checkpoint; an empty record is YAML for none.
unmarshalCheckpoint(b) ==
    IF b = NoData THEN NoData ELSE [log |-> b.log, size |-> b.size]

Idle == [pc |-> "idle", op |-> "none", log |-> NoData, idx |-> NoSlot,
         currCP |-> NoData, token |-> 0, newCP |-> NoData]

\* The device may hold checkpoints that an older release stored as YAML.
Legacy(m, size) ==
    /\ directory = IF m = Unmapped THEN Dir!Empty
                   ELSE [status |-> "closed", rev |-> 1, data |-> m, doubt |-> {}]
    /\ slot = [i \in LogSlots |->
                 IF i \in MappedSlots(m)
                 THEN [status |-> "closed", rev |-> 1, doubt |-> {},
                       data |-> [enc |-> "yaml", size |-> size,
                                 log |-> CHOOSE l \in Logs : m[l] = i]]
                 ELSE Cps!Empty]
    /\ acked = [l \in Logs |-> IF m[l] = NoSlot THEN 0 ELSE size]

Init ==
    /\ \E m \in Mapping, size \in 1 .. MaxSize :
          /\ Injective(m) /\ mappingConfigSlot \notin MappedSlots(m) /\ Fits(m)
          /\ Legacy(m, size)
    /\ up = FALSE /\ idToSlot = Unmapped /\ freeSlots = {} /\ directoryWriteToken = 0
    /\ proc = [p \in Procs |-> Idle]
    /\ lapsed = {}

(***************************************************************************)
(* A reset while the slots are as in d and s, with a write begun included: *)
(* memory and goroutines are gone, the slots remain.                       *)
(***************************************************************************)
PowerLoss(d, s) ==
    /\ directory' = Dir!Closed(d)
    /\ slot' = [i \in LogSlots |-> Cps!Closed(s[i])]
    /\ up' = FALSE /\ idToSlot' = Unmapped /\ freeSlots' = {} /\ directoryWriteToken' = 0
    /\ proc' = [p \in Procs |-> Idle]

Crash == up /\ PowerLoss(directory, slot) /\ UNCHANGED history

\* A mutant: the slots in use are free as well.
FreeAll(m) == LogSlots

Free(m) == LogSlots \ MappedSlots(m)

(***************************************************************************)
(* NewSlotPersistence and Init, with populateMap: the stored directory is  *)
(* decoded into the map, over whatever it holds already.                   *)
(***************************************************************************)
populateMap(r) ==
    LET m == [l \in Logs |-> IF r.data # NoData /\ r.data[l] # NoSlot
                             THEN r.data[l] ELSE idToSlot[l]]
    IN  /\ mappingConfigSlot \notin MappedSlots(m)
        /\ idToSlot' = m
        /\ freeSlots' = Free(m)
        /\ directoryWriteToken' = r.rev

InitPersistence ==
    /\ \E r \in IF directory.status = "open" THEN {directory} ELSE Dir!Opened(directory) :
          /\ directory' = r
          /\ populateMap(r)
    /\ up' = TRUE
    /\ UNCHANGED <<slot, proc, history>>

(***************************************************************************)
(* logSlot for a log that has a slot, on behalf of Latest or of Update.    *)
(* Latest of a log without one returns NotFound and changes nothing.       *)
(***************************************************************************)
Enter(p, o, l, i) ==
    proc' = [proc EXCEPT ![p] = [Idle EXCEPT !.pc = "open", !.op = o, !.log = l, !.idx = i]]

Return(p) == proc' = [proc EXCEPT ![p] = Idle]

LogSlotKnown(p, o, l) ==
    /\ up /\ proc[p].pc = "idle"
    /\ idToSlot[l] # NoSlot
    /\ Enter(p, o, l, idToSlot[l])
    /\ UNCHANGED <<directory, slot, memory, history>>

(***************************************************************************)
(* addLog and storeDirectory, on behalf of Update for a log without a      *)
(* slot.  freeSlots is kept in ascending order by the code, so its first   *)
(* element is the smallest one.  Without free slots Update fails, and      *)
(* nothing changes.  The map is changed before the directory is stored,    *)
(* and stays changed when that fails.                                      *)
(***************************************************************************)
FirstFree == CHOOSE i \in freeSlots : \A j \in freeSlots : i <= j

\* A mutant: the slot stays among the free ones.
freeSlotsKept == freeSlots

freeSlotsLeft == freeSlots \ {FirstFree}

\* A mutant: the token is not counted up.
sameToken == directoryWriteToken

nextToken == directoryWriteToken + 1

addLog(p, l) ==
    /\ up /\ proc[p].pc = "idle"
    /\ idToSlot[l] = NoSlot
    /\ freeSlots # {}
    /\ LET m == [idToSlot EXCEPT ![l] = FirstFree]
           ok == Fits(m) /\ directory.rev = directoryWriteToken
       IN \/ /\ idToSlot' = m /\ freeSlots' = freeSlotsLeft
             /\ \/ /\ ok
                   /\ directory' = Dir!Committed(directory, m)
                   /\ directoryWriteToken' = nextToken
                   /\ Enter(p, "update", l, FirstFree)
                \/ /\ ~ok \/ "directory" \in WriteErrors
                   /\ directory' \in {directory} \cup
                                      IF ok THEN {Dir!Attempted(directory, m)} ELSE {}
                   /\ UNCHANGED <<directoryWriteToken, proc>>
             /\ UNCHANGED <<up, slot, history>>
          \/ /\ ok
             /\ PowerLoss(Dir!Attempted(directory, m), slot)
             /\ UNCHANGED history

\* part.Open of the slot: its journal is opened by the first call.
OpenSlot(p) ==
    /\ proc[p].pc = "open"
    /\ LET i == proc[p].idx
       IN \E r \in IF slot[i].status = "open" THEN {slot[i]} ELSE Cps!Opened(slot[i]) :
             slot' = [slot EXCEPT ![i] = r]
    /\ proc' = [proc EXCEPT ![p].pc = "read"]
    /\ UNCHANGED <<directory, memory, history>>

\* s.Read and unmarshalCheckpoint, in Latest: the checkpoint is returned.
ReadLatest(p) ==
    /\ proc[p].pc = "read" /\ proc[p].op = "latest"
    /\ Return(p)
    /\ UNCHANGED <<directory, slot, memory, history>>

\* The same in Update, where the checkpoint goes to f.
ReadUpdate(p) ==
    /\ proc[p].pc = "read" /\ proc[p].op = "update"
    /\ LET s == slot[proc[p].idx]
       IN proc' = [proc EXCEPT ![p].pc = "call", ![p].token = s.rev,
                               ![p].currCP = unmarshalCheckpoint(s.data)]
    /\ UNCHANGED <<directory, slot, memory, history>>

(***************************************************************************)
(* The callback f of the witness (external): it refuses a checkpoint of    *)
(* another log and returns a larger one of its own log, or an error.       *)
(***************************************************************************)
f(p) ==
    /\ proc[p].pc = "call"
    /\ \/ \E cp \in Checkpoint :
             /\ cp.log = proc[p].log
             /\ LET c == proc[p].currCP
                IN c # NoData => c.log = cp.log /\ cp.size > c.size
             /\ proc' = [proc EXCEPT ![p].pc = "write", ![p].newCP = cp]
       \/ Return(p)
    /\ UNCHANGED <<directory, slot, memory, history>>

Max2(m, n) == IF m >= n THEN m ELSE n

\* A mutant: the token is not compared with the slot's revision.
TokenIgnored(p) == TRUE

TokenValid(p) == slot[proc[p].idx].rev = proc[p].token

\* s.CheckAndWrite, the last step of Update.
CheckAndWrite(p) ==
    /\ proc[p].pc = "write"
    /\ LET i == proc[p].idx
           l == proc[p].log
           b == marshalCheckpoint(proc[p].newCP)
       IN \/ /\ ~TokenValid(p)
             /\ Return(p)
             /\ UNCHANGED <<directory, slot, memory, history>>
          \/ /\ TokenValid(p)
             /\ lapsed' = IF Listed(l) THEN lapsed ELSE lapsed \cup {l}
             /\ \/ /\ slot' = [slot EXCEPT ![i] = Cps!Committed(@, b)]
                   /\ acked' = [acked EXCEPT ![l] = Max2(@, b.size)]
                   /\ Return(p)
                   /\ UNCHANGED <<directory, memory>>
                \/ /\ "checkpoint" \in WriteErrors
                   /\ slot' = [slot EXCEPT ![i] = Cps!Attempted(@, b)]
                   /\ Return(p)
                   /\ UNCHANGED <<directory, memory, acked>>
                \/ /\ PowerLoss(directory, [slot EXCEPT ![i] = Cps!Attempted(@, b)])
                   /\ UNCHANGED acked

Next ==
    \/ InitPersistence
    \/ Crash
    \/ \E p \in Procs, l \in Logs :
          \/ \E o \in {"latest", "update"} : LogSlotKnown(p, o, l)
          \/ addLog(p, l)
    \/ \E p \in Procs :
          OpenSlot(p) \/ ReadLatest(p) \/ ReadUpdate(p) \/ f(p) \/ CheckAndWrite(p)

Spec == Init /\ [][Next]_vars
-----------------------------------------------------------------------------
Call == [pc : {"idle", "open", "read", "call", "write"}, op : {"none", "latest", "update"},
         log : Logs \cup {NoData}, idx : LogSlots \cup {NoSlot},
         currCP : Checkpoint \cup {NoData}, token : Nat, newCP : Checkpoint \cup {NoData}]

TypeOK ==
    /\ directory \in Dir!Register
    /\ slot \in [LogSlots -> Cps!Register]
    /\ up \in BOOLEAN
    /\ idToSlot \in Mapping /\ freeSlots \subseteq LogSlots /\ directoryWriteToken \in Nat
    /\ proc \in [Procs -> Call]
    /\ acked \in [Logs -> 0 .. MaxSize] /\ lapsed \subseteq Logs

(***************************************************************************)
(* Once Update has returned success for a checkpoint, a running applet     *)
(* serves that checkpoint or a larger one of the same log, whatever        *)
(* restarts, failed writes and concurrent updates there were: Latest       *)
(* "returns the last recorded checkpoint for the given logID"              *)
(* (persistence.go:132), and the log's next Update starts from it.  Logs   *)
(* that were written to while the directory did not list them are not      *)
(* covered.                                                                *)
(***************************************************************************)
Served(l) ==
    /\ idToSlot[l] # NoSlot
    /\ LET b == slot[idToSlot[l]].data
       IN b # NoData /\ b.log = l /\ b.size >= acked[l]

AckedIsServed == up => \A l \in Logs \ lapsed : acked[l] > 0 => Served(l)

\* The same without the exception for the logs that the directory does not list.
AckedIsAlwaysServed == up => \A l \in Logs : acked[l] > 0 => Served(l)

(***************************************************************************)
(* No update is lost: the checkpoint that CheckAndWrite replaces is the    *)
(* one that Update had shown to f, even if other goroutines or a reset     *)
(* came in between (the token scheme of slots.go:192).                     *)
(***************************************************************************)
NoLostUpdate ==
    [][\A p \in Procs :
         /\ proc[p].pc = "write" /\ proc'[p].pc = "idle"
         /\ slot'[proc[p].idx].rev # slot[proc[p].idx].rev
         => unmarshalCheckpoint(slot[proc[p].idx].data) = proc[p].currCP]_vars

(***************************************************************************)
(* Two logs never share a slot, not in the map of the running applet and   *)
(* not in any directory that a restart may find, and the slots that addLog *)
(* hands out are free (persistence.go:229-244, 273-275), even after        *)
(* storing the directory has failed.                                       *)
(***************************************************************************)
OneLogPerSlot ==
    /\ up => Injective(idToSlot) /\ freeSlots \cap MappedSlots(idToSlot) = {}
    /\ \A m \in ({directory.data} \ {NoData}) \cup directory.doubt :
          Injective(m) /\ mappingConfigSlot \notin MappedSlots(m)

(***************************************************************************)
(* A checkpoint lies only in the slot of the log that it is of, unless it  *)
(* was written while the directory did not list that log.                  *)
(***************************************************************************)
SlotHoldsOwnLog ==
    \A l \in Logs : idToSlot[l] # NoSlot =>
        \A b \in ({slot[idToSlot[l]].data} \ {NoData}) \cup slot[idToSlot[l]].doubt :
            b.log = l \/ b.log \in lapsed

(***************************************************************************)
(* The token kept for the directory slot is the one that slot will accept: *)
(* storeDirectory counts it up itself instead of reading it back           *)
(* (persistence.go:258), and a token out of step would refuse every        *)
(* further log until the next restart.                                     *)
(***************************************************************************)
DirectoryTokenInStep == up => directory.rev = directoryWriteToken

(***************************************************************************)
(* Init "should be idempotent" (persistence.go:84): called again while the *)
(* persistence is in use, it changes nothing.                              *)
(***************************************************************************)
InitIdempotent == [][up /\ InitPersistence => UNCHANGED vars]_vars

(***************************************************************************)
(* For its callers the persistence is one checkpoint size per log, that    *)
(* grows one log at a time and never shrinks.  What the store holds of a   *)
(* lapsed log is what was acknowledged.                                    *)
(***************************************************************************)
MapInForce == IF up THEN idToSlot ELSE IF directory.data = NoData THEN Unmapped
                                       ELSE directory.data

HoldsOwn(l, b) == b # NoData /\ b.log = l

Recorded == [l \in Logs |->
               IF l \in lapsed THEN acked[l]
               ELSE IF MapInForce[l] # NoSlot /\ HoldsOwn(l, slot[MapInForce[l]].data)
                    THEN slot[MapInForce[l]].data.size ELSE 0]

Store == INSTANCE CheckpointStore WITH latest <- Recorded

ImplementsStore == Store!Spec
=============================================================================

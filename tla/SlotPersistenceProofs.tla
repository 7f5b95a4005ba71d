----------------------- MODULE SlotPersistenceProofs -----------------------
(***************************************************************************)
(* The checkpoint store keeps its promises for any number of logs, slots   *)
(* and goroutines, with failed writes and resets at any moment.            *)
(*                                                                         *)
(* The invariant has a part for what is on the device, Stored, and a part  *)
(* for the memory of the running applet, Running.  Stored takes the state  *)
(* of the device as parameters, so that a reset in the middle of a write,  *)
(* which is a write attempt followed by the loss of the memory, needs no   *)
(* proof of its own.                                                       *)
(***************************************************************************)
EXTENDS SlotPersistence, WellFoundedInduction, TLAPS

\* The prover, unless a step names another: the steps with arithmetic or records need SMT.
USE ZenonT(30)

Sound(m) == Injective(m) /\ \A l \in Logs : m[l] # mappingConfigSlot

\* n lists what m lists.
Extends(n, m) == \A l \in Logs : m[l] # NoSlot => n[l] = m[l]

\* Every directory that a restart may find.
Maps(d) == ({d.data} \ {NoData}) \cup d.doubt

At(d, l, i) == d.data # NoData /\ d.data[l] = i

DirOK(d) ==
    /\ d \in Dir!Register
    /\ \A m \in Maps(d) : Sound(m)
    /\ d.data # NoData => \A m \in d.doubt : Extends(m, d.data)

\* Every checkpoint that a reader of slot r may find.
Content(r) == ({r.data} \ {NoData}) \cup r.doubt

\* A slot has checkpoints of logs that the directory d has there, or of lapsed
\* ones, and the writes in doubt are updates of the last successful one.
SlotOK(i, d, r, L) ==
    /\ r \in Cps!Register
    /\ \A b \in Content(r) : b.log \in L \/ At(d, b.log, i)
    /\ r.data # NoData => \A b \in r.doubt : b.log = r.data.log /\ b.size > r.data.size

\* What was acknowledged is in the slot, whatever the writes in doubt come to.
AckOK(l, r, n) ==
    r.data # NoData /\ \A b \in Content(r) : b.log = l /\ b.size >= n

Stored(d, s, a, L) ==
    /\ DirOK(d)
    /\ DOMAIN s = LogSlots /\ s = [i \in LogSlots |-> s[i]]
    /\ \A i \in LogSlots : SlotOK(i, d, s[i], L)
    /\ a \in [Logs -> 0 .. MaxSize] /\ L \subseteq Logs
    /\ \A l \in Logs \ L : a[l] > 0 =>
          \E i \in LogSlots : At(d, l, i) /\ AckOK(l, s[i], a[l])
-----------------------------------------------------------------------------
(***************************************************************************)
(* What becomes of Stored.                                                 *)
(***************************************************************************)
LEMMA StoredClosed ==
    ASSUME NEW d, NEW s, NEW a, NEW L, Stored(d, s, a, L)
    PROVE  Stored(Dir!Closed(d), [i \in LogSlots |-> Cps!Closed(s[i])], a, L)
<1> DEFINE c == Dir!Closed(d)
           t == [i \in LogSlots |-> Cps!Closed(s[i])]
<1>1. c.data = d.data /\ c.doubt = d.doubt /\ c \in Dir!Register
    BY DEF Stored, DirOK, Dir!Closed, Dir!Register
<1>2. DirOK(c)
    BY <1>1 DEF Stored, DirOK, Maps
<1>3. \A i \in LogSlots :
         t[i].data = s[i].data /\ t[i].doubt = s[i].doubt /\ t[i] \in Cps!Register
    BY SMTT(30) DEF Stored, SlotOK, Cps!Closed, Cps!Register
<1>4. DOMAIN t = LogSlots /\ t = [i \in LogSlots |-> t[i]]
    OBVIOUS
<1> HIDE DEF c, t
<1>5. ASSUME NEW i \in LogSlots PROVE SlotOK(i, c, t[i], L)
    BY <1>1, <1>3, SMTT(30) DEF Stored, SlotOK, Content, At
<1>6. \A l \in Logs \ L : a[l] > 0 =>
         \E i \in LogSlots : At(c, l, i) /\ AckOK(l, t[i], a[l])
    BY <1>1, <1>3, SMTT(30) DEF Stored, AckOK, Content, At
<1>7. Stored(c, t, a, L)
    BY <1>2, <1>4, <1>5, <1>6 DEF Stored
<1> QED
    BY <1>7 DEF c, t

LEMMA DirAttempted ==
    ASSUME NEW d, NEW s, NEW a, NEW L, Stored(d, s, a, L),
           NEW m \in Mapping, Sound(m), d.data # NoData => Extends(m, d.data)
    PROVE  Stored(Dir!Attempted(d, m), s, a, L)
<1> DEFINE c == Dir!Attempted(d, m)
<1>1. c.data = d.data /\ c.doubt = d.doubt \cup {m} /\ c \in Dir!Register
    BY DEF Stored, DirOK, Dir!Attempted, Dir!Register
<1> HIDE DEF c
<1>2. DirOK(c)
    BY <1>1 DEF Stored, DirOK, Maps
<1>3. \A l, i : At(c, l, i) <=> At(d, l, i)
    BY <1>1 DEF At
<1>4. Stored(c, s, a, L)
    BY <1>2, <1>3 DEF Stored, SlotOK
<1> QED
    BY <1>4 DEF c

LEMMA DirCommitted ==
    ASSUME NEW d, NEW s, NEW a, NEW L, Stored(d, s, a, L),
           NEW c \in Dir!Register, c.doubt = {}, c.data # NoData, Sound(c.data),
           d.data # NoData => Extends(c.data, d.data)
    PROVE  Stored(c, s, a, L)
<1>1. DirOK(c)
    BY DEF DirOK, Maps
<1>2. ASSUME NEW l \in Logs, NEW i \in LogSlots, At(d, l, i) PROVE At(c, l, i)
    BY <1>2, SMTT(30) DEF At, Extends, LogSlots, NoSlot
<1>3. ASSUME NEW i \in LogSlots PROVE SlotOK(i, c, s[i], L)
    <2>1. SlotOK(i, d, s[i], L)
        BY DEF Stored
    <2>2. \A b \in Content(s[i]) : b.log \in Logs
        BY <2>1 DEF SlotOK, Content, Cps!Register, Encoded
    <2> QED
        BY <2>1, <2>2, <1>2 DEF SlotOK
<1>4. \A l \in Logs \ L : a[l] > 0 =>
         \E i \in LogSlots : At(c, l, i) /\ AckOK(l, s[i], a[l])
    BY <1>2 DEF Stored
<1> QED
    BY <1>1, <1>3, <1>4 DEF Stored

LEMMA DirOpened ==
    ASSUME NEW d, NEW s, NEW a, NEW L, Stored(d, s, a, L), NEW r \in Dir!Opened(d)
    PROVE  Stored(r, s, a, L) /\ r.status = "open" /\ r.doubt = {}
<1>0. DirOK(d) /\ d \in Dir!Register
    BY DEF Stored, DirOK
<1>1. CASE r = [status |-> "open", rev |-> d.rev, data |-> d.data, doubt |-> {}]
    <2>1. r.data = d.data /\ r.doubt = {} /\ r.status = "open" /\ r \in Dir!Register
        BY <1>0, <1>1 DEF Dir!Register
    <2>2. DirOK(r)
        BY <1>0, <2>1 DEF DirOK, Maps
    <2>3. \A l, i : At(r, l, i) <=> At(d, l, i)
        BY <2>1 DEF At
    <2> QED
        BY <2>1, <2>2, <2>3 DEF Stored, SlotOK
<1>2. ASSUME NEW m \in d.doubt, r = Dir!Committed(d, m)
      PROVE  Stored(r, s, a, L) /\ r.status = "open" /\ r.doubt = {}
    <2>1. m \in Mapping /\ m # NoData /\ Sound(m) /\ (d.data # NoData => Extends(m, d.data))
        BY <1>0, PersistenceConstants DEF DirOK, Maps, Dir!Register
    <2>2. r.data = m /\ r.doubt = {} /\ r.status = "open" /\ r \in Dir!Register
        BY <1>0, <1>2, <2>1, SMTT(30) DEF Dir!Register, Dir!Committed
    <2> QED
        BY <2>1, <2>2, DirCommitted
<1> QED
    BY <1>1, <1>2 DEF Dir!Opened
\* The other slots stay as they are when slot i becomes r.
LEMMA SlotChanged ==
    ASSUME NEW d, NEW s, NEW a, NEW L, Stored(d, s, a, L), NEW i \in LogSlots, NEW r,
           NEW e \in [Logs -> 0 .. MaxSize], NEW M, L \subseteq M, M \subseteq Logs,
           SlotOK(i, d, r, M),
           \A l \in Logs \ M : e[l] > 0 =>
              \/ At(d, l, i) /\ AckOK(l, r, e[l])
              \/ ~At(d, l, i) /\ e[l] = a[l]
    PROVE  Stored(d, [s EXCEPT ![i] = r], e, M)
<1> DEFINE t == [s EXCEPT ![i] = r]
<1>1. /\ DOMAIN t = LogSlots /\ t = [j \in LogSlots |-> t[j]]
      /\ t[i] = r /\ \A j \in LogSlots : j # i => t[j] = s[j]
    BY DEF Stored
<1> HIDE DEF t
<1>2. ASSUME NEW j \in LogSlots PROVE SlotOK(j, d, t[j], M)
    BY <1>1, SMTT(30) DEF Stored, SlotOK
<1>3. ASSUME NEW l \in Logs \ M, e[l] > 0
      PROVE  \E j \in LogSlots : At(d, l, j) /\ AckOK(l, t[j], e[l])
    <2>1. CASE At(d, l, i)
        BY <1>1, <1>3, <2>1
    <2>2. CASE ~At(d, l, i)
        <3>1. PICK j \in LogSlots : At(d, l, j) /\ AckOK(l, s[j], e[l])
            BY <1>3, <2>2 DEF Stored
        <3> QED
            BY <1>1, <2>2, <3>1
    <2> QED
        BY <2>1, <2>2
<1>4. Stored(d, t, e, M)
    BY <1>1, <1>2, <1>3 DEF Stored
<1> QED
    BY <1>4 DEF t

\* What Stored says of an acknowledged log that the directory has at slot i.
LEMMA AckedThere ==
    ASSUME NEW d, NEW s, NEW a, NEW L, Stored(d, s, a, L), NEW i \in LogSlots,
           NEW l \in Logs \ L, a[l] > 0, At(d, l, i)
    PROVE  AckOK(l, s[i], a[l])
BY DEF Stored, At

LEMMA SlotOpened ==
    ASSUME NEW d, NEW s, NEW a, NEW L, Stored(d, s, a, L), NEW i \in LogSlots,
           NEW r \in Cps!Opened(s[i])
    PROVE  Stored(d, [s EXCEPT ![i] = r], a, L) /\ r.status = "open"
<1>0. SlotOK(i, d, s[i], L) /\ s[i] \in Cps!Register
    BY DEF Stored, SlotOK
<1>1. /\ r \in Cps!Register /\ r.status = "open" /\ r.doubt = {}
      /\ r.data = s[i].data \/ r.data \in s[i].doubt
    <2>1. CASE r = [status |-> "open", rev |-> s[i].rev, data |-> s[i].data, doubt |-> {}]
        BY <1>0, <2>1 DEF Cps!Register
    <2>2. ASSUME NEW b \in s[i].doubt, r = Cps!Committed(s[i], b)
          PROVE  r \in Cps!Register /\ r.status = "open" /\ r.doubt = {} /\ r.data = b
        BY <1>0, <2>2, SMTT(30) DEF Cps!Register, Cps!Committed
    <2> QED
        BY <2>1, <2>2 DEF Cps!Opened
<1>2. Content(r) \subseteq Content(s[i])
    BY <1>1 DEF Content
<1>3. SlotOK(i, d, r, L)
    BY <1>0, <1>1, <1>2 DEF SlotOK
<1>4. ASSUME NEW l \in Logs \ L, a[l] > 0, At(d, l, i) PROVE AckOK(l, r, a[l])
    <2>1. AckOK(l, s[i], a[l])
        BY <1>4, AckedThere
    <2>2. r.data # NoData
        BY <1>0, <1>1, <2>1, PersistenceConstants DEF AckOK, Cps!Register
    <2> QED
        BY <1>2, <2>1, <2>2 DEF AckOK
<1>5. a \in [Logs -> 0 .. MaxSize] /\ L \subseteq Logs
    BY DEF Stored
<1> QED
    BY <1>1, <1>3, <1>4, <1>5, SlotChanged

\* An Update of log l may write b to slot i, which is r.
MayWrite(l, i, b, d, r) ==
    /\ b \in Encoded /\ b.log = l
    /\ \A k \in Logs : At(d, k, i) => k = l
    /\ r.data # NoData => r.data.log = l /\ b.size > r.data.size

LapsedAfter(l, d, L) == IF d.data # NoData /\ d.data[l] # NoSlot THEN L ELSE L \cup {l}

LEMMA SlotAttempted ==
    ASSUME NEW d, NEW s, NEW a, NEW L, Stored(d, s, a, L), NEW i \in LogSlots, NEW l \in Logs,
           NEW b, MayWrite(l, i, b, d, s[i]), d.data # NoData => d.data[l] \in {i, NoSlot}
    PROVE  Stored(d, [s EXCEPT ![i] = Cps!Attempted(@, b)], a, LapsedAfter(l, d, L))
<1> DEFINE M == LapsedAfter(l, d, L)
           r == Cps!Attempted(s[i], b)
<1>0. SlotOK(i, d, s[i], L) /\ s[i] \in Cps!Register
    BY DEF Stored, SlotOK
<1>1. L \subseteq M /\ M \subseteq Logs /\ (l \in M \/ At(d, l, i))
    BY DEF LapsedAfter, Stored, At
<1>2. r \in Cps!Register /\ r.data = s[i].data /\ r.doubt = s[i].doubt \cup {b}
    BY <1>0 DEF Cps!Register, Cps!Attempted, MayWrite
<1> HIDE DEF M, r
<1>3. Content(r) = Content(s[i]) \cup {b}
    BY <1>2 DEF Content
<1>4. SlotOK(i, d, r, M)
    BY <1>0, <1>1, <1>2, <1>3 DEF SlotOK, MayWrite
<1>5. ASSUME NEW k \in Logs \ M, a[k] > 0, At(d, k, i) PROVE AckOK(k, r, a[k])
    <2>1. AckOK(k, s[i], a[k]) /\ k = l
        BY <1>1, <1>5, AckedThere DEF MayWrite
    <2>2. b.size >= a[k]
        <3>1. s[i].data.size \in Nat /\ b.size \in Nat /\ a[k] \in Nat
            BY <1>0, <2>1, SMTT(30) DEF AckOK, Cps!Register, Encoded, MayWrite, Stored
        <3>2. s[i].data.size >= a[k] /\ b.size > s[i].data.size
            BY <2>1 DEF AckOK, Content, MayWrite
        <3> QED
            BY <3>1, <3>2, SMTT(30)
    <2> QED
        BY <1>2, <1>3, <2>1, <2>2 DEF AckOK, MayWrite
<1>6. a \in [Logs -> 0 .. MaxSize]
    BY DEF Stored
<1>7. Stored(d, [s EXCEPT ![i] = r], a, M)
    BY <1>1, <1>4, <1>5, <1>6, SlotChanged
<1> QED
    BY <1>7 DEF M, r

LEMMA SlotCommitted ==
    ASSUME NEW d, NEW s, NEW a, NEW L, Stored(d, s, a, L), NEW i \in LogSlots, NEW l \in Logs,
           NEW b, MayWrite(l, i, b, d, s[i]), d.data # NoData => d.data[l] \in {i, NoSlot}
    PROVE  Stored(d, [s EXCEPT ![i] = Cps!Committed(@, b)],
                  [a EXCEPT ![l] = Max2(@, b.size)], LapsedAfter(l, d, L))
<1> DEFINE M == LapsedAfter(l, d, L)
           r == Cps!Committed(s[i], b)
           e == [a EXCEPT ![l] = Max2(@, b.size)]
<1>0. SlotOK(i, d, s[i], L) /\ s[i] \in Cps!Register /\ b \in Encoded /\ b # NoData
    BY PersistenceConstants DEF Stored, SlotOK, MayWrite
<1>1. L \subseteq M /\ M \subseteq Logs /\ (l \in M \/ At(d, l, i))
    BY DEF LapsedAfter, Stored, At
<1>2. r \in Cps!Register /\ r.data = b /\ r.doubt = {}
    BY <1>0, SMTT(30) DEF Cps!Register, Cps!Committed
<1>3. b.size \in 1 .. MaxSize /\ a \in [Logs -> 0 .. MaxSize]
    BY <1>0 DEF Encoded, Stored
<1>4. /\ e \in [Logs -> 0 .. MaxSize] /\ e[l] = Max2(a[l], b.size)
      /\ \A k \in Logs : k # l => e[k] = a[k]
    BY <1>3, PersistenceConstants, SMTT(30) DEF Max2
<1> HIDE DEF M, r, e
<1>5. Content(r) = {b}
    BY <1>0, <1>2 DEF Content
<1>6. SlotOK(i, d, r, M)
    BY <1>1, <1>2, <1>5 DEF SlotOK, MayWrite
<1>7. ASSUME NEW k \in Logs \ M, e[k] > 0
      PROVE  \/ At(d, k, i) /\ AckOK(k, r, e[k])
             \/ ~At(d, k, i) /\ e[k] = a[k]
    <2>1. CASE k = l
        <3>1. At(d, l, i)
            BY <1>1, <2>1
        <3>2. b.size >= a[l]
            <4>1. CASE a[l] > 0
                <5>1. AckOK(l, s[i], a[l])
                    BY <1>1, <2>1, <3>1, <4>1, AckedThere
                <5>2. s[i].data.size \in Nat /\ s[i].data.size >= a[l] /\ b.size > s[i].data.size
                    BY <1>0, <5>1, SMTT(30) DEF AckOK, Content, MayWrite, Cps!Register, Encoded
                <5> QED
                    BY <1>3, <5>2, SMTT(30)
            <4>2. CASE ~(a[l] > 0)
                BY <1>3, <4>2, SMTT(30)
            <4> QED
                BY <4>1, <4>2
        <3>3. b.size >= e[l]
            BY <1>3, <1>4, <3>2, SMTT(30) DEF Max2
        <3> QED
            BY <1>0, <1>2, <1>5, <2>1, <3>1, <3>3 DEF AckOK, MayWrite
    <2>2. CASE k # l
        BY <1>4, <2>2 DEF MayWrite
    <2> QED
        BY <2>1, <2>2
<1>8. Stored(d, [s EXCEPT ![i] = r], e, M)
    BY <1>1, <1>4, <1>6, <1>7, SlotChanged
<1> QED
    BY <1>8 DEF M, r, e
-----------------------------------------------------------------------------
(***************************************************************************)
(* The memory of the applet.                                               *)
(***************************************************************************)
\* The stored directory, and every directory in doubt, is part of the map, and
\* the map is one that the next write of the directory can be made from.
MapOK ==
    IF up
    THEN /\ directory.status = "open" /\ directory.rev = directoryWriteToken
         /\ Sound(idToSlot) /\ freeSlots = Free(idToSlot)
         /\ \A m \in Maps(directory) : Extends(idToSlot, m)
    ELSE /\ directory.status = "closed" /\ idToSlot = Unmapped
         /\ \A p \in Procs : proc[p].pc = "idle"

\* What a goroutine in a call of Latest or Update knows of its slot.
ProcOK(p) ==
    LET q == proc[p]
        r == slot[q.idx]
    IN  q.pc # "idle" =>
        /\ q.log \in Logs /\ q.idx \in LogSlots /\ q.idx = idToSlot[q.log]
        /\ q.pc # "open" => r.status = "open"
        /\ q.pc \in {"call", "write"} =>
              q.token <= r.rev /\ (q.token = r.rev => q.currCP = unmarshalCheckpoint(r.data))
        /\ q.pc = "write" =>
              /\ q.newCP \in Checkpoint /\ q.newCP.log = q.log
              /\ q.currCP # NoData => q.currCP.log = q.log /\ q.newCP.size > q.currCP.size

Running ==
    /\ up \in BOOLEAN /\ idToSlot \in Mapping /\ freeSlots \subseteq LogSlots
    /\ directoryWriteToken \in Nat /\ proc \in [Procs -> Call]
    /\ MapOK
    /\ \A p \in Procs : ProcOK(p)

Inv == Stored(directory, slot, acked, lapsed) /\ Running

LEMMA TypeFacts ==
    ASSUME Inv
    PROVE  /\ TypeOK
           /\ directory \in Dir!Register /\ slot \in [LogSlots -> Cps!Register]
<1>1. directory \in Dir!Register
    BY DEF Inv, Stored, DirOK
<1>2. slot \in [LogSlots -> Cps!Register]
    BY DEF Inv, Stored, SlotOK
<1> QED
    BY <1>1, <1>2 DEF Inv, Stored, Running, TypeOK

\* addLog takes a slot that is free.
LEMMA FirstFreeIsFree ==
    ASSUME freeSlots \subseteq LogSlots, freeSlots # {}
    PROVE  FirstFree \in freeSlots
<1>1. freeSlots \subseteq Nat
    BY PersistenceConstants, SMTT(30) DEF LogSlots
<1>2. \E i \in freeSlots : \A j \in freeSlots : ~(<<j, i>> \in OpToRel(<, Nat))
    BY <1>1, NatLessThanWellFounded, WFMin
<1>3. ASSUME NEW i \in Nat, NEW j \in Nat, j < i PROVE <<j, i>> \in OpToRel(<, Nat)
    <2>1. <<j, i>> \in Nat \X Nat /\ <<j, i>>[1] = j /\ <<j, i>>[2] = i
        OBVIOUS
    <2>2. <<j, i>>[1] < <<j, i>>[2]
        BY <1>3, <2>1
    <2> QED
        BY <2>1, <2>2 DEF OpToRel
<1>4. \E i \in freeSlots : \A j \in freeSlots : ~(j < i)
    BY <1>1, <1>2, <1>3
<1>5. \E i \in freeSlots : \A j \in freeSlots : i <= j
    BY <1>1, <1>4, SMTT(30)
<1> QED
    BY <1>5 DEF FirstFree

\* No log but l is in the slot that the map has for l.
LEMMA OnlyOne ==
    ASSUME Inv, up, NEW l \in Logs, idToSlot[l] # NoSlot
    PROVE  /\ idToSlot[l] \in LogSlots
           /\ \A k \in Logs : At(directory, k, idToSlot[l]) => k = l
           /\ directory.data # NoData => directory.data[l] \in {idToSlot[l], NoSlot}
<1>1. idToSlot[l] \in LogSlots
    BY PersistenceConstants, SMTT(30)
    DEF Inv, Running, MapOK, Mapping, Sound, LogSlots, mappingConfigSlot
<1>2. directory.data # NoData => Extends(idToSlot, directory.data)
    BY DEF Inv, Running, MapOK, Maps
<1>3. Injective(idToSlot)
    BY DEF Inv, Running, MapOK, Sound
<1> QED
    BY <1>1, <1>2, <1>3 DEF At, Extends, Injective, LogSlots, NoSlot

\* Whether the slots keep what the goroutines in a call rely on.
SlotsKept ==
    \A i \in LogSlots : slot[i].status = "open" =>
        /\ slot'[i].status = "open"
        /\ slot'[i].rev > slot[i].rev \/ (slot'[i].rev = slot[i].rev /\ slot'[i].data = slot[i].data)

LEMMA ProcKept ==
    ASSUME Inv, NEW p \in Procs, proc'[p] = proc[p], SlotsKept, Extends(idToSlot', idToSlot),
           \A i \in LogSlots : slot'[i].rev \in Nat
    PROVE  ProcOK(p)'
<1>1. ProcOK(p) /\ proc[p] \in Call
    BY DEF Inv, Running
<1> SUFFICES ASSUME proc[p].pc # "idle" PROVE ProcOK(p)'
    BY DEF ProcOK
<1> DEFINE q == proc[p]
           r == slot[q.idx]
           t == slot'[q.idx]
<1>2. q.log \in Logs /\ q.idx \in LogSlots /\ q.idx = idToSlot[q.log]
    BY <1>1 DEF ProcOK
<1>3. q.idx = idToSlot'[q.log]
    BY <1>2, SMTT(30) DEF Extends, LogSlots, NoSlot
<1>4. q.pc # "open" => r.status = "open" /\ t.status = "open"
    BY <1>1, <1>2 DEF ProcOK, SlotsKept
<1>5. ASSUME q.pc \in {"call", "write"}
      PROVE  q.token <= t.rev /\ (q.token = t.rev => q.currCP = unmarshalCheckpoint(t.data))
    <2>1. q.token \in Nat /\ r.rev \in Nat /\ t.rev \in Nat
        BY <1>1, <1>2, TypeFacts DEF Call, Cps!Register
    <2>2. q.token <= r.rev /\ (q.token = r.rev => q.currCP = unmarshalCheckpoint(r.data))
        BY <1>1, <1>5 DEF ProcOK
    <2>3. t.rev > r.rev \/ (t.rev = r.rev /\ t.data = r.data)
        BY <1>2, <1>4, <1>5 DEF SlotsKept
    <2> HIDE DEF q, r, t
    <2> QED
        BY <2>1, <2>2, <2>3, SMTT(30)
<1> QED
    BY <1>1, <1>2, <1>3, <1>4, <1>5 DEF ProcOK

LEMMA IdleOK ==
    ASSUME NEW p \in Procs, proc'[p] = Idle
    PROVE  ProcOK(p)'
BY SMTT(30) DEF ProcOK, Idle

LEMMA IdleType == Idle \in Call
BY DEF Idle, Call

\* A reset, with what was being written included.
LEMMA PowerLossInv ==
    ASSUME NEW d, NEW s, PowerLoss(d, s), Stored(d, s, acked', lapsed')
    PROVE  Inv'
<1>1. Stored(directory', slot', acked', lapsed')
    BY StoredClosed DEF PowerLoss
<1>2. directory'.status = "closed"
    BY DEF PowerLoss, Dir!Closed, Stored, DirOK, Dir!Register
<1>3. /\ up' = FALSE /\ idToSlot' = Unmapped /\ freeSlots' = {} /\ directoryWriteToken' = 0
      /\ proc' = [p \in Procs |-> Idle]
    BY DEF PowerLoss
<1>4. idToSlot' \in Mapping
    BY <1>3 DEF Unmapped, Mapping
<1>5. proc' \in [Procs -> Call] /\ \A p \in Procs : proc'[p] = Idle /\ proc'[p].pc = "idle"
    BY <1>3, IdleType DEF Idle
<1>6. MapOK'
    BY <1>2, <1>3, <1>5 DEF MapOK
<1>7. Running'
    BY <1>3, <1>4, <1>5, <1>6, IdleOK DEF Running
<1> QED
    BY <1>1, <1>7 DEF Inv
-----------------------------------------------------------------------------
LEMMA InitInv ==
    Init => Inv
<1> SUFFICES ASSUME Init PROVE Inv
    OBVIOUS
<1>1. PICK m \in Mapping, size \in 1 .. MaxSize :
         Injective(m) /\ mappingConfigSlot \notin MappedSlots(m) /\ Legacy(m, size)
    BY DEF Init
<1>2. \A l \in Logs : m[l] # mappingConfigSlot
    BY <1>1, SMTT(30) DEF MappedSlots, mappingConfigSlot, NoSlot
<1>3. m # NoData /\ \A b \in Encoded : b # NoData
    BY PersistenceConstants
<1>4. /\ directory \in Dir!Register /\ directory.status = "closed" /\ directory.doubt = {}
      /\ directory.data = IF m = Unmapped THEN NoData ELSE m
    BY <1>1 DEF Legacy, Dir!Empty, Dir!Register
<1>5. DirOK(directory)
    BY <1>1, <1>2, <1>4 DEF DirOK, Maps, Sound
<1>6. ASSUME NEW l \in Logs, NEW i \in LogSlots, m[l] = i PROVE At(directory, l, i)
    BY <1>3, <1>4, <1>6, SMTT(30) DEF At, Unmapped, LogSlots, NoSlot
<1>7. slot = [i \in LogSlots |-> slot[i]] /\ DOMAIN slot = LogSlots
    BY <1>1 DEF Legacy
<1>8. ASSUME NEW i \in LogSlots
      PROVE  /\ slot[i] \in Cps!Register /\ slot[i].doubt = {}
             /\ \/ slot[i].data = NoData /\ i \notin MappedSlots(m)
                \/ slot[i].data \in Encoded /\ slot[i].data.size = size /\ m[slot[i].data.log] = i
    <2>1. CASE i \in MappedSlots(m)
        <3> DEFINE k == CHOOSE l \in Logs : m[l] = i
        <3>1. k \in Logs /\ m[k] = i
            BY <2>1 DEF MappedSlots
        <3> HIDE DEF k
        <3>2. slot[i] = [status |-> "closed", rev |-> 1, doubt |-> {},
                         data |-> [enc |-> "yaml", size |-> size, log |-> k]]
            BY <1>1, <2>1 DEF Legacy, k
        <3>3. slot[i].data = [enc |-> "yaml", size |-> size, log |-> k] /\ slot[i].data \in Encoded
            BY <3>1, <3>2, SMTT(30) DEF Encoded
        <3> QED
            BY <3>1, <3>2, <3>3, SMTT(30) DEF Cps!Register
    <2>2. CASE i \notin MappedSlots(m)
        BY <1>1, <2>2 DEF Legacy, Cps!Empty, Cps!Register
    <2> QED
        BY <2>1, <2>2
<1>9. ASSUME NEW i \in LogSlots PROVE SlotOK(i, directory, slot[i], lapsed)
    <2>1. \A b \in Content(slot[i]) : b.log \in Logs /\ m[b.log] = i
        BY <1>8 DEF Content, Encoded
    <2> QED
        BY <1>6, <1>8, <2>1 DEF SlotOK
<1>10. acked \in [Logs -> 0 .. MaxSize] /\ lapsed = {}
    BY <1>1, PersistenceConstants, SMTT(30) DEF Legacy, Init
<1>11. ASSUME NEW l \in Logs, acked[l] > 0
       PROVE  \E i \in LogSlots : At(directory, l, i) /\ AckOK(l, slot[i], acked[l])
    <2>1. m[l] # NoSlot /\ acked[l] = size
        BY <1>1, <1>11, SMTT(30) DEF Legacy
    <2>2. m[l] \in LogSlots /\ m[l] \in MappedSlots(m)
        BY <1>2, <2>1, PersistenceConstants, SMTT(30)
        DEF Mapping, LogSlots, mappingConfigSlot, MappedSlots
    <2>3. At(directory, l, m[l])
        BY <1>6, <2>2
    <2>4. slot[m[l]].data \in Encoded /\ slot[m[l]].data.size = size /\ slot[m[l]].doubt = {}
        BY <1>8, <2>2
    <2>5. slot[m[l]].data.log = l
        BY <1>1, <1>8, <2>1, <2>2, <2>4, SMTT(30) DEF Injective, Encoded
    <2>6. AckOK(l, slot[m[l]], acked[l])
        BY <1>3, <2>1, <2>4, <2>5, SMTT(30) DEF AckOK, Content
    <2> QED
        BY <2>2, <2>3, <2>6
<1>12. Stored(directory, slot, acked, lapsed)
    BY <1>5, <1>7, <1>9, <1>10, <1>11 DEF Stored
<1>13. Running
    <2>1. /\ up = FALSE /\ idToSlot = Unmapped /\ freeSlots = {} /\ directoryWriteToken = 0
          /\ proc = [p \in Procs |-> Idle]
        BY DEF Init
    <2>2. idToSlot \in Mapping
        BY <2>1 DEF Unmapped, Mapping
    <2>3. proc \in [Procs -> Call] /\ \A p \in Procs : proc[p].pc = "idle"
        BY <2>1, IdleType DEF Idle
    <2> QED
        BY <1>4, <2>1, <2>2, <2>3 DEF Running, MapOK, ProcOK
<1> QED
    BY <1>12, <1>13 DEF Inv
-----------------------------------------------------------------------------
LEMMA InitStutters ==
    ASSUME Inv, up, InitPersistence
    PROVE  UNCHANGED vars
<1>1. directory' = directory /\ populateMap(directory) /\ up' = TRUE /\ UNCHANGED <<slot, proc, history>>
    BY DEF InitPersistence, Inv, Running, MapOK
<1>2. idToSlot' = idToSlot
    <2>1. ASSUME NEW l \in Logs, directory.data # NoData, directory.data[l] # NoSlot
          PROVE  directory.data[l] = idToSlot[l]
        BY <2>1 DEF Inv, Running, MapOK, Maps, Extends
    <2>2. idToSlot' = [l \in Logs |-> idToSlot[l]]
        BY <1>1, <2>1 DEF populateMap
    <2> QED
        BY <2>2 DEF Inv, Running, Mapping
<1>3. freeSlots' = freeSlots /\ directoryWriteToken' = directoryWriteToken
    BY <1>1, <1>2 DEF populateMap, Inv, Running, MapOK
<1> QED
    BY <1>1, <1>2, <1>3 DEF vars, memory, Inv, Running

LEMMA StartInv ==
    ASSUME Inv, ~up, InitPersistence
    PROVE  Inv'
<1>1. PICK r \in Dir!Opened(directory) : directory' = r /\ populateMap(r)
    BY DEF InitPersistence, Inv, Running, MapOK
<1>2. up' = TRUE /\ UNCHANGED <<slot, proc, acked, lapsed>>
    BY DEF InitPersistence, history
<1>3. Stored(r, slot, acked, lapsed) /\ r.status = "open" /\ r.doubt = {}
    BY DirOpened DEF Inv
<1>4. DirOK(r) /\ r \in Dir!Register /\ (r.data # NoData => r.data \in Mapping /\ Sound(r.data))
    BY <1>3 DEF Stored, DirOK, Maps, Dir!Register
<1>5. idToSlot \in Mapping /\ \A l \in Logs : idToSlot[l] = NoSlot
    BY DEF Inv, Running, MapOK, Unmapped
<1>6. CASE r.data = NoData
    <2>1. idToSlot' = idToSlot
        BY <1>1, <1>5, <1>6 DEF populateMap, Mapping
    <2>2. Sound(idToSlot')
        BY <1>5, <2>1, SMTT(30) DEF Sound, Injective, NoSlot, mappingConfigSlot
    <2> QED
        BY <1>1, <1>2, <1>3, <1>4, <1>6, <2>1, <2>2
           DEF Inv, Running, MapOK, ProcOK, populateMap, Maps, Free, Dir!Register
<1>7. CASE r.data # NoData
    <2>1. idToSlot' = r.data
        BY <1>1, <1>4, <1>5, <1>7 DEF populateMap, Mapping
    <2>2. Sound(idToSlot') /\ idToSlot' \in Mapping /\ Extends(idToSlot', r.data)
        BY <1>4, <1>7, <2>1 DEF Extends
    <2> QED
        BY <1>1, <1>2, <1>3, <1>4, <1>7, <2>1, <2>2
           DEF Inv, Running, MapOK, ProcOK, populateMap, Maps, Free, Dir!Register
<1> QED
    BY <1>6, <1>7
-----------------------------------------------------------------------------
\* The steps of a goroutine that change nothing but its own record, or its slot.
LEMMA OwnStep ==
    ASSUME Inv, NEW p \in Procs, UNCHANGED <<directory, memory>>, up,
           Stored(directory, slot', acked', lapsed'), SlotsKept,
           NEW q \in Call, proc' = [proc EXCEPT ![p] = q], ProcOK(p)'
    PROVE  Inv'
<1>1. \A i \in LogSlots : slot'[i].rev \in Nat
    BY DEF Stored, SlotOK, Cps!Register
<1>2. /\ proc' \in [Procs -> Call]
      /\ \A o \in Procs : o # p => proc'[o] = proc[o]
    BY DEF Inv, Running
<1>3. Extends(idToSlot', idToSlot)
    BY DEF memory, Extends
<1>4. \A o \in Procs : ProcOK(o)'
    BY <1>1, <1>2, <1>3, ProcKept
<1>5. MapOK'
    BY DEF Inv, Running, MapOK, memory
<1> QED
    BY <1>2, <1>4, <1>5 DEF Inv, Running, memory

LEMMA SlotsUnchanged ==
    ASSUME UNCHANGED slot
    PROVE  SlotsKept
BY DEF SlotsKept

LEMMA UpInCall ==
    ASSUME Inv, NEW p \in Procs, proc[p].pc # "idle"
    PROVE  /\ up /\ ProcOK(p) /\ proc[p] \in Call
           /\ proc[p].log \in Logs /\ proc[p].idx \in LogSlots /\ proc[p].idx = idToSlot[proc[p].log]
           /\ slot[proc[p].idx] \in Cps!Register
<1>1. up
    BY DEF Inv, Running, MapOK
<1>2. ProcOK(p) /\ proc[p] \in Call
    BY DEF Inv, Running
<1>3. proc[p].log \in Logs /\ proc[p].idx \in LogSlots /\ proc[p].idx = idToSlot[proc[p].log]
    BY <1>2 DEF ProcOK
<1> QED
    BY <1>1, <1>2, <1>3, TypeFacts

LEMMA ReturnInv ==
    ASSUME Inv, NEW p \in Procs, proc[p].pc # "idle", Return(p),
           UNCHANGED <<directory, slot, memory, history>>
    PROVE  Inv'
<1>1. proc'[p] = Idle
    BY DEF Return, Inv, Running
<1>2. up /\ ProcOK(p)'
    BY <1>1, IdleOK, UpInCall
<1>3. Stored(directory, slot', acked', lapsed')
    BY DEF Inv, history
<1> QED
    BY <1>2, <1>3, IdleType, SlotsUnchanged, OwnStep DEF Return

LEMMA LogSlotKnownInv ==
    ASSUME Inv, NEW p \in Procs, NEW o \in {"latest", "update"}, NEW l \in Logs,
           LogSlotKnown(p, o, l)
    PROVE  Inv'
<1> DEFINE q == [Idle EXCEPT !.pc = "open", !.op = o, !.log = l, !.idx = idToSlot[l]]
<1>1. /\ up /\ idToSlot[l] # NoSlot /\ proc' = [proc EXCEPT ![p] = q]
      /\ UNCHANGED <<directory, slot, memory, history>>
    BY DEF LogSlotKnown, Enter
<1>2. idToSlot[l] \in LogSlots
    BY <1>1, OnlyOne
<1>3. q \in Call /\ q.pc = "open" /\ q.log = l /\ q.idx = idToSlot[l]
    BY <1>2 DEF Call, Idle
<1>4. proc'[p] = q /\ idToSlot' = idToSlot
    BY <1>1 DEF Inv, Running, memory
<1> HIDE DEF q
<1>5. ProcOK(p)'
    BY <1>2, <1>3, <1>4 DEF ProcOK
<1>6. Stored(directory, slot', acked', lapsed')
    BY <1>1 DEF Inv, history
<1> QED
    BY <1>1, <1>3, <1>5, <1>6, SlotsUnchanged, OwnStep

LEMMA OpenSlotInv ==
    ASSUME Inv, NEW p \in Procs, OpenSlot(p)
    PROVE  Inv'
<1> DEFINE i == proc[p].idx
           q == [proc[p] EXCEPT !.pc = "read"]
<1>1. /\ up /\ ProcOK(p) /\ proc[p] \in Call
      /\ proc[p].log \in Logs /\ i \in LogSlots /\ i = idToSlot[proc[p].log]
      /\ slot[i] \in Cps!Register
    BY UpInCall DEF OpenSlot
<1>2. PICK r \in IF slot[i].status = "open" THEN {slot[i]} ELSE Cps!Opened(slot[i]) :
         slot' = [slot EXCEPT ![i] = r]
    BY DEF OpenSlot
<1>3. UNCHANGED <<directory, memory, acked, lapsed>> /\ proc' = [proc EXCEPT ![p] = q]
    BY DEF OpenSlot, history
<1>4. q \in Call /\ q.pc = "read" /\ q.log = proc[p].log /\ q.idx = i
    BY <1>1 DEF Call
<1>5. proc'[p] = q /\ idToSlot' = idToSlot
    BY <1>3 DEF Inv, Running, memory
<1> HIDE DEF i, q
<1>6. CASE slot[i].status = "open"
    <2>1. slot' = slot
        BY <1>1, <1>2, <1>6, TypeFacts
    <2>2. ProcOK(p)'
        BY <1>1, <1>4, <1>5, <1>6, <2>1 DEF ProcOK
    <2>3. Stored(directory, slot', acked', lapsed')
        BY <1>3, <2>1 DEF Inv
    <2> QED
        BY <1>1, <1>3, <1>4, <2>1, <2>2, <2>3, SlotsUnchanged, OwnStep
<1>7. CASE slot[i].status # "open"
    <2>1. r \in Cps!Opened(slot[i])
        BY <1>2, <1>7
    <2>2. Stored(directory, slot', acked', lapsed') /\ r.status = "open"
        <3>1. Stored(directory, slot, acked, lapsed) /\ i \in LogSlots
            BY <1>1 DEF Inv
        <3>2. Stored(directory, [slot EXCEPT ![i] = r], acked, lapsed) /\ r.status = "open"
            BY <2>1, <3>1, SlotOpened
        <3> QED
            BY <1>2, <1>3, <3>2
    <2>3. slot'[i] = r /\ \A j \in LogSlots : j # i => slot'[j] = slot[j]
        BY <1>1, <1>2, TypeFacts
    <2>4. ProcOK(p)'
        BY <1>1, <1>4, <1>5, <2>2, <2>3 DEF ProcOK
    <2>5. SlotsKept
        BY <1>7, <2>3 DEF SlotsKept
    <2> QED
        BY <1>1, <1>3, <1>4, <2>2, <2>4, <2>5, OwnStep
<1> QED
    BY <1>6, <1>7

LEMMA ReadUpdateInv ==
    ASSUME Inv, NEW p \in Procs, ReadUpdate(p)
    PROVE  Inv'
<1> DEFINE i == proc[p].idx
           cp == unmarshalCheckpoint(slot[i].data)
           q == [proc[p] EXCEPT !.pc = "call", !.token = slot[i].rev, !.currCP = cp]
<1>1. /\ up /\ ProcOK(p) /\ proc[p] \in Call
      /\ proc[p].log \in Logs /\ i \in LogSlots /\ i = idToSlot[proc[p].log]
      /\ slot[i] \in Cps!Register
    BY UpInCall DEF ReadUpdate
<1>2. /\ UNCHANGED <<directory, slot, memory, history>> /\ proc[p].pc = "read"
      /\ proc' = [proc EXCEPT ![p] = q]
    BY DEF ReadUpdate
<1>3. cp \in Checkpoint \cup {NoData} /\ slot[i].rev \in Nat
    BY <1>1 DEF unmarshalCheckpoint, Cps!Register, Encoded, Checkpoint
<1>4. /\ q \in Call /\ q.pc = "call" /\ q.log = proc[p].log /\ q.idx = i
      /\ q.token = slot[i].rev /\ q.currCP = cp
    BY <1>1, <1>3 DEF Call
<1>5. proc'[p] = q /\ idToSlot' = idToSlot /\ slot' = slot
    BY <1>2 DEF Inv, Running, memory
<1>6. slot[i].status = "open"
    BY <1>1, <1>2 DEF ProcOK
<1>7. cp = unmarshalCheckpoint(slot[i].data)
    OBVIOUS
<1> HIDE DEF i, q, cp
<1>8. ProcOK(p)'
    BY <1>1, <1>3, <1>4, <1>5, <1>6, <1>7, SMTT(30) DEF ProcOK
<1>9. Stored(directory, slot', acked', lapsed')
    BY <1>2 DEF Inv, history
<1> QED
    BY <1>1, <1>2, <1>4, <1>8, <1>9, SlotsUnchanged, OwnStep

LEMMA fInv ==
    ASSUME Inv, NEW p \in Procs, f(p)
    PROVE  Inv'
<1>0. proc[p].pc = "call" /\ UNCHANGED <<directory, slot, memory, history>>
    BY DEF f
<1>1. CASE Return(p)
    BY <1>0, <1>1, ReturnInv
<1>2. ASSUME NEW cp \in Checkpoint, cp.log = proc[p].log,
             proc[p].currCP # NoData => proc[p].currCP.log = cp.log /\ cp.size > proc[p].currCP.size,
             proc' = [proc EXCEPT ![p].pc = "write", ![p].newCP = cp]
      PROVE  Inv'
    <2> DEFINE q == [proc[p] EXCEPT !.pc = "write", !.newCP = cp]
    <2>1. up /\ ProcOK(p) /\ proc[p] \in Call /\ proc[p].idx \in LogSlots
        BY <1>0, UpInCall
    <2>2. proc' = [proc EXCEPT ![p] = q]
        BY <1>2
    <2>3. /\ q \in Call /\ q.pc = "write" /\ q.log = proc[p].log /\ q.idx = proc[p].idx
          /\ q.token = proc[p].token /\ q.currCP = proc[p].currCP /\ q.newCP = cp
        BY <2>1 DEF Call
    <2>4. proc'[p] = q /\ idToSlot' = idToSlot /\ slot' = slot
        BY <1>0, <2>2 DEF Inv, Running, memory
    <2> HIDE DEF q
    <2>5. ProcOK(p)'
        BY <1>0, <1>2, <2>1, <2>3, <2>4 DEF ProcOK
    <2>6. Stored(directory, slot', acked', lapsed')
        BY <1>0 DEF Inv, history
    <2> QED
        BY <1>0, <2>1, <2>2, <2>3, <2>5, <2>6, SlotsUnchanged, OwnStep
<1> QED
    BY <1>1, <1>2 DEF f

LEMMA addLogInv ==
    ASSUME Inv, NEW p \in Procs, NEW l \in Logs, addLog(p, l)
    PROVE  Inv'
<1> DEFINE m == [idToSlot EXCEPT ![l] = FirstFree]
           ok == Fits(m) /\ directory.rev = directoryWriteToken
<1>1. up /\ proc[p].pc = "idle" /\ idToSlot[l] = NoSlot /\ freeSlots # {}
    BY DEF addLog
<1>2. /\ Stored(directory, slot, acked, lapsed) /\ directory \in Dir!Register
      /\ idToSlot \in Mapping /\ directoryWriteToken \in Nat /\ freeSlots \subseteq LogSlots
      /\ directory.status = "open" /\ directory.rev = directoryWriteToken
      /\ Sound(idToSlot) /\ freeSlots = LogSlots \ MappedSlots(idToSlot)
      /\ \A n \in Maps(directory) : Extends(idToSlot, n)
    BY <1>1, TypeFacts DEF Inv, Running, MapOK, Free
<1>3. FirstFree \in LogSlots /\ FirstFree \in freeSlots
    BY <1>1, <1>2, FirstFreeIsFree
<1>4. /\ m \in Mapping /\ m[l] = FirstFree /\ \A k \in Logs : k # l => m[k] = idToSlot[k]
      /\ FirstFree # NoSlot /\ FirstFree # mappingConfigSlot
      /\ \A k \in Logs : idToSlot[k] # FirstFree
    BY <1>2, <1>3, SMTT(30) DEF Mapping, LogSlots, NoSlot, mappingConfigSlot, MappedSlots
<1> HIDE DEF m
<1>5. Sound(m) /\ m # NoData
    BY <1>2, <1>4, PersistenceConstants DEF Sound, Injective
<1>6. Extends(m, idToSlot) /\ Extends(m, m) /\ \A n \in Maps(directory) : Extends(m, n)
    BY <1>1, <1>2, <1>4 DEF Extends
<1>7. directory.data # NoData => Extends(m, directory.data)
    BY <1>6 DEF Maps
<1>8. Free(m) = freeSlots \ {FirstFree}
    BY <1>1, <1>2, <1>4, SMTT(30) DEF Free, MappedSlots
<1>9. Stored(Dir!Attempted(directory, m), slot, acked, lapsed)
    BY <1>2, <1>4, <1>5, <1>7, DirAttempted
<1>10. ASSUME ok, PowerLoss(Dir!Attempted(directory, m), slot), UNCHANGED history
       PROVE  Inv'
    BY <1>9, <1>10, PowerLossInv DEF history
<1>11. ASSUME idToSlot' = m, freeSlots' = freeSlotsLeft, UNCHANGED <<up, slot, history>>,
              proc' \in [Procs -> Call], ProcOK(p)', \A o \in Procs : o # p => proc'[o] = proc[o],
              Stored(directory', slot, acked, lapsed), directory'.status = "open",
              directory'.rev = directoryWriteToken', directoryWriteToken' \in Nat,
              \A n \in Maps(directory') : Extends(m, n)
       PROVE  Inv'
    <2>1. MapOK'
        BY <1>1, <1>5, <1>8, <1>11 DEF MapOK, freeSlotsLeft, Free
    <2>2. \A i \in LogSlots : slot'[i].rev \in Nat
        BY <1>2, <1>11 DEF Stored, SlotOK, Cps!Register
    <2>3. \A o \in Procs : ProcOK(o)'
        BY <1>6, <1>11, <2>2, SlotsUnchanged, ProcKept
    <2>4. freeSlots' \subseteq LogSlots
        BY <1>2, <1>11 DEF freeSlotsLeft
    <2> QED
        BY <1>1, <1>4, <1>11, <2>1, <2>3, <2>4 DEF Inv, Running, history
<1>12. ASSUME idToSlot' = m, freeSlots' = freeSlotsLeft, UNCHANGED <<up, slot, history>>,
              directory' = Dir!Committed(directory, m), directoryWriteToken' = nextToken,
              Enter(p, "update", l, FirstFree)
       PROVE  Inv'
    <2> DEFINE q == [Idle EXCEPT !.pc = "open", !.op = "update", !.log = l, !.idx = FirstFree]
    <2>1. q \in Call /\ q.pc = "open" /\ q.log = l /\ q.idx = FirstFree
        BY <1>3 DEF Call, Idle
    <2>2. /\ proc' \in [Procs -> Call] /\ proc'[p] = q
          /\ \A o \in Procs : o # p => proc'[o] = proc[o]
        BY <1>12, <2>1 DEF Enter, Inv, Running
    <2> HIDE DEF q
    <2>3. ProcOK(p)'
        BY <1>3, <1>4, <1>12, <2>1, <2>2 DEF ProcOK
    <2>4. /\ directory' \in Dir!Register /\ directory'.doubt = {} /\ directory'.data = m
          /\ directory'.status = "open" /\ directory'.rev = directory.rev + 1
        BY <1>2, <1>4, <1>12, SMTT(30) DEF Dir!Committed, Dir!Register
    <2>5. Stored(directory', slot, acked, lapsed)
        BY <1>2, <1>5, <1>7, <2>4, DirCommitted
    <2>6. directory'.rev = directoryWriteToken' /\ directoryWriteToken' \in Nat
        BY <1>2, <1>12, <2>4, SMTT(30) DEF nextToken
    <2>7. \A n \in Maps(directory') : Extends(m, n)
        BY <1>6, <2>4 DEF Maps
    <2> QED
        BY <1>11, <1>12, <2>2, <2>3, <2>4, <2>5, <2>6, <2>7
<1>13. ASSUME idToSlot' = m, freeSlots' = freeSlotsLeft, UNCHANGED <<up, slot, history>>,
              directory' \in {directory, Dir!Attempted(directory, m)},
              UNCHANGED <<directoryWriteToken, proc>>
       PROVE  Inv'
    <2>1. /\ directory'.status = "open" /\ directory'.rev = directory.rev
          /\ directory'.data = directory.data /\ directory'.doubt \subseteq directory.doubt \cup {m}
        BY <1>2, <1>13 DEF Dir!Attempted, Dir!Register
    <2>2. Stored(directory', slot, acked, lapsed)
        BY <1>2, <1>9, <1>13
    <2>3. \A n \in Maps(directory') : Extends(m, n)
        BY <1>6, <2>1 DEF Maps
    <2>4. proc' \in [Procs -> Call] /\ ProcOK(p)'
        BY <1>1, <1>13 DEF Inv, Running, ProcOK
    <2> QED
        BY <1>2, <1>11, <1>13, <2>1, <2>2, <2>3, <2>4
<1> QED
    BY <1>10, <1>12, <1>13 DEF addLog, m

\* A stored checkpoint decodes to one of the same log and size.
LEMMA DecodedIsStored ==
    ASSUME NEW b \in Encoded
    PROVE  /\ unmarshalCheckpoint(b) # NoData
           /\ unmarshalCheckpoint(b).log = b.log /\ unmarshalCheckpoint(b).size = b.size
<1>1. b # NoData /\ unmarshalCheckpoint(b) = [log |-> b.log, size |-> b.size]
    BY PersistenceConstants DEF unmarshalCheckpoint
<1>2. [log |-> b.log, size |-> b.size] \in Checkpoint
    BY SMTT(30) DEF Checkpoint, Encoded
<1> QED
    BY <1>1, <1>2, PersistenceConstants, SMTT(30)

\* A slot for checkpoints has a number.
LEMMA SlotNumbered ==
    ASSUME NEW i \in LogSlots
    PROVE  i # NoSlot
    BY PersistenceConstants, SMTT(30) DEF LogSlots, NoSlot

\* An Update whose token is still valid may write, and this is what it leaves.
LEMMA MayWriteNow ==
    ASSUME Inv, NEW p \in Procs, CheckAndWrite(p), TokenValid(p)
    PROVE  LET i == proc[p].idx
               l == proc[p].log
               b == marshalCheckpoint(proc[p].newCP)
           IN  /\ l \in Logs /\ i \in LogSlots /\ MayWrite(l, i, b, directory, slot[i])
               /\ lapsed' = LapsedAfter(l, directory, lapsed)
               /\ Stored(directory, [slot EXCEPT ![i] = Cps!Attempted(@, b)], acked, lapsed')
               /\ Stored(directory, [slot EXCEPT ![i] = Cps!Committed(@, b)],
                         [acked EXCEPT ![l] = Max2(@, b.size)], lapsed')
<1> DEFINE i == proc[p].idx
           l == proc[p].log
           b == marshalCheckpoint(proc[p].newCP)
<1>1. /\ up /\ ProcOK(p) /\ proc[p].pc = "write"
      /\ l \in Logs /\ i \in LogSlots /\ i = idToSlot[l] /\ slot[i] \in Cps!Register
    BY UpInCall DEF CheckAndWrite
<1>2. /\ i # NoSlot /\ \A k \in Logs : At(directory, k, i) => k = l
      /\ directory.data # NoData => directory.data[l] \in {i, NoSlot}
    <2>1. i # NoSlot
        BY <1>1, SlotNumbered
    <2> QED
        BY <1>1, <2>1, OnlyOne
<1>3. /\ proc[p].newCP \in Checkpoint /\ proc[p].newCP.log = l
      /\ slot[i].data # NoData => slot[i].data.log = l /\ proc[p].newCP.size > slot[i].data.size
    <2>1. /\ proc[p].newCP \in Checkpoint /\ proc[p].newCP.log = l
          /\ proc[p].currCP = unmarshalCheckpoint(slot[i].data)
          /\ proc[p].currCP # NoData =>
                proc[p].currCP.log = l /\ proc[p].newCP.size > proc[p].currCP.size
        BY <1>1 DEF ProcOK, TokenValid
    <2>2. slot[i].data # NoData => slot[i].data \in Encoded
        BY <1>1, SMTT(30) DEF Cps!Register
    <2> QED
        BY <2>1, <2>2, DecodedIsStored
<1>4. b \in Encoded /\ b.log = l /\ b.size = proc[p].newCP.size
    BY <1>3 DEF marshalCheckpoint, Encoded, Checkpoint
<1>5. lapsed' = LapsedAfter(l, directory, lapsed)
    BY DEF CheckAndWrite, LapsedAfter, Listed
<1> HIDE DEF b
<1>6. MayWrite(l, i, b, directory, slot[i])
    BY <1>2, <1>3, <1>4 DEF MayWrite
<1>7. Stored(directory, [slot EXCEPT ![i] = Cps!Attempted(@, b)], acked, lapsed')
    BY <1>1, <1>2, <1>5, <1>6, SlotAttempted DEF Inv
<1>8. Stored(directory, [slot EXCEPT ![i] = Cps!Committed(@, b)],
             [acked EXCEPT ![l] = Max2(@, b.size)], lapsed')
    BY <1>1, <1>2, <1>5, <1>6, SlotCommitted DEF Inv
<1> QED
    BY <1>1, <1>5, <1>6, <1>7, <1>8 DEF b

LEMMA CheckAndWriteInv ==
    ASSUME Inv, NEW p \in Procs, CheckAndWrite(p)
    PROVE  Inv'
<1> DEFINE i == proc[p].idx
           l == proc[p].log
           b == marshalCheckpoint(proc[p].newCP)
<1>1. up /\ proc[p].pc = "write" /\ i \in LogSlots /\ slot[i] \in Cps!Register
    BY UpInCall DEF CheckAndWrite
<1>2. CASE ~TokenValid(p)
    BY <1>1, <1>2, ReturnInv DEF CheckAndWrite
<1>3. CASE TokenValid(p)
    <2> HIDE DEF b
    <2> DEFINE att == [slot EXCEPT ![i] = Cps!Attempted(@, b)]
               com == [slot EXCEPT ![i] = Cps!Committed(@, b)]
    <2>6. Stored(directory, att, acked, lapsed')
        BY <1>3, MayWriteNow DEF b
    <2>7. Stored(directory, com, [acked EXCEPT ![l] = Max2(@, b.size)], lapsed')
        BY <1>3, MayWriteNow DEF b
    <2>8. CASE slot' = com /\ acked' = [acked EXCEPT ![l] = Max2(@, b.size)]
               /\ Return(p) /\ UNCHANGED <<directory, memory>>
        <3>1. slot'[i].status = "open" /\ slot'[i].rev = slot[i].rev + 1
              /\ \A j \in LogSlots : j # i => slot'[j] = slot[j]
            BY <1>1, <2>8, TypeFacts DEF Cps!Committed
        <3>2. SlotsKept
            BY <1>1, <3>1, SMTT(30) DEF SlotsKept, Cps!Register
        <3>3. ProcOK(p)'
            BY <2>8, IdleOK DEF Return, Inv, Running
        <3> QED
            BY <1>1, <2>7, <2>8, <3>2, <3>3, IdleType, OwnStep DEF Return
    <2>9. CASE slot' = att /\ Return(p) /\ UNCHANGED <<directory, memory, acked>>
        <3>1. slot'[i].status = slot[i].status /\ slot'[i].rev = slot[i].rev
              /\ slot'[i].data = slot[i].data
              /\ \A j \in LogSlots : j # i => slot'[j] = slot[j]
            BY <1>1, <2>9, TypeFacts DEF Cps!Attempted, Cps!Register
        <3>2. SlotsKept
            BY <1>1, <3>1 DEF SlotsKept
        <3>3. ProcOK(p)'
            BY <2>9, IdleOK DEF Return, Inv, Running
        <3> QED
            BY <1>1, <2>6, <2>9, <3>2, <3>3, IdleType, OwnStep DEF Return
    <2>10. CASE PowerLoss(directory, att) /\ UNCHANGED acked
        BY <2>6, <2>10, PowerLossInv
    <2> QED
        BY <1>3, <2>8, <2>9, <2>10 DEF CheckAndWrite, b
<1> QED
    BY <1>2, <1>3

LEMMA InvNext ==
    ASSUME Inv, [Next]_vars
    PROVE  Inv'
<1>1. CASE InitPersistence
    <2>1. CASE up
        BY <1>1, <2>1, InitStutters DEF vars, memory, history, Inv, Running, MapOK, ProcOK
    <2>2. CASE ~up
        BY <1>1, <2>2, StartInv
    <2> QED
        BY <2>1, <2>2
<1>2. CASE Crash
    BY <1>2, PowerLossInv DEF Crash, Inv, history
<1>3. ASSUME NEW p \in Procs, ReadLatest(p) PROVE Inv'
    BY <1>3, ReturnInv DEF ReadLatest
<1>4. CASE UNCHANGED vars
    BY <1>4 DEF vars, memory, history, Inv, Running, MapOK, ProcOK
<1> QED
    BY <1>1, <1>2, <1>3, <1>4, LogSlotKnownInv, addLogInv, OpenSlotInv, ReadUpdateInv, fInv,
       CheckAndWriteInv DEF Next
-----------------------------------------------------------------------------
\* Type correctness.
THEOREM TypeCorrect == Spec => []TypeOK
BY TypeFacts, InitInv, InvNext, PTL DEF Spec

(***************************************************************************)
(* Two logs never share a slot, in the map or in any directory that a      *)
(* restart may find, and free slots are free (persistence.go:229-244).     *)
(***************************************************************************)
THEOREM SlotsNotShared == Spec => []OneLogPerSlot
<1>1. Inv => OneLogPerSlot
    <2> SUFFICES ASSUME Inv PROVE OneLogPerSlot
        OBVIOUS
    <2>1. \A m \in Maps(directory) : Sound(m)
        BY DEF Inv, Stored, DirOK
    <2>2. up => Injective(idToSlot) /\ freeSlots = Free(idToSlot)
        BY DEF Inv, Running, MapOK, Sound
    <2> QED
        BY <2>1, <2>2 DEF OneLogPerSlot, Maps, Sound, Free, MappedSlots
<1> QED
    BY <1>1, InitInv, InvNext, PTL DEF Spec

(***************************************************************************)
(* A slot in the map has only checkpoints of its log, or of logs that were *)
(* written to while the directory did not list them (persistence.go:276).  *)
(***************************************************************************)
THEOREM SlotIsOwn == Spec => []SlotHoldsOwnLog
<1>1. Inv => SlotHoldsOwnLog
    <2> SUFFICES ASSUME Inv, NEW l \in Logs, idToSlot[l] # NoSlot,
                        NEW b \in Content(slot[idToSlot[l]])
                 PROVE  b.log = l \/ b.log \in lapsed
        BY DEF SlotHoldsOwnLog, Content
    <2>1. up
        BY DEF Inv, Running, MapOK, Unmapped
    <2>2. idToSlot[l] \in LogSlots /\ \A k \in Logs : At(directory, k, idToSlot[l]) => k = l
        BY <2>1, OnlyOne
    <2>3. SlotOK(idToSlot[l], directory, slot[idToSlot[l]], lapsed)
        BY <2>2 DEF Inv, Stored
    <2>4. b.log \in Logs
        BY <2>3 DEF SlotOK, Content, Cps!Register, Encoded
    <2> QED
        BY <2>2, <2>3, <2>4 DEF SlotOK
<1> QED
    BY <1>1, InitInv, InvNext, PTL DEF Spec

\* The token for the directory is the one that slot 0 accepts (persistence.go:258).
THEOREM TokenInStep == Spec => []DirectoryTokenInStep
<1>1. Inv => DirectoryTokenInStep
    BY DEF Inv, Running, MapOK, DirectoryTokenInStep
<1> QED
    BY <1>1, InitInv, InvNext, PTL DEF Spec

(***************************************************************************)
(* What Update has acknowledged, a running applet serves, whatever resets, *)
(* failed writes and concurrent updates there were (persistence.go:132).   *)
(***************************************************************************)
THEOREM AcknowledgedIsServed == Spec => []AckedIsServed
<1>1. Inv => AckedIsServed
    <2> SUFFICES ASSUME Inv, up, NEW l \in Logs \ lapsed, acked[l] > 0 PROVE Served(l)
        BY DEF AckedIsServed
    <2>1. PICK i \in LogSlots : At(directory, l, i) /\ AckOK(l, slot[i], acked[l])
        BY DEF Inv, Stored
    <2>2. idToSlot[l] = i
        BY <2>1, SMTT(30) DEF Inv, Running, MapOK, Maps, Extends, At, LogSlots, NoSlot
    <2> QED
        BY <2>1, <2>2, SMTT(30) DEF Served, AckOK, Content, LogSlots, NoSlot
<1> QED
    BY <1>1, InitInv, InvNext, PTL DEF Spec

\* Init, called while the persistence is in use, changes nothing (persistence.go:84).
THEOREM InitIsIdempotent == Spec => InitIdempotent
<1>1. Inv /\ [Next]_vars => [up /\ InitPersistence => UNCHANGED vars]_vars
    BY InitStutters
<1> QED
    BY <1>1, InitInv, InvNext, PTL DEF Spec, InitIdempotent

(***************************************************************************)
(* The checkpoint that an Update replaces is the one its f was shown, for  *)
(* any number of goroutines (slots.go:192).                                *)
(***************************************************************************)
THEOREM NothingIsLost == Spec => NoLostUpdate
<1> DEFINE Replaced(p) == /\ proc[p].pc = "write" /\ proc'[p].pc = "idle"
                          /\ slot'[proc[p].idx].rev # slot[proc[p].idx].rev
           Shown(p) == unmarshalCheckpoint(slot[proc[p].idx].data) = proc[p].currCP
<1>1. ASSUME Inv, Next, NEW p \in Procs, Replaced(p) PROVE Shown(p)
    <2> DEFINE i == proc[p].idx
    <2>1. /\ ProcOK(p) /\ i \in LogSlots /\ slot[i].status = "open"
          /\ slot \in [LogSlots -> Cps!Register] /\ proc \in [Procs -> Call]
        BY <1>1, UpInCall, TypeFacts DEF ProcOK, Inv, Running
    <2>2. ASSUME NEW d, NEW s, PowerLoss(d, s), s[i].rev = slot[i].rev, s[i] \in Cps!Register
          PROVE  FALSE
        BY <1>1, <2>1, <2>2 DEF PowerLoss, Cps!Closed, Cps!Register
    <2>3. CASE UNCHANGED slot
        BY <1>1, <2>3
    <2>4. CASE Crash
        BY <2>1, <2>2, <2>4 DEF Crash
    <2>5. ASSUME NEW o \in Procs, NEW l \in Logs, addLog(o, l) PROVE FALSE
        BY <1>1, <2>1, <2>2, <2>5 DEF addLog
    <2>6. ASSUME NEW o \in Procs, OpenSlot(o) PROVE FALSE
        BY <1>1, <2>1, <2>6 DEF OpenSlot
    <2>7. ASSUME NEW o \in Procs, CheckAndWrite(o) PROVE Shown(p)
        <3>1. CASE ~TokenValid(o)
            BY <1>1, <2>7, <3>1 DEF CheckAndWrite
        <3>2. CASE TokenValid(o) /\ o = p
            BY <1>1, <2>1, <3>2 DEF TokenValid, ProcOK
        <3>3. CASE TokenValid(o) /\ o # p
            <4>1. ASSUME Return(o) PROVE FALSE
                BY <1>1, <2>1, <3>3, <4>1 DEF Return
            <4> DEFINE att == [slot EXCEPT ![proc[o].idx] =
                                   Cps!Attempted(@, marshalCheckpoint(proc[o].newCP))]
            <4>2. ASSUME PowerLoss(directory, att) PROVE FALSE
                <5>1. PowerLoss(directory, att) => slot'[i] = Cps!Closed(att[i])
                    BY <2>1 DEF PowerLoss
                <5>2. att[i] \in {slot[i], Cps!Attempted(slot[i], marshalCheckpoint(proc[o].newCP))}
                    BY <2>1
                <5>3. Cps!Closed(att[i]).rev = slot[i].rev
                    BY <2>1, <5>2 DEF Cps!Closed, Cps!Attempted, Cps!Register
                <5> QED
                    BY <1>1, <4>2, <5>1, <5>3
            <4> QED
                BY <2>7, <3>3, <4>1, <4>2 DEF CheckAndWrite
        <3> QED
            BY <3>1, <3>2, <3>3
    <2> QED
        BY <1>1, <2>3, <2>4, <2>5, <2>6, <2>7
           DEF Next, InitPersistence, LogSlotKnown, ReadLatest, ReadUpdate, f
<1>2. Inv /\ [Next]_vars => [\A p \in Procs : Replaced(p) => Shown(p)]_vars
    BY <1>1
<1> QED
    BY <1>2, InitInv, InvNext, PTL DEF Spec, NoLostUpdate
-----------------------------------------------------------------------------
(***************************************************************************)
(* The slots are used as the registers they are.  Together with the        *)
(* refinement of SlotRegister by Journal this is what lets the two modules *)
(* be read as one system: the persistence never writes to a slot that it   *)
(* does not hold open, and never opens one that is open.                   *)
(*                                                                         *)
(* A step takes a register from r to t: it leaves it alone, opens it,      *)
(* closes it, or begins a write of d that succeeds, fails, or is cut off   *)
(* by a reset.                                                             *)
(***************************************************************************)
RegisterMoves(r, t, D) ==
    \/ t = r
    \/ r.status = "closed" /\ t \in Cps!Opened(r)
    \/ t = Cps!Closed(r)
    \/ /\ r.status = "open"
       /\ \E d \in D : t \in {Cps!Attempted(r, d), Cps!Committed(r, d),
                              Cps!Closed(Cps!Attempted(r, d))}

SlotsMove == /\ RegisterMoves(directory, directory', Mapping)
             /\ \A i \in LogSlots : RegisterMoves(slot[i], slot'[i], Encoded)

LEMMA PowerLossMoves ==
    ASSUME NEW d, NEW s, PowerLoss(d, s)
    PROVE  /\ directory' = Cps!Closed(d)
           /\ \A i \in LogSlots : slot'[i] = Cps!Closed(s[i])
BY DEF PowerLoss, Dir!Closed, Cps!Closed

LEMMA addLogMoves ==
    ASSUME Inv, NEW p \in Procs, NEW l \in Logs, addLog(p, l)
    PROVE  SlotsMove
<1> DEFINE m == [idToSlot EXCEPT ![l] = FirstFree]
<1>1. /\ up /\ freeSlots # {} /\ freeSlots \subseteq LogSlots /\ idToSlot \in Mapping
      /\ directory.status = "open"
    BY DEF addLog, Inv, Running, MapOK
<1>2. FirstFree \in LogSlots
    BY <1>1, FirstFreeIsFree
<1>3. m \in Mapping
    BY <1>1, <1>2, SMTT(30) DEF Mapping, LogSlots
<1>4. \/ UNCHANGED slot /\ directory' \in {directory, Dir!Attempted(directory, m),
                                           Dir!Committed(directory, m)}
      \/ PowerLoss(Dir!Attempted(directory, m), slot)
    BY DEF addLog
<1> HIDE DEF m
<1>5. /\ Dir!Attempted(directory, m) = Cps!Attempted(directory, m)
      /\ Dir!Committed(directory, m) = Cps!Committed(directory, m)
    BY DEF Dir!Attempted, Dir!Committed, Cps!Attempted, Cps!Committed
<1>6. CASE UNCHANGED slot /\ directory' \in {directory, Dir!Attempted(directory, m),
                                             Dir!Committed(directory, m)}
    BY <1>1, <1>3, <1>5, <1>6 DEF SlotsMove, RegisterMoves
<1>7. CASE PowerLoss(Dir!Attempted(directory, m), slot)
    BY <1>1, <1>3, <1>5, <1>7, PowerLossMoves DEF SlotsMove, RegisterMoves
<1> QED
    BY <1>4, <1>6, <1>7

LEMMA OpenSlotMoves ==
    ASSUME Inv, NEW p \in Procs, OpenSlot(p)
    PROVE  SlotsMove
<1> DEFINE i == proc[p].idx
<1>1. /\ i \in LogSlots /\ slot[i] \in Cps!Register /\ DOMAIN slot = LogSlots
      /\ directory' = directory
    BY UpInCall, TypeFacts DEF OpenSlot
<1>2. PICK r \in IF slot[i].status = "open" THEN {slot[i]} ELSE Cps!Opened(slot[i]) :
             slot' = [slot EXCEPT ![i] = r]
    BY DEF OpenSlot
<1>3. slot[i].status # "open" => slot[i].status = "closed"
    BY <1>1 DEF Cps!Register
<1>4. RegisterMoves(slot[i], r, Encoded)
    BY <1>2, <1>3 DEF RegisterMoves
<1>5. \A j \in LogSlots : slot'[j] = IF j = i THEN r ELSE slot[j]
    BY <1>1, <1>2
<1> QED
    BY <1>1, <1>4, <1>5 DEF SlotsMove, RegisterMoves

LEMMA CheckAndWriteMoves ==
    ASSUME Inv, NEW p \in Procs, CheckAndWrite(p)
    PROVE  SlotsMove
<1> DEFINE i == proc[p].idx
           b == marshalCheckpoint(proc[p].newCP)
           att == Cps!Attempted(slot[i], b)
           com == Cps!Committed(slot[i], b)
<1>1. /\ i \in LogSlots /\ DOMAIN slot = LogSlots /\ slot[i].status = "open"
      /\ proc[p].newCP \in Checkpoint
    BY UpInCall, TypeFacts DEF CheckAndWrite, ProcOK
<1>2. b \in Encoded
    BY <1>1 DEF marshalCheckpoint, Encoded, Checkpoint
<1>3. \/ UNCHANGED <<directory, slot>>
      \/ directory' = directory /\ slot' = [slot EXCEPT ![i] = com]
      \/ directory' = directory /\ slot' = [slot EXCEPT ![i] = att]
      \/ PowerLoss(directory, [slot EXCEPT ![i] = att])
    BY DEF CheckAndWrite
<1> HIDE DEF b
<1>4. /\ RegisterMoves(slot[i], com, Encoded) /\ RegisterMoves(slot[i], att, Encoded)
      /\ RegisterMoves(slot[i], Cps!Closed(att), Encoded)
    BY <1>1, <1>2 DEF RegisterMoves
<1>5. \A r : RegisterMoves(directory, directory, r) /\ RegisterMoves(directory, Cps!Closed(directory), r)
    BY DEF RegisterMoves
<1>6. \A j \in LogSlots : /\ RegisterMoves(slot[j], slot[j], Encoded)
                          /\ RegisterMoves(slot[j], Cps!Closed(slot[j]), Encoded)
    BY DEF RegisterMoves
<1> HIDE DEF att, com
<1>7. ASSUME NEW r PROVE \A j \in LogSlots : [slot EXCEPT ![i] = r][j] = IF j = i THEN r ELSE slot[j]
    BY <1>1
<1>8. CASE UNCHANGED <<directory, slot>>
    BY <1>5, <1>6, <1>8 DEF SlotsMove
<1>9. CASE directory' = directory /\ slot' = [slot EXCEPT ![i] = com]
    BY <1>4, <1>5, <1>6, <1>7, <1>9 DEF SlotsMove
<1>10. CASE directory' = directory /\ slot' = [slot EXCEPT ![i] = att]
    BY <1>4, <1>5, <1>6, <1>7, <1>10 DEF SlotsMove
<1>11. CASE PowerLoss(directory, [slot EXCEPT ![i] = att])
    <2>1. /\ directory' = Cps!Closed(directory)
          /\ \A j \in LogSlots : slot'[j] = Cps!Closed([slot EXCEPT ![i] = att][j])
        BY <1>11, PowerLossMoves
    <2>2. ASSUME NEW j \in LogSlots PROVE RegisterMoves(slot[j], slot'[j], Encoded)
        <3>1. CASE j = i
            BY <1>4, <1>7, <2>1, <3>1
        <3>2. CASE j # i
            <4>1. [slot EXCEPT ![i] = att][j] = slot[j]
                BY <1>1, <3>2
            <4> QED
                BY <1>6, <2>1, <4>1
        <3> QED
            BY <3>1, <3>2
    <2> QED
        BY <1>5, <2>1, <2>2 DEF SlotsMove
<1> QED
    BY <1>3, <1>8, <1>9, <1>10, <1>11

\* Every step moves the directory and each slot as a register, and none other
\* (slots.go:145-199, persistence.go:84-287).
THEOREM SlotsUsedAsRegisters == Spec => [][SlotsMove]_vars
<1>1. ASSUME Inv, Next PROVE SlotsMove
    <2>1. CASE UNCHANGED <<directory, slot>>
        BY <2>1 DEF SlotsMove, RegisterMoves
    <2>2. CASE InitPersistence
        <3>1. directory.status # "open" => directory.status = "closed"
            BY <1>1 DEF Inv, Running, MapOK
        <3>2. Dir!Opened(directory) = Cps!Opened(directory)
            BY DEF Dir!Opened, Cps!Opened, Dir!Committed, Cps!Committed
        <3> QED
            BY <2>2, <3>1, <3>2 DEF InitPersistence, SlotsMove, RegisterMoves
    <2>3. CASE Crash
        BY <2>3, PowerLossMoves DEF Crash, SlotsMove, RegisterMoves
    <2> QED
        BY <1>1, <2>1, <2>2, <2>3, addLogMoves, OpenSlotMoves, CheckAndWriteMoves
           DEF Next, LogSlotKnown, ReadLatest, ReadUpdate, f
<1>2. Inv /\ [Next]_vars => [SlotsMove]_vars
    BY <1>1
<1> QED
    BY <1>2, InitInv, InvNext, PTL DEF Spec
-----------------------------------------------------------------------------
(***************************************************************************)
(* The refinement of CheckpointStore.  What the store holds can be read    *)
(* off the device alone: a log that is in the map but not in the directory *)
(* has no checkpoint in its slot, or it has lapsed.                        *)
(***************************************************************************)
Val(d, s, a, L) ==
    [l \in Logs |->
       IF l \in L THEN a[l]
       ELSE IF d.data # NoData /\ d.data[l] # NoSlot /\ HoldsOwn(l, s[d.data[l]].data)
            THEN s[d.data[l]].data.size ELSE 0]

LEMMA ValIn ==
    ASSUME NEW d, NEW s, NEW a, NEW L, Stored(d, s, a, L), NEW l \in Logs
    PROVE  /\ l \in L => Val(d, s, a, L)[l] = a[l] /\ a[l] \in Nat
           /\ l \notin L =>
                \/ \E i \in LogSlots :
                      /\ At(d, l, i) /\ HoldsOwn(l, s[i].data)
                      /\ Val(d, s, a, L)[l] = s[i].data.size /\ s[i].data.size \in Nat
                \/ /\ \A i \in LogSlots : ~HoldsOwn(l, s[i].data)
                   /\ Val(d, s, a, L)[l] = 0
<1>1. l \in L => Val(d, s, a, L)[l] = a[l] /\ a[l] \in Nat
    BY SMTT(30) DEF Val, Stored
<1>2. d.data # NoData /\ d.data[l] # NoSlot => d.data[l] \in LogSlots
    BY PersistenceConstants, SMTT(30)
       DEF Stored, DirOK, Maps, Sound, Dir!Register, Mapping, LogSlots, mappingConfigSlot
<1>3. ASSUME l \notin L, NEW i \in LogSlots, HoldsOwn(l, s[i].data)
      PROVE  At(d, l, i) /\ i # NoSlot /\ s[i].data.size \in Nat
    <2>1. SlotOK(i, d, s[i], L)
        BY DEF Stored
    <2> QED
        BY <1>3, <2>1, SMTT(30) DEF SlotOK, Content, HoldsOwn, LogSlots, NoSlot, Cps!Register, Encoded
<1>4. CASE l \notin L /\ d.data # NoData /\ d.data[l] # NoSlot /\ HoldsOwn(l, s[d.data[l]].data)
    BY <1>2, <1>3, <1>4 DEF Val
<1>5. CASE l \notin L /\ ~(d.data # NoData /\ d.data[l] # NoSlot /\ HoldsOwn(l, s[d.data[l]].data))
    <2>1. Val(d, s, a, L)[l] = 0
        BY <1>5 DEF Val
    <2>2. \A i \in LogSlots : ~HoldsOwn(l, s[i].data)
        BY <1>3, <1>5 DEF At
    <2> QED
        BY <1>5, <2>1, <2>2
<1> QED
    BY <1>1, <1>4, <1>5

LEMMA ValType ==
    ASSUME NEW d, NEW s, NEW a, NEW L, Stored(d, s, a, L)
    PROVE  Val(d, s, a, L) \in [Logs -> Nat]
<1>1. \A l \in Logs : Val(d, s, a, L)[l] \in Nat
    BY ValIn, SMTT(30)
<1> QED
    BY <1>1 DEF Val

\* Only what the slots have matters, not the directory or what is in doubt.
LEMMA ValSame ==
    ASSUME NEW d, NEW s, NEW c, NEW t, NEW a, NEW L, Stored(d, s, a, L), Stored(c, t, a, L),
           \A i \in LogSlots : t[i].data = s[i].data
    PROVE  Val(c, t, a, L) = Val(d, s, a, L)
<1>1. ASSUME NEW l \in Logs PROVE Val(c, t, a, L)[l] = Val(d, s, a, L)[l]
    <2>1. CASE l \in L
        BY <2>1 DEF Val
    <2>2. ASSUME l \notin L, NEW i \in LogSlots, HoldsOwn(l, s[i].data)
          PROVE  Val(d, s, a, L)[l] = s[i].data.size /\ Val(c, t, a, L)[l] = s[i].data.size
        <3>1. Val(d, s, a, L)[l] = s[i].data.size
            <4>1. SlotOK(i, d, s[i], L)
                BY DEF Stored
            <4> QED
                BY <2>2, <4>1, SMTT(30) DEF Val, SlotOK, Content, HoldsOwn, At, LogSlots, NoSlot
        <3>2. Val(c, t, a, L)[l] = t[i].data.size
            <4>1. SlotOK(i, c, t[i], L)
                BY DEF Stored
            <4> QED
                BY <2>2, <4>1, SMTT(30) DEF Val, SlotOK, Content, HoldsOwn, At, LogSlots, NoSlot
        <3> QED
            BY <3>1, <3>2
    <2>3. CASE l \notin L /\ \A i \in LogSlots : ~HoldsOwn(l, s[i].data)
        BY <2>3, ValIn, SMTT(30)
    <2> QED
        BY <2>1, <2>2, <2>3, SMTT(30)
<1> QED
    BY <1>1 DEF Val

\* One log may have grown.
Grown(v, w) == w = v \/ \E l \in Logs : w[l] > v[l] /\ w = [v EXCEPT ![l] = w[l]]

LEMMA OneGrows ==
    ASSUME NEW v \in [Logs -> Nat], NEW w \in [Logs -> Nat], NEW l \in Logs,
           \A k \in Logs : k # l => w[k] = v[k], w[l] >= v[l]
    PROVE  Grown(v, w)
<1>1. w = [v EXCEPT ![l] = w[l]]
    OBVIOUS
<1>2. CASE w[l] = v[l]
    BY <1>1, <1>2 DEF Grown
<1>3. CASE w[l] > v[l]
    BY <1>1, <1>3 DEF Grown
<1> QED
    BY <1>2, <1>3, SMTT(30)

\* Slot i changes, to a checkpoint of log l.
LEMMA ValSlot ==
    ASSUME NEW d, NEW s, NEW t, NEW a, NEW e, NEW L, NEW M, Stored(d, s, a, L), Stored(d, t, e, M),
           NEW i \in LogSlots, NEW l \in Logs, \A j \in LogSlots : j # i => t[j] = s[j],
           \A k \in Logs : k # l => e[k] = a[k] /\ (k \in L <=> k \in M),
           s[i].data # NoData => s[i].data.log = l,
           t[i].data # NoData => t[i].data.log = l,
           l \in L => l \in M /\ e[l] >= a[l],
           l \in M \ L => ~(d.data # NoData /\ d.data[l] # NoSlot),
           s[i].data # NoData => t[i].data # NoData /\ t[i].data.size >= s[i].data.size
    PROVE  Grown(Val(d, s, a, L), Val(d, t, e, M))
<1> DEFINE v == Val(d, s, a, L)
           w == Val(d, t, e, M)
<1>1. v \in [Logs -> Nat] /\ w \in [Logs -> Nat]
    BY ValType
<1>2. ASSUME NEW k \in Logs, k # l PROVE w[k] = v[k]
    <2>1. CASE k \in L
        BY <1>2, <2>1 DEF Val
    <2>2. CASE k \notin L /\ d.data # NoData /\ d.data[k] # NoSlot
        <3>1. d.data[k] \in LogSlots
            BY <2>2, PersistenceConstants, SMTT(30)
               DEF Stored, DirOK, Maps, Sound, Dir!Register, Mapping, LogSlots, mappingConfigSlot
        <3>2. CASE d.data[k] = i
            BY <1>2, <2>2, <3>2 DEF Val, HoldsOwn
        <3>3. CASE d.data[k] # i
            BY <1>2, <2>2, <3>1, <3>3 DEF Val
        <3> QED
            BY <3>2, <3>3
    <2>3. CASE k \notin L /\ ~(d.data # NoData /\ d.data[k] # NoSlot)
        BY <1>2, <2>3 DEF Val
    <2> QED
        BY <2>1, <2>2, <2>3
<1>3. w[l] >= v[l]
    <2>1. CASE l \in L
        BY <2>1 DEF Val
    <2>2. CASE v[l] = 0
        <3>1. w[l] \in Nat
            BY <1>1
        <3> QED
            BY <2>2, <3>1, SMTT(30)
    <2>3. CASE l \notin M /\ v[l] # 0
        <3>1. l \notin L
            BY <2>3
        <3>2. PICK j \in LogSlots :
                 /\ At(d, l, j) /\ HoldsOwn(l, s[j].data)
                 /\ v[l] = s[j].data.size /\ s[j].data.size \in Nat
            BY <2>3, <3>1, ValIn, SMTT(30)
        <3>3. d.data # NoData /\ d.data[l] = j /\ j # NoSlot
            BY <3>2, SMTT(30) DEF At, LogSlots, NoSlot
        <3>4. CASE j = i
            <4>1. t[i].data # NoData /\ t[i].data.size >= s[i].data.size /\ HoldsOwn(l, t[i].data)
                BY <3>2, <3>4 DEF HoldsOwn
            <4>2. w[l] = t[i].data.size
                BY <2>3, <3>3, <3>4, <4>1 DEF Val
            <4> QED
                BY <3>2, <3>4, <4>1, <4>2
        <3>5. CASE j # i
            <4>1. w[l] = s[j].data.size
                BY <2>3, <3>2, <3>3, <3>5 DEF Val
            <4> QED
                BY <3>2, <4>1, SMTT(30)
        <3> QED
            BY <3>4, <3>5
    <2>4. CASE l \in M \ L
        BY <2>2, <2>4 DEF Val
    <2> QED
        BY <2>1, <2>2, <2>3, <2>4
<1> HIDE DEF v, w
<1>4. Grown(v, w)
    BY <1>1, <1>2, <1>3, OneGrows
<1> QED
    BY <1>4 DEF v, w

LEMMA RecordedIsVal ==
    ASSUME Inv
    PROVE  Recorded = Val(directory, slot, acked, lapsed)
<1> DEFINE v == Val(directory, slot, acked, lapsed)
<1>1. ASSUME NEW l \in Logs, l \notin lapsed
      PROVE  v[l] = IF MapInForce[l] # NoSlot /\ HoldsOwn(l, slot[MapInForce[l]].data)
                    THEN slot[MapInForce[l]].data.size ELSE 0
    <2>1. CASE ~up
        BY <1>1, <2>1 DEF Val, MapInForce, Unmapped
    <2>2. CASE up
        <3>1. CASE directory.data # NoData /\ directory.data[l] # NoSlot
            <4>1. idToSlot[l] = directory.data[l]
                BY <2>2, <3>1 DEF Inv, Running, MapOK, Maps, Extends
            <4> QED
                BY <1>1, <2>2, <3>1, <4>1 DEF Val, MapInForce
        <3>2. CASE ~(directory.data # NoData /\ directory.data[l] # NoSlot)
            <4>1. v[l] = 0
                BY <1>1, <3>2 DEF Val
            <4>2. idToSlot[l] # NoSlot => idToSlot[l] \in LogSlots
                BY <2>2, OnlyOne
            <4>3. idToSlot[l] # NoSlot => ~HoldsOwn(l, slot[idToSlot[l]].data)
                BY <1>1, <3>2, <4>2, SMTT(30) DEF Inv, Stored, SlotOK, Content, HoldsOwn, At
            <4> QED
                BY <2>2, <4>1, <4>3 DEF MapInForce
        <3> QED
            BY <3>1, <3>2
    <2> QED
        BY <2>1, <2>2
<1>2. \A l \in lapsed : l \in Logs => v[l] = acked[l]
    BY DEF Val
<1>3. v = [l \in Logs |-> v[l]]
    BY DEF Val
<1> HIDE DEF v
<1>4. Recorded = v
    BY <1>1, <1>2, <1>3 DEF Recorded
<1> QED
    BY <1>4 DEF v

LEMMA OpenSlotGrows ==
    ASSUME Inv, Inv', NEW p \in Procs, OpenSlot(p)
    PROVE  Grown(Val(directory, slot, acked, lapsed), Val(directory, slot', acked, lapsed))
<1> DEFINE i == proc[p].idx
<1>1. i \in LogSlots /\ slot[i] \in Cps!Register
    BY UpInCall DEF OpenSlot
<1>2. PICK r \in IF slot[i].status = "open" THEN {slot[i]} ELSE Cps!Opened(slot[i]) :
         slot' = [slot EXCEPT ![i] = r]
    BY DEF OpenSlot
<1>3. Stored(directory, slot, acked, lapsed) /\ Stored(directory, slot', acked, lapsed)
    BY DEF Inv, OpenSlot, history
<1>4. r.data = slot[i].data \/ r.data \in slot[i].doubt
    BY <1>2, SMTT(30) DEF Cps!Opened, Cps!Committed
<1>5. slot'[i] = r /\ \A j \in LogSlots : j # i => slot'[j] = slot[j]
    BY <1>1, <1>2, TypeFacts
<1> HIDE DEF i
<1>6. CASE r.data = slot[i].data
    <2>1. \A j \in LogSlots : slot'[j].data = slot[j].data
        BY <1>5, <1>6
    <2> QED
        BY <1>3, <2>1, ValSame, SMTT(30) DEF Grown
<1>7. CASE r.data \in slot[i].doubt
    <2>1. SlotOK(i, directory, slot[i], lapsed)
        BY <1>1, <1>3 DEF Stored
    <2>2. r.data \in Encoded /\ r.data # NoData /\ r.data.log \in Logs /\ r.data.size \in Nat
        BY <1>1, <1>7, PersistenceConstants, SMTT(30) DEF Cps!Register, Encoded
    <2>3. slot[i].data # NoData =>
             slot[i].data.log = r.data.log /\ r.data.size > slot[i].data.size /\ slot[i].data.size \in Nat
        BY <1>1, <1>7, <2>1, SMTT(30) DEF SlotOK, Cps!Register, Encoded
    <2>4. slot[i].data # NoData => r.data.size >= slot[i].data.size
        BY <2>2, <2>3, SMTT(30)
    <2>5. \A k \in Logs : acked[k] \in Nat
        BY <1>3, SMTT(30) DEF Stored
    <2>6. r.data.log \in lapsed => acked[r.data.log] >= acked[r.data.log]
        BY <2>2, <2>5, SMTT(30)
    <2> DEFINE l == r.data.log
    <2>7. l \in Logs /\ slot'[i].data # NoData /\ slot'[i].data.log = l
        BY <1>5, <2>2
    <2>8. slot[i].data # NoData => slot[i].data.log = l /\ slot'[i].data.size >= slot[i].data.size
        BY <1>5, <2>3, <2>4
    <2>9. l \in lapsed => acked[l] >= acked[l]
        BY <2>6
    <2> HIDE DEF l
    <2> QED
        BY <1>1, <1>3, <1>5, <2>7, <2>8, <2>9, ValSlot
<1> QED
    BY <1>4, <1>6, <1>7

LEMMA CheckAndWriteGrows ==
    ASSUME Inv, Inv', NEW p \in Procs, CheckAndWrite(p), TokenValid(p)
    PROVE  Grown(Val(directory, slot, acked, lapsed), Val(directory', slot', acked', lapsed'))
<1> DEFINE i == proc[p].idx
           l == proc[p].log
           b == marshalCheckpoint(proc[p].newCP)
           att == [slot EXCEPT ![i] = Cps!Attempted(@, b)]
           com == [slot EXCEPT ![i] = Cps!Committed(@, b)]
           more == [acked EXCEPT ![l] = Max2(@, b.size)]
<1>1. /\ l \in Logs /\ i \in LogSlots /\ MayWrite(l, i, b, directory, slot[i])
      /\ lapsed' = LapsedAfter(l, directory, lapsed)
      /\ Stored(directory, att, acked, lapsed') /\ Stored(directory, com, more, lapsed')
    BY MayWriteNow
<1>2. Stored(directory, slot, acked, lapsed) /\ slot \in [LogSlots -> Cps!Register]
    BY TypeFacts DEF Inv
<1>3. \/ slot' = com /\ acked' = more /\ directory' = directory
      \/ slot' = att /\ acked' = acked /\ directory' = directory
      \/ PowerLoss(directory, att) /\ acked' = acked
    BY DEF CheckAndWrite
<1>4. b \in Encoded /\ b # NoData /\ b.log = l /\ b.size \in Nat
    BY <1>1, PersistenceConstants, SMTT(30) DEF MayWrite, Encoded
<1> HIDE DEF b
<1>5. /\ att[i].data = slot[i].data /\ com[i].data = b
      /\ \A j \in LogSlots : j # i => att[j] = slot[j] /\ com[j] = slot[j]
    BY <1>1, <1>2 DEF Cps!Attempted, Cps!Committed, Cps!Register
<1>6. acked \in [Logs -> 0 .. MaxSize]
    BY <1>2 DEF Stored
<1>7. more[l] >= acked[l] /\ acked[l] >= acked[l] /\ \A k \in Logs : k # l => more[k] = acked[k]
    BY <1>1, <1>4, <1>6, SMTT(30) DEF Max2
<1> HIDE DEF att, com, more
<1>8. slot[i].data # NoData =>
         slot[i].data.log = l /\ b.size >= slot[i].data.size /\ slot[i].data.size >= slot[i].data.size
    <2>1. slot[i].data # NoData => slot[i].data.size \in Nat
        BY <1>1, <1>2, SMTT(30) DEF Cps!Register, Encoded
    <2> QED
        BY <1>1, <1>4, <2>1, SMTT(30) DEF MayWrite
<1>9. /\ lapsed \subseteq lapsed' /\ \A k \in Logs : k # l => (k \in lapsed <=> k \in lapsed')
      /\ l \in lapsed' \ lapsed => ~(directory.data # NoData /\ directory.data[l] # NoSlot)
    BY <1>1 DEF LapsedAfter
<1> HIDE DEF i, l
<1>10. Grown(Val(directory, slot, acked, lapsed), Val(directory, com, more, lapsed'))
    <2>1. com[i].data # NoData => com[i].data.log = l
        BY <1>4, <1>5
    <2>2. slot[i].data # NoData => com[i].data # NoData /\ com[i].data.size >= slot[i].data.size
        BY <1>4, <1>5, <1>8
    <2>3. \A k \in Logs : k # l => more[k] = acked[k] /\ (k \in lapsed <=> k \in lapsed')
        BY <1>7, <1>9
    <2>4. l \in lapsed => l \in lapsed' /\ more[l] >= acked[l]
        BY <1>7, <1>9
    <2>5. /\ l \in Logs /\ i \in LogSlots /\ Stored(directory, com, more, lapsed')
          /\ \A j \in LogSlots : j # i => com[j] = slot[j]
          /\ slot[i].data # NoData => slot[i].data.log = l
        BY <1>1, <1>5, <1>8
    <2>6. l \in lapsed' \ lapsed => ~(directory.data # NoData /\ directory.data[l] # NoSlot)
        BY <1>9
    <2> QED
        BY <1>2, <2>1, <2>2, <2>3, <2>4, <2>5, <2>6, ValSlot
<1>11. Grown(Val(directory, slot, acked, lapsed), Val(directory, att, acked, lapsed'))
    <2>1. att[i].data # NoData => att[i].data.log = l
        BY <1>5, <1>8
    <2>2. slot[i].data # NoData => att[i].data # NoData /\ att[i].data.size >= slot[i].data.size
        BY <1>5, <1>8
    <2>3. \A k \in Logs : k # l => acked[k] = acked[k] /\ (k \in lapsed <=> k \in lapsed')
        BY <1>7, <1>9
    <2>4. l \in lapsed => l \in lapsed' /\ acked[l] >= acked[l]
        BY <1>7, <1>9
    <2>5. /\ l \in Logs /\ i \in LogSlots /\ Stored(directory, att, acked, lapsed')
          /\ \A j \in LogSlots : j # i => att[j] = slot[j]
          /\ slot[i].data # NoData => slot[i].data.log = l
        BY <1>1, <1>5, <1>8
    <2>6. l \in lapsed' \ lapsed => ~(directory.data # NoData /\ directory.data[l] # NoSlot)
        BY <1>9
    <2> QED
        BY <1>2, <2>1, <2>2, <2>3, <2>4, <2>5, <2>6, ValSlot
<1>12. CASE PowerLoss(directory, att) /\ acked' = acked
    <2>1. Stored(directory', slot', acked, lapsed')
        BY <1>12 DEF Inv
    <2>2. \A j \in LogSlots : slot'[j].data = att[j].data
        BY <1>1, <1>12 DEF PowerLoss, Cps!Closed, Stored, SlotOK, Cps!Register
    <2>3. Val(directory', slot', acked, lapsed') = Val(directory, att, acked, lapsed')
        BY <1>1, <2>1, <2>2, ValSame, SMTT(30)
    <2> QED
        BY <1>11, <1>12, <2>3
<1> QED
    BY <1>3, <1>10, <1>11, <1>12

LEMMA StepGrows ==
    ASSUME Inv, Inv', [Next]_vars
    PROVE  Grown(Val(directory, slot, acked, lapsed), Val(directory', slot', acked', lapsed'))
<1>1. ASSUME UNCHANGED <<acked, lapsed>>, \A i \in LogSlots : slot'[i].data = slot[i].data
      PROVE  Val(directory', slot', acked', lapsed') = Val(directory, slot, acked, lapsed)
    BY <1>1, ValSame, SMTT(30) DEF Inv
<1>2. ASSUME NEW d, PowerLoss(d, slot), UNCHANGED <<acked, lapsed>>
      PROVE  Val(directory', slot', acked', lapsed') = Val(directory, slot, acked, lapsed)
    <2>1. \A i \in LogSlots : slot'[i].data = slot[i].data
        BY <1>2, TypeFacts DEF PowerLoss, Cps!Closed, Cps!Register
    <2> QED
        BY <1>1, <1>2, <2>1
<1>3. CASE UNCHANGED <<slot, acked, lapsed>>
    BY <1>1, <1>3 DEF Grown
<1>4. CASE Crash
    BY <1>2, <1>4 DEF Crash, history, Grown
<1>5. ASSUME NEW p \in Procs, NEW l \in Logs, addLog(p, l)
      PROVE  Grown(Val(directory, slot, acked, lapsed), Val(directory', slot', acked', lapsed'))
    BY <1>2, <1>3, <1>5 DEF addLog, history, Grown
<1>6. ASSUME NEW p \in Procs, OpenSlot(p)
      PROVE  Grown(Val(directory, slot, acked, lapsed), Val(directory', slot', acked', lapsed'))
    <2>1. UNCHANGED <<directory, acked, lapsed>>
        BY <1>6 DEF OpenSlot, history
    <2> QED
        BY <1>6, <2>1, OpenSlotGrows
<1>7. ASSUME NEW p \in Procs, CheckAndWrite(p)
      PROVE  Grown(Val(directory, slot, acked, lapsed), Val(directory', slot', acked', lapsed'))
    <2>1. CASE TokenValid(p)
        BY <1>7, <2>1, CheckAndWriteGrows
    <2>2. CASE ~TokenValid(p)
        BY <1>3, <1>7, <2>2 DEF CheckAndWrite, history
    <2> QED
        BY <2>1, <2>2
<1> QED
    BY <1>3, <1>4, <1>5, <1>6, <1>7
       DEF Next, InitPersistence, LogSlotKnown, ReadLatest, ReadUpdate, f, history, vars

(***************************************************************************)
(* The store implements CheckpointStore: for every log one size, which     *)
(* grows one log at a time and never shrinks, whatever is restarted or     *)
(* fails in between.                                                       *)
(***************************************************************************)
THEOREM StoreIsImplemented == Spec => ImplementsStore
<1> DEFINE V == Val(directory, slot, acked, lapsed)
<1>1. Inv => Recorded = V
    BY RecordedIsVal
<1>2. (Inv => Recorded = V)'
    BY <1>1, PTL
<1>3. Inv => Store!Init
    BY <1>1, ValType, SMTT(30) DEF Store!Init, Inv
<1>4. ASSUME Inv, Inv', [Next]_vars PROVE [Store!Next]_Recorded
    <2>1. Grown(V, V')
        BY <1>4, StepGrows
    <2>2. Grown(Recorded, Recorded')
        BY <1>1, <1>2, <1>4, <2>1
    <2> QED
        BY <2>2 DEF Grown, Store!Next, Store!Record
<1> QED
    BY <1>3, <1>4, InitInv, InvNext, PTL DEF Spec, ImplementsStore, Store!Spec
=============================================================================

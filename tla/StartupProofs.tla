---------------------------- MODULE StartupProofs ----------------------------
(***************************************************************************)
(* The keys and what is published of them, for any number of starts and    *)
(* new identities, and the sending of packets, for any number of senders   *)
(* and packets.  The invariant: keys are made of a status that the OS gave *)
(* earlier, published and signer are of the keys in force, and the queue   *)
(* of packets is in step with the notifications that are due.              *)
(***************************************************************************)
EXTENDS Startup, SequenceTheorems, TLAPS

\* The prover, unless a step names another.
USE SMTT(30)

IdentityStatus == [identity : {"status"}, hab : BOOLEAN, counter : Nat]

\* What deriveIdentityKeys makes of a status.
KeysOf(st) ==
    [identity |-> Witness(st), attest |-> Attestation(st),
     attestedID |-> attestID(st, Witness(st)), bastion |-> Bastion(st),
     attestedBastion |-> attestBastion(st, Bastion(st))]

NotYetDerived == {"version", "config", "status", "identity", "derive"}

KeyInv ==
    /\ hab \in BOOLEAN /\ counter \in Nat
    /\ at = "derive" => status \in IdentityStatus /\ status.counter <= counter
    /\ at \in NotYetDerived => published = Nothing /\ signer = <<>>
    /\ \/ keys = Nothing
       \/ \E st \in IdentityStatus : st.counter <= counter /\ keys = KeysOf(st)
    /\ published \in {Nothing, keys} /\ signer \in {<<>>, keys.identity}

SendInv ==
    /\ packets \in Nat /\ queue \in Seq(1 .. packets) /\ sent \in 0 .. packets
    /\ NoPacketStranded
-----------------------------------------------------------------------------
LEMMA KeyInit ==
    Init => KeyInv
BY DEF Init, BootInit, KeyInv, NotYetDerived

LEMMA DeriveStep ==
    ASSUME KeyInv, deriveIdentityKeys
    PROVE  KeyInv'
<1>1. /\ at = "derive" /\ at' = "publish" /\ keys' = KeysOf(status)
      /\ UNCHANGED <<hab, counter, published, signer>>
    BY DEF deriveIdentityKeys, Goes, KeysOf
<1>2. status \in IdentityStatus /\ status.counter <= counter /\ published = Nothing /\ signer = <<>>
    BY <1>1 DEF KeyInv, NotYetDerived
<1> HIDE DEF KeysOf
<1> QED
    BY <1>1, <1>2 DEF KeyInv, NotYetDerived

\* Steps that leave the keys alone.
LEMMA KeysKept ==
    ASSUME KeyInv, UNCHANGED keys, hab' \in BOOLEAN,
           counter' \in Nat, counter' >= counter,
           at' = "derive" => status' \in IdentityStatus /\ status'.counter <= counter',
           at' \in NotYetDerived => published' = Nothing /\ signer' = <<>>,
           published' \in {Nothing, published, keys}, signer' \in {<<>>, signer, keys.identity}
    PROVE  KeyInv'
<1>1. \/ keys' = Nothing
      \/ \E st \in IdentityStatus : st.counter <= counter' /\ keys' = KeysOf(st)
    <2>1. CASE keys = Nothing
        BY <2>1
    <2>2. ASSUME NEW st \in IdentityStatus, st.counter <= counter, keys = KeysOf(st)
          PROVE  st.counter <= counter' /\ keys' = KeysOf(st)
        <3>1. st.counter \in Nat /\ counter \in Nat
            BY DEF IdentityStatus, KeyInv
        <3> QED
            BY <2>2, <3>1
    <2> QED
        BY <2>1, <2>2 DEF KeyInv
<1>2. published' \in {Nothing, keys'} /\ signer' \in {<<>>, keys'.identity}
    BY DEF KeyInv
<1> QED
    BY <1>1, <1>2 DEF KeyInv

LEMMA KeyNext ==
    ASSUME KeyInv, [Next]_vars
    PROVE  KeyInv'
<1> USE DEF NotYetDerived
<1>0. counter \in Nat /\ counter >= counter /\ hab \in BOOLEAN
    BY DEF KeyInv
<1>1. CASE UNCHANGED bootVars
    BY <1>0, <1>1, KeysKept DEF bootVars, KeyInv
<1>2. CASE NewIdentity
    BY <1>0, <1>2, KeysKept DEF NewIdentity, KeyInv, IdentityStatus
<1>3. CASE Reset
    <2>1. /\ keys' = Nothing /\ published' = Nothing /\ signer' = <<>> /\ hab' \in BOOLEAN
          /\ at' = "version" /\ UNCHANGED counter
        BY <1>3 DEF Reset
    <2> QED
        BY <2>1 DEF KeyInv
<1>4. CASE Fatal
    BY <1>0, <1>4, KeysKept DEF Fatal, Goes, KeyInv
<1>5. CASE Checks
    BY <1>0, <1>5, KeysKept DEF Checks, Version, Status, Config, Goes, KeyInv
<1>6. CASE ReadIdentity
    <2>1. status' \in IdentityStatus /\ status'.counter = counter
        BY <1>0, <1>6 DEF ReadIdentity, IdentityStatus
    <2> QED
        BY <1>0, <1>6, <2>1, KeysKept DEF ReadIdentity, Goes, KeyInv
<1>7. CASE deriveIdentityKeys
    BY <1>7, DeriveStep
<1>8. CASE Publish
    BY <1>0, <1>8, KeysKept DEF Publish, SetWitnessStatus, Goes, KeyInv
<1>9. CASE startNetworking \/ StartHandler \/ OpenStorage
    BY <1>0, <1>9, KeysKept DEF startNetworking, StartHandler, OpenStorage, Goes, KeyInv
<1>10. CASE runWithNetworking
    BY <1>0, <1>10, KeysKept DEF runWithNetworking, SetWitnessStatus, Goes, KeyInv
<1> QED
    BY <1>1, <1>2, <1>3, <1>4, <1>5, <1>6, <1>7, <1>8, <1>9, <1>10
       DEF Next, MainStep, vars
-----------------------------------------------------------------------------
LEMMA SendInit ==
    Init => SendInv
BY DEF Init, EventInit, SendInv, NoPacketStranded

LEMMA QueueStep ==
    ASSUME SendInv, SendPacket
    PROVE  SendInv'
<1>1. packets' = packets + 1 /\ packets \in Nat /\ packets' \in Nat /\ UNCHANGED <<sent, empty>>
    BY DEF SendPacket, SendInv
<1>2. queue \in Seq(1 .. packets') /\ sent' \in 0 .. packets'
    BY <1>1 DEF SendInv
<1>3. CASE UNCHANGED <<queue, notifying>>
    BY <1>1, <1>2, <1>3 DEF SendInv, NoPacketStranded
<1>4. CASE queue' = Append(queue, packets') /\ notifying' = notifying + 1
    <2>1. /\ queue' \in Seq(1 .. packets') /\ Len(queue') = Len(queue) + 1
          /\ queue'[Len(queue) + 1] = packets'
          /\ \A i \in 1 .. Len(queue) : queue'[i] = queue[i]
        BY <1>1, <1>2, <1>4
    <2>2. Len(queue) \in Nat /\ \A i \in 1 .. Len(queue) : queue[i] \in 1 .. packets
        BY DEF SendInv
    <2>3. sent \in 0 .. packets /\ sent' = sent
        BY <1>1 DEF SendInv
    <2>4. ASSUME NEW i \in 1 .. Len(queue')
          PROVE  queue'[i] > IF i = 1 THEN sent' ELSE queue'[i - 1]
        <3>1. CASE i = Len(queue) + 1
            BY <1>1, <2>1, <2>2, <2>3, <3>1
        <3>2. CASE i \in 1 .. Len(queue)
            <4>1. queue[i] > IF i = 1 THEN sent ELSE queue[i - 1]
                BY <3>2 DEF SendInv, NoPacketStranded
            <4>2. queue'[i] = queue[i] /\ (i # 1 => queue'[i - 1] = queue[i - 1])
                BY <2>1, <2>2, <3>2
            <4> QED
                BY <2>3, <4>1, <4>2
        <3> QED
            BY <2>1, <2>2, <3>1, <3>2
    <2> QED
        BY <1>1, <1>2, <1>4, <2>1, <2>4 DEF SendInv, NoPacketStranded
<1> QED
    BY <1>3, <1>4 DEF SendPacket

LEMMA NotifyStep ==
    ASSUME SendInv, WriteNotify, notifying \in Nat
    PROVE  SendInv'
<1>1. Len(queue) = notifying /\ Len(queue) \in Nat /\ Len(queue) >= 1
    BY DEF SendInv, NoPacketStranded, WriteNotify
<1>2. queue \in Seq(1 .. packets) /\ queue[1] \in 1 .. packets
    BY <1>1 DEF SendInv
<1>3. Len(tx) = 1 /\ tx[1] = queue[1] /\ tx # <<>>
    BY <1>1, <1>2 DEF tx
<1>4. /\ sent' = queue[1] /\ UNCHANGED <<empty, packets>> /\ notifying' = notifying - 1
      /\ queue' = SubSeq(queue, 2, Len(queue))
    BY <1>3 DEF WriteNotify
<1>5. /\ queue' \in Seq(1 .. packets) /\ Len(queue') = Len(queue) - 1
      /\ \A i \in 1 .. Len(queue) - 1 : queue'[i] = queue[i + 1]
    <2> DEFINE S == 1 .. packets
               n == Len(queue)
    <2>1. queue \in Seq(S)
        BY <1>2
    <2>2. n \in Int /\ 2 \in Int
        BY <1>1
    <2> HIDE DEF S
    <2>3. \A i \in 2 .. n : queue[i] \in S
        BY <1>1, <2>1
    <2> HIDE DEF n
    <2>4. /\ SubSeq(queue, 2, n) \in Seq(S)
          /\ Len(SubSeq(queue, 2, n)) = IF 2 <= n THEN n - 2 + 1 ELSE 0
          /\ \A i \in 1 .. n - 2 + 1 : SubSeq(queue, 2, n)[i] = queue[2 + i - 1]
        BY <2>3, <2>2, SubSeqProperties
    <2>5. queue' = SubSeq(queue, 2, n) /\ n >= 1
        BY <1>1, <1>4 DEF n
    <2>6. /\ queue' \in Seq(S) /\ Len(queue') = n - 1
          /\ \A i \in 1 .. n - 1 : queue'[i] = queue[i + 1]
        <3>1. ASSUME NEW i \in 1 .. n - 1 PROVE i \in 1 .. n - 2 + 1 /\ 2 + i - 1 = i + 1
            BY <2>2
        <3> QED
            BY <2>2, <2>4, <2>5, <3>1
    <2> QED
        BY <2>6 DEF S, n
<1>6. ASSUME NEW i \in 1 .. Len(queue')
      PROVE  queue'[i] > IF i = 1 THEN sent' ELSE queue'[i - 1]
    <2>1. i + 1 \in 1 .. Len(queue) /\ queue'[i] = queue[i + 1] /\ queue[i + 1] > queue[i]
        BY <1>1, <1>5 DEF SendInv, NoPacketStranded
    <2>2. i # 1 => queue'[i - 1] = queue[i]
        BY <1>1, <1>5
    <2> QED
        BY <1>4, <2>1, <2>2
<1> QED
    BY <1>1, <1>2, <1>4, <1>5, <1>6 DEF SendInv, NoPacketStranded

LEMMA SendNext ==
    ASSUME SendInv, [Next]_vars
    PROVE  SendInv'
<1>1. CASE UNCHANGED txVars
    BY <1>1 DEF txVars, SendInv, NoPacketStranded
<1>2. CASE Reset
    BY <1>2 DEF Reset, SendInv, NoPacketStranded
<1>3. CASE SendPacket
    BY <1>3, QueueStep
<1>4. CASE WriteNotify
    <2>1. notifying \in Nat
        BY DEF SendInv, NoPacketStranded
    <2> QED
        BY <1>4, <2>1, NotifyStep
<1> QED
    BY <1>1, <1>2, <1>3, <1>4
       DEF Next, vars, eventVars, MainStep, NewIdentity, Fatal, Checks, ReadIdentity,
           deriveIdentityKeys, Publish, startNetworking, StartHandler, OpenStorage,
           runWithNetworking, Arrive, Interrupt, HandlerStep, Register, Park, EnableFIQ,
           rxFromEthEnds, rxFrame
-----------------------------------------------------------------------------
(***************************************************************************)
(* What is published is of the key the witness signs with, attested with   *)
(* the counter it was derived from, whenever the custodian asks for a new  *)
(* identity (key.go:95, main.go:177).                                      *)
(***************************************************************************)
THEOREM PublishedIsInForce == Spec => []PublishedIsSigner
<1>1. KeyInv => PublishedIsSigner
    <2> SUFFICES ASSUME KeyInv, published # Nothing PROVE PublishedIsSigner
        BY DEF PublishedIsSigner
    <2>1. published = keys /\ signer \in {<<>>, published.identity}
        BY DEF KeyInv
    <2>2. PICK st \in IdentityStatus : st.counter <= counter /\ keys = KeysOf(st)
        BY <2>1 DEF KeyInv
    <2>3. st \in [identity : {"status"}, hab : BOOLEAN, counter : 0 .. counter]
        BY <2>2 DEF IdentityStatus, KeyInv
    <2>4. /\ published.identity = Witness(st) /\ published.attest = Attestation(st)
          /\ published.attestedID.by = Attestation(st)
          /\ published.attestedID.text = <<st.counter, Witness(st)>>
        BY <2>1, <2>2 DEF KeysOf, attestID, attestNote
    <2> QED
        BY <2>1, <2>3, <2>4 DEF PublishedIsSigner
<1> QED
    BY <1>1, KeyInit, KeyNext, PTL DEF Spec

(***************************************************************************)
(* Every notification finds a packet, and packets leave in the order they  *)
(* were queued (net.go:290, 314).                                          *)
(***************************************************************************)
THEOREM PacketsLeaveInOrder == Spec => []NoPacketStranded
<1>1. SendInv => NoPacketStranded
    BY DEF SendInv
<1> QED
    BY <1>1, SendInit, SendNext, PTL DEF Spec
-----------------------------------------------------------------------------
RxType ==
    /\ ring \in Seq(Frames) /\ Len(ring) <= RingSize /\ arrived \in 0 .. MaxFrames
    /\ event \in BOOLEAN /\ fiq \in BOOLEAN /\ enabling \in BOOLEAN /\ cut \in BOOLEAN
    /\ handler \in {"none", "registering", "loop", "asleep", "drain"}

TxType == packets \in 0 .. MaxPackets /\ notifying \in 0 .. MaxSenders

EmptyType == empty \in BOOLEAN

\* The reading of frames.
LEMMA RxStep ==
    ASSUME RxType, Arrive \/ Interrupt \/ HandlerStep
    PROVE  RxType'
<1>1. CASE Arrive
    <2>1. ring' \in Seq(Frames) /\ Len(ring') <= RingSize /\ arrived' \in 0 .. MaxFrames
        BY <1>1, EventConstants DEF Arrive, RxType
    <2> QED
        BY <1>1, <2>1 DEF Arrive, RxType
<1>2. CASE Interrupt \/ Register \/ Park \/ EnableFIQ
    BY <1>2, Zenon DEF Interrupt, Register, Park, EnableFIQ, RxType
<1>3. CASE rxFromEthEnds \/ rxFrame
    <2>1. ring' \in Seq(Frames) /\ Len(ring') <= RingSize
        BY <1>3, EventConstants DEF rxFromEthEnds, rxFrame, RxType
    <2> QED
        BY <1>3, <2>1, Zenon DEF rxFromEthEnds, rxFrame, RxType
<1> QED
    BY <1>1, <1>2, <1>3 DEF HandlerStep

\* Type correctness of the event handler and of the sending side, over all boots.
THEOREM EventTypeCorrect == Spec => []EventTypeOK
<1>1. Init => RxType /\ TxType
    <2> SUFFICES ASSUME Init PROVE RxType /\ TxType
        OBVIOUS
    <2>1. ring \in Seq(Frames) /\ Len(ring) <= RingSize /\ arrived \in 0 .. MaxFrames
        BY EventConstants DEF Init, EventInit
    <2>2. TxType
        BY EventConstants DEF Init, EventInit, TxType
    <2> QED
        BY <2>1, <2>2, Zenon DEF Init, EventInit, RxType
<1>2. RxType /\ TxType /\ [Next]_vars => RxType' /\ TxType'
    <2> SUFFICES ASSUME RxType, TxType, [Next]_vars PROVE RxType' /\ TxType'
        OBVIOUS
    <2>1. CASE Arrive \/ Interrupt \/ HandlerStep
        <3>1. UNCHANGED txVars
            BY <2>1 DEF Arrive, Interrupt, HandlerStep, Register, Park, EnableFIQ, rxFromEthEnds, rxFrame
        <3> QED
            BY <2>1, <3>1, RxStep DEF TxType, txVars
    <2>2. CASE SendPacket \/ WriteNotify
        <3>1. UNCHANGED rxVars
            BY <2>2 DEF SendPacket, WriteNotify
        <3>2. TxType'
            <4>1. CASE SendPacket
                BY <4>1, EventConstants DEF SendPacket, TxType
            <4>2. CASE WriteNotify
                BY <4>2, EventConstants DEF WriteNotify, TxType
            <4> QED
                BY <2>2, <4>1, <4>2
        <3> QED
            BY <3>1, <3>2 DEF RxType, rxVars
    <2>3. CASE Reset
        <3>1. ring' \in Seq(Frames) /\ Len(ring') <= RingSize
            BY <2>3, EventConstants DEF Reset
        <3>2. TxType'
            BY <2>3, EventConstants DEF Reset, TxType
        <3> QED
            BY <2>3, <3>1, <3>2, Zenon DEF Reset, RxType
    <2>4. CASE Fatal \/ StartHandler
        BY <2>4, Zenon DEF Fatal, StartHandler, txVars, RxType, TxType
    <2>5. CASE UNCHANGED eventVars
        BY <2>5 DEF eventVars, rxVars, txVars, RxType, TxType
    <2> QED
        BY <2>1, <2>2, <2>3, <2>4, <2>5
           DEF Next, vars, MainStep, NewIdentity, Checks, ReadIdentity, deriveIdentityKeys,
               Publish, startNetworking, OpenStorage, runWithNetworking
<1>3. Init => EmptyType
    BY Zenon DEF Init, EventInit, EmptyType
<1>4. EmptyType /\ [Next]_vars => EmptyType'
    <2>1. [Next]_vars => empty' \in {empty, TRUE, FALSE}
        BY Zenon DEF Next, vars, eventVars, txVars, MainStep, NewIdentity, Reset, Fatal, Checks,
               ReadIdentity, deriveIdentityKeys, Publish, startNetworking, StartHandler, OpenStorage,
               runWithNetworking, Arrive, Interrupt, HandlerStep, Register, Park, EnableFIQ, rxFromEthEnds,
               rxFrame, SendPacket, WriteNotify
    <2> QED
        BY <2>1, Zenon DEF EmptyType
<1>5. RxType /\ TxType /\ EmptyType /\ SendInv => EventTypeOK
    <2> SUFFICES ASSUME RxType, TxType, EmptyType, SendInv PROVE EventTypeOK
        OBVIOUS
    <2>1. queue \in Seq(1 .. MaxPackets) /\ sent \in 0 .. MaxPackets
        BY EventConstants DEF TxType, SendInv
    <2> QED
        BY <2>1 DEF RxType, TxType, EmptyType, EventTypeOK
<1> QED
    BY <1>1, <1>2, <1>3, <1>4, <1>5, SendInit, SendNext, PTL DEF Spec
-----------------------------------------------------------------------------
(***************************************************************************)
(* No wake-up is lost: what makes FramesRead true (handler.go:44).  The    *)
(* interrupt is enabled only while the handler sleeps, so that WakeG never *)
(* misses it; a sleeping handler has it enabled or a goroutine about to;   *)
(* and when frames wait and nobody reads them, the interrupt is pending,   *)
(* unless they lie behind an oversize frame.                               *)
(***************************************************************************)
NoWakeupLost ==
    /\ fiq => handler = "asleep"
    /\ handler = "asleep" => fiq \/ enabling
    /\ handler \in {"loop", "asleep"} /\ ring # <<>> => event \/ cut

\* The handler is started after the network, once; until it has registered frames
\* pile up in the OS with the interrupt pending.
WakeInv ==
    /\ fiq => handler = "asleep"
    /\ handler = "asleep" => fiq \/ enabling
    /\ handler # "drain" /\ at # "exited" /\ ring # <<>> => event \/ cut
    /\ handler # "none" => at \in {"storage", "run", "ntp", "serving"}

LEMMA WakeStep ==
    ASSUME WakeInv, [Next]_vars
    PROVE  WakeInv'
<1>1. CASE Arrive /\ UNCHANGED bootVars
    BY <1>1, Zenon DEF Arrive, bootVars, WakeInv
<1>2. CASE Interrupt /\ UNCHANGED bootVars
    BY <1>2, Zenon DEF Interrupt, bootVars, WakeInv
<1>3. CASE (Register \/ Park \/ EnableFIQ) /\ UNCHANGED bootVars
    <2>1. CASE Register
        BY <1>3, <2>1, Zenon DEF Register, bootVars, WakeInv
    <2>2. CASE Park \/ EnableFIQ
        BY <1>3, <2>2, Zenon DEF Park, EnableFIQ, bootVars, WakeInv
    <2> QED
        BY <1>3, <2>1, <2>2
<1>4. CASE (rxFromEthEnds \/ rxFrame) /\ UNCHANGED bootVars
    <2>1. CASE rxFromEthEnds
        BY <1>4, <2>1 DEF rxFromEthEnds, bootVars, WakeInv
    <2>2. CASE rxFrame
        BY <1>4, <2>2 DEF rxFrame, bootVars, WakeInv
    <2> QED
        BY <1>4, <2>1, <2>2
<1>5. CASE (SendPacket \/ WriteNotify) /\ UNCHANGED bootVars
    <2>1. UNCHANGED <<rxVars, at>>
        BY <1>5 DEF SendPacket, WriteNotify, bootVars
    <2> QED
        BY <2>1 DEF rxVars, WakeInv
<1>6. CASE Reset
    BY <1>6, Zenon DEF Reset, WakeInv
<1>7. CASE Fatal
    BY <1>7, Zenon DEF Fatal, Goes, WakeInv
<1>8. CASE StartHandler
    BY <1>8, Zenon DEF StartHandler, Goes, WakeInv
<1>9. CASE NewIdentity \/ UNCHANGED vars
    <2>1. UNCHANGED <<rxVars, at>>
        BY <1>9 DEF NewIdentity, vars, bootVars, eventVars
    <2> QED
        BY <2>1 DEF rxVars, WakeInv
<1>10. CASE Checks \/ ReadIdentity \/ deriveIdentityKeys \/ Publish \/ startNetworking
            \/ OpenStorage \/ runWithNetworking
    <2>1. /\ UNCHANGED rxVars /\ at # "exited"
          /\ at \in {"storage", "run", "ntp", "serving"} =>
                at' \in {"storage", "run", "ntp", "serving"}
        BY <1>10 DEF Checks, Version, Status, Config, ReadIdentity, deriveIdentityKeys, Publish,
                     startNetworking, OpenStorage, runWithNetworking, Goes, eventVars
    <2> QED
        BY <2>1, Zenon DEF rxVars, WakeInv
<1> QED
    BY <1>1, <1>2, <1>3, <1>4, <1>5, <1>6, <1>7, <1>8, <1>9, <1>10, Zenon
       DEF Next, MainStep, HandlerStep

\* On every boot, whenever and however often frames arrive.
THEOREM WakeupsAreKept == Spec => []NoWakeupLost
<1>1. Init => WakeInv
    BY Zenon DEF Init, BootInit, EventInit, WakeInv
<1>2. WakeInv => NoWakeupLost
    BY DEF WakeInv, NoWakeupLost
<1> QED
    BY <1>1, <1>2, WakeStep, PTL DEF Spec
=============================================================================

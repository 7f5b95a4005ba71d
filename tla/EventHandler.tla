---------------------------- MODULE EventHandler ----------------------------
(***************************************************************************)
(* Ethernet frames between the Trusted OS and the network stack of the     *)
(* applet: the goroutine that the OS wakes when frames have arrived        *)
(* (handler.go) and reads them (net.go, rxFromEth and rx), and the packets *)
(* that the stack sends (net.go, WriteNotify and tx).                      *)
(*                                                                         *)
(* The runtime schedules goroutines cooperatively on one processor: the    *)
(* goroutine that re-enables the interrupt runs once the handler has       *)
(* parked in time.Sleep.  The interrupt itself may come at any time.       *)
(* External are the OS, with its receive ring, and the stack's queue.      *)
(***************************************************************************)
EXTENDS Naturals, Sequences

CONSTANTS RingSize,    \* frames that the OS keeps for the applet
          QueueSize,   \* of the link endpoint, 256 in the code
          MaxSenders,  \* bound on the goroutines that send at the same time
          MaxFrames,   \* bound on the frames that arrive
          MaxPackets   \* bound on the packets that are sent

ASSUME EventConstants ==
    /\ RingSize \in Nat /\ QueueSize \in Nat /\ MaxSenders \in Nat
    /\ MaxFrames \in Nat /\ MaxPackets \in Nat

\* Frames up to the MTU and above it.  (Below 14 bytes, rx drops what was read.)
Frames == {"frame", "oversize"}

VARIABLES ring, arrived,  \* the frames that wait in the OS; how many there were
          event, fiq,     \* the interrupt is pending; it is enabled
          handler,        \* what the goroutine eventHandler is doing
          enabling,       \* a goroutine is about to write FIQ
          cut,            \* history: the last reading stopped at an oversize frame
          queue, packets, \* the packets queued for sending; how many there were
          notifying,      \* how many goroutines are to call WriteNotify next
          sent, empty     \* the last packet handed to the OS; history: an empty frame was

rxVars == <<ring, arrived, event, fiq, handler, enabling, cut>>
txVars == <<queue, packets, notifying, sent, empty>>
eventVars == <<rxVars, txVars>>

EventInit ==
    /\ ring = <<>> /\ arrived = 0 /\ event = FALSE /\ fiq = FALSE
    /\ handler = "none" /\ enabling = FALSE /\ cut = FALSE
    /\ queue = <<>> /\ packets = 0 /\ notifying = 0 /\ sent = 0 /\ empty = FALSE
-----------------------------------------------------------------------------
\* A frame arrives; one for which the ring has no room is lost.
Arrive ==
    /\ arrived < MaxFrames
    /\ arrived' = arrived + 1
    /\ \E f \in Frames : ring' = IF Len(ring) < RingSize THEN Append(ring, f) ELSE ring
    /\ event' = TRUE
    /\ UNCHANGED <<fiq, handler, enabling, cut, txVars>>

(***************************************************************************)
(* The OS takes the interrupt, disables it and wakes the handler.  WakeG   *)
(* has no effect on a goroutine that does not sleep.                       *)
(***************************************************************************)
Interrupt ==
    /\ event /\ fiq
    /\ event' = FALSE /\ fiq' = FALSE
    /\ handler' = IF handler = "asleep" THEN "drain" ELSE handler
    /\ cut' = FALSE
    /\ UNCHANGED <<ring, arrived, enabling, txVars>>

\* eventHandler tells the OS which goroutine to wake; if that fails, the applet ends.
Register ==
    /\ handler = "registering"
    /\ handler' = "loop"
    /\ UNCHANGED <<ring, arrived, event, fiq, enabling, cut, txVars>>

\* A mutant: FIQ is written before the handler sleeps (no go in front of the call).
ParkEnabled ==
    /\ \/ handler = "loop" /\ fiq' = TRUE /\ handler' = "parking"
       \/ handler = "parking" /\ handler' = "asleep" /\ UNCHANGED fiq
    /\ UNCHANGED <<ring, arrived, event, enabling, cut, txVars>>

\* go syscall.Write(FIQ, nil, 0), then time.Sleep.
Park ==
    /\ handler = "loop"
    /\ handler' = "asleep" /\ enabling' = TRUE
    /\ UNCHANGED <<ring, arrived, event, fiq, cut, txVars>>

EnableFIQ ==
    /\ enabling /\ handler = "asleep"
    /\ fiq' = TRUE /\ enabling' = FALSE
    /\ UNCHANGED <<ring, arrived, event, handler, cut, txVars>>

\* rxFromEth: no frame, or one above the MTU, ends the reading loop.
rxFromEthEnds ==
    /\ handler = "drain"
    /\ \/ ring = <<>> /\ UNCHANGED <<ring, cut>>
       \/ ring # <<>> /\ Head(ring) = "oversize" /\ ring' = Tail(ring) /\ cut' = TRUE
    /\ handler' = "loop"
    /\ UNCHANGED <<arrived, event, fiq, enabling, txVars>>

\* A frame is read; rx injects it into the stack unless it has no Ethernet header.
rxFrame ==
    /\ handler = "drain" /\ ring # <<>> /\ Head(ring) # "oversize"
    /\ ring' = Tail(ring)
    /\ UNCHANGED <<arrived, event, fiq, handler, enabling, cut, txVars>>

HandlerStep == Register \/ Park \/ EnableFIQ \/ rxFromEthEnds \/ rxFrame
-----------------------------------------------------------------------------
(***************************************************************************)
(* The endpoint queues a packet, if there is room, and then calls          *)
(* WriteNotify, which sends the packet at the head of the queue: maybe     *)
(* that of another goroutine.                                              *)
(***************************************************************************)
SendPacket ==
    /\ notifying < MaxSenders /\ packets < MaxPackets
    /\ packets' = packets + 1
    /\ \/ /\ Len(queue) < QueueSize
          /\ queue' = Append(queue, packets')
          /\ notifying' = notifying + 1
       \/ /\ Len(queue) = QueueSize
          /\ UNCHANGED <<queue, notifying>>
    /\ UNCHANGED <<rxVars, sent, empty>>

\* A mutant: tx empties the queue into one frame after the other.
txAll == queue

\* tx: one packet, or none if the queue is empty, which makes an empty frame.
tx == SubSeq(queue, 1, 1)

WriteNotify ==
    /\ notifying > 0
    /\ notifying' = notifying - 1
    /\ IF tx = <<>> THEN empty' = TRUE /\ UNCHANGED sent
       ELSE sent' = tx[Len(tx)] /\ UNCHANGED empty
    /\ queue' = SubSeq(queue, Len(tx) + 1, Len(queue))
    /\ UNCHANGED <<rxVars, packets>>
-----------------------------------------------------------------------------
EventTypeOK ==
    /\ ring \in Seq(Frames) /\ Len(ring) <= RingSize /\ arrived \in 0 .. MaxFrames
    /\ event \in BOOLEAN /\ fiq \in BOOLEAN /\ enabling \in BOOLEAN /\ cut \in BOOLEAN
    /\ handler \in {"none", "registering", "loop", "asleep", "drain"}
    /\ queue \in Seq(1 .. MaxPackets) /\ packets \in 0 .. MaxPackets
    /\ notifying \in 0 .. MaxSenders /\ sent \in 0 .. MaxPackets /\ empty \in BOOLEAN

(***************************************************************************)
(* "To avoid losing interrupts, re-enabling must happen only after we are  *)
(* sleeping" (handler.go:44): a frame that waits in the OS is read, without *)
(* another one having to arrive, also if it came before the handler was    *)
(* registered or while it was reading.  The exception is what waits behind *)
(* an oversize frame, at which rxFromEth ends the loop (net.go:264), until *)
(* the next frame comes and raises the interrupt.                          *)
(***************************************************************************)
FramesRead ==
    ring # <<>> /\ handler # "none" ~> ring = <<>> \/ (cut /\ ~event) \/ handler = "none"

(***************************************************************************)
(* Every notification finds a packet and every queued packet has a         *)
(* notification to come, whichever goroutine it belongs to (net.go:290,    *)
(* 314): no empty frame is sent, and packets leave in the order they were  *)
(* queued, each one once.                                                  *)
(***************************************************************************)
NoPacketStranded ==
    /\ Len(queue) = notifying /\ ~empty
    /\ \A i \in 1 .. Len(queue) : queue[i] > IF i = 1 THEN sent ELSE queue[i - 1]
=============================================================================

------------------------- MODULE NetLifecycleProofs -------------------------
(***************************************************************************)
(* The callback acquired and the goroutine of f keep to each other, for    *)
(* every number of addresses, lease times, delays and settings of the      *)
(* clock, failures to add an address included.  The invariant names the    *)
(* address that the interface is to have, Current: the client's oldAddr    *)
(* until acquired has installed the new one, and the new one from then on. *)
(* A running f is for Current, a signal in fDone is that of the f of       *)
(* Current, and there is never both.                                       *)
(***************************************************************************)
EXTENDS NetLifecycle, TLAPS

\* The prover, unless a step names another.
USE SMTT(30)

Current == IF step = "return" THEN call.new ELSE oldAddr

\* The arguments of a call are what the client has recorded.
CallInv ==
    InCallback =>
        /\ call.old = oldAddr
        /\ pc = "callback" => call.new = addr /\ addr \in Addrs
        /\ pc # "callback" => call.new = NoAddr /\ oldAddr # NoAddr

StepInv ==
    /\ step \in {"none", "renewed", "cancel", "await", "add", "return", "panic"}
    /\ step # "none" => InCallback
    /\ step = "renewed" => call.old = call.new
    /\ child \in [Addrs -> childStates] /\ fDone \in {0, 1}

ChildInv ==
    /\ \A x \in Addrs :
          Live(x) => fDone = 0 /\ step # "add" /\ Current = x /\ nic = {x} /\ routed = x
    /\ fDone = 1 => step # "add" /\ Current # NoAddr /\ nic = {Current}
    /\ nic \subseteq {Current} \ {NoAddr}
    /\ step = "add" => nic = {}

\* f ends only when its context is done.
EndInv == fDone = 1 \/ (\E x \in Addrs : child[x] = "exiting") => ContextDone

\* Unless an address could not be added, Current is installed and has its f.
LeaseInv ==
    ~addFailed /\ step # "add" /\ Current # NoAddr =>
        nic = {Current} /\ Current \in Addrs /\ (Live(Current) \/ fDone = 1)

StopInv == pc \in {"stopped", "panic"} => oldAddr = NoAddr

LifecycleInv == CallInv /\ StepInv /\ ChildInv /\ EndInv /\ LeaseInv /\ StopInv
-----------------------------------------------------------------------------
LEMMA LifecycleInit ==
    NetInit => LifecycleInv
BY ClientConstants DEF NetInit, ClientInit, LifecycleInv, CallInv, StepInv, ChildInv, EndInv,
    LeaseInv, StopInv, InCallback, Live, Current, childStates

\* What a step of the client leaves alone: all that acquired works with.
LEMMA ClientFrame ==
    ASSUME CallInv, StopInv, ClientNext
    PROVE  /\ oldAddr' = oldAddr /\ (ctxDone => ctxDone')
           /\ InCallback => UNCHANGED <<pc, addr, call>>
           /\ CallInv' /\ StopInv'
<1>1. CASE AcquireStep
    BY <1>1 DEF CallInv, StopInv, AcquireStep, AcquireFails, Acquired, InCallback
<1>2. CASE RunStep
    BY <1>2 DEF CallInv, StopInv, RunStep, Decide, Panics, WaitEnds, Advance, Stop, Expires,
                InCallback
<1>3. CASE Cancel \/ Tick \/ \E k \in Jumps : SetTime(k)
    BY <1>3 DEF CallInv, StopInv, Cancel, Tick, SetTime, PassTime, InCallback
<1> QED
    BY <1>1, <1>2, <1>3 DEF ClientNext

LEMMA ClientStep ==
    ASSUME LifecycleInv, ClientNext, UNCHANGED netVars
    PROVE  LifecycleInv'
<1>1. /\ oldAddr' = oldAddr /\ (ctxDone => ctxDone')
      /\ InCallback => UNCHANGED <<pc, addr, call>>
      /\ CallInv' /\ StopInv'
    BY ClientFrame DEF LifecycleInv
<1>2. step # "none" => InCallback
    BY DEF LifecycleInv, StepInv
<1>3. StepInv'
    BY <1>1, <1>2 DEF LifecycleInv, StepInv, InCallback, netVars
<1>4. Current' = Current
    BY <1>1, <1>2 DEF Current, netVars
<1>5. ChildInv' /\ LeaseInv'
    BY <1>4 DEF LifecycleInv, ChildInv, LeaseInv, Live, netVars
<1>6. EndInv'
    BY <1>1 DEF LifecycleInv, EndInv, ContextDone, netVars
<1> QED
    BY <1>1, <1>3, <1>5, <1>6 DEF LifecycleInv
-----------------------------------------------------------------------------
LEMMA EnterStep ==
    ASSUME LifecycleInv, Enter
    PROVE  LifecycleInv'
<1>1. /\ step = "none" /\ step' = FirstStep /\ InCallback
      /\ UNCHANGED <<clientVars, nic, routed, cancelled, child, fDone, cfgVars, addFailed>>
    BY DEF Enter
<1>2. UNCHANGED <<pc, addr, oldAddr, call, ctxDone>>
    BY <1>1 DEF clientVars
<1>3. CallInv' /\ StopInv' /\ EndInv'
    BY <1>1, <1>2 DEF LifecycleInv, CallInv, StopInv, EndInv, ContextDone, InCallback
<1>4. StepInv'
    BY <1>1, <1>2 DEF LifecycleInv, StepInv, FirstStep, InCallback
<1>5. Current' = Current /\ Current = oldAddr
    BY <1>1, <1>2 DEF Current, FirstStep
<1>6. step' = "add" => oldAddr = NoAddr
    BY <1>1 DEF FirstStep, LifecycleInv, CallInv
<1>7. ChildInv' /\ LeaseInv'
    BY <1>1, <1>5, <1>6, ClientConstants DEF LifecycleInv, ChildInv, LeaseInv, Live
<1> QED
    BY <1>3, <1>4, <1>7 DEF LifecycleInv

LEMMA RenewedStep ==
    ASSUME LifecycleInv, Renewed
    PROVE  LifecycleInv'
<1>1. /\ step = "renewed" /\ step' = "return" /\ routed' = call.new /\ InCallback
      /\ UNCHANGED <<clientVars, nic, cancelled, child, fDone, cfgVars, addFailed>>
    BY DEF Renewed, LifecycleInv, StepInv
<1>2. UNCHANGED <<pc, addr, oldAddr, call, ctxDone>>
    BY <1>1 DEF clientVars
<1>3. CallInv' /\ StopInv' /\ EndInv' /\ StepInv'
    BY <1>1, <1>2 DEF LifecycleInv, CallInv, StopInv, EndInv, StepInv, ContextDone, InCallback
<1>4. Current' = Current /\ call.new = Current
    BY <1>1, <1>2 DEF LifecycleInv, CallInv, StepInv, Current
<1>5. ChildInv' /\ LeaseInv'
    BY <1>1, <1>4 DEF LifecycleInv, ChildInv, LeaseInv, Live
<1> QED
    BY <1>3, <1>5 DEF LifecycleInv

LEMMA CancelStep ==
    ASSUME LifecycleInv, CancelChild
    PROVE  LifecycleInv'
<1>1. /\ step = "cancel" /\ step' \in {"panic", "await"} /\ InCallback
      /\ cancelled' \in {cancelled, "yes"}
      /\ UNCHANGED <<clientVars, nic, routed, child, fDone, cfgVars, addFailed>>
    BY DEF CancelChild, afterCancel, LifecycleInv, StepInv
<1>2. UNCHANGED <<pc, addr, oldAddr, call, ctxDone>>
    BY <1>1 DEF clientVars
<1>3. CallInv' /\ StopInv' /\ EndInv' /\ StepInv'
    BY <1>1, <1>2 DEF LifecycleInv, CallInv, StopInv, EndInv, StepInv, ContextDone, InCallback
<1>4. Current' = Current
    BY <1>1, <1>2 DEF Current
<1>5. ChildInv' /\ LeaseInv'
    BY <1>1, <1>4 DEF LifecycleInv, ChildInv, LeaseInv, Live
<1> QED
    BY <1>3, <1>5 DEF LifecycleInv

\* The signal is that of the only f, so none runs when the address is removed.
LEMMA AwaitStep ==
    ASSUME LifecycleInv, AwaitChild
    PROVE  LifecycleInv'
<1>1. /\ step = "await" /\ step' = "add" /\ fDone > 0 /\ fDone' = fDone - 1 /\ InCallback
      /\ nic' = nic \ {call.old}
      /\ UNCHANGED <<clientVars, routed, cancelled, child, cfgVars, addFailed>>
    BY DEF AwaitChild, RemoveAddress, LifecycleInv, StepInv
<1>2. UNCHANGED <<pc, addr, oldAddr, call, ctxDone>>
    BY <1>1 DEF clientVars
<1>3. fDone = 1 /\ fDone' = 0
    BY <1>1 DEF LifecycleInv, StepInv
<1>4. CallInv' /\ StopInv' /\ EndInv' /\ StepInv'
    BY <1>1, <1>2, <1>3 DEF LifecycleInv, CallInv, StopInv, EndInv, StepInv, ContextDone, InCallback
<1>5. \A x \in Addrs : ~Live(x)
    BY <1>3 DEF LifecycleInv, ChildInv
<1>6. nic' = {}
    BY <1>1 DEF LifecycleInv, ChildInv, CallInv, Current
<1>7. ChildInv' /\ LeaseInv'
    BY <1>1, <1>3, <1>5, <1>6 DEF ChildInv, LeaseInv, Live
<1> QED
    BY <1>4, <1>7 DEF LifecycleInv

LEMMA AddStep ==
    ASSUME LifecycleInv, AddAddress
    PROVE  LifecycleInv'
<1>1. /\ step = "add" /\ step' = "return" /\ InCallback
      /\ UNCHANGED <<clientVars, fDone, cfgVars>>
    BY DEF AddAddress, LifecycleInv, StepInv
<1>2. UNCHANGED <<pc, addr, oldAddr, call, ctxDone>>
    BY <1>1 DEF clientVars
<1>3. CallInv' /\ StopInv'
    BY <1>1, <1>2 DEF LifecycleInv, CallInv, StopInv, InCallback
<1>4. nic = {} /\ fDone = 0 /\ fDone' = 0 /\ Current' = call.new /\ \A x \in Addrs : ~Live(x)
    BY <1>1, <1>2 DEF LifecycleInv, ChildInv, StepInv, Current
<1>5. call.new # NoAddr => call.new \in Addrs
    BY <1>1 DEF LifecycleInv, CallInv
<1>6. CASE UNCHANGED <<nic, child, cancelled>> /\ (call.new = NoAddr \/ addFailed')
    BY <1>1, <1>2, <1>3, <1>4, <1>6
       DEF LifecycleInv, StepInv, ChildInv, EndInv, LeaseInv, Live, InCallback, ContextDone
<1>7. CASE /\ call.new # NoAddr /\ nic' = nic \cup {call.new} /\ routed' = call.new
           /\ cancelled' = "no" /\ child' = [child EXCEPT ![call.new] = "start"]
    <2>1. child' \in [Addrs -> childStates]
        BY <1>7, Zenon DEF LifecycleInv, StepInv, childStates
    <2>2. child'[call.new] = "start" /\ \A x \in Addrs : x # call.new => child'[x] = "none"
        BY <1>4, <1>5, <1>7 DEF LifecycleInv, StepInv, Live
    <2>3. StepInv'
        BY <1>1, <1>2, <1>4, <2>1 DEF LifecycleInv, StepInv, InCallback
    <2>4. ChildInv' /\ EndInv' /\ LeaseInv'
        BY <1>1, <1>4, <1>5, <1>7, <2>2 DEF ChildInv, EndInv, LeaseInv, Live
    <2> QED
        BY <1>3, <2>3, <2>4 DEF LifecycleInv
<1> QED
    BY <1>6, <1>7 DEF AddAddress

LEMMA ReturnsStep ==
    ASSUME LifecycleInv, AcquiredReturns
    PROVE  LifecycleInv'
<1>1. /\ step = "return" /\ step' = "none" /\ ReturnStep /\ InCallback
      /\ UNCHANGED <<nic, routed, cancelled, child, fDone, cfgVars, addFailed>>
    BY DEF AcquiredReturns, LifecycleInv, StepInv
<1>2. /\ oldAddr' = call.new /\ ctxDone' = ctxDone /\ ~InCallback'
      /\ pc' \in {"stopped", "panic"} => oldAddr' = NoAddr
    BY <1>1 DEF ReturnStep, CallbackReturns, CleanupReturns, LastCallReturns, afterCleanup,
                InCallback, LifecycleInv, CallInv
<1>3. Current' = Current
    BY <1>1, <1>2 DEF Current
<1>4. CallInv' /\ StopInv' /\ StepInv' /\ EndInv'
    BY <1>1, <1>2 DEF LifecycleInv, CallInv, StopInv, StepInv, EndInv, ContextDone
<1>5. ChildInv' /\ LeaseInv'
    BY <1>1, <1>3 DEF LifecycleInv, ChildInv, LeaseInv, Live
<1> QED
    BY <1>4, <1>5 DEF LifecycleInv
-----------------------------------------------------------------------------
\* A step of f that does not end its goroutine.
LEMMA FRuns ==
    ASSUME LifecycleInv, NEW x \in Addrs, Live(x), NEW s \in childStates \ {"none"},
           To(x, s), s = "exiting" => ContextDone,
           UNCHANGED <<pc, addr, oldAddr, call, ctxDone, step, nic, routed, cancelled, fDone, addFailed>>
    PROVE  LifecycleInv'
<1>1. /\ child' \in [Addrs -> childStates]
      /\ child'[x] = s /\ \A y \in Addrs : y # x => child'[y] = child[y]
    BY DEF To, LifecycleInv, StepInv
<1>2. CallInv' /\ StopInv' /\ StepInv' /\ Current' = Current
    BY <1>1 DEF LifecycleInv, CallInv, StopInv, StepInv, InCallback, Current
<1>3. \A y \in Addrs : Live(y)' <=> Live(y)
    BY <1>1 DEF Live
<1>4. ChildInv' /\ LeaseInv'
    BY <1>2, <1>3 DEF LifecycleInv, ChildInv, LeaseInv, Live
<1>5. EndInv'
    BY <1>1 DEF LifecycleInv, EndInv, ContextDone
<1> QED
    BY <1>2, <1>4, <1>5 DEF LifecycleInv

LEMMA SignalStep ==
    ASSUME LifecycleInv, NEW x \in Addrs, FSignals(x)
    PROVE  LifecycleInv'
<1>1. /\ child[x] = "exiting" /\ fDone = 0 /\ fDone' = 1 /\ To(x, "none")
      /\ UNCHANGED <<clientVars, step, nic, routed, cancelled, addFailed>>
    BY DEF FSignals
<1>2. UNCHANGED <<pc, addr, oldAddr, call, ctxDone>>
    BY <1>1 DEF clientVars
<1>3. /\ child' \in [Addrs -> childStates]
      /\ child'[x] = "none" /\ \A y \in Addrs : y # x => child'[y] = child[y]
    BY <1>1 DEF To, LifecycleInv, StepInv, childStates
<1>4. CallInv' /\ StopInv' /\ StepInv' /\ Current' = Current
    BY <1>1, <1>2, <1>3 DEF LifecycleInv, CallInv, StopInv, StepInv, InCallback, Current
<1>5. step # "add" /\ Current = x /\ nic = {x} /\ \A y \in Addrs : y # x => ~Live(y)
    BY <1>1 DEF LifecycleInv, ChildInv, Live
<1>6. ChildInv' /\ LeaseInv'
    BY <1>1, <1>3, <1>4, <1>5, ClientConstants DEF ChildInv, LeaseInv, Live
<1>7. EndInv'
    BY <1>1, <1>2 DEF LifecycleInv, EndInv, ContextDone
<1> QED
    BY <1>4, <1>6, <1>7 DEF LifecycleInv

LEMMA FStepInv ==
    ASSUME LifecycleInv, NEW x \in Addrs, FStep(x)
    PROVE  LifecycleInv'
<1>1. CASE FSignals(x)
    BY <1>1, SignalStep
<1>2. CASE ~FSignals(x)
    <2>1. UNCHANGED <<pc, addr, oldAddr, call, ctxDone, step, nic, routed, cancelled, fDone, addFailed>>
        BY <1>2 DEF FStep, FStart, FSynced, FFails, FCanceled, PassTime, clientVars
    <2>2. PICK s \in childStates \ {"none"} : To(x, s) /\ (s = "exiting" => ContextDone)
        BY <1>2 DEF FStep, FStart, FSynced, FFails, FCanceled, childStates, afterError,
                    afterCanceled
    <2>3. Live(x)
        BY <1>2 DEF FStep, FStart, FSynced, FFails, FCanceled, Live
    <2> QED
        BY <2>1, <2>2, <2>3, FRuns
<1> QED
    BY <1>1, <1>2

LEMMA LifecycleNext ==
    ASSUME LifecycleInv, [NetNext]_allVars
    PROVE  LifecycleInv'
<1>1. CASE UNCHANGED allVars
    BY <1>1 DEF allVars, netVars, clientVars, LifecycleInv, CallInv, StepInv, ChildInv, EndInv,
                LeaseInv, StopInv, InCallback, Live, Current, ContextDone
<1>2. CASE NetNext
    BY <1>2, ClientStep, EnterStep, RenewedStep, CancelStep, AwaitStep, AddStep, ReturnsStep,
       FStepInv DEF NetNext, AcquiredStep
<1> QED
    BY <1>1, <1>2
-----------------------------------------------------------------------------
(***************************************************************************)
(* acquired installs an address only when the previous f has ended and its *)
(* signal was received (net.go:120-136).                                   *)
(***************************************************************************)
THEOREM NoChildBeforeAdd == NetSpec => []ChildGoneBeforeAdd
<1>1. LifecycleInv => ChildGoneBeforeAdd
    BY DEF LifecycleInv, StepInv, ChildInv, ChildGoneBeforeAdd
<1> QED
    BY <1>1, LifecycleInit, LifecycleNext, PTL DEF NetSpec

(***************************************************************************)
(* f runs only while its address is on the interface and routed, however   *)
(* leases, failures and signals interleave (net.go:120-170).               *)
(***************************************************************************)
THEOREM RunningHasAddress == NetSpec => []ChildHasAddress
<1>1. LifecycleInv => ChildHasAddress
    BY DEF LifecycleInv, ChildInv, ChildHasAddress
<1> QED
    BY <1>1, LifecycleInit, LifecycleNext, PTL DEF NetSpec

(***************************************************************************)
(* Between two calls the interface has the address that the client         *)
(* reported last, as long as no address failed to be added.                *)
(***************************************************************************)
THEOREM InterfaceHasLease == NetSpec => []InterfaceFollowsLease
<1>1. LifecycleInv => InterfaceFollowsLease
    BY DEF LifecycleInv, ChildInv, LeaseInv, InterfaceFollowsLease, Current
<1> QED
    BY <1>1, LifecycleInit, LifecycleNext, PTL DEF NetSpec

(***************************************************************************)
(* A renewal finds f running, as long as no address failed to be added     *)
(* (net.go:110-117).                                                       *)
(***************************************************************************)
THEOREM RenewalHasChild == NetSpec => []RenewalFindsChild
<1>1. LifecycleInv => RenewalFindsChild
    <2> SUFFICES ASSUME LifecycleInv, ~addFailed, step = "renewed", ~ContextDone
                 PROVE  Live(call.new)
        BY DEF RenewalFindsChild
    <2>1. fDone # 1 /\ Current = call.new
        BY DEF LifecycleInv, EndInv, StepInv, CallInv, Current
    <2>2. call.new # NoAddr
        BY ClientConstants DEF LifecycleInv, StepInv, CallInv, InCallback
    <2> QED
        BY <2>1, <2>2 DEF LifecycleInv, LeaseInv
<1> QED
    BY <1>1, LifecycleInit, LifecycleNext, PTL DEF NetSpec

(***************************************************************************)
(* When the client has returned, and runDHCP closes fDone, no f is left to *)
(* send on it (net.go:102).                                                *)
(***************************************************************************)
THEOREM NoChildAfterStop == NetSpec => []NoSendOnClosed
<1>1. LifecycleInv => NoSendOnClosed
    BY ClientConstants, Zenon DEF LifecycleInv, StepInv, ChildInv, StopInv, NoSendOnClosed, Current,
       InCallback
<1> QED
    BY <1>1, LifecycleInit, LifecycleNext, PTL DEF NetSpec
-----------------------------------------------------------------------------
(***************************************************************************)
(* acquired and f do not wait for each other in vain: what makes           *)
(* AcquiredCompletes true (net.go:120-126).  Unless an address could not   *)
(* be added, acquired has a context to cancel, and receives from fDone     *)
(* only after it has cancelled the context of an f that is still to send   *)
(* or has sent.  The send of f never blocks, even then.                    *)
(***************************************************************************)
NoVainWait ==
    /\ ~addFailed =>
          /\ step # "panic"
          /\ step = "await" => cancelled = "yes" /\ (Live(call.old) \/ fDone = 1)
    /\ \A x \in Addrs : child[x] = "exiting" => fDone = 0

WaitInv ==
    /\ step \in {"cancel", "await"} => call.old # NoAddr
    /\ step = "await" => cancelled = "yes"
    /\ fDone = 1 \/ (\E x \in Addrs : Live(x)) => cancelled # "nil"
    /\ ~addFailed => step # "panic"

LEMMA WaitStep ==
    ASSUME LifecycleInv, WaitInv, [NetNext]_allVars
    PROVE  WaitInv'
<1>1. CASE ClientNext /\ UNCHANGED netVars
    <2>1. step # "none" => call' = call
        BY <1>1, ClientFrame DEF LifecycleInv, StepInv
    <2>2. UNCHANGED <<step, cancelled, fDone, child, addFailed>>
        BY <1>1 DEF netVars
    <2> QED
        BY <2>1, <2>2 DEF WaitInv, Live
<1>2. CASE Enter
    <2>1. step' \in {"cancel", "await"} => call.old # NoAddr
        BY <1>2 DEF Enter, FirstStep
    <2>2. UNCHANGED <<call, cancelled, fDone, child, addFailed>>
        BY <1>2 DEF Enter, clientVars
    <2>3. step' \notin {"await", "panic"}
        BY <1>2 DEF Enter, FirstStep
    <2> QED
        BY <2>1, <2>2, <2>3 DEF WaitInv, Live
<1>3. CASE CancelChild
    <2>1. /\ step = "cancel" /\ call' = call /\ UNCHANGED <<fDone, child, addFailed>>
          /\ IF cancelled = "nil" THEN step' = "panic" /\ cancelled' = cancelled
             ELSE step' = "await" /\ cancelled' = "yes"
        BY <1>3 DEF CancelChild, afterCancel, clientVars
    <2>2. ~addFailed => cancelled # "nil"
        <3>1. Current = oldAddr /\ oldAddr = call.old /\ call.old # NoAddr
            BY <2>1 DEF LifecycleInv, StepInv, CallInv, WaitInv, Current
        <3> QED
            BY <2>1, <3>1 DEF LifecycleInv, LeaseInv, WaitInv
    <2> QED
        BY <2>1, <2>2 DEF WaitInv, Live
<1>4. CASE AwaitChild
    <2>1. /\ step' = "add" /\ fDone' = fDone - 1 /\ fDone = 1
          /\ UNCHANGED <<cancelled, child, addFailed>>
        BY <1>4 DEF AwaitChild, LifecycleInv, StepInv
    <2> QED
        BY <2>1 DEF WaitInv, Live
<1>5. CASE AddAddress
    <2>1. /\ step' = "return" /\ fDone' = fDone
          /\ cancelled' = "no" \/ UNCHANGED <<cancelled, child>>
        BY <1>5 DEF AddAddress
    <2> QED
        BY <2>1 DEF WaitInv, Live
<1>6. CASE Renewed \/ AcquiredReturns
    <2>1. step' \in {"return", "none"} /\ UNCHANGED <<cancelled, fDone, child>>
        BY <1>6 DEF Renewed, AcquiredReturns
    <2> QED
        BY <2>1 DEF WaitInv, Live
<1>7. ASSUME NEW x \in Addrs, FStep(x) PROVE WaitInv'
    <2>1. /\ UNCHANGED <<call, step, cancelled, addFailed>> /\ Live(x)
          /\ \A y \in Addrs : y # x => child'[y] = child[y]
        BY <1>7 DEF FStep, FStart, FSynced, FFails, FCanceled, FSignals, To, Live, clientVars,
                    LifecycleInv, StepInv
    <2>2. cancelled # "nil"
        BY <2>1 DEF WaitInv
    <2> QED
        BY <2>1, <2>2 DEF WaitInv
<1>8. CASE UNCHANGED allVars
    BY <1>8 DEF allVars, netVars, clientVars, WaitInv, Live
<1> QED
    BY <1>1, <1>2, <1>3, <1>4, <1>5, <1>6, <1>7, <1>8 DEF NetNext, AcquiredStep

\* For any number of addresses, whatever the client, the clock and f do.
THEOREM NobodyWaitsInVain == NetSpec => []NoVainWait
<1>1. NetInit => WaitInv
    BY DEF NetInit, WaitInv, Live
<1>2. LifecycleInv /\ WaitInv => NoVainWait
    <2> SUFFICES ASSUME LifecycleInv, WaitInv PROVE NoVainWait
        OBVIOUS
    <2>1. ASSUME ~addFailed, step = "await" PROVE Live(call.old) \/ fDone = 1
        <3>1. Current = oldAddr /\ oldAddr = call.old /\ call.old # NoAddr
            BY <2>1 DEF LifecycleInv, StepInv, CallInv, WaitInv, Current
        <3> QED
            BY <2>1, <3>1 DEF LifecycleInv, LeaseInv
    <2>2. \A x \in Addrs : child[x] = "exiting" => fDone = 0
        BY DEF LifecycleInv, ChildInv, Live
    <2> QED
        BY <2>1, <2>2 DEF NoVainWait, WaitInv
<1> QED
    BY <1>1, <1>2, WaitStep, LifecycleInit, LifecycleNext, PTL DEF NetSpec
-----------------------------------------------------------------------------
(***************************************************************************)
(* The client by itself: its types, and that it does not panic as long as  *)
(* the clock is not set back.  While the client waits before T1, its timer *)
(* runs at least until T1.                                                 *)
(***************************************************************************)
LEMMA OfferTimes ==
    ASSUME NEW o \in Offers
    PROVE  /\ Normalise(o).LeaseLength \in Int /\ Normalise(o).RenewTime \in Int
           /\ Normalise(o).RebindTime \in Int
<1>1. /\ o.LeaseLength \in Nat /\ o.RenewTime \in Nat /\ o.RebindTime \in Nat
      /\ defaultLeaseLength \in Nat /\ SecondsLimit \in Nat \ {0}
    BY ClientConstants DEF Offer
<1>2. ASSUME NEW n \in Nat
      PROVE  n \div 2 \in Int /\ ((n * 875) % SecondsLimit) \div 1000 \in Int
    <2>1. (n * 875) % SecondsLimit \in Nat
        BY <1>1
    <2> QED
        BY <2>1
<1> QED
    BY <1>1, <1>2 DEF Normalise

LEMMA PassTimeType ==
    ASSUME TypeOK, NEW k \in Int, PassTime(k)
    PROVE  /\ toRenew' \in Int /\ toRebind' \in Int /\ toExpire' \in Int /\ timeout' \in Int
           /\ timer' \in Int /\ timer' >= Unset
BY ClientConstants DEF TypeOK, PassTime, Earlier, TimerAfter, Past, Unset, Fired

\* A step that only sets the clock.
LEMMA ClockType ==
    ASSUME TypeOK, NEW k \in Int, PassTime(k),
           UNCHANGED <<pc, state, addr, oldAddr, next, call, ctxDone>>,
           elapsed' \in 0 .. MaxDelay, jumps' \subseteq Jumps
    PROVE  TypeOK'
BY PassTimeType DEF TypeOK

LEMMA TypeStep ==
    ASSUME TypeOK, Next
    PROVE  TypeOK'
<1>1. ASSUME NEW x \in Addrs, NEW o \in Offers, Acquired(x, o) PROVE TypeOK'
    BY <1>1, OfferTimes, ClientConstants DEF Acquired, TypeOK
<1>2. CASE AcquireFails
    BY <1>2 DEF AcquireFails, TypeOK, times
<1>3. CASE Decide
    <2>1. Armed \in Int /\ Armed >= Unset /\ Decision \in {"initSelecting", "renewing", "rebinding"}
        BY ClientConstants DEF TypeOK, Armed, waitDuration, TooEarly, Decision, Unset
    <2> QED
        BY <1>3, <2>1 DEF Decide, TypeOK, times
<1>4. CASE WaitEnds
    BY <1>4 DEF WaitEnds, TypeOK, times, Drained, Unset
<1>14. CASE Panics
    BY <1>14, ClientConstants DEF Panics, TypeOK, times
<1>5. \A s \in {"initSelecting", "renewing", "rebinding"} : acquisitionTimeout(s) \in Int
    BY ClientConstants DEF acquisitionTimeout, Least, TypeOK
<1>6. CASE Advance
    BY <1>5, <1>6, ClientConstants DEF Advance, TypeOK, times
<1>7. CASE Stop
    BY <1>7, ClientConstants DEF Stop, TypeOK, times
<1>8. CASE CallbackReturns
    BY <1>8, ClientConstants DEF CallbackReturns, TypeOK, times, NoCall
<1>9. CASE CleanupReturns
    BY <1>5, <1>9, ClientConstants DEF CleanupReturns, TypeOK, times, NoCall, afterCleanup
<1>10. CASE LastCallReturns
    BY <1>10, ClientConstants DEF LastCallReturns, TypeOK, times, NoCall, afterCleanup
<1>11. CASE Cancel
    BY <1>11 DEF Cancel, TypeOK, times
<1>12. CASE Tick
    <2>1. elapsed' \in 0 .. MaxDelay
        BY <1>12, ClientConstants DEF Tick, TypeOK, Waiting, InCallback
    <2> QED
        BY <1>12, <2>1, ClockType DEF Tick, TypeOK
<1>13. ASSUME NEW k \in Jumps, SetTime(k) PROVE TypeOK'
    <2>1. k \in Int /\ jumps' \subseteq Jumps /\ elapsed' \in 0 .. MaxDelay
        BY <1>13, ClientConstants DEF SetTime, TypeOK
    <2> QED
        BY <1>13, <2>1, ClockType DEF SetTime
<1> QED
    BY <1>1, <1>2, <1>3, <1>4, <1>6, <1>7, <1>8, <1>9, <1>10, <1>11, <1>12, <1>13, <1>14
       DEF Next, ClientNext, AcquireStep, RunStep, ReturnStep

LEMMA TypeInit ==
    ClientInit => TypeOK
<1> SUFFICES ASSUME ClientInit PROVE TypeOK
    OBVIOUS
<1>1. toRenew \in Int /\ toRebind \in Int /\ toExpire \in Int /\ timeout \in Int
    BY ClientConstants DEF ClientInit, Past
<1>2. timer \in Int /\ timer >= Unset
    BY DEF ClientInit, Unset
<1>3. elapsed \in 0 .. MaxDelay
    BY ClientConstants DEF ClientInit
<1> QED
    BY <1>1, <1>2, <1>3, Zenon DEF ClientInit, TypeOK, NoCall

\* Type correctness of the client by itself.
THEOREM ClientTypeCorrect == Spec => []TypeOK
<1>1. ClientInit => TypeOK
    BY TypeInit
<1>2. TypeOK /\ UNCHANGED clientVars => TypeOK'
    BY DEF TypeOK, clientVars, times
<1> QED
    BY <1>1, <1>2, TypeStep, PTL DEF Spec

\* Type correctness of the client with the callback and f.
THEOREM NetTypeCorrect == NetSpec => []NetTypeOK
<1>1. NetInit => NetTypeOK
    <2> SUFFICES ASSUME NetInit PROVE NetTypeOK
        OBVIOUS
    <2>1. child \in [Addrs -> childStates] /\ fDone \in 0 .. 1
        BY DEF NetInit, childStates
    <2> QED
        BY <2>1, TypeInit, Zenon DEF NetInit, NetTypeOK
<1>2. ASSUME NetTypeOK, UNCHANGED clientVars PROVE TypeOK'
    BY <1>2 DEF NetTypeOK, TypeOK, clientVars, times
<1>3. ASSUME NetTypeOK, [NetNext]_allVars PROVE NetTypeOK'
    <2>1. CASE ClientNext /\ UNCHANGED netVars
        BY <1>3, <2>1, TypeStep DEF NetTypeOK, Next, netVars, cfgVars
    <2>2. CASE Enter \/ Renewed \/ CancelChild \/ AwaitChild
        BY <1>2, <1>3, <2>2
           DEF Enter, Renewed, CancelChild, AwaitChild, FirstStep, afterCancel, RemoveAddress,
               NetTypeOK, TypeOK, cfgVars
    <2>3. CASE AddAddress
        BY <1>2, <1>3, <2>3, Zenon DEF AddAddress, NetTypeOK, TypeOK, cfgVars, childStates
    <2>4. CASE AcquiredReturns
        BY <1>3, <2>4, TypeStep DEF AcquiredReturns, NetTypeOK, Next, cfgVars
    <2>5. ASSUME NEW x \in Addrs, FStep(x) PROVE NetTypeOK'
        <3>1. CASE FStart(x) \/ FFails(x) \/ FCanceled(x) \/ FSignals(x)
            BY <1>2, <1>3, <3>1
               DEF FStart, FFails, FCanceled, FSignals, To, afterError, afterCanceled, NetTypeOK,
                   cfgVars, childStates
        <3>2. CASE FSynced(x)
            <4>1. ColdStartJump \in Int
                BY ClientConstants DEF ColdStartJump
            <4>2. TypeOK'
                <5>1. CASE clockSet
                    BY <1>2, <1>3, <3>2, <5>1 DEF FSynced
                <5>2. CASE ~clockSet
                    BY <1>3, <3>2, <4>1, <5>2, ClockType DEF FSynced, NetTypeOK, TypeOK
                <5> QED
                    BY <5>1, <5>2
            <4> QED
                BY <1>3, <3>2, <4>2 DEF FSynced, To, NetTypeOK, childStates
        <3> QED
            BY <2>5, <3>1, <3>2 DEF FStep
    <2>6. CASE UNCHANGED allVars
        BY <1>2, <1>3, <2>6 DEF NetTypeOK, allVars, netVars, cfgVars
    <2> QED
        BY <1>3, <2>1, <2>2, <2>3, <2>4, <2>5, <2>6 DEF NetNext, AcquiredStep
<1> QED
    BY <1>1, <1>3, PTL DEF NetSpec

ForwardOnly == \A k \in jumps : ~(k < 0)

EarlyInv ==
    /\ TypeOK
    /\ pc = "cleanup" => next = "initSelecting"
    /\ ForwardOnly =>
          /\ pc \notin {"panicking", "panic"}
          /\ state \in {"renewing", "rebinding"} /\ pc # "callback" => ~TooEarly
          /\ pc = "advance" /\ next # "initSelecting" => ~TooEarly
          /\ pc = "wait" /\ TooEarly => timer > 0 /\ toRenew <= timer

\* Where the time passes, forward.
LEMMA TimeEarly ==
    ASSUME EarlyInv, NEW k \in Int, PassTime(k), TypeOK',
           UNCHANGED <<pc, state, next>>, ForwardOnly' => ForwardOnly /\ k >= 0
    PROVE  EarlyInv'
<1>1. ASSUME k >= 0, TooEarly' PROVE TooEarly
    BY <1>1, ClientConstants DEF EarlyInv, TypeOK, TooEarly, PassTime, Earlier, Past
<1>2. ASSUME k >= 0, TooEarly', timer > 0, toRenew <= timer
      PROVE  timer' > 0 /\ toRenew' <= timer'
    BY <1>2, ClientConstants
       DEF EarlyInv, TypeOK, TooEarly, PassTime, Earlier, Past, TimerAfter, Fired
<1> QED
    BY <1>1, <1>2 DEF EarlyInv

LEMMA EarlyStep ==
    ASSUME EarlyInv, Next
    PROVE  EarlyInv'
<1>0. TypeOK'
    BY TypeStep DEF EarlyInv
<1>1. ASSUME NEW x \in Addrs, NEW o \in Offers, Acquired(x, o) PROVE EarlyInv'
    BY <1>0, <1>1 DEF Acquired, EarlyInv, ForwardOnly
<1>2. CASE AcquireFails
    BY <1>0, <1>2 DEF AcquireFails, EarlyInv, ForwardOnly, TooEarly, times
<1>3. CASE Decide
    <2>1. ForwardOnly' <=> ForwardOnly
        BY <1>3 DEF Decide, ForwardOnly
    <2>2. TooEarly' <=> TooEarly
        BY <1>3 DEF Decide, TooEarly, times
    <2>3. ASSUME TooEarly, ForwardOnly PROVE pc' = "wait" /\ timer' > 0 /\ toRenew' <= timer'
        BY <1>3, <2>3
           DEF Decide, EarlyInv, TypeOK, TooEarly, Decision, Armed, waitDuration, times
    <2> QED
        BY <1>0, <1>3, <2>1, <2>2, <2>3 DEF Decide, EarlyInv
<1>4. CASE Panics
    BY <1>0, <1>4 DEF Panics, EarlyInv, ForwardOnly
<1>5. CASE WaitEnds
    <2>1. ASSUME TooEarly, ForwardOnly PROVE pc' # "advance"
        BY <1>5, <2>1 DEF WaitEnds, EarlyInv, Fired
    <2> QED
        BY <1>0, <1>5, <2>1 DEF WaitEnds, EarlyInv, ForwardOnly, TooEarly, times
<1>6. CASE Advance
    BY <1>0, <1>6 DEF Advance, Expires, EarlyInv, TypeOK, ForwardOnly, TooEarly, times
<1>7. CASE Stop \/ LastCallReturns \/ Cancel
    BY <1>0, <1>7 DEF Stop, LastCallReturns, Cancel, EarlyInv, ForwardOnly, TooEarly, times
<1>8. CASE CallbackReturns \/ CleanupReturns
    BY <1>0, <1>8 DEF CallbackReturns, CleanupReturns, EarlyInv, ForwardOnly, TooEarly, times
<1>9. CASE Tick
    BY <1>0, <1>9, TimeEarly DEF Tick, ForwardOnly
<1>10. ASSUME NEW k \in Jumps, SetTime(k) PROVE EarlyInv'
    <2>1. k \in Int /\ (ForwardOnly' => ForwardOnly /\ k >= 0)
        BY <1>10, ClientConstants DEF SetTime, ForwardOnly
    <2> QED
        BY <1>0, <1>10, <2>1, TimeEarly DEF SetTime
<1> QED
    BY <1>1, <1>2, <1>3, <1>4, <1>5, <1>6, <1>7, <1>8, <1>9, <1>10
       DEF Next, ClientNext, AcquireStep, RunStep, ReturnStep

(***************************************************************************)
(* The client panics over its own state (client.go:285) only if the clock  *)
(* was set back, whatever lease times the servers send, however long       *)
(* acquiredFunc takes and whenever the context ends.                       *)
(***************************************************************************)
THEOREM PanicNeedsSetBack == Spec => []NoPanic
<1>1. ClientInit => EarlyInv
    BY TypeInit DEF ClientInit, EarlyInv
<1>2. EarlyInv /\ UNCHANGED clientVars => EarlyInv'
    BY DEF EarlyInv, TypeOK, TooEarly, ForwardOnly, clientVars, times
<1>3. EarlyInv => NoPanic
    BY DEF EarlyInv, ForwardOnly, NoPanic
<1> QED
    BY <1>1, <1>2, <1>3, EarlyStep, PTL DEF Spec
-----------------------------------------------------------------------------
(***************************************************************************)
(* How the client comes to stall, the exception of ExpiredIsReleased and   *)
(* HeldWithinLease: only when acquiredFunc has returned and T1 is past by  *)
(* then (client.go:294-302), unless the clock was set back.  Retries,      *)
(* rebinding and the loss of a lease always arm the timer.                 *)
(***************************************************************************)
StallsLate ==
    ~Stalled /\ Stalled' /\ ForwardOnly =>
        /\ pc = "decide" /\ state = "bound"
        /\ toRenew <= 0 /\ toRebind > 0 /\ toExpire > 0

\* The state that the client is in, or goes to next, is due.
DueInv ==
    /\ EarlyInv
    /\ ForwardOnly =>
          /\ state = "initSelecting" /\ pc # "callback" => toExpire <= 0
          /\ state = "rebinding" /\ pc # "callback" => toExpire <= 0 \/ toRebind <= 0
          /\ next = "initSelecting" /\ pc \in {"wait", "advance", "cleanup"} => toExpire <= 0
          /\ next = "rebinding" /\ pc \in {"wait", "advance"} => toExpire <= 0 \/ toRebind <= 0

LEMMA TimeDue ==
    ASSUME DueInv, EarlyInv', NEW k \in Int, PassTime(k),
           UNCHANGED <<pc, state, next>>, ForwardOnly' => ForwardOnly /\ k >= 0
    PROVE  DueInv'
<1>1. ASSUME k >= 0
      PROVE  (toExpire <= 0 => toExpire' <= 0) /\ (toRebind <= 0 => toRebind' <= 0)
    BY <1>1, ClientConstants DEF DueInv, EarlyInv, TypeOK, PassTime, Earlier, Past
<1> QED
    BY <1>1 DEF DueInv

LEMMA DueStep ==
    ASSUME DueInv, Next
    PROVE  DueInv'
<1>0. EarlyInv'
    BY EarlyStep DEF DueInv
<1>1. ASSUME NEW x \in Addrs, NEW o \in Offers, Acquired(x, o) PROVE DueInv'
    BY <1>0, <1>1 DEF Acquired, DueInv, ForwardOnly
<1>2. CASE AcquireFails \/ Panics \/ WaitEnds \/ Stop \/ LastCallReturns \/ Cancel
    BY <1>0, <1>2 DEF AcquireFails, Panics, WaitEnds, Stop, LastCallReturns, Cancel, DueInv,
                      ForwardOnly, times
<1>3. CASE Decide
    BY <1>0, <1>3 DEF Decide, Decision, DueInv, ForwardOnly, times
<1>4. CASE Advance
    BY <1>0, <1>4 DEF Advance, Expires, DueInv, ForwardOnly, times
<1>5. CASE CallbackReturns
    BY <1>0, <1>5 DEF CallbackReturns, DueInv, ForwardOnly, times
<1>6. CASE CleanupReturns
    BY <1>0, <1>6 DEF CleanupReturns, DueInv, EarlyInv, ForwardOnly, times
<1>7. CASE Tick
    BY <1>0, <1>7, TimeDue DEF Tick, ForwardOnly
<1>8. ASSUME NEW k \in Jumps, SetTime(k) PROVE DueInv'
    <2>1. k \in Int /\ (ForwardOnly' => ForwardOnly /\ k >= 0)
        BY <1>8, ClientConstants DEF SetTime, ForwardOnly
    <2> QED
        BY <1>0, <1>8, <2>1, TimeDue DEF SetTime
<1> QED
    BY <1>1, <1>2, <1>3, <1>4, <1>5, <1>6, <1>7, <1>8
       DEF Next, ClientNext, AcquireStep, RunStep, ReturnStep

\* Whatever lease times the servers send and however long acquiredFunc takes.
THEOREM OnlyLateCallbackStalls == Spec => [][StallsLate]_clientVars
<1>1. ClientInit => DueInv
    <2>1. ClientInit => EarlyInv
        BY TypeInit DEF ClientInit, EarlyInv
    <2> QED
        BY <2>1, ClientConstants DEF ClientInit, DueInv, Past
<1>2. DueInv /\ [Next]_clientVars => DueInv'
    <2>1. DueInv /\ UNCHANGED clientVars => DueInv'
        BY DEF DueInv, EarlyInv, TypeOK, TooEarly, ForwardOnly, clientVars, times
    <2> QED
        BY <2>1, DueStep
<1>3. ASSUME DueInv, Next PROVE StallsLate
    <2> SUFFICES ASSUME ~Stalled, Stalled', ForwardOnly
                 PROVE  /\ pc = "decide" /\ state = "bound"
                        /\ toRenew <= 0 /\ toRebind > 0 /\ toExpire > 0
        BY DEF StallsLate
    <2>1. CASE Decide
        <3>1. pc = "decide" /\ pc' = "wait" /\ timer' = Armed /\ Armed = Drained
            BY <2>1 DEF Decide, Stalled
        <3>2. waitDuration = 0
            BY <3>1, ClientConstants
               DEF Armed, waitDuration, Drained, DueInv, EarlyInv, TypeOK, TooEarly
        <3>3. state # Decision /\ ~TooEarly
            BY <3>2, ClientConstants DEF waitDuration, TooEarly, DueInv, EarlyInv, TypeOK
        <3>4. Decision = "renewing"
            BY <2>1, <3>1, <3>3 DEF Decide
        <3>5. TypeOK
            BY <1>3 DEF DueInv, EarlyInv
        <3>6. toExpire > 0 /\ toRebind > 0 /\ toRenew <= 0
            BY <3>3, <3>4, <3>5 DEF Decision, TooEarly, TypeOK
        <3>7. ~(toExpire <= 0) /\ ~(toRebind <= 0) /\ state # "renewing"
            BY <3>3, <3>4, <3>5, <3>6 DEF TypeOK
        <3>8. state \notin {"initSelecting", "rebinding", "renewing"}
            BY <1>3, <3>1, <3>7 DEF DueInv
        <3> QED
            BY <3>1, <3>5, <3>6, <3>8 DEF TypeOK
    <2>2. CASE Tick \/ \E k \in Jumps : SetTime(k)
        BY <2>2 DEF Tick, SetTime, PassTime, TimerAfter, Stalled, Fired, Drained, DueInv, EarlyInv,
                    TypeOK
    <2>3. CASE ~Decide /\ ~Tick /\ ~(\E k \in Jumps : SetTime(k))
        BY <1>3, <2>3
           DEF Next, ClientNext, AcquireStep, RunStep, ReturnStep, AcquireFails, Acquired, Panics,
               WaitEnds, Advance, Cancel, Stop, CallbackReturns, CleanupReturns, LastCallReturns,
               Stalled
    <2> QED
        BY <2>1, <2>2, <2>3
<1>4. DueInv /\ [Next]_clientVars => [StallsLate]_clientVars
    BY <1>3
<1> QED
    BY <1>1, <1>2, <1>4, PTL DEF Spec
-----------------------------------------------------------------------------
(***************************************************************************)
(* How long an address is held.  A timer that runs while an address is     *)
(* held fires within a backoff of the end of the lease, or is the wait for *)
(* a T1 past that end; a renewal is over at T2 and a rebinding at the end  *)
(* of the lease.  Setting the clock moves both sides of these bounds.      *)
(***************************************************************************)
HoldInv ==
    /\ EarlyInv
    /\ state = "initSelecting" => oldAddr = NoAddr
    /\ timer > 0 => pc \in {"wait", "stopping", "lastcall", "stopped"}
    /\ pc = "wait" => timer # Unset
    /\ oldAddr # NoAddr =>
          /\ pc = "wait" /\ timer > 0 =>
                \/ toExpire - timer > -Backoff
                \/ timer <= toRenew /\ toExpire < toRenew
          /\ pc = "acquire" /\ timeout > 0 =>
                /\ state = "renewing" => timeout <= toRebind
                /\ state = "rebinding" => timeout <= toExpire

LEMMA DecideHold ==
    ASSUME HoldInv, Decide, EarlyInv'
    PROVE  HoldInv'
<1>1. /\ UNCHANGED <<state, oldAddr, toRenew, toExpire>>
      /\ pc' \in {"wait", "stopping", "advance"} /\ timer' = Armed
      /\ pc' # "wait" => state # Decision /\ Decision # "renewing"
      /\ pc' = "wait" => state = Decision \/ Decision = "renewing"
      /\ timer <= 0
    BY DEF Decide, times, HoldInv, EarlyInv, TypeOK
<1>2. Armed > 0 => pc' = "wait"
    BY <1>1 DEF HoldInv, EarlyInv, TypeOK, Armed, waitDuration, TooEarly, Decision
<1>3. Armed # Unset
    BY <1>1, ClientConstants
       DEF HoldInv, EarlyInv, TypeOK, Armed, waitDuration, TooEarly, Unset
<1>4. ASSUME oldAddr # NoAddr, pc' = "wait", Armed > 0
      PROVE  \/ toExpire - Armed > -Backoff
             \/ Armed <= toRenew /\ toExpire < toRenew
    <2>1. toExpire > 0
        BY <1>1, <1>4 DEF HoldInv, Decision, EarlyInv, TypeOK
    <2>2. Armed \in {Backoff, toRenew}
        BY <1>1, <1>4 DEF Armed, waitDuration, EarlyInv, HoldInv, TypeOK
    <2> QED
        BY <2>1, <2>2, ClientConstants DEF HoldInv, EarlyInv, TypeOK
<1> QED
    BY <1>1, <1>2, <1>3, <1>4 DEF HoldInv

LEMMA AdvanceHold ==
    ASSUME HoldInv, Advance, EarlyInv'
    PROVE  HoldInv'
<1>1. /\ UNCHANGED <<oldAddr, toRenew, toRebind, toExpire, timer>>
      /\ pc = "advance" /\ pc' \in {"cleanup", "acquire"} /\ ~(timer > 0)
      /\ pc' = "cleanup" => state' = state
      /\ pc' = "acquire" => state' = next /\ timeout' = acquisitionTimeout(next)
    BY DEF Advance, times, HoldInv
<1>2. state' = "initSelecting" => oldAddr' = NoAddr
    BY <1>1 DEF Advance, Expires, HoldInv
<1>3. ASSUME pc' = "acquire", timeout' > 0
      PROVE  /\ state' = "renewing" => timeout' <= toRebind
             /\ state' = "rebinding" => timeout' <= toExpire
    BY <1>1, <1>3, ClientConstants DEF acquisitionTimeout, Least, HoldInv, EarlyInv, TypeOK
<1> QED
    BY <1>1, <1>2, <1>3 DEF HoldInv

\* What lies between two instants does not shrink when the clock moves.
LEMMA Shifted ==
    ASSUME NEW x \in Int, NEW t \in Int, NEW y \in Int, NEW u \in Int, NEW k \in Int,
           NEW b \in Int, x - t > b, y >= x - k, u = t - k
    PROVE  y - u > b
OBVIOUS

\* A step that only moves the clock, forward or back.
LEMMA TimeHold ==
    ASSUME HoldInv, NEW k \in Int, PassTime(k), EarlyInv', UNCHANGED <<pc, state, oldAddr>>
    PROVE  HoldInv'
<1>1. TypeOK /\ Horizon \in Nat /\ Backoff \in Nat \ {0}
    BY ClientConstants DEF HoldInv, EarlyInv
<1>2. (timer' > 0 => timer > 0) /\ (timer' = Unset <=> timer = Unset)
    BY <1>1 DEF PassTime, TimerAfter, TypeOK, Unset, Fired
<1>3. toExpire' >= toExpire - k /\ toRebind' >= toRebind - k /\ toRenew' >= toRenew - k
    BY <1>1 DEF PassTime, Earlier, Past, TypeOK
<1>4. toExpire' = toExpire - k \/ toExpire' <= 0
    BY <1>1 DEF PassTime, Earlier, Past, TypeOK
<1>5. ASSUME timer' > 0,
             \/ toExpire - timer > -Backoff
             \/ timer <= toRenew /\ toExpire < toRenew
      PROVE  \/ toExpire' - timer' > -Backoff
             \/ timer' <= toRenew' /\ toExpire' < toRenew'
    <2>1. timer' = timer - k
        BY <1>1, <1>2, <1>5 DEF PassTime, TimerAfter, TypeOK, Fired
    <2>2. /\ toExpire' \in Int /\ toRenew' \in Int /\ timer' \in Int
          /\ toExpire \in Int /\ toRenew \in Int /\ timer \in Int
        BY <1>1, PassTimeType DEF TypeOK
    <2>3. CASE toExpire - timer > -Backoff
        <3>1. -Backoff \in Int
            BY <1>1
        <3>2. toExpire' >= toExpire - k
            BY <1>3
        <3>3. toExpire' - timer' > -Backoff
            BY <2>1, <2>2, <2>3, <3>1, <3>2, Shifted
        <3> QED
            BY <3>3
    <2>4. CASE timer <= toRenew /\ toExpire < toRenew
        BY <1>3, <1>4, <1>5, <2>1, <2>2, <2>4
    <2> QED
        BY <1>5, <2>3, <2>4
<1>6. ASSUME timeout' > 0 PROVE timeout > 0 /\ timeout' = timeout - k
    BY <1>1, <1>6 DEF PassTime, Earlier, Past, TypeOK
<1>7. /\ toExpire' \in Int /\ toRebind' \in Int /\ timeout' \in Int
      /\ toExpire \in Int /\ toRebind \in Int /\ timeout \in Int
    BY <1>1, PassTimeType DEF TypeOK
<1>8. ASSUME oldAddr # NoAddr, pc = "acquire", timeout' > 0
      PROVE  /\ state = "renewing" => timeout' <= toRebind'
             /\ state = "rebinding" => timeout' <= toExpire'
    BY <1>3, <1>6, <1>7, <1>8 DEF HoldInv
<1> QED
    BY <1>2, <1>5, <1>8 DEF HoldInv

LEMMA HoldStep ==
    ASSUME HoldInv, Next
    PROVE  HoldInv'
<1>0. EarlyInv'
    BY EarlyStep DEF HoldInv
<1>1. ASSUME NEW x \in Addrs, NEW o \in Offers, Acquired(x, o) PROVE HoldInv'
    BY <1>0, <1>1 DEF Acquired, HoldInv
<1>2. CASE AcquireFails
    BY <1>0, <1>2 DEF AcquireFails, HoldInv, times
<1>3. CASE Panics \/ Stop \/ Cancel
    BY <1>0, <1>3 DEF Panics, Stop, Cancel, HoldInv, times
<1>4. CASE WaitEnds
    BY <1>0, <1>4 DEF WaitEnds, HoldInv, times, Fired, Drained
<1>5. CASE CallbackReturns \/ CleanupReturns \/ LastCallReturns
    BY <1>0, <1>5 DEF CallbackReturns, CleanupReturns, LastCallReturns, afterCleanup, HoldInv
<1>6. CASE Tick
    BY <1>0, <1>6, TimeHold DEF Tick
<1>7. ASSUME NEW k \in Jumps, SetTime(k) PROVE HoldInv'
    BY <1>0, <1>7, TimeHold, ClientConstants DEF SetTime
<1> QED
    BY <1>0, <1>1, <1>2, <1>3, <1>4, <1>5, <1>6, <1>7, DecideHold, AdvanceHold
       DEF Next, ClientNext, AcquireStep, RunStep, ReturnStep

LEMMA HoldBounds ==
    HoldInv => HeldWithinLease
BY ClientConstants
   DEF HoldInv, HeldWithinLease, Waiting, Stalled, EarlyInv, TypeOK, Unset, Fired, Drained

(***************************************************************************)
(* The client never waits on an address whose lease has run out by a       *)
(* backoff or more, for every acquisition timeout, backoff and duration of *)
(* the callbacks and wherever the clock is set, unless it is stalled or T1 *)
(* or T2 came past the end of the lease (client.go:188-208, 273-318).      *)
(***************************************************************************)
THEOREM LeaseBoundsHold == Spec => []HeldWithinLease
<1>1. ClientInit => HoldInv
    <2>1. ClientInit => EarlyInv
        BY TypeInit DEF ClientInit, EarlyInv
    <2> QED
        BY <2>1 DEF ClientInit, HoldInv, Unset
<1>2. HoldInv /\ UNCHANGED clientVars => HoldInv'
    BY DEF HoldInv, EarlyInv, TypeOK, TooEarly, ForwardOnly, clientVars, times
<1> QED
    BY <1>1, <1>2, HoldBounds, HoldStep, PTL DEF Spec
-----------------------------------------------------------------------------
(***************************************************************************)
(* The client inside the applet.  The first answer of NTP moves the clock  *)
(* far forward under the client's feet (main.go:294): that neither makes   *)
(* it panic nor lets an address outlive its lease.                         *)
(***************************************************************************)
LEMMA NetHoldStep ==
    ASSUME HoldInv, [NetNext]_allVars
    PROVE  HoldInv'
<1>1. ASSUME UNCHANGED clientVars PROVE HoldInv'
    <2>1. EarlyInv'
        <3>1. EarlyInv /\ UNCHANGED clientVars
            BY <1>1 DEF HoldInv
        <3> QED
            BY <3>1 DEF EarlyInv, TypeOK, TooEarly, ForwardOnly, clientVars, times
    <2> QED
        BY <1>1, <2>1, Zenon DEF HoldInv, clientVars, times
<1>2. CASE ClientNext \/ AcquiredReturns
    BY <1>2, HoldStep DEF Next, AcquiredReturns
<1>3. CASE Enter \/ Renewed \/ CancelChild \/ AwaitChild \/ AddAddress
    BY <1>1, <1>3 DEF Enter, Renewed, CancelChild, AwaitChild, AddAddress
<1>4. ASSUME NEW x \in Addrs, FStep(x) PROVE HoldInv'
    <2>1. CASE FSynced(x) /\ ~clockSet
        <3>1. ColdStartJump \in Int /\ ColdStartJump >= 0
            BY ClientConstants DEF ColdStartJump
        <3>2. /\ PassTime(ColdStartJump)
              /\ UNCHANGED <<pc, state, addr, oldAddr, next, call, elapsed, ctxDone, jumps>>
            BY <2>1 DEF FSynced
        <3>3. TypeOK'
            BY <3>1, <3>2, ClockType DEF HoldInv, EarlyInv, TypeOK
        <3>4. EarlyInv'
            BY <3>1, <3>2, <3>3, TimeEarly DEF HoldInv, ForwardOnly
        <3> QED
            BY <3>1, <3>2, <3>4, TimeHold
    <2>2. CASE FSynced(x) /\ clockSet
        BY <1>1, <2>2 DEF FSynced
    <2>3. CASE FStart(x) \/ FFails(x) \/ FCanceled(x) \/ FSignals(x)
        BY <1>1, <2>3 DEF FStart, FFails, FCanceled, FSignals
    <2> QED
        BY <1>4, <2>1, <2>2, <2>3 DEF FStep
<1>5. CASE UNCHANGED allVars
    BY <1>1, <1>5 DEF allVars
<1> QED
    BY <1>2, <1>3, <1>4, <1>5 DEF NetNext, AcquiredStep

LEMMA NetHoldInit ==
    NetInit => HoldInv
<1>1. ClientInit => EarlyInv
    BY TypeInit DEF ClientInit, EarlyInv
<1> QED
    BY <1>1 DEF NetInit, ClientInit, HoldInv, Unset

(***************************************************************************)
(* In the applet, too, the client panics only if the clock was set back:   *)
(* not over the jump of a cold start, nor over a callback that waits for   *)
(* an f to end (client.go:285, net.go:125, main.go:294).                   *)
(***************************************************************************)
THEOREM NetPanicNeedsSetBack == NetSpec => []NoPanic
<1>1. HoldInv => NoPanic
    BY DEF HoldInv, EarlyInv, ForwardOnly, NoPanic
<1> QED
    BY <1>1, NetHoldInit, NetHoldStep, PTL DEF NetSpec

(***************************************************************************)
(* In the applet, too, and after NTP has set the clock as before, the      *)
(* client never waits on an address whose lease has run out by a backoff   *)
(* or more, with the exceptions of HeldWithinLease (net.go:86,             *)
(* main.go:294).                                                           *)
(***************************************************************************)
THEOREM NetLeaseBoundsHold == NetSpec => []HeldWithinLease
BY NetHoldInit, NetHoldStep, HoldBounds, PTL DEF NetSpec
-----------------------------------------------------------------------------
(***************************************************************************)
(* The refinement of NetworkSession, one lemma for the steps of acquired   *)
(* and one for those of f and of the client.                               *)
(***************************************************************************)
Runs == {x \in Addrs : Live(x)}

\* A step that changes none of what the session is made of.
LEMMA SessionStutters ==
    ASSUME UNCHANGED <<nic, routed, cancelled, fDone, ctxDone>>, Runs' = Runs
    PROVE  UNCHANGED Session!session
BY DEF Session!session, Runs, ContextDone

LEMMA AcquiredRefines ==
    ASSUME LifecycleInv, AcquiredStep
    PROVE  Session!Next \/ UNCHANGED Session!session
<1>1. CASE Enter \/ AcquiredReturns
    <2>1. UNCHANGED <<nic, routed, cancelled, child, fDone, ctxDone>>
        BY <1>1 DEF Enter, AcquiredReturns, clientVars, ReturnStep, CallbackReturns,
                    CleanupReturns, LastCallReturns
    <2> QED
        BY <2>1, SessionStutters DEF Runs, Live
<1>2. CASE Renewed
    <2>1. /\ UNCHANGED <<nic, cancelled, child, fDone, ctxDone>> /\ routed' = call.new
          /\ step = "renewed"
        BY <1>2 DEF Renewed, clientVars
    <2>2. call.new = Current /\ call.new \in Addrs
        BY <2>1 DEF LifecycleInv, CallInv, StepInv, Current, InCallback
    <2>3. nic # {} => nic = {call.new}
        BY <2>2 DEF LifecycleInv, ChildInv
    <2>4. Session!Reroute
        BY <2>1, <2>2, <2>3 DEF Session!Reroute, ContextDone, Live
    <2> QED
        BY <2>4 DEF Session!Next
<1>3. CASE CancelChild
    <2>1. UNCHANGED <<nic, routed, child, fDone, ctxDone>> /\ cancelled' \in {cancelled, "yes"}
        BY <1>3 DEF CancelChild, clientVars
    <2>2. CASE ContextDone' = ContextDone
        BY <2>1, <2>2 DEF Session!session, Live
    <2>3. CASE ContextDone' # ContextDone
        <3>1. ~ContextDone /\ ContextDone'
            BY <2>1, <2>3 DEF ContextDone
        <3> QED
            BY <2>1, <3>1 DEF Session!Next, Session!Ask, Live
    <2> QED
        BY <2>2, <2>3
<1>4. CASE AwaitChild
    <2>1. /\ UNCHANGED <<routed, cancelled, child, ctxDone>> /\ step = "await"
          /\ fDone > 0 /\ fDone' = fDone - 1 /\ nic' = nic \ {call.old}
        BY <1>4 DEF AwaitChild, RemoveAddress, clientVars
    <2>2. fDone = 1 /\ fDone' = 0
        BY <2>1 DEF LifecycleInv, StepInv
    <2>3. nic = {call.old} /\ nic' = {} /\ \A x \in Addrs : ~Live(x)
        BY <2>1, <2>2 DEF LifecycleInv, ChildInv, StepInv, CallInv, Current
    <2>4. Session!Remove
        BY <2>1, <2>2, <2>3 DEF Session!Remove, ContextDone, Live
    <2> QED
        BY <2>4 DEF Session!Next
<1>5. CASE AddAddress
    <2>1. /\ step = "add" /\ UNCHANGED <<fDone, ctxDone>>
          /\ nic = {} /\ fDone = 0 /\ \A x \in Addrs : ~Live(x)
        BY <1>5 DEF AddAddress, clientVars, LifecycleInv, ChildInv, StepInv
    <2>2. CASE UNCHANGED <<nic, routed, cancelled, child>>
        BY <2>1, <2>2, SessionStutters DEF Runs, Live
    <2>3. CASE /\ call.new # NoAddr /\ nic' = nic \cup {call.new} /\ routed' = call.new
               /\ cancelled' = "no" /\ child' = [child EXCEPT ![call.new] = "start"]
        <3>1. call.new \in Addrs
            BY <2>1, <2>3 DEF LifecycleInv, CallInv, StepInv
        <3>2. child'[call.new] = "start" /\ \A x \in Addrs : x # call.new => child'[x] = "none"
            BY <2>1, <2>3, <3>1 DEF LifecycleInv, StepInv, Live
        <3>3. {x \in Addrs : Live(x)} = {} /\ {x \in Addrs : Live(x)}' = {call.new}
            BY <2>1, <3>1, <3>2 DEF Live
        <3>4. Session!Install(call.new)
            BY <2>1, <2>3, <3>3 DEF Session!Install, ContextDone
        <3> QED
            BY <3>1, <3>4 DEF Session!Next
    <2> QED
        BY <1>5, <2>2, <2>3 DEF AddAddress
<1> QED
    BY <1>1, <1>2, <1>3, <1>4, <1>5 DEF AcquiredStep

LEMMA FRefines ==
    ASSUME LifecycleInv, NEW x \in Addrs, FStep(x)
    PROVE  Session!Next \/ UNCHANGED Session!session
<1>1. CASE FSignals(x)
    <2>1. /\ child[x] = "exiting" /\ fDone = 0 /\ fDone' = 1
          /\ child' = [child EXCEPT ![x] = "none"]
          /\ UNCHANGED <<nic, routed, cancelled, ctxDone>>
        BY <1>1 DEF FSignals, To, clientVars
    <2>2. \A y \in Addrs : y # x => ~Live(y)
        BY <2>1 DEF LifecycleInv, ChildInv, Live
    <2>3. Live(x) /\ \A y \in Addrs : child'[y] = "none"
        BY <2>1, <2>2 DEF LifecycleInv, StepInv, Live
    <2>4. ContextDone
        BY <2>1 DEF LifecycleInv, EndInv
    <2>5. Session!End
        BY <2>1, <2>3, <2>4 DEF Session!End, ContextDone, Live
    <2> QED
        BY <2>5 DEF Session!Next
<1>2. CASE ~FSignals(x)
    <2>1. UNCHANGED <<ctxDone, nic, routed, cancelled, fDone>>
        BY <1>2 DEF FStep, FStart, FSynced, FFails, FCanceled, clientVars
    <2>2. PICK s \in childStates \ {"none"} : To(x, s)
        BY <1>2 DEF FStep, FStart, FSynced, FFails, FCanceled, childStates, afterError,
                    afterCanceled
    <2>3. Live(x)
        BY <1>2 DEF FStep, FStart, FSynced, FFails, FCanceled, Live
    <2>4. child'[x] = s /\ \A y \in Addrs : y # x => child'[y] = child[y]
        BY <2>2 DEF To, LifecycleInv, StepInv
    <2>5. Runs' = Runs
        BY <2>2, <2>3, <2>4 DEF Runs, Live
    <2> QED
        BY <2>1, <2>5, SessionStutters
<1> QED
    BY <1>1, <1>2

LEMMA ClientRefines ==
    ASSUME LifecycleInv, ClientNext, UNCHANGED netVars
    PROVE  Session!Next \/ UNCHANGED Session!session
<1>1. UNCHANGED <<nic, routed, cancelled, child, fDone>> /\ (ctxDone => ctxDone')
    BY ClientFrame DEF netVars, LifecycleInv
<1>2. CASE ContextDone' = ContextDone
    BY <1>1, <1>2 DEF Session!session, Live
<1>3. CASE ContextDone' # ContextDone
    <2>1. ~ContextDone /\ ContextDone'
        BY <1>1, <1>3 DEF ContextDone
    <2> QED
        BY <1>1, <2>1 DEF Session!Next, Session!Ask, Live
<1> QED
    BY <1>2, <1>3

(***************************************************************************)
(* runDHCP keeps its promise to f, for every number of addresses, lease    *)
(* times, delays and settings of the clock: the client, the callback and   *)
(* the goroutines of f together implement NetworkSession (net.go:83-170).  *)
(***************************************************************************)
THEOREM NetImplementsSession == NetSpec => ImplementsSession
<1>1. NetInit => Session!Init
    BY DEF NetInit, ClientInit, Session!Init, Live, ContextDone
<1>2. LifecycleInv /\ [NetNext]_allVars => [Session!Next]_(Session!session)
    <2> SUFFICES ASSUME LifecycleInv, [NetNext]_allVars
                 PROVE  Session!Next \/ UNCHANGED Session!session
        OBVIOUS
    <2>1. CASE UNCHANGED allVars
        BY <2>1, SessionStutters DEF allVars, netVars, clientVars, Runs, Live
    <2>2. CASE NetNext
        BY <2>2, ClientRefines, AcquiredRefines, FRefines DEF NetNext
    <2> QED
        BY <2>1, <2>2
<1> QED
    BY <1>1, <1>2, LifecycleInit, LifecycleNext, PTL
       DEF NetSpec, ImplementsSession, Session!Spec

\* The first answer of NTP, seen by the client: the clock moves far ahead.
ColdStart ==
    /\ PassTime(ColdStartJump)
    /\ UNCHANGED <<pc, state, addr, oldAddr, next, call, elapsed, ctxDone, jumps>>

(***************************************************************************)
(* Inside the applet the client behaves as module DHCPClient says: every   *)
(* step of the applet is a step of the client on its own, is not seen by   *)
(* it, or is the jump of the clock at a cold start, which happens once     *)
(* (main.go:290-297).                                                      *)
(***************************************************************************)
THEOREM NetContainsClient ==
    NetSpec => /\ ClientInit
               /\ [][Next \/ (~clockSet /\ clockSet' /\ ColdStart)]_clientVars
               /\ [][clockSet => clockSet']_allVars
<1> DEFINE OwnStep == Next \/ (~clockSet /\ clockSet' /\ ColdStart)
<1>1. NetInit => ClientInit
    BY DEF NetInit
<1>2. [NetNext]_allVars => [OwnStep]_clientVars
    <2> SUFFICES ASSUME [NetNext]_allVars PROVE OwnStep \/ UNCHANGED clientVars
        OBVIOUS
    <2>1. CASE ClientNext \/ AcquiredReturns
        BY <2>1 DEF Next, AcquiredReturns
    <2>2. CASE Enter \/ Renewed \/ CancelChild \/ AwaitChild \/ AddAddress
        BY <2>2 DEF Enter, Renewed, CancelChild, AwaitChild, AddAddress
    <2>3. ASSUME NEW x \in Addrs, FStep(x) PROVE OwnStep \/ UNCHANGED clientVars
        <3>1. CASE FSynced(x)
            BY <3>1 DEF FSynced, ColdStart
        <3>2. CASE FStart(x) \/ FFails(x) \/ FCanceled(x) \/ FSignals(x)
            BY <3>2 DEF FStart, FFails, FCanceled, FSignals
        <3> QED
            BY <2>3, <3>1, <3>2 DEF FStep
    <2>4. CASE UNCHANGED allVars
        BY <2>4 DEF allVars
    <2> QED
        BY <2>1, <2>2, <2>3, <2>4 DEF NetNext, AcquiredStep
<1>3. NetNext => (clockSet => clockSet')
    <2>1. ClientNext /\ UNCHANGED netVars => clockSet' = clockSet
        BY DEF netVars, cfgVars
    <2>2. AcquiredStep => clockSet' = clockSet
        BY Zenon DEF AcquiredStep, Enter, Renewed, CancelChild, AwaitChild, AddAddress,
                     AcquiredReturns, cfgVars
    <2>3. ASSUME NEW x \in Addrs, FStep(x) PROVE clockSet => clockSet'
        BY <2>3, Zenon DEF FStep, FStart, FSynced, FFails, FCanceled, FSignals, cfgVars
    <2> QED
        BY <2>1, <2>2, <2>3, Zenon DEF NetNext
<1> QED
    BY <1>1, <1>2, <1>3, PTL DEF NetSpec

(***************************************************************************)
(* How many steps of its own Run has left, at most, when its context is    *)
(* done.  An acquire that began before may still end with a lease and a    *)
(* call of acquiredFunc; one that begins after has no time.                *)
(***************************************************************************)
StopRank ==
    CASE pc = "acquire" -> IF timeout > 0 THEN 9 ELSE 3
      [] pc = "callback" -> 8
      [] pc = "decide" -> 7
      [] pc = "wait" -> 6
      [] pc = "advance" -> 5
      [] pc = "cleanup" -> 4
      [] pc = "stopping" -> 2
      [] pc \in {"lastcall", "panicking"} -> 1
      [] OTHER -> 0

\* A step of Run comes closer to its end, and any other only moves the clock.
StopsAhead ==
    ctxDone =>
        /\ pc' # pc => StopRank' < StopRank
        /\ pc' = pc => StopRank' <= StopRank /\ UNCHANGED <<state, addr, oldAddr, next, call>>

LEMMA ClockAhead ==
    ASSUME TypeOK, NEW k \in Int, PassTime(k),
           UNCHANGED <<pc, state, addr, oldAddr, next, call>>
    PROVE  StopsAhead
<1>1. timeout \in Int /\ timeout' \in Int /\ (timeout' > 0 => timeout > 0)
    BY PassTimeType DEF TypeOK, PassTime
<1> QED
    BY <1>1 DEF StopsAhead, StopRank

LEMMA StopStep ==
    ASSUME TypeOK, Next
    PROVE  StopsAhead
<1> SUFFICES ASSUME ctxDone PROVE StopsAhead
    BY DEF StopsAhead
<1>0. timeout \in Int
    BY DEF TypeOK
<1>1. ASSUME NEW x \in Addrs, NEW o \in Offers, Acquired(x, o) PROVE StopsAhead
    BY <1>1 DEF Acquired, StopsAhead, StopRank
<1>2. CASE AcquireFails
    BY <1>0, <1>2 DEF AcquireFails, StopsAhead, StopRank
<1>3. CASE Decide \/ Panics \/ WaitEnds
    <2>1. \/ pc = "decide" /\ pc' \in {"stopping", "wait", "panicking", "panic"}
          \/ pc = "wait" /\ pc' \in {"stopping", "advance"}
        BY <1>3, Zenon DEF Decide, Panics, WaitEnds
    <2> QED
        BY <2>1 DEF StopsAhead, StopRank
<1>4. \A s : acquisitionTimeout(s) = 0
    <2>1. ctxDone = TRUE
        BY DEF TypeOK
    <2> QED
        BY <2>1, Zenon DEF acquisitionTimeout
<1>5. CASE Advance \/ CleanupReturns
    <2>1. \/ pc = "advance" /\ pc' = "cleanup"
          \/ pc \in {"advance", "cleanup"} /\ pc' = "acquire" /\ timeout' = 0
        BY <1>4, <1>5, Zenon DEF Advance, CleanupReturns
    <2> QED
        BY <2>1 DEF StopsAhead, StopRank
<1>6. CASE Stop \/ CallbackReturns \/ LastCallReturns
    <2>1. \/ pc = "stopping" /\ pc' \in {"stopped", "lastcall"}
          \/ pc = "callback" /\ pc' = "decide"
          \/ pc = "lastcall" /\ pc' = "stopped"
          \/ pc = "panicking" /\ pc' = "panic"
        BY <1>6, Zenon DEF Stop, CallbackReturns, LastCallReturns
    <2> QED
        BY <2>1 DEF StopsAhead, StopRank
<1>7. CASE Tick
    BY <1>7, ClockAhead DEF Tick
<1>8. ASSUME NEW k \in Jumps, SetTime(k) PROVE StopsAhead
    BY <1>8, ClockAhead, ClientConstants DEF SetTime
<1> QED
    BY <1>1, <1>2, <1>3, <1>5, <1>6, <1>7, <1>8
       DEF Next, ClientNext, AcquireStep, RunStep, ReturnStep, Cancel

(***************************************************************************)
(* Once its context is done, Run returns after at most nine steps of its   *)
(* own, whatever the lease times, the clock and acquiredFunc do: it never  *)
(* begins another round that could start over (client.go:188-208, 306-     *)
(* 329).  This is the variant behind RunStops.                             *)
(***************************************************************************)
THEOREM EveryStopStepAdvances == Spec => [][StopsAhead]_clientVars
<1>1. TypeOK /\ [Next]_clientVars => [StopsAhead]_clientVars
    BY StopStep
<1> QED
    BY <1>1, ClientTypeCorrect, PTL DEF Spec

(***************************************************************************)
(* The same inside the applet, where acquired waits for f and the first    *)
(* answer of NTP moves the clock (net.go:125, main.go:294).                *)
(***************************************************************************)
THEOREM NetStopStepAdvances == NetSpec => [][StopsAhead]_clientVars
<1> DEFINE OwnStep == Next \/ (~clockSet /\ clockSet' /\ ColdStart)
<1>1. NetTypeOK /\ [OwnStep]_clientVars => [StopsAhead]_clientVars
    <2> SUFFICES ASSUME TypeOK, OwnStep PROVE StopsAhead
        BY DEF NetTypeOK
    <2>1. CASE ColdStart
        <3>1. ColdStartJump \in Int
            BY ClientConstants DEF ColdStartJump
        <3> QED
            BY <2>1, <3>1, ClockAhead DEF ColdStart
    <2> QED
        BY <2>1, StopStep
<1> QED
    BY <1>1, NetTypeCorrect, NetContainsClient, PTL
=============================================================================

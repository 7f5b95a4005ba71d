---------------------------- MODULE NetLifecycle ----------------------------
(***************************************************************************)
(* The DHCP client together with what the applet hangs on it (net.go,      *)
(* runDHCP): the callback acquired, which puts leased addresses on the     *)
(* network interface, and the goroutine that runs f, which is              *)
(* runWithNetworking (main.go), for as long as an address is held.         *)
(*                                                                         *)
(* acquired runs on the goroutine of the client; it cancels the context of *)
(* f and receives from the channel fDone before it touches the address f   *)
(* works with.  A call takes as long as f takes to stop, up to MaxDelay.   *)
(***************************************************************************)
EXTENDS DHCPClient

VARIABLES step,      \* the next step of the call of acquired, "none" outside one
          nic,       \* the addresses on the interface
          routed,    \* the address that the route table is for
          cancelled, \* the context of the current f: "nil" before there was one
          child,     \* what the goroutines that run f are doing, per address
          fDone,     \* the number of values in the channel
          clockSet,  \* the clock has been set since boot
          ntpServer, \* the configuration, which the OS may replace, names an NTP server
          addFailed  \* history: an address could not be put on the interface

cfgVars == <<clockSet, ntpServer>>
netVars == <<step, nic, routed, cancelled, child, fDone, cfgVars, addFailed>>
allVars == <<clientVars, netVars>>

childStates == {"none", "start", "ntp", "serving", "exiting"}

NetInit ==
    /\ ClientInit
    /\ step = "none" /\ nic = {} /\ routed = NoAddr
    /\ cancelled = "nil"
    /\ child = [x \in Addrs |-> "none"]
    /\ fDone = 0
    /\ clockSet = FALSE /\ ntpServer \in BOOLEAN /\ addFailed = FALSE
-----------------------------------------------------------------------------
(***************************************************************************)
(* The callback acquired(oldAddr, newAddr, cfg).                           *)
(***************************************************************************)
\* A mutant: the old address is never looked at.
FirstStepIgnoresOld == IF call.old = call.new THEN "renewed" ELSE "add"

FirstStep ==
    CASE call.old = call.new -> "renewed"
      [] call.old # call.new /\ call.old # NoAddr -> "cancel"
      [] OTHER -> "add"

Enter ==
    /\ InCallback /\ step = "none"
    /\ step' = FirstStep
    /\ UNCHANGED <<clientVars, nic, routed, cancelled, child, fDone, cfgVars, addFailed>>

\* The lease was renewed: only the routes are set again.
Renewed ==
    /\ step = "renewed"
    /\ routed' = call.new
    /\ step' = "return"
    /\ UNCHANGED <<clientVars, nic, cancelled, child, fDone, cfgVars, addFailed>>

\* A mutant: acquired does not wait for f to end.
afterCancelNoWait == "add"

afterCancel == "await"

\* cancelChild(): calling the nil function would panic.
CancelChild ==
    /\ step = "cancel"
    /\ IF cancelled = "nil"
       THEN step' = "panic" /\ UNCHANGED cancelled
       ELSE step' = afterCancel /\ cancelled' = "yes"
    /\ UNCHANGED <<clientVars, nic, routed, child, fDone, cfgVars, addFailed>>

\* A mutant: the address is left on the interface.
RemoveAddressFails(n) == n

RemoveAddress(n) == n \ {call.old}

\* <-fDone, then the old address is removed.
AwaitChild ==
    /\ step = "await"
    /\ fDone > 0
    /\ fDone' = fDone - 1
    /\ nic' = RemoveAddress(nic)
    /\ step' = "add"
    /\ UNCHANGED <<clientVars, routed, cancelled, child, cfgVars, addFailed>>

\* The new address is added, and f started with a context of its own.
AddAddress ==
    /\ step = "add"
    /\ \/ /\ call.new = NoAddr
          /\ UNCHANGED <<nic, routed, cancelled, child, addFailed>>
       \/ /\ call.new # NoAddr
          /\ nic' = nic \cup {call.new}
          /\ routed' = call.new
          /\ cancelled' = "no"
          /\ child' = [child EXCEPT ![call.new] = "start"]
          /\ UNCHANGED addFailed
       \/ /\ call.new # NoAddr
          /\ addFailed' = TRUE
          /\ UNCHANGED <<nic, routed, cancelled, child>>
    /\ step' = "return"
    /\ UNCHANGED <<clientVars, fDone, cfgVars>>

AcquiredReturns ==
    /\ step = "return"
    /\ ReturnStep
    /\ step' = "none"
    /\ UNCHANGED <<nic, routed, cancelled, child, fDone, cfgVars, addFailed>>

AcquiredStep ==
    Enter \/ Renewed \/ CancelChild \/ AwaitChild \/ AddAddress \/ AcquiredReturns

(***************************************************************************)
(* The goroutine of f: runWithNetworking, called again and again until it  *)
(* returns context.Canceled.  The context is done when it was cancelled or *)
(* the context of runDHCP is done.                                         *)
(***************************************************************************)
ContextDone == cancelled = "yes" \/ ctxDone

To(x, s) == child' = [child EXCEPT ![x] = s]

\* GetMainNICAddress, then runNTP; without an address f returns an error.
FStart(x) ==
    /\ child[x] = "start"
    /\ To(x, IF nic = {} THEN "start" ELSE "ntp")
    /\ UNCHANGED <<clientVars, step, nic, routed, cancelled, fDone, cfgVars, addFailed>>

(***************************************************************************)
(* The wait for the first answer of NTP.  At a cold start it moves the     *)
(* clock from 1970 to the present, far beyond any lease, and f returns     *)
(* nil, to be called again.  Without a configured server runNTP returns a  *)
(* nil channel, and only the end of the context ends the wait.             *)
(***************************************************************************)
ColdStartJump == Horizon + SecondsLimit

\* A mutant: every start is taken for a cold one.
coldStartAlways == TRUE

coldStart == ~clockSet

FSynced(x) ==
    /\ child[x] = "ntp" /\ ntpServer
    /\ To(x, IF coldStart THEN "start" ELSE "serving")
    /\ IF clockSet
       THEN UNCHANGED clientVars
       ELSE /\ PassTime(ColdStartJump)
            /\ UNCHANGED <<pc, state, addr, oldAddr, next, call, elapsed, ctxDone, jumps>>
    /\ clockSet' = TRUE
    /\ UNCHANGED <<step, nic, routed, cancelled, fDone, ntpServer, addFailed>>

\* Mutants: any error of f ends the loop; none does.
afterErrorEnds == "exiting"
afterCanceledRetries == "start"

afterError == "start"
afterCanceled == "exiting"

\* Listening or omniwitness.Main fails: f returns an error and is called again.
FFails(x) ==
    /\ child[x] = "serving"
    /\ To(x, afterError)
    /\ UNCHANGED <<clientVars, step, nic, routed, cancelled, fDone, cfgVars, addFailed>>

\* f returns context.Canceled, and the loop ends.
FCanceled(x) ==
    /\ child[x] \in {"ntp", "serving"} /\ ContextDone
    /\ To(x, afterCanceled)
    /\ UNCHANGED <<clientVars, step, nic, routed, cancelled, fDone, cfgVars, addFailed>>

\* The deferred fDone <- true; the channel has room for one value.
FSignals(x) ==
    /\ child[x] = "exiting" /\ fDone = 0
    /\ fDone' = 1
    /\ To(x, "none")
    /\ UNCHANGED <<clientVars, step, nic, routed, cancelled, cfgVars, addFailed>>

FStep(x) == FStart(x) \/ FSynced(x) \/ FFails(x) \/ FCanceled(x) \/ FSignals(x)

NetNext ==
    \/ ClientNext /\ UNCHANGED netVars
    \/ AcquiredStep
    \/ \E x \in Addrs : FStep(x)

NetSpec == NetInit /\ [][NetNext]_allVars

(***************************************************************************)
(* Fairness: the goroutines are scheduled, time goes on, and f notices     *)
(* that its context is done whenever it keeps passing the places where it  *)
(* looks at it.                                                            *)
(***************************************************************************)
NetFairSpec ==
    /\ NetSpec
    /\ WF_allVars((AcquireStep \/ RunStep \/ Tick) /\ UNCHANGED netVars)
    /\ WF_allVars(AcquiredStep)
    /\ \A x \in Addrs : WF_allVars(FStart(x) \/ FSynced(x) \/ FSignals(x))
                        /\ SF_allVars(FCanceled(x))
-----------------------------------------------------------------------------
Live(x) == child[x] # "none"

\* Types of the variables that acquired and f add to the client's.
NetTypeOK ==
    /\ TypeOK
    /\ step \in {"none", "renewed", "cancel", "await", "add", "return", "panic"}
    /\ nic \subseteq Addrs /\ routed \in Addrs \cup {NoAddr}
    /\ cancelled \in {"nil", "no", "yes"}
    /\ child \in [Addrs -> childStates]
    /\ fDone \in 0 .. 1
    /\ clockSet \in BOOLEAN /\ ntpServer \in BOOLEAN /\ addFailed \in BOOLEAN

(***************************************************************************)
(* When acquired comes to install an address, the f of the previous        *)
(* address has ended and its signal has been received: there is never more *)
(* than one f, and no stale signal that would let the next change of       *)
(* address go ahead without waiting for f (net.go:99).                     *)
(***************************************************************************)
ChildGoneBeforeAdd == step = "add" => fDone = 0 /\ \A x \in Addrs : ~Live(x)

(***************************************************************************)
(* Whenever f runs, the address it was started for is on the interface and *)
(* the routes are for it.                                                  *)
(***************************************************************************)
ChildHasAddress == \A x \in Addrs : Live(x) => nic = {x} /\ routed = x

(***************************************************************************)
(* Between two calls of acquired the interface has exactly the address     *)
(* that the client believes it reported last (client.go:118), and a        *)
(* running f if there is one, unless an address could not be added.        *)
(***************************************************************************)
InterfaceFollowsLease ==
    ~addFailed /\ step = "none" /\ ~InCallback =>
        /\ nic = {oldAddr} \ {NoAddr}
        /\ oldAddr # NoAddr => Live(oldAddr) \/ fDone = 1

(***************************************************************************)
(* On a renewal "f should already be running, no need to interfere with    *)
(* it" (net.go:114): it is, unless an address could not be added, which    *)
(* acquired does not tell the client (net.go:143).                         *)
(***************************************************************************)
RenewalFindsChild == ~addFailed /\ step = "renewed" /\ ~ContextDone => Live(call.new)

\* runDHCP closes fDone when Run has ended; no f is left to send on it (net.go:102).
NoSendOnClosed == pc \in {"stopped", "panic"} => \A x \in Addrs : ~Live(x)

(***************************************************************************)
(* acquired returns, so that f does not "block the dhcp.Client" (net.go:   *)
(* 152).  After an address could not be added it may wait for an f that    *)
(* was never started, or call a nil cancelChild (net.go:123-125).          *)
(***************************************************************************)
AcquiredCompletes == InCallback ~> ~InCallback \/ addFailed

(***************************************************************************)
(* The context of f becomes done when the lease of its address has run     *)
(* out, also when it was f's own NTP query that moved the clock (net.go:   *)
(* 86, main.go:294), unless the call of acquired took so long that the     *)
(* client stalls (AlwaysReleased of module DHCPClient).                    *)
(***************************************************************************)
ExpiredCancelsChild ==
    \A x \in Addrs :
        Live(x) /\ oldAddr = x /\ toExpire <= 0 ~>
            ~Live(x) \/ ContextDone \/ toExpire > 0 \/ Stalled

(***************************************************************************)
(* Once an address is held, the witness gets to serve (main.go:277-279,    *)
(* 389).  With "NTP disabled." (net.go:211) it never does: the select at   *)
(* main.go:299 then receives from a nil channel.                           *)
(***************************************************************************)
WitnessServes ==
    \A x \in Addrs :
        child[x] = "start" /\ ntpServer ~> child[x] = "serving" \/ ContextDone

(***************************************************************************)
(* runDHCP keeps its promise to f (net.go:83-101), failures to add an      *)
(* address included: an address is installed, and f started, only when the *)
(* f of the previous address has ended and its signal was received; f ends *)
(* only when its context is done; and until its end the address is on the  *)
(* interface and the routes are for it.                                    *)
(***************************************************************************)
Session == INSTANCE NetworkSession WITH
               iface <- nic, routes <- routed, running <- {x \in Addrs : Live(x)},
               asked <- ContextDone, ended <- fDone = 1

ImplementsSession == Session!Spec
=============================================================================

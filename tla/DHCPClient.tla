----------------------------- MODULE DHCPClient -----------------------------
(***************************************************************************)
(* The loop of the DHCP client (third_party/dhcp/client.go, Run): acquire  *)
(* a lease, report it to acquiredFunc, wait for the renewal time, renew,   *)
(* rebind, and give the address up when the lease expires.                 *)
(*                                                                         *)
(* Time is discrete and relative: toRenew, toRebind and toExpire are the   *)
(* ticks left until the three instants that Run keeps, and may be          *)
(* negative.  Nothing tells apart instants further back than Past.  A tick *)
(* passes only while the client really waits: for the network, for its     *)
(* timer or for acquiredFunc.  The exchange of messages in acquire is      *)
(* module DHCPAcquire; here it succeeds or fails, at the latest when the   *)
(* acquisition timeout is over.                                            *)
(***************************************************************************)
EXTENDS Integers

CONSTANTS Addrs, NoAddr,
          Offers,        \* the lease times that servers may send
          SecondsLimit,  \* Seconds counts modulo this (2^32 in the code)
          defaultLeaseLength, Acquisition, Backoff,
          Horizon,       \* an instant that many ticks ago is long past
          MaxDelay,      \* the longest time that a call of acquiredFunc takes
          Jumps          \* by how much NTP may set the clock, forward or back; once each

Offer == [LeaseLength : 0 .. SecondsLimit - 1, RenewTime : 0 .. SecondsLimit - 1,
          RebindTime : 0 .. SecondsLimit - 1]

ASSUME ClientConstants ==
    /\ NoAddr \notin Addrs
    /\ SecondsLimit \in Nat \ {0}
    /\ Offers \subseteq Offer
    /\ defaultLeaseLength \in 1 .. SecondsLimit - 1
    /\ Acquisition \in Nat \ {0} /\ Backoff \in Nat \ {0}
    /\ Horizon \in Nat /\ Horizon > Backoff
    /\ MaxDelay \in Nat
    /\ Jumps \subseteq Int

VARIABLES pc,        \* what Run is doing
          state,     \* info.State
          addr,      \* info.Addr
          oldAddr,   \* info.OldAddr
          toRenew, toRebind, toExpire,
          timeout,   \* ticks left of the acquisition timeout
          timer,     \* Unset, Drained, Fired, or ticks left
          next,      \* the local next
          call,      \* the arguments of the call of acquiredFunc under way
          elapsed,   \* how long this call has taken
          ctxDone,   \* the context of Run is done
          jumps      \* history: by how much the clock has been set so far

times == <<toRenew, toRebind, toExpire>>
clientVars == <<pc, state, addr, oldAddr, times, timeout, timer, next, call, elapsed, ctxDone,
                jumps>>

Past == -Horizon

Unset == -2    \* timer = nil
Drained == -1  \* timer.C has been received from and the timer was not reset
Fired == 0
-----------------------------------------------------------------------------
(***************************************************************************)
(* The lease times that Run works with, made of those that the server sent *)
(* (client.go:221-244).  The comparisons are with the values as sent.      *)
(***************************************************************************)
Normalise(o) ==
    LET length == IF o.LeaseLength = 0 THEN defaultLeaseLength ELSE o.LeaseLength
    IN  [LeaseLength |-> length,
         RenewTime |->
            IF \/ o.LeaseLength # 0 /\ o.RenewTime >= o.LeaseLength
               \/ o.RenewTime = 0
            THEN length \div 2 ELSE o.RenewTime,
         RebindTime |->
            IF \/ o.RenewTime # 0 /\ o.RebindTime <= o.RenewTime
               \/ o.RebindTime = 0
            THEN ((length * 875) % SecondsLimit) \div 1000 ELSE o.RebindTime]

NoCall == [old |-> NoAddr, new |-> NoAddr]

ClientInit ==
    /\ pc = "acquire" /\ state = "initSelecting"
    /\ addr = NoAddr /\ oldAddr = NoAddr
    /\ toRenew = Past /\ toRebind = Past /\ toExpire = Past
    /\ timeout = Acquisition
    /\ timer = Unset
    /\ next = "initSelecting"
    /\ call = NoCall /\ elapsed = 0
    /\ ctxDone = FALSE /\ jumps = {}

(***************************************************************************)
(* acquire returns a configuration.  While renewing or rebinding only the  *)
(* address held is accepted; in initSelecting the server chooses.          *)
(***************************************************************************)
Acquired(x, o) ==
    /\ pc = "acquire" /\ timeout > 0
    /\ state # "initSelecting" => x = addr
    /\ addr' = x
    /\ toExpire' = Normalise(o).LeaseLength
    /\ toRenew' = Normalise(o).RenewTime
    /\ toRebind' = Normalise(o).RebindTime
    /\ call' = [old |-> oldAddr, new |-> x]
    /\ elapsed' = 0 /\ timeout' = 0
    /\ pc' = "callback"
    /\ UNCHANGED <<state, oldAddr, timer, next, ctxDone, jumps>>

AcquireFails ==
    /\ pc = "acquire"
    /\ pc' = IF ctxDone THEN "stopping" ELSE "decide"
    /\ timeout' = 0
    /\ UNCHANGED <<state, addr, oldAddr, times, timer, next, call, elapsed, ctxDone, jumps>>

\* acquiredFunc returns after an acquisition.
CallbackReturns ==
    /\ pc = "callback"
    /\ oldAddr' = addr
    /\ state' = "bound"
    /\ call' = NoCall /\ elapsed' = 0
    /\ pc' = "decide"
    /\ UNCHANGED <<addr, times, timeout, timer, next, ctxDone, jumps>>

(***************************************************************************)
(* The switch on the time, and the arming of the timer (client.go:273-302) *)
(* with the panic of a client that is renewing before its time.            *)
(***************************************************************************)
Decision ==
    IF toExpire <= 0 THEN "initSelecting"
    ELSE IF toRebind <= 0 THEN "rebinding"
    ELSE "renewing"

TooEarly == toExpire > 0 /\ toRebind > 0 /\ toRenew > 0

\* A mutant: the client waits for a backoff where it should wait for T1.
waitDurationShort == IF state = Decision \/ TooEarly THEN Backoff ELSE 0

waitDuration ==
    IF state = Decision THEN Backoff ELSE IF TooEarly THEN toRenew ELSE 0

Armed == IF timer = Unset \/ waitDuration # 0 THEN waitDuration ELSE timer

Decide ==
    /\ pc = "decide"
    /\ ~(TooEarly /\ state \in {"renewing", "rebinding"})
    /\ next' = Decision
    /\ timer' = Armed
    /\ pc' = IF state # Decision /\ Decision # "renewing"
             THEN IF ctxDone THEN "stopping" ELSE "advance"
             ELSE "wait"
    /\ UNCHANGED <<state, addr, oldAddr, times, timeout, call, elapsed, ctxDone, jumps>>

\* The deferred cleanup still runs: a last call of acquiredFunc if there is an address.
Panics ==
    /\ pc = "decide"
    /\ TooEarly /\ state \in {"renewing", "rebinding"}
    /\ IF oldAddr = NoAddr
       THEN pc' = "panic" /\ UNCHANGED <<call, elapsed>>
       ELSE /\ call' = [old |-> oldAddr, new |-> NoAddr]
            /\ elapsed' = 0
            /\ pc' = "panicking"
    /\ UNCHANGED <<state, addr, oldAddr, times, timeout, timer, next, ctxDone, jumps>>

\* A mutant: the wait for the timer does not end with the context.
DoneIgnored == FALSE

Done == ctxDone

WaitEnds ==
    /\ pc = "wait"
    /\ \/ Done /\ pc' = "stopping" /\ UNCHANGED timer
       \/ timer = Fired /\ pc' = "advance" /\ timer' = Drained
    /\ UNCHANGED <<state, addr, oldAddr, times, timeout, next, call, elapsed, ctxDone, jumps>>

Least(a, b) == IF a <= b THEN a ELSE b

\* A mutant: the timeout is not cut to what is left until T2 or the end of the lease.
acquisitionTimeoutFull(s) == IF ctxDone THEN 0 ELSE Acquisition

\* The time that the next acquire has when the client is in state s: none if
\* its context is done before it starts.
acquisitionTimeout(s) ==
    CASE ctxDone -> 0
      [] ~ctxDone /\ s = "renewing" -> Least(toRebind, Acquisition)
      [] ~ctxDone /\ s = "rebinding" -> Least(toExpire, Acquisition)
      [] OTHER -> Acquisition

\* cleanup is called when the lease has expired: acquiredFunc(oldAddr, none).
Expires == state # "initSelecting" /\ next = "initSelecting" /\ oldAddr # NoAddr

Advance ==
    /\ pc = "advance"
    /\ IF Expires
       THEN /\ call' = [old |-> oldAddr, new |-> NoAddr]
            /\ elapsed' = 0
            /\ pc' = "cleanup"
            /\ UNCHANGED <<state, timeout>>
       ELSE /\ state' = next
            /\ timeout' = acquisitionTimeout(next)
            /\ pc' = "acquire"
            /\ UNCHANGED <<call, elapsed>>
    /\ UNCHANGED <<addr, oldAddr, times, timer, next, ctxDone, jumps>>

\* A mutant: OldAddr is not cleared.
afterCleanupKept == oldAddr

afterCleanup == NoAddr

CleanupReturns ==
    /\ pc = "cleanup"
    /\ oldAddr' = afterCleanup
    /\ call' = NoCall /\ elapsed' = 0
    /\ state' = next
    /\ timeout' = acquisitionTimeout(next)
    /\ pc' = "acquire"
    /\ UNCHANGED <<addr, times, timer, next, ctxDone, jumps>>

(***************************************************************************)
(* The deferred cleanup when Run returns.                                  *)
(***************************************************************************)
Cancel ==
    /\ ~ctxDone /\ pc # "panic"
    /\ ctxDone' = TRUE
    /\ UNCHANGED <<pc, state, addr, oldAddr, times, timeout, timer, next, call, elapsed, jumps>>

Stop ==
    /\ pc = "stopping"
    /\ IF oldAddr = NoAddr
       THEN pc' = "stopped" /\ UNCHANGED <<call, elapsed>>
       ELSE /\ call' = [old |-> oldAddr, new |-> NoAddr]
            /\ elapsed' = 0
            /\ pc' = "lastcall"
    /\ UNCHANGED <<state, addr, oldAddr, times, timeout, timer, next, ctxDone, jumps>>

LastCallReturns ==
    /\ pc \in {"lastcall", "panicking"}
    /\ oldAddr' = afterCleanup
    /\ call' = NoCall /\ elapsed' = 0
    /\ pc' = IF pc = "lastcall" THEN "stopped" ELSE "panic"
    /\ UNCHANGED <<state, addr, times, timeout, timer, next, ctxDone, jumps>>

(***************************************************************************)
(* The passing of time.  Setting the clock moves the instants, the timer   *)
(* and the acquisition timeout alike, since the runtime of the applet has  *)
(* only one clock (main.go:294).                                           *)
(***************************************************************************)
Earlier(t, k) == IF t - k < Past THEN Past ELSE t - k

TimerAfter(k) == IF timer > 0 THEN IF timer - k > 0 THEN timer - k ELSE Fired ELSE timer

PassTime(k) ==
    /\ toRenew' = Earlier(toRenew, k)
    /\ toRebind' = Earlier(toRebind, k)
    /\ toExpire' = Earlier(toExpire, k)
    /\ timeout' = IF timeout > 0 THEN Earlier(timeout, k) ELSE timeout
    /\ timer' = TimerAfter(k)

InCallback == pc \in {"callback", "cleanup", "lastcall", "panicking"}

\* The client waits for the network or for its timer.
Waiting == (pc = "acquire" /\ timeout > 0) \/ (pc = "wait" /\ timer # Fired)

Tick ==
    /\ \/ Waiting /\ ~ctxDone
       \/ InCallback /\ elapsed < MaxDelay
    /\ PassTime(1)
    /\ elapsed' = IF InCallback THEN elapsed + 1 ELSE elapsed
    /\ UNCHANGED <<pc, state, addr, oldAddr, next, call, ctxDone, jumps>>

\* applet.ARM.SetTime: forward for k > 0, back for k < 0.  The clock is set only
\* while the instants are known, and not back to before a default lease began.
SetTime(k) ==
    /\ pc \notin {"panic", "stopped"}
    /\ k \notin jumps /\ jumps' = jumps \cup {k}
    /\ toExpire > Past /\ toRebind > Past /\ toRenew > Past
    /\ toExpire - k <= defaultLeaseLength
    /\ PassTime(k)
    /\ UNCHANGED <<pc, state, addr, oldAddr, next, call, elapsed, ctxDone>>

AcquireStep == AcquireFails \/ \E x \in Addrs, o \in Offers : Acquired(x, o)

RunStep == Decide \/ Panics \/ WaitEnds \/ Advance \/ Stop

ReturnStep == CallbackReturns \/ CleanupReturns \/ LastCallReturns

ClientNext ==
    \/ AcquireStep
    \/ RunStep
    \/ Cancel
    \/ Tick
    \/ \E k \in Jumps : SetTime(k)

Next == ClientNext \/ ReturnStep

Spec == ClientInit /\ [][Next]_clientVars

(***************************************************************************)
(* The goroutine of Run is scheduled, acquire honours its timeout,         *)
(* acquiredFunc returns, and time goes on.                                 *)
(***************************************************************************)
FairSpec == /\ Spec
            /\ WF_clientVars(AcquireStep) /\ WF_clientVars(RunStep)
            /\ WF_clientVars(ReturnStep) /\ WF_clientVars(Tick)
-----------------------------------------------------------------------------
TypeOK ==
    /\ pc \in {"acquire", "callback", "decide", "wait", "advance", "cleanup",
               "stopping", "lastcall", "stopped", "panicking", "panic"}
    /\ state \in {"initSelecting", "bound", "renewing", "rebinding"}
    /\ addr \in Addrs \cup {NoAddr} /\ oldAddr \in Addrs \cup {NoAddr}
    /\ toRenew \in Int /\ toRebind \in Int /\ toExpire \in Int /\ timeout \in Int
    /\ timer \in Int /\ timer >= Unset
    /\ next \in {"initSelecting", "renewing", "rebinding"}
    /\ call \in [old : Addrs \cup {NoAddr}, new : Addrs \cup {NoAddr}]
    /\ elapsed \in 0 .. MaxDelay
    /\ ctxDone \in BOOLEAN /\ jumps \subseteq Jumps
    /\ pc = "acquire" => state # "bound"
    /\ oldAddr # NoAddr => addr = oldAddr \/ pc = "callback"

\* Run waits for a timer that has fired already and was not armed again.
Stalled == pc = "wait" /\ timer = Drained

(***************************************************************************)
(* The client never waits while it holds an address whose lease has run    *)
(* out by a backoff or more: the renewal and rebinding retries, their      *)
(* timeouts and the timer together bring it to initSelecting in time       *)
(* (client.go:188-208), also after the clock was set, which moves the      *)
(* timers with the lease (main.go:294), unless the client is stalled or    *)
(* the server sent a T1 or a T2 past the end of the lease.  Such a T2 is   *)
(* never repaired, and such a T1 only if the length was sent too           *)
(* (client.go:228), although both "MUST be earlier" (client.go:271).       *)
(***************************************************************************)
HeldWithinLease ==
    /\ ~Stalled
    /\ toRenew <= toExpire /\ toRebind <= toExpire
    /\ oldAddr # NoAddr /\ Waiting
    => toExpire > -Backoff

(***************************************************************************)
(* The client does not find itself renewing or rebinding before its time,  *)
(* which it answers with a panic (client.go:285), unless the clock was set *)
(* back.                                                                   *)
(***************************************************************************)
NoPanic == pc \in {"panicking", "panic"} => \E k \in jumps : k < 0

(***************************************************************************)
(* An address whose lease has run out is given up or leased anew (client.  *)
(* go:317), whatever the clock does, and even if the client panics         *)
(* (client.go:174), unless it stalls: a callback that returns after T1     *)
(* leaves it without an armed timer (client.go:300).                       *)
(***************************************************************************)
ExpiredIsReleased ==
    oldAddr # NoAddr /\ toExpire <= 0 ~>
        oldAddr = NoAddr \/ toExpire > 0 \/ Stalled

(***************************************************************************)
(* The same without the exception for a stalled client: the context of f   *)
(* "will become Done when the leased address expires" (net.go:87).         *)
(***************************************************************************)
AlwaysReleased ==
    oldAddr # NoAddr /\ toExpire <= 0 ~> oldAddr = NoAddr \/ toExpire > 0

(***************************************************************************)
(* Run returns once its context is done (net.go:90), whatever the lease    *)
(* times, the clock and acquiredFunc do, even if it waits for a timer that *)
(* will not fire.  A panic has ended it as well.                           *)
(***************************************************************************)
RunStops == ctxDone ~> pc \in {"stopped", "panic"}
=============================================================================
